---------------------------- MODULE HookDaemon ----------------------------
(***************************************************************************)
(* The hook daemon (internal/hookdaemon) and the `engram hook` shims       *)
(* (cmd/engram/hook.go) that talk to it over a Unix socket.                *)
(*                                                                         *)
(* Every connection is served by a goroutine of its own; a step below is   *)
(* one critical section of Daemon.mu or one call to the Engram server or   *)
(* the file system.  A tool failure is a numbered entry.  Timers count     *)
(* down (or up to their limit), so time is unbounded and the state finite. *)
(***************************************************************************)
EXTENDS Naturals, Sequences, SequencesExt, FiniteSetsExt

CONSTANTS
    Shims,          \* the hook processes that may run at the same time
    MaxRequests,    \* bound: requests sent by all of them
    MaxEntries,     \* bound: failed tool calls buffered
    MaxStarts,      \* bound: daemon processes started
    IdleTimeout,    \* Config.IdleTimeout, in ticks
    DrainTimeout,   \* DrainIdleTimeout, in ticks
    AuthTTL         \* authCacheTTL, in ticks

ASSUME HookAssumption ==
    /\ {MaxRequests, MaxEntries, MaxStarts, DrainTimeout, AuthTTL} \subseteq Nat \ {0}
    /\ IdleTimeout \in Nat /\ DrainTimeout =< IdleTimeout

VARIABLES
    daemon,     \* "down", "listening", or "closing": the listener is closed
    starts,     \* daemon processes started so far
    requests,   \* requests begun so far
    left,       \* idleDeadline - now, at least 0
    quiet,      \* now - lastEventAt, at most DrainTimeout
    authAge,    \* now - authOKAt, AuthTTL when the cache is stale or empty
    token,      \* a token was loaded
    buffer,     \* pendingFallback
    file,       \* fallback.md
    entries,    \* history: entries handed to enqueueFallback
    conn,       \* per shim: request kind, step, and the flush it is in
    faulted     \* history: a flush overlapped another or could not read

hookVars == <<daemon, starts, requests, left, quiet, authAge, token, buffer,
              file, entries, conn, faulted>>

Kinds == {"SessionStart", "UserPromptSubmit", "PreToolUse", "PostToolUse",
          "Stop", "PreCompact", "unknown", "malformed"}

Steps == {"new", "start", "redial", "accepted", "health", "auth", "checking",
          "enqueue", "take", "read", "write", "requeue", "recall", "marker",
          "drain", "respond"}

HookTypeOK ==
    /\ daemon \in {"down", "listening", "closing"}
    /\ starts \in 0 .. MaxStarts /\ requests \in 0 .. MaxRequests
    /\ left \in 0 .. IdleTimeout /\ quiet \in 0 .. DrainTimeout
    /\ authAge \in 0 .. AuthTTL
    /\ token \in BOOLEAN /\ faulted \in BOOLEAN
    /\ entries \in 0 .. MaxEntries
    /\ buffer \in Seq(1 .. entries) /\ file \in Seq(1 .. entries)
    /\ \A s \in Shims :
          /\ conn[s].kind \in Kinds /\ conn[s].step \in Steps
          /\ conn[s].took \in Seq(1 .. entries)
          /\ conn[s].snap \in Seq(1 .. entries)

NoRequest == [kind |-> "unknown", step |-> "new", sends |-> 0,
              took |-> <<>>, snap |-> <<>>]

HookInit ==
    /\ daemon = "down" /\ starts = 0 /\ requests = 0
    /\ left = 0 /\ quiet = 0 /\ authAge = AuthTTL /\ token = FALSE
    /\ buffer = <<>> /\ file = <<>> /\ entries = 0
    /\ conn = [s \in Shims |-> NoRequest]
    /\ faulted = FALSE

-----------------------------------------------------------------------------
To(s, step) == conn' = [conn EXCEPT ![s].step = step]

Flushing(s) == conn[s].took # <<>>

(* SendRequest: a dial that fails starts the daemon and is tried once more *)
Dial(s) ==
    /\ \/ /\ conn[s].step = "new" /\ requests < MaxRequests
          /\ requests' = requests + 1
          /\ \E k \in Kinds :
                conn' = [conn EXCEPT ![s].kind = k, ![s].sends = 1,
                           ![s].step = IF daemon = "listening" THEN "accepted"
                                       ELSE "start"]
       \/ /\ conn[s].step = "redial"
          /\ conn' = [conn EXCEPT ![s] =
                        IF daemon = "listening"
                        THEN [@ EXCEPT !.sends = 2, !.step = "accepted"]
                        ELSE NoRequest]
          /\ UNCHANGED requests
    /\ UNCHANGED <<daemon, starts, left, quiet, authAge, token, buffer, file,
                   entries, faulted>>

(* NewServer of the detached child: a live socket makes it exit, a stale one
   is removed; New starts with an empty buffer and no auth cache *)
StartDaemon(s) ==
    /\ conn[s].step = "start"
    /\ To(s, "redial")
    /\ \/ /\ daemon # "down" \/ starts = MaxStarts
          /\ UNCHANGED <<daemon, starts, left, quiet, authAge, token, buffer>>
       \/ /\ daemon = "down" /\ starts < MaxStarts
          /\ daemon' = "listening" /\ starts' = starts + 1
          /\ left' = IdleTimeout /\ quiet' = 0 /\ authAge' = AuthTTL
          /\ token' \in BOOLEAN
          /\ buffer' = <<>>
    /\ UNCHANGED <<requests, file, entries, faulted>>

(* handleConn and Handle: touch, then the handler of the hook *)
FirstStep(k) ==
    CASE k \in {"SessionStart", "PreToolUse"} -> "health"
      [] k = "UserPromptSubmit" -> "auth"
      [] k = "PostToolUse" -> "enqueue"
      [] k \in {"Stop", "PreCompact"} -> "take"
      [] OTHER -> "respond"

Handle(s) ==
    /\ conn[s].step = "accepted"
    /\ To(s, FirstStep(conn[s].kind))
    /\ IF conn[s].kind = "malformed"
       THEN UNCHANGED <<left, quiet>>
       ELSE left' = IdleTimeout /\ quiet' = 0
    /\ UNCHANGED <<requests, daemon, starts, authAge, token, buffer, file,
                   entries, faulted>>

(* the Health call of SessionStart, PreToolUse and Stop *)
Health(s) ==
    /\ conn[s].step = "health"
    /\ \E ok \in BOOLEAN :
          To(s, CASE conn[s].kind = "Stop" -> IF ok THEN "marker" ELSE "drain"
                  [] conn[s].kind = "SessionStart" /\ ok -> "auth"
                  [] OTHER -> "respond")
    /\ UNCHANGED <<requests, daemon, starts, left, quiet, authAge, token,
                   buffer, file, entries, faulted>>

AfterAuth(s) == IF conn[s].kind = "SessionStart" THEN "take" ELSE "respond"

(* currentToken and authIsFresh *)
Auth(s) ==
    /\ conn[s].step = "auth"
    /\ To(s, IF ~token THEN "respond"
             ELSE IF authAge < AuthTTL THEN AfterAuth(s) ELSE "checking")
    /\ UNCHANGED <<requests, daemon, starts, left, quiet, authAge, token,
                   buffer, file, entries, faulted>>

(* CheckAuth returned: markAuthOK or markAuthFail *)
Checked(s) ==
    /\ conn[s].step = "checking"
    /\ \/ authAge' = 0 /\ To(s, AfterAuth(s))
       \/ authAge' = AuthTTL /\ To(s, "respond")
    /\ UNCHANGED <<requests, daemon, starts, left, quiet, token, buffer, file,
                   entries, faulted>>

(* handlePostToolUse: only a failed tool call yields an entry *)
Enqueue(s) ==
    /\ conn[s].step = "enqueue"
    /\ To(s, "respond")
    /\ \/ UNCHANGED <<buffer, entries>>
       \/ /\ entries < MaxEntries
          /\ entries' = entries + 1
          /\ buffer' = Append(buffer, entries + 1)
    /\ UNCHANGED <<requests, daemon, starts, left, quiet, authAge, token,
                   file, faulted>>

AfterFlush(s) ==
    CASE conn[s].kind = "SessionStart" -> "recall"
      [] conn[s].kind = "Stop" -> IF token THEN "health" ELSE "drain"
      [] OTHER -> "respond"

(* flushFallback: the buffer is taken under the lock and written outside it *)
Take(s) ==
    /\ conn[s].step = "take"
    /\ conn' = [conn EXCEPT ![s].took = buffer,
                  ![s].step = IF buffer = <<>> THEN AfterFlush(s) ELSE "read"]
    /\ buffer' = <<>>
    /\ faulted' = \/ faulted
                  \/ buffer # <<>> /\ \E t \in Shims \ {s} : Flushing(t)
    /\ UNCHANGED <<requests, daemon, starts, left, quiet, authAge, token,
                   file, entries>>

(* fileFallbackStore.Append: any error of ReadFile reads as an empty file *)
AppendRead(s) ==
    /\ conn[s].step = "read"
    /\ \/ /\ conn' = [conn EXCEPT ![s].snap = file, ![s].step = "write"]
          /\ UNCHANGED faulted
       \/ /\ conn' = [conn EXCEPT ![s].snap = <<>>, ![s].step = "write"]
          /\ faulted' = TRUE
    /\ UNCHANGED <<requests, daemon, starts, left, quiet, authAge, token,
                   buffer, file, entries>>

(* mutant: a failed write forgets the entries it had taken *)
AppendWriteDrops(s) ==
    /\ conn[s].step = "write"
    /\ \/ file' = conn[s].snap \o conn[s].took
       \/ UNCHANGED file
    /\ conn' = [conn EXCEPT ![s].step = AfterFlush(s), ![s].took = <<>>,
                            ![s].snap = <<>>]
    /\ UNCHANGED <<requests, daemon, starts, left, quiet, authAge, token,
                   buffer, entries, faulted>>

(* atomicWrite renames the new file over the old one, or fails *)
AppendWrite(s) ==
    /\ conn[s].step = "write"
    /\ \/ /\ file' = conn[s].snap \o conn[s].took
          /\ conn' = [conn EXCEPT ![s].step = AfterFlush(s), ![s].took = <<>>,
                                  ![s].snap = <<>>]
       \/ /\ conn' = [conn EXCEPT ![s].step = "requeue", ![s].snap = <<>>]
          /\ UNCHANGED file
    /\ UNCHANGED <<requests, daemon, starts, left, quiet, authAge, token,
                   buffer, entries, faulted>>

Requeue(s) ==
    /\ conn[s].step = "requeue"
    /\ buffer' = conn[s].took \o buffer
    /\ conn' = [conn EXCEPT ![s].step = AfterFlush(s), ![s].took = <<>>]
    /\ UNCHANGED <<requests, daemon, starts, left, quiet, authAge, token,
                   file, entries, faulted>>

(* injectRecall rewrites MEMORY.md only; QuickStore of the session-end marker *)
Call(s) ==
    /\ \/ conn[s].step = "recall" /\ To(s, "respond")
       \/ conn[s].step = "marker" /\ To(s, "drain")
    /\ UNCHANGED <<requests, daemon, starts, left, quiet, authAge, token,
                   buffer, file, entries, faulted>>

(* requestDrain brings the deadline closer, never further away *)
RequestDrain(s) ==
    /\ conn[s].step = "drain"
    /\ left' = Min({left, DrainTimeout})
    /\ To(s, "respond")
    /\ UNCHANGED <<requests, daemon, starts, quiet, authAge, token, buffer,
                   file, entries, faulted>>

(* the response reaches the shim, or is lost and the shim, after its first
   send, starts the daemon and sends the request again *)
Respond(s) ==
    /\ conn[s].step = "respond"
    /\ \/ conn' = [conn EXCEPT ![s] = NoRequest]
       \/ conn[s].sends = 1 /\ To(s, "start")
    /\ UNCHANGED <<requests, daemon, starts, left, quiet, authAge, token,
                   buffer, file, entries, faulted>>

-----------------------------------------------------------------------------
Tick ==
    /\ daemon = "listening" /\ left > 0
    /\ left' = left - 1
    /\ quiet' = Min({quiet + 1, DrainTimeout})
    /\ authAge' = Min({authAge + 1, AuthTTL})
    /\ UNCHANGED <<requests, daemon, starts, token, buffer, file, entries,
                   conn, faulted>>

(* mutant: the watchdog waits for a signal only *)
CloseListenerSignalled(signalled) ==
    /\ daemon = "listening"
    /\ signalled
    /\ daemon' = "closing"
    /\ UNCHANGED <<requests, starts, left, quiet, authAge, token, buffer, file,
                   entries, conn, faulted>>

(* idleWatchdog: the deadline passed, or SIGTERM cancelled the context *)
CloseListener(signalled) ==
    /\ daemon = "listening"
    /\ signalled \/ left = 0
    /\ daemon' = "closing"
    /\ UNCHANGED <<requests, starts, left, quiet, authAge, token, buffer,
                   file, entries, conn, faulted>>

Serving(s) == conn[s].step \notin {"new", "start", "redial"}

(* Run returns once every handler is done; what is buffered goes with it *)
Exit ==
    /\ daemon = "closing"
    /\ \A s \in Shims : ~Serving(s)
    /\ daemon' = "down"
    /\ buffer' = <<>>
    /\ UNCHANGED <<requests, starts, left, quiet, authAge, token, file,
                   entries, conn, faulted>>

HandlerStep(s) ==
    \/ Dial(s) \/ StartDaemon(s) \/ Handle(s) \/ Health(s) \/ Auth(s)
    \/ Checked(s) \/ Enqueue(s) \/ Take(s) \/ AppendRead(s) \/ AppendWrite(s)
    \/ Requeue(s) \/ Call(s) \/ RequestDrain(s) \/ Respond(s)

HookNext ==
    \/ \E s \in Shims : HandlerStep(s)
    \/ Tick
    \/ \E signalled \in BOOLEAN : CloseListener(signalled)
    \/ Exit

(* the scheduler runs every goroutine; each call has a timeout *)
HookFairness ==
    /\ \A s \in Shims : WF_hookVars(HandlerStep(s))
    /\ WF_hookVars(Tick)
    /\ WF_hookVars(CloseListener(FALSE))
    /\ WF_hookVars(Exit)

HookSpec == HookInit /\ [][HookNext]_hookVars /\ HookFairness

-----------------------------------------------------------------------------
(* what a flush under way has taken and neither written nor given back *)
InFlush ==
    IF \E s \in Shims : Flushing(s)
    THEN conn[CHOOSE s \in Shims : Flushing(s)].took ELSE <<>>

(* the entries in the order a flush would leave them: written, being written,
   waiting *)
Pipeline == (file \o InFlush) \o buffer

(* As long as no two flushes overlapped, and across failed writes and their
   re-queueing, the pipeline holds the entries in the order the tool calls
   failed and none of them twice ("preserve ordering with any newly added
   entries", flushFallback). *)
EntriesInOrder ==
    ~faulted => \A i, j \in DOMAIN Pipeline : i < j => Pipeline[i] < Pipeline[j]

(* A step loses no entry unless it ends the daemon process or flushes
   overlapped: handleStop and handlePreCompact flush "so nothing is lost". *)
EntriesKept ==
    [][~faulted' /\ ~(daemon = "closing" /\ daemon' = "down")
         => ToSet(Pipeline) \subseteq ToSet(Pipeline')]_hookVars

(* The deadline is never nearer to the last event than the drain window, even
   when a slow Stop drains after another session's event: a session in use
   keeps its daemon. *)
DrainAfterLastEvent ==
    daemon = "listening" => quiet + left >= DrainTimeout

(* A session in use loses neither an entry nor its daemon. *)
SessionServed ==
    [](HookTypeOK /\ EntriesInOrder /\ DrainAfterLastEvent) /\ EntriesKept

(* Once the hooks stop coming the daemon ends by itself, with or without a
   Stop event, and every shim has returned. *)
WindsDown ==
    <>[](daemon = "down" /\ \A s \in Shims : conn[s].step = "new")

=============================================================================
