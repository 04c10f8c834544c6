------------------------------ MODULE DrainLoops ------------------------------
(***************************************************************************)
(* The loops around the batches of module EmbedPipeline: the embed gateway *)
(* (internal/embedgateway/gateway.go), the global reembedder               *)
(* (internal/reembed/global_worker.go) and the worker pool of the Rust     *)
(* reembedder (reembed-rs/src/main.rs).  A deployment runs one of them.    *)
(*                                                                         *)
(* What a batch does is module EmbedPipeline; here it takes some of the    *)
(* chunks that wait and either embeds them or fails.  A timer is a step    *)
(* that may always be taken; a backoff is counted in units of the shortest *)
(* one.  The question is whether work that arrives is found, through the   *)
(* wake-ups that can be lost, and whether every loop ends.                 *)
(***************************************************************************)
EXTENDS Naturals, FiniteSets, FiniteSetsExt

CONSTANTS
    RustWorkers,        \* concurrency_max tasks
    LoopBatch,          \* batch size
    MinIdle,            \* shortest wait: minIdle, interval
    MaxIdle,            \* longest wait: maxIdle, maxBackoff
    ErrorThreshold,     \* consecutiveErrorThreshold
    MaxArrivals,        \* bound: chunks that arrive
    MaxLoopFaults       \* bound: failing batches, connections and LISTENs

ASSUME DrainLoopsAssumption ==
    /\ MinIdle \in Nat \ {0} /\ MaxIdle \in Nat /\ MinIdle =< MaxIdle
    /\ LoopBatch \in Nat \ {0}

VARIABLES
    deployed,   \* which of the three this deployment runs
    todo,       \* chunks without an embedding
    arrivals,
    lfaults,
    lpc,        \* where the Go loop is
    idle,       \* its backoff; in the Rust pool the shared atomic backoff_ms
    notify,     \* the channel of capacity 1
    sending,    \* a goroutine is about to send a NOTIFY
    noted,      \* a NOTIFY waits on the listening connection
    errs,       \* consecutiveErrors
    ending,     \* Stop was called (gateway), ctx or the token is cancelled
    rust        \* the tasks of the Rust pool

loopVars == <<deployed, todo, arrivals, lfaults, lpc, idle, notify, sending,
              noted, errs, ending, rust>>
goVars == <<lpc, notify, sending, noted, errs>>

Doubled(b) == Min({2 * b, MaxIdle})

LoopInit ==
    /\ deployed \in {"gateway", "global", "rust"}
    /\ todo = 0 /\ arrivals = 0 /\ lfaults = 0
    /\ lpc = "drain"
    /\ idle = MinIdle
    /\ notify = FALSE /\ sending = FALSE /\ noted = FALSE
    /\ errs = 0
    /\ ending = FALSE
    /\ rust = [w \in RustWorkers |-> [at |-> "probe"]]

LoopFails == lfaults < MaxLoopFaults /\ lfaults' = lfaults + 1
LoopWorks == UNCHANGED lfaults

(* A memory is stored or a migration nulls vectors: chunks wait, and the   *)
(* loop is woken through its channel, which keeps one wake-up.  For the    *)
(* gateway a goroutine sends a NOTIFY as well; the Rust pool is not woken. *)
ChunkArrives ==
    /\ arrivals < MaxArrivals
    /\ arrivals' = arrivals + 1
    /\ todo' = todo + 1
    /\ notify' = (notify \/ deployed # "rust")
    /\ sending' = (sending \/ deployed = "gateway")
    /\ UNCHANGED <<deployed, lfaults, lpc, idle, noted, errs, ending, rust>>

(* pg_notify reaches a connection that listens at that moment, and nobody  *)
(* else; its error is logged.                                              *)
NotifyEmbedQueue ==
    /\ sending
    /\ sending' = FALSE
    /\ \/ LoopWorks /\ noted' = (noted \/ lpc = "wait")
       \/ LoopFails /\ UNCHANGED noted
    /\ UNCHANGED <<deployed, todo, arrivals, lpc, idle, notify, errs, ending, rust>>

EndRequested ==
    /\ ~ending
    /\ ending' = TRUE
    /\ UNCHANGED <<deployed, todo, arrivals, lfaults, idle, goVars, rust>>

-----------------------------------------------------------------------------
(* The gateway                                                             *)

InGateway(s) == deployed = "gateway" /\ lpc = s

Fetched == Min({todo, LoopBatch})

GatewayDrain ==
    /\ InGateway("drain")
    /\ \E n \in {0, Fetched} :
         /\ IF n = Fetched THEN LoopWorks ELSE LoopFails
         /\ todo' = todo - n
         /\ idle' = IF n > 0 THEN MinIdle ELSE Doubled(idle)
         /\ lpc' = IF ending THEN "done" ELSE IF n = LoopBatch THEN "drain" ELSE "acquire"
    /\ UNCHANGED <<deployed, arrivals, notify, noted, errs, sending, ending, rust>>

(* Without a connection the loop waits on its own channel and timer. *)
AcquireListener ==
    /\ InGateway("acquire")
    /\ \/ LoopWorks /\ lpc' = "listen"
       \/ LoopFails /\ lpc' = "unheard"
    /\ UNCHANGED <<deployed, todo, arrivals, idle, notify, noted, errs, sending, ending, rust>>

Listen ==
    /\ InGateway("listen")
    /\ \/ LoopWorks /\ lpc' = "wait"
       \/ LoopFails /\ lpc' = "drain"
    /\ noted' = FALSE
    /\ UNCHANGED <<deployed, todo, arrivals, idle, notify, errs, sending, ending, rust>>

Notified ==
    /\ InGateway("wait") /\ noted
    /\ noted' = FALSE
    /\ idle' = MinIdle
    /\ lpc' = "drain"
    /\ UNCHANGED <<deployed, todo, arrivals, lfaults, notify, errs, sending, ending, rust>>

(* Mutant: a timeout waits again instead of draining. *)
WaitAgain ==
    /\ deployed = "gateway" /\ lpc \in {"wait", "unheard"}
    /\ lpc' = IF ending THEN "done" ELSE IF notify THEN "drain" ELSE "acquire"
    /\ idle' = IF notify THEN MinIdle ELSE idle
    /\ notify' = FALSE
    /\ UNCHANGED <<deployed, todo, arrivals, lfaults, noted, errs, sending, ending, rust>>

(* The wait ends by its timeout: only now are stop and the channel seen,   *)
(* one of them at random when both are ready.                              *)
WaitExpires ==
    /\ deployed = "gateway" /\ lpc \in {"wait", "unheard"}
    /\ \/ ending /\ lpc' = "done" /\ UNCHANGED <<idle, notify>>
       \/ notify /\ lpc' = "drain" /\ idle' = MinIdle /\ notify' = FALSE
       \/ /\ lpc = "wait" => ~ending /\ ~notify
          /\ lpc' = "drain" /\ UNCHANGED <<idle, notify>>
    /\ UNCHANGED <<deployed, todo, arrivals, lfaults, noted, errs, sending, ending, rust>>

-----------------------------------------------------------------------------
(* The global reembedder                                                   *)

(* A failing batch leaves the backoff alone and, from the third on, resets *)
(* the connection pool.                                                    *)
GlobalBatch ==
    /\ deployed = "global" /\ lpc = "drain"
    /\ \/ /\ LoopFails
          /\ errs' = Min({errs + 1, ErrorThreshold})
          /\ lpc' = IF ending THEN "done" ELSE "idle"
          /\ UNCHANGED <<todo, idle>>
       \/ /\ LoopWorks
          /\ errs' = IF ending THEN errs ELSE 0
          /\ todo' = todo - Fetched
          /\ idle' = IF ending THEN idle ELSE IF todo = 0 THEN Doubled(idle) ELSE MinIdle
          /\ lpc' = IF ending THEN "done"
                    ELSE IF Fetched = LoopBatch THEN "drain" ELSE "idle"
    /\ UNCHANGED <<deployed, arrivals, notify, noted, sending, ending, rust>>

GlobalIdle ==
    /\ deployed = "global" /\ lpc = "idle"
    /\ \/ ending /\ lpc' = "done" /\ UNCHANGED <<idle, notify>>
       \/ notify /\ notify' = FALSE /\ idle' = MinIdle /\ lpc' = "drain"
       \/ lpc' = "drain" /\ UNCHANGED <<idle, notify>>
    /\ UNCHANGED <<deployed, todo, arrivals, lfaults, noted, errs, sending, ending, rust>>

-----------------------------------------------------------------------------
(* The Rust pool                                                           *)

RustAt(w, s) == deployed = "rust" /\ rust[w].at = s

RustMoves(w, task) == rust' = [rust EXCEPT ![w] = task]

(* startup_probe retries a few times; then the process exits. *)
StartupProbe ==
    /\ deployed = "rust" /\ \A w \in RustWorkers : rust[w].at = "probe"
    /\ \/ /\ LoopWorks /\ UNCHANGED ending
          /\ rust' = [w \in RustWorkers |-> [at |-> "warm"]]
       \/ /\ LoopFails /\ ending' = TRUE
          /\ rust' = [w \in RustWorkers |-> [at |-> "done"]]
    /\ UNCHANGED <<deployed, todo, arrivals, idle, goVars>>

(* warmup_embeddings: as many requests as there are to be tasks. *)
Warmup == {S \in SUBSET RustWorkers : S # {}}

(* Tasks start for the requests the endpoint answered in parallel, and for *)
(* one at least.                                                           *)
StartPool ==
    /\ deployed = "rust" /\ \A w \in RustWorkers : rust[w].at = "warm"
    /\ \E S \in Warmup :
         rust' = [w \in RustWorkers |-> [at |-> IF w \in S THEN "top" ELSE "done"]]
    /\ UNCHANGED <<deployed, todo, arrivals, lfaults, idle, goVars, ending>>

NextBackoff(failed) == IF failed THEN Doubled(idle) ELSE MinIdle

RustTop(w) ==
    /\ RustAt(w, "top")
    /\ RustMoves(w, [at |-> IF ending THEN "done" ELSE "slice"])
    /\ UNCHANGED <<deployed, todo, arrivals, lfaults, idle, goVars, ending>>

(* process_slice, with the load of backoff_ms that follows each outcome:   *)
(* nothing to claim, embed failures, progress, or an error of the claim.   *)
RustSlice(w) ==
    /\ RustAt(w, "slice")
    /\ \/ /\ todo = 0 /\ LoopWorks
          /\ RustMoves(w, [at |-> "grow", wait |-> idle]) /\ UNCHANGED todo
       \/ /\ todo > 0 /\ LoopFails
          /\ RustMoves(w, [at |-> "impose", wait |-> NextBackoff(TRUE)]) /\ UNCHANGED todo
       \/ /\ todo > 0 /\ LoopWorks
          /\ todo' = todo - Fetched
          /\ RustMoves(w, [at |-> "impose", wait |-> NextBackoff(FALSE)])
       \/ /\ LoopFails
          /\ RustMoves(w, [at |-> "grow", wait |-> Max({idle, MinIdle})]) /\ UNCHANGED todo
    /\ UNCHANGED <<deployed, arrivals, idle, goVars, ending>>

(* compare_exchange: the growth is lost when another task was faster. *)
RustGrow(w) ==
    /\ RustAt(w, "grow")
    /\ idle' = IF idle = rust[w].wait THEN Doubled(rust[w].wait) ELSE idle
    /\ RustMoves(w, [at |-> "sleep"])
    /\ UNCHANGED <<deployed, todo, arrivals, lfaults, goVars, ending>>

(* store: failures impose their backoff and sleep, progress resets it. *)
RustImpose(w) ==
    /\ RustAt(w, "impose")
    /\ idle' = rust[w].wait
    /\ RustMoves(w, [at |-> IF rust[w].wait > MinIdle THEN "sleep" ELSE "top"])
    /\ UNCHANGED <<deployed, todo, arrivals, lfaults, goVars, ending>>

(* The sleep ends by its timer or by the token; both go through is_cancelled. *)
RustSleep(w) ==
    /\ RustAt(w, "sleep")
    /\ RustMoves(w, [at |-> IF ending THEN "done" ELSE "top"])
    /\ UNCHANGED <<deployed, todo, arrivals, lfaults, idle, goVars, ending>>

-----------------------------------------------------------------------------

GatewaySteps == GatewayDrain \/ AcquireListener \/ Listen \/ Notified \/ WaitExpires
GlobalSteps == GlobalBatch \/ GlobalIdle
RustSteps(w) == RustTop(w) \/ RustSlice(w) \/ RustGrow(w) \/ RustImpose(w) \/ RustSleep(w)

LoopNext ==
    \/ ChunkArrives \/ NotifyEmbedQueue \/ EndRequested
    \/ GatewaySteps \/ GlobalSteps
    \/ StartupProbe \/ StartPool \/ \E w \in RustWorkers : RustSteps(w)

(* Every goroutine and task goes on while it can: batches, connections and *)
(* waits all have timeouts.                                                *)
LoopFairness ==
    /\ WF_loopVars(GatewaySteps \/ GlobalSteps \/ StartupProbe \/ StartPool)
    /\ \A w \in RustWorkers : WF_loopVars(RustSteps(w))

LoopSpec == LoopInit /\ [][LoopNext]_loopVars /\ LoopFairness

Over == IF deployed = "rust" THEN \A w \in RustWorkers : rust[w].at = "done"
                         ELSE lpc = "done"

(* Every loop keeps its wait between the shortest and the longest, however *)
(* the tasks of the Rust pool interleave their loads, exchanges and stores *)
(* of the one shared backoff.                                              *)
WaitInRange == idle \in MinIdle .. MaxIdle

(* No chunk is forgotten: whatever wake-ups are lost between a drain and   *)
(* the LISTEN, and whatever fails for a while, waiting chunks are embedded *)
(* unless the loop is told to end.                                         *)
ArrivalsDrained == []((todo > 0) => <>(todo = 0 \/ ending))

(* A loop that is told to end does. *)
LoopsEnd == [](ending => <>Over)
=============================================================================
