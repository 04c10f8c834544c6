--------------------------- MODULE ReembedWorker ---------------------------
(***************************************************************************)
(* Start, Notify and Stop of the per-project reembed worker                *)
(* (internal/reembed/worker.go).  The goroutine is started lazily through  *)
(* a sync.Once, either by StartWithContext or by the first Notify; Stop    *)
(* uses the same Once to close `done` when nothing was started.  Each step *)
(* is one access to the mutex, the Once, an atomic or a channel.           *)
(***************************************************************************)
EXTENDS Naturals, FiniteSets

CONSTANTS
    Notifiers,      \* goroutines that call Notify, once each
    Stoppers        \* goroutines that call Stop (Close, MigrateEmbedder)

VARIABLES
    active,     \* w.active
    parent,     \* w.parentCtx is set
    once,       \* "unused", "busy" inside Do, or "done"
    cancelFn,   \* w.cancel is set
    cancelled,  \* the run context is cancelled
    goroutine,  \* the goroutine: "none", "batch", "waiting", "exited"
    closes,     \* how often done was closed
    token,      \* the buffered notification
    wpc          \* per caller, where it is

workerVars == <<active, parent, once, cancelFn, cancelled, goroutine, closes, token,
                wpc>>

Starter == "engine"
WorkerCallers == {Starter} \cup Notifiers \cup Stoppers

WorkerInit ==
    /\ active = FALSE /\ parent = FALSE
    /\ once = "unused"
    /\ cancelFn = FALSE /\ cancelled = FALSE
    /\ goroutine = "none" /\ closes = 0 /\ token = FALSE
    /\ wpc = [c \in WorkerCallers |-> "new"]

At(c, from, to) == wpc[c] = from /\ wpc' = [wpc EXCEPT ![c] = to]

(* NewWorkerFromMeta decided whether there is work; StartWithContext sets the
   parent context and starts only an active worker *)
StartWithContext ==
    /\ wpc[Starter] = "new"
    /\ parent' = TRUE
    /\ \E found \in BOOLEAN : active' = (active \/ found)
    /\ wpc' = [wpc EXCEPT ![Starter] = IF active' THEN "once" ELSE "done"]
    /\ UNCHANGED <<once, cancelFn, cancelled, goroutine, closes, token>>

Notify(c) ==
    /\ c \in Notifiers
    /\ At(c, "new", IF parent THEN "once" ELSE "send")
    /\ active' = TRUE
    /\ UNCHANGED <<parent, once, cancelFn, cancelled, goroutine, closes,
                   token>>

(* startOnce.Do: the first caller runs the function, later ones wait for it *)
AfterOnce(c) == IF c \in Notifiers THEN "send" ELSE "done"

EnterOnce(c) ==
    /\ wpc[c] = "once" /\ once # "busy"
    /\ IF once = "unused"
       THEN /\ once' = "busy"
            /\ wpc' = [wpc EXCEPT ![c] =
                        IF c \in Stoppers THEN "closing" ELSE "starting"]
       ELSE /\ wpc' = [wpc EXCEPT ![c] = AfterOnce(c)]
            /\ UNCHANGED once
    /\ UNCHANGED <<active, parent, cancelFn, cancelled, goroutine, closes, token>>

(* start: publish cancel, then launch the goroutine *)
StartLoop(c) ==
    /\ At(c, "starting", AfterOnce(c))
    /\ cancelFn' = TRUE
    /\ goroutine' = "batch"
    /\ once' = "done"
    /\ UNCHANGED <<active, parent, cancelled, closes, token>>

CloseDone(c) ==
    /\ At(c, "closing", "done")
    /\ closes' = closes + 1
    /\ once' = "done"
    /\ UNCHANGED <<active, parent, cancelFn, cancelled, goroutine, token>>

SendToken(c) ==
    /\ At(c, "send", "done")
    /\ token' = TRUE
    /\ UNCHANGED <<active, parent, once, cancelFn, cancelled, goroutine,
                   closes>>

-----------------------------------------------------------------------------
(* Stop reads w.cancel first; nil means that nothing was started, as it
   believes *)
StopRead(c) ==
    /\ c \in Stoppers
    /\ At(c, "new", IF cancelFn THEN "cancel" ELSE "once")
    /\ UNCHANGED <<active, parent, once, cancelFn, cancelled, goroutine,
                   closes, token>>

(* mutant: Stop waits for a goroutine it has not told to end *)
StopForgetsCancel(c) ==
    /\ At(c, "cancel", "await")
    /\ UNCHANGED <<active, parent, once, cancelFn, cancelled, goroutine,
                   closes, token>>

StopCancel(c) ==
    /\ At(c, "cancel", "await")
    /\ cancelled' = TRUE
    /\ UNCHANGED <<active, parent, once, cancelFn, goroutine, closes, token>>

(* done is closed; a batch that does not notice its context within 8 s makes
   Stop give up with a warning *)
StopAwait(c) ==
    /\ At(c, "await", "done")
    /\ closes > 0 \/ goroutine = "batch"
    /\ UNCHANGED <<active, parent, once, cancelFn, cancelled, goroutine,
                   closes, token>>

-----------------------------------------------------------------------------
(* run: a batch, then the wait for the context, a token or the poll timer *)
BatchEnds ==
    /\ goroutine = "batch"
    /\ IF cancelled THEN goroutine' = "exited" /\ closes' = closes + 1
                    ELSE goroutine' = "waiting" /\ UNCHANGED closes
    /\ UNCHANGED <<active, parent, once, cancelFn, cancelled, token, wpc>>

LoopWakes ==
    /\ goroutine = "waiting"
    /\ \/ /\ cancelled
          /\ goroutine' = "exited" /\ closes' = closes + 1
          /\ UNCHANGED token
       \/ /\ token
          /\ goroutine' = "batch" /\ token' = FALSE
          /\ UNCHANGED closes
       \/ /\ goroutine' = "batch"
          /\ UNCHANGED <<closes, token>>
    /\ UNCHANGED <<active, parent, once, cancelFn, cancelled, wpc>>

CallerStep(c) ==
    \/ Notify(c) \/ EnterOnce(c) \/ StartLoop(c) \/ CloseDone(c)
    \/ SendToken(c) \/ StopRead(c) \/ StopCancel(c) \/ StopAwait(c)

WorkerNext ==
    \/ StartWithContext
    \/ \E c \in WorkerCallers : CallerStep(c)
    \/ BatchEnds \/ LoopWakes

(* Every goroutine that can go on does, and select does not overlook the end  *)
(* of its context for ever.                                                   *)
WorkerFairness ==
    /\ \A c \in WorkerCallers : WF_workerVars(CallerStep(c))
    /\ WF_workerVars(BatchEnds)
    /\ SF_workerVars(LoopWakes /\ goroutine' = "exited")

WorkerSpec == WorkerInit /\ [][WorkerNext]_workerVars /\ WorkerFairness

-----------------------------------------------------------------------------
(* `done` is closed once and only when no goroutine runs or will run: closing
   it twice would panic, closing it early would let Stop return too soon.  The
   Once keeps start and the close of a worker that never started apart. *)
DoneIsFinal ==
    closes > 0 => /\ goroutine \in {"none", "exited"}
                  /\ once # "unused"
                  /\ \A c \in WorkerCallers : wpc[c] \notin {"starting", "closing"}

(* Every Stop returns, whichever Notify or Stop it races with. *)
StopReturns ==
    \A c \in Stoppers : wpc[c] \in {"once", "closing", "cancel", "await"}
                           ~> wpc[c] = "done"

(* A Stop that found the worker's cancel function ends the goroutine for
   good: it never runs another batch once it has exited. *)
CancelledExits == (cancelled /\ goroutine # "none") ~> [](goroutine = "exited")

(* "Stop signals the worker": when every Stop has returned and nobody is
   inside Notify or Start any more, no goroutine is left running. *)
StopStops ==
    (/\ \E c \in Stoppers : wpc[c] = "done"
     /\ \A c \in WorkerCallers : wpc[c] \in {"new", "done"})
       => goroutine # "waiting"
=============================================================================
