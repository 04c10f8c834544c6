---------------------------- MODULE IngestQueue ----------------------------
(***************************************************************************)
(* The bounded queue of asynchronous ingestion jobs                        *)
(* (internal/ingestqueue/queue.go), the tool handlers that fill it, and    *)
(* the end of the server process that has to stop it (runServer in         *)
(* cmd/engram/main.go and Server.Start in internal/mcp/server.go).         *)
(*                                                                         *)
(* A job is identified by its UUID, so every Enqueue call brings a new     *)
(* one.  The sync.Map and the channel are atomic objects: each access is   *)
(* one step.  `age` counts the ticks since DoneAt up to ResultTTL.         *)
(***************************************************************************)
EXTENDS Naturals, Sequences, SequencesExt, FiniteSets

CONSTANTS
    Jobs,
    Workers,
    Depth,          \* cap(q.ch)
    ResultTTL       \* resultTTL, in ticks

Idle == "idle"
Exited == "exited"
Finished == {"done", "failed"}

ASSUME QueueAssumption ==
    /\ Depth \in Nat \ {0}
    /\ ResultTTL \in Nat \ {0}
    /\ Idle \notin Jobs /\ Exited \notin Jobs

VARIABLES
    ch,         \* q.ch
    results,    \* q.results: the status stored for each job
    age,        \* ticks since the result's DoneAt
    call,       \* the Enqueue call of each job
    worker,     \* per worker, the job it runs, or Idle or Exited
    outcome,    \* history: how often Work returned, per job
    evictor,    \* evictLoop is running
    cancelled,  \* ctx is done: SIGTERM or SIGINT arrived
    main        \* where runServer is

queueVars == <<ch, results, age, call, worker, outcome, evictor, cancelled, main>>

QueueTypeOK ==
    /\ ch \in Seq(Jobs) /\ Len(ch) =< Depth
    /\ results \in [Jobs -> {"none", "pending"} \cup Finished]
    /\ age \in [Jobs -> 0 .. ResultTTL]
    /\ call \in [Jobs -> {"new", "stored", "accepted", "rejected"}]
    /\ worker \in [Workers -> Jobs \cup {Idle, Exited}]
    /\ outcome \in [Jobs -> Nat]
    /\ evictor \in BOOLEAN
    /\ cancelled \in BOOLEAN
    /\ main \in {"serving", "workers", "waiting", "exited"}

QueueInit ==
    /\ ch = <<>>
    /\ results = [j \in Jobs |-> "none"]
    /\ age = [j \in Jobs |-> 0]
    /\ call = [j \in Jobs |-> "new"]
    /\ worker = [w \in Workers |-> Idle]
    /\ outcome = [j \in Jobs |-> 0]
    /\ evictor = TRUE
    /\ cancelled = FALSE
    /\ main = "serving"

-----------------------------------------------------------------------------
(* Enqueue: the status is published before the job is sent.                *)

EnqueueStore(j) ==
    /\ main # "exited" /\ call[j] = "new"
    /\ results' = [results EXCEPT ![j] = "pending"]
    /\ call' = [call EXCEPT ![j] = "stored"]
    /\ UNCHANGED <<ch, age, worker, outcome, evictor, cancelled, main>>

\* The send succeeds when a receiver takes the job or the buffer has room.
EnqueueSend(j) ==
    /\ main # "exited" /\ call[j] = "stored" /\ Len(ch) < Depth
    /\ ch' = Append(ch, j)
    /\ call' = [call EXCEPT ![j] = "accepted"]
    /\ UNCHANGED <<results, age, worker, outcome, evictor, cancelled, main>>

\* ErrQueueFull: the status is withdrawn.
EnqueueFull(j) ==
    /\ main # "exited" /\ call[j] = "stored" /\ Len(ch) >= Depth
    /\ results' = [results EXCEPT ![j] = "none"]
    /\ call' = [call EXCEPT ![j] = "rejected"]
    /\ UNCHANGED <<ch, age, worker, outcome, evictor, cancelled, main>>

-----------------------------------------------------------------------------
(* A worker.  When ctx is done and a job is ready, select takes either.    *)

\* Mutant of WorkerTake: the job is read and stays in the queue.
WorkerTakePeeks(w) ==
    /\ worker[w] = Idle /\ ch # <<>>
    /\ worker' = [worker EXCEPT ![w] = Head(ch)]
    /\ UNCHANGED <<ch, results, age, call, outcome, evictor, cancelled, main>>

WorkerTake(w) ==
    /\ worker[w] = Idle /\ ch # <<>>
    /\ worker' = [worker EXCEPT ![w] = Head(ch)]
    /\ ch' = Tail(ch)
    /\ UNCHANGED <<results, age, call, outcome, evictor, cancelled, main>>

\* Mutant of WorkerFinish: the worker does not come back after a failed job.
WorkerFinishOnce(w, status) ==
    /\ worker[w] \in Jobs
    /\ LET j == worker[w]
       IN  /\ results' = [results EXCEPT ![j] = status]
           /\ outcome' = [outcome EXCEPT ![j] = @ + 1]
           /\ age' = [age EXCEPT ![j] = 0]
    /\ worker' = [worker EXCEPT ![w] = IF status = "failed" THEN Exited ELSE Idle]
    /\ UNCHANGED <<ch, call, evictor, cancelled, main>>

\* Work returned; run stores the final result and the loop goes on.
WorkerFinish(w, status) ==
    /\ worker[w] \in Jobs
    /\ LET j == worker[w]
       IN  /\ results' = [results EXCEPT ![j] = status]
           /\ outcome' = [outcome EXCEPT ![j] = @ + 1]
           /\ age' = [age EXCEPT ![j] = 0]
    /\ worker' = [worker EXCEPT ![w] = Idle]
    /\ UNCHANGED <<ch, call, evictor, cancelled, main>>

WorkerExit(w) ==
    /\ worker[w] = Idle /\ cancelled
    /\ worker' = [worker EXCEPT ![w] = Exited]
    /\ UNCHANGED <<ch, results, age, call, outcome, evictor, cancelled, main>>

-----------------------------------------------------------------------------
(* evictLoop and the clock.                                                *)

Evictable(j) == results[j] \in Finished /\ age[j] >= ResultTTL

\* evictCompletedResults; a pass that finds nothing is a stuttering step.
EvictResults ==
    /\ evictor
    /\ results' = [j \in Jobs |-> IF Evictable(j) THEN "none" ELSE results[j]]
    /\ UNCHANGED <<ch, age, call, worker, outcome, evictor, cancelled, main>>

EvictorExit ==
    /\ evictor /\ cancelled
    /\ evictor' = FALSE
    /\ UNCHANGED <<ch, results, age, call, worker, outcome, cancelled, main>>

ResultsAge ==
    /\ age' = [j \in Jobs |-> IF results[j] \in Finished /\ age[j] < ResultTTL
                              THEN age[j] + 1 ELSE age[j]]
    /\ UNCHANGED <<ch, results, call, worker, outcome, evictor, cancelled, main>>

-----------------------------------------------------------------------------
(* The process: runServer returns through its deferred calls, the last of  *)
(* which, stop(), is the only one that could cancel ctx without a signal.  *)

Signal ==
    /\ main # "exited" /\ ~cancelled
    /\ cancelled' = TRUE
    /\ UNCHANGED <<ch, results, age, call, worker, outcome, evictor, main>>

\* Start returns: ctx is done and Shutdown returned (10 s at most).
StartShutdown ==
    /\ main = "serving" /\ cancelled
    /\ main' = "workers"
    /\ UNCHANGED <<ch, results, age, call, worker, outcome, evictor, cancelled>>

\* Start returns the error of ListenAndServe (the port is taken, Accept fails).
StartFails ==
    /\ main = "serving"
    /\ main' = "workers"
    /\ UNCHANGED <<ch, results, age, call, worker, outcome, evictor, cancelled>>

\* workersWg.Wait with its 15 s timeout.
WorkersDone ==
    /\ main = "workers"
    /\ main' = "waiting"
    /\ UNCHANGED <<ch, results, age, call, worker, outcome, evictor, cancelled>>

\* Every goroutine counted by q.wg has returned.
QueueStopped == ~evictor /\ \A w \in Workers : worker[w] = Exited

\* The deferred ingestQ.Wait() returns, pool.Close() and the rest follow.
Exit ==
    /\ main = "waiting" /\ QueueStopped
    /\ main' = "exited"
    /\ UNCHANGED <<ch, results, age, call, worker, outcome, evictor, cancelled>>

-----------------------------------------------------------------------------
WorkerStep(w) ==
    \/ WorkerTake(w) \/ WorkerExit(w)
    \/ \E status \in Finished : WorkerFinish(w, status)

EnqueueStep(j) == EnqueueStore(j) \/ EnqueueSend(j) \/ EnqueueFull(j)

MainStep == StartShutdown \/ StartFails \/ WorkersDone \/ Exit

QueueNext ==
    \/ \E j \in Jobs : EnqueueStep(j)
    \/ \E w \in Workers : WorkerStep(w)
    \/ EvictResults \/ EvictorExit \/ ResultsAge
    \/ Signal
    \/ MainStep

QueueSpec == QueueInit /\ [][QueueNext]_queueVars

\* Goroutines that can go on do, and a job's Work returns (it runs database
\* calls that end with their context).  Nothing makes a signal arrive, the
\* listener fail or a client call.
QueueFairness ==
    /\ \A w \in Workers : WF_queueVars(WorkerStep(w))
    /\ \A j \in Jobs : WF_queueVars(EnqueueSend(j) \/ EnqueueFull(j))
    /\ WF_queueVars(EvictorExit)
    /\ WF_queueVars(StartShutdown) /\ WF_queueVars(WorkersDone) /\ WF_queueVars(Exit)

QueueFairSpec == QueueSpec /\ QueueFairness

-----------------------------------------------------------------------------
(* Properties.                                                             *)

\* Where a job is for its client: it is owed until its Work has returned, and
\* its Work never returns twice.
Phase(j) ==
    CASE call[j] = "new" -> "new"
      [] call[j] = "stored" -> "offered"
      [] call[j] = "rejected" -> "refused"
      [] call[j] = "accepted" /\ outcome[j] = 0 -> "owed"
      [] call[j] = "accepted" /\ outcome[j] = 1 ->
            IF results[j] = "none" THEN "expired" ELSE "ended"
      [] OTHER -> "run again"

Service == INSTANCE JobService WITH
    Offers <- Jobs,
    phase <- [j \in Jobs |-> Phase(j)],
    answer <- results

\* The queue implements the job service: with workers, callers, the evictor and
\* signals interleaved, no job is run twice or refused after it was accepted,
\* every answer of memory_ingest_status is true and a verdict never changes.
ImplementsJobService == Service!ServiceSpec

\* A finished result stays readable, with the same verdict, until its TTL is
\* over: a client that polls in time learns how its job ended.
ResultKept ==
    [][\A j \in Jobs : results[j] \in Finished /\ age[j] < ResultTTL
            => results'[j] = results[j]]_queueVars

\* What clients rely on: the job service, and time to read its answers.
QueueServes == []QueueTypeOK /\ ImplementsJobService /\ ResultKept

\* As long as the server is not told to stop every accepted job is run,
\* whatever became of the jobs before it.
JobsFinish ==
    [](~cancelled) => \A j \in Jobs : call[j] = "accepted" ~> outcome[j] = 1

\* A signal ends the process: nothing it waits for waits for ever.
SignalExits == cancelled ~> main = "exited"

\* "Use a timeout to avoid hanging forever (#559)" (cmd/engram/main.go:721): once
\* Start has returned, for whatever reason, the process ends.
ReturnExits == main = "workers" ~> main = "exited"
=============================================================================
