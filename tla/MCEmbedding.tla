---------------------------- MODULE MCEmbedding ----------------------------
(***************************************************************************)
(* Small instances of the four parts of the way from a stored chunk to its *)
(* vector: the breaker in front of the embedding server, the drainers and  *)
(* migrations, the life of a project's worker and the loops that wake the  *)
(* drainers.  A behaviour is a behaviour of one of them, the one in focus; *)
(* the others stay in their initial state.                                 *)
(***************************************************************************)
EXTENDS CircuitBreaker, EmbedPipeline, ReembedWorker, DrainLoops

CONSTANTS c1, c2, bge, other

VARIABLE focus

TwoClients == {c1, c2}

\* What differs between the initial states of a part is fixed out of focus.
EmbeddingInit ==
    /\ focus \in {"breaker", "pipeline", "worker", "loops"}
    /\ Init /\ (focus = "breaker" \/ upstream = "up")
    /\ PipelineInit
    /\ WorkerInit
    /\ LoopInit /\ (focus = "loops" \/ deployed = "gateway")

EmbeddingNext ==
    \/ focus = "breaker" /\ Next /\ UNCHANGED <<focus, pipeVars, workerVars, loopVars>>
    \/ focus = "pipeline" /\ PipelineNext /\ UNCHANGED <<focus, vars, workerVars, loopVars>>
    \/ focus = "worker" /\ WorkerNext /\ UNCHANGED <<focus, vars, pipeVars, loopVars>>
    \/ focus = "loops" /\ LoopNext /\ UNCHANGED <<focus, vars, pipeVars, workerVars>>

EmbeddingSpec ==
    EmbeddingInit /\ [][EmbeddingNext]_<<focus, vars, pipeVars, workerVars, loopVars>>

-----------------------------------------------------------------------------
(* The liveness properties, each under the fairness of its part.           *)

\* RecoversWhenQuiet of the breaker, under its Fairness.
BreakerRecovers == (focus = "breaker" /\ Fairness) => RecoversWhenQuiet

\* PendingDrained of the pipeline, under PipelineFairness.
PipelineDrains == (focus = "pipeline" /\ PipelineFairness) => PendingDrained

\* The project's worker: `done` is closed once, and under WorkerFairness every
\* Stop returns and a cancelled goroutine ends.
WorkerStops ==
    /\ []DoneIsFinal
    /\ (focus = "worker" /\ WorkerFairness) => StopReturns /\ CancelledExits

\* The loops: WaitInRange, and under LoopFairness ArrivalsDrained and LoopsEnd.
LoopsDrain ==
    /\ []WaitInRange
    /\ (focus = "loops" /\ LoopFairness) => ArrivalsDrained /\ LoopsEnd
=============================================================================
