------------------------------ MODULE MCServer ------------------------------
(***************************************************************************)
(* Small instances of the parts of the server process: its start, the      *)
(* limiter and health check in front of it, the sessions, the pool of      *)
(* engines, the ingestion queue, uploads and documents.  A behaviour is a  *)
(* behaviour of one of them, the one in focus; the others stay in their    *)
(* initial state.                                                          *)
(***************************************************************************)
EXTENDS FrontDoor, Sessions, Uploads, Documents, Startup, EnginePool, IngestQueue

VARIABLE focus

\* One body per tier, and one larger than all of them.
MCBodies == {[i \in 1 .. n |-> i] : n \in 1 .. 4}

\* Directories of markdown files, one of them with the same content twice.
MCTexts == {<<"a">>, <<"b", "a">>, <<"a", "a">>}

\* What differs between the initial states of a part is fixed out of focus.
ServerInit ==
    /\ focus \in {"door", "sessions", "uploads", "documents", "startup", "pool", "queue"}
    /\ DoorInit /\ (focus = "door" \/ (part = "limits" /\ embUp))
    /\ SessionsInit
    /\ UploadsInit
    /\ DocumentsInit
    /\ StartupInit /\ (focus = "startup" \/ malformed = {})
    /\ PoolInit
    /\ QueueInit

ServerNext ==
    \/ /\ focus = "door" /\ DoorNext
       /\ UNCHANGED <<focus, sessionVars, upVars, docVars, startupVars, poolVars, queueVars>>
    \/ /\ focus = "sessions" /\ SessionsNext
       /\ UNCHANGED <<focus, doorVars, upVars, docVars, startupVars, poolVars, queueVars>>
    \/ /\ focus = "uploads" /\ UploadsNext
       /\ UNCHANGED <<focus, doorVars, sessionVars, docVars, startupVars, poolVars, queueVars>>
    \/ /\ focus = "documents" /\ DocumentsNext
       /\ UNCHANGED <<focus, doorVars, sessionVars, upVars, startupVars, poolVars, queueVars>>
    \/ /\ focus = "startup" /\ StartupNext
       /\ UNCHANGED <<focus, doorVars, sessionVars, upVars, docVars, poolVars, queueVars>>
    \/ /\ focus = "pool" /\ PoolNext
       /\ UNCHANGED <<focus, doorVars, sessionVars, upVars, docVars, startupVars, queueVars>>
    \/ /\ focus = "queue" /\ QueueNext
       /\ UNCHANGED <<focus, doorVars, sessionVars, upVars, docVars, startupVars, poolVars>>

ServerSpec ==
    ServerInit /\ [][ServerNext]_<<focus, doorVars, sessionVars, upVars, docVars,
                                   startupVars, poolVars, queueVars>>

-----------------------------------------------------------------------------
(* The liveness properties, each under the fairness of its part.           *)

\* HealthRecovers of the health check, under DoorFairness.
DoorRecovers == (focus = "door" /\ DoorFairness) => HealthRecovers

\* The sessions: RehydratableKept, and NothingLeftBehind under SessionsFairness.
SessionsEnd ==
    /\ RehydratableKept
    /\ (focus = "sessions" /\ SessionsFairness) => NothingLeftBehind

\* StartupDecides, under StartupFairness.
StartupEnds == (focus = "startup" /\ StartupFairness) => StartupDecides

\* WaitersReturn of the pool, under PoolFairness.
PoolAnswers == (focus = "pool" /\ PoolFairness) => WaitersReturn

\* JobsFinish and SignalExits of the queue, under QueueFairness.
QueueEnds == (focus = "queue" /\ QueueFairness) => JobsFinish /\ SignalExits
=============================================================================
