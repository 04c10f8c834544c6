-------------------------- MODULE MCMemoryEngine --------------------------
(***************************************************************************)
(* Small instances of the memory engine for TLC: the contents x and xy     *)
(* share a chunk text.  Two scenes keep the state space small: two         *)
(* memories with one Correct at a time and no summarizer, or one memory    *)
(* that two Corrects and a summarizer race for.                            *)
(***************************************************************************)
EXTENDS MemoryEngine

CONSTANTS m1, m2, e1, e2

VARIABLE scene

SharedPieces == [c \in {"x", "xy"} |-> IF c = "x" THEN {"px"} ELSE {"px", "py"}]

History ==
    /\ editor'[e2] = IdleEditor /\ batch' = batch
    /\ \A id \in Ids : Len(versions'[id]) =< 2
Races == rows'[m2].status = "unused"

SceneInit == Init /\ scene \in {"history", "races"}
SceneNext ==
    /\ Next
    /\ IF scene = "history" THEN History ELSE Races
    /\ UNCHANGED scene
SceneSpec == SceneInit /\ [][SceneNext]_<<vars, scene>>
=============================================================================
