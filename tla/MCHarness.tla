----------------------------- MODULE MCHarness -----------------------------
(***************************************************************************)
(* Small instances of the LongMemEval harness: its stages over the         *)
(* checkpoint files, the passes that assemble the context of one question  *)
(* and the lock that keeps two runs off one backend.  A behaviour is a     *)
(* behaviour of one of them, the one in focus; the others stay in their    *)
(* initial state.                                                          *)
(***************************************************************************)
EXTENDS EvalHarness, EvalQuestion, BackendLock

VARIABLE focus

\* Rankings the recall may return, and the chronological ids of the project.
MCLists == {<<1, 2>>, <<1, 2, 3, 4, 5>>, <<5, 6>>}
MCProject == <<6, 1, 7>>

EvalInit ==
    /\ focus \in {"stages", "question", "lock"}
    /\ HarnessInit /\ QuestionInit /\ LockInit

EvalNext ==
    \/ focus = "stages" /\ HarnessNext /\ UNCHANGED <<focus, questionVars, lockVars>>
    \/ focus = "question" /\ QuestionNext /\ UNCHANGED <<focus, harnessVars, lockVars>>
    \/ focus = "lock" /\ LockNext /\ UNCHANGED <<focus, harnessVars, questionVars>>

EvalSpec == EvalInit /\ [][EvalNext]_<<focus, harnessVars, questionVars, lockVars>>

-----------------------------------------------------------------------------

\* StageEnds of the harness, under HarnessFairness.
HarnessEnds == (focus = "stages" /\ HarnessFairness) => StageEnds
=============================================================================
