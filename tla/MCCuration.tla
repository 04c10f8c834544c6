----------------------------- MODULE MCCuration -----------------------------
(***************************************************************************)
(* Small instances of what curates the stored memories in the background:  *)
(* consolidation, retrieval feedback, weight tuning, the audit of ranking  *)
(* drift and the extraction of atoms and entities.  A behaviour is a       *)
(* behaviour of one of them, the one in focus; the others stay in their    *)
(* initial state.                                                          *)
(***************************************************************************)
EXTENDS Consolidation, Feedback, Tuning, Audit, MCExtraction, TLC

CONSTANTS m1, m2, m3

VARIABLE focus

\* Three memories: m1 contradicts m2, m3 repeats m1.
MCBorn == m1 :> 0 @@ m2 :> 2 @@ m3 :> 4
Plain == [words |-> 1 .. 5, negated |-> FALSE, versions |-> {}, versionCount |-> 0,
          past |-> FALSE, present |-> TRUE, long |-> FALSE, context |-> FALSE]
MCText == m1 :> [Plain EXCEPT !.negated = TRUE] @@ m2 :> Plain @@ m3 :> Plain
MCNear == {<<m1, m2>>, <<m2, m3>>}
MCDuplicates == {<<m3, m1>>}

MCRankings == {<<"x", "y">>, <<"y", "x", "z">>}

\* What differs between the initial states of a part is fixed out of focus.
CurationInit ==
    /\ focus \in {"consolidation", "feedback", "tuning", "audit", "extraction"}
    /\ ConsInit /\ FeedbackInit /\ TuningInit /\ AuditInit
    /\ ExtractionInit /\ (focus = "extraction" \/ (kind = "atom" /\ dry))

CurationNext ==
    \/ /\ focus = "consolidation" /\ ConsNext
       /\ UNCHANGED <<focus, fbVars, tunVars, audVars, extractionVars>>
    \/ /\ focus = "feedback" /\ FeedbackNext
       /\ UNCHANGED <<focus, consVars, tunVars, audVars, extractionVars>>
    \/ /\ focus = "tuning" /\ TuningNext
       /\ UNCHANGED <<focus, consVars, fbVars, audVars, extractionVars>>
    \/ /\ focus = "audit" /\ AuditNext
       /\ UNCHANGED <<focus, consVars, fbVars, tunVars, extractionVars>>
    \/ /\ focus = "extraction" /\ ExtractionNext
       /\ UNCHANGED <<focus, consVars, fbVars, tunVars, audVars>>

CurationSpec ==
    CurationInit /\ [][CurationNext]_<<focus, consVars, fbVars, tunVars, audVars, extractionVars>>

-----------------------------------------------------------------------------

\* PendingClaimed of the extraction, under ExtractionFairness.
ExtractionProgresses == (focus = "extraction" /\ ExtractionFairness) => PendingClaimed
=============================================================================
