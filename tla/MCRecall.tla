------------------------------ MODULE MCRecall ------------------------------
(***************************************************************************)
(* Small instances of the way from a text to an answer: the chunker, the   *)
(* recall and the tools that reason over what was recalled.  A behaviour   *)
(* is a behaviour of one of them, the one in focus; the others stay in     *)
(* their initial state.                                                    *)
(***************************************************************************)
EXTENDS Recall, Reasoning, Chunker

CONSTANTS a, b, c, sx, none

VARIABLE focus

\* The sessions of the memories, the edges between them, and calls that switch
\* the parts of the recall on in different combinations.
MCSessions == [id \in {a, b, c} |-> IF id = c THEN none ELSE sx]
MCEdges == {<<a, b>>, <<c, a>>}
Flags(S) == [f \in DOMAIN NoCall |-> IF f \in {"div", "topK"} THEN NoCall[f] ELSE f \in S]
MCCalls == {Flags({"record"}), Flags({"pref", "mmr", "rerank", "atoms"}),
            Flags({"pref", "handle", "structured"}), Flags({"ndcg", "rerank"}),
            Flags({"window", "pref", "rerank", "record", "handle"}),
            Flags({"para"}), [Flags({"pref"}) EXCEPT !.div = 1],
            [Flags({"rerank"}) EXCEPT !.topK = 1]}

MCContradicts == {<<"m1", "m2">>, <<"m3", "m1">>}

\* Short and long paragraphs, with and without punctuation at the end.
S(n) == [len |-> n, stop |-> TRUE]
Loose(n) == [len |-> n, stop |-> FALSE]
MCParagraphs == {<<S(1)>>, <<Loose(1)>>, <<S(2), S(2)>>, <<S(1), S(3), Loose(2)>>}

\* What differs between the initial states of a part is fixed out of focus.
AnswerInit ==
    /\ focus \in {"recall", "reasoning", "chunker"}
    /\ RecallInit
    /\ ReasonInit /\ (focus = "reasoning" \/ rcall = "explore")
    /\ ChunkerInit

AnswerNext ==
    \/ focus = "recall" /\ RecallNext /\ UNCHANGED <<focus, reasonVars, chunkVars>>
    \/ focus = "reasoning" /\ ReasonNext /\ UNCHANGED <<focus, recallVars, chunkVars>>
    \/ focus = "chunker" /\ ChunkerNext /\ UNCHANGED <<focus, recallVars, reasonVars>>

AnswerSpec == AnswerInit /\ [][AnswerNext]_<<focus, recallVars, reasonVars, chunkVars>>

-----------------------------------------------------------------------------

\* RecallEnds under RecallFairness and ExploreReturns of memory_explore under
\* ReasonFairness: every answer comes, whatever hangs or keeps failing.
AnswersCome ==
    /\ (focus = "recall" /\ RecallFairness) => RecallEnds
    /\ (focus = "reasoning" /\ ReasonFairness) => ExploreReturns
=============================================================================
