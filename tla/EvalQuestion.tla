---------------------------- MODULE EvalQuestion ----------------------------
(***************************************************************************)
(* How the LongMemEval harness answers one question: runOneWithGenerator   *)
(* of cmd/longmemeval/run.go and the client of internal/longmemeval that   *)
(* it calls.  A primary recall, the optional passes the flags ask for, the *)
(* choice of the memories that go into the prompt, and the generator.      *)
(*                                                                         *)
(* Memory ids are numbers; the text of prompts and blocks is left out.     *)
(***************************************************************************)
EXTENDS Naturals, Sequences, FiniteSets, SequencesExt, LeftFolds

CONSTANTS
    RecallLists,    \* the id lists a recall may answer with
    ProjectIds,     \* what memory_list answers for the project
    ContextLimit    \* --context-topk

\* A recall answers with every memory once.
ASSUME QuestionAssumption ==
    /\ RecallLists \subseteq {s \in Seq(Nat) : IsInjective(s)}
    /\ ProjectIds \in Seq(Nat) /\ ContextLimit \in Nat

VARIABLES
    flag,       \* the flags and the kind of the question
    stepQ,      \* the next pass
    retrieved,  \* retrievedIDs
    hits,       \* primaryScoredHits
    second,     \* secondaryContextIDs
    context,    \* contextIDs of the fetched blocks
    failedCalls,\* calls that failed
    entry       \* the RunEntry's status

questionVars == <<flag, stepQ, retrieved, hits, second, context, failedCalls,
                  entry>>

Passes == <<"primary", "fusion", "event", "anchor", "paraphrase", "list",
            "select", "ledger", "generate">>

Flags == [baseline : BOOLEAN, timeline : BOOLEAN, window : BOOLEAN,
          dated : BOOLEAN, dual : BOOLEAN, fusion : BOOLEAN, event : BOOLEAN, paraphrase : BOOLEAN,
          aggregate : BOOLEAN, ledger : BOOLEAN]

QuestionInit ==
    /\ flag = [baseline |-> FALSE, timeline |-> FALSE, window |-> FALSE, dated |-> FALSE,
               dual |-> FALSE, fusion |-> FALSE, event |-> FALSE,
               paraphrase |-> FALSE, aggregate |-> FALSE, ledger |-> FALSE]
    /\ stepQ = 0
    /\ retrieved = <<>> /\ hits = <<>> /\ second = <<>> /\ context = <<>>
    /\ failedCalls = {}
    /\ entry = "none"

(* the command line and the kind of the question: a closed-book or full-context
   baseline recalls nothing (validateBaselineFlags), a window is recalled on
   the server and excludes the passes of the client *)
BeginQuestion ==
    /\ stepQ = 0
    /\ flag' \in Flags
    /\ flag'.dual => ~flag'.timeline /\ ~flag'.window
    /\ flag'.event => ~flag'.timeline
    /\ flag'.baseline => \A f \in DOMAIN flag \ {"baseline"} : ~flag'[f]
    /\ stepQ' = IF flag'.baseline THEN Len(Passes) ELSE 1
    /\ UNCHANGED <<retrieved, hits, second, context, failedCalls, entry>>

(* DeduplicateIDs, UnionMemoryIDs: the first occurrence of every id *)
Distinct(s) ==
    LeftFold(LAMBDA out, x : IF x \in ToSet(out) THEN out ELSE Append(out, x), <<>>, s)

UnionIDs(s, t) == Distinct(s \o t)

On(p) == entry = "none" /\ stepQ > 0 /\ Passes[stepQ] = p
Advance == stepQ' = stepQ + 1
Skip == Advance /\ UNCHANGED <<flag, retrieved, hits, second, context,
                               failedCalls, entry>>

(* recallResultWithParams: a failed attempt reconnects and tries once more *)
Failed(call) == failedCalls' = failedCalls \cup {call}

(* an essential call failed: the RunEntry of the question is an error *)
GiveUp(call) ==
    /\ Failed(call) /\ entry' = "error"
    /\ UNCHANGED <<flag, stepQ, retrieved, hits, second, context>>

-----------------------------------------------------------------------------
(* the server's temporal window, the scored recall of an inferred preference
   question, or the recall with the fallback without the date filter *)
PrimaryRecall ==
    /\ On("primary")
    /\ IF flag.timeline THEN Skip
       ELSE \/ GiveUp("primary")
            \/ /\ Advance
               /\ \E ids \in RecallLists :
                     IF flag.window \/ flag.dual
                     THEN /\ retrieved' = ids
                          /\ hits' = IF flag.dual THEN ids ELSE <<>>
                          /\ UNCHANGED <<second, failedCalls>>
                     ELSE /\ UNCHANGED hits
                          /\ \/ ~flag.dated /\ retrieved' = ids
                                /\ UNCHANGED <<second, failedCalls>>
                             \/ flag.dated /\ retrieved' = ids
                                /\ Failed("fallback") /\ UNCHANGED second
                             \/ flag.dated /\ UNCHANGED failedCalls
                                /\ \E all \in RecallLists :
                                      /\ retrieved' = UnionIDs(ids, all)
                                      /\ second' = all
               /\ UNCHANGED <<flag, context, entry>>

(* the variants of the query, each on its own: one stands for all *)
FusionRecall ==
    /\ On("fusion")
    /\ IF flag.timeline \/ ~flag.fusion \/ flag.window THEN Skip
       ELSE /\ \/ Failed("fusion") /\ UNCHANGED retrieved
               \/ /\ \E ids \in RecallLists : retrieved' = UnionIDs(retrieved, ids)
                  /\ UNCHANGED failedCalls
            /\ Advance
            /\ UNCHANGED <<flag, hits, second, context, entry>>

EventWindowRecall ==
    /\ On("event")
    /\ \/ Skip
       \/ flag.event /\ GiveUp("event")

(* MergeScoredRecall: one entry per id, ordered by the better score.  Of the
   orders this allows, the two in which one list outranks the other *)
MergeScored(s, t) == {UnionIDs(s, t), UnionIDs(t, s)}

AnchorRecall ==
    /\ On("anchor")
    /\ IF ~flag.dual THEN Skip
       ELSE /\ \/ Failed("anchor") /\ UNCHANGED <<retrieved, second>>
               \/ \E ids \in RecallLists :
                     /\ second' = second \o ids
                     /\ retrieved' \in MergeScored(hits, ids)
                     /\ UNCHANGED failedCalls
            /\ Advance /\ UNCHANGED <<flag, hits, context, entry>>

(* mutant: the paraphrases' ids take the place of the primary ones *)
ParaphraseRecallReplaces ==
    /\ On("paraphrase")
    /\ IF flag.timeline \/ ~flag.paraphrase \/ flag.window THEN Skip
       ELSE /\ \E ids \in RecallLists :
                  second' = second \o ids /\ retrieved' = Distinct(ids)
            /\ Advance /\ UNCHANGED <<flag, hits, context, entry, failedCalls>>

ParaphraseRecall ==
    /\ On("paraphrase")
    /\ IF flag.timeline \/ ~flag.paraphrase \/ flag.window THEN Skip
       ELSE /\ \/ Failed("paraphrase") /\ UNCHANGED <<retrieved, second>>
               \/ \E ids \in RecallLists :
                     /\ second' = second \o ids
                     /\ retrieved' = UnionIDs(retrieved, ids)
                     /\ UNCHANGED failedCalls
            /\ Advance /\ UNCHANGED <<flag, hits, context, entry>>

(* ListAllProjectMemories for an aggregation question *)
ListProject ==
    /\ On("list")
    /\ IF flag.timeline \/ ~flag.aggregate THEN Skip
       ELSE \/ GiveUp("list")
            \/ /\ retrieved' = UnionIDs(retrieved, ProjectIds)
               /\ Advance
               /\ UNCHANGED <<flag, hits, second, context, failedCalls, entry>>

-----------------------------------------------------------------------------
(* resolveContextTopK *)
Limit ==
    IF flag.aggregate \/ ContextLimit > Len(retrieved) THEN Len(retrieved)
    ELSE ContextLimit

Reserve(limit) ==
    LET r == (limit + 3) \div 4 IN IF r > 3 THEN 3 ELSE IF r < 1 THEN 1 ELSE r

(* the replacement loop: new ids take the last slots, backwards *)
SwapIn(out, new, k) ==
    [i \in 1 .. Len(out) |->
       IF i > Len(out) - k THEN new[Len(out) - i + 1] ELSE out[i]]

(* selectContextIDs *)
SelectContext(ids, secondary, limit) ==
    LET out == SubSeq(Distinct(ids), 1, limit)
        seen == ToSet(out)
        kept == Cardinality(seen \cap ToSet(secondary))
        new == Without(Distinct(secondary), seen)
        free == IF kept >= Reserve(limit) THEN 0 ELSE Reserve(limit) - kept
        k == IF free < Len(new) THEN free ELSE Len(new)
    IN  IF limit = 0 \/ ids = <<>> THEN <<>>
        ELSE IF secondary = <<>> THEN out
        ELSE SwapIn(out, new, IF k < Len(out) THEN k ELSE Len(out))

(* the chosen ids are fetched one by one; one that fails is left out *)
FetchContext ==
    /\ On("select")
    /\ IF flag.timeline THEN Skip
       ELSE /\ context' = SelectContext(retrieved, second, Limit)
            /\ Advance
            /\ UNCHANGED <<flag, retrieved, hits, second, failedCalls, entry>>

ChronoLedger ==
    /\ On("ledger")
    /\ \/ Skip
       \/ flag.ledger /\ GiveUp("ledger")

(* selectGenerationPrompt and generateHypothesisWithDeps *)
GenerateAnswer ==
    /\ On("generate")
    /\ \/ GiveUp("generate")
       \/ entry' = "done" /\ UNCHANGED <<flag, stepQ, retrieved, hits, second,
                                         context, failedCalls>>

QuestionNext ==
    \/ BeginQuestion \/ PrimaryRecall \/ FusionRecall \/ EventWindowRecall \/ AnchorRecall
    \/ ParaphraseRecall \/ ListProject \/ FetchContext \/ ChronoLedger
    \/ GenerateAnswer

QuestionSpec == QuestionInit /\ [][QuestionNext]_questionVars

-----------------------------------------------------------------------------
(* Properties *)

(* What goes into the prompt: distinct ids that some recall returned, as many
   as the limit allows, and all but the reserved slots as the primary ranking
   has them. *)
ContextSound ==
    (stepQ > 7 /\ ~flag.baseline /\ ~flag.timeline) =>
       /\ IsInjective(context)
       /\ ToSet(context) \subseteq ToSet(retrieved) \cup ToSet(second)
       /\ Len(context) = Limit
       /\ \A i \in 1 .. Len(context) :
             i =< Len(context) - Reserve(Limit)
                => context[i] = retrieved[i]

(* The question is lost only to a call it cannot do without: the primary
   recall, the event window, the project's list, the ledger, the generator. *)
OnlyEssentialCallsFail ==
    entry = "error" =>
       failedCalls \cap {"primary", "event", "list", "ledger", "generate"} # {}

(* A later pass only adds ids, unless the anchor recall follows fusion. *)
PassesOnlyAdd ==
    [][~(flag.dual /\ flag.fusion) =>
          ToSet(retrieved) \subseteq ToSet(retrieved')]_questionVars

(* Through all passes and their failures the question keeps what it has and
   its context is what the passes found. *)
QuestionSound == []ContextSound /\ []OnlyEssentialCallsFail /\ PassesOnlyAdd

(* Violated.  "fusion candidates flow through retrievedIDs (primary) only
   ... and are included when contextLimit allows": the anchor recall rebuilds
   retrievedIDs from the primary and the anchor hits and drops them. *)
FusionKept ==
    [][ToSet(retrieved) \subseteq ToSet(retrieved')]_questionVars

(* Violated.  The reserve is counted with the secondary ids that are already
   in, and the last of these is the first slot to be replaced. *)
SecondaryInPlace ==
    (stepQ > 7 /\ ~flag.baseline /\ ~flag.timeline /\ second # <<>>) =>
       \A i \in 1 .. Limit :
          retrieved[i] \in ToSet(second) => retrieved[i] \in ToSet(context)
=============================================================================
