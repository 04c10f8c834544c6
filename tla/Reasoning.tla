------------------------------- MODULE Reasoning -------------------------------
(***************************************************************************)
(* Answers written by a model over recalled memories:                      *)
(*   explore  memory_explore, the recall-score-refine loop of              *)
(*            internal/claude/explore.go with the sharded synthesis of     *)
(*            internal/claude/worker.go;                                   *)
(*   reason   memory_reason, the conflict-aware prompt of diagnose.go and  *)
(*            reason.go;                                                   *)
(*   ask      memory_ask, the context budget of internal/rag;              *)
(*   query    memory_query_document, the windows of document_query.go.     *)
(*                                                                         *)
(* The model's answers, the memories a recall returns and the failures of  *)
(* calls are arbitrary.  Contents are left out: upgrading a memory to its  *)
(* full text (FetchMemory, best effort) changes nothing told apart here.   *)
(***************************************************************************)
EXTENDS Naturals, Sequences, FiniteSets, FiniteSetsExt, SequencesExt, LeftFolds

CONSTANTS
    RMems,           \* memories of the project
    Scoped,          \* those matching the scope of the request
    Contradicts,     \* pairs joined by a contradicts edge
    RQueries,        \* queries the scorer may propose beside the question
    MaxIter,         \* max_iterations
    TokenBudget,     \* in scoring calls of average size
    SynthThreshold,  \* exploreSynthThreshold
    ShardSize,
    MaxWorkers,
    ReasonCap,       \* maxMemoriesInReason
    AskMax,          \* bound: results of an ask
    AskScores,       \* scores of results
    AskCosts,        \* tokenCost of their chunks
    AskBudget,       \* ContextBudget.MaxTokens
    DocLen,          \* bound: bytes of a queried document
    MaxMatches,      \* bound: matches of a filter
    MaxHalf          \* bound: half of WindowChars

\* FanOutReason replaces a shard size below 1; tokenCost is at least 1.
ASSUME ReasonAssumption ==
    /\ IsFiniteSet(RMems) /\ Contradicts \subseteq RMems \X RMems
    /\ ShardSize \in Nat \ {0} /\ ReasonCap \in Nat
    /\ AskBudget \in Nat /\ AskCosts \subseteq Nat \ {0} /\ DocLen \in Nat

VARIABLES
    rcall,      \* which tool is called
    stage,      \* where the explore call is
    corpus,     \* corpusOrder
    gained,     \* the last recall brought a new memory
    query, prevQuery,
    iter, spent, zeroStreak,
    scored,     \* the last score, or NoScore
    truncated,
    shards,     \* state of every shard
    cites,      \* ids the answer cites
    made        \* input and result of the other tools

loopVars == <<corpus, gained, query, prevQuery, iter, spent, zeroStreak, scored, truncated>>
reasonVars == <<rcall, stage, loopVars, shards, cites, made>>

NoQuery == "none"
Question == "question"
NoScore == [ok |-> FALSE]
Scores == [ok : {TRUE}, high : BOOLEAN, gaps : BOOLEAN, stop : BOOLEAN,
           refined : RQueries \cup {Question, NoQuery}]
NothingMade == [done |-> FALSE]

ReasonInit ==
    /\ rcall \in {"explore", "reason", "ask", "query"}
    /\ stage = "recall"
    /\ corpus = <<>> /\ gained = FALSE
    /\ query = Question /\ prevQuery = NoQuery
    /\ iter = 0 /\ spent = 0 /\ zeroStreak = 0
    /\ scored = NoScore /\ truncated = FALSE
    /\ shards = <<>> /\ cites = {}
    /\ made = NothingMade

-----------------------------------------------------------------------------
(* The explore loop                                                        *)

Exhausted == spent >= TokenBudget
Exploring(s) == rcall = "explore" /\ stage = s

(* The head of the loop. *)
LeaveLoop ==
    /\ Exploring("recall")
    /\ iter >= MaxIter \/ Exhausted
    /\ truncated' = (truncated \/ (iter < MaxIter /\ Exhausted))
    /\ stage' = "synthesise"
    /\ UNCHANGED <<rcall, corpus, gained, query, prevQuery, iter, spent, zeroStreak, scored,
                   shards, cites, made>>

(* exploreScopedRecaller: what does not match the scope is dropped after   *)
(* the recall.                                                             *)
InScope(found) == found \cap Scoped

(* Recall through the scope filter; known memories are skipped.  A failed  *)
(* recall ends the call.                                                   *)
ExploreRecall ==
    /\ Exploring("recall") /\ iter < MaxIter /\ ~Exhausted
    /\ \/ \E found \in SUBSET RMems :
            LET new == SetToSeq(InScope(found) \ Range(corpus))
            IN /\ corpus' = corpus \o new
               /\ gained' = (new # <<>>)
               /\ stage' = "score"
       \/ stage' = "failed" /\ UNCHANGED <<corpus, gained>>
    /\ UNCHANGED <<rcall, query, prevQuery, iter, spent, zeroStreak, scored, truncated,
                   shards, cites, made>>

(* scoreCorpus: a call that fails costs nothing, a reply that cannot be    *)
(* parsed costs its tokens.                                                *)
ScoreCorpus ==
    /\ Exploring("score")
    /\ \E s \in Scores \cup {NoScore}, u \in 0 .. 1 :
         /\ s.ok => u = 1
         /\ scored' = s
         /\ spent' = spent + u
    /\ stage' = "decide"
    /\ UNCHANGED <<rcall, corpus, gained, query, prevQuery, iter, zeroStreak, truncated,
                   shards, cites, made>>

(* Mutant: an iteration without a score is not counted. *)
ScoreFailedUncounted ==
    /\ Exploring("decide") /\ ~scored.ok
    /\ truncated' = (truncated \/ (iter < MaxIter /\ Exhausted))
    /\ stage' = IF iter >= MaxIter \/ Exhausted THEN "synthesise" ELSE "recall"
    /\ UNCHANGED <<rcall, corpus, gained, query, prevQuery, iter, spent, zeroStreak, scored,
                   shards, cites, made>>

(* Without a score the loop goes on with the same query; a streak of       *)
(* recalls that brought nothing is not counted.                            *)
ScoreFailed ==
    /\ Exploring("decide") /\ ~scored.ok
    /\ iter' = iter + 1
    /\ truncated' = (truncated \/ (iter' < MaxIter /\ Exhausted))
    /\ stage' = IF iter' >= MaxIter \/ Exhausted THEN "synthesise" ELSE "recall"
    /\ UNCHANGED <<rcall, corpus, gained, query, prevQuery, spent, zeroStreak, scored,
                   shards, cites, made>>

Streak == IF gained THEN 0 ELSE zeroStreak + 1

(* The stop conditions, in the code's order. *)
Stops ==
    \/ Exhausted
    \/ scored.high /\ ~scored.gaps
    \/ scored.stop
    \/ Streak >= 2
    \/ scored.refined \in {NoQuery, prevQuery, query}

Refine ==
    /\ Exploring("decide") /\ scored.ok
    /\ iter' = iter + 1
    /\ truncated' = (truncated \/ Exhausted)
    /\ IF Stops
       THEN stage' = "synthesise" /\ UNCHANGED <<query, prevQuery, zeroStreak>>
       ELSE /\ stage' = "recall"
            /\ zeroStreak' = Streak
            /\ prevQuery' = query
            /\ query' = scored.refined
    /\ UNCHANGED <<rcall, corpus, gained, spent, scored, shards, cites, made>>

-----------------------------------------------------------------------------
(* Synthesis                                                               *)

(* The shards of FanOutReason cut the corpus into runs of ShardSize. *)
ShardCount == (Len(corpus) + ShardSize - 1) \div ShardSize
ShardMems(i) == Range(SubSeq(corpus, (i - 1) * ShardSize + 1, Min({i * ShardSize, Len(corpus)})))

Synthesise ==
    /\ Exploring("synthesise")
    /\ IF Len(corpus) > SynthThreshold /\ Len(corpus) > ShardSize
       THEN /\ shards' = [i \in 1 .. ShardCount |-> "waiting"]
            /\ stage' = "fanout"
       ELSE stage' = "answer" /\ UNCHANGED shards
    /\ UNCHANGED <<rcall, loopVars, cites, made>>

InState(st) == {i \in DOMAIN shards : shards[i] = st}

(* g.Go starts the shards in order, at most MaxWorkers at a time, also     *)
(* after one has failed.                                                   *)
StartShard(i) ==
    /\ Exploring("fanout")
    /\ shards[i] = "waiting" /\ \A j \in 1 .. i - 1 : shards[j] # "waiting"
    /\ Cardinality(InState("running")) < MaxWorkers
    /\ shards' = [shards EXCEPT ![i] = "running"]
    /\ UNCHANGED <<rcall, stage, loopVars, cites, made>>

(* A call of the model: its text, or an error of the transport, of the     *)
(* service or of the deadline.                                             *)
Outcomes == {"ok", "error"}

(* A call may fail by itself or because a failure cancelled gctx, and may  *)
(* still succeed when it was cancelled too late.                           *)
ShardEnds(i) ==
    /\ Exploring("fanout") /\ shards[i] = "running"
    /\ \E st \in Outcomes : shards' = [shards EXCEPT ![i] = st]
    /\ UNCHANGED <<rcall, stage, loopVars, cites, made>>

(* Mutant: the reducer starts when the first answers are in. *)
WaitShardsFirst ==
    /\ Exploring("fanout")
    /\ InState("waiting") = {} /\ InState("ok") # {}
    /\ stage' = IF InState("error") # {} THEN "failed" ELSE "reduce"
    /\ UNCHANGED <<rcall, loopVars, shards, cites, made>>

WaitShards ==
    /\ Exploring("fanout")
    /\ InState("waiting") \cup InState("running") = {}
    /\ stage' = IF InState("error") # {} THEN "failed" ELSE "reduce"
    /\ UNCHANGED <<rcall, loopVars, shards, cites, made>>

(* The last call, of the reducer or of the plain synthesis, answers with   *)
(* any citations or fails; validateCitations strips the ids that are not   *)
(* in the corpus.                                                          *)
ValidateCitations(cited) == cited \cap Range(corpus)

LastCall ==
    /\ Exploring("reduce") \/ Exploring("answer")
    /\ \/ \E cited \in SUBSET RMems : cites' = ValidateCitations(cited) /\ stage' = "done"
       \/ stage' = "failed" /\ UNCHANGED cites
    /\ UNCHANGED <<rcall, loopVars, shards, made>>

-----------------------------------------------------------------------------
(* memory_reason                                                           *)

(* DiagnoseMemories: the edges read, from the memories whose relationships *)
(* could be read, with both ends recalled.                                 *)
Conflicts(mems, readable) ==
    {e \in Contradicts : {e[1], e[2]} \subseteq Range(mems) /\ {e[1], e[2]} \cap readable # {}}

(* ReasonWithConflictAwareness keeps the conflicts both of whose memories  *)
(* survive the cap.                                                        *)
KeptConflicts(found, listed) == {e \in found : {e[1], e[2]} \subseteq Range(listed)}

Reason ==
    /\ rcall = "reason" /\ ~made.done
    /\ \E mems \in SetToSeqs(RMems), k \in 0 .. Cardinality(RMems), readable \in SUBSET RMems :
         LET recalled == SubSeq(mems, 1, k)
             listed == SubSeq(recalled, 1, Min({k, ReasonCap}))
             found == Conflicts(recalled, readable)
         IN made' = [done |-> TRUE, listed |-> listed, readable |-> readable,
                     conflicts |-> KeptConflicts(found, listed)]
    /\ UNCHANGED <<rcall, stage, loopVars, shards, cites>>

-----------------------------------------------------------------------------
(* memory_ask: Trim                                                        *)

Results == UNION {[1 .. n -> [score : AskScores, cost : AskCosts]] : n \in 1 .. AskMax}

(* The orders sort.Slice may leave: by score, ties in any order. *)
ByScore(rs) ==
    {o \in SetToSeqs(DOMAIN rs) : \A i, j \in DOMAIN rs : i < j => rs[o[i]].score >= rs[o[j]].score}

(* One result of the greedy pass: it is taken when it still fits. *)
Take(rs, acc, i) ==
    IF rs[i].cost > acc.left THEN acc
    ELSE [left |-> acc.left - rs[i].cost, taken |-> acc.taken \cup {i}]

NothingTaken == [left |-> AskBudget, taken |-> {}]
Greedy(rs, order) == LeftFold(LAMBDA acc, i : Take(rs, acc, i), NothingTaken, order)

Places(rs) == [i \in 1 .. Len(rs) |-> i]

(* contextTokens: the costs of the results S, in input order. *)
ContextTokens(rs, S) ==
    LeftFold(LAMBDA n, i : IF i \in S THEN n + rs[i].cost ELSE n, 0, Places(rs))

Asking == rcall = "ask" /\ ~made.done

Ask ==
    /\ Asking
    /\ \E rs \in Results : \E order \in ByScore(rs) :
         made' = [done |-> TRUE, results |-> rs, taken |-> Greedy(rs, order).taken]
    /\ UNCHANGED <<rcall, stage, loopVars, shards, cites>>

-----------------------------------------------------------------------------
(* memory_query_document: windows, merge, budget                           *)

(* Bytes and spans: a span is <<start, end>> with the end excluded; that   *)
(* of an empty match is empty.                                             *)
Spans == {s \in (0 .. DocLen) \X (0 .. DocLen) : s[1] =< s[2]}
BytesOf(spans) == UNION {s[1] .. s[2] - 1 : s \in spans}

Widened(match, half) ==
    <<IF match[1] < half THEN 0 ELSE match[1] - half, Min({match[2] + half, DocLen})>>

(* The orders sort.Slice may leave: by start, ties in any order. *)
ByStart(windows) ==
    {o \in SetToSeqs(windows) : \A i, j \in DOMAIN o : i < j => o[i][1] =< o[j][1]}

(* mergeSpans, on the windows sorted by start: a window that overlaps or   *)
(* touches the last one extends it.                                        *)
Join(out, s) ==
    IF out # <<>> /\ s[1] =< out[Len(out)][2]
    THEN [out EXCEPT ![Len(out)] = <<@[1], IF s[2] > @[2] THEN s[2] ELSE @[2]>>]
    ELSE Append(out, s)

MergeSpans(order) == LeftFold(LAMBDA out, s : Join(out, s), <<>>, order)

(* The longest part of a span of at most `room' bytes that ends before the *)
(* first byte of a rune; none when the walk back reaches the start.        *)
CutAt(s, room, runes) ==
    LET ends == {s[1] + n : n \in 1 .. room} \cap runes
    IN IF ends = {} THEN {} ELSE {<<s[1], Max(ends)>>}

(* The spans given to the model: whole ones while they fit, then a part. *)
Admit(acc, s, cap, runes) ==
    IF acc.truncated THEN acc
    ELSE IF acc.total + (s[2] - s[1]) > cap
    THEN [acc EXCEPT !.truncated = TRUE, !.spans = @ \cup CutAt(s, cap - acc.total, runes)]
    ELSE [acc EXCEPT !.total = @ + (s[2] - s[1]), !.spans = @ \cup {s}]

NothingAdmitted == [total |-> 0, truncated |-> FALSE, spans |-> {}]
WithinBudget(merged, cap, runes) ==
    LeftFold(LAMBDA acc, s : Admit(acc, s, cap, runes), NothingAdmitted, merged)

QueryDocument ==
    /\ rcall = "query" /\ ~made.done
    /\ \E n \in 1 .. MaxMatches, half \in 0 .. MaxHalf, cap \in 1 .. DocLen,
          runes \in {{0} \cup r : r \in SUBSET (1 .. DocLen - 1)} :
         \E matches \in kSubset(n, Spans) :
           LET windows == {Widened(x, half) : x \in matches}
           IN \E order \in ByStart(windows) :
                made' = [done |-> TRUE, windows |-> windows, cap |-> cap, runes |-> runes,
                         out |-> WithinBudget(MergeSpans(order), cap, runes)]
    /\ UNCHANGED <<rcall, stage, loopVars, shards, cites>>

-----------------------------------------------------------------------------

ExploreStep ==
    \/ LeaveLoop \/ ExploreRecall \/ ScoreCorpus \/ ScoreFailed \/ Refine
    \/ Synthesise \/ WaitShards \/ LastCall
    \/ \E i \in DOMAIN shards : StartShard(i) \/ ShardEnds(i)

ReasonNext == ExploreStep \/ Reason \/ Ask \/ QueryDocument

(* Every call of the loop ends: the client has a deadline. *)
ReasonFairness == WF_reasonVars(ExploreStep)

ReasonSpec == ReasonInit /\ [][ReasonNext]_reasonVars /\ ReasonFairness

-----------------------------------------------------------------------------

(* memory_explore returns whatever the scorer says and however many of its *)
(* calls fail.                                                             *)
ExploreReturns == [](rcall = "explore" => <>(stage \in {"done", "failed"}))

(* An answer reduced from shards rests on every memory of the corpus: no   *)
(* shard is still running, failed or was never asked when the reducer is   *)
(* called; the reported citations are memories of the corpus, in scope.    *)
AnswerGrounded ==
    /\ Exploring("reduce") => UNION {ShardMems(i) : i \in InState("ok")} = Range(corpus)
    /\ Exploring("done") => cites \subseteq Range(corpus) /\ Range(corpus) \subseteq Scoped

(* "conflict annotations never reference memory IDs absent from the        *)
(* listing", and none between two listed memories is lost but by a failed  *)
(* read.                                                                   *)
ReasonSound ==
    rcall = "reason" /\ made.done =>
      /\ made.conflicts \subseteq Range(made.listed) \X Range(made.listed)
      /\ \A e \in Contradicts : {e[1], e[2]} \subseteq Range(made.listed) /\ e[1] \in made.readable
                                  => e \in made.conflicts

(* The context of an ask fits the budget, and no result that was left out  *)
(* would still fit.                                                        *)
AskSound ==
    rcall = "ask" /\ made.done =>
      LET cost == ContextTokens(made.results, made.taken)
      IN /\ cost =< AskBudget
         /\ \A i \in DOMAIN made.results \ made.taken : cost + made.results[i].cost > AskBudget

(* The windows of a document query: disjoint, within the budget, cut only  *)
(* at a rune, and all of the matched windows when nothing was truncated.   *)
QuerySound ==
    rcall = "query" /\ made.done =>
      LET spans == made.out.spans
      IN /\ \A s, t \in spans : s = t \/ s[2] < t[1] \/ t[2] < s[1]
         /\ Cardinality(BytesOf(spans)) =< made.cap
         /\ BytesOf(spans) \subseteq BytesOf(made.windows)
         /\ made.out.truncated <=> BytesOf(spans) # BytesOf(made.windows)
         /\ \A s \in spans : s[2] \in made.runes \cup {w[2] : w \in made.windows}

(* What goes into a prompt, for every result and every budget. *)
PromptsSound == ReasonSound /\ AskSound /\ QuerySound

(* Shards that finish in any order, failed reads and tight budgets change  *)
(* neither what an answer rests on nor what its prompt may hold.           *)
ReasoningSound == AnswerGrounded /\ PromptsSound
=============================================================================
