------------------------------- MODULE Recall -------------------------------
(***************************************************************************)
(* One memory_recall call: SearchEngine.RecallWithOpts and its two-pass    *)
(* form (internal/search/engine.go), the post-processing it applies to the *)
(* scored candidates, and the reply handleMemoryRecall builds              *)
(* (internal/mcp/tools_recall.go).  Memories are forgotten while the call  *)
(* runs; the embedder, the database and the reranker may fail at each use; *)
(* the tool timeout may cancel the call's context between any two steps.   *)
(*                                                                         *)
(* Scores are abstracted to the order they induce: scoring yields any      *)
(* order of the candidates, and each later stage permutes, cuts or splices *)
(* that order as the code does.                                            *)
(***************************************************************************)
EXTENDS Naturals, Sequences, FiniteSets, SequencesExt, LeftFolds

CONSTANTS
    MemIds,         \* memories of the project
    Preference,     \* those of memory_type "preference"
    Extracted,      \* those tagged "extracted-preference"
    Dated,          \* those whose valid_from lies in the question's window
    SessionOf,      \* memory -> its session id, NoSession when untagged
    NoSession,
    Edges,          \* relationships, pairs of memories
    Calls,          \* the option records calls are made with
    MaxForgets      \* bound: memories forgotten

\* RecallOpts; clampTopK and RecallWithOpts leave no topK that is not positive
CallOptions ==
    [pref : BOOLEAN, ndcg : BOOLEAN, div : Nat, mmr : BOOLEAN, rerank : BOOLEAN,
     window : BOOLEAN, para : BOOLEAN, atoms : BOOLEAN, handle : BOOLEAN,
     record : BOOLEAN, structured : BOOLEAN, topK : Nat \ {0}]

ASSUME RecallAssumption == IsFiniteSet(MemIds) /\ Calls \subseteq CallOptions

VARIABLES
    live,       \* memories with valid_to IS NULL
    ctx,        \* the context is not done
    opts,       \* the options of the call
    rpc,        \* where the call is
    pass,       \* 1 or 2
    vec,        \* memories among the vector hits
    fts,        \* the FTS goroutine: [st |-> running/ok/failed, ids |-> ...]
    mems,       \* the `memories` map
    results,    \* ids in result order
    first,      \* results of pass 1
    connected,  \* neighbours attached to the results
    touched,    \* memories whose access count was raised
    degraded,   \* *opts.EmbedDegraded
    dropped,    \* *opts.DroppedHits
    reply,      \* what the caller receives
    seen0,      \* history: memories live when the call began
    cands,      \* history: candidates scored in the current pass
    rated,      \* history: memories the reranker scored
    noVector,   \* history: the embedding of pass 1 failed
    faulted     \* history: a database call failed

recallVars == <<live, ctx, opts, rpc, pass, vec, fts, mems, results, first,
                connected, touched, degraded, dropped, reply, seen0, cands,
                rated, noVector, faulted>>

NoFTS == [st |-> "none", ids |-> {}]
NoReply == [kind |-> "none", ids |-> <<>>, count |-> 0, degraded |-> FALSE,
            warned |-> FALSE, event |-> {}]
NoCall == [pref |-> FALSE, ndcg |-> FALSE, div |-> 0, mmr |-> FALSE,
           rerank |-> FALSE, window |-> FALSE, para |-> FALSE, atoms |-> FALSE,
           handle |-> FALSE, record |-> FALSE, structured |-> FALSE, topK |-> 2]

RecallInit ==
    /\ live = MemIds /\ ctx = TRUE /\ opts = NoCall /\ rpc = "idle" /\ pass = 1
    /\ vec = {} /\ fts = NoFTS /\ mems = {} /\ results = <<>> /\ first = <<>>
    /\ connected = {} /\ touched = {} /\ degraded = FALSE /\ dropped = 0
    /\ reply = NoReply /\ seen0 = {} /\ cands = {} /\ rated = {}
    /\ noVector = FALSE /\ faulted = FALSE

callVars == <<ctx, opts, reply, seen0>>
passVars == <<pass, first, degraded, noVector>>

-----------------------------------------------------------------------------
(* The post-processing stages, as operators on the order of the results. *)

(* the number of results the caller asked for *)
TopK == opts.topK

Cut(s) == SubSeq(s, 1, IF Len(s) < TopK THEN Len(s) ELSE TopK)

(* sessionNDCGRerank: the sessions are packed together, best session first;
   a memory without a session is a group of its own *)
Group(id) == IF SessionOf[id] = NoSession THEN {id}
             ELSE {i \in MemIds : SessionOf[i] = SessionOf[id]}

SessionPacked(s) ==
    {p \in SetToSeqs(ToSet(s)) :
        \A i, j \in DOMAIN p : i < j =>
          /\ p[j] \in Group(p[i]) =>
                /\ \A k \in i .. j : p[k] \in Group(p[i])
                /\ \E a, b \in DOMAIN s : a < b /\ s[a] = p[i] /\ s[b] = p[j]}

(* applySessionDiversity: at most n results per session, the untagged ones
   sharing one session, and no more than TopK; only when two sessions occur *)
Diverse(s, n) ==
    IF n = 0 \/ Cardinality({SessionOf[id] : id \in ToSet(s)}) < 2 THEN s
    ELSE LeftFold(LAMBDA out, id :
                    IF /\ Len(out) < TopK
                       /\ Cardinality({k \in DOMAIN out :
                                        SessionOf[out[k]] = SessionOf[id]}) < n
                    THEN Append(out, id) ELSE out,
                  <<>>, s)

(* the preference-first split: prefSlots preferences, then the general pool,
   then the remaining preferences *)
PrefSlots == IF TopK \div 2 < 1 THEN 1
             ELSE IF TopK \div 2 > 10 THEN 10 ELSE TopK \div 2

PreferenceFirst(s) ==
    LET prefs == Only(s, Preference)
        rest  == Without(s, Preference)
        taken == IF Len(prefs) < PrefSlots THEN Len(prefs) ELSE PrefSlots
    IN  IF prefs = <<>> THEN s
        ELSE Cut(SubSeq(prefs, 1, taken) \o rest
                   \o SubSeq(prefs, taken + 1, Len(prefs)))

(* RerankResults is given the first TopK results; the scores it returns, for
   any of them, replace theirs and all results are sorted again: those it did
   not score keep their order among themselves *)
Reordered(s, scored) ==
    {p \in SetToSeqs(ToSet(s)) :
        \A i, j \in DOMAIN p : i < j /\ p[i] \notin scored /\ p[j] \notin scored
            => \E a, b \in DOMAIN s : a < b /\ s[a] = p[i] /\ s[b] = p[j]}

(* mergeSearchResults: pass-1 order first *)
MergeSearchResults(a, b) ==
    Cut(a \o Without(b, ToSet(a)))

-----------------------------------------------------------------------------
(* handleMemoryRecall up to the engine call *)
RecallStart(o) ==
    /\ rpc = "idle"
    /\ opts' = o /\ seen0' = live
    /\ rpc' = "embed" /\ pass' = 1
    /\ UNCHANGED <<live, ctx, vec, fts, mems, results, first, connected,
                   touched, degraded, dropped, reply, cands, rated, noVector,
                   faulted>>

(* an error of the pass: pass 2 is additive, pass 1 fails the call *)
Abort ==
    /\ rpc' = IF pass = 2 THEN "merge" ELSE "failed"
    /\ results' = <<>>
    /\ faulted' = TRUE

(* the query embedding, bounded by its own timeout; without it the recall goes
   on with keyword search alone *)
EmbedQuery ==
    /\ rpc = "embed"
    /\ \E ok \in BOOLEAN :
         /\ ok => ctx
         /\ degraded' = IF pass = 1 THEN ~ok ELSE degraded
         /\ noVector' = IF pass = 1 THEN ~ok ELSE noVector
         /\ rpc' = IF ok THEN "vector" ELSE "fts"
         /\ vec' = {}
    /\ fts' = NoFTS /\ mems' = {} /\ results' = <<>>
    /\ UNCHANGED <<live, callVars, pass, first, connected, touched, dropped,
                   cands, rated, faulted>>

Window == IF pass = 2 THEN Dated ELSE MemIds

(* VectorSearchWithDateRange: chunks of forgotten memories are hits too *)
VectorSearch ==
    /\ rpc = "vector"
    /\ \/ /\ ctx
          /\ \E hits \in SUBSET Window : vec' = hits
          /\ rpc' = "fts"
          /\ UNCHANGED <<results, faulted>>
       \/ Abort /\ UNCHANGED vec
    /\ UNCHANGED <<live, callVars, passVars, fts, mems, connected, touched,
                   dropped, cands, rated>>

(* the FTS goroutine is launched, and the vector hits are hydrated *)
(* mutant: rows are loaded whether or not they were forgotten *)
LoadForgotten ==
    /\ rpc = "fts"
    /\ fts' = [st |-> "running", ids |-> {}]
    /\ \/ /\ ctx \/ vec = {}
          /\ mems' = vec
          /\ rpc' = "join"
          /\ UNCHANGED <<results, faulted>>
       \/ vec # {} /\ Abort /\ UNCHANGED mems
    /\ UNCHANGED <<live, callVars, passVars, vec, connected, touched, dropped,
                   cands, rated>>

LoadMemories ==
    /\ rpc = "fts"
    /\ fts' = [st |-> "running", ids |-> {}]
    /\ \/ /\ ctx \/ vec = {}
          /\ mems' = vec \cap live
          /\ rpc' = "join"
          /\ UNCHANGED <<results, faulted>>
       \/ vec # {} /\ Abort /\ UNCHANGED mems
    /\ UNCHANGED <<live, callVars, passVars, vec, connected, touched, dropped,
                   cands, rated>>

FTSSearch ==
    /\ fts.st = "running"
    /\ \/ ctx /\ \E hits \in SUBSET (Window \cap live) :
                   fts' = [st |-> "ok", ids |-> hits]
       \/ fts' = [st |-> "failed", ids |-> {}]
    /\ UNCHANGED <<live, callVars, passVars, rpc, vec, mems, results, connected,
                   touched, dropped, cands, rated, faulted>>

(* the FTS result or the end of the context, whichever select sees; hits
   without a memory record are dropped and counted *)
JoinFTS ==
    /\ rpc = "join"
    /\ \/ /\ fts.st = "ok"
          /\ mems' = mems \cup fts.ids
          /\ dropped' \in {dropped, 1}
          /\ rpc' = "score"
          /\ UNCHANGED <<results, faulted>>
       \/ /\ fts.st = "failed" \/ ~ctx
          /\ Abort
          /\ UNCHANGED <<mems, dropped>>
    /\ UNCHANGED <<live, callVars, passVars, vec, fts, connected, touched, cands,
                   rated>>

(* paraphrase union: each search that succeeds adds hits, each that fails is
   skipped; new ids are hydrated from the live rows *)
ParaphraseUnion ==
    /\ rpc = "score" /\ opts.para
    /\ \E more \in SUBSET (Window \cap live) :
         mems' = mems \cup (IF ctx THEN more ELSE {})
    /\ opts' = [opts EXCEPT !.para = FALSE]
    /\ UNCHANGED <<live, ctx, reply, seen0, passVars, rpc, vec, fts, results,
                   connected, touched, dropped, cands, rated, faulted>>

(* scoring, sorting, session packing, diversity and the preference split *)
Candidates == IF opts.pref THEN mems ELSE mems \ Extracted

ScoreAndSort ==
    /\ rpc = "score" /\ ~opts.para
    /\ \/ /\ opts.atoms /\ opts.pref
          /\ Abort
          /\ UNCHANGED cands
       \/ /\ cands' = Candidates
          /\ \E order \in SetToSeqs(Candidates) :
             \E packed \in IF opts.ndcg /\ ~opts.pref /\ vec # {}
                           THEN SessionPacked(order) ELSE {order} :
               LET div == Diverse(packed, opts.div)
               IN  results' = IF opts.pref THEN PreferenceFirst(div) ELSE div
          /\ rpc' = "mmr"
          /\ UNCHANGED faulted
    /\ UNCHANGED <<live, callVars, passVars, vec, fts, mems, connected, touched,
                   dropped, rated>>

(* applyPreferenceMMR: another order of the same results, or the same order
   when the chunks cannot be read or carry no embedding *)
PreferenceMMR ==
    /\ rpc = "mmr"
    /\ IF opts.mmr /\ opts.pref /\ Len(results) > 1
       THEN \E p \in SetToSeqs(ToSet(results)) : results' = p
       ELSE UNCHANGED results
    /\ rpc' = "rerank"
    /\ UNCHANGED <<live, callVars, passVars, vec, fts, mems, connected, touched,
                   dropped, cands, rated, faulted>>

(* the optional reranker; its error, or an empty answer, changes nothing.  The
   two passes of a windowed recall run without it. *)
Rerank ==
    /\ rpc = "rerank"
    /\ IF opts.rerank /\ ~opts.window /\ results # <<>>
       THEN \E scored \in SUBSET ToSet(Cut(results)) :
              /\ rated' = scored
              /\ \E p \in Reordered(results, scored) : results' = Cut(p)
       ELSE results' = Cut(results) /\ UNCHANGED rated
    /\ rpc' = "enrich"
    /\ UNCHANGED <<live, callVars, passVars, vec, fts, mems, connected, touched,
                   dropped, cands, faulted>>

Neighbours(S) == {n \in MemIds : \E id \in S :
                    n # id /\ (<<id, n>> \in Edges \/ <<n, id>> \in Edges)}

(* relationships and their live neighbours, skipped in handle mode; a failure
   leaves the results without neighbours *)
Enrich ==
    /\ rpc = "enrich"
    /\ \/ connected' = {}
       \/ /\ ctx /\ ~opts.handle
          /\ connected' = Neighbours(ToSet(results)) \cap live
    /\ rpc' = "touch"
    /\ UNCHANGED <<live, callVars, passVars, vec, fts, mems, results, touched,
                   dropped, cands, rated, faulted>>

(* TouchMemories and UpdateChunkLastMatched, failures logged *)
Touch ==
    /\ rpc = "touch"
    /\ \/ UNCHANGED touched
       \/ ctx /\ touched' = touched \cup ToSet(results)
    /\ rpc' = IF ~opts.window THEN "reply"
              ELSE IF pass = 1 THEN "second" ELSE "merge"
    /\ vec' = {} /\ fts' = NoFTS /\ mems' = {}    \* locals of the pass
    /\ UNCHANGED <<live, callVars, passVars, results, connected, dropped, cands,
                   rated, faulted>>

SecondPass ==
    /\ rpc = "second"
    /\ first' = results /\ pass' = 2
    /\ rpc' = "embed"
    /\ UNCHANGED <<live, callVars, vec, fts, mems, results, connected, touched,
                   degraded, dropped, cands, rated, noVector, faulted>>

(* recallTwoPassTemporal: union of the passes, then one rerank (maybeRerank) *)
MergePasses ==
    /\ rpc = "merge"
    /\ LET merged == MergeSearchResults(first, results)
       IN  IF opts.rerank /\ merged # <<>>
           THEN \E scored \in SUBSET ToSet(merged) :
                  /\ rated' = scored
                  /\ \E p \in Reordered(merged, scored) : results' = p
           ELSE results' = merged /\ UNCHANGED rated
    /\ rpc' = "reply"
    /\ UNCHANGED <<live, callVars, passVars, vec, fts, mems, connected, touched,
                   dropped, cands, faulted>>

(* the tail of handleMemoryRecall: the retrieval event, whose failure is
   logged; the structured error, or the results with their warnings.
   EmbedderHealth may call a healthy recall degraded outside handle mode. *)
RecallReply ==
    /\ rpc = "reply"
    /\ \E stored \in BOOLEAN, unhealthy \in BOOLEAN :
         /\ stored => ctx /\ opts.record
         /\ unhealthy => ~opts.handle
         /\ reply' =
              [kind |-> IF degraded /\ opts.structured THEN "structured" ELSE "ok",
               ids |-> results, count |-> Len(results) + dropped,
               degraded |-> degraded \/ unhealthy,
               warned |-> degraded \/ unhealthy \/ dropped > 0,
               event |-> IF stored THEN ToSet(results) ELSE {}]
    /\ rpc' = "done"
    /\ UNCHANGED <<live, ctx, opts, seen0, passVars, vec, fts, mems, results,
                   connected, touched, dropped, cands, rated, faulted>>

-----------------------------------------------------------------------------
(* memory_forget by somebody else, before or during the call *)
ForgetOther(id) ==
    /\ id \in live /\ Cardinality(MemIds \ live) < MaxForgets
    /\ live' = live \ {id}
    /\ UNCHANGED <<callVars, passVars, rpc, vec, fts, mems, results, connected,
                   touched, dropped, cands, rated, faulted>>

Running == rpc \notin {"idle", "done", "failed"}

(* registerToolWithTimeout: the context of a call that is still running ends *)
ToolTimeout ==
    /\ Running /\ ctx
    /\ ctx' = FALSE
    /\ UNCHANGED <<live, opts, reply, seen0, passVars, rpc, vec, fts, mems,
                   results, connected, touched, dropped, cands, rated, faulted>>

CallStep ==
    \/ EmbedQuery \/ VectorSearch \/ LoadMemories \/ JoinFTS \/ ParaphraseUnion
    \/ ScoreAndSort \/ PreferenceMMR \/ Rerank \/ Enrich \/ Touch \/ SecondPass
    \/ MergePasses \/ RecallReply

RecallNext ==
    \/ \E o \in Calls : RecallStart(o)
    \/ CallStep \/ FTSSearch \/ ToolTimeout
    \/ \E id \in MemIds : ForgetOther(id)

(* the call's goroutine is scheduled and the timer fires; nothing is assumed of
   the FTS query *)
RecallFairness == WF_recallVars(CallStep) /\ WF_recallVars(ToolTimeout)

RecallSpec == RecallInit /\ [][RecallNext]_recallVars /\ RecallFairness

-----------------------------------------------------------------------------
Answer == ToSet(reply.ids)

(* A memory forgotten before the call began is neither a result nor a
   neighbour of one, although the vector search still finds its chunks. *)
ForgottenStaysAway == rpc = "done" => Answer \cup connected \subseteq seen0

(* No memory is returned twice, whatever the passes and paraphrases found, and
   never more than TopK are; the count also tells the dropped hits. *)
AnswerDistinct ==
    rpc = "done" => /\ Cardinality(Answer) = Len(reply.ids)
                    /\ Len(reply.ids) <= TopK

(* Preference-first: of the preferences that were scored for a preference
   query, as many as there are slots survive the cut, the MMR pass and the
   reranker.  Session diversity, when on, drops results before the split. *)
PreferencesKept ==
    (rpc = "done" /\ opts.pref /\ opts.div = 0 /\ ~opts.window) =>
        LET n == Cardinality(cands \cap Preference)
        IN  Cardinality(Answer \cap Preference)
              >= (IF n < PrefSlots THEN n ELSE PrefSlots)

(* The windowed pass adds to the unfiltered one and never takes a result away,
   even when it fails. *)
WindowOnlyAdds ==
    (rpc = "done" /\ opts.window) => ToSet(first) \subseteq Answer

(* The recall fails only when the database does or the context ends: an
   embedder that is down degrades it, and the caller is told so, of the
   unfiltered pass. *)
DegradesNotFails ==
    /\ rpc = "failed" => faulted
    /\ rpc = "done" => /\ noVector => reply.degraded /\ reply.warned
                       /\ opts.handle /\ reply.degraded => noVector

(* What a call answers is what its caller may see, once, all that the
   unfiltered pass found and the preferences it promises; without an embedder
   it is less, and says so. *)
AnswerSound ==
    /\ ForgottenStaysAway /\ AnswerDistinct /\ PreferencesKept
    /\ WindowOnlyAdds /\ DegradesNotFails

(* Every call that started ends, though its FTS query may hang. *)
RecallEnds == Running ~> rpc \in {"done", "failed"}

(* "cap at topK candidates so the reranker only sees the same set that will be
   returned": no result that the reranker was not given is returned when it
   scored all it was given. *)
RerankedReturned ==
    (rpc = "done" /\ ~opts.window /\ Cardinality(rated) = TopK)
        => Answer = rated

(* "ensure preference-typed memories are represented in the top results even
   if their raw composite scores are lower" *)
PreferencesRepresented ==
    (rpc = "done" /\ opts.pref /\ ~opts.window /\ cands \cap Preference # {})
        => Answer \cap Preference # {}
=============================================================================
