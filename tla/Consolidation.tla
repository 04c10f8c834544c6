--------------------------- MODULE Consolidation ---------------------------
(***************************************************************************)
(* The curation of a project's memories by the tools memory_sleep          *)
(* (consolidate.Runner.RunAll: contradiction detection, its LLM second     *)
(* pass, AutoSupersede) and memory_consolidate (SearchEngine.Consolidate,  *)
(* ConsolidateWithClaude: edge decay, then merges of near-duplicates).     *)
(* Every database call is a step of its own: the runners share nothing     *)
(* but the tables, and memory_forget may run between any two of them.      *)
(* A memory has one chunk, and the facts of its content are the ids of     *)
(* the memories that brought them.  A strength is a number of decays left. *)
(***************************************************************************)
EXTENDS Integers, FiniteSets

CONSTANTS CMems,        \* memory ids
          Born,         \* CreatedAt of each memory, in days
          TextOf,       \* what the heuristics see of each chunk
          Near,         \* pairs of memories at least min_similarity alike
          Duplicates,   \* pairs that pass the LSH, Jaccard and cosine filters
          Fixed,        \* immutable memories
          Sleepers,     \* concurrent memory_sleep calls
          LLMSleepers, SupersedingSleepers,   \* llm_contradiction_detection, auto_supersede
          MaxLLMCalls, MaxForgotten, MaxDecays, FullStrength

ASSUME ConsolidationAssumption ==
    /\ Born \in [CMems -> Nat] /\ Near \subseteq CMems \X CMems
    /\ Duplicates \subseteq CMems \X CMems /\ Fixed \subseteq CMems
    /\ {MaxLLMCalls, MaxForgotten, MaxDecays} \subseteq Nat /\ FullStrength \in Nat \ {0}
    /\ \A p \in Duplicates : p[1] # p[2]
    /\ CMems # {} => \E y \in CMems : \A x \in CMems : Born[x] =< Born[y]  \* a newest one

VARIABLES valid,      \* memories.valid_to and how the row was taken out
          by,         \* the memory named in invalidation_reason
          facts,      \* memories.content
          edges,      \* relationships: records of src, tgt, type, str
          sleeper,    \* one local state per memory_sleep call
          merger,     \* the memory_consolidate call
          decays, runsOverlapped

consVars == <<valid, by, facts, edges, sleeper, merger, decays, runsOverlapped>>
-----------------------------------------------------------------------------
Live(x) == valid[x] = "live"

(* canonical: one key for both directions of a pair. *)
Canonical(x, y) == {x, y}

(* sameVersionSet(a, b): equally many versions, and each of b's is one of a's. *)
SameVersionSet(x, y) ==
    /\ TextOf[x].versionCount = TextOf[y].versionCount
    /\ TextOf[y].versions \subseteq TextOf[x].versions

SharedWordCount(x, y) == Cardinality(TextOf[x].words \cap TextOf[y].words)

(* isContradiction: negation opposition, version conflict, or one text in the *)
(* past tense against one in the present tense, each over a shared vocabulary. *)
IsContradiction(x, y) ==
    LET a == TextOf[x]  b == TextOf[y]  shared == SharedWordCount(x, y) IN
    \/ shared >= 5 /\ a.negated # b.negated
    \/ /\ shared >= 3 /\ a.versions # {} /\ b.versions # {}
       /\ ~SameVersionSet(x, y)
    \/ /\ shared >= 4
       /\ \/ a.past /\ b.present /\ ~b.past
          \/ b.past /\ a.present /\ ~a.past

Similar(x, y) == <<x, y>> \in Near \/ <<y, x>> \in Near

(* Memories of type context and chunks over 400 bytes take no part.  The type *)
(* map holds live memories only: a forgotten one has no type.                 *)
Compared(x) == ~TextOf[x].long /\ ~(Live(x) /\ TextOf[x].context)

Contradicts(x, y) == \E e \in edges : /\ e.type = "contradicts"
                                      /\ {e.src, e.tgt} = {x, y}

(* INSERT ... ON CONFLICT (source_id, target_id, rel_type) DO UPDATE strength. *)
Upsert(src, tgt, type) ==
    {e \in edges : ~(e.src = src /\ e.tgt = tgt /\ e.type = type)}
        \cup {[src |-> src, tgt |-> tgt, type |-> type, str |-> FullStrength]}
-----------------------------------------------------------------------------
NotAsleep == [pc |-> "idle", todo |-> {}, processed |-> {}, pend |-> {},
              uncaught |-> {}, calls |-> 0, pair |-> <<>>, start |-> {}]

ConsInit == /\ valid = [x \in CMems |-> "live"]
            /\ by = [x \in CMems |-> x]
            /\ facts = [x \in CMems |-> {x}]
            /\ edges = {}
            /\ sleeper = [s \in Sleepers |-> NotAsleep]
            /\ merger = [pc |-> "idle", decided |-> {}]
            /\ decays = 0 /\ runsOverlapped = FALSE

Asleep(s) == sleeper[s].pc \notin {"idle", "done", "failed", "refused"}
Sleep(s, rec) == sleeper' = [sleeper EXCEPT ![s] = rec]

(* memory_sleep: the options are read, then the type map and the chunks of the *)
(* live memories; memChunks leaves out what is not compared.                   *)
SleepStart(s) ==
    /\ sleeper[s].pc = "idle"
    /\ Sleep(s, [NotAsleep EXCEPT !.pc = "scan",
                     !.start = {x \in CMems : Live(x)},
                     !.todo = {x \in CMems : Live(x) /\ Compared(x)}])
    /\ runsOverlapped' = (runsOverlapped \/ \E t \in Sleepers \ {s} : Asleep(t))
    /\ UNCHANGED <<valid, by, facts, edges, merger, decays>>

(* The hits for one memory that are judged: VectorSearch joins the memories *)
(* table without valid_to, so the chunks of forgotten memories answer too;  *)
(* only a deleted (merged) memory has none left.                            *)
Fresh(s, x) ==
    {y \in CMems \ {x} :
        /\ valid[y] # "merged" /\ Compared(y) /\ Similar(x, y)
        /\ Canonical(x, y) \notin sleeper[s].processed
        /\ ~Contradicts(x, y)}

(* One memory of the map, in any order: GetRelationships, VectorSearch, and  *)
(* the heuristics on each hit.                                               *)
ScanMemory(s) ==
    /\ sleeper[s].pc = "scan" /\ sleeper[s].pend = {}
    /\ \E x \in sleeper[s].todo :
         LET new == Fresh(s, x)
             hit == {y \in new : IsContradiction(x, y)} IN
         Sleep(s, [sleeper[s] EXCEPT
             !.todo = @ \ {x},
             !.pend = {<<x, y>> : y \in hit},
             !.processed = @ \cup {Canonical(x, y) : y \in CMems \ {x}},
             !.uncaught = IF s \in LLMSleepers
                          THEN @ \cup {<<x, y>> : y \in new \ hit} ELSE @])
    /\ UNCHANGED <<valid, by, facts, edges, merger, decays, runsOverlapped>>

(* StoreRelationship locks source and target and refuses a memory that is not *)
(* valid; its error ends the whole run.                                       *)
StoreContradiction(s, p) ==
    IF Live(p[1]) /\ Live(p[2])
    THEN /\ edges' = Upsert(p[1], p[2], "contradicts")
         /\ Sleep(s, [sleeper[s] EXCEPT !.pend = @ \ {p}, !.uncaught = @ \ {p}])
    ELSE /\ UNCHANGED edges
         /\ Sleep(s, [NotAsleep EXCEPT !.pc = "refused", !.pair = p,
                                      !.start = sleeper[s].start])

StoreHit(s) ==
    /\ sleeper[s].pc = "scan"
    /\ \E p \in sleeper[s].pend : StoreContradiction(s, p)
    /\ UNCHANGED <<valid, by, facts, merger, decays, runsOverlapped>>

(* The LLM second pass over the pairs the heuristics left, at most llm_max_calls *)
(* of them.  An error or a NO drops the pair, a YES stores the edge.             *)
Classify(s) ==
    /\ sleeper[s].pc = "scan" /\ sleeper[s].todo = {} /\ sleeper[s].pend = {}
    /\ sleeper[s].calls < MaxLLMCalls
    /\ \E p \in sleeper[s].uncaught :
         Sleep(s, [sleeper[s] EXCEPT !.calls = @ + 1, !.uncaught = @ \ {p}])
    /\ UNCHANGED <<valid, by, facts, edges, merger, decays, runsOverlapped>>

ClassifyYes(s) ==
    /\ sleeper[s].pc = "scan" /\ sleeper[s].todo = {} /\ sleeper[s].pend = {}
    /\ sleeper[s].calls < MaxLLMCalls
    /\ \E p \in sleeper[s].uncaught :
         Sleep(s, [sleeper[s] EXCEPT !.calls = @ + 1, !.uncaught = @ \ {p},
                                     !.pend = {p}])
    /\ UNCHANGED <<valid, by, facts, edges, merger, decays, runsOverlapped>>

(* RunAll after detection: AutoSupersede lists the live memories and walks the *)
(* contradicts edges of each, one pair once; otherwise the run is over.        *)
DetectEnds(s) ==
    /\ sleeper[s].pc = "scan" /\ sleeper[s].todo = {} /\ sleeper[s].pend = {}
    /\ sleeper[s].uncaught = {} \/ sleeper[s].calls = MaxLLMCalls
    /\ Sleep(s, IF s \in SupersedingSleepers
                THEN [NotAsleep EXCEPT !.pc = "walk", !.todo = {x \in CMems : Live(x)}]
                ELSE [NotAsleep EXCEPT !.pc = "done"])
    /\ UNCHANGED <<valid, by, facts, edges, merger, decays, runsOverlapped>>

(* Mutant of NewerFirst: the direction of the edge decides. *)
EdgeDirection(p) == <<p[1], p[2]>>

(* <<newer, older>> of a pair. *)
NewerFirst(p) == IF Born[p[1]] > Born[p[2]] THEN p ELSE <<p[2], p[1]>>

Gap(p) == IF Born[p[1]] > Born[p[2]] THEN Born[p[1]] - Born[p[2]]
                                     ELSE Born[p[2]] - Born[p[1]]

(* GetRelationships of one memory: its contradicts edges, each read once.  A   *)
(* pair is taken when both rows are still valid and more than a day apart.     *)
WalkEdge(s) ==
    /\ sleeper[s].pc = "walk" /\ sleeper[s].pair = <<>>
    /\ \E x \in sleeper[s].todo, e \in edges :
         /\ e.type = "contradicts" /\ x \in {e.src, e.tgt}
         /\ Canonical(e.src, e.tgt) \notin sleeper[s].processed
         /\ LET p == <<e.src, e.tgt>> IN
            Sleep(s, [sleeper[s] EXCEPT
                !.processed = @ \cup {Canonical(e.src, e.tgt)},
                !.pair = IF Live(e.src) /\ Live(e.tgt) /\ Gap(p) > 1
                         THEN NewerFirst(p) ELSE <<>>])
    /\ UNCHANGED <<valid, by, facts, edges, merger, decays, runsOverlapped>>

(* The transaction: the supersedes edge is written without looking at the      *)
(* memories, then softDeleteMemoryExec.  That it finds the row gone is ignored *)
(* and the edge committed; an immutable row rolls back and ends the run.       *)
Supersede(s) ==
    /\ sleeper[s].pc = "walk" /\ sleeper[s].pair # <<>>
    /\ LET newer == sleeper[s].pair[1]  older == sleeper[s].pair[2] IN
       IF \/ Live(older) /\ older \in Fixed
          \/ valid[older] = "merged" \/ valid[newer] = "merged"   \* foreign key
       THEN /\ Sleep(s, [NotAsleep EXCEPT !.pc = "failed"])
            /\ UNCHANGED <<valid, by, edges>>
       ELSE /\ edges' = Upsert(newer, older, "supersedes")
            /\ valid' = IF Live(older) THEN [valid EXCEPT ![older] = "superseded"]
                                       ELSE valid
            /\ by' = IF Live(older) THEN [by EXCEPT ![older] = newer] ELSE by
            /\ Sleep(s, [sleeper[s] EXCEPT !.pair = <<>>])
    /\ UNCHANGED <<facts, merger, decays, runsOverlapped>>

SleepEnds(s) ==
    /\ sleeper[s].pc = "walk" /\ sleeper[s].pair = <<>>
    /\ \A e \in edges :
          \/ e.type # "contradicts"
          \/ Canonical(e.src, e.tgt) \in sleeper[s].processed
          \/ {e.src, e.tgt} \cap sleeper[s].todo = {}
    /\ Sleep(s, [NotAsleep EXCEPT !.pc = "done"])
    /\ UNCHANGED <<valid, by, facts, edges, merger, decays, runsOverlapped>>

(* A failing database call, or the five minutes of the handler running out. *)
SleepAborts(s) ==
    /\ Asleep(s)
    /\ Sleep(s, [NotAsleep EXCEPT !.pc = "failed"])
    /\ UNCHANGED <<valid, by, facts, edges, merger, decays, runsOverlapped>>
-----------------------------------------------------------------------------
(* DecayAllEdges, in one transaction: every edge loses one decay, and those   *)
(* under the minimum go.                                                      *)
DecayAllEdges ==
    /\ decays < MaxDecays
    /\ decays' = decays + 1
    /\ edges' = {[e EXCEPT !.str = @ - 1] : e \in {e \in edges : e.str > 1}}
    /\ UNCHANGED <<valid, by, facts, sleeper, merger, runsOverlapped>>

(* ConsolidateWithClaude: the live, mutable memories are listed once, and the *)
(* candidates are the near-duplicate pairs of that list.                      *)
MergeCandidates == {p \in Duplicates : \A i \in 1..2 : Live(p[i]) /\ p[i] \notin Fixed}

(* ReviewMergeCandidates: the reviewer answers with the pairs to merge.  The  *)
(* first is the winner, and the merged content holds what both contents held. *)
ReviewMerges ==
    /\ merger.pc = "idle"
    /\ \E D \in SUBSET MergeCandidates :
         merger' = [pc |-> "merge",
                    decided |-> {[win |-> p[1], lose |-> p[2],
                                  merged |-> facts[p[1]] \cup facts[p[2]]] : p \in D}]
    /\ UNCHANGED <<valid, by, facts, edges, sleeper, decays, runsOverlapped>>

(* MergeMemoriesAtomic: a winner that is not valid is an error and the decision *)
(* is skipped; the loser is deleted valid or not, with its edges.               *)
Merge(d) ==
    /\ merger.pc = "merge" /\ d \in merger.decided
    /\ merger' = [merger EXCEPT !.decided = @ \ {d}]
    /\ IF ~Live(d.win)
       THEN UNCHANGED <<valid, facts, edges>>
       ELSE /\ facts' = [facts EXCEPT ![d.win] = d.merged]
            /\ valid' = [valid EXCEPT ![d.lose] = "merged"]
            /\ edges' = {e \in edges : d.lose \notin {e.src, e.tgt}}
    /\ UNCHANGED <<by, sleeper, decays, runsOverlapped>>

MergeEnds ==
    /\ merger.pc = "merge" /\ merger.decided = {}
    /\ merger' = [pc |-> "done", decided |-> {}]
    /\ UNCHANGED <<valid, by, facts, edges, sleeper, decays, runsOverlapped>>

(* memory_forget (softDeleteMemoryExec with a user's reason). *)
ForgetMemory(x) ==
    /\ Cardinality({y \in CMems : valid[y] = "forgotten"}) < MaxForgotten
    /\ Live(x) /\ x \notin Fixed
    /\ valid' = [valid EXCEPT ![x] = "forgotten"]
    /\ UNCHANGED <<by, facts, edges, sleeper, merger, decays, runsOverlapped>>
-----------------------------------------------------------------------------
SleepStep(s) == \/ ScanMemory(s) \/ StoreHit(s) \/ Classify(s) \/ ClassifyYes(s)
                \/ DetectEnds(s) \/ WalkEdge(s) \/ Supersede(s) \/ SleepEnds(s)

ConsNext == \/ \E s \in Sleepers : SleepStart(s) \/ SleepStep(s) \/ SleepAborts(s)
            \/ DecayAllEdges \/ ReviewMerges \/ MergeEnds
            \/ \E d \in merger.decided : Merge(d)
            \/ \E x \in CMems : ForgetMemory(x)

(* A handler that was called runs on: every database call of it returns. *)
ConsFairness == \A s \in Sleepers : WF_consVars(SleepStep(s))

ConsSpec == ConsInit /\ [][ConsNext]_consVars /\ ConsFairness
-----------------------------------------------------------------------------
(* From a superseded memory, the memories named as its successors lead on to   *)
(* one that AutoSupersede did not take out: two runs that overlap never         *)
(* supersede both sides of a contradiction (consolidate.go:556-614 decides on   *)
(* rows read before the transaction).                                           *)
SupersessionGrounded ==
    \A x \in CMems : valid[x] = "superseded" =>
        /\ Born[by[x]] > Born[x] + 1
        /\ \E y \in CMems : Born[y] > Born[x] /\ valid[y] # "superseded"

(* A run that alone looks at the project leaves one contradicts edge per pair, *)
(* whichever memory the map iteration reaches first (consolidate.go:382-462).  *)
OneEdgePerPair ==
    ~runsOverlapped =>
        \A e, f \in edges : (/\ e.type = "contradicts" /\ f.type = "contradicts"
                             /\ {e.src, e.tgt} = {f.src, f.tgt}) => e = f

(* The facts of a memory that was merged away are still in some row: the batch *)
(* of decisions, taken from one listing, loses none of what it merges           *)
(* (engine.go:2643-2655).                                                       *)
MergeKeepsFacts ==
    \A x \in CMems : valid[x] = "merged" =>
        \E y \in CMems : valid[y] # "merged" /\ x \in facts[y]

(* What MergeKeepsFacts says, for batches whose decisions share no memory. *)
DisjointMergeKeepsFacts ==
    (\A p, q \in Duplicates : p # q => {p[1], p[2]} \cap {q[1], q[2]} = {})
        => MergeKeepsFacts

(* Whatever sleeps, merges and forgets interleave, no memory is taken out      *)
(* without a newer one standing for it, no fact is merged away and no          *)
(* contradiction is recorded twice.                                            *)
KnowledgeKept == SupersessionGrounded /\ DisjointMergeKeepsFacts /\ OneEdgePerPair

(* RunAll runs all its strategies: StoreRelationship refuses a pair, and with  *)
(* it the rest of the run, only when one of the two was taken out while the run *)
(* was under way (consolidate.go:458-460).                                      *)
RefusedOnlyByRace ==
    \A s \in Sleepers : sleeper[s].pc = "refused" =>
        {sleeper[s].pair[1], sleeper[s].pair[2]} \subseteq sleeper[s].start

=============================================================================
