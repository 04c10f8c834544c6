---------------------------- MODULE MemoryEngine ----------------------------
(***************************************************************************)
(* The memories of one project: the rows of the tables `memories`,         *)
(* `memory_versions` and `chunks` (internal/db/postgres_memory.go,         *)
(* postgres_chunk.go, postgres_prune.go) and the concurrent operations     *)
(* that change them: SearchEngine.Store, StoreBatch, Correct, Forget,      *)
(* Consolidate and ConsolidateWithClaude (internal/search/engine.go) and   *)
(* the summarizers (internal/summarize/worker.go).                         *)
(*                                                                         *)
(* A PostgreSQL transaction that locks the rows it reads (FOR UPDATE) is   *)
(* one atomic action.  What is read in one transaction and used in a later *)
(* one is state of the process that carries it: an editor (a Correct       *)
(* call), a summarizer, the merge review.  The chunk swap of Correct runs  *)
(* at READ COMMITTED without a lock on the memory, so its DELETE removes   *)
(* the rows its statement saw, and the commit is a later step.             *)
(*                                                                         *)
(* A content is an abstract value; PiecesOf gives the chunk texts that the *)
(* chunker cuts it into.  A content hash and a summary are represented by  *)
(* the content they were computed from.                                    *)
(***************************************************************************)
EXTENDS Naturals, Sequences, FiniteSets

CONSTANTS
    Ids,            \* memory IDs
    Contents,       \* contents a caller may hand in
    Texts,          \* chunk texts
    PiecesOf,       \* content -> the non-empty set of its chunk texts
    Null,           \* SQL NULL, an absent argument
    Editors,        \* concurrent Correct calls
    Summarizers,    \* the worker and concurrent SummarizeOne calls
    MaxVersions     \* bound: versions kept per memory

ASSUME DataAssumption ==
    /\ PiecesOf \in [Contents -> SUBSET Texts]
    /\ \A c \in Contents : PiecesOf[c] # {}
    /\ Null \notin Contents \cup Ids
    /\ MaxVersions \in Nat

VARIABLES
    rows,       \* table memories
    versions,   \* table memory_versions, oldest first, per memory
    chunks,     \* table chunks
    editor,     \* what each Correct call has read so far
    seen,       \* per editor, the chunk rows its DELETE statement saw
    batch,      \* per summarizer, the contents read and not yet summarized
    review,     \* candidate pairs sent to the merge reviewer
    written     \* history: the contents ever committed to a memory

vars == <<rows, versions, chunks, editor, seen, batch, review, written>>

Stored == {"live", "invalid"}        \* invalid: valid_to is set
Statuses == Stored \cup {"unused", "deleted"}

Row(st, c, body, h, s, imm) ==
    [status |-> st, content |-> c, body |-> body, hash |-> h,
     summary |-> s, immutable |-> imm]

NoRow(st) == Row(st, Null, Null, Null, Null, FALSE)

Rows == [status : Statuses,
         content : Contents \cup {Null},
         body : Contents \cup {Null},      \* history: first chunk source
         hash : Contents \cup {Null},
         summary : Contents \cup {Null},
         immutable : BOOLEAN]

Versions == [content : Contents, change : {"update", "invalidate"},
             open : BOOLEAN]                    \* open: system_to IS NULL

\* A chunk row; `copy` tells apart the IDs of rows that carry the same text.
Chunk(id, t, n) == [memory |-> id, text |-> t, copy |-> n]

EditorStates == [pc : {"idle", "chunk", "delete", "commit", "panic"},
                 id : Ids \cup {Null}, content : Contents \cup {Null},
                 pending : SUBSET Texts]

\* A Correct call between its UpdateMemory and the end of its chunk swap.
Correcting(e) == editor[e].pc \in {"chunk", "delete", "commit"}

EditorTypeOK ==
    /\ editor \in [Editors -> EditorStates]
    /\ \A e \in Editors : Correcting(e) =>
            editor[e].id \in Ids /\ editor[e].content \in Contents

TypeOK ==
    /\ rows \in [Ids -> Rows]
    /\ \A id \in Ids : rows[id].status \in Stored => rows[id].content \in Contents
    /\ versions \in [Ids -> Seq(Versions)]
    /\ \A k \in chunks : k.memory \in Ids /\ k.text \in Texts
    /\ EditorTypeOK
    /\ DOMAIN seen = Editors
    /\ batch \in [Summarizers -> [Ids -> Contents \cup {Null}]]
    /\ review \subseteq Ids \X Ids
    /\ written \in [Ids -> SUBSET Contents]

IdleEditor == [pc |-> "idle", id |-> Null, content |-> Null, pending |-> {}]
EmptyBatch == [id \in Ids |-> Null]

Init ==
    /\ rows = [id \in Ids |-> NoRow("unused")]
    /\ versions = [id \in Ids |-> <<>>]
    /\ chunks = {}
    /\ editor = [e \in Editors |-> IdleEditor]
    /\ seen = [e \in Editors |-> {}]
    /\ batch = [s \in Summarizers |-> EmptyBatch]
    /\ review = {}
    /\ written = [id \in Ids |-> {}]

-----------------------------------------------------------------------------
(* Helpers over the tables.                                                *)

Exists(id) == rows[id].status \in Stored
Live(id) == rows[id].status = "live"
ChunksFor(id) == {k \in chunks : k.memory = id}
TextsFor(id) == {k.text : k \in ChunksFor(id)}

\* Chunk rows some transaction has seen; their IDs are never reused.
Referenced == chunks \cup UNION {seen[e] : e \in Editors}
UnusedCopy(id, t) ==
    CHOOSE n \in 0 .. Cardinality(Referenced) :
        /\ Chunk(id, t, n) \notin Referenced
        /\ \A m \in 0 .. n - 1 : Chunk(id, t, m) \in Referenced
FreshChunks(id, texts) == {Chunk(id, t, UnusedCopy(id, t)) : t \in texts}

\* versionMemoryTx: close the open version, append the state before the change.
Versioned(id, change) ==
    [versions EXCEPT ![id] =
        Append([i \in 1 .. Len(@) |-> [@[i] EXCEPT !.open = FALSE]],
               [content |-> rows[id].content, change |-> change, open |-> TRUE])]

RoomForVersion(id) == Len(versions[id]) < MaxVersions

\* Mutant of RemoveRows: the chunks of a deleted memory are left behind.
RemoveRowsKeepsChunks(S) ==
    /\ rows' = [id \in Ids |-> IF id \in S THEN NoRow("deleted") ELSE rows[id]]
    /\ UNCHANGED chunks

\* Hard deletion of rows: chunks go with them (explicitly or ON DELETE CASCADE),
\* memory_versions has no foreign key and stays.
RemoveRows(S) ==
    /\ rows' = [id \in Ids |-> IF id \in S THEN NoRow("deleted") ELSE rows[id]]
    /\ chunks' = {k \in chunks : k.memory \notin S}

-----------------------------------------------------------------------------
(* Store and StoreBatch: one transaction writes the rows and their chunks. *)

Inserted(c, body, imm) == Row("live", c, body, c, Null, imm)

\* `body` is m.RawBody when the caller gave one, else the content.
Store(id, c, body, imm) ==
    /\ rows[id].status = "unused"
    /\ rows' = [rows EXCEPT ![id] = Inserted(c, body, imm)]
    /\ chunks' = chunks \cup FreshChunks(id, PiecesOf[body])
    /\ written' = [written EXCEPT ![id] = {c}]
    /\ UNCHANGED <<versions, editor, seen, batch, review>>

\* f maps the IDs of the batch to their contents; those in `pinned` are stored
\* immutable.
StoreBatch(f, pinned) ==
    /\ \A id \in DOMAIN f : rows[id].status = "unused"
    /\ rows' = [id \in Ids |-> IF id \in DOMAIN f
                               THEN Inserted(f[id], f[id], id \in pinned) ELSE rows[id]]
    /\ chunks' = chunks \cup UNION {FreshChunks(id, PiecesOf[f[id]]) : id \in DOMAIN f}
    /\ written' = [id \in Ids |-> IF id \in DOMAIN f THEN {f[id]} ELSE written[id]]
    /\ UNCHANGED <<versions, editor, seen, batch, review>>

-----------------------------------------------------------------------------
(* Correct.                                                                *)

\* UpdateMemory's transaction on a found row.  Without a content it only
\* versions the row (tags, importance and confidence are not modelled).
UpdateRow(id, c) ==
    /\ versions' = Versioned(id, "update")
    /\ IF c = Null
       THEN UNCHANGED <<rows, written>>
       ELSE /\ rows' = [rows EXCEPT ![id] =
                    [@ EXCEPT !.content = c, !.hash = c, !.summary = Null]]
            /\ written' = [written EXCEPT ![id] = @ \cup {c}]

\* Mutant of CorrectUpdate: a row that was soft-deleted is found.
CorrectUpdateInvalid(e, id, c) ==
    /\ editor[e].pc = "idle"
    /\ Exists(id) /\ ~rows[id].immutable /\ RoomForVersion(id)
    /\ UpdateRow(id, c)
    /\ editor' = [editor EXCEPT ![e] = [IdleEditor EXCEPT
                    !.pc = IF c = Null THEN "idle" ELSE "chunk",
                    !.id = id, !.content = c]]
    /\ UNCHANGED <<chunks, seen, batch, review>>

CorrectUpdate(e, id, c) ==
    /\ editor[e].pc = "idle"
    /\ Live(id) /\ ~rows[id].immutable /\ RoomForVersion(id)
    /\ UpdateRow(id, c)
    /\ editor' = [editor EXCEPT ![e] = [IdleEditor EXCEPT
                    !.pc = IF c = Null THEN "idle" ELSE "chunk",
                    !.id = IF c = Null THEN @ ELSE id, !.content = c]]
    /\ UNCHANGED <<chunks, seen, batch, review>>

\* UpdateMemory found no active row and returned (nil, nil); with a content,
\* storeChunksForMemory dereferences the nil memory.
CorrectMissing(e, id) ==
    /\ editor[e].pc = "idle"
    /\ ~Live(id)
    /\ editor' = [editor EXCEPT ![e].pc = "panic"]
    /\ UNCHANGED <<rows, versions, chunks, seen, batch, review, written>>

\* storeChunksForMemory: candidates whose hash the memory already has are
\* dropped (ChunkHashExists), the rest become new rows.
CorrectChunk(e) ==
    /\ editor[e].pc = "chunk"
    /\ editor' = [editor EXCEPT ![e].pc = "delete",
                    ![e].pending = PiecesOf[editor[e].content]
                                        \ TextsFor(editor[e].id)]
    /\ UNCHANGED <<rows, versions, chunks, seen, batch, review, written>>

\* Begin, then DELETE FROM chunks WHERE memory_id: the rows the statement sees.
CorrectDelete(e) ==
    /\ editor[e].pc = "delete"
    /\ editor' = [editor EXCEPT ![e].pc = "commit"]
    /\ seen' = [seen EXCEPT ![e] = ChunksFor(editor[e].id)]
    /\ UNCHANGED <<rows, versions, chunks, batch, review, written>>

\* StoreChunksTx and Commit.  Inserting for a memory that is gone violates the
\* foreign key and rolls the swap back.
CorrectCommit(e) ==
    /\ editor[e].pc = "commit"
    /\ chunks' = IF Exists(editor[e].id)
                 THEN (chunks \ seen[e])
                        \cup FreshChunks(editor[e].id, editor[e].pending)
                 ELSE chunks
    /\ editor' = [editor EXCEPT ![e] = IdleEditor]
    /\ seen' = [seen EXCEPT ![e] = {}]
    /\ UNCHANGED <<rows, versions, batch, review, written>>

\* An error, the store timeout or a crash after UpdateMemory has committed.
CorrectFail(e) ==
    /\ Correcting(e)
    /\ editor' = [editor EXCEPT ![e] = IdleEditor]
    /\ seen' = [seen EXCEPT ![e] = {}]
    /\ UNCHANGED <<rows, versions, chunks, batch, review, written>>

-----------------------------------------------------------------------------
(* Forget, hard deletion, pruning.                                         *)

\* SoftDeleteMemory.
Forget(id) ==
    /\ Live(id) /\ ~rows[id].immutable /\ RoomForVersion(id)
    /\ versions' = Versioned(id, "invalidate")
    /\ rows' = [rows EXCEPT ![id].status = "invalid"]
    /\ UNCHANGED <<chunks, editor, seen, batch, review, written>>

\* DeleteMemoryAtomic with force = false.
DeleteMemory(id) ==
    /\ Exists(id) /\ ~rows[id].immutable
    /\ RemoveRows({id})
    /\ UNCHANGED <<versions, editor, seen, batch, review, written>>

\* PruneStaleMemories and PruneColdDocuments; which rows are stale, expired or
\* cold is a matter of ages and access counts that are not modelled.
Prune(S) ==
    /\ \A id \in S : Exists(id) /\ ~rows[id].immutable
    /\ RemoveRows(S)
    /\ UNCHANGED <<versions, editor, seen, batch, review, written>>

DeleteProject ==
    /\ RemoveRows({id \in Ids : Exists(id)})
    /\ versions' = [id \in Ids |-> <<>>]
    /\ written' = [id \in Ids |-> {}]
    /\ UNCHANGED <<editor, seen, batch, review>>

-----------------------------------------------------------------------------
(* Summaries.                                                              *)

Pending(id) == Live(id) /\ rows[id].summary = Null

\* GetMemoriesPendingSummary (any batch: the LIMIT has no ORDER BY), or the
\* GetMemory of SummarizeOne.
SummarizeRead(s, S) ==
    /\ batch[s] = EmptyBatch
    /\ \A id \in S : Pending(id)
    /\ batch' = [batch EXCEPT ![s] =
            [id \in Ids |-> IF id \in S THEN rows[id].content ELSE Null]]
    /\ UNCHANGED <<rows, versions, chunks, editor, seen, review, written>>

\* StoreSummary: UPDATE ... WHERE id, whatever happened to the row meanwhile.
SummarizeStore(s, id) ==
    /\ batch[s][id] # Null
    /\ rows' = IF Exists(id)
               THEN [rows EXCEPT ![id].summary = batch[s][id]] ELSE rows
    /\ batch' = [batch EXCEPT ![s][id] = Null]
    /\ UNCHANGED <<versions, chunks, editor, seen, review, written>>

\* One summary failed: the loop continues with the next row.
SummarizeSkip(s, id) ==
    /\ batch[s][id] # Null
    /\ batch' = [batch EXCEPT ![s][id] = Null]
    /\ UNCHANGED <<rows, versions, chunks, editor, seen, review, written>>

\* The model is missing or the iteration's context ended: the rest is dropped.
SummarizeAbort(s) ==
    /\ batch[s] # EmptyBatch
    /\ batch' = [batch EXCEPT ![s] = EmptyBatch]
    /\ UNCHANGED <<rows, versions, chunks, editor, seen, review, written>>

\* ClearSummaries.
Resummarize ==
    /\ rows' = [id \in Ids |-> IF Live(id)
                               THEN [rows[id] EXCEPT !.summary = Null]
                               ELSE rows[id]]
    /\ UNCHANGED <<versions, chunks, editor, seen, batch, review, written>>

-----------------------------------------------------------------------------
(* ConsolidateWithClaude: pairs are read, reviewed outside any             *)
(* transaction, and the approved ones merged one by one.                   *)

\* Mutant of Reviewable: immutable memories are not filtered out.
ReviewableImmutable(id) == Live(id)

Reviewable(id) == Live(id) /\ ~rows[id].immutable

ReviewStart(P) ==
    /\ review = {}
    /\ \A p \in P : p[1] # p[2] /\ Reviewable(p[1]) /\ Reviewable(p[2])
    /\ review' = P
    /\ UNCHANGED <<rows, versions, chunks, editor, seen, batch, written>>

\* The reviewer declined, failed, or the merge transaction returned an error.
ReviewDrop(p) ==
    /\ p \in review
    /\ review' = review \ {p}
    /\ UNCHANGED <<rows, versions, chunks, editor, seen, batch, written>>

\* The winner's row after MergeMemoriesAtomic: content and hash change with a
\* new content, the summary and the chunks do not.
Merged(w, new) ==
    IF new = Null THEN rows[w]
    ELSE [rows[w] EXCEPT !.content = new, !.hash = new]

\* Mutant of MergeMemories: the winner is not versioned.
MergeMemoriesUnversioned(w, l, new) ==
    /\ <<w, l>> \in review
    /\ Live(w) /\ RoomForVersion(w) /\ ~rows[l].immutable
    /\ rows' = [id \in Ids |-> IF id = l /\ Exists(id) THEN NoRow("deleted")
                               ELSE IF id = w THEN Merged(w, new) ELSE rows[id]]
    /\ chunks' = {k \in chunks : k.memory # l}
    /\ written' = [written EXCEPT ![w] = IF new = Null THEN @ ELSE @ \cup {new}]
    /\ review' = review \ {<<w, l>>}
    /\ UNCHANGED <<versions, editor, seen, batch>>

\* MergeMemoriesAtomic.  A loser that is already gone counts as merged; an
\* immutable loser aborts the transaction (ReviewDrop).
MergeMemories(w, l, new) ==
    /\ <<w, l>> \in review
    /\ Live(w) /\ RoomForVersion(w) /\ ~rows[l].immutable
    /\ versions' = Versioned(w, "update")
    /\ rows' = [id \in Ids |-> IF id = l /\ Exists(id) THEN NoRow("deleted")
                               ELSE IF id = w THEN Merged(w, new) ELSE rows[id]]
    /\ chunks' = {k \in chunks : k.memory # l}
    /\ written' = [written EXCEPT ![w] = IF new = Null THEN @ ELSE @ \cup {new}]
    /\ review' = review \ {<<w, l>>}
    /\ UNCHANGED <<editor, seen, batch>>

-----------------------------------------------------------------------------
StoreStep ==
    \/ \E id \in Ids, c \in Contents, body \in Contents, imm \in BOOLEAN :
            Store(id, c, body, imm)
    \/ \E S \in SUBSET Ids : S # {} /\ \E f \in [S -> Contents], pinned \in SUBSET S :
            StoreBatch(f, pinned)

CorrectStep(e) ==
    \/ \E id \in Ids, c \in Contents \cup {Null} : CorrectUpdate(e, id, c)
    \/ \E id \in Ids : CorrectMissing(e, id)
    \/ CorrectChunk(e) \/ CorrectDelete(e) \/ CorrectCommit(e) \/ CorrectFail(e)

DeleteStep ==
    \/ \E id \in Ids : Forget(id) \/ DeleteMemory(id)
    \/ \E S \in SUBSET Ids : S # {} /\ Prune(S)
    \/ DeleteProject

SummarizeStep(s) ==
    \/ \E S \in SUBSET Ids : S # {} /\ SummarizeRead(s, S)
    \/ \E id \in Ids : SummarizeStore(s, id) \/ SummarizeSkip(s, id)
    \/ SummarizeAbort(s)

MergeStep ==
    \/ \E P \in SUBSET (Ids \X Ids) : P # {} /\ ReviewStart(P)
    \/ \E p \in review :
         \/ ReviewDrop(p)
         \/ \E new \in Contents \cup {Null} : MergeMemories(p[1], p[2], new)

Next ==
    \/ StoreStep
    \/ \E e \in Editors : CorrectStep(e)
    \/ DeleteStep
    \/ \E s \in Summarizers : SummarizeStep(s)
    \/ Resummarize
    \/ MergeStep

Spec == Init /\ [][Next]_vars

-----------------------------------------------------------------------------
(* Properties.                                                             *)

\* The stored hash is the hash of the stored content (GetIntegrityStats counts
\* no corrupt row), through corrections and merges alike.
RowIntegrity == \A id \in Ids : Exists(id) => rows[id].hash = rows[id].content

\* "full audit trail": whatever was once committed as a memory's content is its
\* content now or is in its versions, whoever overwrote it.
HistoryComplete ==
    \A id \in Ids : Exists(id) =>
        \A c \in written[id] :
            \/ rows[id].content = c
            \/ \E i \in DOMAIN versions[id] : versions[id][i].content = c

\* Of the versions of a memory only the latest is open (system_to IS NULL).
OneOpenVersion ==
    \A id \in Ids : \A i \in DOMAIN versions[id] :
        versions[id][i].open <=> i = Len(versions[id])

\* Nothing foreign is indexed: every chunk belongs to a stored memory and holds
\* a piece of a text that was given for that memory, also after a late swap of
\* a Correct that raced another one, a merge or a deletion.
IndexProvenance ==
    \A k \in chunks :
        /\ Exists(k.memory)
        /\ \/ k.text \in PiecesOf[rows[k.memory].body]
           \/ \E c \in written[k.memory] : k.text \in PiecesOf[c]

\* "soft-delete": an invalidated memory never becomes active again and its
\* content never changes.
ForgottenStaysForgotten ==
    [][\A id \in Ids : rows[id].status = "invalid" =>
            \/ rows'[id].status = "deleted"
            \/ rows'[id].status = "invalid" /\ rows'[id].content = rows[id].content
      ]_vars

\* "When true, the memory can never be edited or soft-deleted" (mcp/server.go,
\* `immutable`): only DeleteProject removes an immutable memory.
ImmutableUntouched ==
    [][\A id \in Ids : Exists(id) /\ rows[id].immutable =>
            \/ DeleteProject
            \/ rows'[id].status = "live" /\ rows'[id].content = rows[id].content
      ]_vars

\* "old chunks are deleted and new chunks are created so the search index
\* reflects the corrected text" (engine.go:2197): a Correct that commits while
\* no other operation runs leaves exactly the pieces of the current content.
CorrectedIndex ==
    [][\A e \in Editors :
        CorrectCommit(e) /\ rows[editor[e].id].content = editor[e].content
        => TextsFor(editor[e].id)' = PiecesOf[editor[e].content]]_vars

\* "Clear the summary so the background worker regenerates it with the new
\* content" (postgres_memory.go:271): with no summarizer at work, a summary is
\* one of the current content or is pending.
SummaryFresh ==
    (\A s \in Summarizers : batch[s] = EmptyBatch) =>
        \A id \in Ids : Live(id) =>
            rows[id].summary \in {rows[id].content, Null}
=============================================================================
