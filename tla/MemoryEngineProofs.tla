------------------------- MODULE MemoryEngineProofs -------------------------
(* Proofs about the memory engine, for every set of memories, contents,    *)
(* editors and summarizers and every way of cutting contents into chunks.  *)
EXTENDS MemoryEngine, TLAPS

-----------------------------------------------------------------------------
(* Types.                                                                  *)

\* versionMemoryTx appends one closed-under-type snapshot to one memory.
LEMMA VersionedType ==
    ASSUME TypeOK, NEW id \in Ids, Exists(id),
           NEW change \in {"update", "invalidate"}
    PROVE  Versioned(id, change) \in [Ids -> Seq(Versions)]
<1> DEFINE old == versions[id]
           closed == [i \in 1 .. Len(old) |-> [old[i] EXCEPT !.open = FALSE]]
           new == [content |-> rows[id].content, change |-> change, open |-> TRUE]
<1>1. old \in Seq(Versions) /\ rows[id].content \in Contents
  BY DEF TypeOK, Exists
<1>2. Len(old) \in Nat /\ \A i \in 1 .. Len(old) : old[i] \in Versions
  BY <1>1
<1>3. \A i \in 1 .. Len(old) : [old[i] EXCEPT !.open = FALSE] \in Versions
  BY <1>2 DEF Versions
<1>4. closed \in Seq(Versions)
  BY <1>2, <1>3
<1>5. new \in Versions
  BY <1>1 DEF Versions
<1>6. Append(closed, new) \in Seq(Versions)
  BY <1>4, <1>5
<1> QED
  BY <1>6 DEF Versioned, TypeOK

\* Fresh chunk rows belong to the memory they are made for and carry the texts
\* they are made of.
LEMMA FreshChunksShape ==
    ASSUME NEW id, NEW texts
    PROVE  \A k \in FreshChunks(id, texts) : k.memory = id /\ k.text \in texts
BY DEF FreshChunks, Chunk

\* A row that was never stored, or was deleted.
LEMMA NoRowType == \A st \in Statuses : NoRow(st) \in Rows
BY DEF NoRow, Row, Rows

\* Overwriting columns of a row with values of their types.
LEMMA ContentColumnType ==
    ASSUME NEW r \in Rows, NEW c \in Contents
    PROVE  /\ [r EXCEPT !.content = c, !.hash = c] \in Rows
           /\ [r EXCEPT !.content = c, !.hash = c, !.summary = Null] \in Rows
<1> USE DEF Rows
<1>1. [r EXCEPT !.content = c, !.hash = c] \in Rows
  OBVIOUS
<1>2. [r EXCEPT !.content = c, !.hash = c, !.summary = Null] \in Rows
  OBVIOUS
<1> QED
  BY <1>1, <1>2

\* The same for the summary, which StoreSummary writes.
LEMMA SummaryColumnType ==
    ASSUME NEW r \in Rows, NEW c \in Contents \cup {Null}
    PROVE  [r EXCEPT !.summary = c] \in Rows
BY DEF Rows

\* And the status, which SoftDeleteMemory changes.
LEMMA StatusColumnType ==
    ASSUME NEW r \in Rows, NEW st \in Statuses
    PROVE  [r EXCEPT !.status = st] \in Rows
BY DEF Rows

\* The transactions of UpdateMemory and MergeMemoriesAtomic keep rows in type.
LEMMA RowUpdateType ==
    ASSUME TypeOK, NEW id \in Ids, Live(id), NEW c \in Contents
    PROVE  /\ [rows[id] EXCEPT !.content = c, !.hash = c, !.summary = Null] \in Rows
           /\ [rows[id] EXCEPT !.content = c, !.hash = c] \in Rows
<1>1. rows[id] \in Rows
  BY DEF TypeOK
<1> QED
  BY <1>1, ContentColumnType, Zenon

\* Writing a summary, or the invalidation time, keeps the row in type.
LEMMA RowFieldType ==
    ASSUME TypeOK, NEW id \in Ids, NEW st \in Statuses,
           NEW c \in Contents \cup {Null}
    PROVE  /\ [rows[id] EXCEPT !.summary = c] \in Rows
           /\ [rows[id] EXCEPT !.status = st] \in Rows
           /\ [rows[id] EXCEPT !.summary = c].content = rows[id].content
           /\ [rows[id] EXCEPT !.status = st].content = rows[id].content
           /\ [rows[id] EXCEPT !.summary = c].status = rows[id].status
<1>1. rows[id] \in Rows
  BY DEF TypeOK
<1>2. /\ [rows[id] EXCEPT !.summary = c] \in Rows
      /\ [rows[id] EXCEPT !.status = st] \in Rows
  BY <1>1, SummaryColumnType, StatusColumnType
<1>3. /\ [rows[id] EXCEPT !.summary = c].content = rows[id].content
      /\ [rows[id] EXCEPT !.status = st].content = rows[id].content
      /\ [rows[id] EXCEPT !.summary = c].status = rows[id].status
  BY <1>1 DEF Rows
<1> QED
  BY <1>2, <1>3

\* The program counter and the pending chunks of an editor.
LEMMA EditorFieldType ==
    ASSUME TypeOK, NEW e \in Editors, NEW texts \in SUBSET Texts,
           NEW pc \in {"idle", "chunk", "delete", "commit", "panic"}
    PROVE  /\ [editor[e] EXCEPT !.pc = pc] \in EditorStates
           /\ [[editor[e] EXCEPT !.pc = pc] EXCEPT !.pending = texts] \in EditorStates
BY DEF TypeOK, EditorTypeOK, EditorStates

\* Replacing some rows by deleted ones keeps the type of the tables.
LEMMA RemoveRowsType ==
    ASSUME TypeOK, NEW S \in SUBSET Ids, RemoveRows(S)
    PROVE  /\ rows' \in [Ids -> Rows]
           /\ \A id \in Ids : rows'[id].status \in Stored => rows'[id] = rows[id]
           /\ \A id \in Ids : rows'[id].status \in Stored => rows'[id].content \in Contents
           /\ \A k \in chunks' : k \in chunks
<1>1. rows' \in [Ids -> Rows]
  BY NoRowType DEF RemoveRows, TypeOK, Statuses
<1>2. \A id \in Ids : rows'[id].status \in Stored => rows'[id] = rows[id]
  BY DEF RemoveRows, NoRow, Row, Stored, TypeOK
<1> QED
  BY <1>1, <1>2 DEF RemoveRows, TypeOK

\* Every step keeps the tables and the local state of the processes in type.
LEMMA TypeStep == TypeOK /\ [Next]_vars => TypeOK'
<1> SUFFICES ASSUME TypeOK, [Next]_vars PROVE TypeOK'
  OBVIOUS
<1> USE DataAssumption
<1>0. UNCHANGED editor => EditorTypeOK'
  BY DEF TypeOK, EditorTypeOK, Correcting
<1>1. ASSUME NEW id \in Ids, NEW c \in Contents, NEW body \in Contents,
             NEW imm \in BOOLEAN, Store(id, c, body, imm)
      PROVE  TypeOK'
  <2>1. Inserted(c, body, imm) \in Rows /\ Inserted(c, body, imm).content = c
    BY DEF Inserted, Row, Rows, Statuses, Stored
  <2>2. \A k \in chunks' : k.memory \in Ids /\ k.text \in Texts
    BY <1>1, FreshChunksShape DEF Store, TypeOK
  <2> QED
    BY <1>0, <1>1, <2>1, <2>2 DEF Store, TypeOK
<1>2. ASSUME NEW S \in SUBSET Ids, NEW f \in [S -> Contents],
             NEW pinned \in SUBSET S, StoreBatch(f, pinned)
      PROVE  TypeOK'
  <2>1. \A id \in S : /\ Inserted(f[id], f[id], id \in pinned) \in Rows
                       /\ Inserted(f[id], f[id], id \in pinned).content \in Contents
    <3>1. \A id \in S : (id \in pinned) \in BOOLEAN
      OBVIOUS
    <3> QED
      BY <3>1 DEF Inserted, Row, Rows, Statuses, Stored
  <2>2. \A k \in chunks' : k.memory \in Ids /\ k.text \in Texts
    BY <1>2, FreshChunksShape DEF StoreBatch, TypeOK
  <2>3. /\ rows' \in [Ids -> Rows]
        /\ \A id \in Ids : rows'[id].status \in Stored => rows'[id].content \in Contents
    BY <1>0, <1>2, <2>1 DEF StoreBatch, TypeOK
  <2>4. written' \in [Ids -> SUBSET Contents]
    BY <1>0, <1>2 DEF StoreBatch, TypeOK
  <2> QED
    BY <1>0, <1>2, <2>2, <2>3, <2>4 DEF StoreBatch, TypeOK
<1>3. ASSUME NEW e \in Editors, NEW id \in Ids, NEW c \in Contents \cup {Null},
             CorrectUpdate(e, id, c)
      PROVE  TypeOK'
  <2>1. /\ rows' \in [Ids -> Rows]
        /\ \A i \in Ids : rows'[i].status \in Stored => rows'[i].content \in Contents
        /\ written' \in [Ids -> SUBSET Contents]
    <3>1. CASE c = Null
      BY <1>3, <3>1 DEF CorrectUpdate, UpdateRow, TypeOK
    <3>2. CASE c \in Contents
      <4>1. /\ rows' = [rows EXCEPT ![id] =
                  [rows[id] EXCEPT !.content = c, !.hash = c, !.summary = Null]]
            /\ written' = [written EXCEPT ![id] = @ \cup {c}]
        BY <1>3, <3>2 DEF CorrectUpdate, UpdateRow
      <4>2. [rows[id] EXCEPT !.content = c, !.hash = c, !.summary = Null].content = c
        BY DEF TypeOK, Rows
      <4>3. [rows[id] EXCEPT !.content = c, !.hash = c, !.summary = Null] \in Rows
        BY <1>3, <3>2, RowUpdateType DEF CorrectUpdate
      <4> HIDE DEF Rows
      <4> QED
        BY <4>1, <4>2, <4>3, <3>2 DEF TypeOK
    <3> QED
      BY <3>1, <3>2
  <2>2. versions' \in [Ids -> Seq(Versions)]
    BY <1>3, VersionedType DEF CorrectUpdate, UpdateRow, Live, Exists, Stored
  <2>3. EditorTypeOK'
    <3>1. PICK r \in EditorStates :
              /\ editor' = [editor EXCEPT ![e] = r]
              /\ r.pc = "idle" \/ (r.id \in Ids /\ r.content \in Contents)
      <4> DEFINE r == [IdleEditor EXCEPT !.pc = IF c = Null THEN "idle" ELSE "chunk",
                          !.id = IF c = Null THEN @ ELSE id, !.content = c]
      <4>1. r \in EditorStates
        BY DEF EditorStates, IdleEditor
      <4>2. r.pc = "idle" \/ (r.id \in Ids /\ r.content \in Contents)
        BY DEF IdleEditor
      <4>3. editor' = [editor EXCEPT ![e] = r]
        BY <1>3 DEF CorrectUpdate
      <4> QED
        BY <4>1, <4>2, <4>3
    <3> QED
      BY <3>1 DEF TypeOK, EditorTypeOK, Correcting
  <2> QED
    BY <1>3, <2>1, <2>2, <2>3 DEF CorrectUpdate, TypeOK
<1>4. ASSUME NEW e \in Editors, NEW id \in Ids, CorrectMissing(e, id) PROVE TypeOK'
  <2>1. EditorTypeOK'
    <3> DEFINE r == [editor[e] EXCEPT !.pc = "panic"]
    <3>1. r \in EditorStates
      BY {} \in SUBSET Texts, EditorFieldType
    <3>2. r.pc = "panic" /\ editor' = [editor EXCEPT ![e] = r]
      BY <1>4 DEF CorrectMissing, TypeOK, EditorTypeOK, EditorStates
    <3> HIDE DEF r
    <3> QED
      BY <3>1, <3>2 DEF TypeOK, EditorTypeOK, Correcting
  <2> QED
    BY <1>4, <2>1 DEF CorrectMissing, TypeOK
<1>5. ASSUME NEW e \in Editors, CorrectChunk(e) PROVE TypeOK'
  <2> DEFINE texts == PiecesOf[editor[e].content] \ TextsFor(editor[e].id)
             r == [[editor[e] EXCEPT !.pc = "delete"] EXCEPT !.pending = texts]
  <2>1. editor[e].id \in Ids /\ editor[e].content \in Contents
    BY <1>5 DEF CorrectChunk, TypeOK, EditorTypeOK, Correcting
  <2>2. texts \in SUBSET Texts
    BY <2>1
  <2>3. r \in EditorStates
    BY <2>2, EditorFieldType
  <2>4. r.id = editor[e].id /\ r.content = editor[e].content
    BY DEF TypeOK, EditorTypeOK, EditorStates
  <2>5. editor' = [editor EXCEPT ![e] = r]
    BY <1>5 DEF CorrectChunk, TypeOK, EditorTypeOK
  <2> HIDE DEF r
  <2>6. EditorTypeOK'
    BY <2>1, <2>3, <2>4, <2>5 DEF TypeOK, EditorTypeOK, Correcting
  <2> QED
    BY <1>5, <2>6 DEF CorrectChunk, TypeOK
<1>6. ASSUME NEW e \in Editors, CorrectDelete(e) PROVE TypeOK'
  <2>1. EditorTypeOK'
    <3> DEFINE r == [editor[e] EXCEPT !.pc = "commit"]
    <3>1. r \in EditorStates
      BY {} \in SUBSET Texts, EditorFieldType
    <3>2. /\ r.id = editor[e].id /\ r.content = editor[e].content
          /\ editor' = [editor EXCEPT ![e] = r]
      BY <1>6 DEF CorrectDelete, TypeOK, EditorTypeOK, EditorStates
    <3>3. r.id \in Ids /\ r.content \in Contents
      BY <1>6, <3>2 DEF CorrectDelete, TypeOK, EditorTypeOK, Correcting
    <3> HIDE DEF r
    <3> QED
      BY <3>1, <3>2, <3>3 DEF TypeOK, EditorTypeOK, Correcting
  <2> QED
    BY <1>6, <2>1 DEF CorrectDelete, TypeOK
<1>7. ASSUME NEW e \in Editors, CorrectCommit(e) PROVE TypeOK'
  <2>1. editor[e].id \in Ids /\ editor[e].pending \subseteq Texts
    BY <1>7 DEF CorrectCommit, TypeOK, EditorTypeOK, Correcting, EditorStates
  <2>2. \A k \in chunks' : k.memory \in Ids /\ k.text \in Texts
    BY <1>7, <2>1, FreshChunksShape DEF CorrectCommit, TypeOK
  <2>3. EditorTypeOK'
    BY <1>7 DEF CorrectCommit, TypeOK, EditorTypeOK, Correcting, EditorStates, IdleEditor
  <2> QED
    BY <1>7, <2>2, <2>3 DEF CorrectCommit, TypeOK
<1>8. ASSUME NEW e \in Editors, CorrectFail(e) PROVE TypeOK'
  <2>1. EditorTypeOK'
    BY <1>8 DEF CorrectFail, TypeOK, EditorTypeOK, Correcting, EditorStates, IdleEditor
  <2> QED
    BY <1>8, <2>1 DEF CorrectFail, TypeOK
<1>9. ASSUME NEW id \in Ids, Forget(id) PROVE TypeOK'
  <2>1. versions' \in [Ids -> Seq(Versions)]
    BY <1>9, VersionedType DEF Forget, Live, Exists, Stored
  <2>2. /\ rows' \in [Ids -> Rows]
        /\ \A i \in Ids : rows'[i].status \in Stored => rows'[i].content \in Contents
    <3>1. "invalid" \in Statuses /\ rows[id].status \in Stored
      BY <1>9 DEF Forget, Live, Stored, Statuses
    <3>2. /\ [rows[id] EXCEPT !.status = "invalid"] \in Rows
          /\ [rows[id] EXCEPT !.status = "invalid"].content = rows[id].content
      BY <3>1, RowFieldType
    <3>3. rows' = [rows EXCEPT ![id] = [rows[id] EXCEPT !.status = "invalid"]]
      BY <1>9 DEF Forget
    <3> QED
      BY <3>1, <3>2, <3>3 DEF TypeOK
  <2> QED
    BY <1>0, <1>9, <2>1, <2>2 DEF Forget, TypeOK
<1>10. ASSUME NEW S \in SUBSET Ids, RemoveRows(S),
              UNCHANGED <<versions, editor, seen, batch, review, written>>
       PROVE  TypeOK'
  BY <1>0, <1>10, RemoveRowsType DEF TypeOK
<1>11. CASE DeleteProject
  <2>1. RemoveRows({id \in Ids : Exists(id)})
    BY <1>11 DEF DeleteProject
  <2> QED
    BY <1>0, <1>11, <2>1, RemoveRowsType DEF DeleteProject, TypeOK
<1>12. ASSUME NEW s \in Summarizers, NEW S \in SUBSET Ids, SummarizeRead(s, S)
       PROVE  TypeOK'
  <2>1. \A id \in S : rows[id].content \in Contents
    BY <1>12 DEF SummarizeRead, Pending, Live, TypeOK, Stored
  <2> QED
    BY <1>0, <1>12, <2>1 DEF SummarizeRead, TypeOK
<1>13. ASSUME NEW s \in Summarizers, NEW id \in Ids, SummarizeStore(s, id)
       PROVE  TypeOK'
  <2>1. batch[s][id] \in Contents \cup {Null}
    BY DEF TypeOK
  <2>2. /\ rows' \in [Ids -> Rows]
        /\ \A i \in Ids : rows'[i].status \in Stored => rows'[i].content \in Contents
    <3> DEFINE r == [rows[id] EXCEPT !.summary = batch[s][id]]
    <3>1. /\ r \in Rows /\ r.content = rows[id].content /\ r.status = rows[id].status
      BY <2>1, "deleted" \in Statuses, RowFieldType DEF Statuses
    <3>2. rows' = rows \/ rows' = [rows EXCEPT ![id] = r]
      BY <1>13 DEF SummarizeStore
    <3> HIDE DEF r
    <3> QED
      BY <3>1, <3>2 DEF TypeOK
  <2>3. batch' \in [Summarizers -> [Ids -> Contents \cup {Null}]]
    BY <1>0, <1>13 DEF SummarizeStore, TypeOK
  <2> QED
    BY <1>0, <1>13, <2>2, <2>3 DEF SummarizeStore, TypeOK
<1>14. ASSUME NEW s \in Summarizers, NEW id \in Ids, SummarizeSkip(s, id)
       PROVE  TypeOK'
  BY <1>0, <1>14 DEF SummarizeSkip, TypeOK
<1>15. ASSUME NEW s \in Summarizers, SummarizeAbort(s) PROVE TypeOK'
  BY <1>0, <1>15 DEF SummarizeAbort, TypeOK, EmptyBatch
<1>16. CASE Resummarize
  <2>1. /\ rows' \in [Ids -> Rows]
        /\ \A i \in Ids : rows'[i].status \in Stored => rows'[i].content \in Contents
    BY <1>16, RowFieldType DEF Resummarize, TypeOK, Statuses
  <2> QED
    BY <1>0, <1>16, <2>1 DEF Resummarize, TypeOK
<1>17. ASSUME NEW P \in SUBSET (Ids \X Ids), ReviewStart(P) PROVE TypeOK'
  BY <1>0, <1>17 DEF ReviewStart, TypeOK
<1>18. ASSUME NEW p \in review, ReviewDrop(p) PROVE TypeOK'
  BY <1>0, <1>18 DEF ReviewDrop, TypeOK
<1>19. ASSUME NEW p \in review, NEW new \in Contents \cup {Null},
              MergeMemories(p[1], p[2], new)
       PROVE  TypeOK'
  <2> DEFINE w == p[1]
             l == p[2]
  <2>1. w \in Ids /\ l \in Ids
    BY DEF TypeOK
  <2> HIDE DEF w, l
  <2>2. MergeMemories(w, l, new)
    BY <1>19 DEF w, l
  <2>3. versions' \in [Ids -> Seq(Versions)]
    BY <2>1, <2>2, VersionedType DEF MergeMemories, Live, Exists, Stored
  <2>4. Merged(w, new) \in Rows /\ Merged(w, new).content \in Contents
    BY <2>1, <2>2, RowUpdateType DEF MergeMemories, Merged, TypeOK, Rows, Live, Stored
  <2>5. NoRow("deleted") \in Rows /\ NoRow("deleted").status \notin Stored
    BY NoRowType DEF Statuses, NoRow, Row, Stored
  <2>6. /\ rows' \in [Ids -> Rows]
        /\ \A i \in Ids : rows'[i].status \in Stored => rows'[i].content \in Contents
    BY <1>0, <2>1, <2>2, <2>4, <2>5 DEF MergeMemories, TypeOK
  <2>7. written' \in [Ids -> SUBSET Contents]
    BY <1>0, <2>1, <2>2 DEF MergeMemories, TypeOK
  <2> QED
    BY <1>0, <2>2, <2>3, <2>6, <2>7 DEF MergeMemories, TypeOK
<1>20. CASE UNCHANGED vars
  BY <1>0, <1>20 DEF vars, TypeOK
<1>21. CASE StoreStep
  BY <1>1, <1>2, <1>21 DEF StoreStep
<1>22. CASE \E e \in Editors : CorrectStep(e)
  BY <1>3, <1>4, <1>5, <1>6, <1>7, <1>8, <1>22 DEF CorrectStep
<1>23. CASE DeleteStep
  BY <1>9, <1>10, <1>11, <1>23 DEF DeleteStep, DeleteMemory, Prune
<1>24. CASE \E s \in Summarizers : SummarizeStep(s)
  BY <1>12, <1>13, <1>14, <1>15, <1>24 DEF SummarizeStep
<1>25. CASE MergeStep
  BY <1>17, <1>18, <1>19, <1>25 DEF MergeStep
<1> QED
  BY <1>16, <1>20, <1>21, <1>22, <1>23, <1>24, <1>25 DEF Next

-----------------------------------------------------------------------------
(* History: versions, hashes, what was once written.                       *)

\* versionMemoryTx keeps every older snapshot, adds one of the present
\* content, and leaves exactly the new one open.
LEMMA VersionedHistory ==
    ASSUME TypeOK, NEW id \in Ids, Exists(id),
           NEW change \in {"update", "invalidate"}
    PROVE  LET v == Versioned(id, change)
           IN  /\ \E i \in DOMAIN v[id] : v[id][i].content = rows[id].content
               /\ \A i \in DOMAIN versions[id] :
                    \E j \in DOMAIN v[id] : v[id][j].content = versions[id][i].content
               /\ \A o \in Ids \ {id} : v[o] = versions[o]
               /\ \A i \in DOMAIN v[id] : v[id][i].open <=> i = Len(v[id])
<1> DEFINE v == Versioned(id, change)
           old == versions[id]
           closed == [i \in 1 .. Len(old) |-> [old[i] EXCEPT !.open = FALSE]]
           new == [content |-> rows[id].content, change |-> change, open |-> TRUE]
<1>1. old \in Seq(Versions)
  BY DEF TypeOK
<1>2. Len(old) \in Nat /\ DOMAIN old = 1 .. Len(old)
        /\ \A i \in 1 .. Len(old) : old[i] \in Versions
  BY <1>1
<1>3. \A i \in 1 .. Len(old) : /\ [old[i] EXCEPT !.open = FALSE] \in Versions
                               /\ [old[i] EXCEPT !.open = FALSE].open = FALSE
                               /\ [old[i] EXCEPT !.open = FALSE].content = old[i].content
  BY <1>2 DEF Versions
<1>4. v[id] = Append(closed, new) /\ \A o \in Ids \ {id} : v[o] = versions[o]
  BY DEF Versioned, TypeOK
<1>5. /\ closed \in Seq(Versions)
      /\ Len(closed) = Len(old)
      /\ \A i \in 1 .. Len(old) : closed[i].open = FALSE
                                  /\ closed[i].content = old[i].content
  BY <1>2, <1>3
<1>6. new \in Versions /\ new.content = rows[id].content /\ new.open = TRUE
  BY DEF Versions, TypeOK, Exists
<1> DEFINE a == Append(closed, new)
<1> HIDE DEF closed, new
<1>7. /\ Len(a) = Len(old) + 1
      /\ DOMAIN a = 1 .. Len(old) + 1
      /\ \A i \in 1 .. Len(old) : a[i] = closed[i]
      /\ a[Len(old) + 1] = new
  BY <1>2, <1>5, <1>6
<1> HIDE DEF a
<1>8. v[id] = a
  BY <1>4 DEF a
<1>9. \A i \in DOMAIN a : a[i].open <=> i = Len(a)
  BY <1>2, <1>5, <1>6, <1>7
<1>10. \A i \in DOMAIN old : i \in DOMAIN a /\ a[i].content = old[i].content
  BY <1>2, <1>5, <1>7
<1>11. Len(old) + 1 \in DOMAIN a /\ a[Len(old) + 1].content = rows[id].content
  BY <1>2, <1>6, <1>7
<1> HIDE DEF v, old
<1>12. \E i \in DOMAIN v[id] : v[id][i].content = rows[id].content
  BY <1>8, <1>11
<1>13. \A i \in DOMAIN versions[id] :
          \E j \in DOMAIN v[id] : v[id][j].content = versions[id][i].content
  BY <1>8, <1>10 DEF old
<1> QED
  BY <1>4, <1>8, <1>9, <1>12, <1>13 DEF v

\* What the runs check of a memory's past.
HistoryInv == RowIntegrity /\ HistoryComplete /\ OneOpenVersion

\* Steps that touch neither a content, nor a hash, nor a version: chunks, the
\* state of processes, summaries, rows that vanish.
LEMMA QuietKeepsHistory ==
    ASSUME HistoryInv, UNCHANGED <<versions, written>>,
           \A id \in Ids : Exists(id)' => /\ Exists(id)
                                         /\ rows'[id].content = rows[id].content
                                         /\ rows'[id].hash = rows[id].hash
    PROVE  HistoryInv'
BY DEF HistoryInv, RowIntegrity, HistoryComplete, OneOpenVersion, Exists

\* Transactions that first version one memory and then give it a content that
\* is recorded as written (Correct, a merge), or none (Forget).
LEMMA VersionedKeepsHistory ==
    ASSUME TypeOK, HistoryInv, NEW id \in Ids, Exists(id),
           NEW change \in {"update", "invalidate"},
           versions' = Versioned(id, change),
           rows'[id].hash = rows'[id].content,
           \A c \in written'[id] : c \in written[id] \/ c = rows'[id].content,
           \A o \in Ids \ {id} : /\ written'[o] = written[o]
                                 /\ Exists(o)' => rows'[o] = rows[o] /\ Exists(o)
    PROVE  HistoryInv'
<1>1. RowIntegrity'
  BY DEF HistoryInv, RowIntegrity, Exists
<1>2. OneOpenVersion'
  BY VersionedHistory DEF HistoryInv, OneOpenVersion
<1>3. HistoryComplete'
  <2> SUFFICES ASSUME NEW o \in Ids, Exists(o)', NEW c \in written'[o]
               PROVE  \/ rows'[o].content = c
                      \/ \E i \in DOMAIN versions'[o] : versions'[o][i].content = c
    BY DEF HistoryComplete
  <2>1. CASE o # id
    BY <2>1, VersionedHistory, SMTT(60) DEF HistoryInv, HistoryComplete, Exists
  <2>2. CASE o = id
    <3>1. CASE c = rows'[id].content
      BY <3>1, <2>2
    <3>2. CASE c \in written[id]
      <4>1. \/ rows[id].content = c
            \/ \E i \in DOMAIN versions[id] : versions[id][i].content = c
        BY <3>2 DEF HistoryInv, HistoryComplete
      <4> QED
        BY <4>1, <2>2, VersionedHistory
    <3> QED
      BY <2>2, <3>1, <3>2
  <2> QED
    BY <2>1, <2>2
<1> QED
  BY <1>1, <1>2, <1>3 DEF HistoryInv

\* Every step preserves the history of every memory.
LEMMA HistoryStep == TypeOK /\ HistoryInv /\ [Next]_vars => HistoryInv'
<1> SUFFICES ASSUME TypeOK, HistoryInv, [Next]_vars PROVE HistoryInv'
  OBVIOUS
<1> USE DataAssumption
<1>0. UNCHANGED <<rows, versions, written>> => HistoryInv'
  BY QuietKeepsHistory DEF Exists
<1>1. ASSUME NEW id \in Ids, NEW c \in Contents, NEW body \in Contents,
             NEW imm \in BOOLEAN, Store(id, c, body, imm)
      PROVE  HistoryInv'
  <2>1. Inserted(c, body, imm).content = c /\ Inserted(c, body, imm).hash = c
    BY DEF Inserted, Row
  <2> QED
    BY <1>1, <2>1 DEF Store, HistoryInv, RowIntegrity, HistoryComplete,
                      OneOpenVersion, Exists, TypeOK
<1>2. ASSUME NEW S \in SUBSET Ids, NEW f \in [S -> Contents],
             NEW pinned \in SUBSET S, StoreBatch(f, pinned)
      PROVE  HistoryInv'
  <2>1. \A id \in S : /\ Inserted(f[id], f[id], id \in pinned).content = f[id]
                       /\ Inserted(f[id], f[id], id \in pinned).hash = f[id]
    BY DEF Inserted, Row
  <2>2. \A id \in S : /\ rows'[id].hash = rows'[id].content
                       /\ written'[id] = {rows'[id].content}
    BY <1>2, <2>1 DEF StoreBatch
  <2>3. \A id \in Ids \ S : rows'[id] = rows[id] /\ written'[id] = written[id]
    BY <1>2 DEF StoreBatch
  <2>4. versions' = versions
    BY <1>2 DEF StoreBatch
  <2> QED
    BY <2>2, <2>3, <2>4
    DEF HistoryInv, RowIntegrity, HistoryComplete, OneOpenVersion, Exists
<1>3. ASSUME NEW e \in Editors, NEW id \in Ids, NEW c \in Contents \cup {Null},
             CorrectUpdate(e, id, c)
      PROVE  HistoryInv'
  <2>1. Exists(id)
    BY <1>3 DEF CorrectUpdate, Live, Exists, Stored
  <2>2. versions' = Versioned(id, "update")
    BY <1>3 DEF CorrectUpdate, UpdateRow
  <2>3. CASE c = Null
    <3>1. UNCHANGED <<rows, written>>
      BY <1>3, <2>3 DEF CorrectUpdate, UpdateRow
    <3>2. rows'[id].hash = rows'[id].content
      BY <2>1, <3>1 DEF HistoryInv, RowIntegrity
    <3> QED
      BY <2>1, <2>2, <3>1, <3>2, VersionedKeepsHistory DEF Exists
  <2>4. CASE c # Null
    <3> DEFINE r == [rows[id] EXCEPT !.content = c, !.hash = c, !.summary = Null]
    <3>1. r.content = c /\ r.hash = c
      BY DEF TypeOK, Rows
    <3>2. /\ rows' = [rows EXCEPT ![id] = r]
          /\ written' = [written EXCEPT ![id] = @ \cup {c}]
      BY <1>3, <2>4 DEF CorrectUpdate, UpdateRow
    <3> HIDE DEF r
    <3>3. /\ rows'[id].hash = c /\ rows'[id].content = c
          /\ written'[id] = written[id] \cup {c}
          /\ \A o \in Ids \ {id} : written'[o] = written[o] /\ rows'[o] = rows[o]
      BY <3>1, <3>2 DEF TypeOK
    <3> QED
      BY <2>1, <2>2, <3>3, VersionedKeepsHistory DEF Exists
  <2> QED
    BY <2>3, <2>4
<1>4. ASSUME NEW id \in Ids, Forget(id) PROVE HistoryInv'
  <2>1. Exists(id) /\ versions' = Versioned(id, "invalidate") /\ written' = written
    BY <1>4 DEF Forget, Live, Exists, Stored
  <2>2. /\ rows'[id].hash = rows[id].hash /\ rows'[id].content = rows[id].content
        /\ \A o \in Ids \ {id} : rows'[o] = rows[o]
    BY <1>4 DEF Forget, TypeOK, Rows
  <2>3. rows'[id].hash = rows'[id].content
    BY <2>1, <2>2 DEF HistoryInv, RowIntegrity
  <2> QED
    BY <2>1, <2>2, <2>3, VersionedKeepsHistory DEF Exists
<1>5. ASSUME NEW S \in SUBSET Ids, RemoveRows(S), UNCHANGED <<versions, written>>
      PROVE  HistoryInv'
  BY <1>5, RemoveRowsType, QuietKeepsHistory DEF Exists
<1>6. CASE DeleteProject
  <2>1. \A id \in Ids : ~Exists(id)'
    BY <1>6 DEF DeleteProject, RemoveRows, Exists, NoRow, Row, Stored
  <2>2. \A id \in Ids : versions'[id] = <<>>
    BY <1>6 DEF DeleteProject
  <2> QED
    BY <2>1, <2>2 DEF HistoryInv, RowIntegrity, HistoryComplete, OneOpenVersion
<1>7. ASSUME NEW s \in Summarizers, NEW id \in Ids, SummarizeStore(s, id)
      PROVE  HistoryInv'
  BY <1>7, QuietKeepsHistory DEF SummarizeStore, Exists, TypeOK, Rows
<1>8. CASE Resummarize
  BY <1>8, QuietKeepsHistory DEF Resummarize, Exists, TypeOK, Rows
<1>9. ASSUME NEW w \in Ids, NEW l \in Ids, NEW new \in Contents \cup {Null},
             MergeMemories(w, l, new)
      PROVE  HistoryInv'
  <2>1. Exists(w) /\ versions' = Versioned(w, "update")
    BY <1>9 DEF MergeMemories, Live, Exists, Stored
  <2>2. NoRow("deleted").status \notin Stored
    BY DEF NoRow, Row, Stored
  <2>3. /\ Merged(w, new).hash = Merged(w, new).content
        /\ new # Null => Merged(w, new).content = new
    BY <2>1 DEF Merged, HistoryInv, RowIntegrity, TypeOK, Rows
  <2>4. CASE w = l
    <3>1. ~Exists(w)'
      BY <1>9, <2>1, <2>2, <2>4 DEF MergeMemories, Exists, TypeOK
    <3>2. \A o \in Ids \ {w} : rows'[o] = rows[o] /\ written'[o] = written[o]
      BY <1>9, <2>4 DEF MergeMemories, TypeOK
    <3>3. OneOpenVersion'
      BY <2>1, VersionedHistory DEF HistoryInv, OneOpenVersion
    <3>4. \A o \in Ids \ {w} : versions'[o] = versions[o]
      BY <2>1, VersionedHistory
    <3> QED
      BY <3>1, <3>2, <3>3, <3>4 DEF HistoryInv, RowIntegrity, HistoryComplete, Exists
  <2>5. CASE w # l
    <3>1. rows'[w] = Merged(w, new)
      BY <1>9, <2>5 DEF MergeMemories, TypeOK
    <3>2. \A o \in Ids \ {w} : Exists(o)' => rows'[o] = rows[o] /\ Exists(o)
      BY <1>9, <2>2 DEF MergeMemories, TypeOK, Exists
    <3>3. /\ \A o \in Ids \ {w} : written'[o] = written[o]
          /\ \A c \in written'[w] : c \in written[w] \/ (new # Null /\ c = new)
      BY <1>9 DEF MergeMemories, TypeOK
    <3> QED
      BY <2>1, <2>3, <3>1, <3>2, <3>3, VersionedKeepsHistory
  <2> QED
    BY <2>4, <2>5
<1>10. CASE StoreStep
  BY <1>1, <1>2, <1>10 DEF StoreStep
<1>11. CASE \E e \in Editors : CorrectStep(e)
  BY <1>0, <1>3, <1>11 DEF CorrectStep, CorrectMissing, CorrectChunk, CorrectDelete,
                          CorrectCommit, CorrectFail
<1>12. CASE DeleteStep
  BY <1>4, <1>5, <1>6, <1>12 DEF DeleteStep, DeleteMemory, Prune
<1>13. CASE \E s \in Summarizers : SummarizeStep(s)
  BY <1>0, <1>7, <1>13 DEF SummarizeStep, SummarizeRead, SummarizeSkip, SummarizeAbort
<1>14. CASE MergeStep
  <2>1. \A p \in review : p[1] \in Ids /\ p[2] \in Ids
    BY DEF TypeOK
  <2> QED
    BY <1>0, <1>9, <1>14, <2>1 DEF MergeStep, ReviewStart, ReviewDrop
<1>15. CASE UNCHANGED vars
  BY <1>0, <1>15 DEF vars
<1> QED
  BY <1>8, <1>10, <1>11, <1>12, <1>13, <1>14, <1>15 DEF Next

\* The initial state: no memory was ever stored.
LEMMA InitHistory == Init => TypeOK /\ HistoryInv
<1> SUFFICES ASSUME Init PROVE TypeOK /\ HistoryInv
  OBVIOUS
<1>1. rows \in [Ids -> Rows] /\ \A id \in Ids : ~Exists(id)
  BY NoRowType DEF Init, Statuses, Exists, NoRow, Row, Stored
<1>2. EditorTypeOK
  BY DEF Init, EditorTypeOK, EditorStates, IdleEditor, Correcting
<1>3. versions \in [Ids -> Seq(Versions)]
  BY DEF Init
<1>4. TypeOK
  BY <1>1, <1>2, <1>3 DEF Init, TypeOK, EmptyBatch, Exists
<1>5. OneOpenVersion
  BY DEF Init, OneOpenVersion
<1> QED
  BY <1>1, <1>4, <1>5 DEF HistoryInv, RowIntegrity, HistoryComplete

\* In every reachable state each stored content carries its own hash, nothing
\* once written to a memory is lost from its content and versions, and only the
\* latest version is open, for any interleaving of Correct, Forget, merges,
\* pruning and summaries.
THEOREM AuditTrail ==
    Spec => [](TypeOK /\ RowIntegrity /\ HistoryComplete /\ OneOpenVersion)
<1>1. TypeOK /\ HistoryInv
        => TypeOK /\ RowIntegrity /\ HistoryComplete /\ OneOpenVersion
  BY DEF HistoryInv
<1> QED
  BY InitHistory, TypeStep, HistoryStep, <1>1, PTL DEF Spec

-----------------------------------------------------------------------------
(* What a step may do to a row: immutable and forgotten memories.          *)

\* MergeMemoriesAtomic does not look at the winner's immutable flag.  What
\* protects immutable memories is the filter of ConsolidateWithClaude, whose
\* answer stays true until the merge: the flag is only ever set by a store.
GuardInv ==
    /\ \A id \in Ids : rows[id].immutable => rows[id].status = "live"
    /\ \A p \in review : \A id \in {p[1], p[2]} :
            rows[id].status # "unused" /\ ~rows[id].immutable

\* The four things that can happen to a row.
RowChange(id) ==
    \/ rows[id].status = "unused" /\ rows'[id].status = "live"
    \/ /\ rows'[id].status = "deleted" /\ ~rows'[id].immutable
       /\ rows[id].status # "unused"
       /\ rows[id].immutable => DeleteProject
    \/ /\ Live(id) /\ ~rows[id].immutable
       /\ rows'[id].status \in Stored /\ ~rows'[id].immutable
    \/ /\ rows'[id].status = rows[id].status
       /\ rows'[id].content = rows[id].content
       /\ rows'[id].immutable = rows[id].immutable

\* Hard deletion changes a row in one of two of these ways.
LEMMA RemoveRowsChange ==
    ASSUME TypeOK, NEW S \in SUBSET Ids, RemoveRows(S),
           \A id \in S : Exists(id) /\ (rows[id].immutable => DeleteProject)
    PROVE  \A id \in Ids : RowChange(id)
<1>1. \A id \in Ids : IF id \in S THEN rows'[id] = NoRow("deleted")
                                   ELSE rows'[id] = rows[id]
  BY DEF RemoveRows
<1>2. NoRow("deleted").status = "deleted" /\ ~NoRow("deleted").immutable
  BY DEF NoRow, Row
<1> QED
  BY <1>1, <1>2 DEF RowChange, Exists, Stored

\* Every step does one of the four things to every row.
LEMMA RowStep ==
    ASSUME TypeOK, GuardInv, [Next]_vars
    PROVE  \A id \in Ids : RowChange(id)
<1>0. ASSUME UNCHANGED rows PROVE \A id \in Ids : RowChange(id)
  BY <1>0 DEF RowChange
<1>1. ASSUME NEW id \in Ids, NEW c \in Contents, NEW body \in Contents,
             NEW imm \in BOOLEAN, Store(id, c, body, imm)
      PROVE  \A o \in Ids : RowChange(o)
  BY <1>1 DEF Store, RowChange, TypeOK, Inserted, Row
<1>2. ASSUME NEW S \in SUBSET Ids, NEW f \in [S -> Contents],
             NEW pinned \in SUBSET S, StoreBatch(f, pinned)
      PROVE  \A o \in Ids : RowChange(o)
  BY <1>2 DEF StoreBatch, RowChange, TypeOK, Inserted, Row
<1>3. ASSUME NEW e \in Editors, NEW id \in Ids, NEW c \in Contents \cup {Null},
             CorrectUpdate(e, id, c)
      PROVE  \A o \in Ids : RowChange(o)
  <2> DEFINE r == [rows[id] EXCEPT !.content = c, !.hash = c, !.summary = Null]
  <2>1. r.status = rows[id].status /\ r.immutable = rows[id].immutable
    BY DEF TypeOK, Rows
  <2>2. rows' = rows \/ rows' = [rows EXCEPT ![id] = r]
    BY <1>3 DEF CorrectUpdate, UpdateRow
  <2>3. Live(id) /\ ~rows[id].immutable
    BY <1>3 DEF CorrectUpdate
  <2> HIDE DEF r
  <2> QED
    BY <2>1, <2>2, <2>3 DEF RowChange, TypeOK, Live, Stored
<1>4. ASSUME NEW id \in Ids, Forget(id) PROVE \A o \in Ids : RowChange(o)
  BY <1>4 DEF Forget, RowChange, TypeOK, Rows, Live, Stored
<1>5. ASSUME NEW S \in SUBSET Ids, Prune(S) PROVE \A o \in Ids : RowChange(o)
  BY <1>5, RemoveRowsChange DEF Prune
<1>6. ASSUME NEW id \in Ids, DeleteMemory(id) PROVE \A o \in Ids : RowChange(o)
  BY <1>6, {id} \in SUBSET Ids, RemoveRowsChange DEF DeleteMemory
<1>7. CASE DeleteProject
  BY <1>7, {id \in Ids : Exists(id)} \in SUBSET Ids, RemoveRowsChange DEF DeleteProject
<1>8. ASSUME NEW s \in Summarizers, NEW id \in Ids, SummarizeStore(s, id)
      PROVE  \A o \in Ids : RowChange(o)
  BY <1>8 DEF SummarizeStore, RowChange, TypeOK, Rows
<1>9. CASE Resummarize
  BY <1>9 DEF Resummarize, RowChange, TypeOK, Rows
<1>10. ASSUME NEW p \in review, NEW new \in Contents \cup {Null},
              MergeMemories(p[1], p[2], new)
       PROVE  \A o \in Ids : RowChange(o)
  <2> DEFINE w == p[1]
             l == p[2]
  <2>1. w \in Ids /\ l \in Ids
    BY DEF TypeOK
  <2>2. ~rows[w].immutable /\ ~rows[l].immutable
    BY DEF GuardInv
  <2> HIDE DEF w, l
  <2>3. MergeMemories(w, l, new)
    BY <1>10 DEF w, l
  <2>4. /\ Merged(w, new).status = rows[w].status
        /\ Merged(w, new).immutable = rows[w].immutable
    BY <2>1 DEF Merged, TypeOK, Rows
  <2>5. NoRow("deleted").status = "deleted" /\ ~NoRow("deleted").immutable
    BY DEF NoRow, Row
  <2>6. /\ \A o \in Ids \ {w, l} : rows'[o] = rows[o]
        /\ w # l => rows'[w] = Merged(w, new)
        /\ \/ rows'[l] = NoRow("deleted") /\ Exists(l)
           \/ w # l /\ rows'[l] = rows[l]
    BY <2>1, <2>3 DEF MergeMemories, Live, Exists, Stored
  <2>7. Live(w)
    BY <2>3 DEF MergeMemories
  <2> QED
    BY <2>1, <2>2, <2>4, <2>5, <2>6, <2>7 DEF RowChange, Live, Exists, Stored
<1>11. CASE StoreStep
  BY <1>1, <1>2, <1>11 DEF StoreStep
<1>12. CASE \E e \in Editors : CorrectStep(e)
  BY <1>0, <1>3, <1>12 DEF CorrectStep, CorrectMissing, CorrectChunk, CorrectDelete,
                          CorrectCommit, CorrectFail
<1>13. CASE DeleteStep
  BY <1>4, <1>5, <1>6, <1>7, <1>13 DEF DeleteStep
<1>14. CASE \E s \in Summarizers : SummarizeStep(s)
  BY <1>0, <1>8, <1>14 DEF SummarizeStep, SummarizeRead, SummarizeSkip, SummarizeAbort
<1>15. CASE MergeStep
  BY <1>0, <1>10, <1>15 DEF MergeStep, ReviewStart, ReviewDrop
<1>16. CASE UNCHANGED vars
  BY <1>0, <1>16 DEF vars
<1> QED
  BY <1>9, <1>11, <1>12, <1>13, <1>14, <1>15, <1>16 DEF Next

\* The answer of the review's filter stays true.
LEMMA GuardStep == TypeOK /\ GuardInv /\ [Next]_vars => GuardInv'
<1> SUFFICES ASSUME TypeOK, GuardInv, [Next]_vars PROVE GuardInv'
  OBVIOUS
<1>1. \A id \in Ids : RowChange(id)
  BY RowStep
<1>2. \A id \in Ids : rows'[id].immutable => rows'[id].status = "live"
  BY <1>1 DEF GuardInv, RowChange, Live
<1>3. \A id \in Ids : rows[id].status # "unused" /\ ~rows[id].immutable
                      => rows'[id].status # "unused" /\ ~rows'[id].immutable
  BY <1>1 DEF RowChange, Live, Stored
<1>4. \A p \in review' : p \in review \/ (p \in Ids \X Ids /\ Reviewable(p[1])
                                          /\ Reviewable(p[2]) /\ rows' = rows)
  <2>1. ASSUME NEW P \in SUBSET (Ids \X Ids), ReviewStart(P)
        PROVE  \A p \in review' : p \in Ids \X Ids /\ Reviewable(p[1])
                                     /\ Reviewable(p[2]) /\ rows' = rows
    BY <2>1 DEF ReviewStart
  <2>2. (\E P \in SUBSET (Ids \X Ids) : ReviewStart(P)) \/ review' \subseteq review
    <3>1. CASE StoreStep \/ Resummarize \/ UNCHANGED vars
      BY <3>1 DEF StoreStep, Store, StoreBatch, Resummarize, vars
    <3>2. CASE \E e \in Editors : CorrectStep(e)
      BY <3>2 DEF CorrectStep, CorrectUpdate, CorrectMissing, CorrectChunk,
                  CorrectDelete, CorrectCommit, CorrectFail
    <3>3. CASE DeleteStep
      BY <3>3 DEF DeleteStep, Forget, DeleteMemory, Prune, DeleteProject
    <3>4. CASE \E s \in Summarizers : SummarizeStep(s)
      BY <3>4 DEF SummarizeStep, SummarizeRead, SummarizeStore, SummarizeSkip,
                  SummarizeAbort
    <3>5. CASE MergeStep
      <4>1. \A p : ReviewDrop(p) => review' \subseteq review
        BY DEF ReviewDrop
      <4>2. \A w, l, new : MergeMemories(w, l, new) => review' \subseteq review
        BY DEF MergeMemories
      <4> QED
        BY <3>5, <4>1, <4>2 DEF MergeStep
    <3> QED
      BY <3>1, <3>2, <3>3, <3>4, <3>5 DEF Next
  <2> QED
    BY <2>1, <2>2
<1>5. ASSUME NEW p \in review', NEW id \in {p[1], p[2]}
      PROVE  rows'[id].status # "unused" /\ ~rows'[id].immutable
  <2>1. CASE p \in review
    BY <2>1, <1>3 DEF GuardInv, TypeOK
  <2>2. CASE p \notin review
    BY <2>2, <1>4 DEF Reviewable, Live
  <2> QED
    BY <2>1, <2>2
<1> QED
  BY <1>2, <1>5 DEF GuardInv

\* Nothing is under review and nothing is stored.
LEMMA InitGuard == Init => GuardInv
BY DEF Init, GuardInv, NoRow, Row

\* No operation but DeleteProject edits, invalidates or removes an immutable
\* memory, however long the review that named its neighbours takes.
THEOREM ImmutableSafe == Spec => ImmutableUntouched
<1>1. ASSUME TypeOK, GuardInv, [Next]_vars
      PROVE  \A id \in Ids : Exists(id) /\ rows[id].immutable =>
                \/ DeleteProject
                \/ rows'[id].status = "live" /\ rows'[id].content = rows[id].content
  BY <1>1, RowStep DEF RowChange, GuardInv, Exists, Stored, Live
<1> QED
  BY <1>1, InitGuard, GuardStep, InitHistory, TypeStep, PTL DEF Spec, ImmutableUntouched

\* A forgotten memory is never active again and its content never changes:
\* neither a Correct nor a merge that read it before resurrects it.
THEOREM ForgottenSafe == Spec => ForgottenStaysForgotten
<1>1. ASSUME TypeOK, GuardInv, [Next]_vars
      PROVE  \A id \in Ids : rows[id].status = "invalid" =>
                \/ rows'[id].status = "deleted"
                \/ rows'[id].status = "invalid" /\ rows'[id].content = rows[id].content
  BY <1>1, RowStep DEF RowChange, Live
<1> QED
  BY <1>1, InitGuard, GuardStep, InitHistory, TypeStep, PTL
  DEF Spec, ForgottenStaysForgotten

-----------------------------------------------------------------------------
(* The chunk index.                                                        *)

\* A Correct call carries chunks across three steps.  They can be inserted late
\* because the content they were cut from was committed to the memory before,
\* and stays in its history for as long as the memory exists.
EditorProvenance(e) ==
    Correcting(e) =>
        /\ rows[editor[e].id].status # "unused"
        /\ Exists(editor[e].id) => editor[e].content \in written[editor[e].id]
        /\ editor[e].pc # "chunk" => editor[e].pending \subseteq PiecesOf[editor[e].content]

IndexInv == IndexProvenance /\ \A e \in Editors : EditorProvenance(e)

\* What a step may do to the surroundings of the index: memories are stored
\* once, a stored memory keeps its first body and what was written to it.
BodyChange(id) ==
    /\ rows[id].status # "unused" => rows'[id].status # "unused"
    /\ Exists(id)' => \/ rows[id].status = "unused"
                      \/ /\ Exists(id)
                         /\ rows'[id].body = rows[id].body
                         /\ written[id] \subseteq written'[id]

\* Every step but those of an editor leaves the editors' claims true.
LEMMA EditorKeeps ==
    ASSUME TypeOK, \A id \in Ids : BodyChange(id), NEW e \in Editors,
           EditorProvenance(e), editor'[e] = editor[e]
    PROVE  EditorProvenance(e)'
<1>1. Correcting(e) => editor[e].id \in Ids
  BY DEF TypeOK, EditorTypeOK
<1> QED
  BY <1>1 DEF EditorProvenance, BodyChange, Correcting, Exists

\* A step that adds no chunk keeps the provenance of those of memories that
\* remain.
LEMMA NoNewChunkKeeps ==
    ASSUME TypeOK, IndexProvenance, \A id \in Ids : BodyChange(id),
           \A k \in chunks' : k \in chunks /\ Exists(k.memory)'
    PROVE  IndexProvenance'
<1> SUFFICES ASSUME NEW k \in chunks'
             PROVE  /\ Exists(k.memory)'
                    /\ \/ k.text \in PiecesOf[rows'[k.memory].body]
                       \/ \E c \in written'[k.memory] : k.text \in PiecesOf[c]
  BY DEF IndexProvenance
<1>1. k.memory \in Ids /\ Exists(k.memory) /\ Exists(k.memory)'
  BY DEF TypeOK, IndexProvenance
<1>2. /\ rows'[k.memory].body = rows[k.memory].body
      /\ written[k.memory] \subseteq written'[k.memory]
  BY <1>1 DEF BodyChange, Exists, Stored
<1> QED
  BY <1>1, <1>2 DEF IndexProvenance

\* Every step changes bodies and written contents only in the ways allowed.
LEMMA BodyStep ==
    ASSUME TypeOK, [Next]_vars
    PROVE  \A id \in Ids : BodyChange(id)
<1>0. ASSUME UNCHANGED <<rows, written>> PROVE \A id \in Ids : BodyChange(id)
  BY <1>0 DEF BodyChange, Exists, Stored
<1>1. ASSUME NEW id \in Ids, NEW c \in Contents, NEW body \in Contents,
             NEW imm \in BOOLEAN, Store(id, c, body, imm)
      PROVE  \A o \in Ids : BodyChange(o)
  BY <1>1 DEF Store, BodyChange, Exists, Stored, TypeOK, Inserted, Row
<1>2. ASSUME NEW S \in SUBSET Ids, NEW f \in [S -> Contents],
             NEW pinned \in SUBSET S, StoreBatch(f, pinned)
      PROVE  \A o \in Ids : BodyChange(o)
  BY <1>2 DEF StoreBatch, BodyChange, Exists, Stored, TypeOK, Inserted, Row
<1>3. ASSUME NEW e \in Editors, NEW id \in Ids, NEW c \in Contents \cup {Null},
             CorrectUpdate(e, id, c)
      PROVE  \A o \in Ids : BodyChange(o)
  <2>1. CASE c = Null
    BY <1>3, <2>1, <1>0 DEF CorrectUpdate, UpdateRow
  <2>2. CASE c # Null
    <3> DEFINE r == [rows[id] EXCEPT !.content = c, !.hash = c, !.summary = Null]
    <3>1. r.status = rows[id].status /\ r.body = rows[id].body
      BY DEF TypeOK, Rows
    <3>2. rows' = [rows EXCEPT ![id] = r] /\ written' = [written EXCEPT ![id] = @ \cup {c}]
      BY <1>3, <2>2 DEF CorrectUpdate, UpdateRow
    <3> HIDE DEF r
    <3> QED
      BY <3>1, <3>2 DEF BodyChange, TypeOK, Exists
  <2> QED
    BY <2>1, <2>2
<1>4. ASSUME NEW id \in Ids, Forget(id) PROVE \A o \in Ids : BodyChange(o)
  BY <1>4 DEF Forget, BodyChange, TypeOK, Rows, Live, Exists, Stored
<1>5. ASSUME NEW S \in SUBSET Ids, RemoveRows(S),
             \A id \in Ids : written'[id] = written[id] \/ S = {o \in Ids : Exists(o)}
      PROVE  \A o \in Ids : BodyChange(o)
  BY <1>5 DEF RemoveRows, BodyChange, Exists, Stored, NoRow, Row
<1>6. CASE DeleteProject
  BY <1>6, <1>5 DEF DeleteProject
<1>7. ASSUME NEW s \in Summarizers, NEW id \in Ids, SummarizeStore(s, id)
      PROVE  \A o \in Ids : BodyChange(o)
  BY <1>7 DEF SummarizeStore, BodyChange, TypeOK, Rows, Exists
<1>8. CASE Resummarize
  BY <1>8 DEF Resummarize, BodyChange, TypeOK, Rows, Exists
<1>9. ASSUME NEW w \in Ids, NEW l \in Ids, NEW new \in Contents \cup {Null},
             MergeMemories(w, l, new)
      PROVE  \A o \in Ids : BodyChange(o)
  <2>1. /\ Merged(w, new).status = rows[w].status
        /\ Merged(w, new).body = rows[w].body
    BY DEF Merged, TypeOK, Rows
  <2>2. NoRow("deleted").status = "deleted"
    BY DEF NoRow, Row
  <2>3. \A o \in Ids : written[o] \subseteq written'[o]
    BY <1>9 DEF MergeMemories, TypeOK
  <2> QED
    BY <1>9, <2>1, <2>2, <2>3 DEF MergeMemories, BodyChange, Exists, Stored
<1>10. CASE StoreStep
  BY <1>1, <1>2, <1>10 DEF StoreStep
<1>11. CASE \E e \in Editors : CorrectStep(e)
  BY <1>0, <1>3, <1>11 DEF CorrectStep, CorrectMissing, CorrectChunk, CorrectDelete,
                          CorrectCommit, CorrectFail
<1>12. CASE DeleteStep
  BY <1>4, <1>5, <1>6, <1>12 DEF DeleteStep, DeleteMemory, Prune
<1>13. CASE \E s \in Summarizers : SummarizeStep(s)
  BY <1>0, <1>7, <1>13 DEF SummarizeStep, SummarizeRead, SummarizeSkip, SummarizeAbort
<1>14. CASE MergeStep
  <2>1. \A p \in review : p[1] \in Ids /\ p[2] \in Ids
    BY DEF TypeOK
  <2> QED
    BY <1>0, <1>9, <1>14, <2>1 DEF MergeStep, ReviewStart, ReviewDrop
<1>15. CASE UNCHANGED vars
  BY <1>0, <1>15 DEF vars
<1> QED
  BY <1>8, <1>10, <1>11, <1>12, <1>13, <1>14, <1>15 DEF Next

\* Every step keeps the index free of foreign chunks, the late chunk swaps of
\* Correct included.
LEMMA IndexStep == TypeOK /\ IndexInv /\ [Next]_vars => IndexInv'
<1> SUFFICES ASSUME TypeOK, IndexInv, [Next]_vars PROVE IndexInv'
  OBVIOUS
<1> USE DataAssumption
<1>a. \A id \in Ids : BodyChange(id)
  BY BodyStep
<1>b. UNCHANGED editor => \A e \in Editors : EditorProvenance(e)'
  BY <1>a, EditorKeeps DEF IndexInv
<1>c. ASSUME NEW e \in Editors, EditorProvenance(e)', IndexProvenance',
             \A o \in Editors \ {e} : editor'[o] = editor[o]
      PROVE  IndexInv'
  BY <1>a, <1>c, EditorKeeps DEF IndexInv
<1>d. (\A k \in chunks' : k \in chunks /\ Exists(k.memory)') => IndexProvenance'
  BY <1>a, NoNewChunkKeeps DEF IndexInv
<1>e. UNCHANGED <<rows, chunks>> => IndexProvenance'
  BY <1>d DEF IndexInv, IndexProvenance, Exists
<1>f. \A k \in chunks : k.memory \in Ids /\ Exists(k.memory)
  BY DEF TypeOK, IndexInv, IndexProvenance
<1>1. ASSUME NEW id \in Ids, NEW c \in Contents, NEW body \in Contents,
             NEW imm \in BOOLEAN, Store(id, c, body, imm)
      PROVE  IndexInv'
  <2>1. rows'[id].body = body /\ Exists(id)'
    BY <1>1 DEF Store, TypeOK, Inserted, Row, Exists, Stored
  <2>2. ~Exists(id) /\ \A o \in Ids \ {id} : rows'[o] = rows[o] /\ written'[o] = written[o]
    BY <1>1 DEF Store, TypeOK, Exists, Stored
  <2>3. ASSUME NEW k \in chunks'
        PROVE  /\ Exists(k.memory)'
               /\ \/ k.text \in PiecesOf[rows'[k.memory].body]
                  \/ \E x \in written'[k.memory] : k.text \in PiecesOf[x]
    <3>1. CASE k \in chunks
      BY <1>f, <2>2, <3>1 DEF IndexInv, IndexProvenance, Exists
    <3>2. CASE k \in FreshChunks(id, PiecesOf[body])
      BY <2>1, <3>2, FreshChunksShape
    <3> QED
      BY <1>1, <3>1, <3>2 DEF Store
  <2> QED
    BY <1>1, <1>b, <2>3 DEF Store, IndexInv, IndexProvenance
<1>2. ASSUME NEW S \in SUBSET Ids, NEW f \in [S -> Contents],
             NEW pinned \in SUBSET S, StoreBatch(f, pinned)
      PROVE  IndexInv'
  <2>1. \A id \in S : rows'[id].body = f[id] /\ Exists(id)' /\ ~Exists(id)
    BY <1>2 DEF StoreBatch, TypeOK, Inserted, Row, Exists, Stored
  <2>2. \A o \in Ids \ S : rows'[o] = rows[o] /\ written'[o] = written[o]
    BY <1>2 DEF StoreBatch
  <2>3. ASSUME NEW k \in chunks'
        PROVE  /\ Exists(k.memory)'
               /\ \/ k.text \in PiecesOf[rows'[k.memory].body]
                  \/ \E x \in written'[k.memory] : k.text \in PiecesOf[x]
    <3>1. CASE k \in chunks
      BY <1>f, <2>1, <2>2, <3>1 DEF IndexInv, IndexProvenance, Exists
    <3>2. ASSUME NEW id \in S, k \in FreshChunks(id, PiecesOf[f[id]])
          PROVE  k.memory = id /\ k.text \in PiecesOf[f[id]]
      BY <3>2, FreshChunksShape
    <3>3. CASE k \notin chunks
      <4>1. PICK id \in S : k \in FreshChunks(id, PiecesOf[f[id]])
        BY <1>2, <3>3 DEF StoreBatch
      <4> QED
        BY <2>1, <3>2, <4>1
    <3> QED
      BY <3>1, <3>3
  <2> QED
    BY <1>2, <1>b, <2>3 DEF StoreBatch, IndexInv, IndexProvenance
<1>3. ASSUME NEW e \in Editors, NEW id \in Ids, NEW c \in Contents \cup {Null},
             CorrectUpdate(e, id, c)
      PROVE  IndexInv'
  <2>1. \A o \in Ids : rows'[o].status = rows[o].status
    <3> DEFINE r == [rows[id] EXCEPT !.content = c, !.hash = c, !.summary = Null]
    <3>1. r.status = rows[id].status
      BY DEF TypeOK, Rows
    <3>2. rows' = rows \/ rows' = [rows EXCEPT ![id] = r]
      BY <1>3 DEF CorrectUpdate, UpdateRow
    <3> HIDE DEF r
    <3> QED
      BY <3>1, <3>2 DEF TypeOK
  <2>2. IndexProvenance'
    BY <1>3, <1>d, <1>f, <2>1 DEF CorrectUpdate, Exists
  <2> DEFINE r == [IdleEditor EXCEPT !.pc = IF c = Null THEN "idle" ELSE "chunk",
                      !.id = IF c = Null THEN @ ELSE id, !.content = c]
  <2>3. editor'[e] = r /\ \A o \in Editors \ {e} : editor'[o] = editor[o]
    BY <1>3 DEF CorrectUpdate, TypeOK, EditorTypeOK
  <2>4. \/ r.pc = "idle"
        \/ r.pc = "chunk" /\ c # Null /\ r.id = id /\ r.content = c
    BY DEF IdleEditor
  <2> HIDE DEF r
  <2>5. c # Null => c \in written'[id]
    BY <1>3 DEF CorrectUpdate, UpdateRow, TypeOK
  <2>6. rows[id].status # "unused"
    BY <1>3 DEF CorrectUpdate, Live
  <2>7. EditorProvenance(e)'
    BY <2>1, <2>3, <2>4, <2>5, <2>6 DEF EditorProvenance, Correcting
  <2> QED
    BY <1>c, <2>2, <2>3, <2>7
<1>4. ASSUME NEW e \in Editors, NEW id \in Ids, CorrectMissing(e, id) PROVE IndexInv'
  <2>1. editor'[e].pc = "panic" /\ \A o \in Editors \ {e} : editor'[o] = editor[o]
    BY <1>4 DEF CorrectMissing, TypeOK, EditorTypeOK, EditorStates
  <2> QED
    BY <1>4, <1>c, <1>e, <2>1 DEF CorrectMissing, EditorProvenance, Correcting
<1>5. ASSUME NEW e \in Editors, CorrectChunk(e) PROVE IndexInv'
  <2>1. /\ editor'[e].pc = "delete"
        /\ editor'[e].id = editor[e].id /\ editor'[e].content = editor[e].content
        /\ editor'[e].pending \subseteq PiecesOf[editor[e].content]
        /\ \A o \in Editors \ {e} : editor'[o] = editor[o]
    BY <1>5 DEF CorrectChunk, TypeOK, EditorTypeOK, EditorStates
  <2>2. EditorProvenance(e)'
    BY <1>5, <2>1 DEF CorrectChunk, EditorProvenance, Correcting, IndexInv, Exists
  <2> QED
    BY <1>5, <1>c, <1>e, <2>1, <2>2 DEF CorrectChunk
<1>6. ASSUME NEW e \in Editors, CorrectDelete(e) PROVE IndexInv'
  <2>1. /\ editor'[e].pc = "commit"
        /\ editor'[e].id = editor[e].id /\ editor'[e].content = editor[e].content
        /\ editor'[e].pending = editor[e].pending
        /\ \A o \in Editors \ {e} : editor'[o] = editor[o]
    BY <1>6 DEF CorrectDelete, TypeOK, EditorTypeOK, EditorStates
  <2>2. EditorProvenance(e)'
    BY <1>6, <2>1 DEF CorrectDelete, EditorProvenance, Correcting, IndexInv, Exists
  <2> QED
    BY <1>6, <1>c, <1>e, <2>1, <2>2 DEF CorrectDelete
<1>7. ASSUME NEW e \in Editors, CorrectCommit(e) PROVE IndexInv'
  <2>1. editor'[e] = IdleEditor /\ \A o \in Editors \ {e} : editor'[o] = editor[o]
    BY <1>7 DEF CorrectCommit, TypeOK, EditorTypeOK
  <2>2. EditorProvenance(e)'
    BY <2>1 DEF EditorProvenance, Correcting, IdleEditor
  <2>3. EditorProvenance(e) /\ editor[e].pc = "commit"
    BY <1>7 DEF IndexInv, CorrectCommit
  <2>4. ASSUME NEW k \in chunks'
        PROVE  /\ Exists(k.memory)'
               /\ \/ k.text \in PiecesOf[rows'[k.memory].body]
                  \/ \E x \in written'[k.memory] : k.text \in PiecesOf[x]
    <3>0. UNCHANGED <<rows, written>>
      BY <1>7 DEF CorrectCommit
    <3>1. CASE k \in chunks
      BY <3>0, <3>1 DEF IndexInv, IndexProvenance, Exists
    <3>2. CASE Exists(editor[e].id) /\ k \in FreshChunks(editor[e].id, editor[e].pending)
      <4>1. k.memory = editor[e].id /\ k.text \in editor[e].pending
        BY <3>2, FreshChunksShape
      <4>2. /\ editor[e].content \in written[editor[e].id]
            /\ editor[e].pending \subseteq PiecesOf[editor[e].content]
        BY <2>3, <3>2 DEF EditorProvenance, Correcting
      <4> QED
        BY <3>0, <3>2, <4>1, <4>2 DEF Exists
    <3> QED
      BY <1>7, <3>1, <3>2 DEF CorrectCommit
  <2>5. IndexProvenance'
    BY <2>4 DEF IndexProvenance
  <2> QED
    BY <1>c, <2>1, <2>2, <2>5
<1>8. ASSUME NEW e \in Editors, CorrectFail(e) PROVE IndexInv'
  <2>1. editor'[e] = IdleEditor /\ \A o \in Editors \ {e} : editor'[o] = editor[o]
    BY <1>8 DEF CorrectFail, TypeOK, EditorTypeOK
  <2>2. EditorProvenance(e)'
    BY <2>1 DEF EditorProvenance, Correcting, IdleEditor
  <2> QED
    BY <1>8, <1>c, <1>e, <2>1, <2>2 DEF CorrectFail
<1>9. ASSUME NEW S \in SUBSET Ids, RemoveRows(S), UNCHANGED editor PROVE IndexInv'
  BY <1>9, <1>b, <1>d, <1>f DEF RemoveRows, IndexInv, Exists
<1>10. ASSUME NEW w \in Ids, NEW l \in Ids, NEW new \in Contents \cup {Null},
              MergeMemories(w, l, new)
       PROVE  IndexInv'
  <2>1. Merged(w, new).status = rows[w].status
    BY DEF Merged, TypeOK, Rows
  <2>2. \A o \in Ids \ {l} : rows'[o].status = rows[o].status
    BY <1>10, <2>1 DEF MergeMemories
  <2> QED
    BY <1>10, <1>b, <1>d, <1>f, <2>2 DEF MergeMemories, IndexInv, Exists
<1>11. ASSUME UNCHANGED <<chunks, editor>>,
              \A o \in Ids : Exists(o) => Exists(o)'
       PROVE  IndexInv'
  BY <1>11, <1>b, <1>d, <1>f DEF IndexInv
<1>12. CASE StoreStep
  BY <1>1, <1>2, <1>12 DEF StoreStep
<1>13. CASE \E e \in Editors : CorrectStep(e)
  BY <1>3, <1>4, <1>5, <1>6, <1>7, <1>8, <1>13 DEF CorrectStep
<1>14. CASE DeleteStep
  <2>1. ASSUME NEW id \in Ids, Forget(id) PROVE IndexInv'
    BY <2>1, <1>11 DEF Forget, Exists, Stored, TypeOK, Rows
  <2> QED
    BY <2>1, <1>9, <1>14 DEF DeleteStep, DeleteMemory, Prune, DeleteProject
<1>15. CASE \E s \in Summarizers : SummarizeStep(s)
  <2>1. ASSUME NEW s \in Summarizers, NEW id \in Ids, SummarizeStore(s, id)
        PROVE  IndexInv'
    BY <2>1, <1>11 DEF SummarizeStore, Exists, TypeOK, Rows
  <2> QED
    BY <2>1, <1>11, <1>15 DEF SummarizeStep, SummarizeRead, SummarizeSkip,
                              SummarizeAbort, Exists
<1>16. CASE Resummarize
  BY <1>16, <1>11 DEF Resummarize, Exists, TypeOK, Rows
<1>17. CASE MergeStep
  <2>1. \A p \in review : p[1] \in Ids /\ p[2] \in Ids
    BY DEF TypeOK
  <2> QED
    BY <1>10, <1>11, <1>17, <2>1 DEF MergeStep, ReviewStart, ReviewDrop, Exists
<1>18. CASE UNCHANGED vars
  BY <1>11, <1>18 DEF vars, Exists
<1> QED
  BY <1>12, <1>13, <1>14, <1>15, <1>16, <1>17, <1>18 DEF Next

\* Every chunk belongs to a memory that is stored and was cut from a text given
\* for that memory, whatever Correct calls, merges and deletions run together.
THEOREM IndexSafe == Spec => []IndexProvenance
<1>1. Init => IndexInv
  BY DEF Init, IndexInv, IndexProvenance, EditorProvenance, Correcting, IdleEditor
<1>2. IndexInv => IndexProvenance
  BY DEF IndexInv
<1> QED
  BY <1>1, <1>2, IndexStep, InitHistory, TypeStep, PTL DEF Spec
=============================================================================
