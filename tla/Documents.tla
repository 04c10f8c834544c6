------------------------------ MODULE Documents ------------------------------
(***************************************************************************)
(* Where an ingested body is kept and what a question about it is answered *)
(* from: the ingestion jobs (runStreamIngest, runExportFanout and          *)
(* execStoreDocument in internal/mcp/ingest_document.go, ingest_export.go, *)
(* internal/ingest/router), the documents table                            *)
(* (internal/db/postgres_document.go), the operations that delete document *)
(* memories, and memory_query_document (query_document.go).                *)
(*                                                                         *)
(* A body is a sequence of bytes; a tier is decided by its length alone.   *)
(***************************************************************************)
EXTENDS Naturals, Sequences, FiniteSets, FiniteSetsExt

CONSTANTS
    DocWorkers,         \* ingest workers
    DocBodies,          \* the bodies that may be ingested
    Texts,              \* contents of markdown files
    MaxContent,         \* types.MaxContentLength, in bytes
    MaxDoc,             \* MaxDocumentBytes
    RawMax,             \* RawDocumentMaxBytes
    MaxDocJobs,         \* bound: jobs taken
    MaxDocFaults        \* bound: failing database calls

Contents == UNION {{texts[i] : i \in DOMAIN texts} : texts \in Texts}

ASSUME DocumentsAssumption ==
    /\ MaxContent \in Nat \ {0} /\ MaxDoc \in Nat /\ RawMax \in Nat
    /\ MaxContent < MaxDoc /\ MaxDoc < RawMax
    /\ IsFiniteSet(DocWorkers)
    /\ \A texts \in Texts : texts \in Seq(Contents) /\ texts # <<>>

VARIABLES
    docjob,     \* the job each ingest worker runs
    docs,       \* table documents: the bodies parked there, by id
    rows,       \* memories made from documents
    notes,      \* memories made from markdown files
    leaked,     \* history: documents left without a memory
    dlog        \* jobs taken and database calls failed so far

docVars == <<docjob, docs, rows, notes, leaked, dlog>>

NoJob == [at |-> "idle"]
NoDoc == 0
NoDocs == [d \in {} |-> <<>>]

DocumentsInit ==
    /\ docjob = [w \in DocWorkers |-> NoJob]
    /\ docs = NoDocs
    /\ rows = {}
    /\ notes = {}
    /\ leaked = {}
    /\ dlog = [jobs |-> 0, faults |-> 0]

-----------------------------------------------------------------------------
(* Storing                                                                 *)

(* classifyDocumentSize. *)
TierOf(body) ==
    CASE Len(body) =< MaxContent -> "small"
      [] Len(body) > MaxContent /\ Len(body) =< MaxDoc -> "synopsis"
      [] Len(body) > MaxDoc /\ Len(body) =< RawMax -> "raw"
      [] OTHER -> "reject"

(* The head of the body; the outline of its headings is left out. *)
BuildSynopsis(body) == SubSeq(body, 1, MaxContent)

(* ParseAutoWithLimit: a plain document, an export, or an export that does *)
(* not parse.  Which one it is depends on bytes the model does not have.   *)
Formats == {"plain", "export", "malformed"}

(* The parsers make one memory per conversation: here, per byte. *)
ConversationsOf(body) == {<<body[i]>> : i \in DOMAIN body}

Fails == dlog.faults < MaxDocFaults /\ dlog' = [dlog EXCEPT !.faults = @ + 1]
Works == UNCHANGED dlog

MemoryOf(content, chunks, doc, body) ==
    [content |-> content, chunks |-> chunks, doc |-> doc, body |-> body]

Inline(body) == MemoryOf(IF TierOf(body) = "small" THEN body ELSE BuildSynopsis(body),
                         body, NoDoc, body)
Parked(body, d) == MemoryOf(BuildSynopsis(body), BuildSynopsis(body), d, body)

Moves(w, job) == docjob' = [docjob EXCEPT ![w] = job]

(* A job of memory_ingest_document_stream, memory_store_document or        *)
(* memory_ingest_export (which detects the format before it queues).       *)
TakeDocument(w, body, format) ==
    /\ docjob[w].at = "idle" /\ dlog.jobs < MaxDocJobs
    /\ dlog' = [dlog EXCEPT !.jobs = @ + 1]
    /\ Moves(w, CASE format = "plain" -> [at |-> TierOf(body), body |-> body]
                  [] format = "export" -> [at |-> "fanout", body |-> body]
                  [] format = "malformed" -> NoJob)
    /\ UNCHANGED <<notes, docs, rows, leaked>>

RejectDocument(w) ==
    /\ docjob[w].at = "reject"
    /\ Moves(w, NoJob)
    /\ UNCHANGED <<notes, docs, rows, leaked, dlog>>

(* Eight stores at a time, each may fail on its own; the job is done in    *)
(* any case.                                                               *)
RunExportFanout(w) ==
    /\ docjob[w].at = "fanout"
    /\ \E stored \in SUBSET ConversationsOf(docjob[w].body) :
         /\ IF stored = ConversationsOf(docjob[w].body) THEN Works ELSE Fails
         /\ rows' = rows \cup {Inline(s) : s \in stored}
    /\ Moves(w, NoJob)
    /\ UNCHANGED <<notes, docs, leaked>>

StoreInline(w) ==
    /\ docjob[w].at \in {"small", "synopsis"}
    /\ \/ Works /\ rows' = rows \cup {Inline(docjob[w].body)}
       \/ Fails /\ UNCHANGED rows
    /\ Moves(w, NoJob)
    /\ UNCHANGED <<notes, docs, leaked>>

NewDoc ==
    LET used == DOMAIN docs \cup {docjob[w].doc : w \in {v \in DocWorkers :
                                      docjob[v].at \in {"parked", "rollback"}}}
    IN CHOOSE d \in 1 .. Cardinality(used) + 1 : d \notin used

StoreRawBody(w) ==
    /\ docjob[w].at = "raw"
    /\ \/ /\ Works
          /\ docs' = [d \in DOMAIN docs \cup {NewDoc} |->
                         IF d = NewDoc THEN docjob[w].body ELSE docs[d]]
          /\ Moves(w, [at |-> "parked", body |-> docjob[w].body, doc |-> NewDoc])
       \/ Fails /\ Moves(w, NoJob) /\ UNCHANGED docs
    /\ UNCHANGED <<notes, rows, leaked>>

WithoutDoc(d) == [e \in DOMAIN docs \ {d} |-> docs[e]]

(* Mutant: a failed store reports its error and leaves the parked body. *)
StoreRawMemoryNoRollback(w) ==
    /\ docjob[w].at = "parked"
    /\ \/ /\ docjob[w].doc \in DOMAIN docs
          /\ rows' = rows \cup {Parked(docjob[w].body, docjob[w].doc)}
          /\ Works
       \/ Fails /\ UNCHANGED rows
    /\ Moves(w, NoJob)
    /\ UNCHANGED <<notes, docs, leaked>>

(* The memory row carries the document id, whose foreign key fails when    *)
(* the document is gone.                                                   *)
StoreRawMemory(w) ==
    /\ docjob[w].at = "parked"
    /\ \/ /\ docjob[w].doc \in DOMAIN docs
          /\ rows' = rows \cup {Parked(docjob[w].body, docjob[w].doc)}
          /\ Works
          /\ Moves(w, NoJob)
       \/ /\ IF docjob[w].doc \in DOMAIN docs THEN Fails ELSE Works
          /\ Moves(w, [docjob[w] EXCEPT !.at = "rollback"])
          /\ UNCHANGED rows
    /\ UNCHANGED <<notes, docs, leaked>>

(* The rollback uses the context the store failed with: a cancelled one    *)
(* fails here too, and the body stays.                                     *)
RollbackRawBody(w) ==
    LET d == docjob[w].doc IN
    /\ docjob[w].at = "rollback"
    /\ \/ docs' = WithoutDoc(d) /\ UNCHANGED leaked
       \/ d \in DOMAIN docs /\ leaked' = leaked \cup {d} /\ UNCHANGED docs
    /\ Moves(w, NoJob)
    /\ UNCHANGED <<notes, rows, dlog>>

DeleteOrphanedDocument(r, left) ==
    docs' = IF r.doc \notin {q.doc : q \in left} THEN WithoutDoc(r.doc) ELSE docs

(* DeleteMemoryAtomic, PruneStaleMemories and PruneColdDocuments. *)
DeleteDocumentMemory(r) ==
    /\ rows' = rows \ {r}
    /\ IF r.doc = NoDoc THEN UNCHANGED docs ELSE DeleteOrphanedDocument(r, rows')
    /\ UNCHANGED <<notes, docjob, leaked, dlog>>

(* MergeMemoriesAtomic deletes the loser's row, not its document. *)
MergeAway(r) ==
    /\ rows' = rows \ {r}
    /\ leaked' = leaked \cup ({r.doc} \ {NoDoc})
    /\ UNCHANGED <<notes, docjob, docs, dlog>>

(* The history of running ingestions forgets notes that are deleted. *)
WithoutNotes(ids) ==
    [w \in DocWorkers |->
        IF docjob[w].at \in {"check", "store"}
        THEN [docjob[w] EXCEPT !.before = @ \ ids] ELSE docjob[w]]

(* DeleteProject removes memories and documents in one transaction. *)
DeleteDocProject ==
    /\ rows \cup notes # {} \/ DOMAIN docs # {}
    /\ rows' = {} /\ notes' = {} /\ docs' = NoDocs /\ leaked' = {}
    /\ docjob' = WithoutNotes({n.id : n \in notes})
    /\ UNCHANGED dlog

-----------------------------------------------------------------------------
(* memory_ingest: the markdown files of a directory, one after the other   *)

(* A job remembers, for the property only, which notes were there when it  *)
(* began.  The files are those isOperationalConfig does not skip.          *)
BeginIngest(w, texts) ==
    /\ docjob[w].at = "idle" /\ dlog.jobs < MaxDocJobs
    /\ dlog' = [dlog EXCEPT !.jobs = @ + 1]
    /\ Moves(w, [at |-> "check", left |-> texts, before |-> {n.id : n \in notes}])
    /\ UNCHANGED <<docs, rows, notes, leaked>>

AfterFile(w) ==
    IF Len(docjob[w].left) = 1 THEN NoJob
    ELSE [docjob[w] EXCEPT !.at = "check", !.left = Tail(@)]

(* ExistsWithContentHash. *)
CheckFile(w) ==
    /\ docjob[w].at = "check"
    /\ \/ Fails /\ Moves(w, NoJob)
       \/ /\ Works
          /\ Moves(w, IF \E n \in notes : n.text = Head(docjob[w].left)
                      THEN AfterFile(w) ELSE [docjob[w] EXCEPT !.at = "store"])
    /\ UNCHANGED <<docs, rows, notes, leaked>>

NewNote == CHOOSE i \in 1 .. Cardinality(notes) + 1 : i \notin {n.id : n \in notes}

StoreFile(w) ==
    /\ docjob[w].at = "store"
    /\ \/ Fails /\ Moves(w, NoJob) /\ UNCHANGED notes
       \/ /\ Works /\ Moves(w, AfterFile(w))
          /\ notes' = notes \cup {[id |-> NewNote, text |-> Head(docjob[w].left),
                                   before |-> docjob[w].before \cap {n.id : n \in notes}]}
    /\ UNCHANGED <<docs, rows, leaked>>

DeleteNote(n) ==
    /\ notes' = {[m EXCEPT !.before = @ \ {n.id}] : m \in notes \ {n}}
    /\ docjob' = WithoutNotes({n.id})
    /\ UNCHANGED <<docs, rows, leaked, dlog>>

DocumentsNext ==
    \/ \E w \in DocWorkers :
         \/ \E body \in DocBodies, format \in Formats : TakeDocument(w, body, format)
         \/ RejectDocument(w) \/ RunExportFanout(w) \/ StoreInline(w)
         \/ StoreRawBody(w) \/ StoreRawMemory(w) \/ RollbackRawBody(w)
    \/ \E r \in rows : DeleteDocumentMemory(r) \/ MergeAway(r)
    \/ DeleteDocProject
    \/ \E w \in DocWorkers :
         \/ \E texts \in Texts : BeginIngest(w, texts)
         \/ CheckFile(w) \/ StoreFile(w)
    \/ \E n \in notes : DeleteNote(n)

DocumentsSpec == DocumentsInit /\ [][DocumentsNext]_docVars

-----------------------------------------------------------------------------
(* Questions                                                               *)

(* resolveDocumentContent with recallChunks: the bytes a question sees. *)
ResolveContent(r, semantic) ==
    IF r.doc # NoDoc /\ r.doc \in DOMAIN docs THEN docs[r.doc]
    ELSE IF r.doc # NoDoc \/ semantic THEN r.chunks
    ELSE r.content

-----------------------------------------------------------------------------

(* A memory's document is there as long as the memory is, and a question   *)
(* about it sees the whole body; a document is the body of some memory, of *)
(* the job in progress, or one a failed rollback or a merge left behind.   *)
DocumentsAccounted ==
    /\ \A r \in rows : r.doc # NoDoc =>
         \A semantic \in BOOLEAN : ResolveContent(r, semantic) = r.body
    /\ \A r \in rows : ResolveContent(r, TRUE) = r.body
    /\ \A d \in DOMAIN docs :
         \/ \E r \in rows : r.doc = d
         \/ \E w \in DocWorkers :
              docjob[w].at \in {"parked", "rollback"} /\ docjob[w].doc = d
         \/ d \in leaked

(* A file whose content was stored before an ingestion began, and has not  *)
(* been deleted since, is not stored again by it; two notes with one       *)
(* content come from jobs that overlapped.                                 *)
IngestOnce ==
    \A m, n \in notes : m.text = n.text => m.id \notin n.before

(* Whatever jobs overlap, fail or are rolled back, a document is the body   *)
(* of one memory and no content is stored over again.                       *)
DocumentsSound == DocumentsAccounted /\ IngestOnce

(* Every question about a document can see all of it: without semantic     *)
(* recall the chunks are searched with the question ("Tier-1 fallback").   *)
QuestionSeesBody ==
    \A r \in rows : ResolveContent(r, FALSE) = r.body
=============================================================================
