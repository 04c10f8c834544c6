------------------------------- MODULE Uploads -------------------------------
(***************************************************************************)
(* The chunked uploads of memory_ingest_document_stream and the bounded    *)
(* queue their bodies go to (internal/mcp/ingest_document.go; the sweeper  *)
(* in internal/mcp/server.go).                                             *)
(*                                                                         *)
(* An upload id names a session object in the registry; a call keeps the   *)
(* pointer it looked up while others may drop the id or start it again.    *)
(* A call is therefore several steps: the lookup under uploadMu, the       *)
(* section under the session's own mu, the drop, the Enqueue.  A byte is   *)
(* <<part, offset>>, so a body shows which parts made it.  All calls are   *)
(* for one project (another one is refused after the lookup).              *)
(***************************************************************************)
EXTENDS Naturals, Sequences, SequencesExt, FiniteSets

CONSTANTS
    UploadIds,
    Uploaders,          \* concurrent tool calls
    MaxObjects,         \* bound: sessions ever started
    MaxSessions,        \* maxUploadSessions
    MaxPart,            \* bound: largest part index sent
    UploadMax,          \* rawMax, in bytes
    UploadQueueDepth    \* cap of the ingest queue

ASSUME UploadsAssumption ==
    MaxObjects \in Nat /\ MaxSessions \in Nat \ {0} /\ UploadMax \in Nat
    /\ UploadQueueDepth \in Nat \ {0}

VARIABLES
    registry,   \* Server.uploads: the session object of an id, or 0
    obj,        \* the session objects ever made
    started,    \* how many there are
    ucall,      \* the calls in progress
    accepted,   \* history: the bytes acknowledged as "buffered", per object
    lost,       \* history: objects whose finish was answered queue_full
    docq        \* bodies waiting in the ingest queue

upVars == <<registry, obj, started, ucall, accepted, lost, docq>>

Objects == 1 .. MaxObjects
NoBody == <<>>              \* sess.buf = nil
Bytes(part, size) == [i \in 1 .. size |-> <<part, i>>]

UploadsInit ==
    /\ registry = [id \in UploadIds |-> 0]
    /\ obj = [o \in Objects |-> [buf |-> NoBody, next |-> 0, idle |-> FALSE,
                                 aborted |-> FALSE]]
    /\ started = 0
    /\ ucall = [u \in Uploaders |-> [at |-> "idle"]]
    /\ accepted = [o \in Objects |-> <<>>]
    /\ lost = {}
    /\ docq = <<>>

-----------------------------------------------------------------------------
EvictExpired(reg) ==
    [id \in UploadIds |->
        IF reg[id] # 0 /\ obj[reg[id]].idle THEN 0 ELSE reg[id]]

Open(reg) == {id \in UploadIds : reg[id] # 0}

Free(u) == ucall[u].at = "idle"

(* An id in use and a full registry are refused; both evict first. *)
StartUpload(u, id) ==
    /\ Free(u) /\ started < MaxObjects
    /\ LET live == EvictExpired(registry) IN
       IF live[id] # 0 \/ Cardinality(Open(live)) >= MaxSessions
       THEN registry' = live /\ UNCHANGED started
       ELSE /\ started' = started + 1
            /\ registry' = [live EXCEPT ![id] = started + 1]
    /\ UNCHANGED <<obj, ucall, accepted, lost, docq>>

(* found[o] is the call once it has looked up the object o. *)
LookupUpload(u, id, found) ==
    LET live == EvictExpired(registry) IN
    /\ registry' = live
    /\ ucall' = IF live[id] = 0 THEN ucall ELSE [ucall EXCEPT ![u] = found[live[id]]]

BeginAppend(u, id, part, size) ==
    LET found == [o \in Objects |->
                    [at |-> "append", id |-> id, obj |-> o, part |-> part, size |-> size]] IN
    /\ Free(u)
    /\ LookupUpload(u, id, found)
    /\ UNCHANGED <<obj, started, accepted, lost, docq>>

(* Mutant: any part is appended, a repeated one too. *)
AcceptAnyPart(u) ==
    LET c == ucall[u]
        bytes == Bytes(c.part, c.size)
    IN
    /\ c.at = "append"
    /\ Len(obj[c.obj].buf) + c.size =< UploadMax
    /\ obj' = [obj EXCEPT ![c.obj].buf = @ \o bytes, ![c.obj].next = @ + 1,
                          ![c.obj].idle = FALSE]
    /\ accepted' = [accepted EXCEPT ![c.obj] = @ \o bytes]
    /\ ucall' = [ucall EXCEPT ![u] = [at |-> "idle"]]
    /\ UNCHANGED <<registry, started, lost, docq>>

AcceptPart(u) ==
    LET c == ucall[u]
        bytes == Bytes(c.part, c.size)
    IN
    /\ c.at = "append"
    /\ c.part = obj[c.obj].next
    /\ Len(obj[c.obj].buf) + c.size =< UploadMax
    /\ obj' = [obj EXCEPT ![c.obj].buf = @ \o bytes, ![c.obj].next = @ + 1,
                          ![c.obj].idle = FALSE]
    /\ accepted' = [accepted EXCEPT ![c.obj] = @ \o bytes]
    /\ ucall' = [ucall EXCEPT ![u] = [at |-> "idle"]]
    /\ UNCHANGED <<registry, started, lost, docq>>

RefusePart(u) ==
    /\ ucall[u].at = "append"
    /\ ucall[u].part # obj[ucall[u].obj].next
    /\ ucall' = [ucall EXCEPT ![u] = [at |-> "idle"]]
    /\ UNCHANGED <<registry, obj, started, accepted, lost, docq>>

(* The buffer is cleared under mu, the id dropped after the unlock; the    *)
(* part counter stays, so the object still accepts the same part again.    *)
OverflowPart(u) ==
    LET c == ucall[u] IN
    /\ c.at = "append"
    /\ c.part = obj[c.obj].next
    /\ Len(obj[c.obj].buf) + c.size > UploadMax
    /\ obj' = [obj EXCEPT ![c.obj].buf = NoBody, ![c.obj].aborted = TRUE]
    /\ ucall' = [ucall EXCEPT ![u] = [at |-> "drop", id |-> c.id, body |-> NoBody]]
    /\ UNCHANGED <<registry, started, accepted, lost, docq>>

BeginFinish(u, id) ==
    LET found == [o \in Objects |->
                    [at |-> "finish", id |-> id, obj |-> o, sent |-> accepted[o]]] IN
    /\ Free(u)
    /\ LookupUpload(u, id, found)
    /\ UNCHANGED <<obj, started, accepted, lost, docq>>

(* A nil buffer, of an aborted upload or of one without parts, is refused. *)
TakeBody(u) ==
    LET c == ucall[u] IN
    /\ c.at = "finish"
    /\ ucall' = [ucall EXCEPT ![u] =
           IF obj[c.obj].buf = NoBody THEN [at |-> "idle"]
           ELSE [at |-> "drop", id |-> c.id, body |-> obj[c.obj].buf,
                 obj |-> c.obj, sent |-> c.sent]]
    /\ UNCHANGED <<registry, obj, started, accepted, lost, docq>>

DropUpload(u) ==
    /\ ucall[u].at = "drop"
    /\ registry' = [registry EXCEPT ![ucall[u].id] = 0]
    /\ ucall' = [ucall EXCEPT ![u] =
           IF @.body = NoBody THEN [at |-> "idle"] ELSE [@ EXCEPT !.at = "enqueue"]]
    /\ UNCHANGED <<obj, started, accepted, lost, docq>>

EnqueueBody(u) ==
    /\ ucall[u].at = "enqueue"
    /\ IF Len(docq) < UploadQueueDepth
       THEN /\ docq' = Append(docq, ucall[u].body)
            /\ UNCHANGED lost
       ELSE /\ lost' = lost \cup {ucall[u].obj}
            /\ UNCHANGED docq
    /\ ucall' = [ucall EXCEPT ![u] = [at |-> "idle"]]
    /\ UNCHANGED <<registry, obj, started, accepted>>

(* uploadSessionTTL passes without an append. *)
UploadIdles(o) ==
    /\ \E id \in UploadIds : registry[id] = o
    /\ ~obj[o].idle
    /\ obj' = [obj EXCEPT ![o].idle = TRUE]
    /\ UNCHANGED <<registry, started, ucall, accepted, lost, docq>>

SweepUploads ==
    /\ registry # EvictExpired(registry)
    /\ registry' = EvictExpired(registry)
    /\ UNCHANGED <<obj, started, ucall, accepted, lost, docq>>

(* An ingest worker takes a body: module Documents goes on from here. *)
TakeUpload ==
    /\ docq # <<>>
    /\ docq' = Tail(docq)
    /\ UNCHANGED <<registry, obj, started, ucall, accepted, lost>>

UploadsNext ==
    \/ \E u \in Uploaders, id \in UploadIds :
         \/ StartUpload(u, id)
         \/ BeginFinish(u, id)
         \/ \E part \in 0 .. MaxPart, size \in 1 .. 2 : BeginAppend(u, id, part, size)
    \/ \E u \in Uploaders :
         \/ AcceptPart(u) \/ RefusePart(u) \/ OverflowPart(u)
         \/ TakeBody(u) \/ DropUpload(u) \/ EnqueueBody(u)
    \/ \E o \in Objects : UploadIdles(o)
    \/ SweepUploads
    \/ TakeUpload

UploadsSpec == UploadsInit /\ [][UploadsNext]_upVars

-----------------------------------------------------------------------------

(* The bytes of a body are those of parts 0, 1, ..., each part once. *)
Whole(body) ==
    /\ IsInjective(body)
    /\ body[1] = <<0, 1>>
    /\ \A i \in 1 .. Len(body) - 1 :
         body[i + 1] \in {<<body[i][1], body[i][2] + 1>>, <<body[i][1] + 1, 1>>}

Taken == {u \in Uploaders : ucall[u].at \in {"drop", "enqueue"} /\ ucall[u].body # NoBody}

(* What a finish call ingests is the parts its own session acknowledged,   *)
(* from part 0 on, in order and none twice: all that were acknowledged     *)
(* before the finish looked the session up, whatever appends, retries,     *)
(* evictions and restarts of the same upload id happen meanwhile.  Uploads *)
(* an append aborted for size are excepted.                                *)
UploadWhole ==
    \A u \in Taken :
        LET c == ucall[u] IN
        ~obj[c.obj].aborted =>
            /\ Whole(c.body)
            /\ IsPrefix(c.sent, c.body)
            /\ IsPrefix(c.body, accepted[c.obj])

(* "zero buf under the lock before unlocking so a concurrent finish cannot *)
(* race into runStreamIngest with a truncated body".                       *)
TruncatedNever == \A u \in Taken : Whole(ucall[u].body)

(* A finish answered queue_full with retry_after can be retried: the       *)
(* upload is still registered under an id.                                 *)
QueueFullRetry == \A o \in lost : \E id \in UploadIds : registry[id] = o
=============================================================================
