------------------------------- MODULE Audit -------------------------------
(***************************************************************************)
(* The audit of ranking drift (internal/audit): canonical queries are run  *)
(* by the scheduled pass of every server, under an advisory lock, and by   *)
(* the tool memory_audit_run, without it.  A run reads the latest          *)
(* snapshot, recalls, compares and inserts; each is a step of its own.     *)
(***************************************************************************)
EXTENDS Integers, Sequences, FiniteSets, SequencesExt

CONSTANTS Auditors,       \* servers with the background worker
          ToolRuns,       \* memory_audit_run calls
          AuditQueries,   \* canonical query ids of one project
          Rankings,       \* what a recall may answer
          MaxSnapshots, MaxPasses

ASSUME AuditAssumption ==
    /\ {MaxSnapshots, MaxPasses} \subseteq Nat /\ "free" \notin Auditors \cup ToolRuns
    /\ \A r \in Rankings : r \in Seq(STRING)

VARIABLES active,      \* audit_canonical_queries.active
          snaps,       \* audit_snapshots, in order of insertion
          auditLock,   \* session holding the advisory lock
          audit,       \* local state of each pass
          clock,       \* orders the run_at stamps
          passes, toolUsed

audVars == <<active, snaps, auditLock, audit, clock, passes, toolUsed>>

AuditActors == Auditors \cup ToolRuns
NoAudit == [pc |-> "idle", todo |-> {}, q |-> "none", prev |-> 0, ids |-> <<>>, at |-> 0]

AuditInit == /\ active \in {AuditQueries} /\ snaps = <<>> /\ auditLock = "free"
             /\ audit = [a \in AuditActors |-> NoAudit]
             /\ clock = 0 /\ passes = 0 /\ toolUsed = FALSE
-----------------------------------------------------------------------------
(* SELECT ... WHERE query_id = $1 ORDER BY run_at DESC LIMIT 1: the position of *)
(* the newest snapshot of q, 0 when there is none.                              *)
LatestSnapshot(q) ==
    LET mine == {i \in 1..Len(snaps) : snaps[i].q = q} IN
    IF mine = {} THEN 0
    ELSE CHOOSE i \in mine : \A j \in mine : snaps[j].at <= snaps[i].at

(* setDiff: what is in r and not in s. *)
SetDiff(r, s) == ToSet(r) \ ToSet(s)

(* RBO with p = 0.9, in sixty-thousandths: the overlap at each depth d up to the *)
(* shorter length, weighted by p^(d-1) / d, times 1 - p.  For rankings of at most *)
(* three ids the weights are exact.                                               *)
RBO(r, s) ==
    LET weight == <<6000, 2700, 1620>>
        overlap(d) == Cardinality(ToSet(SubSeq(r, 1, d)) \cap ToSet(SubSeq(s, 1, d)))
        k == IF Len(r) < Len(s) THEN Len(r) ELSE Len(s)
        sum[d \in 0..k] == IF d = 0 THEN 0 ELSE sum[d - 1] + weight[d] * overlap(d)
    IN  sum[k]

(* JaccardTopK over the k both lists have: <<intersection, union>>. *)
JaccardTopK(r, s, n) ==
    LET k == CHOOSE k \in {n, Len(r), Len(s)} : \A j \in {n, Len(r), Len(s)} : k <= j
        inter == Cardinality(ToSet(SubSeq(r, 1, k)) \cap ToSet(SubSeq(s, 1, k)))
    IN  <<inter, 2 * k - inter>>
-----------------------------------------------------------------------------
(* Mutant of PassStart: the lock is not asked for. *)
PassStartUnlocked(a) ==
    /\ audit[a].pc = "idle" /\ passes < MaxPasses
    /\ passes' = passes + 1
    /\ audit' = [audit EXCEPT ![a] = [NoAudit EXCEPT !.pc = "next", !.todo = active]]
    /\ UNCHANGED <<active, snaps, auditLock, clock, toolUsed>>

(* RunPass: pg_try_advisory_lock, then the active queries. *)
PassStart(a) ==
    /\ audit[a].pc = "idle" /\ passes < MaxPasses /\ auditLock = "free"
    /\ passes' = passes + 1 /\ auditLock' = a
    /\ audit' = [audit EXCEPT ![a] = [NoAudit EXCEPT !.pc = "next", !.todo = active]]
    /\ UNCHANGED <<active, snaps, clock, toolUsed>>

(* RunProjectAudit: the project's queries, active or not, and no lock. *)
ToolStart(a) ==
    /\ audit[a].pc = "idle" /\ ~toolUsed
    /\ toolUsed' = TRUE
    /\ audit' = [audit EXCEPT ![a] = [NoAudit EXCEPT !.pc = "next", !.todo = AuditQueries]]
    /\ UNCHANGED <<active, snaps, auditLock, clock, passes>>

(* runQuerySnapshot: the latest snapshot is read ... *)
ReadPrevious(a) ==
    /\ audit[a].pc = "next"
    /\ \E q \in audit[a].todo :
         audit' = [audit EXCEPT ![a].pc = "recall", ![a].q = q, ![a].todo = @ \ {q},
                                ![a].prev = LatestSnapshot(q)]
    /\ UNCHANGED <<active, snaps, auditLock, clock, passes, toolUsed>>

(* ... the query is recalled and stamped; a failing recall skips the query ... *)
RecallQuery(a) ==
    /\ audit[a].pc = "recall"
    /\ \/ \E r \in Rankings :
            /\ clock' = clock + 1
            /\ audit' = [audit EXCEPT ![a].pc = "insert", ![a].ids = r, ![a].at = clock]
       \/ audit' = [audit EXCEPT ![a].pc = "next"] /\ UNCHANGED clock
    /\ UNCHANGED <<active, snaps, auditLock, passes, toolUsed>>

(* The snapshot and its drift metrics against the one read before; the first *)
(* of a query is a baseline and has none.                                    *)
Measured(a) ==
    LET p == audit[a].prev  r == audit[a].ids
        old == IF p = 0 THEN <<>> ELSE snaps[p].ids IN
    [q |-> audit[a].q, ids |-> r, at |-> audit[a].at, prev |-> p,
     rbo |-> IF p = 0 THEN 0 ELSE RBO(r, old),
     jaccard |-> IF p = 0 THEN <<0, 0>> ELSE JaccardTopK(r, old, Len(r)),
     additions |-> IF p = 0 THEN {} ELSE SetDiff(r, old),
     removals |-> IF p = 0 THEN {} ELSE SetDiff(old, r)]

(* ... and the snapshot is inserted. *)
InsertSnapshot(a) ==
    /\ audit[a].pc = "insert" /\ Len(snaps) < MaxSnapshots
    /\ snaps' = Append(snaps, Measured(a))
    /\ audit' = [audit EXCEPT ![a].pc = "next"]
    /\ UNCHANGED <<active, auditLock, clock, passes, toolUsed>>

PassEnds(a) ==
    /\ audit[a].pc = "next" /\ audit[a].todo = {}
    /\ audit' = [audit EXCEPT ![a] = NoAudit]
    /\ auditLock' = IF auditLock = a THEN "free" ELSE auditLock
    /\ UNCHANGED <<active, snaps, clock, passes, toolUsed>>

(* The server stops inside a pass: the session ends, and the lock with it. *)
AuditorDies(a) ==
    /\ audit[a].pc # "idle"
    /\ audit' = [audit EXCEPT ![a] = NoAudit]
    /\ auditLock' = IF auditLock = a THEN "free" ELSE auditLock
    /\ UNCHANGED <<active, snaps, clock, passes, toolUsed>>

DeactivateQuery(q) ==
    /\ q \in active
    /\ active' = active \ {q}
    /\ UNCHANGED <<snaps, auditLock, audit, clock, passes, toolUsed>>
-----------------------------------------------------------------------------
AuditNext == \/ \E a \in Auditors : PassStart(a)
             \/ \E a \in ToolRuns : ToolStart(a)
             \/ \E a \in AuditActors : \/ ReadPrevious(a) \/ RecallQuery(a)
                                       \/ InsertSnapshot(a) \/ PassEnds(a)
                                       \/ AuditorDies(a)
             \/ \E q \in AuditQueries : DeactivateQuery(q)

AuditSpec == AuditInit /\ [][AuditNext]_audVars
-----------------------------------------------------------------------------
(* While only scheduled passes run, the snapshots of a query form one chain:   *)
(* each is compared with the one before it, none with a snapshot that another   *)
(* server had already followed up (auditor.go:149-170, 358-417).                *)
SnapshotChain ==
    ~toolUsed => \A i, j \in 1..Len(snaps) :
        (snaps[i].q = snaps[j].q /\ i # j) =>
            /\ snaps[i].prev # snaps[j].prev
            /\ i < j => snaps[i].at < snaps[j].at

(* A stored difference replays: the previous result set without the removals   *)
(* and with the additions is the new one, whoever ran in between                *)
(* (auditor.go:395-396).                                                        *)
DiffReplays ==
    \A i \in 1..Len(snaps) : snaps[i].prev # 0 =>
        ToSet(snaps[i].ids) = (ToSet(snaps[snaps[i].prev].ids) \ snaps[i].removals)
                                  \cup snaps[i].additions

(* The snapshots of a query are a chain whose differences can be replayed.     *)
AuditSound == SnapshotChain /\ DiffReplays

(* rbo.go:6, "1.0 = identical ranking": a snapshot that repeats the previous   *)
(* ranking scores the whole.                                                    *)
IdenticalIsOne ==
    \A i \in 1..Len(snaps) :
        (snaps[i].prev # 0 /\ snaps[snaps[i].prev].ids = snaps[i].ids)
            => snaps[i].rbo = 60000
=============================================================================
