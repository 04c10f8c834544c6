----------------------------- MODULE Extraction -----------------------------
(* The extraction workers of internal/atom and internal/entity: memories are
   queued once for extraction, workers of any number of servers claim batches
   of jobs, extract candidates with a language model and persist what the
   deduplication leaves of them.  `kind' says which of the two tables this
   behaviour is about; both workers run the same loop.                      *)
EXTENDS Integers, Sequences, FiniteSets, SequencesExt, LeftFolds

CONSTANTS
    XMems,          \* memories that are stored and queued
    OwnMems,        \* those of the project the workers' backend is opened for
    XWorkers,       \* one worker loop per server process
    Says,           \* Says[m]: the atoms a faithful extraction of m yields
    SeedAtoms,      \* active atoms of earlier sessions
    Names,          \* Names[m]: the entities it yields, name -> aliases
    ClaimLimit,     \* WorkerConfig.BatchSize
    MaxXFaults,     \* database and model errors (model bound)
    MaxXCrashes,    \* crashes of server processes (model bound)
    MaxForgets      \* memories forgotten meanwhile (model bound)

ASSUME ExtractionAssumption ==
    /\ OwnMems \subseteq XMems
    /\ ClaimLimit \in Nat \ {0} /\ {MaxXFaults, MaxXCrashes, MaxForgets} \subseteq Nat

NoAtom == <<>>

(* a row of the atoms table; sup is the id of the atom it superseded, born
   orders the rows by created_at *)
IsAtom(a) ==
    a \in [key : {a.key}, val : {a.val}, at : Nat, from : Nat, conf : Nat,
           event : BOOLEAN, status : BOOLEAN, id : {a.id}, mem : {a.mem},
           sup : {a.sup}, retired : BOOLEAN, born : Nat]

(* The rows of earlier sessions are of other memories and were given ids as
   the workers give them; what they superseded is not active any more. *)
ASSUME AtomsAssumption ==
    /\ \A m \in XMems :
          /\ DOMAIN Says[m] = 1 .. Len(Says[m]) /\ Len(Says[m]) \in Nat
          /\ \A i \in DOMAIN Says[m] :
                /\ {Says[m][i].at, Says[m][i].from, Says[m][i].conf} \subseteq Nat
                /\ {Says[m][i].event, Says[m][i].status} \subseteq BOOLEAN
    /\ IsFiniteSet(SeedAtoms)
    /\ \A a \in SeedAtoms :
          /\ IsAtom(a) /\ ~a.retired
          /\ a.mem \notin XMems /\ a.id = <<a.id[1], a.mem, a.id[3]>>
          /\ a.sup = NoAtom \/ a.sup[2] \notin XMems
          /\ \A b \in SeedAtoms : /\ a.mem = b.mem /\ a.id[3] = b.id[3] => a = b
                                 /\ a.sup # b.id

VARIABLES
    kind,           \* "atom" or "entity"
    dry,            \* ENGRAM_ATOM_SUPERSESSION_DRY_RUN
    job,            \* the job row of each memory
    forgotten,      \* memories with valid_to set
    atoms,          \* the atoms table
    ents,           \* the canonical_entities table: name -> aliases
    xw,             \* the workers: [at, mine, mem, plan]
    xfaults, xcrashes

extractionVars == <<kind, dry, job, forgotten, atoms, ents, xw, xfaults, xcrashes>>

Idling == [at |-> "poll", mine |-> {}, mem |-> "none", plan |-> <<>>]

ExtractionInit ==
    /\ kind \in {"atom", "entity"}
    /\ dry \in (IF kind = "atom" THEN BOOLEAN ELSE {FALSE})
    /\ job = [m \in XMems |-> "none"]
    /\ forgotten = {}
    /\ atoms = (IF kind = "atom" THEN SeedAtoms ELSE {})
    /\ ents = <<>>
    /\ xw = [w \in XWorkers |-> Idling]
    /\ xfaults = 0 /\ xcrashes = 0

XFault == xfaults < MaxXFaults /\ xfaults' = xfaults + 1

tables == <<kind, dry, forgotten, atoms, ents, xcrashes>>

-----------------------------------------------------------------------------
(* enqueueAtomExtractionJob, after the memory was stored: ON CONFLICT DO
   NOTHING on (memory_id, project), whatever the state of the older job *)
EnqueueJob(m) ==
    /\ job[m] = "none" /\ m \notin forgotten
    /\ job' = [job EXCEPT ![m] = "pending"]
    /\ UNCHANGED <<tables, xw, xfaults>>

ForgetSource(m) ==
    /\ job[m] # "none" /\ m \notin forgotten
    /\ Cardinality(forgotten) < MaxForgets
    /\ forgotten' = forgotten \cup {m}
    /\ UNCHANGED <<kind, dry, job, atoms, ents, xw, xfaults, xcrashes>>

(* the entity workers ask for their project's jobs, the atom worker for all *)
Claimable == IF kind = "entity" THEN OwnMems ELSE XMems

(* mutant: the worker waits for a full batch *)
ClaimJobsFull(w) ==
    /\ xw[w].at = "poll"
    /\ \E S \in SUBSET {m \in Claimable : job[m] = "pending"} :
          /\ Cardinality(S) = ClaimLimit
          /\ job' = [m \in XMems |-> IF m \in S THEN "processing" ELSE job[m]]
          /\ xw' = [xw EXCEPT ![w].at = "next", ![w].mine = S]
    /\ UNCHANGED <<tables, xfaults>>

(* UPDATE ... SET status = 'processing' WHERE id IN (oldest pending rows,
   SKIP LOCKED) RETURNING: the rows come back in any order *)
ClaimJobs(w) ==
    /\ xw[w].at = "poll"
    /\ \E S \in SUBSET {m \in Claimable : job[m] = "pending"} :
          /\ S # {} /\ Cardinality(S) =< ClaimLimit
          /\ job' = [m \in XMems |-> IF m \in S THEN "processing" ELSE job[m]]
          /\ xw' = [xw EXCEPT ![w].at = "next", ![w].mine = S]
    /\ UNCHANGED <<tables, xfaults>>

(* CompleteAtomExtractionJob / CompleteExtractionJob; their error is logged *)
Complete(w, status) ==
    /\ \/ job' = [job EXCEPT ![xw[w].mem] = status] /\ UNCHANGED xfaults
       \/ UNCHANGED job /\ XFault
    /\ xw' = [xw EXCEPT ![w].at = "next", ![w].mem = "none", ![w].plan = <<>>]

(* GetMemory filters by the backend's project and by valid_to *)
Visible(m) == m \in OwnMems /\ m \notin forgotten

(* GetMemory and Extract.  A window is asked for twice before its error fails
   the job, and so does an answer without one valid atom. *)
Extract(w, m) ==
    /\ xw[w].at = "next" /\ m \in xw[w].mine /\ Visible(m)
    /\ \E ok \in BOOLEAN :
          /\ IF ok THEN UNCHANGED xfaults ELSE XFault
          /\ xw' = [xw EXCEPT ![w].mine = @ \ {m}, ![w].mem = m,
                              ![w].at = IF ok THEN "read" ELSE "fail"]
    /\ UNCHANGED <<tables, job>>

ExtractFails(w) ==
    /\ xw[w].at = "fail"
    /\ Complete(w, "failed")
    /\ UNCHANGED tables

(* GetMemory answers nil without an error when it finds no row, and the worker
   reads through it; safeProcessBatch recovers and drops the rest of the batch *)
NilMemoryPanics(w, m) ==
    /\ xw[w].at = "next" /\ m \in xw[w].mine /\ ~Visible(m)
    /\ xw' = [xw EXCEPT ![w] = Idling]
    /\ UNCHANGED <<tables, job, xfaults>>

BatchOver(w) ==
    /\ xw[w].at = "next" /\ xw[w].mine = {}
    /\ xw' = [xw EXCEPT ![w].at = "poll"]
    /\ UNCHANGED <<tables, job, xfaults>>

-----------------------------------------------------------------------------
(* Deduplicate of internal/atom.  A candidate is [key, event, status, val, at,
   from, conf]; key stands for project, type, subject and predicate, at for
   observed_at, from = 0 for a nil valid_from, conf is in tenths. *)
ValidityStart(a) == IF a.from = 0 THEN a.at ELSE a.from

AtomIsLater(a, b) == a.at > b.at \/ (a.at = b.at /\ a.born > b.born)

ActiveAtoms == {a \in atoms : ~a.retired}

LatestPerKey(S) ==
    [k \in {a.key : a \in S} |->
       CHOOSE a \in S : a.key = k /\ \A b \in S : b.key = k => ~AtomIsLater(b, a)]

(* one candidate per key, value and event date *)
Distinct(cands) ==
    LET Same(c, d) == /\ c.key = d.key /\ c.val = d.val
                      /\ c.event => c.from = d.from
        First(i) == \A j \in 1..(i - 1) : ~Same(cands[i], cands[j])
    IN  {i \in DOMAIN cands : First(i)}

Insert(c) == [op |-> "insert", atom |-> c, old |-> NoAtom]
Retire(c, old) == [op |-> "retire", atom |-> c, old |-> old.id]

AsFresh(st, c) == [st EXCEPT !.fresh = Append(@, Insert(c))]
AsSupersession(st, c, old) == [st EXCEPT !.pairs = Append(@, Retire(c, old))]
Indexed(st, c) ==
    [st EXCEPT !.index = [k \in DOMAIN st.index \cup {c.key} |->
                            IF k = c.key THEN c ELSE st.index[k]]]

(* what happens to candidate c given the index built so far *)
Judged(st, c) ==
    IF c.key \notin DOMAIN st.index
    THEN IF c.event THEN AsFresh(st, c) ELSE Indexed(AsFresh(st, c), c)
    ELSE LET current == st.index[c.key] IN
         IF current.val = c.val
         THEN IF /\ c.event /\ c.from # 0 /\ current.from # 0
                 /\ c.from # current.from
              THEN AsFresh(st, c) ELSE st
         ELSE IF \/ c.event
                 \/ c.conf + 2 < current.conf
                 \/ c.at < ValidityStart(current)
         THEN AsFresh(st, c)
         ELSE Indexed(AsSupersession(st, c, current), c)

(* status changes are judged after everything else, those of one key by the
   time of the assertion; the order of their keys is left open.  Fresh atoms
   are written before the supersessions *)
InOrder(cands) ==
    LET Later(i, j) == cands[i].at > cands[j].at \/ (cands[i].at = cands[j].at /\ i > j)
        Before(i, j) == /\ cands[i].status => cands[j].status
                        /\ ~cands[j].status => i < j
                        /\ cands[i].status /\ cands[i].key = cands[j].key => ~Later(i, j)
    IN  {o \in SetToSeqs(Distinct(cands)) :
           \A i, j \in DOMAIN o : i < j => Before(o[i], o[j])}

NothingJudged(existing) == [index |-> LatestPerKey(existing), fresh |-> <<>>, pairs |-> <<>>]

(* the state after the candidates of cands, in the given order *)
JudgedAll(existing, cands, order) ==
    LeftFold(LAMBDA st, i : Judged(st, cands[i]), NothingJudged(existing), order)

Deduplicate(existing, cands) ==
    {end.fresh \o end.pairs : end \in {JudgedAll(existing, cands, o) : o \in InOrder(cands)}}

(* ids are given before the deduplication *)
Candidates(w, m) ==
    [i \in DOMAIN Says[m] |->
       [key |-> Says[m][i].key, val |-> Says[m][i].val, at |-> Says[m][i].at,
        from |-> Says[m][i].from, conf |-> Says[m][i].conf,
        event |-> Says[m][i].event, status |-> Says[m][i].status,
        id |-> <<w, m, i>>, mem |-> m, sup |-> NoAtom, retired |-> FALSE,
        born |-> 0]]

(* GetActiveAtoms: without it everything is inserted *)
ReadAtoms(w) ==
    /\ kind = "atom" /\ xw[w].at = "read"
    /\ \E cands \in {Candidates(w, xw[w].mem)} :
       \/ /\ \E plan \in Deduplicate(ActiveAtoms, cands) :
                xw' = [xw EXCEPT ![w].at = "write", ![w].plan = plan]
          /\ UNCHANGED xfaults
       \/ /\ XFault
          /\ xw' = [xw EXCEPT ![w].at = "write",
                              ![w].plan = [i \in DOMAIN cands |-> Insert(cands[i])]]
    /\ UNCHANGED <<tables, job>>

Stored(c, sup) == [c EXCEPT !.sup = sup, !.born = Cardinality(atoms) + 1]

Written(w) == xw' = [xw EXCEPT ![w].plan = Tail(@)]

InsertAtom(w) ==
    /\ Head(xw[w].plan).op = "insert" \/ dry
    /\ atoms' = atoms \cup {Stored(Head(xw[w].plan).atom, NoAtom)}
    /\ Written(w)
    /\ UNCHANGED job

(* one transaction; it is rolled back when another worker retired the old atom *)
RetireAtom(w) ==
    LET p == Head(xw[w].plan) IN
    /\ p.op = "retire" /\ ~dry
    /\ IF \E a \in ActiveAtoms : a.id = p.old
       THEN /\ atoms' = {[a EXCEPT !.retired = @ \/ a.id = p.old] : a \in atoms}
                          \cup {Stored(p.atom, p.old)}
            /\ Written(w)
            /\ UNCHANGED <<job, xfaults>>
       ELSE UNCHANGED atoms /\ Complete(w, "failed")

(* the write fails: the job fails, what was written before it stays *)
WriteFails(w) ==
    /\ xfaults < MaxXFaults
    /\ job' = [job EXCEPT ![xw[w].mem] = "failed"]
    /\ xfaults' = xfaults + 1
    /\ xw' = [xw EXCEPT ![w].at = "next", ![w].mem = "none", ![w].plan = <<>>]
    /\ UNCHANGED atoms

PersistAtom(w) ==
    /\ kind = "atom" /\ xw[w].at = "write" /\ xw[w].plan # <<>>
    /\ \/ InsertAtom(w) /\ UNCHANGED xfaults
       \/ RetireAtom(w)
       \/ WriteFails(w)
    /\ UNCHANGED <<kind, dry, forgotten, ents, xcrashes>>

-----------------------------------------------------------------------------
Known == DOMAIN ents

(* Deduplicate of internal/entity: a candidate that is known by name or alias
   is merged into that entity as it was read, without its own aliases; the
   others are fresh *)
EntityPlan(m) ==
    LET owner(n) == {e \in Known : n = e \/ n \in ents[e]}
        merged == {[name |-> e, aliases |-> ents[e]] :
                     e \in UNION {owner(n) : n \in DOMAIN Names[m]}}
        fresh == {[name |-> n, aliases |-> Names[m][n]] :
                    n \in {n \in DOMAIN Names[m] : owner(n) = {}}}
    IN  SetToSeq(merged) \o SetToSeq(fresh)

(* GetEntitiesByProject: on its error the job is left as it is *)
ReadEntities(w) ==
    /\ kind = "entity" /\ xw[w].at = "read"
    /\ \/ /\ xw' = [xw EXCEPT ![w].at = "write", ![w].plan = EntityPlan(xw[w].mem)]
          /\ UNCHANGED xfaults
       \/ /\ XFault
          /\ xw' = [xw EXCEPT ![w].at = "next", ![w].mem = "none"]
    /\ UNCHANGED <<tables, job>>

(* mutant: the conflicting row takes over the aliases that were read *)
UpsertOverwrites(e) ==
    ents' = [n \in Known \cup {e.name} |->
               IF n = e.name THEN e.aliases ELSE ents[n]]

(* ON CONFLICT (project, lower(name)): the union of both alias lists *)
UpsertEntity(e) ==
    ents' = [n \in Known \cup {e.name} |->
               (IF n \in Known THEN ents[n] ELSE {})
                 \cup (IF n = e.name THEN e.aliases ELSE {})]

(* an error of the upsert is logged and the next entity tried *)
PersistEntity(w) ==
    /\ kind = "entity" /\ xw[w].at = "write" /\ xw[w].plan # <<>>
    /\ \/ UpsertEntity(Head(xw[w].plan)) /\ UNCHANGED xfaults
       \/ UNCHANGED ents /\ XFault
    /\ Written(w)
    /\ UNCHANGED <<kind, dry, job, forgotten, atoms, xcrashes>>

JobDone(w) ==
    /\ xw[w].at = "write" /\ xw[w].plan = <<>>
    /\ Complete(w, "done")
    /\ UNCHANGED tables

CrashWorker(w) ==
    /\ xw[w].at # "dead" /\ xcrashes < MaxXCrashes
    /\ xcrashes' = xcrashes + 1
    /\ xw' = [xw EXCEPT ![w] = [Idling EXCEPT !.at = "dead"]]
    /\ UNCHANGED <<kind, dry, job, forgotten, atoms, ents, xfaults>>

RestartWorker(w) ==
    /\ xw[w].at = "dead"
    /\ xw' = [xw EXCEPT ![w] = Idling]
    /\ UNCHANGED <<tables, job, xfaults>>

WorkerLoop(w) ==
    \/ ClaimJobs(w) \/ ExtractFails(w) \/ BatchOver(w) \/ JobDone(w)
    \/ ReadAtoms(w) \/ PersistAtom(w) \/ ReadEntities(w) \/ PersistEntity(w)
    \/ \E m \in XMems : Extract(w, m) \/ NilMemoryPanics(w, m)
    \/ RestartWorker(w)

ExtractionNext ==
    \/ \E m \in XMems : EnqueueJob(m) \/ ForgetSource(m)
    \/ \E w \in XWorkers : WorkerLoop(w) \/ CrashWorker(w)

(* the ticker of Run fires for ever; a crashed server is started again *)
ExtractionFairness == \A w \in XWorkers : WF_extractionVars(WorkerLoop(w))

ExtractionSpec ==
    ExtractionInit /\ [][ExtractionNext]_extractionVars /\ ExtractionFairness

-----------------------------------------------------------------------------
(* However the workers of several servers interleave, every retired atom was
   superseded by exactly one stored atom of its key, with another value and
   not asserted before it; nothing else is retired (RetireAtom's transaction
   and its row count), and in a dry run nothing is. *)
SupersededOnce ==
    LET heirs(a) == {b \in atoms : b.sup = a.id} IN
    \A a \in atoms :
       /\ Cardinality(heirs(a)) = (IF a.retired THEN 1 ELSE 0)
       /\ \A b \in heirs(a) : /\ b.key = a.key /\ b.val # a.val
                              /\ b.at >= ValidityStart(a) /\ ~dry

(* A job that is done has each of its atoms in the table, as its own row or as
   one of the same key and value that was already there. *)
DoneMeansStored ==
    kind = "atom" =>
       \A m \in XMems : job[m] = "done" =>
          \A i \in DOMAIN Says[m] : \E a \in atoms :
             a.key = Says[m][i].key /\ a.val = Says[m][i].val

(* No memory is extracted twice: whatever the interleaving of claims, crashes
   and errors, an extracted atom has at most one row. *)
ExtractedOnce ==
    \A a, b \in atoms : a.mem = b.mem /\ a.id[3] = b.id[3] => a = b

(* Concurrent upserts of one entity never lose an alias that was stored. *)
AliasesKept ==
    [][\A n \in Known : n \in DOMAIN ents' /\ ents[n] \subseteq ents'[n]]_extractionVars

(* Whatever the interleaving of claims, crashes, errors and retirements, each
   extracted atom is stored once before its job is done, a retired one has the
   one heir that retired it, and no alias of an entity is lost. *)
ExtractionSound == []SupersededOnce /\ []DoneMeansStored /\ []ExtractedOnce /\ AliasesKept

(* The worker survives its panics and errors: a pending job is claimed. *)
PendingClaimed == \A m \in OwnMems : job[m] = "pending" ~> job[m] # "pending"

(* processJob's comment: step 5 "Marks the job complete (or failed)".  The atom
   worker reads memories through a backend opened for the project "_atoms", so
   it finds none of any other project: the panic leaves the job, and the rest
   of its batch, "processing" for ever, and the job cannot be queued again. *)
JobsFinish ==
    \A m \in XMems : kind = "atom" /\ job[m] = "processing" ~> job[m] \in {"done", "failed"}
=============================================================================
