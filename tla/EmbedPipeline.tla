--------------------------- MODULE EmbedPipeline ---------------------------
(***************************************************************************)
(* How chunks get their vectors: stores leave embedding = NULL, background *)
(* drainers claim the pending chunks, call the embedder and write the      *)
(* vector back, and memory_migrate_embedder nulls everything for a new     *)
(* model (internal/reembed, internal/embedgateway, reembed-rs, and         *)
(* MigrateEmbedder of internal/search/engine.go).                          *)
(*                                                                         *)
(* Chunk ids are numbers, the newest the largest.  A vector is the model   *)
(* and the drainer that made it.  A deployment runs the gateway, or the    *)
(* global worker with the per-project one, or only the Rust process.       *)
(***************************************************************************)
EXTENDS Naturals, FiniteSets

CONSTANTS
    ChunkIds,       \* a set of naturals
    NullVector,     \* embedding IS NULL
    NoChunk,        \* no such row
    Poison,         \* chunks no embedder accepts
    Models,
    Canonical,      \* embedmodel.CanonicalBGEM3, the model of the start-up
    BatchSize,
    RejectLimit,    \* consecutiveValidationThreshold
    MaxMigrations,  \* bound: calls of memory_migrate_embedder
    MaxFaults       \* bound: errors and wrong answers of embedder and database

ASSUME PipelineAssumption ==
    /\ ChunkIds \subseteq Nat /\ Poison \subseteq ChunkIds
    /\ Canonical \in Models
    /\ BatchSize \in Nat /\ RejectLimit \in Nat \ {0}
    /\ Cardinality(Poison) < BatchSize
    /\ IsFiniteSet(ChunkIds)
    /\ MaxMigrations \in Nat /\ MaxFaults \in Nat

Drainers == {"gateway", "global", "project", "rust"}
Vectors == [model : Models, by : Drainers]

(* the column tells a missing row, NULL and a vector apart *)
ASSUME VectorAssumption == NullVector # NoChunk /\ {NullVector, NoChunk} \cap Vectors = {}

VARIABLES
    mode,       \* which drainers the deployment runs
    emb,        \* chunks.embedding
    run,        \* per drainer: "off", "idle", "batch"
    batch,      \* per drainer: claimed chunks not yet dealt with
    vec,        \* per drainer: vectors computed and not yet written
    claimed,    \* per drainer: len(chunks) of the claim
    cleared,    \* the project worker's migrationCleared
    rejects,    \* consecutiveValidationErr
    hold,       \* now < holdUntil
    meta,       \* project_meta: embedder_name, migration flag
    engine,     \* the model of SearchEngine.embedder
    migr,       \* a MigrateEmbedder call: step, target and number
    faults      \* errors so far

pipeVars == <<mode, emb, run, batch, vec, claimed, cleared, rejects, hold,
              meta, engine, migr, faults>>

drainVars == <<run, batch, vec, claimed, cleared, rejects, hold, faults>>
metaVars == <<meta, engine, migr>>

PipelineTypeOK ==
    /\ mode \in {"boot", "gateway", "global", "rust"}
    /\ emb \in [ChunkIds -> {NoChunk, NullVector} \cup Vectors]
    /\ run \in [Drainers -> {"off", "idle", "batch"}]
    /\ \A d \in Drainers :
          /\ batch[d] \subseteq ChunkIds /\ claimed[d] \in 0 .. BatchSize
          /\ vec[d] \in [ChunkIds -> {NullVector} \cup Vectors]
          /\ \A c \in ChunkIds : vec[d][c] # NullVector => c \in batch[d]
    /\ cleared \in BOOLEAN /\ hold \in BOOLEAN
    /\ rejects \in 0 .. RejectLimit
    /\ meta.name \in Models \cup {NullVector} /\ meta.migrating \in BOOLEAN
    /\ engine \in Models
    /\ migr.step \in {"idle", "committed", "stopping", "creating"}
    /\ migr.count \in 0 .. MaxMigrations
    /\ faults \in 0 .. MaxFaults

NoVectors == [c \in ChunkIds |-> NullVector]

PipelineInit ==
    /\ mode = "boot"
    /\ emb = [c \in ChunkIds |-> NoChunk]
    /\ run = [d \in Drainers |-> "off"]
    /\ batch = [d \in Drainers |-> {}]
    /\ vec = [d \in Drainers |-> NoVectors]
    /\ claimed = [d \in Drainers |-> 0]
    /\ cleared = FALSE /\ rejects = 0 /\ hold = FALSE
    /\ meta = [name |-> NullVector, migrating |-> FALSE]
    /\ engine = Canonical
    /\ migr = [step |-> "idle", to |-> Canonical, count |-> 0]
    /\ faults = 0

(* runServer: gateway or global worker; SetReembedEmbedder starts the project
   worker when NewWorkerFromMeta found something to do *)
Boot(m) ==
    /\ mode = "boot"
    /\ mode' = m
    /\ \E active \in BOOLEAN :
          run' = [d \in Drainers |->
                    IF d = m \/ (active /\ d = "project" /\ m = "global")
                    THEN "idle" ELSE "off"]
    /\ UNCHANGED <<emb, batch, vec, claimed, cleared, rejects, hold, faults,
                   metaVars>>

(* storeChunksForMemory never waits for an embedder *)
StoreChunk(c) ==
    /\ mode # "boot" /\ emb[c] = NoChunk
    /\ emb' = [emb EXCEPT ![c] = NullVector]
    /\ UNCHANGED <<mode, drainVars, metaVars>>

-----------------------------------------------------------------------------
Pending == {c \in ChunkIds : emb[c] = NullVector}

(* mutant: the limit of the claim is off by one *)
NewestShort(S) == {c \in S : Cardinality({x \in S : x > c}) + 1 < BatchSize}

(* ORDER BY c.id DESC LIMIT BatchSize *)
Newest(S) == {c \in S : Cardinality({x \in S : x > c}) < BatchSize}

(* GetChunksPendingEmbedding orders by the memories' last access instead *)
Claims(d) ==
    IF d = "project"
    THEN {S \in SUBSET Pending :
            \/ S = Pending /\ Cardinality(S) =< BatchSize
            \/ Cardinality(S) = BatchSize}
    ELSE {Newest(Pending)}

(* the claim is committed, and its row locks released, before the embedding *)
Claim(d) ==
    /\ run[d] = "idle"
    /\ d = "gateway" => ~hold
    /\ \E S \in Claims(d) :
          /\ batch' = [batch EXCEPT ![d] = S]
          /\ claimed' = [claimed EXCEPT ![d] = Cardinality(S)]
    /\ run' = [run EXCEPT ![d] = "batch"]
    /\ UNCHANGED <<mode, emb, vec, cleared, rejects, hold, faults, metaVars>>

(* the client behind each drainer: MigrateEmbedder replaces the engine's own,
   but getReembedEmbedder prefers the one main.go set at start-up *)
VectorOf(d) == [model |-> Canonical, by |-> d]

Fault == faults < MaxFaults /\ faults' = faults + 1

(* a chunk that cannot be embedded fails every time, any other by a fault *)
Failing(c) == IF c \in Poison THEN UNCHANGED faults ELSE Fault

Drop(d, c) ==
    /\ batch' = [batch EXCEPT ![d] = @ \ {c}]
    /\ vec' = [vec EXCEPT ![d][c] = NullVector]

(* Embed of one chunk by the Go workers: an error skips the chunk *)
EmbedChunk(d, c) ==
    /\ d \in {"global", "project"}
    /\ c \in batch[d] /\ vec[d][c] = NullVector
    /\ \/ Drop(d, c) /\ Failing(c)
       \/ /\ c \notin Poison
          /\ vec' = [vec EXCEPT ![d][c] = VectorOf(d)]
          /\ UNCHANGED <<batch, faults>>
    /\ UNCHANGED <<mode, emb, run, claimed, cleared, rejects, hold, metaVars>>

(* embedAndValidate: the router may answer with any model *)
EmbedValidated(d, c) ==
    /\ d = "gateway"
    /\ c \in batch[d] /\ vec[d][c] = NullVector
    /\ \/ Drop(d, c) /\ Failing(c) /\ UNCHANGED <<rejects, hold>>
       \/ \E m \in Models :
             /\ c \notin Poison
             /\ IF m = Canonical
                THEN /\ vec' = [vec EXCEPT ![d][c] = [model |-> m, by |-> d]]
                     /\ rejects' = 0
                     /\ UNCHANGED <<batch, hold, faults>>
                ELSE /\ Drop(d, c) /\ Fault
                     /\ IF rejects + 1 < RejectLimit
                        THEN rejects' = rejects + 1 /\ UNCHANGED hold
                        ELSE rejects' = RejectLimit /\ hold' = TRUE
    /\ UNCHANGED <<mode, emb, run, claimed, cleared, metaVars>>

(* process_slice: one request for the slice; a response of the wrong size or
   dimension, a timeout or an error writes nothing *)
EmbedSlice(d) ==
    /\ d = "rust"
    /\ batch[d] # {} /\ vec[d] = NoVectors
    /\ \/ /\ batch' = [batch EXCEPT ![d] = {}]
          /\ IF batch[d] \cap Poison # {} THEN UNCHANGED faults ELSE Fault
          /\ UNCHANGED vec
       \/ /\ batch[d] \cap Poison = {}
          /\ vec' = [vec EXCEPT ![d] =
                       [c \in ChunkIds |->
                          IF c \in batch[d] THEN VectorOf(d) ELSE NullVector]]
          /\ UNCHANGED <<batch, faults>>
    /\ UNCHANGED <<mode, emb, run, claimed, cleared, rejects, hold, metaVars>>

(* mutant: the UPDATE is not guarded by embedding IS NULL *)
WriteAnyway(d, c) ==
    /\ vec[d][c] # NullVector
    /\ Drop(d, c)
    /\ emb' = [emb EXCEPT ![c] = vec[d][c]]
    /\ UNCHANGED <<mode, run, claimed, cleared, rejects, hold, faults, metaVars>>

(* UPDATE chunks SET embedding WHERE id AND embedding IS NULL, or its error *)
Write(d, c) ==
    /\ vec[d][c] # NullVector
    /\ Drop(d, c)
    /\ \/ /\ emb' = [emb EXCEPT ![c] = IF @ = NullVector THEN vec[d][c] ELSE @]
          /\ UNCHANGED faults
       \/ UNCHANGED emb /\ Fault
    /\ UNCHANGED <<mode, run, claimed, cleared, rejects, hold, metaVars>>

(* the batch is over; the project worker takes a short one for the end of the
   backfill and clears the migration flag once *)
EndBatch(d) ==
    /\ run[d] = "batch" /\ batch[d] = {}
    /\ run' = [run EXCEPT ![d] = "idle"]
    /\ claimed' = [claimed EXCEPT ![d] = 0]
    /\ IF d = "project" /\ claimed[d] < BatchSize /\ ~cleared
       THEN /\ cleared' = TRUE
            /\ \/ meta' = [meta EXCEPT !.migrating = FALSE] /\ UNCHANGED faults
               \/ UNCHANGED meta /\ Fault
       ELSE UNCHANGED <<cleared, meta, faults>>
    /\ UNCHANGED <<mode, emb, batch, vec, rejects, hold, engine,
                   migr>>

HoldExpires ==
    /\ hold
    /\ hold' = FALSE
    /\ UNCHANGED <<mode, emb, run, batch, vec, claimed, cleared, rejects,
                   faults, metaVars>>

-----------------------------------------------------------------------------
(* MigrateEmbedder past its guards: the same model is left alone, the dry run
   and the unconfirmed call change nothing; one transaction nulls the vectors,
   raises the flag and renames *)
MigrateCommit(m) ==
    /\ mode # "boot" /\ migr.step = "idle" /\ migr.count < MaxMigrations
    /\ meta.name # m
    /\ emb' = [c \in ChunkIds |-> IF emb[c] = NoChunk THEN NoChunk ELSE NullVector]
    /\ meta' = [name |-> m, migrating |-> TRUE]
    /\ migr' = [step |-> "committed", to |-> m, count |-> migr.count + 1]
    /\ UNCHANGED <<mode, drainVars, engine>>

(* the gateway is woken and that is all; otherwise the worker is stopped *)
MigrateNotify ==
    /\ migr.step = "committed"
    /\ migr' = [migr EXCEPT !.step =
                  IF mode = "gateway" THEN "idle" ELSE "stopping"]
    /\ UNCHANGED <<mode, emb, drainVars, meta, engine>>

(* reembedder.Stop: its context ends, and with it the writes of its batch *)
MigrateStop ==
    /\ migr.step = "stopping"
    /\ run' = [run EXCEPT !["project"] = "off"]
    /\ batch' = [batch EXCEPT !["project"] = {}]
    /\ vec' = [vec EXCEPT !["project"] = NoVectors]
    /\ claimed' = [claimed EXCEPT !["project"] = 0]
    /\ migr' = [migr EXCEPT !.step = "creating"]
    /\ UNCHANGED <<mode, emb, cleared, rejects, hold, faults, meta, engine>>

(* the client of the new model: without one the call fails here, the worker
   stays stopped and the metadata stays changed *)
MigrateCreate ==
    /\ migr.step = "creating"
    /\ \/ /\ engine' = migr.to
          /\ run' = [run EXCEPT !["project"] = "idle"]
          /\ cleared' = FALSE
       \/ UNCHANGED <<engine, run, cleared>>
    /\ migr' = [migr EXCEPT !.step = "idle"]
    /\ UNCHANGED <<mode, emb, batch, vec, claimed, rejects, hold, faults, meta>>

DrainerStep(d) ==
    \/ Claim(d) \/ EndBatch(d) \/ EmbedSlice(d)
    \/ \E c \in ChunkIds : EmbedChunk(d, c) \/ EmbedValidated(d, c) \/ Write(d, c)

MigrationStep ==
    MigrateNotify \/ MigrateStop \/ MigrateCreate

PipelineNext ==
    \/ \E m \in {"gateway", "global", "rust"} : Boot(m)
    \/ \E c \in ChunkIds : StoreChunk(c)
    \/ \E d \in Drainers : DrainerStep(d)
    \/ HoldExpires
    \/ \E m \in Models : MigrateCommit(m)
    \/ MigrationStep

(* every loop comes back from its wait: the backoffs are bounded *)
PipelineFairness ==
    /\ WF_pipeVars(\E m \in {"gateway", "global", "rust"} : Boot(m))
    /\ WF_pipeVars(HoldExpires)
    /\ \A d \in Drainers : WF_pipeVars(DrainerStep(d))

PipelineSpec == PipelineInit /\ [][PipelineNext]_pipeVars /\ PipelineFairness

-----------------------------------------------------------------------------
(* A vector in the table is never replaced: however many drainers claimed the
   same chunk, only the first UPDATE lands, and only a migration clears it. *)
VectorWrittenOnce ==
    [][\A c \in ChunkIds :
         emb[c] \notin {NoChunk, NullVector} /\ emb'[c] # emb[c]
           => emb'[c] = NullVector /\ meta' # meta]_pipeVars

(* No vector of a worker survives its Stop: when MigrateEmbedder creates the
   new client the old worker's batch is gone. *)
StoppedWorkerEmpty ==
    run["project"] = "off" => batch["project"] = {} /\ vec["project"] = NoVectors

(* Until a migration nulls them again, the vectors in the table and on their
   way through the gateway are of the canonical model, whatever the router
   answered. *)
OnlyValidatedVectors ==
    mode = "gateway" =>
       \A c \in ChunkIds : \A v \in {emb[c], vec["gateway"][c]} :
          v \in {NoChunk, NullVector} \/ v.model = Canonical

(* Drainers, the router's answers and a migration leave no wrong vector behind
   and replace no right one. *)
VectorsSound ==
    /\ [](PipelineTypeOK /\ OnlyValidatedVectors /\ StoppedWorkerEmpty)
    /\ VectorWrittenOnce

(* Once the faults are over every chunk an embedder can embed gets its vector,
   although unembeddable chunks stay at the head of the newest-first claim.
   The Rust process is left out: one such chunk fails the whole slice it is
   claimed with. *)
PendingDrained ==
    \A c \in ChunkIds \ Poison :
       emb[c] = NullVector /\ mode # "rust" ~> emb[c] # NullVector

(* After a migration the vectors are the new model's: the status of
   MigrateEmbedder is "reembed worker running with new model". *)
MigratedVectors ==
    mode = "global" /\ migr.step = "idle" /\ engine # Canonical =>
       \A c \in ChunkIds :
          vec["project"][c] # NullVector => vec["project"][c].model = engine
=============================================================================
