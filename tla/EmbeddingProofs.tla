-------------------------- MODULE EmbeddingProofs --------------------------
(***************************************************************************)
(* Proofs about the breaker in front of the embedding server, the way of a *)
(* vector into the table, the life of the per-project worker and the waits *)
(* of the loops that wake the drainers, for every configuration, number of *)
(* requests and tasks and every set of chunks, models and callers.         *)
(***************************************************************************)
EXTENDS CircuitBreaker, EmbedPipeline, ReembedWorker, DrainLoops,
        FiniteSetTheorems, WellFoundedInduction, TLAPS

-----------------------------------------------------------------------------
(* The breaker.                                                            *)

\* The slot discipline: the three facts are inductive only together.
\* SlotHasHolder alone is not: Allow in Closed gives its caller the role
\* "demand" and leaves the slot as it is, which is harmless only because the
\* slot is free whenever the breaker is Closed (SlotOnlyHalfOpen).
SlotInv ==
    /\ TypeOK
    /\ SlotHasHolder
    /\ SlotOnlyHalfOpen
    /\ HalfOpenPastCooldown

\* updateNextProbeTime: a further failed probe yields a cooldown that is at
\* least the previous one and at most BackoffCap.
LEMMA GrowBackoffBounds ==
    ASSUME NEW d \in 0 .. BackoffCap
    PROVE  /\ GrowBackoff(d) \in 0 .. BackoffCap
           /\ GrowBackoff(d) >= d
<1>1. d * BackoffMultiplier \in Nat /\ d * BackoffMultiplier >= d
  BY ConfigAssumption
<1> QED
  BY <1>1, ConfigAssumption DEF GrowBackoff

\* The three outcome reports of a caller (RecordSuccess, RecordFailure,
\* AbandonProbe) free the slot and keep the breaker's variables in their types;
\* none of them leaves a HalfOpen breaker inside a cooldown.
LEMMA ReportFreesSlot ==
    ASSUME SlotInv, RecordSuccess \/ RecordFailure \/ AbandonProbe
    PROVE  /\ probeInFlight' = FALSE
           /\ state' \in States
           /\ failures' \in [Ages -> Nat]
           /\ wait' \in -1 .. BackoffCap
           /\ backoff' \in 0 .. BackoffCap
           /\ HalfOpenPastCooldown'
<1> USE ConfigAssumption DEF SlotInv, TypeOK, States
<1>a. EmptyWindow \in [Ages -> Nat]
  BY DEF EmptyWindow
<1>b. [failures EXCEPT ![0] = @ + 1] \in [Ages -> Nat]
  BY DEF Ages
<1>1. CASE RecordSuccess
  BY <1>1, <1>a DEF RecordSuccess, HalfOpenPastCooldown, CooldownOver
<1>2. CASE RecordFailure
  <2> DEFINE window == [failures EXCEPT ![0] = @ + 1]
  <2>1. CASE InWindow(window) >= FailureThreshold
    <3>1. Trip(window) /\ probeInFlight' = FALSE
      BY <1>2, <2>1 DEF RecordFailure
    <3> HIDE DEF window
    <3>2. OpenDuration \in 0 .. BackoffCap /\ OpenDuration \in -1 .. BackoffCap
      OBVIOUS
    <3>3. GrowBackoff(backoff) \in 0 .. BackoffCap
      BY GrowBackoffBounds
    <3>4. window \in [Ages -> Nat]
      BY <1>b DEF window
    <3> QED
      BY <3>1, <3>2, <3>3, <3>4, <1>a
      DEF Trip, HalfOpenPastCooldown, CooldownOver
  <2>2. CASE ~(InWindow(window) >= FailureThreshold)
    <3>1. /\ probeInFlight' = FALSE
          /\ failures' = window
          /\ UNCHANGED <<state, wait, backoff>>
      BY <1>2, <2>2 DEF RecordFailure
    <3> QED
      BY <3>1, <1>b DEF HalfOpenPastCooldown, CooldownOver
  <2> QED
    BY <2>1, <2>2
<1>3. CASE AbandonProbe
  BY <1>3 DEF AbandonProbe, HalfOpenPastCooldown, CooldownOver
<1> QED
  BY <1>1, <1>2, <1>3

\* A caller that reports and returns preserves the slot discipline.
LEMMA ReturnPreservesSlotInv ==
    ASSUME SlotInv, NEW c \in Callers, Return(c),
           RecordSuccess \/ RecordFailure \/ AbandonProbe
    PROVE  SlotInv'
<1>1. /\ probeInFlight' = FALSE
      /\ state' \in States
      /\ failures' \in [Ages -> Nat]
      /\ wait' \in -1 .. BackoffCap
      /\ backoff' \in 0 .. BackoffCap
      /\ HalfOpenPastCooldown'
  BY ReportFreesSlot
<1>2. TypeOK'
  BY <1>1 DEF SlotInv, TypeOK, Return
<1> QED
  BY <1>1, <1>2 DEF SlotInv, SlotHasHolder, SlotOnlyHalfOpen

\* A caller that is granted the slot becomes its holder.
LEMMA ClaimPreservesSlotInv ==
    ASSUME SlotInv, NEW c \in Callers, ClaimSlot,
           role' = [role EXCEPT ![c] = "probe"],
           pc' \in [Callers -> {"idle", "ready", "sent"}],
           attempt' \in [Callers -> 0 .. MaxAttempts - 1],
           upstream' = upstream
    PROVE  SlotInv'
<1>1. TypeOK'
  BY DEF SlotInv, TypeOK, ClaimSlot, States
<1>2. c \in Probing'
  BY DEF Probing, SlotInv, TypeOK
<1>3. HalfOpenPastCooldown'
  BY DEF SlotInv, HalfOpenPastCooldown, ClaimSlot, CooldownOver
<1> QED
  BY <1>1, <1>2, <1>3 DEF SlotInv, SlotHasHolder, SlotOnlyHalfOpen, ClaimSlot

\* Every step of a request, of the prober or of the environment preserves the
\* slot discipline.
LEMMA SlotInvInductive == SlotInv /\ [Next]_vars => SlotInv'
<1> SUFFICES ASSUME SlotInv, [Next]_vars PROVE SlotInv'
  OBVIOUS
<1> USE ConfigAssumption DEF Callers
<1>1. CASE \E c \in Clients : ClientStep(c)
  <2> PICK c \in Clients : ClientStep(c)
    BY <1>1
  <2>1. CASE EmbedStart(c)
    <3>1. /\ pc' \in [Callers -> {"idle", "ready", "sent"}]
          /\ attempt' \in [Callers -> 0 .. MaxAttempts - 1]
          /\ upstream' = upstream
      BY <2>1 DEF EmbedStart, SlotInv, TypeOK
    <3>2. CASE /\ state = "closed"
               /\ role' = [role EXCEPT ![c] = "demand"]
               /\ UNCHANGED breaker
      <4>1. ~probeInFlight /\ ~probeInFlight'
        BY <3>2 DEF SlotInv, SlotOnlyHalfOpen, breaker
      <4>2. TypeOK'
        BY <3>1, <3>2 DEF SlotInv, TypeOK, breaker
      <4> QED
        BY <3>2, <4>1, <4>2
        DEF SlotInv, SlotHasHolder, SlotOnlyHalfOpen, HalfOpenPastCooldown,
            CooldownOver, breaker
    <3>3. CASE ClaimSlot /\ role' = [role EXCEPT ![c] = "probe"]
      BY <3>1, <3>3, ClaimPreservesSlotInv
    <3> QED
      BY <2>1, <3>2, <3>3 DEF EmbedStart, Allow
  <2>2. CASE EmbedSend(c)
    BY <2>2 DEF EmbedSend, SlotInv, TypeOK, SlotHasHolder, SlotOnlyHalfOpen,
                HalfOpenPastCooldown, CooldownOver, Probing
  <2>3. CASE EmbedRetry(c)
    BY <2>3 DEF EmbedRetry, SlotInv, TypeOK, SlotHasHolder, SlotOnlyHalfOpen,
                HalfOpenPastCooldown, CooldownOver, Probing
  <2>4. CASE EmbedCancel(c)
    BY <2>4, ReturnPreservesSlotInv DEF EmbedCancel
  <2>5. CASE EmbedSucceed(c)
    BY <2>5, ReturnPreservesSlotInv DEF EmbedSucceed
  <2>6. CASE EmbedFail(c)
    BY <2>6, ReturnPreservesSlotInv DEF EmbedFail
  <2> QED
    BY <2>1, <2>2, <2>3, <2>4, <2>5, <2>6 DEF ClientStep
<1>2. CASE ProbeTick
  <2>1. /\ pc' \in [Callers -> {"idle", "ready", "sent"}]
        /\ attempt' \in [Callers -> 0 .. MaxAttempts - 1]
        /\ upstream' = upstream
    BY <1>2 DEF ProbeTick, SlotInv, TypeOK
  <2> QED
    BY <1>2, <2>1, ClaimPreservesSlotInv DEF ProbeTick, AllowProbe
<1>3. CASE ProbeSucceed
  BY <1>3, ReturnPreservesSlotInv DEF ProbeSucceed
<1>4. CASE ProbeFail
  BY <1>4, ReturnPreservesSlotInv DEF ProbeFail
<1>5. CASE Tick
  <2>1. failures' \in [Ages -> Nat]
    BY <1>5 DEF Tick, SlotInv, TypeOK, Ages
  <2>2. wait' \in -1 .. BackoffCap
    BY <1>5 DEF Tick, SlotInv, TypeOK
  <2>3. TypeOK'
    BY <1>5, <2>1, <2>2 DEF Tick, SlotInv, TypeOK
  <2> QED
    BY <1>5, <2>3 DEF Tick, SlotInv, TypeOK, SlotHasHolder, SlotOnlyHalfOpen,
                      HalfOpenPastCooldown, CooldownOver, Probing
<1>6. CASE UpstreamChanges
  BY <1>6 DEF UpstreamChanges, SlotInv, TypeOK, SlotHasHolder,
              SlotOnlyHalfOpen, HalfOpenPastCooldown, CooldownOver, Probing
<1>7. CASE UNCHANGED vars
  BY <1>7 DEF vars, SlotInv, TypeOK, SlotHasHolder, SlotOnlyHalfOpen,
              HalfOpenPastCooldown, CooldownOver, Probing
<1> QED
  BY <1>1, <1>2, <1>3, <1>4, <1>5, <1>6, <1>7 DEF Next, ProberStep

\* NewCircuitBreaker returns a Closed breaker whose slot is free.
LEMMA InitSlotInv == Init => SlotInv
<1> SUFFICES ASSUME Init PROVE SlotInv
  OBVIOUS
<1>1. failures \in [Ages -> Nat]
  BY DEF Init, EmptyWindow
<1>2. wait \in -1 .. BackoffCap /\ backoff \in 0 .. BackoffCap
  BY ConfigAssumption DEF Init
<1>3. attempt \in [Callers -> 0 .. MaxAttempts - 1]
  BY ConfigAssumption DEF Init
<1>4. TypeOK
  BY <1>1, <1>2, <1>3 DEF Init, TypeOK, States
<1> QED
  BY <1>4 DEF Init, SlotInv, SlotHasHolder, SlotOnlyHalfOpen,
              HalfOpenPastCooldown

\* The breaker's variables keep their types, and in every reachable state a
\* taken probe slot belongs to a probe that is still running, in HalfOpen,
\* past the cooldown: no sequence of late reports, cancellations and retries
\* leaks the slot and wedges the breaker.
THEOREM SlotDiscipline ==
    Spec => [](TypeOK /\ SlotHasHolder /\ SlotOnlyHalfOpen
                      /\ HalfOpenPastCooldown)
<1>1. SlotInv => TypeOK /\ SlotHasHolder /\ SlotOnlyHalfOpen
                        /\ HalfOpenPastCooldown
  BY DEF SlotInv
<1> QED
  BY InitSlotInv, SlotInvInductive, <1>1, PTL DEF Spec

-----------------------------------------------------------------------------
\* RecordFailure is the only method that changes the cooldown while the breaker
\* stays out of Closed, and it grows it (GrowBackoffBounds).
LEMMA BackoffStep ==
    ASSUME TypeOK, [Next]_vars, state' # "closed", state # "closed"
    PROVE  backoff' >= backoff
<1> USE ConfigAssumption DEF TypeOK
<1>0. backoff >= backoff
  OBVIOUS
<1>1. ASSUME RecordFailure PROVE backoff' >= backoff
  <2>1. GrowBackoff(backoff) >= backoff
    BY GrowBackoffBounds
  <2>2. backoff' = backoff \/ backoff' = GrowBackoff(backoff)
    BY <1>1 DEF RecordFailure, Trip
  <2> QED
    BY <1>0, <2>1, <2>2
<1>2. ASSUME RecordSuccess PROVE backoff' = backoff
  BY <1>2 DEF RecordSuccess
<1>3. ASSUME AbandonProbe \/ ClaimSlot PROVE backoff' = backoff
  BY <1>3 DEF AbandonProbe, ClaimSlot
<1>4. CASE \E c \in Clients : ClientStep(c)
  BY <1>0, <1>1, <1>2, <1>3, <1>4
  DEF ClientStep, EmbedStart, EmbedSend, EmbedCancel, EmbedSucceed,
      EmbedRetry, EmbedFail, Allow, breaker
<1>5. CASE ProberStep
  BY <1>0, <1>1, <1>2, <1>3, <1>5
  DEF ProberStep, ProbeTick, ProbeSucceed, ProbeFail, AllowProbe
<1>6. CASE Tick \/ UpstreamChanges \/ UNCHANGED vars
  BY <1>0, <1>6 DEF Tick, UpstreamChanges, vars
<1> QED
  BY <1>4, <1>5, <1>6 DEF Next

\* Between two closings no step of any caller shortens the cooldown.
THEOREM BackoffMonotone == Spec => BackoffNeverShrinks
<1>1. TypeOK /\ [Next]_vars
        => [state' # "closed" /\ state # "closed" => backoff' >= backoff]_vars
  BY BackoffStep
<1>2. Spec => []TypeOK
  BY SlotDiscipline, PTL
<1> QED
  BY <1>1, <1>2, PTL DEF Spec, BackoffNeverShrinks

-----------------------------------------------------------------------------
(* The claim.                                                              *)

LEMMA SmallestChunk ==
    ASSUME NEW T \in SUBSET Nat, T # {}
    PROVE  \E x \in T : \A y \in T : x =< y
<1>1. PICK x \in T : \A y \in T : ~(<<y, x>> \in OpToRel(<, Nat))
  BY NatLessThanWellFounded, WFMin
<1>2. \A y \in T : ~(y < x)
  BY <1>1 DEF OpToRel
<1> QED
  BY <1>2

LEMMA PendingFinite == ASSUME NEW S \in SUBSET ChunkIds
                       PROVE  IsFiniteSet(S) /\ Cardinality(S) \in Nat
BY PipelineAssumption, FS_Subset, FS_CardinalityType

\* ORDER BY id DESC LIMIT BatchSize returns at most BatchSize rows.
LEMMA NewestFits ==
    ASSUME NEW S \in SUBSET ChunkIds
    PROVE  Newest(S) \in SUBSET S /\ Cardinality(Newest(S)) \in 0 .. BatchSize
<1>1. Newest(S) \in SUBSET S
  BY DEF Newest
<1>2. CASE Newest(S) = {}
  BY <1>1, <1>2, FS_EmptySet, PipelineAssumption
<1>3. CASE Newest(S) # {}
  <2>1. PICK m \in Newest(S) : \A y \in Newest(S) : m =< y
    BY <1>1, <1>3, SmallestChunk, PipelineAssumption
  <2>2. PICK G \in SUBSET ChunkIds : G = {x \in S : x > m}
    OBVIOUS
  <2>3. Cardinality(G) < BatchSize
    <3>1. m \in {c \in S : Cardinality({x \in S : x > c}) < BatchSize}
      BY <2>1 DEF Newest
    <3>2. Cardinality({x \in S : x > m}) < BatchSize
      BY <3>1
    <3> QED
      BY <2>2, <3>2
  <2>4. Newest(S) \ {m} \subseteq G
    <3>1. ASSUME NEW y \in Newest(S), y # m PROVE y \in S /\ y > m
      <4>1. y \in S /\ y \in Nat /\ m \in Nat
        BY <1>1, PipelineAssumption
      <4>2. m =< y
        BY <2>1
      <4> QED
        BY <3>1, <4>1, <4>2
    <3> QED
      BY <2>2, <3>1
  <2>5. IsFiniteSet(G) /\ Cardinality(G) \in Nat
    BY <2>2, PendingFinite
  <2>6. Cardinality(Newest(S) \ {m}) =< Cardinality(G)
    BY <2>4, <2>5, FS_Subset
  <2>7. IsFiniteSet(Newest(S)) /\ Cardinality(Newest(S)) \in Nat
    BY <1>1, PendingFinite
  <2>8. Cardinality(Newest(S) \ {m}) = Cardinality(Newest(S)) - 1
    BY <2>7, FS_RemoveElement
  <2> QED
    BY <1>1, <2>3, <2>5, <2>6, <2>7, <2>8, PipelineAssumption
<1> QED
  BY <1>2, <1>3

LEMMA ClaimFits ==
    ASSUME NEW d \in Drainers, NEW S \in Claims(d)
    PROVE  S \in SUBSET ChunkIds /\ Cardinality(S) \in 0 .. BatchSize
<1>1. Pending \in SUBSET ChunkIds
  BY DEF Pending
<1>2. CASE d = "project"
  <2>1. S \in SUBSET ChunkIds /\ Cardinality(S) =< BatchSize
    BY <1>1, <1>2, PipelineAssumption DEF Claims
  <2> QED
    BY <2>1, PendingFinite, PipelineAssumption
<1>3. CASE d # "project"
  BY <1>1, <1>3, NewestFits DEF Claims
<1> QED
  BY <1>2, <1>3

-----------------------------------------------------------------------------
(* The pipeline.                                                           *)

PipeTypeOK ==
    /\ mode \in {"boot", "gateway", "global", "rust"}
    /\ emb \in [ChunkIds -> {NoChunk, NullVector} \cup Vectors]
    /\ run \in [Drainers -> {"off", "idle", "batch"}]
    /\ batch \in [Drainers -> SUBSET ChunkIds]
    /\ claimed \in [Drainers -> 0 .. BatchSize]
    /\ vec \in [Drainers -> [ChunkIds -> {NullVector} \cup Vectors]]
    /\ cleared \in BOOLEAN /\ hold \in BOOLEAN
    /\ rejects \in 0 .. RejectLimit
    /\ meta \in [name : Models \cup {NullVector}, migrating : BOOLEAN]
    /\ engine \in Models
    /\ migr \in [step : {"idle", "committed", "stopping", "creating"}, to : Models,
                 count : 0 .. MaxMigrations]
    /\ faults \in 0 .. MaxFaults

\* A vector on its way belongs to the batch of its drainer and is of the canonical model.
OnTheWay == \A d \in Drainers, c \in ChunkIds :
                vec[d][c] # NullVector => c \in batch[d] /\ vec[d][c].model = Canonical

InTheTable == \A c \in ChunkIds : emb[c] \in {NoChunk, NullVector} \/ emb[c].model = Canonical

\* Only a drainer inside a batch holds chunks.
HeldInBatch == \A d \in Drainers : run[d] # "batch" => batch[d] = {}

\* Nothing runs before the start-up, and MigrateEmbedder replaces a stopped worker.
Phases == /\ mode = "boot" => migr.step = "idle" /\ \A d \in Drainers : run[d] = "off"
          /\ migr.step = "creating" => run["project"] = "off"

PipelineInv == PipeTypeOK /\ OnTheWay /\ InTheTable /\ HeldInBatch /\ Phases

LEMMA VectorFacts ==
    /\ \A d \in Drainers : VectorOf(d) \in Vectors /\ VectorOf(d).model = Canonical
    /\ \A v \in Vectors : v # NullVector /\ v # NoChunk
    /\ NullVector # NoChunk /\ "project" \in Drainers
    /\ NoVectors \in [ChunkIds -> {NullVector} \cup Vectors]
BY PipelineAssumption, VectorAssumption DEF VectorOf, Vectors, Drainers, NoVectors

LEMMA PipelineInitInv == PipelineInit => PipelineInv
<1> SUFFICES ASSUME PipelineInit PROVE PipelineInv
  OBVIOUS
<1>1. \A d \in Drainers : vec[d] = NoVectors /\ batch[d] = {} /\ run[d] = "off"
  BY DEF PipelineInit
<1>2. PipeTypeOK
  <2>1. /\ emb \in [ChunkIds -> {NoChunk, NullVector} \cup Vectors]
        /\ run \in [Drainers -> {"off", "idle", "batch"}]
        /\ batch \in [Drainers -> SUBSET ChunkIds]
    BY DEF PipelineInit
  <2>2. claimed \in [Drainers -> 0 .. BatchSize]
    BY PipelineAssumption DEF PipelineInit
  <2>3. vec \in [Drainers -> [ChunkIds -> {NullVector} \cup Vectors]]
    BY VectorFacts DEF PipelineInit
  <2>4. rejects \in 0 .. RejectLimit /\ faults \in 0 .. MaxFaults /\ 0 \in 0 .. MaxMigrations
    BY PipelineAssumption DEF PipelineInit
  <2>5. /\ meta \in [name : Models \cup {NullVector}, migrating : BOOLEAN]
        /\ migr \in [step : {"idle", "committed", "stopping", "creating"}, to : Models,
                     count : 0 .. MaxMigrations]
    BY <2>4, PipelineAssumption DEF PipelineInit
  <2> QED
    BY <2>1, <2>2, <2>3, <2>4, <2>5, PipelineAssumption DEF PipelineInit, PipeTypeOK
<1>3. OnTheWay /\ HeldInBatch
  BY <1>1 DEF OnTheWay, HeldInBatch, NoVectors
<1>4. InTheTable /\ Phases
  BY <1>1 DEF PipelineInit, InTheTable, Phases, Drainers
<1> QED
  BY <1>2, <1>3, <1>4 DEF PipelineInv

LEMMA VecMove ==
    ASSUME PipelineInv, NEW d \in Drainers, NEW c \in ChunkIds, NEW v \in {NullVector} \cup Vectors,
           vec' = [vec EXCEPT ![d][c] = v]
    PROVE  /\ vec' \in [Drainers -> [ChunkIds -> {NullVector} \cup Vectors]]
           /\ vec'[d][c] = v /\ \A x \in ChunkIds \ {c} : vec'[d][x] = vec[d][x]
           /\ \A z \in Drainers \ {d} : vec'[z] = vec[z]
<1>1. vec \in [Drainers -> [ChunkIds -> {NullVector} \cup Vectors]]
  BY DEF PipelineInv, PipeTypeOK
<1>2. PICK w : w = [vec[d] EXCEPT ![c] = v]
  OBVIOUS
<1>3. w \in [ChunkIds -> {NullVector} \cup Vectors] /\ w[c] = v /\ \A x \in ChunkIds \ {c} : w[x] = vec[d][x]
  BY <1>1, <1>2
<1>4. vec' = [vec EXCEPT ![d] = w]
  BY <1>1, <1>2
<1> QED
  BY <1>1, <1>3, <1>4

\* A chunk leaves its batch, with its vector.
LEMMA DropMove ==
    ASSUME PipelineInv, NEW d \in Drainers, NEW c \in ChunkIds, Drop(d, c),
           UNCHANGED run
    PROVE  /\ vec' \in [Drainers -> [ChunkIds -> {NullVector} \cup Vectors]]
           /\ batch' \in [Drainers -> SUBSET ChunkIds]
           /\ OnTheWay' /\ HeldInBatch'
<1>1. /\ vec' \in [Drainers -> [ChunkIds -> {NullVector} \cup Vectors]]
      /\ vec'[d][c] = NullVector /\ \A x \in ChunkIds \ {c} : vec'[d][x] = vec[d][x]
      /\ \A z \in Drainers \ {d} : vec'[z] = vec[z]
  BY VecMove DEF Drop
<1>2. /\ batch' \in [Drainers -> SUBSET ChunkIds] /\ batch'[d] = batch[d] \ {c}
      /\ \A z \in Drainers \ {d} : batch'[z] = batch[z]
  BY DEF Drop, PipelineInv, PipeTypeOK
<1>3. ASSUME NEW z \in Drainers, NEW x \in ChunkIds, vec'[z][x] # NullVector
      PROVE  x \in batch'[z] /\ vec'[z][x].model = Canonical
  <2>1. vec'[z][x] = vec[z][x] /\ (z = d => x # c)
    BY <1>1, <1>3
  <2>2. x \in batch[z] /\ vec[z][x].model = Canonical
    BY <1>3, <2>1 DEF PipelineInv, OnTheWay
  <2> QED
    BY <1>2, <2>1, <2>2
<1>4. OnTheWay'
  BY <1>3 DEF OnTheWay
<1>5. HeldInBatch'
  BY <1>2 DEF PipelineInv, HeldInBatch
<1> QED
  BY <1>1, <1>2, <1>4, <1>5

\* A vector of the canonical model joins its chunk.
LEMMA GainMove ==
    ASSUME PipelineInv, NEW d \in Drainers, NEW c \in batch[d], NEW v \in Vectors,
           v.model = Canonical, vec' = [vec EXCEPT ![d][c] = v], UNCHANGED batch
    PROVE  vec' \in [Drainers -> [ChunkIds -> {NullVector} \cup Vectors]] /\ OnTheWay'
<1>0. c \in ChunkIds
  BY DEF PipelineInv, PipeTypeOK
<1>1. /\ vec' \in [Drainers -> [ChunkIds -> {NullVector} \cup Vectors]]
      /\ vec'[d][c] = v /\ \A x \in ChunkIds \ {c} : vec'[d][x] = vec[d][x]
      /\ \A z \in Drainers \ {d} : vec'[z] = vec[z]
  BY <1>0, VecMove
<1>2. ASSUME NEW z \in Drainers, NEW x \in ChunkIds, vec'[z][x] # NullVector
      PROVE  x \in batch'[z] /\ vec'[z][x].model = Canonical
  BY <1>1, <1>2 DEF PipelineInv, OnTheWay
<1> QED
  BY <1>1, <1>2 DEF OnTheWay

LEMMA FaultType ==
    ASSUME PipelineInv, Fault \/ UNCHANGED faults
    PROVE  faults' \in 0 .. MaxFaults
BY PipelineAssumption DEF PipelineInv, PipeTypeOK, Fault

LEMMA PipelineNextInv == PipelineInv /\ [PipelineNext]_pipeVars => PipelineInv'
<1> SUFFICES ASSUME PipelineInv, [PipelineNext]_pipeVars PROVE PipelineInv'
  OBVIOUS
<1>t. PipeTypeOK /\ OnTheWay /\ InTheTable /\ HeldInBatch /\ Phases
  BY DEF PipelineInv
<1>1. ASSUME NEW m \in {"gateway", "global", "rust"}, Boot(m) PROVE PipelineInv'
  <2>1. /\ mode = "boot" /\ mode' = m
        /\ UNCHANGED <<emb, batch, vec, claimed, cleared, rejects, hold, faults, meta, engine, migr>>
    BY <1>1 DEF Boot, metaVars
  <2>2. run' \in [Drainers -> {"off", "idle", "batch"}]
    BY <1>1 DEF Boot
  <2>3. \A d \in Drainers : batch[d] = {}
    BY <1>t, <2>1 DEF HeldInBatch, Phases
  <2>4. PipeTypeOK'
    BY <1>t, <2>1, <2>2 DEF PipeTypeOK
  <2>5. OnTheWay' /\ InTheTable'
    BY <1>t, <2>1 DEF OnTheWay, InTheTable
  <2>6. HeldInBatch'
    BY <2>1, <2>3 DEF HeldInBatch
  <2>7. Phases'
    BY <1>t, <2>1 DEF Phases
  <2> QED
    BY <2>4, <2>5, <2>6, <2>7 DEF PipelineInv
<1>2. ASSUME NEW c \in ChunkIds, StoreChunk(c) PROVE PipelineInv'
  <2>1. /\ emb' = [emb EXCEPT ![c] = NullVector]
        /\ UNCHANGED <<mode, run, batch, vec, claimed, cleared, rejects, hold, faults, meta, engine, migr>>
    BY <1>2 DEF StoreChunk, drainVars, metaVars
  <2>2. emb' \in [ChunkIds -> {NoChunk, NullVector} \cup Vectors] /\ InTheTable'
    BY <1>t, <2>1 DEF PipeTypeOK, InTheTable
  <2>3. PipeTypeOK'
    BY <1>t, <2>1, <2>2 DEF PipeTypeOK
  <2>4. OnTheWay' /\ HeldInBatch' /\ Phases'
    BY <1>t, <2>1 DEF OnTheWay, HeldInBatch, Phases
  <2> QED
    BY <2>2, <2>3, <2>4 DEF PipelineInv
<1>3. ASSUME NEW d \in Drainers, Claim(d) PROVE PipelineInv'
  <2>1. PICK S \in Claims(d) : /\ batch' = [batch EXCEPT ![d] = S]
                               /\ claimed' = [claimed EXCEPT ![d] = Cardinality(S)]
    BY <1>3 DEF Claim
  <2>2. /\ run[d] = "idle" /\ run' = [run EXCEPT ![d] = "batch"]
        /\ UNCHANGED <<mode, emb, vec, cleared, rejects, hold, faults, meta, engine, migr>>
    BY <1>3 DEF Claim, metaVars
  <2>3. S \in SUBSET ChunkIds /\ Cardinality(S) \in 0 .. BatchSize
    BY ClaimFits
  <2>4. PipeTypeOK'
    <3>1. /\ batch' \in [Drainers -> SUBSET ChunkIds] /\ claimed' \in [Drainers -> 0 .. BatchSize]
          /\ run' \in [Drainers -> {"off", "idle", "batch"}]
      BY <1>t, <2>1, <2>2, <2>3 DEF PipeTypeOK
    <3> QED
      BY <1>t, <2>2, <3>1 DEF PipeTypeOK
  <2>5. batch[d] = {} /\ \A z \in Drainers \ {d} : batch'[z] = batch[z] /\ run'[z] = run[z]
    BY <1>t, <2>1, <2>2 DEF PipeTypeOK, HeldInBatch
  <2>6. OnTheWay'
    BY <1>t, <2>2, <2>5 DEF OnTheWay
  <2>7. HeldInBatch'
    BY <1>t, <2>2, <2>5 DEF HeldInBatch, PipeTypeOK
  <2>8. Phases'
    <3>1. mode # "boot" /\ (d = "project" => migr.step # "creating")
      BY <1>t, <2>2 DEF Phases
    <3> QED
      BY <1>t, <2>2, <2>5, <3>1, VectorFacts DEF Phases
  <2>9. InTheTable'
    BY <1>t, <2>2 DEF InTheTable
  <2> QED
    BY <2>4, <2>6, <2>7, <2>8, <2>9 DEF PipelineInv
<1>4. ASSUME NEW d \in Drainers, NEW c \in ChunkIds, EmbedChunk(d, c) PROVE PipelineInv'
  <2>1. /\ c \in batch[d]
        /\ UNCHANGED <<mode, emb, run, claimed, cleared, rejects, hold, meta, engine, migr>>
    BY <1>4 DEF EmbedChunk, metaVars
  <2>2. faults' \in 0 .. MaxFaults
    BY <1>4, FaultType DEF EmbedChunk, Failing
  <2>3. /\ vec' \in [Drainers -> [ChunkIds -> {NullVector} \cup Vectors]]
        /\ batch' \in [Drainers -> SUBSET ChunkIds]
        /\ OnTheWay' /\ HeldInBatch'
    <3>1. CASE Drop(d, c)
      BY <2>1, <3>1, DropMove
    <3>2. CASE vec' = [vec EXCEPT ![d][c] = VectorOf(d)] /\ UNCHANGED batch
      <4>1. vec' \in [Drainers -> [ChunkIds -> {NullVector} \cup Vectors]] /\ OnTheWay'
        BY <2>1, <3>2, GainMove, VectorFacts
      <4> QED
        BY <1>t, <2>1, <3>2, <4>1 DEF PipeTypeOK, HeldInBatch
    <3> QED
      BY <1>4, <3>1, <3>2 DEF EmbedChunk
  <2>4. PipeTypeOK' /\ InTheTable' /\ Phases'
    BY <1>t, <2>1, <2>2, <2>3 DEF PipeTypeOK, InTheTable, Phases
  <2> QED
    BY <2>3, <2>4 DEF PipelineInv
<1>5. ASSUME NEW d \in Drainers, NEW c \in ChunkIds, EmbedValidated(d, c) PROVE PipelineInv'
  <2>1. /\ c \in batch[d]
        /\ UNCHANGED <<mode, emb, run, claimed, cleared, meta, engine, migr>>
    BY <1>5 DEF EmbedValidated, metaVars
  <2>2. faults' \in 0 .. MaxFaults
    BY <1>5, FaultType DEF EmbedValidated, Failing
  <2>3. rejects' \in 0 .. RejectLimit /\ hold' \in BOOLEAN
    <3>1. CASE UNCHANGED <<rejects, hold>>
      BY <1>t, <3>1 DEF PipeTypeOK
    <3>2. CASE rejects' = 0 /\ UNCHANGED hold
      BY <1>t, <3>2, PipelineAssumption DEF PipeTypeOK
    <3>3. CASE rejects + 1 < RejectLimit /\ rejects' = rejects + 1 /\ UNCHANGED hold
      BY <1>t, <3>3, PipelineAssumption DEF PipeTypeOK
    <3>4. CASE rejects' = RejectLimit /\ hold' = TRUE
      BY <3>4, PipelineAssumption
    <3> QED
      BY <1>5, <3>1, <3>2, <3>3, <3>4 DEF EmbedValidated
  <2>4. /\ vec' \in [Drainers -> [ChunkIds -> {NullVector} \cup Vectors]]
        /\ batch' \in [Drainers -> SUBSET ChunkIds]
        /\ OnTheWay' /\ HeldInBatch'
    <3>1. CASE Drop(d, c)
      BY <2>1, <3>1, DropMove
    <3>2. CASE vec' = [vec EXCEPT ![d][c] = [model |-> Canonical, by |-> d]] /\ UNCHANGED batch
      <4>1. vec' = [vec EXCEPT ![d][c] = VectorOf(d)]
        BY <3>2 DEF VectorOf
      <4>2. vec' \in [Drainers -> [ChunkIds -> {NullVector} \cup Vectors]] /\ OnTheWay'
        BY <2>1, <3>2, <4>1, GainMove, VectorFacts
      <4> QED
        BY <1>t, <2>1, <3>2, <4>2 DEF PipeTypeOK, HeldInBatch
    <3> QED
      BY <1>5, <3>1, <3>2 DEF EmbedValidated
  <2>5. PipeTypeOK' /\ InTheTable' /\ Phases'
    BY <1>t, <2>1, <2>2, <2>3, <2>4 DEF PipeTypeOK, InTheTable, Phases
  <2> QED
    BY <2>4, <2>5 DEF PipelineInv
<1>6. ASSUME NEW d \in Drainers, EmbedSlice(d) PROVE PipelineInv'
  <2>1. /\ batch[d] # {} /\ vec[d] = NoVectors
        /\ UNCHANGED <<mode, emb, run, claimed, cleared, rejects, hold, meta, engine, migr>>
    BY <1>6 DEF EmbedSlice, metaVars
  <2>2. faults' \in 0 .. MaxFaults
    BY <1>6, FaultType DEF EmbedSlice
  <2>3. CASE batch' = [batch EXCEPT ![d] = {}] /\ UNCHANGED vec
    <3>1. /\ batch' \in [Drainers -> SUBSET ChunkIds] /\ batch'[d] = {}
          /\ \A z \in Drainers \ {d} : batch'[z] = batch[z]
      BY <1>t, <2>3 DEF PipeTypeOK
    <3>2. PipeTypeOK' /\ InTheTable' /\ Phases'
      BY <1>t, <2>1, <2>2, <2>3, <3>1 DEF PipeTypeOK, InTheTable, Phases
    <3>3. \A c \in ChunkIds : vec[d][c] = NullVector
      BY <2>1 DEF NoVectors
    <3>4. OnTheWay' /\ HeldInBatch'
      BY <1>t, <2>1, <2>3, <3>1, <3>3 DEF OnTheWay, HeldInBatch
    <3> QED
      BY <3>2, <3>4 DEF PipelineInv
  <2>4. CASE /\ vec' = [vec EXCEPT ![d] =
                          [c \in ChunkIds |-> IF c \in batch[d] THEN VectorOf(d) ELSE NullVector]]
             /\ UNCHANGED batch
    <3>1. PICK w : w = [c \in ChunkIds |-> IF c \in batch[d] THEN VectorOf(d) ELSE NullVector]
      OBVIOUS
    <3>2. w \in [ChunkIds -> {NullVector} \cup Vectors]
      BY <3>1, VectorFacts
    <3>3. /\ vec' \in [Drainers -> [ChunkIds -> {NullVector} \cup Vectors]] /\ vec'[d] = w
          /\ \A z \in Drainers \ {d} : vec'[z] = vec[z]
      BY <1>t, <2>4, <3>1, <3>2 DEF PipeTypeOK
    <3>4. \A c \in ChunkIds : w[c] # NullVector => c \in batch[d] /\ w[c].model = Canonical
      BY <3>1, VectorFacts
    <3>5. OnTheWay' /\ HeldInBatch'
      BY <1>t, <2>1, <2>4, <3>3, <3>4 DEF OnTheWay, HeldInBatch
    <3>6. PipeTypeOK' /\ InTheTable' /\ Phases'
      BY <1>t, <2>1, <2>2, <2>4, <3>3 DEF PipeTypeOK, InTheTable, Phases
    <3> QED
      BY <3>5, <3>6 DEF PipelineInv
  <2> QED
    BY <1>6, <2>3, <2>4 DEF EmbedSlice
<1>7. ASSUME NEW d \in Drainers, NEW c \in ChunkIds, Write(d, c) PROVE PipelineInv'
  <2>1. /\ vec[d][c] # NullVector /\ Drop(d, c)
        /\ UNCHANGED <<mode, run, claimed, cleared, rejects, hold, meta, engine, migr>>
    BY <1>7 DEF Write, metaVars
  <2>2. faults' \in 0 .. MaxFaults
    BY <1>7, FaultType DEF Write
  <2>3. /\ vec' \in [Drainers -> [ChunkIds -> {NullVector} \cup Vectors]]
        /\ batch' \in [Drainers -> SUBSET ChunkIds]
        /\ OnTheWay' /\ HeldInBatch'
    BY <2>1, DropMove
  <2>4. vec[d][c] \in Vectors /\ vec[d][c].model = Canonical
    BY <1>t, <2>1 DEF PipeTypeOK, OnTheWay
  <2>5. emb' \in [ChunkIds -> {NoChunk, NullVector} \cup Vectors] /\ InTheTable'
    <3>1. CASE UNCHANGED emb
      BY <1>t, <3>1 DEF PipeTypeOK, InTheTable
    <3>2. CASE emb' = [emb EXCEPT ![c] = IF @ = NullVector THEN vec[d][c] ELSE @]
      <4>1. PICK v : v = IF emb[c] = NullVector THEN vec[d][c] ELSE emb[c]
        OBVIOUS
      <4>2. /\ v \in {NoChunk, NullVector} \cup Vectors
            /\ v \in {NoChunk, NullVector} \/ v.model = Canonical
        BY <1>t, <2>4, <4>1 DEF PipeTypeOK, InTheTable
      <4>3. emb' = [emb EXCEPT ![c] = v]
        BY <3>2, <4>1 DEF PipeTypeOK
      <4> QED
        BY <1>t, <4>2, <4>3 DEF PipeTypeOK, InTheTable
    <3> QED
      BY <1>7, <3>1, <3>2 DEF Write
  <2>6. PipeTypeOK' /\ Phases'
    BY <1>t, <2>1, <2>2, <2>3, <2>5 DEF PipeTypeOK, Phases
  <2> QED
    BY <2>3, <2>5, <2>6 DEF PipelineInv
<1>8. ASSUME NEW d \in Drainers, EndBatch(d) PROVE PipelineInv'
  <2>1. /\ run[d] = "batch" /\ batch[d] = {} /\ run' = [run EXCEPT ![d] = "idle"]
        /\ claimed' = [claimed EXCEPT ![d] = 0]
        /\ UNCHANGED <<mode, emb, batch, vec, rejects, hold, engine, migr>>
    BY <1>8 DEF EndBatch
  <2>2. faults' \in 0 .. MaxFaults
    BY <1>8, FaultType DEF EndBatch
  <2>3. /\ cleared' \in BOOLEAN
        /\ meta' \in [name : Models \cup {NullVector}, migrating : BOOLEAN]
    <3>1. CASE UNCHANGED meta /\ (cleared' = TRUE \/ UNCHANGED cleared)
      BY <1>t, <3>1 DEF PipeTypeOK
    <3>2. CASE meta' = [meta EXCEPT !.migrating = FALSE] /\ cleared' = TRUE
      BY <1>t, <3>2 DEF PipeTypeOK
    <3> QED
      BY <1>8, <3>1, <3>2 DEF EndBatch
  <2>4. /\ run' \in [Drainers -> {"off", "idle", "batch"}] /\ claimed' \in [Drainers -> 0 .. BatchSize]
        /\ run'[d] = "idle" /\ \A z \in Drainers \ {d} : run'[z] = run[z]
    BY <1>t, <2>1, PipelineAssumption DEF PipeTypeOK
  <2>5. PipeTypeOK' /\ InTheTable' /\ OnTheWay'
    BY <1>t, <2>1, <2>2, <2>3, <2>4 DEF PipeTypeOK, InTheTable, OnTheWay
  <2>6. HeldInBatch'
    BY <1>t, <2>1, <2>4 DEF HeldInBatch
  <2>7. Phases'
    <3>1. mode # "boot" /\ (d = "project" => migr.step # "creating")
      BY <1>t, <2>1 DEF Phases
    <3> QED
      BY <1>t, <2>1, <2>4, <3>1, VectorFacts DEF Phases
  <2> QED
    BY <2>5, <2>6, <2>7 DEF PipelineInv
<1>9. CASE HoldExpires
  <2>1. /\ hold' = FALSE
        /\ UNCHANGED <<mode, emb, run, batch, vec, claimed, cleared, rejects, faults, meta, engine, migr>>
    BY <1>9 DEF HoldExpires, metaVars
  <2> QED
    BY <1>t, <2>1 DEF PipelineInv, PipeTypeOK, OnTheWay, InTheTable, HeldInBatch, Phases
<1>10. ASSUME NEW m \in Models, MigrateCommit(m) PROVE PipelineInv'
  <2>1. /\ mode # "boot"
        /\ emb' = [c \in ChunkIds |-> IF emb[c] = NoChunk THEN NoChunk ELSE NullVector]
        /\ meta' = [name |-> m, migrating |-> TRUE]
        /\ migr' = [step |-> "committed", to |-> m, count |-> migr.count + 1]
        /\ migr.count < MaxMigrations
        /\ UNCHANGED <<mode, run, batch, vec, claimed, cleared, rejects, hold, faults, engine>>
    BY <1>10 DEF MigrateCommit, drainVars
  <2>2. migr.count + 1 \in 0 .. MaxMigrations
    BY <1>t, <2>1, PipelineAssumption DEF PipeTypeOK
  <2>3. /\ meta' \in [name : Models \cup {NullVector}, migrating : BOOLEAN]
        /\ migr' \in [step : {"idle", "committed", "stopping", "creating"}, to : Models,
                      count : 0 .. MaxMigrations]
        /\ migr'.step = "committed"
    BY <2>1, <2>2
  <2>4. emb' \in [ChunkIds -> {NoChunk, NullVector} \cup Vectors] /\ InTheTable'
    BY <2>1 DEF InTheTable
  <2>5. PipeTypeOK'
    BY <1>t, <2>1, <2>3, <2>4 DEF PipeTypeOK
  <2>6. OnTheWay' /\ HeldInBatch' /\ Phases'
    BY <1>t, <2>1, <2>3 DEF OnTheWay, HeldInBatch, Phases
  <2> QED
    BY <2>4, <2>5, <2>6 DEF PipelineInv
<1>11. CASE MigrateNotify
  <2>1. PICK step \in {"idle", "stopping"} : migr' = [migr EXCEPT !.step = step]
    BY <1>11 DEF MigrateNotify
  <2>2. /\ migr.step = "committed"
        /\ UNCHANGED <<mode, emb, run, batch, vec, claimed, cleared, rejects, hold, faults, meta, engine>>
    BY <1>11 DEF MigrateNotify, drainVars
  <2>3. /\ migr' \in [step : {"idle", "committed", "stopping", "creating"}, to : Models,
                      count : 0 .. MaxMigrations]
        /\ migr'.step = step
    BY <1>t, <2>1 DEF PipeTypeOK
  <2> QED
    BY <1>t, <2>2, <2>3 DEF PipelineInv, PipeTypeOK, OnTheWay, InTheTable, HeldInBatch, Phases
<1>12. CASE MigrateStop
  <2>1. /\ migr.step = "stopping" /\ run' = [run EXCEPT !["project"] = "off"]
        /\ batch' = [batch EXCEPT !["project"] = {}]
        /\ vec' = [vec EXCEPT !["project"] = NoVectors]
        /\ claimed' = [claimed EXCEPT !["project"] = 0]
        /\ migr' = [migr EXCEPT !.step = "creating"]
        /\ UNCHANGED <<mode, emb, cleared, rejects, hold, faults, meta, engine>>
    BY <1>12 DEF MigrateStop
  <2>2. /\ migr' \in [step : {"idle", "committed", "stopping", "creating"}, to : Models,
                      count : 0 .. MaxMigrations]
        /\ migr'.step = "creating" /\ mode # "boot"
    BY <1>t, <2>1 DEF PipeTypeOK, Phases
  <2>3. /\ run' \in [Drainers -> {"off", "idle", "batch"}] /\ run'["project"] = "off"
        /\ batch' \in [Drainers -> SUBSET ChunkIds] /\ batch'["project"] = {}
        /\ claimed' \in [Drainers -> 0 .. BatchSize]
        /\ \A z \in Drainers \ {"project"} : batch'[z] = batch[z] /\ run'[z] = run[z]
    BY <1>t, <2>1, VectorFacts, PipelineAssumption DEF PipeTypeOK
  <2>4. /\ vec' \in [Drainers -> [ChunkIds -> {NullVector} \cup Vectors]] /\ vec'["project"] = NoVectors
        /\ \A z \in Drainers \ {"project"} : vec'[z] = vec[z]
    BY <1>t, <2>1, VectorFacts DEF PipeTypeOK
  <2>5. PipeTypeOK' /\ InTheTable' /\ Phases'
    BY <1>t, <2>1, <2>2, <2>3, <2>4 DEF PipeTypeOK, InTheTable, Phases
  <2>6. OnTheWay'
    BY <1>t, <2>3, <2>4 DEF OnTheWay, NoVectors
  <2>7. HeldInBatch'
    BY <1>t, <2>3 DEF HeldInBatch
  <2> QED
    BY <2>5, <2>6, <2>7 DEF PipelineInv
<1>13. CASE MigrateCreate
  <2>1. /\ migr.step = "creating" /\ migr' = [migr EXCEPT !.step = "idle"]
        /\ UNCHANGED <<mode, emb, batch, vec, claimed, rejects, hold, faults, meta>>
    BY <1>13 DEF MigrateCreate
  <2>2. /\ migr' \in [step : {"idle", "committed", "stopping", "creating"}, to : Models,
                      count : 0 .. MaxMigrations]
        /\ migr'.step = "idle" /\ mode # "boot" /\ migr.to \in Models
    BY <1>t, <2>1 DEF PipeTypeOK, Phases
  <2>3. batch["project"] = {}
    BY <1>t, <2>1, VectorFacts DEF Phases, HeldInBatch
  <2>4. /\ run' \in [Drainers -> {"off", "idle", "batch"}] /\ cleared' \in BOOLEAN
        /\ engine' \in Models /\ \A z \in Drainers \ {"project"} : run'[z] = run[z]
    BY <1>13, <1>t, <2>2, VectorFacts DEF MigrateCreate, PipeTypeOK
  <2>5. PipeTypeOK' /\ InTheTable' /\ OnTheWay' /\ Phases'
    BY <1>t, <2>1, <2>2, <2>4 DEF PipeTypeOK, InTheTable, OnTheWay, Phases
  <2>6. HeldInBatch'
    BY <1>t, <2>1, <2>3, <2>4 DEF HeldInBatch
  <2> QED
    BY <2>5, <2>6 DEF PipelineInv
<1>14. CASE UNCHANGED pipeVars
  BY <1>t, <1>14 DEF pipeVars, PipelineInv, PipeTypeOK, OnTheWay, InTheTable, HeldInBatch, Phases
<1> QED
  BY <1>1, <1>2, <1>3, <1>4, <1>5, <1>6, <1>7, <1>8, <1>9, <1>10, <1>11, <1>12, <1>13, <1>14
     DEF PipelineNext, DrainerStep, MigrationStep

\* A step that changes a vector in the table is a migration that clears it.
LEMMA VectorStep ==
    ASSUME PipelineInv, [PipelineNext]_pipeVars, NEW c \in ChunkIds,
           emb[c] \notin {NoChunk, NullVector}, emb'[c] # emb[c]
    PROVE  emb'[c] = NullVector /\ meta' # meta
<1>t. emb \in [ChunkIds -> {NoChunk, NullVector} \cup Vectors]
  BY DEF PipelineInv, PipeTypeOK
<1>1. ~(UNCHANGED emb)
  OBVIOUS
<1>2. ASSUME NEW x \in ChunkIds, StoreChunk(x) PROVE FALSE
  BY <1>t, <1>2 DEF StoreChunk
<1>3. ASSUME NEW d \in Drainers, NEW x \in ChunkIds, Write(d, x) PROVE FALSE
  BY <1>t, <1>3 DEF Write
<1>4. ASSUME NEW m \in Models, MigrateCommit(m) PROVE emb'[c] = NullVector /\ meta' # meta
  BY <1>4 DEF MigrateCommit
<1> QED
  BY <1>1, <1>2, <1>3, <1>4 DEF PipelineNext, DrainerStep, MigrationStep, Boot, Claim, EndBatch,
        EmbedSlice, EmbedChunk, EmbedValidated, HoldExpires, MigrateNotify, MigrateStop,
        MigrateCreate, pipeVars

(* For every set of chunks, models, batch size and number of faults: what       *)
(* reaches the table is of the canonical model, a stopped worker holds nothing  *)
(* back, and only a migration takes a vector out of the table again.            *)
THEOREM PipelineKeepsVectors == PipelineSpec => VectorsSound
<1>1. PipelineInv => PipelineTypeOK /\ OnlyValidatedVectors /\ StoppedWorkerEmpty
  <2> SUFFICES ASSUME PipelineInv PROVE PipelineTypeOK /\ OnlyValidatedVectors /\ StoppedWorkerEmpty
    OBVIOUS
  <2>1. PipelineTypeOK
    BY DEF PipelineInv, PipeTypeOK, OnTheWay, PipelineTypeOK
  <2>2. OnlyValidatedVectors
    BY DEF PipelineInv, OnTheWay, InTheTable, OnlyValidatedVectors, Drainers
  <2>3. StoppedWorkerEmpty
    <3>1. SUFFICES ASSUME run["project"] = "off"
                   PROVE  batch["project"] = {} /\ vec["project"] = NoVectors
      BY DEF StoppedWorkerEmpty
    <3>2. batch["project"] = {}
      BY <3>1, VectorFacts DEF PipelineInv, HeldInBatch
    <3>3. vec["project"] \in [ChunkIds -> {NullVector} \cup Vectors]
      BY VectorFacts DEF PipelineInv, PipeTypeOK
    <3>4. \A c \in ChunkIds : vec["project"][c] = NullVector
      BY <3>2, VectorFacts DEF PipelineInv, OnTheWay
    <3> QED
      BY <3>2, <3>3, <3>4 DEF NoVectors
  <2> QED
    BY <2>1, <2>2, <2>3
<1>2. PipelineSpec => []PipelineInv
  BY PipelineInitInv, PipelineNextInv, PTL DEF PipelineSpec
<1>3. PipelineInv /\ [PipelineNext]_pipeVars =>
        [\A c \in ChunkIds :
           emb[c] \notin {NoChunk, NullVector} /\ emb'[c] # emb[c]
             => emb'[c] = NullVector /\ meta' # meta]_pipeVars
  BY VectorStep
<1> QED
  BY <1>1, <1>2, <1>3, PTL DEF PipelineSpec, VectorsSound, VectorWrittenOnce

-----------------------------------------------------------------------------
(* The per-project worker.                                                 *)

Inside(c) == wpc[c] \in {"starting", "closing"}

(* The Once lets one caller in, which either starts the goroutine or closes     *)
(* done; a goroutine that runs is the only one left to close it.                *)
WorkerInv ==
    /\ wpc \in [WorkerCallers -> {"new", "once", "starting", "closing", "send", "cancel",
                                  "await", "done"}]
    /\ once \in {"unused", "busy", "done"} /\ closes \in {0, 1}
    /\ goroutine \in {"none", "batch", "waiting", "exited"}
    /\ once # "busy" => \A c \in WorkerCallers : ~Inside(c)
    /\ once # "done" => goroutine = "none" /\ closes = 0
    /\ \A c, d \in WorkerCallers : Inside(c) /\ Inside(d) => c = d
    /\ goroutine \in {"batch", "waiting"} => closes = 0

LEMMA WorkerInitInv == WorkerInit => WorkerInv
BY DEF WorkerInit, WorkerInv, Inside

\* A caller moves between places outside the Once.
LEMMA CallerMove ==
    ASSUME WorkerInv, NEW c \in WorkerCallers,
           NEW to \in {"once", "send", "cancel", "await", "done"},
           wpc' = [wpc EXCEPT ![c] = to], UNCHANGED <<once, closes, goroutine>>
    PROVE  WorkerInv'
<1>1. wpc'[c] = to /\ \A d \in WorkerCallers \ {c} : wpc'[d] = wpc[d]
  BY DEF WorkerInv
<1>2. \A d \in WorkerCallers : Inside(d)' => Inside(d) /\ d # c
  BY <1>1 DEF Inside
<1>3. wpc' \in [WorkerCallers -> {"new", "once", "starting", "closing", "send", "cancel",
                                  "await", "done"}]
  BY DEF WorkerInv
<1> QED
  BY <1>2, <1>3 DEF WorkerInv

\* The caller inside the Once leaves it.
LEMMA OnceMove ==
    ASSUME WorkerInv, NEW c \in WorkerCallers, Inside(c), NEW to \in {"send", "done"},
           wpc' = [wpc EXCEPT ![c] = to], once' = "done",
           \/ goroutine' = "batch" /\ UNCHANGED closes
           \/ closes' = closes + 1 /\ UNCHANGED goroutine
    PROVE  WorkerInv'
<1>1. wpc'[c] = to /\ \A d \in WorkerCallers \ {c} : wpc'[d] = wpc[d]
  BY DEF WorkerInv
<1>2. \A d \in WorkerCallers : ~Inside(d)'
  BY <1>1 DEF Inside, WorkerInv
<1>3. wpc' \in [WorkerCallers -> {"new", "once", "starting", "closing", "send", "cancel",
                                  "await", "done"}]
  BY DEF WorkerInv
<1>4. once = "busy" /\ goroutine = "none" /\ closes = 0
  BY DEF WorkerInv
<1> QED
  BY <1>2, <1>3, <1>4 DEF WorkerInv

LEMMA WorkerNextInv == WorkerInv /\ [WorkerNext]_workerVars => WorkerInv'
<1> SUFFICES ASSUME WorkerInv, [WorkerNext]_workerVars PROVE WorkerInv'
  OBVIOUS
<1>1. CASE StartWithContext
  <2>1. PICK to \in {"once", "done"} : wpc' = [wpc EXCEPT ![Starter] = to]
    BY <1>1 DEF StartWithContext
  <2>2. Starter \in WorkerCallers /\ UNCHANGED <<once, closes, goroutine>>
    BY <1>1 DEF StartWithContext, WorkerCallers
  <2> QED
    BY <2>1, <2>2, CallerMove
<1>2. ASSUME NEW c \in WorkerCallers, Notify(c) \/ SendToken(c) \/ StopRead(c) \/ StopCancel(c) \/ StopAwait(c)
      PROVE  WorkerInv'
  <2>1. PICK to \in {"once", "send", "cancel", "await", "done"} : wpc' = [wpc EXCEPT ![c] = to]
    BY <1>2 DEF Notify, SendToken, StopRead, StopCancel, StopAwait, At
  <2>2. UNCHANGED <<once, closes, goroutine>>
    BY <1>2 DEF Notify, SendToken, StopRead, StopCancel, StopAwait
  <2> QED
    BY <2>1, <2>2, CallerMove
<1>3. ASSUME NEW c \in WorkerCallers, EnterOnce(c) PROVE WorkerInv'
  <2>1. CASE once = "unused"
    <3>1. PICK to \in {"starting", "closing"} : wpc' = [wpc EXCEPT ![c] = to]
      BY <1>3, <2>1 DEF EnterOnce
    <3>2. once' = "busy" /\ UNCHANGED <<closes, goroutine>>
      BY <1>3, <2>1 DEF EnterOnce
    <3>3. wpc' \in [WorkerCallers -> {"new", "once", "starting", "closing", "send", "cancel",
                                      "await", "done"}]
      BY <3>1 DEF WorkerInv
    <3>4. \A d \in WorkerCallers : Inside(d)' => d = c
      BY <2>1, <3>1 DEF Inside, WorkerInv
    <3> QED
      BY <2>1, <3>2, <3>3, <3>4 DEF WorkerInv
  <2>2. CASE once # "unused"
    <3>1. PICK to \in {"send", "done"} : wpc' = [wpc EXCEPT ![c] = to]
      BY <1>3, <2>2 DEF EnterOnce, AfterOnce
    <3>2. UNCHANGED <<once, closes, goroutine>>
      BY <1>3, <2>2 DEF EnterOnce
    <3> QED
      BY <3>1, <3>2, CallerMove
  <2> QED
    BY <2>1, <2>2
<1>4. ASSUME NEW c \in WorkerCallers, StartLoop(c) \/ CloseDone(c) PROVE WorkerInv'
  <2>1. PICK to \in {"send", "done"} : wpc' = [wpc EXCEPT ![c] = to]
    BY <1>4 DEF StartLoop, CloseDone, At, AfterOnce
  <2>2. /\ Inside(c) /\ once' = "done"
        /\ \/ goroutine' = "batch" /\ UNCHANGED closes
           \/ closes' = closes + 1 /\ UNCHANGED goroutine
    BY <1>4 DEF StartLoop, CloseDone, At, Inside
  <2> QED
    BY <2>1, <2>2, OnceMove
<1>5. CASE BatchEnds \/ LoopWakes
  <2>1. /\ goroutine \in {"batch", "waiting"} /\ UNCHANGED <<once, wpc>>
        /\ \/ goroutine' = "exited" /\ closes' = closes + 1
           \/ goroutine' \in {"batch", "waiting"} /\ UNCHANGED closes
    BY <1>5 DEF BatchEnds, LoopWakes
  <2>2. once = "done" /\ closes = 0
    BY <2>1 DEF WorkerInv
  <2>3. \A d \in WorkerCallers : Inside(d)' <=> Inside(d)
    BY <2>1 DEF Inside
  <2> QED
    BY <2>1, <2>2, <2>3 DEF WorkerInv
<1>6. CASE UNCHANGED workerVars
  BY <1>6 DEF workerVars, WorkerInv, Inside
<1> QED
  BY <1>1, <1>2, <1>3, <1>4, <1>5, <1>6 DEF WorkerNext, CallerStep

(* For every number of callers of Notify and Stop: done is closed at most once, *)
(* and once it is closed no goroutine runs or is about to be started.           *)
THEOREM WorkerClosesOnce == WorkerSpec => [](DoneIsFinal /\ closes =< 1)
<1>1. WorkerInv => DoneIsFinal /\ closes =< 1
  BY DEF WorkerInv, DoneIsFinal, Inside
<1>2. WorkerSpec => []WorkerInv
  BY WorkerInitInv, WorkerNextInv, PTL DEF WorkerSpec
<1> QED
  BY <1>1, <1>2, PTL

-----------------------------------------------------------------------------
(* The drain loops.                                                        *)

Waits == MinIdle .. MaxIdle

LEMMA DoubledInRange ==
    ASSUME NEW b \in Waits
    PROVE  Doubled(b) \in Waits
<1>1. \E x \in {2 * b, MaxIdle} : \A y \in {2 * b, MaxIdle} : x =< y
  BY DrainLoopsAssumption DEF Waits
<1>2. Doubled(b) \in {2 * b, MaxIdle} /\ Doubled(b) =< MaxIdle
  BY <1>1, DrainLoopsAssumption DEF Doubled, Min, Waits
<1> QED
  BY <1>2, DrainLoopsAssumption DEF Waits

LEMMA LongerInRange ==
    ASSUME NEW b \in Waits
    PROVE  Max({b, MinIdle}) = b
<1>1. b \in Nat /\ MinIdle \in Nat /\ MinIdle =< b
  BY DrainLoopsAssumption DEF Waits
<1> QED
  BY <1>1 DEF Max

\* A task of the Rust pool that is about to store a wait has one in range, although
\* other tasks have changed the shared one since it was loaded.
LoadedInRange ==
    /\ DOMAIN rust = RustWorkers
    /\ \A w \in RustWorkers : rust[w].at \in {"grow", "impose"} => rust[w].wait \in Waits

LoopInv == idle \in Waits /\ LoadedInRange

LEMMA LoopStepKeeps == LoopInv /\ [LoopNext]_loopVars => LoopInv'
<1> SUFFICES ASSUME LoopInv, [LoopNext]_loopVars PROVE LoopInv'
  OBVIOUS
<1> USE DEF LoopInv
<1>1. MinIdle \in Waits /\ Doubled(idle) \in Waits /\ Max({idle, MinIdle}) \in Waits
  BY DoubledInRange, LongerInRange, DrainLoopsAssumption DEF Waits
<1>2. CASE ChunkArrives \/ NotifyEmbedQueue \/ EndRequested
  BY <1>2 DEF ChunkArrives, NotifyEmbedQueue, EndRequested, LoadedInRange
<1>3. CASE GatewaySteps \/ GlobalSteps
  BY <1>1, <1>3 DEF GatewaySteps, GlobalSteps, GatewayDrain, AcquireListener, Listen, Notified,
     WaitExpires, GlobalBatch, GlobalIdle, LoadedInRange
<1>4. CASE StartupProbe \/ StartPool
  BY <1>4 DEF StartupProbe, StartPool, LoadedInRange
<1>5. ASSUME NEW w \in RustWorkers, RustTop(w) \/ RustSleep(w)
      PROVE  LoopInv'
  BY <1>5 DEF RustTop, RustSleep, RustMoves, LoadedInRange
<1>6. ASSUME NEW w \in RustWorkers, RustSlice(w)
      PROVE  LoopInv'
  BY <1>1, <1>6 DEF RustSlice, RustMoves, NextBackoff, LoadedInRange
<1>7. ASSUME NEW w \in RustWorkers, RustGrow(w) \/ RustImpose(w)
      PROVE  LoopInv'
  BY <1>7, DoubledInRange DEF RustGrow, RustImpose, RustAt, RustMoves, LoadedInRange
<1>8. CASE UNCHANGED loopVars
  BY <1>8 DEF loopVars, LoadedInRange
<1> QED
  BY <1>2, <1>3, <1>4, <1>5, <1>6, <1>7, <1>8 DEF LoopNext, RustSteps

(* For every number of tasks, batch size and bound on the waits: whatever loads, *)
(* exchanges and stores of the shared backoff interleave, and in the two Go      *)
(* loops, the wait stays between the shortest and the longest.                   *)
THEOREM WaitsBounded == LoopSpec => []WaitInRange
<1>1. LoopInit => LoopInv
  BY DrainLoopsAssumption DEF LoopInit, LoopInv, LoadedInRange, Waits
<1>2. LoopInv => WaitInRange
  BY DEF LoopInv, WaitInRange, Waits
<1> QED
  BY <1>1, <1>2, LoopStepKeeps, PTL DEF LoopSpec
=============================================================================
