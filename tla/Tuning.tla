------------------------------ MODULE Tuning ------------------------------
(***************************************************************************)
(* The weight tuner (internal/weight) and the per-process weight cache     *)
(* (search.WeightCache).  Several servers share one database; a pass holds *)
(* a session-scoped advisory lock, reads the cooldown, the failure classes *)
(* of the last 30 days and the current weights, and applies a bounded,     *)
(* renormalised step in one transaction.  Weights are thousandths, and     *)
(* the redistribution rounds towards zero: where the code demands a sum    *)
(* within 1e-9, a rounding error of one per weight is allowed.             *)
(***************************************************************************)
EXTENDS Integers, FiniteSets

CONSTANTS Servers,
          FailureClasses,   \* failure_class values reported in feedback
          MinEvents,        \* minEventsBeforeTuning
          Cooldown,         \* tuningCooldownDays
          MaxReports, MaxTunings, MaxTunerFaults

ASSUME TuningAssumption == {MinEvents, MaxReports, MaxTunings, MaxTunerFaults} \subseteq Nat
                           /\ Cooldown \in Nat \ {0} /\ "free" \notin Servers

Signals == {"vector", "bm25", "recency", "precision"}
DefaultWeights == [vector |-> 450, bm25 |-> 300, recency |-> 100, precision |-> 150]
WMin == [vector |-> 300, bm25 |-> 150, recency |-> 50, precision |-> 50]
WMax == [vector |-> 650, bm25 |-> 450, recency |-> 200, precision |-> 250]

VARIABLES config,       \* weight_config, the defaults when there is no row
          tunings,      \* rows of weight_history
          age,          \* days since the newest weight_history row
          tooSoon,      \* a history row was added inside the cooldown
          failures,     \* classified events of the window, per class
          lock,         \* the server whose session holds the advisory lock
          tuner,        \* local state of each server's pass
          cached,       \* the WeightCache entry of one of the servers
          changed,      \* the configuration changed since the day began
          tunerFaults

tunVars == <<config, tunings, age, tooSoon, failures, lock, tuner, cached, changed, tunerFaults>>

Resting == [pc |-> "idle", proposed |-> DefaultWeights]
NoEntry == [fresh |-> FALSE, weights |-> DefaultWeights, failed |-> FALSE]

TuningInit ==
    /\ config = DefaultWeights /\ tunings = 0 /\ age = Cooldown /\ tooSoon = FALSE
    /\ failures = [k \in FailureClasses |-> 0]
    /\ lock = "free" /\ tuner = [s \in Servers |-> Resting]
    /\ cached = NoEntry
    /\ changed = FALSE /\ tunerFaults = 0
-----------------------------------------------------------------------------
Total(w) == w.vector + w.bm25 + w.recency + w.precision

Clamp(w) == [k \in Signals |-> IF w[k] < WMin[k] THEN WMin[k]
                               ELSE IF w[k] > WMax[k] THEN WMax[k] ELSE w[k]]

(* computeDelta: which way a dominant class moves the weights. *)
ComputeDelta ==
    [class \in {"stale_ranking", "vocabulary_mismatch", "scope_mismatch"} |->
        CASE class = "stale_ranking" ->
                 [vector |-> -50, bm25 |-> 0, recency |-> 50, precision |-> 0]
          [] class = "vocabulary_mismatch" ->
                 [vector |-> 50, bm25 |-> -50, recency |-> 0, precision |-> 0]
          [] class = "scope_mismatch" ->
                 [vector |-> 0, bm25 |-> -30, recency |-> 0, precision |-> 30]]

Share(r, s, t) == IF r >= 0 THEN (r * s) \div t ELSE -(((-r) * s) \div t)

(* normalizeWeights: clamp, then spread what is missing or left over in        *)
(* proportion to the room each weight has towards its bound.                   *)
NormalizeWeights(w) ==
    LET c == Clamp(w)
        r == 1000 - Total(c)
        slack == [k \in Signals |-> IF r > 0 THEN WMax[k] - c[k] ELSE c[k] - WMin[k]]
    IN  IF r = 0 \/ Total(slack) = 0 THEN c
        ELSE Clamp([k \in Signals |-> c[k] + Share(r, slack[k], Total(slack))])

(* The class counted most, when it has 40% of at least MinEvents events and a *)
(* margin of ten points; a tie in the ORDER BY goes either way.               *)
Dominant(k) ==
    LET sum[S \in SUBSET FailureClasses] ==
            IF S = {} THEN 0
            ELSE LET x == CHOOSE x \in S : TRUE IN failures[x] + sum[S \ {x}]
        total == sum[FailureClasses]
    IN  /\ total >= MinEvents
        /\ \A j \in FailureClasses \ {k} : failures[j] <= failures[k]
        /\ 100 * failures[k] >= 40 * total
        /\ \A j \in FailureClasses \ {k} : 100 * (failures[k] - failures[j]) >= 10 * total
-----------------------------------------------------------------------------
(* Mutant of TryLock: the pass does not ask for the lock. *)
TryLockNot(s) ==
    /\ tuner[s].pc = "idle"
    /\ tuner' = [tuner EXCEPT ![s].pc = "decide"]
    /\ UNCHANGED <<config, tunings, age, tooSoon, failures, lock, cached, changed, tunerFaults>>

(* RunPass on the ticker: pg_try_advisory_lock, and no pass when it is taken. *)
TryLock(s) ==
    /\ tuner[s].pc = "idle" /\ lock = "free"
    /\ lock' = s
    /\ tuner' = [tuner EXCEPT ![s].pc = "decide"]
    /\ UNCHANGED <<config, tunings, age, tooSoon, failures, cached, changed, tunerFaults>>

(* maybeAdjust up to the proposal: cooldown, counts, dominance, known class. *)
Decide(s) ==
    /\ tuner[s].pc = "decide"
    /\ \/ /\ age >= Cooldown
          /\ \E k \in FailureClasses :
               /\ Dominant(k) /\ k \in DOMAIN ComputeDelta
               /\ tuner' = [tuner EXCEPT ![s] =
                      [pc |-> "apply",
                       proposed |-> NormalizeWeights([g \in Signals |->
                                        config[g] + ComputeDelta[k][g]])]]
       \/ /\ \/ age < Cooldown
             \/ \A k \in FailureClasses : ~(Dominant(k) /\ k \in DOMAIN ComputeDelta)
          /\ tuner' = [tuner EXCEPT ![s].pc = "unlock"]
    /\ UNCHANGED <<config, tunings, age, tooSoon, failures, lock, cached, changed, tunerFaults>>

(* applyWeights: weight_config and weight_history in one transaction. *)
ApplyWeights(s) ==
    /\ tuner[s].pc = "apply" /\ tunings < MaxTunings
    /\ tunings' = tunings + 1
    /\ config' = tuner[s].proposed
    /\ age' = 0 /\ tooSoon' = (tooSoon \/ age < Cooldown) /\ changed' = TRUE
    /\ tuner' = [tuner EXCEPT ![s].pc = "unlock"]
    /\ UNCHANGED <<failures, lock, cached, tunerFaults>>

(* The deferred unlock on the pinned connection; an error or a recovered panic *)
(* of the pass, or the end of the process, gives the lock back too.            *)
Unlock(s) ==
    /\ tuner[s].pc = "unlock"
    /\ lock' = IF lock = s THEN "free" ELSE lock
    /\ tuner' = [tuner EXCEPT ![s] = Resting]
    /\ UNCHANGED <<config, tunings, age, tooSoon, failures, cached, changed, tunerFaults>>

PassFails(s) ==
    /\ tuner[s].pc \in {"decide", "apply"} /\ tunerFaults < MaxTunerFaults
    /\ tunerFaults' = tunerFaults + 1
    /\ tuner' = [tuner EXCEPT ![s].pc = "unlock"]
    /\ UNCHANGED <<config, tunings, age, tooSoon, failures, lock, cached, changed>>

(* WeightCache.Get during a recall: an entry lives fifteen minutes; a failing  *)
(* load caches the defaults for as long.                                       *)
GetWeights ==
    /\ ~cached.fresh
    /\ \/ /\ cached' = [fresh |-> TRUE, weights |-> config, failed |-> FALSE]
          /\ UNCHANGED tunerFaults
       \/ /\ tunerFaults < MaxTunerFaults /\ tunerFaults' = tunerFaults + 1
          /\ cached' = [fresh |-> TRUE, weights |-> DefaultWeights, failed |-> TRUE]
    /\ UNCHANGED <<config, tunings, age, tooSoon, failures, lock, tuner, changed>>

(* A day goes by: every cache entry has expired. *)
DayPasses ==
    /\ age' = IF age < Cooldown THEN age + 1 ELSE age
    /\ cached' = NoEntry
    /\ changed' = FALSE
    /\ UNCHANGED <<config, tunings, tooSoon, failures, lock, tuner, tunerFaults>>

(* memory_feedback with a failure class adds an event; the window drops one. *)
ReportFailure(k) ==
    /\ failures[k] < MaxReports
    /\ failures' = [failures EXCEPT ![k] = @ + 1]
    /\ UNCHANGED <<config, tunings, age, tooSoon, lock, tuner, cached, changed, tunerFaults>>

WindowMoves(k) ==
    /\ failures[k] > 0
    /\ failures' = [failures EXCEPT ![k] = @ - 1]
    /\ UNCHANGED <<config, tunings, age, tooSoon, lock, tuner, cached, changed, tunerFaults>>
-----------------------------------------------------------------------------
TunerStep(s) == Decide(s) \/ ApplyWeights(s) \/ Unlock(s)

TuningNext == \/ \E s \in Servers : \/ TryLock(s) \/ TunerStep(s) \/ PassFails(s)
              \/ \E k \in FailureClasses : ReportFailure(k) \/ WindowMoves(k)
              \/ GetWeights \/ DayPasses

TuningSpec == TuningInit /\ [][TuningNext]_tunVars
-----------------------------------------------------------------------------
(* However long the tuner works, and whichever classes dominate in which       *)
(* order, the weights stay within their bounds and share out the whole         *)
(* (tuner.go:418-471).                                                          *)
WeightsSound == /\ \A k \in Signals : WMin[k] <= config[k] /\ config[k] <= WMax[k]
                /\ Total(config) \in 996..1004

(* Two servers never apply a step within one cooldown: what a pass read of the *)
(* history still holds when it writes (tuner.go:147-177, 257-269).              *)
OncePerCooldown == ~tooSoon

(* A recall scores with the weights of today: an entry that no failing load    *)
(* filled differs from the configuration only if that changed since the day     *)
(* began (weight_cache.go:62-76).                                               *)
CacheFollows ==
    (cached.fresh /\ ~cached.failed /\ ~changed) => cached.weights = config

(* Passes of two servers that overlap, fail half-way or read old failures leave *)
(* weights that sum to one, move once per cooldown and reach the recalls.       *)
TuningSound == WeightsSound /\ OncePerCooldown /\ CacheFollows
=============================================================================
