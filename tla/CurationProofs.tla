-------------------------- MODULE CurationProofs --------------------------
(***************************************************************************)
(* What curates the memories keeps what it curates: proofs about the       *)
(* weight tuner, retrieval feedback, consolidation, the audit of ranking   *)
(* drift and the extraction workers, for every value of their constants.   *)
(***************************************************************************)
EXTENDS Consolidation, Feedback, Tuning, Audit, Extraction, SequenceLemmas,
        FiniteSetTheorems, WellFoundedInduction, TLAPS

-----------------------------------------------------------------------------
(* The weight tuner.                                                       *)

Weights == [Signals -> Int]

InBounds(w) == \A k \in Signals : WMin[k] =< w[k] /\ w[k] =< WMax[k]

LEMMA SignalBounds ==
    /\ Signals = {"vector", "bm25", "recency", "precision"}
    /\ WMin \in Weights /\ WMax \in Weights /\ DefaultWeights \in Weights
    /\ \A k \in Signals : WMin[k] =< WMax[k]
    /\ Total(WMin) = 550 /\ Total(WMax) = 1550
BY DEF Signals, WMin, WMax, Weights, Total, DefaultWeights

LEMMA TotalType ==
    ASSUME NEW w \in Weights
    PROVE  /\ Total(w) \in Int
           /\ Total(w) = w["vector"] + w["bm25"] + w["recency"] + w["precision"]
           /\ \A k \in Signals : w[k] \in Int
BY DEF Weights, Signals, Total

LEMMA ClampBounds ==
    ASSUME NEW w \in Weights
    PROVE  /\ Clamp(w) \in Weights /\ InBounds(Clamp(w))
           /\ InBounds(w) => Clamp(w) = w
<1>1. /\ \A k \in Signals : w[k] \in Int /\ WMin[k] \in Int /\ WMax[k] \in Int
      /\ \A k \in Signals : WMin[k] =< WMax[k]
  BY SignalBounds, TotalType
<1>2. Clamp(w) \in Weights
  BY <1>1 DEF Clamp, Weights
<1>3. ASSUME NEW k \in Signals
      PROVE  WMin[k] =< Clamp(w)[k] /\ Clamp(w)[k] =< WMax[k]
  BY <1>1 DEF Clamp
<1>4. ASSUME InBounds(w) PROVE Clamp(w) = w
  <2>1. \A k \in Signals : Clamp(w)[k] = w[k]
    BY <1>1, <1>4 DEF Clamp, InBounds
  <2> QED
    BY <2>1, <1>2 DEF Weights
<1> QED
  BY <1>2, <1>3, <1>4 DEF InBounds

LEMMA Quotient ==
    ASSUME NEW a \in Nat, NEW t \in Nat \ {0}
    PROVE  /\ a \div t \in Nat /\ (a \div t) * t =< a /\ a < (a \div t) * t + t
OBVIOUS

LEMMA Cancel ==
    ASSUME NEW x \in Int, NEW y \in Int, NEW t \in Nat \ {0}
    PROVE  /\ x * t =< y * t => x =< y
           /\ x * t < y * t => x < y
OBVIOUS

LEMMA Distribute2 ==
    ASSUME NEW a \in Int, NEW b \in Int, NEW t \in Int
    PROVE  (a + b) * t = a * t + b * t /\ t * (a + b) = t * a + t * b
OBVIOUS

LEMMA Distribute ==
    ASSUME NEW a \in Int, NEW b \in Int, NEW c \in Int, NEW d \in Int, NEW t \in Int
    PROVE  /\ (a + b + c + d) * t = a * t + b * t + c * t + d * t
           /\ t * (a + b + c + d) = t * a + t * b + t * c + t * d
<1>1. PICK x \in Int : x = a + b + c
  OBVIOUS
<1>2. PICK y \in Int : y = a + b
  OBVIOUS
<1>3. x = y + c /\ a + b + c + d = x + d
  BY <1>1, <1>2
<1>4. (x + d) * t = x * t + d * t /\ t * (x + d) = t * x + t * d
  BY Distribute2
<1>5. (y + c) * t = y * t + c * t /\ t * (y + c) = t * y + t * c
  BY Distribute2
<1>6. (a + b) * t = a * t + b * t /\ t * (a + b) = t * a + t * b
  BY Distribute2
<1> QED
  BY <1>2, <1>3, <1>4, <1>5, <1>6

\* One part s of t gets at most itself, and its exact share but for a fraction.
LEMMA SharePart ==
    ASSUME NEW r \in Nat, NEW s \in Nat, NEW t \in Nat \ {0}, r =< t
    PROVE  LET q == (r * s) \div t
           IN  q \in Nat /\ q =< s /\ q * t =< r * s /\ r * s < q * t + t
<1>1. r * s \in Nat
  OBVIOUS
<1>2. PICK q \in Nat : q = (r * s) \div t /\ q * t =< r * s /\ r * s < q * t + t
  BY <1>1, Quotient
<1>3. q =< s
  <2>1. r * s =< s * t
    OBVIOUS
  <2>2. q * t \in Int /\ r * s \in Int /\ s * t \in Int
    OBVIOUS
  <2>3. q * t =< s * t
    BY <1>2, <2>1, <2>2
  <2> QED
    BY <2>3, Cancel
<1> QED
  BY <1>2, <1>3

\* The arithmetic of four such shares.
LEMMA ShareSums ==
    ASSUME NEW t \in Int,
           NEW a1 \in Int, NEW a2 \in Int, NEW a3 \in Int, NEW a4 \in Int,
           NEW b1 \in Int, NEW b2 \in Int, NEW b3 \in Int, NEW b4 \in Int,
           a1 =< b1, a2 =< b2, a3 =< b3, a4 =< b4,
           b1 < a1 + t, b2 < a2 + t, b3 < a3 + t, b4 < a4 + t
    PROVE  /\ a1 + a2 + a3 + a4 =< b1 + b2 + b3 + b4
           /\ b1 + b2 + b3 + b4 < a1 + a2 + a3 + a4 + 4 * t
OBVIOUS

\* The four shares miss what is to be spread by less than one each.
LEMMA SharesTotal ==
    ASSUME NEW r \in Nat, NEW s1 \in Nat, NEW s2 \in Nat, NEW s3 \in Nat, NEW s4 \in Nat,
           NEW t \in Nat \ {0}, t = s1 + s2 + s3 + s4,
           NEW q1 \in Nat, NEW q2 \in Nat, NEW q3 \in Nat, NEW q4 \in Nat,
           q1 * t =< r * s1, r * s1 < q1 * t + t,
           q2 * t =< r * s2, r * s2 < q2 * t + t,
           q3 * t =< r * s3, r * s3 < q3 * t + t,
           q4 * t =< r * s4, r * s4 < q4 * t + t
    PROVE  q1 + q2 + q3 + q4 =< r /\ r < q1 + q2 + q3 + q4 + 4
<1>1. PICK q \in Nat : q = q1 + q2 + q3 + q4
  OBVIOUS
<1>2. r * t = r * s1 + r * s2 + r * s3 + r * s4
  <2>1. r * (s1 + s2 + s3 + s4) = r * s1 + r * s2 + r * s3 + r * s4
    BY Distribute
  <2> QED
    BY <2>1
<1>3. q * t = q1 * t + q2 * t + q3 * t + q4 * t
  <2>1. (q1 + q2 + q3 + q4) * t = q1 * t + q2 * t + q3 * t + q4 * t
    BY Distribute
  <2> QED
    BY <1>1, <2>1
<1>4. (q + 4) * t = q * t + 4 * t
  BY Distribute2
<1>5. /\ q1 * t \in Int /\ q2 * t \in Int /\ q3 * t \in Int /\ q4 * t \in Int
      /\ r * s1 \in Int /\ r * s2 \in Int /\ r * s3 \in Int /\ r * s4 \in Int /\ t \in Int
  OBVIOUS
<1>6. /\ q1 * t + q2 * t + q3 * t + q4 * t =< r * s1 + r * s2 + r * s3 + r * s4
      /\ r * s1 + r * s2 + r * s3 + r * s4 < q1 * t + q2 * t + q3 * t + q4 * t + 4 * t
  BY <1>5, ShareSums
<1>7. q * t =< r * t /\ r * t < (q + 4) * t
  BY <1>2, <1>3, <1>4, <1>6
<1>8. q \in Int /\ q + 4 \in Int /\ r \in Int
  OBVIOUS
<1>9. q =< r /\ r < q + 4
  BY <1>7, <1>8, Cancel
<1> QED
  BY <1>1, <1>9

\* normalizeWeights, once it has clamped to c: the amount |r| to spread never
\* exceeds the room s, so the shares keep every weight within its bounds and
\* miss the whole by less than one for each weight.
LEMMA SpreadSound ==
    ASSUME NEW c \in Weights, InBounds(c), NEW r \in Int, r = 1000 - Total(c), r # 0,
           NEW slack \in Weights,
           slack = [k \in Signals |-> IF r > 0 THEN WMax[k] - c[k] ELSE c[k] - WMin[k]],
           NEW v,
           v = [k \in Signals |-> c[k] + Share(r, slack[k], Total(slack))]
    PROVE  v \in Weights /\ InBounds(v) /\ Total(v) \in 996 .. 1004
<1>1. PICK t \in Int : t = Total(slack)
  BY TotalType
<1>2. PICK m \in Nat : (r > 0 /\ m = r) \/ (r < 0 /\ m = -r)
  <2>1. CASE r > 0
    BY <2>1
  <2>2. CASE r < 0
    <3>1. -r \in Nat
      BY <2>2
    <3> QED
      BY <2>2, <3>1
  <2> QED
    BY <2>1, <2>2
<1>3. \A k \in Signals : WMin[k] \in Int /\ WMax[k] \in Int /\ c[k] \in Int /\ slack[k] \in Int
  BY SignalBounds, TotalType DEF Weights
<1>4. \A k \in Signals : slack[k] \in Nat
  BY <1>3 DEF InBounds
<1>5. Signals = {"vector", "bm25", "recency", "precision"}
  BY DEF Signals
<1>6. PICK s1 \in Nat, s2 \in Nat, s3 \in Nat, s4 \in Nat :
        /\ s1 = slack["vector"] /\ s2 = slack["bm25"]
        /\ s3 = slack["recency"] /\ s4 = slack["precision"]
  BY <1>4, <1>5
<1>7. t = s1 + s2 + s3 + s4
  BY <1>1, <1>6, TotalType
<1>8. m =< t /\ t \in Nat \ {0}
  <2>1. /\ Total(c) = c["vector"] + c["bm25"] + c["recency"] + c["precision"]
        /\ 550 = WMin["vector"] + WMin["bm25"] + WMin["recency"] + WMin["precision"]
        /\ 1550 = WMax["vector"] + WMax["bm25"] + WMax["recency"] + WMax["precision"]
    BY TotalType, SignalBounds
  <2>2. CASE r > 0
    <3>1. /\ s1 = WMax["vector"] - c["vector"] /\ s2 = WMax["bm25"] - c["bm25"]
          /\ s3 = WMax["recency"] - c["recency"] /\ s4 = WMax["precision"] - c["precision"]
      BY <2>2, <1>5, <1>6
    <3>2. t = 1550 - Total(c)
      BY <3>1, <2>1, <1>3, <1>5, <1>7, SMTT(30)
    <3> QED
      BY <3>2, <1>2, <2>2, TotalType
  <2>3. CASE r < 0
    <3>1. /\ s1 = c["vector"] - WMin["vector"] /\ s2 = c["bm25"] - WMin["bm25"]
          /\ s3 = c["recency"] - WMin["recency"] /\ s4 = c["precision"] - WMin["precision"]
      BY <2>3, <1>5, <1>6
    <3>2. t = Total(c) - 550
      BY <3>1, <2>1, <1>3, <1>5, <1>7, SMTT(30)
    <3> QED
      BY <3>2, <1>2, <2>3, TotalType
  <2> QED
    BY <2>2, <2>3
<1>9. PICK q1 \in Nat, q2 \in Nat, q3 \in Nat, q4 \in Nat :
        /\ q1 = (m * s1) \div t /\ q1 =< s1 /\ q1 * t =< m * s1 /\ m * s1 < q1 * t + t
        /\ q2 = (m * s2) \div t /\ q2 =< s2 /\ q2 * t =< m * s2 /\ m * s2 < q2 * t + t
        /\ q3 = (m * s3) \div t /\ q3 =< s3 /\ q3 * t =< m * s3 /\ m * s3 < q3 * t + t
        /\ q4 = (m * s4) \div t /\ q4 =< s4 /\ q4 * t =< m * s4 /\ m * s4 < q4 * t + t
  <2>1. PICK q1 \in Nat : q1 = (m * s1) \div t /\ q1 =< s1 /\ q1 * t =< m * s1 /\ m * s1 < q1 * t + t
    BY <1>8, SharePart
  <2>2. PICK q2 \in Nat : q2 = (m * s2) \div t /\ q2 =< s2 /\ q2 * t =< m * s2 /\ m * s2 < q2 * t + t
    BY <1>8, SharePart, ZenonT(60)
  <2>3. PICK q3 \in Nat : q3 = (m * s3) \div t /\ q3 =< s3 /\ q3 * t =< m * s3 /\ m * s3 < q3 * t + t
    BY <1>8, SharePart, ZenonT(60)
  <2>4. PICK q4 \in Nat : q4 = (m * s4) \div t /\ q4 =< s4 /\ q4 * t =< m * s4 /\ m * s4 < q4 * t + t
    BY <1>8, SharePart, ZenonT(60)
  <2> QED
    BY <2>1, <2>2, <2>3, <2>4, ZenonT(60), ZenonT(60)
<1>10. q1 =< s1 /\ q2 =< s2 /\ q3 =< s3 /\ q4 =< s4
  BY <1>9
<1>11. q1 + q2 + q3 + q4 =< m /\ m < q1 + q2 + q3 + q4 + 4
  <2>1. /\ q1 * t =< m * s1 /\ m * s1 < q1 * t + t /\ q2 * t =< m * s2 /\ m * s2 < q2 * t + t
        /\ q3 * t =< m * s3 /\ m * s3 < q3 * t + t /\ q4 * t =< m * s4 /\ m * s4 < q4 * t + t
    BY <1>9, Zenon
  <2> QED
    BY <2>1, <1>7, <1>8, SharesTotal
<1>12. CASE r > 0
  <2>1. r = m /\ r >= 0
    BY <1>2, <1>12
  <2>2. /\ v["vector"] = c["vector"] + q1 /\ v["bm25"] = c["bm25"] + q2
        /\ v["recency"] = c["recency"] + q3 /\ v["precision"] = c["precision"] + q4
    <3>1. /\ q1 = (m * s1) \div t /\ q2 = (m * s2) \div t
          /\ q3 = (m * s3) \div t /\ q4 = (m * s4) \div t
      BY <1>9, Zenon
    <3>2. ASSUME NEW k \in Signals PROVE v[k] = c[k] + ((m * slack[k]) \div t)
      BY <2>1, <1>1 DEF Share
    <3> QED
      BY <3>1, <3>2, <1>5, <1>6
  <2>3. /\ s1 = WMax["vector"] - c["vector"] /\ s2 = WMax["bm25"] - c["bm25"]
        /\ s3 = WMax["recency"] - c["recency"] /\ s4 = WMax["precision"] - c["precision"]
    BY <1>12, <1>5, <1>6
  <2>4. ASSUME NEW k \in Signals
        PROVE  v[k] \in Int /\ WMin[k] =< v[k] /\ v[k] =< WMax[k]
    <3>1. WMin[k] =< c[k] /\ c[k] =< WMax[k] /\ WMin[k] \in Int /\ WMax[k] \in Int /\ c[k] \in Int
      BY <1>3 DEF InBounds
    <3>2. PICK x \in Nat, y \in Nat : v[k] = c[k] + x /\ x =< y /\ y = WMax[k] - c[k]
      <4>1. CASE k = "vector"
        BY <4>1, <2>2, <2>3, <1>10
      <4>2. CASE k = "bm25"
        BY <4>2, <2>2, <2>3, <1>10
      <4>3. CASE k = "recency"
        BY <4>3, <2>2, <2>3, <1>10
      <4>4. CASE k = "precision"
        BY <4>4, <2>2, <2>3, <1>10
      <4> QED
        BY <1>5, <4>1, <4>2, <4>3, <4>4
    <3> QED
      BY <3>1, <3>2
  <2>5. v \in Weights
    BY <2>4 DEF Weights
  <2>6. Total(v) = Total(c) + q1 + q2 + q3 + q4
    BY <2>2, <2>5, <1>3, <1>5, TotalType
  <2>7. Total(v) \in 996 .. 1004
    <3>1. PICK u \in Int, x \in Int : u = Total(c) /\ x = q1 + q2 + q3 + q4
      BY TotalType
    <3> QED
      BY <2>1, <2>6, <3>1, <1>11
  <2> QED
    BY <2>4, <2>5, <2>7 DEF InBounds
<1>13. CASE r < 0
  <2>1. -r = m /\ ~(r >= 0) /\ ~(r > 0)
    BY <1>2, <1>13
  <2>2. /\ v["vector"] = c["vector"] - q1 /\ v["bm25"] = c["bm25"] - q2
        /\ v["recency"] = c["recency"] - q3 /\ v["precision"] = c["precision"] - q4
    <3>1. ASSUME NEW k \in Signals PROVE v[k] = c[k] + (-((m * slack[k]) \div t))
      BY <2>1, <1>1 DEF Share
    <3>2. /\ v["vector"] = c["vector"] + (-q1) /\ v["bm25"] = c["bm25"] + (-q2)
          /\ v["recency"] = c["recency"] + (-q3) /\ v["precision"] = c["precision"] + (-q4)
      <4>1. /\ q1 = (m * s1) \div t /\ q2 = (m * s2) \div t
            /\ q3 = (m * s3) \div t /\ q4 = (m * s4) \div t
        BY <1>9, Zenon
      <4>2. /\ "vector" \in Signals /\ "bm25" \in Signals
            /\ "recency" \in Signals /\ "precision" \in Signals
        BY <1>5
      <4>3. v["vector"] = c["vector"] + (-q1)
        <5>1. v["vector"] = c["vector"] + (-((m * slack["vector"]) \div t))
          BY <3>1, <4>2
        <5> QED
          BY <5>1, <4>1, <1>6
      <4>4. v["bm25"] = c["bm25"] + (-q2)
        <5>1. v["bm25"] = c["bm25"] + (-((m * slack["bm25"]) \div t))
          BY <3>1, <4>2
        <5> QED
          BY <5>1, <4>1, <1>6
      <4>5. v["recency"] = c["recency"] + (-q3)
        <5>1. v["recency"] = c["recency"] + (-((m * slack["recency"]) \div t))
          BY <3>1, <4>2
        <5> QED
          BY <5>1, <4>1, <1>6
      <4>6. v["precision"] = c["precision"] + (-q4)
        <5>1. v["precision"] = c["precision"] + (-((m * slack["precision"]) \div t))
          BY <3>1, <4>2
        <5> QED
          BY <5>1, <4>1, <1>6
      <4> QED
        BY <4>3, <4>4, <4>5, <4>6
    <3> QED
      BY <3>2, <1>3, <1>5
  <2>3. /\ s1 = c["vector"] - WMin["vector"] /\ s2 = c["bm25"] - WMin["bm25"]
        /\ s3 = c["recency"] - WMin["recency"] /\ s4 = c["precision"] - WMin["precision"]
    BY <1>13, <2>1, <1>5, <1>6
  <2>4. ASSUME NEW k \in Signals
        PROVE  v[k] \in Int /\ WMin[k] =< v[k] /\ v[k] =< WMax[k]
    <3>1. WMin[k] =< c[k] /\ c[k] =< WMax[k] /\ WMin[k] \in Int /\ WMax[k] \in Int /\ c[k] \in Int
      BY <1>3 DEF InBounds
    <3>2. PICK x \in Nat, y \in Nat : v[k] = c[k] - x /\ x =< y /\ y = c[k] - WMin[k]
      <4>1. CASE k = "vector"
        BY <4>1, <2>2, <2>3, <1>10
      <4>2. CASE k = "bm25"
        BY <4>2, <2>2, <2>3, <1>10
      <4>3. CASE k = "recency"
        BY <4>3, <2>2, <2>3, <1>10
      <4>4. CASE k = "precision"
        BY <4>4, <2>2, <2>3, <1>10
      <4> QED
        BY <1>5, <4>1, <4>2, <4>3, <4>4
    <3> QED
      BY <3>1, <3>2
  <2>5. v \in Weights
    BY <2>4 DEF Weights
  <2>6. Total(v) = Total(c) - q1 - q2 - q3 - q4
    BY <2>2, <2>5, <1>3, <1>5, TotalType
  <2>7. Total(v) \in 996 .. 1004
    <3>1. PICK u \in Int, x \in Int : u = Total(c) /\ x = q1 + q2 + q3 + q4
      BY TotalType
    <3> QED
      BY <2>1, <2>6, <3>1, <1>11
  <2> QED
    BY <2>4, <2>5, <2>7 DEF InBounds
<1> QED
  BY <1>12, <1>13

LEMMA NormalizeSound ==
    ASSUME NEW w \in Weights
    PROVE  /\ NormalizeWeights(w) \in Weights
           /\ InBounds(NormalizeWeights(w))
           /\ Total(NormalizeWeights(w)) \in 996 .. 1004
<1>1. PICK c \in Weights : c = Clamp(w) /\ InBounds(c)
  BY ClampBounds
<1>2. PICK r \in Int : r = 1000 - Total(c)
  BY TotalType
<1>3. PICK slack : slack = [k \in Signals |-> IF r > 0 THEN WMax[k] - c[k] ELSE c[k] - WMin[k]]
  OBVIOUS
<1>4. slack \in Weights
  BY <1>3, SignalBounds DEF Weights
<1>5. PICK v : v = [k \in Signals |-> c[k] + Share(r, slack[k], Total(slack))]
  OBVIOUS
<1>6. NormalizeWeights(w) = IF r = 0 \/ Total(slack) = 0 THEN c ELSE Clamp(v)
  BY <1>1, <1>2, <1>3, <1>5 DEF NormalizeWeights
<1>7. CASE r = 0
  BY <1>1, <1>2, <1>6, <1>7, TotalType
<1>8. CASE r # 0
  <2>1. v \in Weights /\ InBounds(v) /\ Total(v) \in 996 .. 1004
    BY <1>1, <1>2, <1>3, <1>4, <1>5, <1>8, SpreadSound
  <2>2. Clamp(v) = v
    BY <2>1, ClampBounds
  <2>3. Total(slack) # 0
    <3>1. CASE r > 0
      <4>1. slack = [k \in Signals |-> WMax[k] - c[k]]
        BY <1>3, <3>1
      <4>2. Total(slack) = Total(WMax) - Total(c)
        BY <4>1, SignalBounds, TotalType DEF Total, Weights
      <4> QED
        BY <4>2, <3>1, <1>2, SignalBounds, TotalType
    <3>2. CASE ~(r > 0)
      <4>1. slack = [k \in Signals |-> c[k] - WMin[k]]
        BY <1>3, <3>2
      <4>2. Total(slack) = Total(c) - Total(WMin)
        BY <4>1, SignalBounds, TotalType DEF Total, Weights
      <4> QED
        BY <4>2, <3>2, <1>2, SignalBounds, TotalType
    <3> QED
      BY <3>1, <3>2
  <2> QED
    BY <2>1, <2>2, <2>3, <1>6, <1>8
<1> QED
  BY <1>7, <1>8

LEMMA DeltaType == \A k \in DOMAIN ComputeDelta : ComputeDelta[k] \in Weights
BY DEF ComputeDelta, Weights, Signals

-----------------------------------------------------------------------------
Sharing(w) == InBounds(w) /\ Total(w) \in 996 .. 1004

(* The server inside a pass holds the advisory lock, so that the history it     *)
(* read its cooldown from has no newer row when it writes.                      *)
TuningInv ==
    /\ config \in Weights /\ Sharing(config)
    /\ age \in Nat /\ tooSoon = FALSE
    /\ tuner \in [Servers -> [pc : {"idle", "decide", "apply", "unlock"}, proposed : Weights]]
    /\ \A s \in Servers : tuner[s].pc # "idle" => lock = s
    /\ \A s \in Servers : tuner[s].pc = "apply" =>
            age >= Cooldown /\ Sharing(tuner[s].proposed)
    /\ CacheFollows

LEMMA TuningInitInv == TuningInit => TuningInv
<1> SUFFICES ASSUME TuningInit PROVE TuningInv
  OBVIOUS
<1>1. DefaultWeights \in Weights /\ Sharing(DefaultWeights)
  BY SignalBounds DEF Sharing, InBounds, Total, DefaultWeights, WMin, WMax, Signals
<1>2. Resting \in [pc : {"idle", "decide", "apply", "unlock"}, proposed : Weights] /\ Resting.pc = "idle"
  BY <1>1 DEF Resting
<1>3. \A s \in Servers : tuner[s] = Resting
  BY DEF TuningInit
<1>4. tuner \in [Servers -> [pc : {"idle", "decide", "apply", "unlock"}, proposed : Weights]]
  BY <1>2 DEF TuningInit
<1>5. CacheFollows
  BY DEF TuningInit, CacheFollows, NoEntry
<1>6. age \in Nat /\ tooSoon = FALSE /\ config = DefaultWeights
  BY TuningAssumption DEF TuningInit
<1> QED
  BY <1>1, <1>2, <1>3, <1>4, <1>5, <1>6 DEF TuningInv

\* A step that moves only the pass of server s, to the local state row.
LEMMA PassMove ==
    ASSUME TuningInv, NEW s \in Servers,
           NEW row \in [pc : {"idle", "decide", "apply", "unlock"}, proposed : Weights],
           tuner' = [tuner EXCEPT ![s] = row],
           row.pc # "idle" => lock' = s,
           \A z \in Servers \ {s} : lock = z => lock' = z,
           row.pc = "apply" => age >= Cooldown /\ Sharing(row.proposed),
           UNCHANGED <<config, age, tooSoon, cached, changed>>
    PROVE  TuningInv'
<1>1. tuner'[s] = row /\ \A z \in Servers \ {s} : tuner'[z] = tuner[z]
  BY DEF TuningInv
<1>2. tuner' \in [Servers -> [pc : {"idle", "decide", "apply", "unlock"}, proposed : Weights]]
  BY DEF TuningInv
<1>3. \A z \in Servers : tuner'[z].pc # "idle" => lock' = z
  BY <1>1 DEF TuningInv
<1>4. \A z \in Servers : tuner'[z].pc = "apply" => age >= Cooldown /\ Sharing(tuner'[z].proposed)
  BY <1>1 DEF TuningInv
<1>5. CacheFollows'
  BY DEF TuningInv, CacheFollows
<1> QED
  BY <1>2, <1>3, <1>4, <1>5 DEF TuningInv

\* A step that leaves the passes and the lock alone.
LEMMA OutsidePasses ==
    ASSUME TuningInv, UNCHANGED <<config, tooSoon, lock, tuner>>,
           age' \in Nat, age' >= age, CacheFollows'
    PROVE  TuningInv'
<1>1. \A s \in Servers : tuner'[s].pc = "apply" => age' >= Cooldown /\ Sharing(tuner'[s].proposed)
  BY TuningAssumption DEF TuningInv
<1> QED
  BY <1>1 DEF TuningInv

LEMMA PassRow ==
    ASSUME TuningInv, NEW s \in Servers, NEW pc \in {"idle", "decide", "apply", "unlock"},
           tuner' = [tuner EXCEPT ![s].pc = pc]
    PROVE  \E row \in [pc : {"idle", "decide", "apply", "unlock"}, proposed : Weights] :
              /\ row.pc = pc /\ row.proposed = tuner[s].proposed
              /\ tuner' = [tuner EXCEPT ![s] = row]
<1>1. PICK row : row = [tuner[s] EXCEPT !.pc = pc]
  OBVIOUS
<1>2. tuner[s] \in [pc : {"idle", "decide", "apply", "unlock"}, proposed : Weights]
  BY DEF TuningInv
<1>3. row \in [pc : {"idle", "decide", "apply", "unlock"}, proposed : Weights]
  BY <1>1, <1>2
<1>4. row.pc = pc /\ row.proposed = tuner[s].proposed
  BY <1>1, <1>2
<1>5. tuner' = [tuner EXCEPT ![s] = row]
  BY <1>1 DEF TuningInv
<1> QED
  BY <1>3, <1>4, <1>5

LEMMA TuningNextInv == TuningInv /\ [TuningNext]_tunVars => TuningInv'
<1> SUFFICES ASSUME TuningInv, [TuningNext]_tunVars PROVE TuningInv'
  OBVIOUS
<1>1. ASSUME NEW s \in Servers, TryLock(s) PROVE TuningInv'
  <2>1. PICK row \in [pc : {"idle", "decide", "apply", "unlock"}, proposed : Weights] :
            row.pc = "decide" /\ tuner' = [tuner EXCEPT ![s] = row]
    BY <1>1, PassRow DEF TryLock
  <2>2. \A z \in Servers \ {s} : lock # z
    BY <1>1, TuningAssumption DEF TryLock
  <2>3. lock' = s /\ UNCHANGED <<config, age, tooSoon, cached, changed>>
    BY <1>1 DEF TryLock
  <2> QED
    BY <2>1, <2>2, <2>3, PassMove
<1>2. ASSUME NEW s \in Servers, Decide(s) PROVE TuningInv'
  <2>0. lock = s /\ UNCHANGED <<config, age, tooSoon, lock, cached, changed>>
    BY <1>2 DEF Decide, TuningInv
  <2>1. CASE /\ age >= Cooldown
             /\ \E k \in FailureClasses :
                  /\ Dominant(k) /\ k \in DOMAIN ComputeDelta
                  /\ tuner' = [tuner EXCEPT ![s] =
                         [pc |-> "apply",
                          proposed |-> NormalizeWeights([g \in Signals |->
                                           config[g] + ComputeDelta[k][g]])]]
    <3>1. PICK k \in FailureClasses :
                  /\ k \in DOMAIN ComputeDelta
                  /\ tuner' = [tuner EXCEPT ![s] =
                         [pc |-> "apply",
                          proposed |-> NormalizeWeights([g \in Signals |->
                                           config[g] + ComputeDelta[k][g]])]]
      BY <2>1
    <3>2. PICK w : w = [g \in Signals |-> config[g] + ComputeDelta[k][g]]
      OBVIOUS
    <3>3. w \in Weights
      <4>1. config \in Weights /\ ComputeDelta[k] \in Weights
        BY <3>1, DeltaType DEF TuningInv
      <4> QED
        BY <4>1, <3>2 DEF Weights
    <3>4. NormalizeWeights(w) \in Weights /\ Sharing(NormalizeWeights(w))
      BY <3>3, NormalizeSound DEF Sharing
    <3>5. PICK row : row = [pc |-> "apply", proposed |-> NormalizeWeights(w)]
      OBVIOUS
    <3>6. /\ row \in [pc : {"idle", "decide", "apply", "unlock"}, proposed : Weights]
          /\ row.proposed = NormalizeWeights(w)
      BY <3>4, <3>5
    <3>7. tuner' = [tuner EXCEPT ![s] = row]
      BY <3>1, <3>2, <3>5
    <3> QED
      BY <2>0, <2>1, <3>4, <3>6, <3>7, PassMove
  <2>2. CASE tuner' = [tuner EXCEPT ![s].pc = "unlock"]
    <3>1. PICK row \in [pc : {"idle", "decide", "apply", "unlock"}, proposed : Weights] :
              row.pc = "unlock" /\ tuner' = [tuner EXCEPT ![s] = row]
      BY <2>2, PassRow
    <3> QED
      BY <2>0, <3>1, PassMove
  <2> QED
    BY <1>2, <2>1, <2>2 DEF Decide
<1>3. ASSUME NEW s \in Servers, ApplyWeights(s) PROVE TuningInv'
  <2>1. PICK row \in [pc : {"idle", "decide", "apply", "unlock"}, proposed : Weights] :
            row.pc = "unlock" /\ tuner' = [tuner EXCEPT ![s] = row]
    BY <1>3, PassRow DEF ApplyWeights
  <2>2. tuner'[s] = row /\ \A z \in Servers \ {s} : tuner'[z] = tuner[z]
    BY <2>1 DEF TuningInv
  <2>3. lock = s /\ lock' = s /\ age >= Cooldown /\ Sharing(tuner[s].proposed)
    BY <1>3 DEF ApplyWeights, TuningInv
  <2>4. \A z \in Servers \ {s} : tuner'[z].pc = "idle"
    BY <2>2, <2>3 DEF TuningInv
  <2>5. config' \in Weights /\ Sharing(config')
    BY <1>3, <2>3 DEF ApplyWeights, TuningInv
  <2>6. age' \in Nat /\ tooSoon' = FALSE
    <3>1. age' = 0 /\ tooSoon = FALSE /\ tooSoon' = (tooSoon \/ age < Cooldown)
      BY <1>3 DEF ApplyWeights, TuningInv
    <3>2. ~(age < Cooldown)
      BY <2>3, TuningAssumption DEF TuningInv
    <3> QED
      BY <3>1, <3>2
  <2>7. tuner' \in [Servers -> [pc : {"idle", "decide", "apply", "unlock"}, proposed : Weights]]
    BY <2>1 DEF TuningInv
  <2>8. CacheFollows'
    BY <1>3 DEF ApplyWeights, CacheFollows
  <2>9. \A z \in Servers : tuner'[z].pc # "idle" => lock' = z
    BY <2>3, <2>4
  <2>10. \A z \in Servers : tuner'[z].pc # "apply"
    BY <2>1, <2>2, <2>4
  <2> QED
    BY <2>5, <2>6, <2>7, <2>8, <2>9, <2>10 DEF TuningInv
<1>4. ASSUME NEW s \in Servers, Unlock(s) PROVE TuningInv'
  <2>1. Resting \in [pc : {"idle", "decide", "apply", "unlock"}, proposed : Weights] /\ Resting.pc = "idle"
    BY SignalBounds DEF Resting
  <2>2. lock = s /\ tuner' = [tuner EXCEPT ![s] = Resting]
        /\ UNCHANGED <<config, age, tooSoon, cached, changed>>
    BY <1>4 DEF Unlock, TuningInv
  <2> QED
    BY <2>1, <2>2, PassMove
<1>5. ASSUME NEW s \in Servers, PassFails(s) PROVE TuningInv'
  <2>1. PICK row \in [pc : {"idle", "decide", "apply", "unlock"}, proposed : Weights] :
            row.pc = "unlock" /\ tuner' = [tuner EXCEPT ![s] = row]
    BY <1>5, PassRow DEF PassFails
  <2>2. lock = s /\ UNCHANGED <<config, age, tooSoon, lock, cached, changed>>
    BY <1>5 DEF PassFails, TuningInv
  <2> QED
    BY <2>1, <2>2, PassMove
<1>6. ASSUME NEW k \in FailureClasses, ReportFailure(k) \/ WindowMoves(k) PROVE TuningInv'
  <2>1. UNCHANGED <<config, age, tooSoon, lock, tuner, cached, changed>>
    BY <1>6 DEF ReportFailure, WindowMoves
  <2>2. CacheFollows' /\ age' \in Nat /\ age' >= age
    BY <2>1 DEF TuningInv, CacheFollows
  <2> QED
    BY <2>1, <2>2, OutsidePasses
<1>7. CASE GetWeights
  <2>1. UNCHANGED <<config, age, tooSoon, lock, tuner>>
    BY <1>7 DEF GetWeights
  <2>2. CacheFollows'
    BY <1>7 DEF GetWeights, CacheFollows
  <2>3. age' \in Nat /\ age' >= age
    BY <2>1 DEF TuningInv
  <2> QED
    BY <2>1, <2>2, <2>3, OutsidePasses
<1>8. CASE DayPasses
  <2>1. UNCHANGED <<config, tooSoon, lock, tuner>>
    BY <1>8 DEF DayPasses
  <2>2. CacheFollows'
    BY <1>8 DEF DayPasses, CacheFollows, NoEntry
  <2>3. age' \in Nat /\ age' >= age
    BY <1>8 DEF DayPasses, TuningInv
  <2> QED
    BY <2>1, <2>2, <2>3, OutsidePasses
<1>9. CASE UNCHANGED tunVars
  <2>1. UNCHANGED <<config, age, tooSoon, lock, tuner, cached, changed>>
    BY <1>9 DEF tunVars
  <2>2. CacheFollows' /\ age' \in Nat /\ age' >= age
    BY <2>1 DEF TuningInv, CacheFollows
  <2> QED
    BY <2>1, <2>2, OutsidePasses
<1> QED
  BY <1>1, <1>2, <1>3, <1>4, <1>5, <1>6, <1>7, <1>8, <1>9 DEF TuningNext, TunerStep

(* For every number of servers, failure classes and faults: the weights keep    *)
(* their bounds and their sum through any sequence of tuning passes, no two     *)
(* passes write within one cooldown, and a cached entry is the configuration's. *)
THEOREM TuningKeepsWeights == TuningSpec => []TuningSound
<1>1. TuningInv => TuningSound
  BY DEF TuningInv, TuningSound, WeightsSound, OncePerCooldown, Sharing, InBounds
<1>2. TuningSpec => []TuningInv
  BY TuningInitInv, TuningNextInv, PTL DEF TuningSpec
<1> QED
  BY <1>1, <1>2, PTL

-----------------------------------------------------------------------------
(* Feedback.                                                               *)

Asked == [pc : {"idle", "boost"}, left : SUBSET FMems]
Events == [results : SUBSET FMems, marked : SUBSET FMems, class : Classes \cup {"none"}]

\* The calls that still have to reinforce x.
Owing(x) == {c \in Askers : x \in asker[c].left}

FeedbackTypeOK ==
    /\ timesRetrieved \in [FMems -> Nat] /\ reinforced \in [FMems -> Nat]
    /\ event \in Seq(Events) /\ praised \in Seq(SUBSET FMems)
    /\ counting \in SUBSET FMems /\ asker \in [Askers -> Asked]

(* What a recall has stored but not yet counted, and what the calls under way   *)
(* have still to reinforce, is already paid for by an event or by praise.       *)
FeedbackInv ==
    /\ FeedbackTypeOK
    /\ \A c \in Askers : asker[c].pc = "idle" => asker[c].left = {}
    /\ \A x \in FMems : timesRetrieved[x] + (IF x \in counting THEN 1 ELSE 0) =< Recalls(x)
    /\ \A x \in FMems : reinforced[x] + Cardinality(Owing(x)) =< Praises(x)

\* Counting the positions of a sequence that satisfy something, which is a set A.
LEMMA Positions ==
    ASSUME NEW n \in Nat, NEW A \in SUBSET (1 .. n)
    PROVE  /\ IsFiniteSet(A) /\ Cardinality(A) \in Nat
           /\ Cardinality(A \cup {n + 1}) = Cardinality(A) + 1
<1>1. IsFiniteSet(1 .. n)
  BY FS_Interval
<1>2. IsFiniteSet(A)
  BY <1>1, FS_Subset
<1>3. n + 1 \notin A
  OBVIOUS
<1> QED
  BY <1>2, <1>3, FS_CardinalityType, FS_AddElement

LEMMA CountsType ==
    ASSUME FeedbackTypeOK, NEW x \in FMems
    PROVE  Recalls(x) \in Nat /\ Praises(x) \in Nat
<1>1. Len(event) \in Nat /\ Len(praised) \in Nat
  BY DEF FeedbackTypeOK
<1> QED
  BY <1>1, Positions DEF Recalls, Praises

LEMMA OwingFinite ==
    ASSUME NEW x
    PROVE  IsFiniteSet(Owing(x)) /\ Cardinality(Owing(x)) \in Nat
<1>1. Owing(x) \subseteq Askers
  BY DEF Owing
<1> QED
  BY <1>1, FeedbackAssumption, FS_Subset, FS_CardinalityType

\* A recall that returned R is one more recall of each memory in R.
LEMMA RecallsAppend ==
    ASSUME FeedbackTypeOK, NEW v \in Events, event' = Append(event, v), NEW x \in FMems
    PROVE  Recalls(x)' = Recalls(x) + (IF x \in v.results THEN 1 ELSE 0)
<1>1. PICK n \in Nat : n = Len(event)
  BY DEF FeedbackTypeOK
<1>2. /\ Len(event') = n + 1 /\ event'[n + 1] = v
      /\ \A e \in 1 .. n : event'[e] = event[e]
  BY <1>1 DEF FeedbackTypeOK
<1>3. PICK A \in SUBSET (1 .. n) : A = {e \in 1 .. n : x \in event[e].results}
  OBVIOUS
<1>4. {e \in 1 .. (n + 1) : x \in event'[e].results}
        = IF x \in v.results THEN A \cup {n + 1} ELSE A
  <2>1. \A e \in 1 .. (n + 1) : e \in 1 .. n \/ e = n + 1
    OBVIOUS
  <2> QED
    BY <2>1, <1>2, <1>3
<1>5. Recalls(x) = Cardinality(A)
  BY <1>1, <1>3 DEF Recalls
<1>6. Recalls(x)' = Cardinality(IF x \in v.results THEN A \cup {n + 1} ELSE A)
  BY <1>2, <1>4 DEF Recalls
<1>7. Cardinality(A) \in Nat /\ Cardinality(A \cup {n + 1}) = Cardinality(A) + 1
  BY Positions
<1>8. CASE x \in v.results
  BY <1>5, <1>6, <1>7, <1>8
<1>9. CASE x \notin v.results
  BY <1>5, <1>6, <1>7, <1>9
<1> QED
  BY <1>8, <1>9

LEMMA PraisesAppend ==
    ASSUME FeedbackTypeOK, NEW ids \in SUBSET FMems, praised' = Append(praised, ids), NEW x \in FMems
    PROVE  Praises(x)' = Praises(x) + (IF x \in ids THEN 1 ELSE 0)
<1>1. PICK n \in Nat : n = Len(praised)
  BY DEF FeedbackTypeOK
<1>2. /\ Len(praised') = n + 1 /\ praised'[n + 1] = ids
      /\ \A i \in 1 .. n : praised'[i] = praised[i]
  BY <1>1 DEF FeedbackTypeOK
<1>3. PICK A \in SUBSET (1 .. n) : A = {i \in 1 .. n : x \in praised[i]}
  OBVIOUS
<1>4. {i \in 1 .. (n + 1) : x \in praised'[i]} = IF x \in ids THEN A \cup {n + 1} ELSE A
  <2>1. \A i \in 1 .. (n + 1) : i \in 1 .. n \/ i = n + 1
    OBVIOUS
  <2> QED
    BY <2>1, <1>2, <1>3
<1>5. Praises(x) = Cardinality(A)
  BY <1>1, <1>3 DEF Praises
<1>6. Praises(x)' = Cardinality(IF x \in ids THEN A \cup {n + 1} ELSE A)
  BY <1>2, <1>4 DEF Praises
<1>7. Cardinality(A) \in Nat /\ Cardinality(A \cup {n + 1}) = Cardinality(A) + 1
  BY Positions
<1>8. CASE x \in ids
  BY <1>5, <1>6, <1>7, <1>8
<1>9. CASE x \notin ids
  BY <1>5, <1>6, <1>7, <1>9
<1> QED
  BY <1>8, <1>9

\* Marking an event changes no result of a recall.
LEMMA RecallsMarked ==
    ASSUME FeedbackTypeOK, NEW e \in 1 .. Len(event), NEW v \in Events,
           v.results = event[e].results, event' = [event EXCEPT ![e] = v]
    PROVE  event' \in Seq(Events) /\ \A x \in FMems : Recalls(x)' = Recalls(x)
<1>1. event' \in Seq(Events) /\ Len(event') = Len(event)
  BY DEF FeedbackTypeOK
<1>2. \A i \in 1 .. Len(event) : event'[i].results = event[i].results
  BY DEF FeedbackTypeOK
<1> QED
  BY <1>1, <1>2 DEF Recalls

\* The call c now owes the memories of ids and owed none before.
LEMMA OwingStarts ==
    ASSUME FeedbackTypeOK, NEW c \in Askers, NEW a \in Asked, asker[c].left = {},
           asker' = [asker EXCEPT ![c] = a], NEW x \in FMems
    PROVE  Cardinality(Owing(x)') = Cardinality(Owing(x)) + (IF x \in a.left THEN 1 ELSE 0)
<1>1. asker'[c] = a /\ \A d \in Askers \ {c} : asker'[d] = asker[d]
  BY DEF FeedbackTypeOK
<1>2. c \notin Owing(x)
  BY DEF Owing
<1>3. Owing(x)' = IF x \in a.left THEN Owing(x) \cup {c} ELSE Owing(x)
  BY <1>1, <1>2 DEF Owing
<1>4. /\ Cardinality(Owing(x)) \in Nat
      /\ Cardinality(Owing(x) \cup {c}) = Cardinality(Owing(x)) + 1
  BY <1>2, OwingFinite, FS_AddElement
<1>5. CASE x \in a.left
  BY <1>3, <1>4, <1>5
<1>6. CASE x \notin a.left
  BY <1>3, <1>4, <1>6
<1> QED
  BY <1>5, <1>6

\* The call c no longer owes what it owed, but for what a keeps.
LEMMA OwingEnds ==
    ASSUME FeedbackTypeOK, NEW c \in Askers, NEW a \in Asked, a.left \subseteq asker[c].left,
           asker' = [asker EXCEPT ![c] = a], NEW x \in FMems
    PROVE  Cardinality(Owing(x)') + (IF x \in asker[c].left \ a.left THEN 1 ELSE 0)
             = Cardinality(Owing(x))
<1>1. asker'[c] = a /\ \A d \in Askers \ {c} : asker'[d] = asker[d]
  BY DEF FeedbackTypeOK
<1>2. CASE x \in asker[c].left \ a.left
  <2>1. c \in Owing(x) /\ Owing(x)' = Owing(x) \ {c}
    BY <1>1, <1>2 DEF Owing
  <2>2. Cardinality(Owing(x) \ {c}) = Cardinality(Owing(x)) - 1
    BY <2>1, OwingFinite, FS_RemoveElement
  <2> QED
    BY <1>2, <2>1, <2>2, OwingFinite
<1>3. CASE x \notin asker[c].left \ a.left
  <2>1. Owing(x)' = Owing(x)
    BY <1>1, <1>3 DEF Owing
  <2> QED
    BY <1>3, <2>1, OwingFinite
<1> QED
  BY <1>2, <1>3

LEMMA FeedbackInitInv == FeedbackInit => FeedbackInv
<1> SUFFICES ASSUME FeedbackInit PROVE FeedbackInv
  OBVIOUS
<1>1. Quiet \in Asked /\ Quiet.left = {}
  BY DEF Quiet, Asked
<1>2. FeedbackTypeOK /\ \A c \in Askers : asker[c].left = {}
  BY <1>1 DEF FeedbackInit, FeedbackTypeOK
<1>3. \A x \in FMems : Owing(x) = {}
  BY <1>2 DEF Owing
<1>4. \A x \in FMems : timesRetrieved[x] = 0 /\ reinforced[x] = 0 /\ counting = {}
  BY DEF FeedbackInit
<1>5. \A x \in FMems : Cardinality(Owing(x)) = 0
  BY <1>3, FS_EmptySet
<1>6. \A x \in FMems : Recalls(x) \in Nat /\ Praises(x) \in Nat
  BY <1>2, CountsType
<1>7. \A x \in FMems : timesRetrieved[x] + (IF x \in counting THEN 1 ELSE 0) =< Recalls(x)
  BY <1>4, <1>6
<1>8. \A x \in FMems : reinforced[x] + Cardinality(Owing(x)) =< Praises(x)
  BY <1>4, <1>5, <1>6
<1> QED
  BY <1>2, <1>7, <1>8 DEF FeedbackInv

\* A step of the feedback calls: the retrieval counters stay, and every memory's
\* praise keeps up with what was reinforced and is still owed.
LEMMA CallMove ==
    ASSUME FeedbackInv, FeedbackTypeOK',
           UNCHANGED <<timesRetrieved, counting>>,
           \A x \in FMems : Recalls(x)' = Recalls(x),
           \A c \in Askers : asker'[c].pc = "idle" => asker'[c].left = {},
           \A x \in FMems : \E d \in Nat, r \in Nat :
                /\ reinforced'[x] + Cardinality(Owing(x)') = r
                /\ r =< reinforced[x] + Cardinality(Owing(x)) + d
                /\ Praises(x)' = Praises(x) + d
    PROVE  FeedbackInv'
<1>1. \A x \in FMems : timesRetrieved'[x] + (IF x \in counting' THEN 1 ELSE 0) =< Recalls(x)'
  BY DEF FeedbackInv
<1>2. ASSUME NEW x \in FMems PROVE reinforced'[x] + Cardinality(Owing(x)') =< Praises(x)'
  <2>1. reinforced[x] \in Nat /\ Cardinality(Owing(x)) \in Nat /\ Praises(x) \in Nat
    BY CountsType, OwingFinite DEF FeedbackInv, FeedbackTypeOK
  <2>2. PICK d \in Nat, r \in Nat :
            /\ reinforced'[x] + Cardinality(Owing(x)') = r
            /\ r =< reinforced[x] + Cardinality(Owing(x)) + d
            /\ Praises(x)' = Praises(x) + d
    OBVIOUS
  <2>3. reinforced[x] + Cardinality(Owing(x)) =< Praises(x)
    BY DEF FeedbackInv
  <2> QED
    BY <2>1, <2>2, <2>3
<1> QED
  BY <1>1, <1>2 DEF FeedbackInv

LEMMA FeedbackNextInv == FeedbackInv /\ [FeedbackNext]_fbVars => FeedbackInv'
<1> SUFFICES ASSUME FeedbackInv, [FeedbackNext]_fbVars PROVE FeedbackInv'
  OBVIOUS
<1> USE DEF FeedbackInv
<1>q. Quiet \in Asked /\ Quiet.left = {} /\ Quiet.pc = "idle"
  BY DEF Quiet, Asked
<1>t. \A x \in FMems : /\ Recalls(x) \in Nat /\ Praises(x) \in Nat
                       /\ Cardinality(Owing(x)) \in Nat
                       /\ reinforced[x] \in Nat /\ timesRetrieved[x] \in Nat
  BY CountsType, OwingFinite DEF FeedbackTypeOK
<1>1. ASSUME NEW R \in SUBSET FMems, StoreRetrievalEvent(R) PROVE FeedbackInv'
  <2>0. PICK v : v = [results |-> R, marked |-> {}, class |-> "none"]
    OBVIOUS
  <2>1. v \in Events /\ v.results = R
    BY <2>0 DEF Events
  <2>2. /\ event' = Append(event, v) /\ counting = {} /\ counting' = R
        /\ UNCHANGED <<timesRetrieved, reinforced, asker, praised>>
    BY <1>1, <2>0 DEF StoreRetrievalEvent
  <2>3. \A x \in FMems : Recalls(x)' = Recalls(x) + (IF x \in R THEN 1 ELSE 0)
    BY <2>1, <2>2, RecallsAppend
  <2>4. FeedbackTypeOK'
    <3>1. event' \in Seq(Events)
      BY <2>1, <2>2 DEF FeedbackTypeOK
    <3> QED
      BY <3>1, <2>2 DEF FeedbackTypeOK
  <2>5. \A x \in FMems : timesRetrieved'[x] + (IF x \in counting' THEN 1 ELSE 0) =< Recalls(x)'
    BY <2>2, <2>3, <1>t
  <2>6. \A x \in FMems : reinforced'[x] + Cardinality(Owing(x)') =< Praises(x)'
    BY <2>2 DEF Owing, Praises
  <2> QED
    BY <2>2, <2>4, <2>5, <2>6
<1>2. CASE IncrementTimesRetrieved \/ LoseCount
  <2>1. /\ counting' = {} /\ UNCHANGED <<reinforced, event, asker, praised>>
    BY <1>2 DEF IncrementTimesRetrieved, LoseCount
  <2>2. \A x \in FMems : /\ timesRetrieved'[x] \in Nat
                         /\ timesRetrieved'[x] =< timesRetrieved[x] + (IF x \in counting THEN 1 ELSE 0)
    BY <1>2, <1>t DEF IncrementTimesRetrieved, LoseCount
  <2>3. timesRetrieved' \in [FMems -> Nat]
    <3>1. CASE IncrementTimesRetrieved
      BY <3>1, <2>2 DEF IncrementTimesRetrieved
    <3>2. CASE LoseCount
      BY <3>2 DEF LoseCount, FeedbackTypeOK
    <3> QED
      BY <1>2, <3>1, <3>2
  <2>4. FeedbackTypeOK'
    BY <2>1, <2>3 DEF FeedbackTypeOK
  <2>5. \A x \in FMems : Recalls(x)' = Recalls(x) /\ Praises(x)' = Praises(x) /\ Owing(x)' = Owing(x)
    BY <2>1 DEF Recalls, Praises, Owing
  <2>6. \A x \in FMems : timesRetrieved'[x] + (IF x \in counting' THEN 1 ELSE 0) =< Recalls(x)'
    BY <2>1, <2>2, <2>5, <1>t
  <2> QED
    BY <2>1, <2>4, <2>5, <2>6
<1>3. ASSUME NEW c \in Askers, NEW ids \in SUBSET FMems, NEW e \in 1 .. Len(event),
             RecordFeedback(c, e, ids) PROVE FeedbackInv'
  <2>0. PICK a : a = IF ids = {} THEN Quiet ELSE [pc |-> "boost", left |-> ids]
    OBVIOUS
  <2>1. a \in Asked /\ a.left = ids /\ (a.pc = "idle" => a.left = {})
    <3>1. CASE ids = {}
      BY <3>1, <2>0, <1>q
    <3>2. CASE ids # {}
      BY <3>2, <2>0 DEF Asked
    <3> QED
      BY <3>1, <3>2
  <2>2. PICK v : v = [event[e] EXCEPT !.marked = ids]
    OBVIOUS
  <2>3. event[e] \in Events
    BY DEF FeedbackTypeOK
  <2>4. v \in Events /\ v.results = event[e].results
    BY <2>2, <2>3 DEF Events
  <2>5. /\ event' = [event EXCEPT ![e] = v] /\ praised' = Append(praised, ids)
        /\ asker' = [asker EXCEPT ![c] = a] /\ asker[c].pc = "idle"
        /\ UNCHANGED <<timesRetrieved, reinforced, counting>>
    BY <1>3, <2>0, <2>2 DEF RecordFeedback, Useful
  <2>6. event' \in Seq(Events) /\ \A x \in FMems : Recalls(x)' = Recalls(x)
    BY <2>4, <2>5, RecallsMarked
  <2>7. \A x \in FMems : Praises(x)' = Praises(x) + (IF x \in ids THEN 1 ELSE 0)
    BY <2>5, PraisesAppend
  <2>8. \A x \in FMems : Cardinality(Owing(x)') = Cardinality(Owing(x)) + (IF x \in ids THEN 1 ELSE 0)
    BY <2>1, <2>5, OwingStarts
  <2>9. FeedbackTypeOK'
    <3>1. praised' \in Seq(SUBSET FMems)
      BY <2>5 DEF FeedbackTypeOK
    <3>2. asker' \in [Askers -> Asked]
      BY <2>1, <2>5 DEF FeedbackTypeOK
    <3> QED
      BY <3>1, <3>2, <2>5, <2>6 DEF FeedbackTypeOK
  <2>10. \A d \in Askers : asker'[d].pc = "idle" => asker'[d].left = {}
    BY <2>1, <2>5 DEF FeedbackTypeOK
  <2>11. \A x \in FMems : \E d \in Nat, r \in Nat :
            /\ reinforced'[x] + Cardinality(Owing(x)') = r
            /\ r =< reinforced[x] + Cardinality(Owing(x)) + d
            /\ Praises(x)' = Praises(x) + d
    BY <2>5, <2>7, <2>8, <1>t
  <2> QED
    BY <2>5, <2>6, <2>9, <2>10, <2>11, CallMove
<1>4. ASSUME NEW c \in Askers, NEW ids \in SUBSET FMems, NEW e \in 1 .. Len(event),
             NEW k \in Classes, RecordFeedbackWithClass(c, e, ids, k) PROVE FeedbackInv'
  <2>2. PICK v : v = [event[e] EXCEPT !.marked = ids, !.class = k]
    OBVIOUS
  <2>3. event[e] \in Events
    BY DEF FeedbackTypeOK
  <2>4. v \in Events /\ v.results = event[e].results
    BY <2>2, <2>3 DEF Events
  <2>5. /\ asker' = [asker EXCEPT ![c] = Quiet] /\ asker[c].pc = "idle"
        /\ UNCHANGED <<timesRetrieved, reinforced, counting, praised>>
    BY <1>4 DEF RecordFeedbackWithClass, AfterClass, Useful
  <2>6. event' = [event EXCEPT ![e] = v]
    BY <1>4, <2>2, <2>3 DEF RecordFeedbackWithClass, Events, FeedbackTypeOK
  <2>7. event' \in Seq(Events) /\ \A x \in FMems : Recalls(x)' = Recalls(x)
    BY <2>4, <2>6, RecallsMarked
  <2>8. \A x \in FMems : Cardinality(Owing(x)') = Cardinality(Owing(x))
    <3>1. \A x \in FMems : Cardinality(Owing(x)')
                             = Cardinality(Owing(x)) + (IF x \in Quiet.left THEN 1 ELSE 0)
      BY <2>5, <1>q, OwingStarts
    <3> QED
      BY <3>1, <1>q, <1>t
  <2>9. FeedbackTypeOK'
    BY <2>5, <2>7, <1>q DEF FeedbackTypeOK
  <2>10. \A d \in Askers : asker'[d].pc = "idle" => asker'[d].left = {}
    BY <2>5, <1>q DEF FeedbackTypeOK
  <2>11. \A x \in FMems : Praises(x)' = Praises(x)
    BY <2>5 DEF Praises
  <2>12. \A x \in FMems : \E d \in Nat, r \in Nat :
            /\ reinforced'[x] + Cardinality(Owing(x)') = r
            /\ r =< reinforced[x] + Cardinality(Owing(x)) + d
            /\ Praises(x)' = Praises(x) + d
    BY <2>5, <2>8, <2>11, <1>t
  <2> QED
    BY <2>5, <2>7, <2>9, <2>10, <2>12, CallMove
<1>5. ASSUME NEW c \in Askers, NEW ids \in SUBSET FMems, FeedbackOnly(c, ids) PROVE FeedbackInv'
  <2>0. PICK a : a = [pc |-> "boost", left |-> ids]
    OBVIOUS
  <2>1. a \in Asked /\ a.left = ids /\ a.pc = "boost"
    BY <2>0 DEF Asked
  <2>2. /\ praised' = Append(praised, ids)
        /\ asker' = [asker EXCEPT ![c] = a] /\ asker[c].pc = "idle"
        /\ UNCHANGED <<timesRetrieved, reinforced, counting, event>>
    BY <1>5, <2>0 DEF FeedbackOnly
  <2>3. \A x \in FMems : Recalls(x)' = Recalls(x)
    BY <2>2 DEF Recalls
  <2>4. \A x \in FMems : Praises(x)' = Praises(x) + (IF x \in ids THEN 1 ELSE 0)
    BY <2>2, PraisesAppend
  <2>5. \A x \in FMems : Cardinality(Owing(x)') = Cardinality(Owing(x)) + (IF x \in ids THEN 1 ELSE 0)
    BY <2>1, <2>2, OwingStarts
  <2>6. FeedbackTypeOK'
    <3>1. praised' \in Seq(SUBSET FMems)
      BY <2>2 DEF FeedbackTypeOK
    <3>2. asker' \in [Askers -> Asked]
      BY <2>1, <2>2 DEF FeedbackTypeOK
    <3> QED
      BY <3>1, <3>2, <2>2 DEF FeedbackTypeOK
  <2>7. \A d \in Askers : asker'[d].pc = "idle" => asker'[d].left = {}
    BY <2>1, <2>2 DEF FeedbackTypeOK
  <2>8. \A x \in FMems : \E d \in Nat, r \in Nat :
            /\ reinforced'[x] + Cardinality(Owing(x)') = r
            /\ r =< reinforced[x] + Cardinality(Owing(x)) + d
            /\ Praises(x)' = Praises(x) + d
    BY <2>2, <2>4, <2>5, <1>t
  <2> QED
    BY <2>2, <2>3, <2>6, <2>7, <2>8, CallMove
<1>6. ASSUME NEW c \in Askers, Boost(c) PROVE FeedbackInv'
  <2>1. PICK y \in asker[c].left :
            /\ reinforced' = [reinforced EXCEPT ![y] = @ + 1]
            /\ asker' = [asker EXCEPT ![c] =
                   IF asker[c].left = {y} THEN Quiet
                   ELSE [pc |-> "boost", left |-> asker[c].left \ {y}]]
    BY <1>6 DEF Boost
  <2>2. asker[c].pc = "boost" /\ UNCHANGED <<timesRetrieved, event, counting, praised>>
    BY <1>6 DEF Boost
  <2>3. asker[c] \in Asked /\ y \in FMems
    BY DEF FeedbackTypeOK, Asked
  <2>4. PICK a : a = IF asker[c].left = {y} THEN Quiet ELSE [pc |-> "boost", left |-> asker[c].left \ {y}]
    OBVIOUS
  <2>5. a \in Asked /\ a.left = asker[c].left \ {y} /\ (a.pc = "idle" => a.left = {})
    <3>1. CASE asker[c].left = {y}
      BY <3>1, <2>4, <1>q
    <3>2. CASE asker[c].left # {y}
      BY <3>2, <2>2, <2>3, <2>4 DEF Asked
    <3> QED
      BY <3>1, <3>2
  <2>6. asker' = [asker EXCEPT ![c] = a]
    BY <2>1, <2>4
  <2>7. \A x \in FMems : Cardinality(Owing(x)') + (IF x \in asker[c].left \ a.left THEN 1 ELSE 0)
                            = Cardinality(Owing(x))
    BY <2>5, <2>6, OwingEnds
  <2>8. \A x \in FMems : Recalls(x)' = Recalls(x) /\ Praises(x)' = Praises(x)
    BY <2>2 DEF Recalls, Praises
  <2>9. FeedbackTypeOK'
    <3>1. reinforced' \in [FMems -> Nat]
      BY <2>1, <2>3 DEF FeedbackTypeOK
    <3>2. asker' \in [Askers -> Asked]
      BY <2>5, <2>6 DEF FeedbackTypeOK
    <3> QED
      BY <3>1, <3>2, <2>2 DEF FeedbackTypeOK
  <2>10. \A d \in Askers : asker'[d].pc = "idle" => asker'[d].left = {}
    BY <2>5, <2>6 DEF FeedbackTypeOK
  <2>11. ASSUME NEW x \in FMems
         PROVE  reinforced'[x] + Cardinality(Owing(x)') = reinforced[x] + Cardinality(Owing(x))
    <3>0. Cardinality(Owing(x)') \in Nat
      <4>1. Owing(x)' \subseteq Askers
        BY DEF Owing
      <4> QED
        BY <4>1, FeedbackAssumption, FS_Subset, FS_CardinalityType
    <3>1. CASE x = y
      <4>1. x \in asker[c].left \ a.left
        BY <3>1, <2>5
      <4>2. Cardinality(Owing(x)') + 1 = Cardinality(Owing(x))
        BY <4>1, <2>7
      <4>3. reinforced'[x] = reinforced[x] + 1
        BY <3>1, <2>1 DEF FeedbackTypeOK
      <4> QED
        BY <4>2, <4>3, <3>0, <1>t
    <3>2. CASE x # y
      <4>1. x \notin asker[c].left \ a.left
        BY <3>2, <2>5
      <4>2. Cardinality(Owing(x)') + 0 = Cardinality(Owing(x))
        BY <4>1, <2>7
      <4>3. reinforced'[x] = reinforced[x]
        BY <3>2, <2>1 DEF FeedbackTypeOK
      <4> QED
        BY <4>2, <4>3, <3>0, <1>t
    <3> QED
      BY <3>1, <3>2
  <2>12. \A x \in FMems : \E d \in Nat, r \in Nat :
            /\ reinforced'[x] + Cardinality(Owing(x)') = r
            /\ r =< reinforced[x] + Cardinality(Owing(x)) + d
            /\ Praises(x)' = Praises(x) + d
    BY <2>8, <2>11, <1>t
  <2> QED
    BY <2>2, <2>8, <2>9, <2>10, <2>12, CallMove
<1>7. ASSUME NEW c \in Askers, BoostStops(c) PROVE FeedbackInv'
  <2>1. /\ asker' = [asker EXCEPT ![c] = Quiet]
        /\ UNCHANGED <<timesRetrieved, reinforced, event, counting, praised>>
    BY <1>7 DEF BoostStops
  <2>2. \A x \in FMems : Cardinality(Owing(x)') + (IF x \in asker[c].left \ Quiet.left THEN 1 ELSE 0)
                            = Cardinality(Owing(x))
    BY <2>1, <1>q, OwingEnds
  <2>3. \A x \in FMems : Recalls(x)' = Recalls(x) /\ Praises(x)' = Praises(x)
    BY <2>1 DEF Recalls, Praises
  <2>4. FeedbackTypeOK'
    BY <2>1, <1>q DEF FeedbackTypeOK
  <2>5. \A d \in Askers : asker'[d].pc = "idle" => asker'[d].left = {}
    BY <2>1, <1>q DEF FeedbackTypeOK
  <2>6. \A x \in FMems : Cardinality(Owing(x)') \in Nat
    <3>1. \A x \in FMems : Owing(x)' \subseteq Askers
      BY DEF Owing
    <3> QED
      BY <3>1, FeedbackAssumption, FS_Subset, FS_CardinalityType
  <2>7. \A x \in FMems : \E d \in Nat, r \in Nat :
            /\ reinforced'[x] + Cardinality(Owing(x)') = r
            /\ r =< reinforced[x] + Cardinality(Owing(x)) + d
            /\ Praises(x)' = Praises(x) + d
    BY <2>1, <2>2, <2>3, <2>6, <1>t
  <2> QED
    BY <2>1, <2>3, <2>4, <2>5, <2>7, CallMove
<1>8. CASE UNCHANGED fbVars
  BY <1>8 DEF fbVars, FeedbackTypeOK, Recalls, Praises, Owing
<1> QED
  BY <1>1, <1>2, <1>3, <1>4, <1>5, <1>6, <1>7, <1>8 DEF FeedbackNext

(* For every set of memories, calls and stops: the denominator of precision     *)
(* never exceeds the recalls that returned the memory, and its reinforcements   *)
(* never exceed the praise it was given.                                        *)
THEOREM FeedbackCounts == FeedbackSpec => []FeedbackCountedOnce
<1>1. FeedbackInv => FeedbackCountedOnce
  <2> SUFFICES ASSUME FeedbackInv PROVE FeedbackCountedOnce
    OBVIOUS
  <2>1. \A x \in FMems : /\ Recalls(x) \in Nat /\ Praises(x) \in Nat
                         /\ Cardinality(Owing(x)) \in Nat
                         /\ reinforced[x] \in Nat /\ timesRetrieved[x] \in Nat
    BY CountsType, OwingFinite DEF FeedbackInv, FeedbackTypeOK
  <2> QED
    BY <2>1 DEF FeedbackInv, FeedbackCountedOnce, DenominatorCountsRecalls, MisfiresNotReinforced
<1>2. FeedbackSpec => []FeedbackInv
  BY FeedbackInitInv, FeedbackNextInv, PTL DEF FeedbackSpec
<1> QED
  BY <1>1, <1>2, PTL

-----------------------------------------------------------------------------
(* Consolidation.                                                          *)

Pairs == CMems \X CMems
EdgeRecs == [src : CMems, tgt : CMems, type : {"contradicts", "supersedes"}, str : Nat]
SleepRecs == [pc : {"idle", "scan", "walk", "done", "failed", "refused"},
              todo : SUBSET CMems, processed : SUBSET SUBSET CMems,
              pend : SUBSET Pairs, uncaught : SUBSET Pairs, calls : Nat,
              pair : {<<>>} \cup Pairs, start : SUBSET CMems]

Decisions == [win : CMems, lose : CMems, merged : SUBSET CMems]

\* The pairs a run may still store an edge for.
Waiting(r) == r.pend \cup r.uncaught

\* The pair a walk is about to write is more than a day apart, newer first.
Ordered(r) == (r.pc = "walk" /\ r.pair # <<>>) => Born[r.pair[1]] > Born[r.pair[2]] + 1

\* A scan meets every pair once, in one direction.
MetOnce(r) ==
    r.pc = "scan" => \A p, q \in Waiting(r) :
        /\ Canonical(p[1], p[2]) \in r.processed
        /\ Canonical(p[1], p[2]) = Canonical(q[1], q[2]) => p = q

SleeperOK(r) == r \in SleepRecs /\ Ordered(r) /\ MetOnce(r)

ConsTypeOK ==
    /\ valid \in [CMems -> {"live", "superseded", "merged", "forgotten"}]
    /\ by \in [CMems -> CMems] /\ facts \in [CMems -> SUBSET CMems]
    /\ edges \subseteq EdgeRecs /\ runsOverlapped \in BOOLEAN
    /\ sleeper \in [Sleepers -> SleepRecs]
    /\ \A s \in Sleepers : Ordered(sleeper[s]) /\ MetOnce(sleeper[s])
    /\ merger \in [pc : {"idle", "merge", "done"}, decided : SUBSET Decisions]

LEMMA RestingRec ==
    /\ NotAsleep \in SleepRecs /\ NotAsleep.pc = "idle" /\ NotAsleep.pair = <<>>
    /\ Waiting(NotAsleep) = {}
BY DEF NotAsleep, SleepRecs, Waiting

\* A run that ends, whatever its last word.
LEMMA EndedRec ==
    ASSUME NEW pc \in {"done", "failed"}
    PROVE  LET r == [NotAsleep EXCEPT !.pc = pc] IN SleeperOK(r) /\ r.pc = pc
<1>1. PICK r : r = [NotAsleep EXCEPT !.pc = pc]
  OBVIOUS
<1>2. r \in SleepRecs /\ r.pc = pc
  BY <1>1 DEF NotAsleep, SleepRecs
<1> QED
  BY <1>1, <1>2 DEF SleeperOK, Ordered, MetOnce

LEMMA StartedRec ==
    ASSUME NEW S \in SUBSET CMems, NEW T \in SUBSET CMems
    PROVE  LET r == [NotAsleep EXCEPT !.pc = "scan", !.start = S, !.todo = T]
           IN  SleeperOK(r) /\ r.pc = "scan" /\ Waiting(r) = {}
<1>1. PICK r : r = [NotAsleep EXCEPT !.pc = "scan", !.start = S, !.todo = T]
  OBVIOUS
<1>2. r \in SleepRecs /\ r.pc = "scan" /\ r.pend = {} /\ r.uncaught = {}
  BY <1>1 DEF NotAsleep, SleepRecs
<1> QED
  BY <1>1, <1>2 DEF SleeperOK, Ordered, MetOnce, Waiting

LEMMA WalkRec ==
    ASSUME NEW T \in SUBSET CMems
    PROVE  LET r == [NotAsleep EXCEPT !.pc = "walk", !.todo = T]
           IN  SleeperOK(r) /\ r.pc = "walk"
<1>1. PICK r : r = [NotAsleep EXCEPT !.pc = "walk", !.todo = T]
  OBVIOUS
<1>2. r \in SleepRecs /\ r.pc = "walk" /\ r.pair = <<>>
  BY <1>1 DEF NotAsleep, SleepRecs
<1> QED
  BY <1>1, <1>2 DEF SleeperOK, Ordered, MetOnce, Waiting

LEMMA RefusedRec ==
    ASSUME NEW p \in Pairs, NEW S \in SUBSET CMems
    PROVE  LET r == [NotAsleep EXCEPT !.pc = "refused", !.pair = p, !.start = S]
           IN  SleeperOK(r) /\ r.pc = "refused"
<1>1. PICK r : r = [NotAsleep EXCEPT !.pc = "refused", !.pair = p, !.start = S]
  OBVIOUS
<1>2. r \in SleepRecs /\ r.pc = "refused"
  BY <1>1 DEF NotAsleep, SleepRecs
<1> QED
  BY <1>1, <1>2 DEF SleeperOK, Ordered, MetOnce, Waiting

\* Storing, dropping or promoting pairs of the scan leaves it in order.
LEMMA FewerRec ==
    ASSUME NEW r \in SleepRecs, MetOnce(r), r.pc = "scan",
           NEW t \in SleepRecs, t.pc = "scan", t.processed = r.processed,
           Waiting(t) \subseteq Waiting(r)
    PROVE  SleeperOK(t)
BY DEF SleeperOK, Ordered, MetOnce

\* Scanning memory x adds pairs that were not met before.
LEMMA ScanRec ==
    ASSUME NEW r \in SleepRecs, MetOnce(r), r.pc = "scan",
           NEW t \in SleepRecs, t.pc = "scan",
           NEW x \in CMems, NEW new \in SUBSET (CMems \ {x}),
           \A y \in new : Canonical(x, y) \notin r.processed,
           t.processed = r.processed \cup {Canonical(x, y) : y \in CMems \ {x}},
           Waiting(t) \subseteq Waiting(r) \cup {<<x, y>> : y \in new}
    PROVE  SleeperOK(t)
<1>1. ASSUME NEW p \in Waiting(t), NEW q \in Waiting(t)
      PROVE  /\ Canonical(p[1], p[2]) \in t.processed
             /\ Canonical(p[1], p[2]) = Canonical(q[1], q[2]) => p = q
  <2>1. CASE p \in Waiting(r) /\ q \in Waiting(r)
    BY <2>1 DEF MetOnce
  <2>2. CASE p \in Waiting(r) /\ q \notin Waiting(r)
    <3>1. PICK z \in new : q = <<x, z>>
      BY <2>2
    <3>2. Canonical(q[1], q[2]) \notin r.processed
      BY <3>1
    <3> QED
      BY <3>2, <2>2 DEF MetOnce
  <2>3. CASE p \notin Waiting(r) /\ q \in Waiting(r)
    <3>1. PICK z \in new : p = <<x, z>>
      BY <2>3
    <3>2. Canonical(p[1], p[2]) = Canonical(x, z) /\ Canonical(x, z) \notin r.processed
      BY <3>1
    <3>3. Canonical(q[1], q[2]) \in r.processed
      BY <2>3 DEF MetOnce
    <3>4. Canonical(x, z) \in t.processed
      BY <3>1
    <3> QED
      BY <3>2, <3>3, <3>4
  <2>4. CASE p \notin Waiting(r) /\ q \notin Waiting(r)
    <3>1. PICK y \in new, z \in new : p = <<x, y>> /\ q = <<x, z>>
      BY <2>4
    <3>2. {x, y} = {x, z} => y = z
      BY <3>1
    <3>3. Canonical(x, y) \in t.processed
      BY <3>1
    <3> QED
      BY <3>1, <3>2, <3>3 DEF Canonical
  <2> QED
    BY <2>1, <2>2, <2>3, <2>4
<1> QED
  BY <1>1 DEF SleeperOK, Ordered, MetOnce

\* The steps of a run that write nothing but its own state: the pairs it waits
\* with afterwards were waiting before or have no contradicts edge.
LEMMA QuietSleep ==
    ASSUME ConsTypeOK, NEW s \in Sleepers,
           \/ ScanMemory(s) \/ Classify(s) \/ ClassifyYes(s) \/ DetectEnds(s)
           \/ WalkEdge(s) \/ SleepEnds(s) \/ SleepAborts(s)
    PROVE  /\ \E r \in SleepRecs :
                /\ SleeperOK(r) /\ sleeper' = [sleeper EXCEPT ![s] = r]
                /\ r.pc = "scan" =>
                     /\ sleeper[s].pc = "scan"
                     /\ \A p \in Waiting(r) : p \in Waiting(sleeper[s]) \/ ~Contradicts(p[1], p[2])
           /\ Asleep(s)
           /\ UNCHANGED <<valid, by, facts, edges, merger, decays, runsOverlapped>>
<1>r. /\ sleeper[s] \in SleepRecs /\ MetOnce(sleeper[s])
  BY DEF ConsTypeOK
<1>1. CASE ScanMemory(s)
  <2>1. PICK x \in sleeper[s].todo :
          LET new == Fresh(s, x)
              hit == {y \in new : IsContradiction(x, y)} IN
          Sleep(s, [sleeper[s] EXCEPT
              !.todo = @ \ {x},
              !.pend = {<<x, y>> : y \in hit},
              !.processed = @ \cup {Canonical(x, y) : y \in CMems \ {x}},
              !.uncaught = IF s \in LLMSleepers
                           THEN @ \cup {<<x, y>> : y \in new \ hit} ELSE @])
    BY <1>1 DEF ScanMemory
  <2>2. x \in CMems
    BY <1>r DEF SleepRecs
  <2>3. PICK new \in SUBSET (CMems \ {x}) : new = Fresh(s, x)
    BY DEF Fresh
  <2>4. PICK hit \in SUBSET new : hit = {y \in new : IsContradiction(x, y)}
    OBVIOUS
  <2>5. /\ \A y \in new : Canonical(x, y) \notin sleeper[s].processed
        /\ \A y \in new : ~Contradicts(x, y)
    BY <2>3 DEF Fresh
  <2>6. PICK C : C = {Canonical(x, y) : y \in CMems \ {x}}
    OBVIOUS
  <2>7. C \in SUBSET SUBSET CMems
    BY <2>2, <2>6 DEF Canonical
  <2>8. PICK H : H = {<<x, y>> : y \in hit}
    OBVIOUS
  <2>9. PICK U : U = IF s \in LLMSleepers
                     THEN sleeper[s].uncaught \cup {<<x, y>> : y \in new \ hit}
                     ELSE sleeper[s].uncaught
    OBVIOUS
  <2>10. H \in SUBSET Pairs /\ U \in SUBSET Pairs
    BY <1>r, <2>2, <2>8, <2>9 DEF Pairs, SleepRecs
  <2>11. PICK t : t = [sleeper[s] EXCEPT !.todo = @ \ {x}, !.pend = H,
                                        !.processed = @ \cup C, !.uncaught = U]
    OBVIOUS
  <2>12. /\ t \in SleepRecs /\ t.pc = sleeper[s].pc /\ t.pend = H /\ t.uncaught = U
         /\ t.processed = sleeper[s].processed \cup C
    BY <1>r, <2>7, <2>10, <2>11 DEF SleepRecs
  <2>13. sleeper' = [sleeper EXCEPT ![s] = t]
    BY <2>1, <2>3, <2>4, <2>6, <2>8, <2>9, <2>11 DEF Sleep
  <2>14. sleeper[s].pc = "scan" /\ sleeper[s].pend = {}
    BY <1>1 DEF ScanMemory
  <2>15. Waiting(t) \subseteq Waiting(sleeper[s]) \cup {<<x, y>> : y \in new}
    BY <2>8, <2>9, <2>12 DEF Waiting
  <2>16. SleeperOK(t)
    BY <1>r, <2>2, <2>5, <2>6, <2>12, <2>14, <2>15, ScanRec
  <2>17. \A p \in Waiting(t) : p \in Waiting(sleeper[s]) \/ ~Contradicts(p[1], p[2])
    BY <2>5, <2>15
  <2> QED
    BY <1>1, <2>12, <2>13, <2>14, <2>16, <2>17 DEF ScanMemory, Asleep
<1>2. CASE Classify(s)
  <2>1. PICK p \in sleeper[s].uncaught :
          Sleep(s, [sleeper[s] EXCEPT !.calls = @ + 1, !.uncaught = @ \ {p}])
    BY <1>2 DEF Classify
  <2>2. PICK t : t = [sleeper[s] EXCEPT !.calls = @ + 1, !.uncaught = @ \ {p}]
    OBVIOUS
  <2>3. /\ t \in SleepRecs /\ t.pc = sleeper[s].pc /\ t.pend = sleeper[s].pend
        /\ t.uncaught = sleeper[s].uncaught \ {p} /\ t.processed = sleeper[s].processed
    <3>1. sleeper[s].calls + 1 \in Nat /\ sleeper[s].uncaught \ {p} \in SUBSET Pairs /\ p \in Pairs
      BY <1>r DEF SleepRecs
    <3>2. PICK n \in Nat, U \in SUBSET Pairs :
              n = sleeper[s].calls + 1 /\ U = sleeper[s].uncaught \ {p}
      BY <3>1
    <3>3. t = [sleeper[s] EXCEPT !.calls = n, !.uncaught = U]
      BY <2>2, <3>2
    <3> QED
      BY <1>r, <3>1, <3>2, <3>3 DEF SleepRecs
  <2>4. Waiting(t) \subseteq Waiting(sleeper[s]) /\ sleeper[s].pc = "scan"
    BY <1>2, <2>3 DEF Waiting, Classify
  <2>5. SleeperOK(t)
    BY <1>r, <2>3, <2>4, FewerRec
  <2> QED
    BY <1>2, <2>1, <2>2, <2>3, <2>4, <2>5 DEF Classify, Asleep, Sleep
<1>3. CASE ClassifyYes(s)
  <2>1. PICK p \in sleeper[s].uncaught :
          Sleep(s, [sleeper[s] EXCEPT !.calls = @ + 1, !.uncaught = @ \ {p}, !.pend = {p}])
    BY <1>3 DEF ClassifyYes
  <2>2. PICK t : t = [sleeper[s] EXCEPT !.calls = @ + 1, !.uncaught = @ \ {p}, !.pend = {p}]
    OBVIOUS
  <2>3. /\ t \in SleepRecs /\ t.pc = sleeper[s].pc /\ t.pend = {p}
        /\ t.uncaught = sleeper[s].uncaught \ {p} /\ t.processed = sleeper[s].processed
    <3>1. sleeper[s].calls + 1 \in Nat /\ sleeper[s].uncaught \ {p} \in SUBSET Pairs /\ p \in Pairs
      BY <1>r DEF SleepRecs
    <3>2. PICK n \in Nat, U \in SUBSET Pairs :
              n = sleeper[s].calls + 1 /\ U = sleeper[s].uncaught \ {p}
      BY <3>1
    <3>3. t = [sleeper[s] EXCEPT !.calls = n, !.uncaught = U, !.pend = {p}]
      BY <2>2, <3>2
    <3> QED
      BY <1>r, <3>1, <3>2, <3>3 DEF SleepRecs
  <2>4. Waiting(t) \subseteq Waiting(sleeper[s]) /\ sleeper[s].pc = "scan"
    BY <1>3, <2>3 DEF Waiting, ClassifyYes
  <2>5. SleeperOK(t)
    BY <1>r, <2>3, <2>4, FewerRec
  <2> QED
    BY <1>3, <2>1, <2>2, <2>3, <2>4, <2>5 DEF ClassifyYes, Asleep, Sleep
<1>4. CASE DetectEnds(s)
  <2>1. PICK t : t = IF s \in SupersedingSleepers
                     THEN [NotAsleep EXCEPT !.pc = "walk", !.todo = {x \in CMems : Live(x)}]
                     ELSE [NotAsleep EXCEPT !.pc = "done"]
    OBVIOUS
  <2>2. SleeperOK(t) /\ t.pc \in {"walk", "done"}
    <3>1. CASE s \in SupersedingSleepers
      <4>1. PICK T \in SUBSET CMems : T = {x \in CMems : Live(x)}
        OBVIOUS
      <4> QED
        BY <2>1, <3>1, <4>1, WalkRec
    <3>2. CASE s \notin SupersedingSleepers
      BY <2>1, <3>2, EndedRec
    <3> QED
      BY <3>1, <3>2
  <2> QED
    BY <1>4, <2>1, <2>2 DEF DetectEnds, Asleep, Sleep, SleeperOK
<1>5. CASE WalkEdge(s)
  <2>1. PICK x \in sleeper[s].todo, e \in edges :
          LET p == <<e.src, e.tgt>> IN
          Sleep(s, [sleeper[s] EXCEPT
              !.processed = @ \cup {Canonical(e.src, e.tgt)},
              !.pair = IF Live(e.src) /\ Live(e.tgt) /\ Gap(p) > 1
                       THEN NewerFirst(p) ELSE <<>>])
    BY <1>5 DEF WalkEdge
  <2>0. PICK p : p = <<e.src, e.tgt>>
    OBVIOUS
  <2>2. p \in Pairs /\ p = <<e.src, e.tgt>> /\ p[1] = e.src /\ p[2] = e.tgt
    BY <2>0 DEF ConsTypeOK, EdgeRecs, Pairs
  <2>3. PICK n : n = IF Live(e.src) /\ Live(e.tgt) /\ Gap(p) > 1 THEN NewerFirst(p) ELSE <<>>
    OBVIOUS
  <2>4. n \in {<<>>} \cup Pairs /\ (n # <<>> => Born[n[1]] > Born[n[2]] + 1)
    <3>1. CASE Live(e.src) /\ Live(e.tgt) /\ Gap(p) > 1
      <4>1. Born[p[1]] \in Nat /\ Born[p[2]] \in Nat
        BY <2>2, ConsolidationAssumption DEF Pairs
      <4>2. CASE Born[p[1]] > Born[p[2]]
        <5>1. n = p
          BY <2>3, <3>1, <4>2 DEF NewerFirst
        <5> QED
          BY <5>1, <2>2, <3>1, <4>1, <4>2 DEF Gap
      <4>3. CASE ~(Born[p[1]] > Born[p[2]])
        <5>1. n = <<p[2], p[1]>>
          BY <2>3, <3>1, <4>3 DEF NewerFirst
        <5>2. n \in Pairs /\ n[1] = p[2] /\ n[2] = p[1]
          BY <5>1, <2>2 DEF Pairs
        <5> QED
          BY <5>2, <3>1, <4>1, <4>3 DEF Gap
      <4> QED
        BY <4>2, <4>3
    <3>2. CASE ~(Live(e.src) /\ Live(e.tgt) /\ Gap(p) > 1)
      BY <2>3, <3>2
    <3> QED
      BY <3>1, <3>2
  <2>5. PICK C : C = Canonical(e.src, e.tgt)
    OBVIOUS
  <2>6. C \in SUBSET CMems
    BY <2>2, <2>5 DEF Canonical, Pairs
  <2>7. PICK t : t = [sleeper[s] EXCEPT !.processed = @ \cup {C}, !.pair = n]
    OBVIOUS
  <2>8. t \in SleepRecs /\ t.pc = sleeper[s].pc /\ t.pair = n
    BY <1>r, <2>4, <2>6, <2>7 DEF SleepRecs
  <2>9. sleeper[s].pc = "walk"
    BY <1>5 DEF WalkEdge
  <2>10. SleeperOK(t)
    BY <2>4, <2>8, <2>9 DEF SleeperOK, Ordered, MetOnce
  <2>11. sleeper' = [sleeper EXCEPT ![s] = t]
    BY <2>1, <2>2, <2>3, <2>5, <2>7 DEF Sleep
  <2> QED
    BY <1>5, <2>8, <2>9, <2>10, <2>11 DEF WalkEdge, Asleep
<1>6. CASE SleepEnds(s) \/ SleepAborts(s)
  <2>1. Asleep(s) /\ UNCHANGED <<valid, by, facts, edges, merger, decays, runsOverlapped>>
    BY <1>6 DEF SleepEnds, SleepAborts, Asleep
  <2>2. PICK pc \in {"done", "failed"} : sleeper' = [sleeper EXCEPT ![s] = [NotAsleep EXCEPT !.pc = pc]]
    BY <1>6 DEF SleepEnds, SleepAborts, Sleep
  <2>3. PICK t : t = [NotAsleep EXCEPT !.pc = pc]
    OBVIOUS
  <2>4. SleeperOK(t) /\ t.pc = pc
    BY <2>3, EndedRec
  <2> QED
    BY <2>1, <2>2, <2>3, <2>4 DEF SleeperOK
<1> QED
  BY <1>1, <1>2, <1>3, <1>4, <1>5, <1>6

\* StoreRelationship stores a waiting pair, or refuses it and ends the run.
LEMMA StoreMoves ==
    ASSUME ConsTypeOK, NEW s \in Sleepers, StoreHit(s)
    PROVE  /\ \E r \in SleepRecs :
                /\ SleeperOK(r) /\ sleeper' = [sleeper EXCEPT ![s] = r]
                /\ \/ edges' = edges /\ r.pc = "refused"
                   \/ \E p \in Waiting(sleeper[s]) \cap Pairs :
                         /\ edges' = Upsert(p[1], p[2], "contradicts") /\ r.pc = "scan"
                         /\ Waiting(r) \subseteq Waiting(sleeper[s]) \ {p}
           /\ sleeper[s].pc = "scan"
           /\ UNCHANGED <<valid, by, facts, merger, decays, runsOverlapped>>
<1>r. sleeper[s] \in SleepRecs /\ MetOnce(sleeper[s])
  BY DEF ConsTypeOK
<1>1. PICK p \in sleeper[s].pend : StoreContradiction(s, p)
  BY DEF StoreHit
<1>2. sleeper[s].pc = "scan" /\ UNCHANGED <<valid, by, facts, merger, decays, runsOverlapped>>
  BY DEF StoreHit
<1>3. p \in Pairs /\ p \in Waiting(sleeper[s])
  BY <1>r DEF SleepRecs, Waiting
<1>4. CASE Live(p[1]) /\ Live(p[2])
  <2>1. PICK P, U : P = sleeper[s].pend \ {p} /\ U = sleeper[s].uncaught \ {p}
    OBVIOUS
  <2>2. P \in SUBSET Pairs /\ U \in SUBSET Pairs
    BY <1>r, <2>1 DEF SleepRecs
  <2>3. PICK t : t = [sleeper[s] EXCEPT !.pend = P, !.uncaught = U]
    OBVIOUS
  <2>4. /\ t \in SleepRecs /\ t.pc = sleeper[s].pc /\ t.processed = sleeper[s].processed
        /\ t.pend = P /\ t.uncaught = U
    BY <1>r, <2>2, <2>3 DEF SleepRecs
  <2>5. Waiting(t) \subseteq Waiting(sleeper[s]) \ {p}
    BY <2>1, <2>4 DEF Waiting
  <2>6. SleeperOK(t)
    BY <1>r, <1>2, <2>4, <2>5, FewerRec
  <2>7. edges' = Upsert(p[1], p[2], "contradicts") /\ sleeper' = [sleeper EXCEPT ![s] = t]
    BY <1>1, <1>4, <2>1, <2>3 DEF StoreContradiction, Sleep
  <2> QED
    BY <1>2, <1>3, <2>4, <2>5, <2>6, <2>7
<1>5. CASE ~(Live(p[1]) /\ Live(p[2]))
  <2>1. PICK S \in SUBSET CMems : S = sleeper[s].start
    BY <1>r DEF SleepRecs
  <2>2. PICK t : t = [NotAsleep EXCEPT !.pc = "refused", !.pair = p, !.start = S]
    OBVIOUS
  <2>3. SleeperOK(t) /\ t.pc = "refused"
    BY <1>3, <2>1, <2>2, RefusedRec
  <2>4. edges' = edges /\ sleeper' = [sleeper EXCEPT ![s] = t]
    BY <1>1, <1>5, <2>1, <2>2 DEF StoreContradiction, Sleep
  <2> QED
    BY <1>2, <2>3, <2>4 DEF SleeperOK
<1> QED
  BY <1>4, <1>5

\* The transaction of AutoSupersede, done or rolled back.
LEMMA SupersedeMoves ==
    ASSUME ConsTypeOK, NEW s \in Sleepers, Supersede(s)
    PROVE  /\ \E r \in SleepRecs :
                /\ SleeperOK(r) /\ sleeper' = [sleeper EXCEPT ![s] = r] /\ r.pc # "scan"
           /\ Asleep(s)
           /\ \/ UNCHANGED <<valid, by, edges>>
              \/ \E new \in CMems, old \in CMems :
                   /\ Born[new] > Born[old] + 1
                   /\ edges' = Upsert(new, old, "supersedes")
                   /\ valid' = IF Live(old) THEN [valid EXCEPT ![old] = "superseded"] ELSE valid
                   /\ by' = IF Live(old) THEN [by EXCEPT ![old] = new] ELSE by
           /\ UNCHANGED <<facts, merger, decays, runsOverlapped>>
<1>r. sleeper[s] \in SleepRecs /\ Ordered(sleeper[s])
  BY DEF ConsTypeOK
<1>1. /\ sleeper[s].pc = "walk" /\ sleeper[s].pair # <<>>
      /\ UNCHANGED <<facts, merger, decays, runsOverlapped>>
  BY DEF Supersede
<1>2. PICK new, old : new = sleeper[s].pair[1] /\ old = sleeper[s].pair[2]
  OBVIOUS
<1>3. new \in CMems /\ old \in CMems /\ Born[new] > Born[old] + 1
  <2>1. sleeper[s].pair \in Pairs
    BY <1>r, <1>1 DEF SleepRecs
  <2> QED
    BY <2>1, <1>r, <1>1, <1>2 DEF Pairs, Ordered
<1>4. CASE \/ Live(old) /\ old \in Fixed
           \/ valid[old] = "merged" \/ valid[new] = "merged"
  <2>1. PICK t : t = [NotAsleep EXCEPT !.pc = "failed"]
    OBVIOUS
  <2>2. SleeperOK(t) /\ t.pc = "failed"
    BY <2>1, EndedRec
  <2>3. sleeper' = [sleeper EXCEPT ![s] = t] /\ UNCHANGED <<valid, by, edges>>
    BY <1>2, <1>4, <2>1 DEF Supersede, Sleep
  <2> QED
    BY <1>1, <2>2, <2>3 DEF SleeperOK, Asleep
<1>5. CASE ~(\/ Live(old) /\ old \in Fixed
             \/ valid[old] = "merged" \/ valid[new] = "merged")
  <2>1. PICK t : t = [sleeper[s] EXCEPT !.pair = <<>>]
    OBVIOUS
  <2>2. t \in SleepRecs /\ t.pc = "walk" /\ t.pair = <<>>
    BY <1>r, <1>1, <2>1 DEF SleepRecs
  <2>3. SleeperOK(t)
    BY <2>2 DEF SleeperOK, Ordered, MetOnce
  <2>4. /\ sleeper' = [sleeper EXCEPT ![s] = t]
        /\ edges' = Upsert(new, old, "supersedes")
        /\ valid' = IF Live(old) THEN [valid EXCEPT ![old] = "superseded"] ELSE valid
        /\ by' = IF Live(old) THEN [by EXCEPT ![old] = new] ELSE by
    BY <1>2, <1>5, <2>1 DEF Supersede, Sleep
  <2> QED
    BY <1>1, <1>3, <2>2, <2>3, <2>4 DEF Asleep
<1> QED
  BY <1>4, <1>5

LEMMA StartMoves ==
    ASSUME ConsTypeOK, NEW s \in Sleepers, SleepStart(s)
    PROVE  \E r \in SleepRecs :
                /\ SleeperOK(r) /\ sleeper' = [sleeper EXCEPT ![s] = r]
                /\ r.pc = "scan" /\ Waiting(r) = {}
<1>1. PICK S, T : S = {x \in CMems : Live(x)} /\ T = {x \in CMems : Live(x) /\ Compared(x)}
  OBVIOUS
<1>2. S \in SUBSET CMems /\ T \in SUBSET CMems
  BY <1>1
<1>3. PICK t : t = [NotAsleep EXCEPT !.pc = "scan", !.start = S, !.todo = T]
  OBVIOUS
<1>4. SleeperOK(t) /\ t.pc = "scan" /\ Waiting(t) = {}
  BY <1>2, <1>3, StartedRec
<1>5. sleeper' = [sleeper EXCEPT ![s] = t]
  BY <1>1, <1>3 DEF SleepStart, Sleep
<1> QED
  BY <1>4, <1>5 DEF SleeperOK

LEMMA SleeperStep ==
    ASSUME ConsTypeOK, NEW s \in Sleepers, NEW r, SleeperOK(r),
           sleeper' = [sleeper EXCEPT ![s] = r]
    PROVE  /\ sleeper' \in [Sleepers -> SleepRecs]
           /\ \A z \in Sleepers : Ordered(sleeper'[z]) /\ MetOnce(sleeper'[z])
           /\ sleeper'[s] = r /\ \A z \in Sleepers \ {s} : sleeper'[z] = sleeper[z]
<1>1. sleeper'[s] = r /\ \A z \in Sleepers \ {s} : sleeper'[z] = sleeper[z]
  BY DEF ConsTypeOK
<1>2. sleeper' \in [Sleepers -> SleepRecs]
  BY DEF ConsTypeOK, SleeperOK
<1>3. \A z \in Sleepers : Ordered(sleeper'[z]) /\ MetOnce(sleeper'[z])
  BY <1>1 DEF ConsTypeOK, SleeperOK
<1> QED
  BY <1>1, <1>2, <1>3

LEMMA UpsertType ==
    ASSUME ConsTypeOK, NEW a \in CMems, NEW b \in CMems, NEW type \in {"contradicts", "supersedes"}
    PROVE  Upsert(a, b, type) \subseteq EdgeRecs
BY ConsolidationAssumption DEF Upsert, ConsTypeOK, EdgeRecs

\* What superseded a memory is more than a day newer.
SuccessorsNewer == \A x \in CMems : valid[x] = "superseded" => Born[by[x]] > Born[x] + 1

(* While no two runs have overlapped at most one is under way, and no pair it   *)
(* waits with has an edge: what it stores cannot repeat an edge.                *)
AloneInv ==
    ~runsOverlapped =>
        /\ \A s, t \in Sleepers : Asleep(s) /\ Asleep(t) => s = t
        /\ \A s \in Sleepers : sleeper[s].pc = "scan" =>
              \A p \in Waiting(sleeper[s]) : ~Contradicts(p[1], p[2])
        /\ \A e, f \in edges : (/\ e.type = "contradicts" /\ f.type = "contradicts"
                                /\ {e.src, e.tgt} = {f.src, f.tgt}) => e = f

DisjointDuplicates ==
    \A p, q \in Duplicates : p # q => {p[1], p[2]} \cap {q[1], q[2]} = {}

(* A decision that still waits was taken from rows no other decision touches:   *)
(* the content it will write is what the two rows hold.                         *)
MergeInv ==
    DisjointDuplicates =>
        /\ \A x \in CMems : x \in facts[x]
        /\ merger.pc = "merge" => \A d \in merger.decided :
              /\ <<d.win, d.lose>> \in Duplicates
              /\ d.merged = facts[d.win] \cup facts[d.lose]
              /\ valid[d.win] # "merged" /\ valid[d.lose] # "merged"
        /\ MergeKeepsFacts

LEMMA ConsInitInv == ConsInit => ConsTypeOK /\ SuccessorsNewer /\ AloneInv /\ MergeInv
<1> SUFFICES ASSUME ConsInit PROVE ConsTypeOK /\ SuccessorsNewer /\ AloneInv /\ MergeInv
  OBVIOUS
<1>1. SleeperOK(NotAsleep)
  BY RestingRec DEF SleeperOK, Ordered, MetOnce
<1>2. \A s \in Sleepers : sleeper[s] = NotAsleep
  BY DEF ConsInit
<1>3. ConsTypeOK
  <2>1. sleeper \in [Sleepers -> SleepRecs]
    BY RestingRec DEF ConsInit
  <2>2. \A s \in Sleepers : Ordered(sleeper[s]) /\ MetOnce(sleeper[s])
    BY <1>1, <1>2 DEF SleeperOK
  <2>3. merger \in [pc : {"idle", "merge", "done"}, decided : SUBSET Decisions]
    BY DEF ConsInit
  <2> QED
    BY <2>1, <2>2, <2>3 DEF ConsInit, ConsTypeOK
<1>4. SuccessorsNewer /\ MergeInv
  BY DEF ConsInit, SuccessorsNewer, MergeInv, MergeKeepsFacts
<1>5. AloneInv
  <2>1. \A s \in Sleepers : sleeper[s].pc = "idle"
    BY <1>2, RestingRec
  <2> QED
    BY <2>1 DEF ConsInit, AloneInv, Asleep
<1> QED
  BY <1>3, <1>4, <1>5

LEMMA ConsTypeStep ==
    ConsTypeOK /\ SuccessorsNewer /\ [ConsNext]_consVars => ConsTypeOK' /\ SuccessorsNewer'
<1> SUFFICES ASSUME ConsTypeOK, SuccessorsNewer, [ConsNext]_consVars
             PROVE  ConsTypeOK' /\ SuccessorsNewer'
  OBVIOUS
<1>1. ASSUME NEW s \in Sleepers, SleepStart(s) PROVE ConsTypeOK' /\ SuccessorsNewer'
  <2>1. PICK r \in SleepRecs : SleeperOK(r) /\ sleeper' = [sleeper EXCEPT ![s] = r]
    BY <1>1, StartMoves
  <2>2. /\ UNCHANGED <<valid, by, facts, edges, merger>> /\ runsOverlapped' \in BOOLEAN
    BY <1>1 DEF SleepStart, ConsTypeOK
  <2>3. sleeper' \in [Sleepers -> SleepRecs] /\ \A z \in Sleepers : Ordered(sleeper'[z]) /\ MetOnce(sleeper'[z])
    BY <2>1, SleeperStep
  <2> QED
    BY <2>2, <2>3 DEF ConsTypeOK, SuccessorsNewer
<1>2. ASSUME NEW s \in Sleepers,
             \/ ScanMemory(s) \/ Classify(s) \/ ClassifyYes(s) \/ DetectEnds(s)
             \/ WalkEdge(s) \/ SleepEnds(s) \/ SleepAborts(s)
      PROVE ConsTypeOK' /\ SuccessorsNewer'
  <2>1. PICK r \in SleepRecs : SleeperOK(r) /\ sleeper' = [sleeper EXCEPT ![s] = r]
    BY <1>2, QuietSleep
  <2>2. UNCHANGED <<valid, by, facts, edges, merger, runsOverlapped>>
    BY <1>2, QuietSleep
  <2>3. sleeper' \in [Sleepers -> SleepRecs] /\ \A z \in Sleepers : Ordered(sleeper'[z]) /\ MetOnce(sleeper'[z])
    BY <2>1, SleeperStep
  <2> QED
    BY <2>2, <2>3 DEF ConsTypeOK, SuccessorsNewer
<1>3. ASSUME NEW s \in Sleepers, StoreHit(s) PROVE ConsTypeOK' /\ SuccessorsNewer'
  <2>1. PICK r \in SleepRecs :
            /\ SleeperOK(r) /\ sleeper' = [sleeper EXCEPT ![s] = r]
            /\ \/ edges' = edges
               \/ \E p \in Pairs : edges' = Upsert(p[1], p[2], "contradicts")
    BY <1>3, StoreMoves
  <2>2. UNCHANGED <<valid, by, facts, merger, runsOverlapped>>
    BY <1>3, StoreMoves
  <2>3. sleeper' \in [Sleepers -> SleepRecs] /\ \A z \in Sleepers : Ordered(sleeper'[z]) /\ MetOnce(sleeper'[z])
    BY <2>1, SleeperStep
  <2>4. edges' \subseteq EdgeRecs
    <3>1. CASE edges' = edges
      BY <3>1 DEF ConsTypeOK
    <3>2. ASSUME NEW p \in Pairs, edges' = Upsert(p[1], p[2], "contradicts") PROVE edges' \subseteq EdgeRecs
      <4>1. p[1] \in CMems /\ p[2] \in CMems
        BY DEF Pairs
      <4> QED
        BY <3>2, <4>1, UpsertType
    <3> QED
      BY <2>1, <3>1, <3>2
  <2> QED
    BY <2>2, <2>3, <2>4 DEF ConsTypeOK, SuccessorsNewer
<1>4. ASSUME NEW s \in Sleepers, Supersede(s) PROVE ConsTypeOK' /\ SuccessorsNewer'
  <2>1. PICK r \in SleepRecs : SleeperOK(r) /\ sleeper' = [sleeper EXCEPT ![s] = r]
    BY <1>4, SupersedeMoves
  <2>2. UNCHANGED <<facts, merger, runsOverlapped>>
    BY <1>4, SupersedeMoves
  <2>3. sleeper' \in [Sleepers -> SleepRecs] /\ \A z \in Sleepers : Ordered(sleeper'[z]) /\ MetOnce(sleeper'[z])
    BY <2>1, SleeperStep
  <2>4. CASE UNCHANGED <<valid, by, edges>>
    BY <2>2, <2>3, <2>4 DEF ConsTypeOK, SuccessorsNewer
  <2>5. ASSUME NEW new \in CMems, NEW old \in CMems, Born[new] > Born[old] + 1,
               edges' = Upsert(new, old, "supersedes"),
               valid' = IF Live(old) THEN [valid EXCEPT ![old] = "superseded"] ELSE valid,
               by' = IF Live(old) THEN [by EXCEPT ![old] = new] ELSE by
        PROVE  ConsTypeOK' /\ SuccessorsNewer'
    <3>1. edges' \subseteq EdgeRecs
      BY <2>5, UpsertType
    <3>2. /\ valid' \in [CMems -> {"live", "superseded", "merged", "forgotten"}]
          /\ by' \in [CMems -> CMems]
      BY <2>5 DEF ConsTypeOK
    <3>3. SuccessorsNewer'
      BY <2>5 DEF ConsTypeOK, SuccessorsNewer, Live
    <3> QED
      BY <2>2, <2>3, <3>1, <3>2, <3>3 DEF ConsTypeOK
  <2> QED
    BY <1>4, <2>4, <2>5, SupersedeMoves
<1>5. CASE DecayAllEdges
  <2>1. edges' \subseteq EdgeRecs
    <3>1. ASSUME NEW e \in edges, e.str > 1 PROVE [e EXCEPT !.str = @ - 1] \in EdgeRecs
      <4>1. e \in EdgeRecs
        BY DEF ConsTypeOK
      <4>2. PICK n \in Nat : n = e.str - 1
        BY <3>1, <4>1 DEF EdgeRecs
      <4> QED
        BY <4>1, <4>2 DEF EdgeRecs
    <3> QED
      BY <1>5, <3>1 DEF DecayAllEdges
  <2> QED
    BY <1>5, <2>1 DEF DecayAllEdges, ConsTypeOK, SuccessorsNewer
<1>6. CASE ReviewMerges
  <2>1. PICK D \in SUBSET MergeCandidates :
         merger' = [pc |-> "merge",
                    decided |-> {[win |-> p[1], lose |-> p[2],
                                  merged |-> facts[p[1]] \cup facts[p[2]]] : p \in D}]
    BY <1>6 DEF ReviewMerges
  <2>2. PICK Q : Q = {[win |-> p[1], lose |-> p[2],
                       merged |-> facts[p[1]] \cup facts[p[2]]] : p \in D}
    OBVIOUS
  <2>3. Q \subseteq Decisions
    <3>1. ASSUME NEW p \in D
          PROVE  [win |-> p[1], lose |-> p[2], merged |-> facts[p[1]] \cup facts[p[2]]] \in Decisions
      <4>1. p \in Duplicates
        BY DEF MergeCandidates
      <4>2. p[1] \in CMems /\ p[2] \in CMems
        BY <4>1, ConsolidationAssumption
      <4>3. facts[p[1]] \cup facts[p[2]] \in SUBSET CMems
        BY <4>2 DEF ConsTypeOK
      <4> QED
        BY <4>2, <4>3 DEF Decisions
    <3> QED
      BY <2>2, <3>1
  <2>4. merger' \in [pc : {"idle", "merge", "done"}, decided : SUBSET Decisions]
    BY <2>1, <2>2, <2>3
  <2> QED
    BY <1>6, <2>4 DEF ReviewMerges, ConsTypeOK, SuccessorsNewer
<1>7. CASE MergeEnds
  <2>1. merger' \in [pc : {"idle", "merge", "done"}, decided : SUBSET Decisions]
    BY <1>7 DEF MergeEnds
  <2> QED
    BY <1>7, <2>1 DEF MergeEnds, ConsTypeOK, SuccessorsNewer
<1>8. ASSUME NEW d \in merger.decided, Merge(d) PROVE ConsTypeOK' /\ SuccessorsNewer'
  <2>1. d \in Decisions
    BY DEF ConsTypeOK
  <2>2. d.win \in CMems /\ d.lose \in CMems /\ d.merged \in SUBSET CMems
    BY <2>1 DEF Decisions
  <2>3. merger' \in [pc : {"idle", "merge", "done"}, decided : SUBSET Decisions]
    BY <1>8 DEF Merge, ConsTypeOK
  <2>4. UNCHANGED <<by, sleeper, runsOverlapped>>
    BY <1>8 DEF Merge
  <2>5. CASE UNCHANGED <<valid, facts, edges>>
    BY <2>3, <2>4, <2>5 DEF ConsTypeOK, SuccessorsNewer
  <2>6. CASE /\ facts' = [facts EXCEPT ![d.win] = d.merged]
             /\ valid' = [valid EXCEPT ![d.lose] = "merged"]
             /\ edges' = {e \in edges : d.lose \notin {e.src, e.tgt}}
    <3>1. /\ facts' \in [CMems -> SUBSET CMems]
          /\ valid' \in [CMems -> {"live", "superseded", "merged", "forgotten"}]
          /\ edges' \subseteq EdgeRecs
      BY <2>2, <2>6 DEF ConsTypeOK
    <3>2. SuccessorsNewer'
      BY <2>2, <2>4, <2>6 DEF ConsTypeOK, SuccessorsNewer
    <3> QED
      BY <2>3, <2>4, <3>1, <3>2 DEF ConsTypeOK
  <2> QED
    BY <1>8, <2>5, <2>6 DEF Merge
<1>9. ASSUME NEW x \in CMems, ForgetMemory(x) PROVE ConsTypeOK' /\ SuccessorsNewer'
  <2>1. valid' \in [CMems -> {"live", "superseded", "merged", "forgotten"}]
    BY <1>9 DEF ForgetMemory, ConsTypeOK
  <2>2. SuccessorsNewer'
    BY <1>9 DEF ForgetMemory, ConsTypeOK, SuccessorsNewer
  <2> QED
    BY <1>9, <2>1, <2>2 DEF ForgetMemory, ConsTypeOK
<1>10. CASE UNCHANGED consVars
  BY <1>10 DEF consVars, ConsTypeOK, SuccessorsNewer
<1> QED
  BY <1>1, <1>2, <1>3, <1>4, <1>5, <1>6, <1>7, <1>8, <1>9, <1>10 DEF ConsNext, SleepStep

\* The edges that tell two memories contradict each other are the same, or fewer,
\* but for the strengths.
LEMMA FewerEdges ==
    ASSUME NEW E, NEW F,
           \A e, f \in E : (/\ e.type = "contradicts" /\ f.type = "contradicts"
                            /\ {e.src, e.tgt} = {f.src, f.tgt}) => e = f,
           \A g \in F : g.type = "contradicts" => g \in E
    PROVE  \A e, f \in F : (/\ e.type = "contradicts" /\ f.type = "contradicts"
                            /\ {e.src, e.tgt} = {f.src, f.tgt}) => e = f
OBVIOUS

LEMMA AloneStep ==
    ConsTypeOK /\ AloneInv /\ [ConsNext]_consVars => AloneInv'
<1> SUFFICES ASSUME ConsTypeOK, AloneInv, [ConsNext]_consVars, ~runsOverlapped'
             PROVE  /\ \A s, t \in Sleepers : (Asleep(s) /\ Asleep(t))' => s = t
                    /\ \A s \in Sleepers : sleeper'[s].pc = "scan" =>
                          \A p \in Waiting(sleeper'[s]) : ~Contradicts(p[1], p[2])'
                    /\ \A e, f \in edges' : (/\ e.type = "contradicts" /\ f.type = "contradicts"
                                             /\ {e.src, e.tgt} = {f.src, f.tgt}) => e = f
  BY DEF AloneInv
<1>0. ~runsOverlapped
  <2>1. CASE UNCHANGED runsOverlapped
    BY <2>1
  <2>2. CASE \E s \in Sleepers : SleepStart(s)
    BY <2>2 DEF SleepStart
  <2> QED
    BY <2>1, <2>2 DEF ConsNext, consVars, SleepStep, ScanMemory, StoreHit, Classify, ClassifyYes,
          DetectEnds, WalkEdge, Supersede, SleepEnds, SleepAborts, DecayAllEdges, ReviewMerges,
          MergeEnds, Merge, ForgetMemory
<1>a. /\ \A s, t \in Sleepers : Asleep(s) /\ Asleep(t) => s = t
      /\ \A s \in Sleepers : sleeper[s].pc = "scan" =>
            \A p \in Waiting(sleeper[s]) : ~Contradicts(p[1], p[2])
      /\ \A e, f \in edges : (/\ e.type = "contradicts" /\ f.type = "contradicts"
                              /\ {e.src, e.tgt} = {f.src, f.tgt}) => e = f
  BY <1>0 DEF AloneInv
\* The run s is the one under way, and r its state after the step.
<1>b. ASSUME NEW s \in Sleepers, NEW r \in SleepRecs, SleeperOK(r),
             sleeper' = [sleeper EXCEPT ![s] = r],
             \A z \in Sleepers \ {s} : ~Asleep(z)
      PROVE  /\ \A z, t \in Sleepers : (Asleep(z) /\ Asleep(t))' => z = t
             /\ \A z \in Sleepers : sleeper'[z].pc = "scan" => z = s
             /\ sleeper'[s] = r
  <2>1. sleeper'[s] = r /\ \A z \in Sleepers \ {s} : sleeper'[z] = sleeper[z]
    BY <1>b, SleeperStep
  <2>2. \A z \in Sleepers : sleeper'[z].pc \notin {"idle", "done", "failed", "refused"} => z = s
    BY <1>b, <2>1 DEF Asleep
  <2> QED
    BY <2>1, <2>2 DEF Asleep
<1>c. ASSUME UNCHANGED sleeper, \A g \in edges' : g.type = "contradicts" => g \in edges
      PROVE  /\ \A s, t \in Sleepers : (Asleep(s) /\ Asleep(t))' => s = t
             /\ \A s \in Sleepers : sleeper'[s].pc = "scan" =>
                   \A p \in Waiting(sleeper'[s]) : ~Contradicts(p[1], p[2])'
             /\ \A e, f \in edges' : (/\ e.type = "contradicts" /\ f.type = "contradicts"
                                      /\ {e.src, e.tgt} = {f.src, f.tgt}) => e = f
  <2>1. \A s, t \in Sleepers : (Asleep(s) /\ Asleep(t))' => s = t
    BY <1>a, <1>c DEF Asleep
  <2>2. \A s \in Sleepers : sleeper'[s].pc = "scan" =>
            \A p \in Waiting(sleeper'[s]) : ~Contradicts(p[1], p[2])'
    BY <1>a, <1>c DEF Contradicts
  <2>3. PICK E, F : E = edges /\ F = edges'
    OBVIOUS
  <2>4. \A e, f \in F : (/\ e.type = "contradicts" /\ f.type = "contradicts"
                         /\ {e.src, e.tgt} = {f.src, f.tgt}) => e = f
    BY <1>a, <1>c, <2>3, FewerEdges
  <2> QED
    BY <2>1, <2>2, <2>3, <2>4
<1> DEFINE Goal == /\ \A s, t \in Sleepers : (Asleep(s) /\ Asleep(t))' => s = t
                   /\ \A s \in Sleepers : sleeper'[s].pc = "scan" =>
                         \A p \in Waiting(sleeper'[s]) : ~Contradicts(p[1], p[2])'
                   /\ \A e, f \in edges' : (/\ e.type = "contradicts" /\ f.type = "contradicts"
                                            /\ {e.src, e.tgt} = {f.src, f.tgt}) => e = f
<1>1. ASSUME NEW s \in Sleepers, SleepStart(s) PROVE Goal
  <2>1. PICK r \in SleepRecs : /\ SleeperOK(r) /\ sleeper' = [sleeper EXCEPT ![s] = r]
                               /\ Waiting(r) = {}
    BY <1>1, StartMoves
  <2>2. edges' = edges /\ \A z \in Sleepers \ {s} : ~Asleep(z)
    BY <1>1 DEF SleepStart
  <2> QED
    BY <1>a, <1>b, <2>1, <2>2
<1>2. ASSUME NEW s \in Sleepers,
             \/ ScanMemory(s) \/ Classify(s) \/ ClassifyYes(s) \/ DetectEnds(s)
             \/ WalkEdge(s) \/ SleepEnds(s) \/ SleepAborts(s)
      PROVE Goal
  <2>1. PICK r \in SleepRecs :
                /\ SleeperOK(r) /\ sleeper' = [sleeper EXCEPT ![s] = r]
                /\ r.pc = "scan" =>
                     /\ sleeper[s].pc = "scan"
                     /\ \A p \in Waiting(r) : p \in Waiting(sleeper[s]) \/ ~Contradicts(p[1], p[2])
    BY <1>2, QuietSleep
  <2>2. edges' = edges /\ Asleep(s)
    BY <1>2, QuietSleep
  <2>3. \A z \in Sleepers \ {s} : ~Asleep(z)
    BY <1>a, <2>2
  <2>4. r.pc = "scan" => \A p \in Waiting(r) : ~Contradicts(p[1], p[2])
    BY <1>a, <2>1
  <2>5. \A z \in Sleepers : sleeper'[z].pc = "scan" =>
            \A p \in Waiting(sleeper'[z]) : ~Contradicts(p[1], p[2])'
    BY <1>b, <2>1, <2>2, <2>3, <2>4 DEF Contradicts
  <2> QED
    BY <1>a, <1>b, <2>1, <2>2, <2>3, <2>5
<1>3. ASSUME NEW s \in Sleepers, StoreHit(s) PROVE Goal
  <2>1. PICK r \in SleepRecs :
                /\ SleeperOK(r) /\ sleeper' = [sleeper EXCEPT ![s] = r]
                /\ \/ edges' = edges /\ r.pc = "refused"
                   \/ \E p \in Waiting(sleeper[s]) \cap Pairs :
                         /\ edges' = Upsert(p[1], p[2], "contradicts") /\ r.pc = "scan"
                         /\ Waiting(r) \subseteq Waiting(sleeper[s]) \ {p}
    BY <1>3, StoreMoves
  <2>2. sleeper[s].pc = "scan" /\ Asleep(s)
    BY <1>3, StoreMoves DEF Asleep
  <2>3. \A z \in Sleepers \ {s} : ~Asleep(z)
    BY <1>a, <2>2
  <2>4. /\ \A z, t \in Sleepers : (Asleep(z) /\ Asleep(t))' => z = t
        /\ \A z \in Sleepers : sleeper'[z].pc = "scan" => z = s
        /\ sleeper'[s] = r
    BY <1>b, <2>1, <2>3
  <2>5. CASE edges' = edges /\ r.pc = "refused"
    BY <1>a, <2>4, <2>5
  <2>6. ASSUME NEW p \in Waiting(sleeper[s]) \cap Pairs,
               edges' = Upsert(p[1], p[2], "contradicts"), r.pc = "scan",
               Waiting(r) \subseteq Waiting(sleeper[s]) \ {p}
        PROVE  Goal
    <3>1. PICK n : n = [src |-> p[1], tgt |-> p[2], type |-> "contradicts", str |-> FullStrength]
      OBVIOUS
    <3>2. n.src = p[1] /\ n.tgt = p[2] /\ n.type = "contradicts"
      BY <3>1
    <3>3. \A e \in edges' : e \in edges \/ e = n
      BY <2>6, <3>1 DEF Upsert
    <3>4. \A e \in edges : e.type = "contradicts" => {e.src, e.tgt} # {p[1], p[2]}
      BY <1>a, <2>2, <2>6 DEF Contradicts
    <3>5. \A e, f \in edges' : (/\ e.type = "contradicts" /\ f.type = "contradicts"
                                /\ {e.src, e.tgt} = {f.src, f.tgt}) => e = f
      BY <1>a, <3>2, <3>3, <3>4
    <3>6. ASSUME NEW q \in Waiting(r) PROVE ~Contradicts(q[1], q[2])'
      <4>1. q \in Waiting(sleeper[s]) /\ q # p
        BY <2>6
      <4>2. Canonical(p[1], p[2]) # Canonical(q[1], q[2])
        BY <2>2, <2>6, <4>1 DEF ConsTypeOK, MetOnce
      <4>3. ~Contradicts(q[1], q[2])
        BY <1>a, <2>2, <4>1
      <4> QED
        BY <3>2, <3>3, <4>2, <4>3 DEF Contradicts, Canonical
    <3> QED
      BY <2>4, <3>5, <3>6
  <2> QED
    BY <2>1, <2>5, <2>6
<1>4. ASSUME NEW s \in Sleepers, Supersede(s) PROVE Goal
  <2>1. PICK r \in SleepRecs :
            SleeperOK(r) /\ sleeper' = [sleeper EXCEPT ![s] = r] /\ r.pc # "scan"
    BY <1>4, SupersedeMoves
  <2>2. Asleep(s)
    BY <1>4, SupersedeMoves
  <2>3. \A z \in Sleepers \ {s} : ~Asleep(z)
    BY <1>a, <2>2
  <2>4. /\ \A z, t \in Sleepers : (Asleep(z) /\ Asleep(t))' => z = t
        /\ \A z \in Sleepers : sleeper'[z].pc # "scan"
    BY <1>b, <2>1, <2>3
  <2>5. \A g \in edges' : g.type = "contradicts" => g \in edges
    <3>1. edges' = edges \/ \E new, old \in CMems : edges' = Upsert(new, old, "supersedes")
      BY <1>4, SupersedeMoves
    <3> QED
      BY <3>1 DEF Upsert
  <2>6. PICK E, F : E = edges /\ F = edges'
    OBVIOUS
  <2>7. \A e, f \in F : (/\ e.type = "contradicts" /\ f.type = "contradicts"
                         /\ {e.src, e.tgt} = {f.src, f.tgt}) => e = f
    BY <1>a, <2>5, <2>6, FewerEdges
  <2> QED
    BY <2>4, <2>6, <2>7
<1>5. CASE DecayAllEdges
  <2>1. UNCHANGED sleeper
    BY <1>5 DEF DecayAllEdges
  <2>2. ASSUME NEW g \in edges'
        PROVE  \E e \in edges : /\ g = [e EXCEPT !.str = @ - 1]
                                /\ g.src = e.src /\ g.tgt = e.tgt /\ g.type = e.type
    <3>1. PICK e \in edges : g = [e EXCEPT !.str = @ - 1]
      BY <1>5 DEF DecayAllEdges
    <3>2. e \in EdgeRecs
      BY DEF ConsTypeOK
    <3> QED
      BY <3>1, <3>2 DEF EdgeRecs
  <2>3. \A x, y : Contradicts(x, y)' => Contradicts(x, y)
    BY <2>2 DEF Contradicts
  <2>4. \A s, t \in Sleepers : (Asleep(s) /\ Asleep(t))' => s = t
    BY <1>a, <2>1 DEF Asleep
  <2>5. ASSUME NEW f \in edges', NEW g \in edges', f.type = "contradicts", g.type = "contradicts",
               {f.src, f.tgt} = {g.src, g.tgt}
        PROVE  f = g
    <3>1. PICK e1 \in edges : /\ f = [e1 EXCEPT !.str = @ - 1]
                              /\ f.src = e1.src /\ f.tgt = e1.tgt /\ f.type = e1.type
      BY <2>2
    <3>2. PICK e2 \in edges : /\ g = [e2 EXCEPT !.str = @ - 1]
                              /\ g.src = e2.src /\ g.tgt = e2.tgt /\ g.type = e2.type
      BY <2>2
    <3>3. e1 = e2
      BY <1>a, <2>5, <3>1, <3>2
    <3> QED
      BY <3>1, <3>2, <3>3
  <2> QED
    BY <1>a, <2>1, <2>3, <2>4, <2>5
<1>6. CASE ReviewMerges \/ MergeEnds \/ (\E x \in CMems : ForgetMemory(x)) \/ UNCHANGED consVars
  <2>1. UNCHANGED <<sleeper, edges>>
    BY <1>6 DEF ReviewMerges, MergeEnds, ForgetMemory, consVars
  <2> QED
    BY <1>c, <2>1
<1>7. ASSUME NEW d \in merger.decided, Merge(d) PROVE Goal
  <2>1. UNCHANGED sleeper /\ edges' \subseteq edges
    BY <1>7 DEF Merge
  <2> QED
    BY <1>c, <2>1
<1> QED
  BY <1>1, <1>2, <1>3, <1>4, <1>5, <1>6, <1>7 DEF ConsNext, SleepStep

LEMMA MergeStep ==
    ConsTypeOK /\ MergeInv /\ [ConsNext]_consVars => MergeInv'
<1> SUFFICES ASSUME ConsTypeOK, MergeInv, [ConsNext]_consVars, DisjointDuplicates
             PROVE  /\ \A x \in CMems : x \in facts'[x]
                    /\ merger'.pc = "merge" => \A d \in merger'.decided :
                          /\ <<d.win, d.lose>> \in Duplicates
                          /\ d.merged = facts'[d.win] \cup facts'[d.lose]
                          /\ valid'[d.win] # "merged" /\ valid'[d.lose] # "merged"
                    /\ MergeKeepsFacts'
  BY DEF MergeInv, DisjointDuplicates
<1> DEFINE Goal == /\ \A x \in CMems : x \in facts'[x]
                   /\ merger'.pc = "merge" => \A d \in merger'.decided :
                         /\ <<d.win, d.lose>> \in Duplicates
                         /\ d.merged = facts'[d.win] \cup facts'[d.lose]
                         /\ valid'[d.win] # "merged" /\ valid'[d.lose] # "merged"
                   /\ MergeKeepsFacts'
<1>m. /\ \A x \in CMems : x \in facts[x]
      /\ merger.pc = "merge" => \A d \in merger.decided :
            /\ <<d.win, d.lose>> \in Duplicates
            /\ d.merged = facts[d.win] \cup facts[d.lose]
            /\ valid[d.win] # "merged" /\ valid[d.lose] # "merged"
      /\ MergeKeepsFacts
  BY DEF MergeInv
<1>d. \A d \in merger.decided : d \in Decisions /\ d.win \in CMems /\ d.lose \in CMems
  BY DEF ConsTypeOK, Decisions
\* Steps that neither merge nor take a merged memory back.
<1>1. ASSUME UNCHANGED <<facts, merger>>,
             \A x \in CMems : valid'[x] = "merged" <=> valid[x] = "merged"
      PROVE  Goal
  <2>1. MergeKeepsFacts'
    BY <1>1, <1>m DEF MergeKeepsFacts
  <2> QED
    BY <1>1, <1>m, <1>d, <2>1
<1>2. ASSUME NEW s \in Sleepers, SleepStart(s) \/ SleepStep(s) \/ SleepAborts(s) PROVE Goal
  <2>1. UNCHANGED <<facts, merger>>
    BY <1>2 DEF SleepStart, SleepStep, ScanMemory, StoreHit, Classify, ClassifyYes, DetectEnds,
                WalkEdge, Supersede, SleepEnds, SleepAborts
  <2>2. CASE Supersede(s)
    <3>1. \/ UNCHANGED valid
          \/ \E old \in CMems :
               valid' = IF Live(old) THEN [valid EXCEPT ![old] = "superseded"] ELSE valid
      BY <2>2, SupersedeMoves
    <3>2. \A x \in CMems : valid'[x] = "merged" <=> valid[x] = "merged"
      BY <3>1 DEF ConsTypeOK, Live
    <3> QED
      BY <1>1, <2>1, <3>2
  <2>3. CASE ~Supersede(s)
    <3>1. UNCHANGED valid
      BY <1>2, <2>3 DEF SleepStart, SleepStep, ScanMemory, StoreHit, Classify, ClassifyYes,
                DetectEnds, WalkEdge, SleepEnds, SleepAborts
    <3> QED
      BY <1>1, <2>1, <3>1
  <2> QED
    BY <2>2, <2>3
<1>3. CASE DecayAllEdges \/ UNCHANGED consVars
  BY <1>1, <1>3 DEF DecayAllEdges, consVars
<1>4. CASE \E x \in CMems : ForgetMemory(x)
  <2>1. UNCHANGED <<facts, merger>>
    BY <1>4 DEF ForgetMemory
  <2>2. \A x \in CMems : valid'[x] = "merged" <=> valid[x] = "merged"
    BY <1>4 DEF ForgetMemory, ConsTypeOK, Live
  <2> QED
    BY <1>1, <2>1, <2>2
<1>5. CASE MergeEnds
  <2>1. UNCHANGED <<facts, valid>> /\ merger'.pc = "done"
    BY <1>5 DEF MergeEnds
  <2> QED
    BY <1>m, <2>1 DEF MergeKeepsFacts
<1>6. CASE ReviewMerges
  <2>1. PICK D \in SUBSET MergeCandidates :
         merger' = [pc |-> "merge",
                    decided |-> {[win |-> p[1], lose |-> p[2],
                                  merged |-> facts[p[1]] \cup facts[p[2]]] : p \in D}]
    BY <1>6 DEF ReviewMerges
  <2>2. UNCHANGED <<facts, valid>>
    BY <1>6 DEF ReviewMerges
  <2>3. ASSUME NEW d \in merger'.decided
        PROVE  /\ <<d.win, d.lose>> \in Duplicates
               /\ d.merged = facts[d.win] \cup facts[d.lose]
               /\ valid[d.win] # "merged" /\ valid[d.lose] # "merged"
    <3>1. PICK p \in D : d = [win |-> p[1], lose |-> p[2], merged |-> facts[p[1]] \cup facts[p[2]]]
      BY <2>1
    <3>2. p \in Duplicates /\ Live(p[1]) /\ Live(p[2])
      BY DEF MergeCandidates
    <3>3. p = <<p[1], p[2]>>
      BY <3>2, ConsolidationAssumption
    <3> QED
      BY <3>1, <3>2, <3>3 DEF Live
  <2> QED
    BY <1>m, <2>2, <2>3 DEF MergeKeepsFacts
<1>7. ASSUME NEW d \in merger.decided, Merge(d) PROVE Goal
  <2>1. /\ merger.pc = "merge" /\ merger'.pc = "merge"
        /\ merger'.decided = merger.decided \ {d}
    BY <1>7 DEF Merge, ConsTypeOK
  <2>2. CASE UNCHANGED <<valid, facts>>
    <3>1. MergeKeepsFacts'
      BY <1>m, <2>2 DEF MergeKeepsFacts
    <3> QED
      BY <1>m, <2>1, <2>2, <3>1
  <2>3. CASE /\ facts' = [facts EXCEPT ![d.win] = d.merged]
             /\ valid' = [valid EXCEPT ![d.lose] = "merged"]
    <3>1. /\ <<d.win, d.lose>> \in Duplicates /\ d.win # d.lose
          /\ d.merged = facts[d.win] \cup facts[d.lose]
          /\ valid[d.win] # "merged"
      <4>1. <<d.win, d.lose>> \in Duplicates
        BY <1>m, <2>1
      <4>2. PICK p : p = <<d.win, d.lose>>
        OBVIOUS
      <4>3. p \in Duplicates /\ p[1] = d.win /\ p[2] = d.lose
        BY <4>1, <4>2
      <4>4. d.win # d.lose
        BY <4>3, ConsolidationAssumption
      <4> QED
        BY <4>1, <4>4, <1>m, <2>1
    <3>2. /\ d.win \in CMems /\ d.lose \in CMems /\ d \in Decisions
      BY <1>d
    <3>3. /\ facts'[d.win] = facts[d.win] \cup facts[d.lose]
          /\ \A y \in CMems \ {d.win} : facts'[y] = facts[y]
          /\ valid'[d.lose] = "merged" /\ \A y \in CMems \ {d.lose} : valid'[y] = valid[y]
      BY <2>3, <3>1, <3>2 DEF ConsTypeOK
    <3>4. \A x \in CMems : x \in facts'[x]
      BY <1>m, <3>3
    <3>5. ASSUME NEW x \in CMems, valid'[x] = "merged"
          PROVE  \E y \in CMems : valid'[y] # "merged" /\ x \in facts'[y]
      <4>1. PICK y \in CMems : x \in facts[y] /\ (y = d.lose \/ valid[y] # "merged")
        <5>1. CASE x = d.lose
          BY <5>1, <1>m
        <5>2. CASE x # d.lose
          <6>1. valid[x] = "merged"
            BY <5>2, <3>3, <3>5
          <6> QED
            BY <6>1, <1>m DEF MergeKeepsFacts
        <5> QED
          BY <5>1, <5>2
      <4>2. CASE y = d.lose \/ y = d.win
        <5>1. x \in facts'[d.win] /\ valid'[d.win] # "merged"
          BY <4>1, <4>2, <3>1, <3>2, <3>3
        <5> QED
          BY <5>1, <3>2
      <4>3. CASE y # d.lose /\ y # d.win
        <5>1. x \in facts'[y] /\ valid'[y] # "merged"
          BY <4>1, <4>3, <3>3
        <5> QED
          BY <5>1
      <4> QED
        BY <4>2, <4>3
    <3>6. ASSUME NEW o \in merger'.decided
          PROVE  /\ <<o.win, o.lose>> \in Duplicates
                 /\ o.merged = facts'[o.win] \cup facts'[o.lose]
                 /\ valid'[o.win] # "merged" /\ valid'[o.lose] # "merged"
      <4>1. o \in merger.decided /\ o # d
        BY <2>1
      <4>2. /\ <<o.win, o.lose>> \in Duplicates /\ o.merged = facts[o.win] \cup facts[o.lose]
            /\ valid[o.win] # "merged" /\ valid[o.lose] # "merged"
            /\ o \in Decisions /\ o.win \in CMems /\ o.lose \in CMems
        BY <4>1, <1>m, <1>d, <2>1
      <4>3. <<o.win, o.lose>> # <<d.win, d.lose>>
        <5>1. SUFFICES ASSUME o.win = d.win, o.lose = d.lose PROVE FALSE
          OBVIOUS
        <5>2. o.merged = d.merged
          BY <5>1, <4>2, <3>1
        <5>3. /\ o = [win |-> o.win, lose |-> o.lose, merged |-> o.merged]
              /\ d = [win |-> d.win, lose |-> d.lose, merged |-> d.merged]
          BY <4>2, <3>2 DEF Decisions
        <5>4. o = d
          BY <5>1, <5>2, <5>3
        <5> QED
          BY <5>4, <4>1
      <4>4. PICK p \in Duplicates, q \in Duplicates :
                p = <<o.win, o.lose>> /\ q = <<d.win, d.lose>> /\ p # q
        BY <3>1, <4>2, <4>3
      <4>5. {o.win, o.lose} \cap {d.win, d.lose} = {}
        BY <4>4 DEF DisjointDuplicates
      <4> QED
        BY <4>2, <4>5, <3>3
    <3> QED
      BY <3>4, <3>5, <3>6 DEF MergeKeepsFacts
  <2> QED
    BY <1>7, <2>2, <2>3 DEF Merge
<1> QED
  BY <1>2, <1>3, <1>4, <1>5, <1>6, <1>7 DEF ConsNext

(* For every set of memories, contradictions, sleeping runs and merges: each    *)
(* superseded memory has a newer one that stands, no fact of a merged memory is *)
(* lost when no memory is in two candidate pairs, and runs that did not overlap *)
(* leave one contradicts edge per pair.                                         *)
THEOREM ConsolidationKeepsKnowledge == ConsSpec => []KnowledgeKept
<1>1. ConsTypeOK /\ SuccessorsNewer /\ AloneInv /\ MergeInv => KnowledgeKept
  <2> SUFFICES ASSUME ConsTypeOK, SuccessorsNewer, AloneInv, MergeInv PROVE KnowledgeKept
    OBVIOUS
  <2>1. ASSUME NEW x \in CMems, valid[x] = "superseded"
        PROVE  /\ Born[by[x]] > Born[x] + 1
               /\ \E y \in CMems : Born[y] > Born[x] /\ valid[y] # "superseded"
    <3>1. PICK y \in CMems : \A z \in CMems : Born[z] =< Born[y]
      BY ConsolidationAssumption
    <3>2. /\ Born[x] \in Nat /\ Born[y] \in Nat /\ by[x] \in CMems /\ by[y] \in CMems
          /\ Born[by[x]] \in Nat /\ Born[by[y]] \in Nat
      BY ConsolidationAssumption DEF ConsTypeOK
    <3>3. Born[by[x]] > Born[x] + 1
      BY <2>1 DEF SuccessorsNewer
    <3>4. Born[y] > Born[x]
      BY <3>1, <3>2, <3>3
    <3>5. valid[y] # "superseded"
      BY <3>1, <3>2 DEF SuccessorsNewer
    <3> QED
      BY <3>3, <3>4, <3>5
  <2>2. DisjointMergeKeepsFacts
    BY DEF MergeInv, DisjointMergeKeepsFacts, DisjointDuplicates
  <2>3. OneEdgePerPair
    BY DEF AloneInv, OneEdgePerPair
  <2> QED
    BY <2>1, <2>2, <2>3 DEF KnowledgeKept, SupersessionGrounded
<1>2. ConsSpec => [](ConsTypeOK /\ SuccessorsNewer /\ AloneInv /\ MergeInv)
  BY ConsInitInv, ConsTypeStep, AloneStep, MergeStep, PTL DEF ConsSpec
<1> QED
  BY <1>1, <1>2, PTL

-----------------------------------------------------------------------------
(* The audit of ranking drift.                                             *)

\* Appending to a sequence of records whose fields have no type worth naming.
LEMMA AppendAny ==
    ASSUME NEW s, s \in Seq(ToSet(s)), NEW x
    PROVE  /\ Len(s) \in Nat /\ DOMAIN s = 1 .. Len(s)
           /\ Append(s, x) \in Seq(ToSet(Append(s, x))) /\ Len(Append(s, x)) = Len(s) + 1
           /\ Append(s, x)[Len(s) + 1] = x
           /\ \A i \in 1 .. Len(s) : Append(s, x)[i] = s[i]
<1> DEFINE S == ToSet(s) \cup {x}
<1>1. s \in Seq(S) /\ x \in S
  OBVIOUS
<1>2. /\ Len(s) \in Nat /\ DOMAIN s = 1 .. Len(s)
      /\ Append(s, x) \in Seq(S) /\ Len(Append(s, x)) = Len(s) + 1
      /\ Append(s, x)[Len(s) + 1] = x
      /\ \A i \in 1 .. Len(s) : Append(s, x)[i] = s[i]
  BY <1>1
<1>3. DOMAIN Append(s, x) = 1 .. Len(s) + 1
  BY <1>2
<1>4. \A i \in 1 .. Len(s) + 1 : Append(s, x)[i] \in ToSet(Append(s, x))
  BY <1>3 DEF ToSet
<1>5. Append(s, x) \in Seq(ToSet(Append(s, x)))
  BY <1>2, <1>3, <1>4
<1> QED
  BY <1>2, <1>5

Passing == [pc : {"idle", "next", "recall", "insert"}, todo : SUBSET AuditQueries,
            q : AuditQueries \cup {"none"}, prev : Nat, ids : Rankings \cup {<<>>}, at : Nat]

\* Every snapshot is stamped before now and was compared with an older one.
AuditTypeOK ==
    /\ active \subseteq AuditQueries /\ clock \in Nat /\ toolUsed \in BOOLEAN
    /\ snaps \in Seq(ToSet(snaps))
    /\ \A i \in 1 .. Len(snaps) : /\ snaps[i].at \in Nat /\ snaps[i].at < clock
                                  /\ snaps[i].prev \in 0 .. i - 1
    /\ audit \in [AuditActors -> Passing]

\* A pass has read a snapshot that is there and is stamped before now.
PassTrue(a) ==
    /\ audit[a].prev =< Len(snaps)
    /\ audit[a].pc = "insert" => audit[a].at < clock

Newest(q, p) ==
    /\ p # 0 => snaps[p].q = q
    /\ \A j \in 1 .. Len(snaps) : snaps[j].q = q => j =< p

\* As long as only scheduled passes ran, the one inside a pass has the lock; what
\* it has read is still the newest snapshot, and its stamp is newer than all.
PassAlone(a) ==
    audit[a].pc # "idle" =>
      /\ auditLock = a
      /\ audit[a].pc \in {"recall", "insert"} => Newest(audit[a].q, audit[a].prev)
      /\ audit[a].pc = "insert" => \A j \in 1 .. Len(snaps) : snaps[j].at < audit[a].at

AuditInv ==
    /\ AuditTypeOK /\ AuditSound
    /\ \A a \in AuditActors : PassTrue(a)
    /\ ~toolUsed => \A a \in AuditActors : PassAlone(a)

LEMMA NoAuditTyped == NoAudit \in Passing /\ NoAudit.pc = "idle" /\ NoAudit.prev = 0
BY DEF NoAudit, Passing

LEMMA AuditInitially == AuditInit => AuditInv
<1> SUFFICES ASSUME AuditInit PROVE AuditInv
  OBVIOUS
<1>1. Len(snaps) = 0 /\ snaps \in Seq(ToSet(snaps)) /\ 1 .. Len(snaps) = {}
  BY DEF AuditInit
<1>2. toolUsed \in BOOLEAN
  BY Zenon DEF AuditInit
<1>3. AuditTypeOK
  BY <1>1, <1>2, NoAuditTyped DEF AuditInit, AuditTypeOK
<1>4. AuditSound
  BY <1>1 DEF AuditSound, SnapshotChain, DiffReplays
<1>5. \A a \in AuditActors : PassTrue(a) /\ PassAlone(a)
  BY <1>1, NoAuditTyped DEF AuditInit, PassTrue, PassAlone
<1> QED
  BY <1>3, <1>4, <1>5 DEF AuditInv

\* The query of the latest snapshot finds one, and the newest while they are a chain.
LEMMA LatestFound ==
    ASSUME AuditInv, NEW q
    PROVE  /\ LatestSnapshot(q) \in 0 .. Len(snaps)
           /\ ~toolUsed => Newest(q, LatestSnapshot(q))
<1> DEFINE mine == {i \in 1 .. Len(snaps) : snaps[i].q = q}
<1>1. /\ Len(snaps) \in Nat /\ clock \in Nat
      /\ \A i \in mine : snaps[i].at \in Nat /\ snaps[i].at < clock
  BY DEF AuditInv, AuditTypeOK
<1>2. CASE mine = {}
  <2>1. LatestSnapshot(q) = 0
    BY <1>2 DEF LatestSnapshot
  <2> QED
    BY <1>1, <1>2, <2>1 DEF Newest
<1>3. CASE mine # {}
  <2>1. PICK i \in mine : \A j \in mine : snaps[j].at <= snaps[i].at
    <3> HIDE DEF mine
    <3> DEFINE T == {clock - snaps[i].at : i \in mine}
    <3>1. T \in SUBSET Nat /\ T # {}
      <4>1. \A i \in mine : clock - snaps[i].at \in Nat
        BY <1>1
      <4> QED
        BY <1>3, <4>1
    <3>2. PICK x \in T : \A y \in T : x =< y
      BY <3>1, SmallestNat
    <3>3. PICK i \in mine : x = clock - snaps[i].at
      BY <3>2
    <3>4. ASSUME NEW j \in mine PROVE snaps[j].at <= snaps[i].at
      <4>1. clock - snaps[j].at \in T
        OBVIOUS
      <4>2. clock - snaps[i].at =< clock - snaps[j].at
        BY <3>2, <3>3, <4>1
      <4> QED
        BY <1>1, <4>2
    <3> QED
      BY <3>4
  <2> DEFINE l == LatestSnapshot(q)
  <2>2. l = CHOOSE k \in mine : \A j \in mine : snaps[j].at <= snaps[k].at
    BY <1>3 DEF LatestSnapshot
  <2>3. l \in mine /\ \A j \in mine : snaps[j].at <= snaps[l].at
    <3> HIDE DEF mine
    <3> QED
      BY <2>1, <2>2
  <2> HIDE DEF l
  <2>4. ~toolUsed => \A j \in mine : j =< l
    <3> SUFFICES ASSUME ~toolUsed, NEW j \in mine, ~(j =< l) PROVE FALSE
      OBVIOUS
    <3>1. l < j /\ snaps[l].q = snaps[j].q /\ l \in 1 .. Len(snaps) /\ j \in 1 .. Len(snaps)
      BY <1>1, <2>3
    <3>2. snaps[l].at < snaps[j].at
      BY <3>1 DEF AuditInv, AuditSound, SnapshotChain
    <3> QED
      BY <1>1, <2>3, <3>2
  <2> QED
    BY <1>1, <2>3, <2>4 DEF Newest, l
<1> QED
  BY <1>2, <1>3

PassBecomes(a, c) == audit' = [audit EXCEPT ![a] = c]

\* A step of one pass that inserts nothing.
LEMMA PassMoves ==
    ASSUME AuditInv, NEW a \in AuditActors, NEW c \in Passing,
           PassBecomes(a, c), snaps' = snaps,
           clock' \in Nat, clock =< clock', active' \subseteq AuditQueries,
           toolUsed' \in BOOLEAN, ~toolUsed' => ~toolUsed,
           c.prev =< Len(snaps), c.pc = "insert" => c.at < clock',
           ~toolUsed' => /\ \A b \in AuditActors \ {a} : audit[b].pc # "idle" => auditLock' = b
                         /\ audit'[a] = c => PassAlone(a)'
    PROVE  AuditInv'
<1>1. /\ audit' \in [AuditActors -> Passing] /\ audit'[a] = c
      /\ \A b \in AuditActors \ {a} : audit'[b] = audit[b]
  BY DEF AuditInv, AuditTypeOK, PassBecomes
<1>2. clock \in Nat /\ Len(snaps) \in Nat
  BY DEF AuditInv, AuditTypeOK
<1>3. AuditTypeOK'
  <2>1. \A i \in 1 .. Len(snaps) : /\ snaps[i].at \in Nat /\ snaps[i].at < clock'
                                   /\ snaps[i].prev \in 0 .. i - 1
    BY <1>2 DEF AuditInv, AuditTypeOK
  <2> QED
    BY <1>1, <2>1 DEF AuditInv, AuditTypeOK
<1>4. AuditSound'
  BY DEF AuditInv, AuditSound, SnapshotChain, DiffReplays
<1>5. ASSUME NEW b \in AuditActors PROVE PassTrue(b)'
  <2>1. CASE b = a
    BY <1>1, <2>1 DEF PassTrue
  <2>2. CASE b # a
    <3>1. audit[b].prev =< Len(snaps) /\ (audit[b].pc = "insert" => audit[b].at < clock)
      BY DEF AuditInv, PassTrue
    <3>2. audit[b].at \in Nat
      BY DEF AuditInv, AuditTypeOK, Passing
    <3> QED
      BY <1>1, <1>2, <2>2, <3>1, <3>2 DEF PassTrue
  <2> QED
    BY <2>1, <2>2
<1>6. ASSUME ~toolUsed', NEW b \in AuditActors PROVE PassAlone(b)'
  <2>1. CASE b = a
    BY <1>1, <1>6, <2>1
  <2>2. CASE b # a
    <3>1. PassAlone(b) /\ audit'[b] = audit[b] /\ (audit[b].pc # "idle" => auditLock' = b)
      BY <1>1, <1>6, <2>2 DEF AuditInv
    <3> QED
      BY <3>1 DEF PassAlone, Newest
  <2> QED
    BY <2>1, <2>2
<1> QED
  BY <1>3, <1>4, <1>5, <1>6 DEF AuditInv

\* Others inside a pass keep what they have when the lock is not theirs to lose.
LEMMA OthersHold ==
    ASSUME AuditInv, NEW a \in AuditActors, ~toolUsed,
           auditLock' = auditLock \/ (auditLock = a /\ auditLock' = "free") \/ auditLock = "free"
    PROVE  \A b \in AuditActors \ {a} : audit[b].pc # "idle" => auditLock' = b
<1> SUFFICES ASSUME NEW b \in AuditActors, b # a, audit[b].pc # "idle" PROVE auditLock' = b
  OBVIOUS
<1>1. auditLock = b
  BY DEF AuditInv, PassAlone
<1>2. b # "free"
  BY AuditAssumption DEF AuditActors
<1> QED
  BY <1>1, <1>2

LEMMA PassStartKeeps ==
    ASSUME AuditInv, NEW a \in AuditActors,
           PassStart(a) \/ (ToolStart(a) /\ a \in ToolRuns)
    PROVE  AuditInv'
<1>1. PICK S \in SUBSET AuditQueries :
         audit' = [audit EXCEPT ![a] = [NoAudit EXCEPT !.pc = "next", !.todo = S]]
  BY DEF AuditInv, AuditTypeOK, PassStart, ToolStart
<1> DEFINE c == [NoAudit EXCEPT !.pc = "next", !.todo = S]
<1>2. c.pc = "next" /\ c.prev = 0
  BY DEF NoAudit
<1>3. c \in Passing
  BY NoAuditTyped DEF Passing
<1>4. PassBecomes(a, c) /\ UNCHANGED <<snaps, clock, active>>
  BY <1>1 DEF PassStart, ToolStart, PassBecomes
<1> HIDE DEF c
<1>5. clock \in Nat /\ active \subseteq AuditQueries /\ toolUsed \in BOOLEAN /\ 0 =< Len(snaps)
  BY DEF AuditInv, AuditTypeOK
<1>6. CASE PassStart(a)
  <2>1. ~toolUsed => \A b \in AuditActors \ {a} : audit[b].pc # "idle" => auditLock' = b
    BY <1>6, OthersHold DEF PassStart
  <2>2. audit'[a] = c => PassAlone(a)'
    BY <1>2, <1>6 DEF PassAlone, PassStart
  <2>3. toolUsed' = toolUsed
    BY <1>6 DEF PassStart
  <2>4. /\ clock' \in Nat /\ clock =< clock' /\ active' \subseteq AuditQueries
        /\ toolUsed' \in BOOLEAN /\ (~toolUsed' => ~toolUsed) /\ snaps' = snaps
        /\ c.prev =< Len(snaps) /\ (c.pc = "insert" => c.at < clock')
    BY <1>2, <1>4, <1>5, <2>3
  <2>5. ~toolUsed' => /\ \A b \in AuditActors \ {a} : audit[b].pc # "idle" => auditLock' = b
                      /\ audit'[a] = c => PassAlone(a)'
    BY <2>1, <2>2, <2>3
  <2> QED
    BY <1>3, <1>4, <2>4, <2>5, PassMoves
<1>7. CASE ToolStart(a)
  <2>1. toolUsed' = TRUE
    BY <1>7 DEF ToolStart
  <2>2. toolUsed' \in BOOLEAN
    BY <2>1
  <2>3. /\ clock' \in Nat /\ clock =< clock' /\ active' \subseteq AuditQueries
        /\ toolUsed' \in BOOLEAN /\ (~toolUsed' => ~toolUsed) /\ snaps' = snaps
        /\ c.prev =< Len(snaps) /\ (c.pc = "insert" => c.at < clock')
    BY <1>2, <1>4, <1>5, <2>1, <2>2
  <2>4. ~toolUsed' => /\ \A b \in AuditActors \ {a} : audit[b].pc # "idle" => auditLock' = b
                      /\ audit'[a] = c => PassAlone(a)'
    BY <2>1
  <2> QED
    BY <1>3, <1>4, <2>3, <2>4, PassMoves
<1> QED
  BY <1>6, <1>7

LEMMA PassEndKeeps ==
    ASSUME AuditInv, NEW a \in AuditActors, PassEnds(a) \/ AuditorDies(a)
    PROVE  AuditInv'
<1>1. /\ PassBecomes(a, NoAudit) /\ UNCHANGED <<snaps, clock, active, toolUsed>>
      /\ auditLock' = IF auditLock = a THEN "free" ELSE auditLock
  BY DEF PassEnds, AuditorDies, PassBecomes
<1>2. clock \in Nat /\ active \subseteq AuditQueries /\ toolUsed \in BOOLEAN /\ 0 =< Len(snaps)
  BY DEF AuditInv, AuditTypeOK
<1>3. ~toolUsed => \A b \in AuditActors \ {a} : audit[b].pc # "idle" => auditLock' = b
  BY <1>1, OthersHold
<1>4. audit'[a] = NoAudit => PassAlone(a)'
  BY NoAuditTyped DEF PassAlone
<1>5. /\ clock' \in Nat /\ clock =< clock' /\ active' \subseteq AuditQueries
      /\ toolUsed' \in BOOLEAN /\ (~toolUsed' => ~toolUsed) /\ snaps' = snaps
      /\ NoAudit.prev =< Len(snaps) /\ (NoAudit.pc = "insert" => NoAudit.at < clock')
  BY <1>1, <1>2, NoAuditTyped
<1>6. ~toolUsed' => /\ \A b \in AuditActors \ {a} : audit[b].pc # "idle" => auditLock' = b
                    /\ audit'[a] = NoAudit => PassAlone(a)'
  BY <1>1, <1>3, <1>4
<1> QED
  BY <1>1, <1>5, <1>6, NoAuditTyped, PassMoves

LEMMA ReadPreviousKeeps ==
    ASSUME AuditInv, NEW a \in AuditActors, ReadPrevious(a)
    PROVE  AuditInv'
<1>1. PICK q \in audit[a].todo :
         audit' = [audit EXCEPT ![a].pc = "recall", ![a].q = q, ![a].todo = @ \ {q},
                                ![a].prev = LatestSnapshot(q)]
  BY DEF ReadPrevious
<1>2. audit[a] \in Passing /\ audit \in [AuditActors -> Passing] /\ q \in AuditQueries
  BY DEF AuditInv, AuditTypeOK, Passing
<1> DEFINE l == LatestSnapshot(q)
<1>3. l \in Nat /\ l =< Len(snaps) /\ (~toolUsed => Newest(q, l))
  <2>1. Len(snaps) \in Nat
    BY DEF AuditInv, AuditTypeOK
  <2> QED
    BY <2>1, LatestFound
<1> HIDE DEF l
<1> DEFINE c == [audit[a] EXCEPT !.pc = "recall", !.q = q, !.todo = @ \ {q}, !.prev = l]
<1>4. PassBecomes(a, c)
  BY <1>1, <1>2 DEF l, PassBecomes
<1>5. c.pc = "recall" /\ c.q = q /\ c.prev = l
  BY <1>2 DEF Passing
<1>6. c \in Passing
  BY <1>2, <1>3 DEF Passing
<1> HIDE DEF c
<1>7. UNCHANGED <<active, snaps, auditLock, clock, toolUsed>> /\ audit[a].pc = "next"
  BY DEF ReadPrevious
<1>8. clock \in Nat /\ active \subseteq AuditQueries /\ toolUsed \in BOOLEAN
  BY DEF AuditInv, AuditTypeOK
<1>9. ~toolUsed => \A b \in AuditActors \ {a} : audit[b].pc # "idle" => auditLock' = b
  BY <1>7, OthersHold
<1>10. ~toolUsed => (audit'[a] = c => PassAlone(a)')
  <2> SUFFICES ASSUME ~toolUsed, audit'[a] = c PROVE PassAlone(a)'
    OBVIOUS
  <2>1. auditLock = a
    BY <1>7 DEF AuditInv, PassAlone
  <2> QED
    BY <1>3, <1>5, <1>7, <2>1 DEF PassAlone, Newest
<1>11. /\ clock' \in Nat /\ clock =< clock' /\ active' \subseteq AuditQueries
      /\ toolUsed' \in BOOLEAN /\ (~toolUsed' => ~toolUsed) /\ snaps' = snaps
      /\ c.prev =< Len(snaps) /\ (c.pc = "insert" => c.at < clock')
  BY <1>3, <1>5, <1>7, <1>8
<1>12. ~toolUsed' => /\ \A b \in AuditActors \ {a} : audit[b].pc # "idle" => auditLock' = b
                     /\ audit'[a] = c => PassAlone(a)'
  BY <1>7, <1>9, <1>10
<1> QED
  BY <1>4, <1>6, <1>7, <1>11, <1>12, PassMoves

LEMMA RecallQueryKeeps ==
    ASSUME AuditInv, NEW a \in AuditActors, RecallQuery(a)
    PROVE  AuditInv'
<1>1. /\ audit[a] \in Passing /\ audit \in [AuditActors -> Passing] /\ clock \in Nat
      /\ active \subseteq AuditQueries /\ toolUsed \in BOOLEAN
      /\ audit[a].prev =< Len(snaps) /\ Len(snaps) \in Nat
  BY DEF AuditInv, AuditTypeOK, PassTrue
<1>2. UNCHANGED <<active, snaps, auditLock, toolUsed>> /\ audit[a].pc = "recall"
  BY DEF RecallQuery
<1>3. ~toolUsed => \A b \in AuditActors \ {a} : audit[b].pc # "idle" => auditLock' = b
  BY <1>2, OthersHold
<1>4. ~toolUsed => auditLock = a /\ Newest(audit[a].q, audit[a].prev)
  BY <1>2 DEF AuditInv, PassAlone
<1>5. CASE clock' = clock /\ audit' = [audit EXCEPT ![a].pc = "next"]
  <2> DEFINE c == [audit[a] EXCEPT !.pc = "next"]
  <2>1. PassBecomes(a, c)
    BY <1>1, <1>5 DEF PassBecomes
  <2>2. c \in Passing /\ c.pc = "next" /\ c.prev = audit[a].prev
    BY <1>1 DEF Passing
  <2> HIDE DEF c
  <2>3. audit'[a] = c => (~toolUsed => PassAlone(a)')
    BY <1>2, <1>4, <2>2 DEF PassAlone
  <2>4. /\ clock' \in Nat /\ clock =< clock' /\ active' \subseteq AuditQueries
        /\ toolUsed' \in BOOLEAN /\ (~toolUsed' => ~toolUsed) /\ snaps' = snaps
        /\ c.prev =< Len(snaps) /\ (c.pc = "insert" => c.at < clock')
    BY <1>1, <1>2, <1>5, <2>2
  <2>5. ~toolUsed' => /\ \A b \in AuditActors \ {a} : audit[b].pc # "idle" => auditLock' = b
                      /\ audit'[a] = c => PassAlone(a)'
    BY <1>2, <1>3, <2>3
  <2> QED
    BY <2>1, <2>2, <2>4, <2>5, PassMoves
<1>6. ASSUME NEW r \in Rankings, clock' = clock + 1,
             audit' = [audit EXCEPT ![a].pc = "insert", ![a].ids = r, ![a].at = clock]
      PROVE  AuditInv'
  <2> DEFINE c == [audit[a] EXCEPT !.pc = "insert", !.ids = r, !.at = clock]
  <2>1. PassBecomes(a, c)
    BY <1>1, <1>6 DEF PassBecomes
  <2>2. c.pc = "insert" /\ c.prev = audit[a].prev /\ c.at = clock /\ c.q = audit[a].q
    BY <1>1 DEF Passing
  <2>3. c \in Passing
    BY <1>1 DEF Passing
  <2> HIDE DEF c
  <2>4. \A j \in 1 .. Len(snaps) : snaps[j].at < clock
    BY DEF AuditInv, AuditTypeOK
  <2>5. audit'[a] = c => (~toolUsed => PassAlone(a)')
    BY <1>2, <1>4, <2>2, <2>4 DEF PassAlone, Newest
  <2>6. /\ clock' \in Nat /\ clock =< clock' /\ active' \subseteq AuditQueries
        /\ toolUsed' \in BOOLEAN /\ (~toolUsed' => ~toolUsed) /\ snaps' = snaps
        /\ c.prev =< Len(snaps) /\ (c.pc = "insert" => c.at < clock')
    BY <1>1, <1>2, <1>6, <2>2
  <2>7. ~toolUsed' => /\ \A b \in AuditActors \ {a} : audit[b].pc # "idle" => auditLock' = b
                      /\ audit'[a] = c => PassAlone(a)'
    BY <1>2, <1>3, <2>5
  <2> QED
    BY <2>1, <2>3, <2>6, <2>7, PassMoves
<1> QED
  BY <1>5, <1>6 DEF RecallQuery

LEMMA InsertSnapshotKeeps ==
    ASSUME AuditInv, NEW a \in AuditActors, InsertSnapshot(a)
    PROVE  AuditInv'
<1> DEFINE n == Len(snaps)
<1> DEFINE x == Measured(a)
<1>1. /\ audit[a] \in Passing /\ audit \in [AuditActors -> Passing] /\ clock \in Nat
      /\ audit[a].prev \in 0 .. n /\ audit[a].at \in Nat /\ audit[a].at < clock
      /\ n \in Nat /\ audit[a].pc = "insert"
  BY DEF AuditInv, AuditTypeOK, PassTrue, Passing, InsertSnapshot
<1>2. /\ x.q = audit[a].q /\ x.prev = audit[a].prev /\ x.at = audit[a].at
      /\ x.ids = audit[a].ids
  BY DEF Measured
<1>3. x.prev # 0 => ToSet(x.ids) = (ToSet(snaps[x.prev].ids) \ x.removals) \cup x.additions
  <2>1. audit[a].prev # 0 => /\ x.additions = ToSet(audit[a].ids) \ ToSet(snaps[audit[a].prev].ids)
                             /\ x.removals = ToSet(snaps[audit[a].prev].ids) \ ToSet(audit[a].ids)
    BY DEF Measured, SetDiff
  <2> HIDE DEF x
  <2> QED
    BY <1>2, <2>1
<1> HIDE DEF x
<1>4. /\ snaps' = Append(snaps, x) /\ audit' = [audit EXCEPT ![a].pc = "next"]
      /\ UNCHANGED <<active, auditLock, clock, toolUsed>>
  BY DEF InsertSnapshot, x
<1>5. /\ snaps' \in Seq(ToSet(snaps')) /\ Len(snaps') = n + 1 /\ snaps'[n + 1] = x
      /\ \A i \in 1 .. n : snaps'[i] = snaps[i]
  BY <1>4, AppendAny DEF AuditInv, AuditTypeOK
<1>6. /\ audit' \in [AuditActors -> Passing] /\ audit'[a].pc = "next"
      /\ audit'[a].prev = audit[a].prev
      /\ \A b \in AuditActors \ {a} : audit'[b] = audit[b]
  BY <1>1, <1>4 DEF Passing
<1>7. AuditTypeOK'
  <2>1. \A i \in 1 .. n + 1 : /\ snaps'[i].at \in Nat /\ snaps'[i].at < clock
                              /\ snaps'[i].prev \in 0 .. i - 1
    <3> SUFFICES ASSUME NEW i \in 1 .. n + 1
                 PROVE  /\ snaps'[i].at \in Nat /\ snaps'[i].at < clock
                        /\ snaps'[i].prev \in 0 .. i - 1
      OBVIOUS
    <3>1. CASE i = n + 1
      BY <1>1, <1>2, <1>5, <3>1
    <3>2. CASE i \in 1 .. n
      BY <1>5, <3>2 DEF AuditInv, AuditTypeOK
    <3> QED
      BY <1>1, <3>1, <3>2
  <2> QED
    BY <1>4, <1>5, <1>6, <2>1 DEF AuditInv, AuditTypeOK
<1>8. DiffReplays'
  <2> SUFFICES ASSUME NEW i \in 1 .. n + 1, snaps'[i].prev # 0
               PROVE  ToSet(snaps'[i].ids) = (ToSet(snaps'[snaps'[i].prev].ids)
                                                \ snaps'[i].removals) \cup snaps'[i].additions
    BY <1>5 DEF DiffReplays
  <2>1. CASE i = n + 1
    <3>1. snaps'[i] = x /\ snaps'[x.prev] = snaps[x.prev]
      BY <1>1, <1>2, <1>5, <2>1
    <3> QED
      BY <1>3, <3>1
  <2>2. CASE i \in 1 .. n
    <3>1. snaps'[i] = snaps[i] /\ snaps[i].prev \in 1 .. n
      BY <1>1, <1>5, <2>2 DEF AuditInv, AuditTypeOK
    <3>2. snaps'[snaps[i].prev] = snaps[snaps[i].prev]
      BY <1>5, <3>1
    <3> QED
      BY <2>2, <3>1, <3>2 DEF AuditInv, AuditSound, DiffReplays
  <2> QED
    BY <1>1, <2>1, <2>2
<1>9. SnapshotChain'
  <2> SUFFICES ASSUME ~toolUsed, NEW i \in 1 .. n + 1, NEW j \in 1 .. n + 1,
                      snaps'[i].q = snaps'[j].q, i # j
               PROVE  /\ snaps'[i].prev # snaps'[j].prev
                      /\ i < j => snaps'[i].at < snaps'[j].at
    BY <1>4, <1>5 DEF SnapshotChain
  <2>1. /\ Newest(x.q, x.prev) /\ \A k \in 1 .. n : snaps[k].at < x.at
    BY <1>1, <1>2 DEF AuditInv, PassAlone
  <2>2. ASSUME NEW k \in 1 .. n, snaps[k].q = x.q PROVE snaps[k].prev < x.prev
    <3>1. k =< x.prev
      BY <2>1, <2>2 DEF Newest
    <3>2. snaps[k].prev \in 0 .. k - 1
      BY DEF AuditInv, AuditTypeOK
    <3> QED
      BY <1>1, <1>2, <3>1, <3>2
  <2>3. \A k \in 1 .. n : snaps[k].prev \in Nat /\ snaps[k].at \in Nat
    BY DEF AuditInv, AuditTypeOK
  <2>4. CASE i = n + 1
    <3>1. j \in 1 .. n /\ snaps'[j] = snaps[j] /\ snaps'[i] = x
      BY <1>1, <1>5, <2>4
    <3> QED
      BY <1>1, <1>2, <2>2, <2>3, <2>4, <3>1
  <2>5. CASE j = n + 1
    <3>1. i \in 1 .. n /\ snaps'[i] = snaps[i] /\ snaps'[j] = x
      BY <1>1, <1>5, <2>5
    <3> QED
      BY <1>1, <1>2, <2>1, <2>2, <2>3, <2>5, <3>1
  <2>6. CASE i \in 1 .. n /\ j \in 1 .. n
    BY <1>5, <2>6 DEF AuditInv, AuditSound, SnapshotChain
  <2> QED
    BY <1>1, <2>4, <2>5, <2>6
<1>10. ASSUME NEW b \in AuditActors PROVE PassTrue(b)'
  <2>1. audit[b].prev =< n /\ (audit[b].pc = "insert" => audit[b].at < clock)
        /\ audit[b].prev \in Nat
    BY DEF AuditInv, PassTrue, AuditTypeOK, Passing
  <2>2. audit'[b].prev = audit[b].prev /\ (audit'[b].pc = "insert" => audit'[b] = audit[b])
    BY <1>6
  <2> QED
    BY <1>1, <1>4, <1>5, <2>1, <2>2 DEF PassTrue
<1>11. ASSUME ~toolUsed', NEW b \in AuditActors PROVE PassAlone(b)'
  <2>1. auditLock = a
    BY <1>1, <1>4, <1>11 DEF AuditInv, PassAlone
  <2>2. CASE b = a
    BY <1>4, <1>6, <2>1, <2>2 DEF PassAlone
  <2>3. CASE b # a
    <3>1. audit'[b] = audit[b] /\ audit[b].pc = "idle"
      BY <1>4, <1>6, <1>11, <2>1, <2>3 DEF AuditInv, PassAlone
    <3> QED
      BY <3>1 DEF PassAlone
  <2> QED
    BY <2>2, <2>3
<1> QED
  BY <1>7, <1>8, <1>9, <1>10, <1>11 DEF AuditInv, AuditSound

LEMMA AuditStepKeeps == AuditInv /\ [AuditNext]_audVars => AuditInv'
<1> SUFFICES ASSUME AuditInv, [AuditNext]_audVars PROVE AuditInv'
  OBVIOUS
<1>1. CASE UNCHANGED <<snaps, auditLock, audit, clock, toolUsed>> /\ active' \subseteq active
  <2>1. AuditTypeOK' /\ AuditSound'
    BY <1>1 DEF AuditInv, AuditTypeOK, AuditSound, SnapshotChain, DiffReplays
  <2>2. \A a \in AuditActors : (PassTrue(a)' <=> PassTrue(a)) /\ (PassAlone(a)' <=> PassAlone(a))
    BY <1>1 DEF PassTrue, PassAlone, Newest
  <2> QED
    BY <1>1, <2>1, <2>2 DEF AuditInv
<1>2. ASSUME NEW q \in AuditQueries, DeactivateQuery(q) PROVE AuditInv'
  BY <1>1, <1>2 DEF DeactivateQuery
<1>3. CASE UNCHANGED audVars
  BY <1>1, <1>3 DEF audVars
<1>4. ASSUME NEW a \in Auditors, PassStart(a) PROVE AuditInv'
  BY <1>4, PassStartKeeps DEF AuditActors
<1>5. ASSUME NEW a \in ToolRuns, ToolStart(a) PROVE AuditInv'
  BY <1>5, PassStartKeeps DEF AuditActors
<1> QED
  BY <1>2, <1>3, <1>4, <1>5, ReadPreviousKeeps, RecallQueryKeeps, InsertSnapshotKeeps,
     PassEndKeeps DEF AuditNext

(* For every number of servers, tool calls, queries and rankings: the snapshots *)
(* of scheduled passes form one chain per query, and the stored differences of  *)
(* any snapshot replay, whoever ran in between.                                 *)
THEOREM SnapshotsReplay == AuditSpec => []AuditSound
<1>1. AuditInv => AuditSound
  BY DEF AuditInv
<1> QED
  BY <1>1, AuditInitially, AuditStepKeeps, PTL DEF AuditSpec

-----------------------------------------------------------------------------
(* The extraction workers.                                                 *)

\* What an update of a row leaves alone.
SameFact(b, a) == /\ b.key = a.key /\ b.val = a.val /\ b.at = a.at /\ b.from = a.from
                  /\ b.id = a.id /\ b.mem = a.mem

LEMMA RetiredRow ==
    ASSUME NEW a, IsAtom(a), NEW r \in BOOLEAN, NEW b, b = [a EXCEPT !.retired = r]
    PROVE  IsAtom(b) /\ SameFact(b, a) /\ b.sup = a.sup /\ b.retired = r
BY DEF IsAtom, SameFact

LEMMA StoredRow ==
    ASSUME NEW c, IsAtom(c), NEW sup, Cardinality(atoms) \in Nat, NEW b, b = Stored(c, sup)
    PROVE  IsAtom(b) /\ SameFact(b, c) /\ b.sup = sup /\ b.retired = c.retired
<1>1. PICK n \in Nat : n = Cardinality(atoms) + 1
  OBVIOUS
<1>2. b = [c EXCEPT !.sup = sup, !.born = n]
  BY <1>1 DEF Stored
<1>3. PICK d : d = [c EXCEPT !.sup = sup]
  OBVIOUS
<1>4. IsAtom(d) /\ SameFact(d, c) /\ d.sup = sup /\ d.retired = c.retired
  BY <1>3 DEF IsAtom, SameFact
<1>5. b = [d EXCEPT !.born = n]
  BY <1>2, <1>3
<1>6. IsAtom(b) /\ SameFact(b, d) /\ b.sup = d.sup /\ b.retired = d.retired
  BY <1>4, <1>5 DEF IsAtom, SameFact
<1> QED
  BY <1>4, <1>6 DEF SameFact

LEMMA LaterIsTotal ==
    ASSUME NEW a, NEW b, NEW c, IsAtom(a), IsAtom(b), IsAtom(c),
           ~AtomIsLater(b, a), ~AtomIsLater(c, b)
    PROVE  ~AtomIsLater(c, a)
<1>1. {a.at, b.at, c.at, a.born, b.born, c.born} \subseteq Nat
  BY DEF IsAtom
<1> QED
  BY <1>1 DEF AtomIsLater

\* A finite table has a latest row of each key it knows.
LEMMA LatestRow ==
    ASSUME NEW S, IsFiniteSet(S), S # {}, \A a \in S : IsAtom(a)
    PROVE  \E a \in S : \A b \in S : ~AtomIsLater(b, a)
<1>1. PICK p : p = SetToSeq(S)
  OBVIOUS
<1>2. p \in Seq(S) /\ Range(p) = S
  BY <1>1, ChosenEnumeration
<1>3. PICK n \in Nat : n = Len(p) /\ DOMAIN p = 1 .. n /\ \A i \in 1 .. n : p[i] \in S
  BY <1>2
<1> DEFINE T == {i \in 0 .. n : i = 0 \/ \E a \in S : \A j \in 1 .. i : ~AtomIsLater(p[j], a)}
<1>4. 0 \in T
  OBVIOUS
<1>5. ASSUME NEW i \in 1 .. n, i - 1 \in T PROVE i \in T
  <2>0. ~AtomIsLater(p[i], p[i]) /\ p[i] \in S
    <3>1. p[i].at \in Nat /\ p[i].born \in Nat /\ p[i] \in S
      BY <1>3 DEF IsAtom
    <3> QED
      BY <3>1 DEF AtomIsLater
  <2>1. CASE i = 1
    BY <2>0, <2>1
  <2>2. CASE i # 1
    <3>1. PICK a \in S : \A j \in 1 .. i - 1 : ~AtomIsLater(p[j], a)
      BY <1>5, <2>2
    <3>2. CASE ~AtomIsLater(p[i], a)
      <4>1. \A j \in 1 .. i : j \in 1 .. i - 1 \/ j = i
        OBVIOUS
      <4>2. \A j \in 1 .. i : ~AtomIsLater(p[j], a)
        BY <3>1, <3>2, <4>1
      <4> QED
        BY <4>2
    <3>3. CASE AtomIsLater(p[i], a)
      <4>1. ~AtomIsLater(a, p[i])
        <5>1. {a.at, a.born, p[i].at, p[i].born} \subseteq Nat
          BY <2>0 DEF IsAtom
        <5> QED
          BY <3>3, <5>1 DEF AtomIsLater
      <4>2. ASSUME NEW j \in 1 .. i PROVE ~AtomIsLater(p[j], p[i])
        <5>1. CASE j = i
          BY <2>0, <5>1
        <5>2. CASE j \in 1 .. i - 1
          BY <1>3, <2>0, <3>1, <4>1, <5>2, LaterIsTotal
        <5> QED
          BY <5>1, <5>2
      <4> QED
        BY <2>0, <4>2
    <3> QED
      BY <3>2, <3>3
  <2> QED
    BY <2>1, <2>2
<1>6. n \in T
  <2> HIDE DEF T
  <2> QED
    BY <1>4, <1>5, UpToAll
<1>7. n # 0
  BY <1>2, <1>3 DEF Range
<1>8. PICK a \in S : \A j \in 1 .. n : ~AtomIsLater(p[j], a)
  BY <1>6, <1>7
<1> QED
  BY <1>2, <1>3, <1>8 DEF Range

LEMMA LatestPerKeyRows ==
    ASSUME NEW S, IsFiniteSet(S), \A a \in S : IsAtom(a)
    PROVE  /\ LatestPerKey(S) \in [{a.key : a \in S} -> S]
           /\ \A k \in {a.key : a \in S} : LatestPerKey(S)[k].key = k
<1>1. ASSUME NEW k \in {a.key : a \in S}
      PROVE  \E a \in S : a.key = k /\ \A b \in S : b.key = k => ~AtomIsLater(b, a)
  <2> DEFINE R == {a \in S : a.key = k}
  <2>1. IsFiniteSet(R) /\ R # {} /\ \A a \in R : IsAtom(a)
    BY FS_Subset
  <2>2. PICK a \in R : \A b \in R : ~AtomIsLater(b, a)
    <3> HIDE DEF R
    <3> QED
      BY <2>1, LatestRow
  <2> QED
    BY <2>2
<1>2. ASSUME NEW k \in {a.key : a \in S}
      PROVE  LatestPerKey(S)[k] \in S /\ LatestPerKey(S)[k].key = k
  BY <1>1 DEF LatestPerKey
<1>3. LatestPerKey(S) \in [{a.key : a \in S} -> S]
  BY <1>2 DEF LatestPerKey
<1> QED
  BY <1>2, <1>3

\* Rows that say the same.
Like(a, c) == a.key = c.key /\ a.val = c.val

\* The rows a plan writes, and that it writes each of them once.
AtomsOf(s) == {s[j].atom : j \in 1 .. Len(s)}
Apart(s) == \A i, j \in 1 .. Len(s) : s[i].atom = s[j].atom => i = j

\* One of the rows of A is the row that p retires, and p may retire it.
Answers(p, A) == \E a \in A : /\ a.id = p.old /\ a.key = p.atom.key /\ a.val # p.atom.val
                              /\ p.atom.at >= ValidityStart(a)

AreCandidates(cands, n) ==
    DOMAIN cands = 1 .. n /\ \A i \in 1 .. n : IsAtom(cands[i]) /\ cands[i].id[3] = i

LEMMA FirstOfTheKind ==
    ASSUME NEW n \in Nat, NEW cands, AreCandidates(cands, n), NEW i \in 1 .. n
    PROVE  \E d \in Distinct(cands) : Like(cands[d], cands[i])
<1> DEFINE T == {j \in 1 .. n : Like(cands[j], cands[i])}
<1>1. T \in SUBSET Nat /\ T # {}
  BY DEF Like
<1>2. PICK d \in T : \A j \in T : d =< j
  <2> HIDE DEF T
  <2> QED
    BY <1>1, SmallestNat
<1>3. ASSUME NEW j \in 1 .. (d - 1), cands[d].key = cands[j].key, cands[d].val = cands[j].val
      PROVE  FALSE
  <2>1. j \in T /\ ~(d =< j)
    BY <1>2, <1>3 DEF Like
  <2> QED
    BY <1>2, <2>1
<1>4. d \in Distinct(cands)
  BY <1>2, <1>3 DEF Distinct, AreCandidates
<1> QED
  BY <1>2, <1>4

LEMMA AppendApart ==
    ASSUME NEW V, NEW s \in Seq(V), NEW e \in V
    PROVE  /\ Append(s, e) \in Seq(V) /\ Len(Append(s, e)) = Len(s) + 1
           /\ \A j \in 1 .. Len(s) : Append(s, e)[j] = s[j]
           /\ Append(s, e)[Len(s) + 1] = e
           /\ AtomsOf(Append(s, e)) = AtomsOf(s) \cup {e.atom}
           /\ Apart(s) /\ e.atom \notin AtomsOf(s) => Apart(Append(s, e))
<1>1. PICK t, n : t = Append(s, e) /\ n = Len(s)
  OBVIOUS
<1>2. /\ n \in Nat /\ t \in Seq(V) /\ Len(t) = n + 1
      /\ \A j \in 1 .. n : t[j] = s[j]
      /\ t[n + 1] = e
  BY <1>1, AppendProperties
<1>3. \A j \in 1 .. n + 1 : j \in 1 .. n \/ j = n + 1
  BY <1>2
<1>4. AtomsOf(t) = AtomsOf(s) \cup {e.atom}
  <2>1. \A j \in 1 .. n + 1 : t[j].atom \in AtomsOf(s) \cup {e.atom}
    BY <1>1, <1>2, <1>3 DEF AtomsOf
  <2>2. \A j \in 1 .. n : s[j].atom \in AtomsOf(t)
    BY <1>2 DEF AtomsOf
  <2>3. e.atom \in AtomsOf(t)
    BY <1>2 DEF AtomsOf
  <2> QED
    BY <1>1, <1>2, <2>1, <2>2, <2>3 DEF AtomsOf
<1>5. ASSUME Apart(s), e.atom \notin AtomsOf(s), NEW i \in 1 .. n + 1, NEW j \in 1 .. n + 1,
             t[i].atom = t[j].atom
      PROVE  i = j
  <2>1. \A k \in 1 .. n : t[k].atom # e.atom
    BY <1>1, <1>2, <1>5 DEF AtomsOf
  <2>2. CASE i \in 1 .. n /\ j \in 1 .. n
    BY <1>1, <1>2, <1>5, <2>2 DEF Apart
  <2>3. CASE ~(i \in 1 .. n /\ j \in 1 .. n)
    BY <1>2, <1>3, <1>5, <2>1, <2>3
  <2> QED
    BY <2>2, <2>3
<1> QED
  BY <1>1, <1>2, <1>4, <1>5 DEF Apart

LEMMA ConcatApart ==
    ASSUME NEW V, NEW s \in Seq(V), NEW t \in Seq(V)
    PROVE  /\ s \o t \in Seq(V)
           /\ AtomsOf(s \o t) = AtomsOf(s) \cup AtomsOf(t)
           /\ Apart(s) /\ Apart(t) /\ AtomsOf(s) \cap AtomsOf(t) = {} => Apart(s \o t)
           /\ \A j \in 1 .. Len(s \o t) : \/ \E i \in 1 .. Len(s) : (s \o t)[j] = s[i]
                                          \/ \E i \in 1 .. Len(t) : (s \o t)[j] = t[i]
<1>1. PICK u, m, n : u = s \o t /\ m = Len(s) /\ n = Len(t)
  OBVIOUS
<1>2. /\ m \in Nat /\ n \in Nat /\ u \in Seq(V) /\ Len(u) = m + n
      /\ \A i \in 1 .. m : u[i] = s[i]
      /\ \A i \in 1 .. n : u[m + i] = t[i]
  BY <1>1, ConcatFacts
<1>3. \A j \in 1 .. m + n : j \in 1 .. m \/ (j - m \in 1 .. n /\ j = m + (j - m))
  BY <1>2
<1>4. \A i \in 1 .. m : i \in 1 .. m + n
  BY <1>2
<1>5. \A i \in 1 .. n : m + i \in 1 .. m + n
  BY <1>2
<1>6. \A j \in 1 .. m + n : (j \in 1 .. m /\ u[j] = s[j]) \/ (j - m \in 1 .. n /\ u[j] = t[j - m])
  BY <1>2, <1>3
<1>7. AtomsOf(u) = AtomsOf(s) \cup AtomsOf(t)
  <2>1. AtomsOf(u) \subseteq AtomsOf(s) \cup AtomsOf(t)
    BY <1>1, <1>2, <1>6 DEF AtomsOf
  <2>2. AtomsOf(s) \subseteq AtomsOf(u)
    BY <1>1, <1>2, <1>4 DEF AtomsOf
  <2>3. AtomsOf(t) \subseteq AtomsOf(u)
    BY <1>1, <1>2, <1>5, SMTT(30) DEF AtomsOf
  <2> QED
    BY <2>1, <2>2, <2>3
<1>8. ASSUME Apart(s), Apart(t), AtomsOf(s) \cap AtomsOf(t) = {},
             NEW i \in 1 .. m + n, NEW j \in 1 .. m + n, u[i].atom = u[j].atom
      PROVE  i = j
  <2>1. CASE i \in 1 .. m /\ j \in 1 .. m
    BY <1>1, <1>2, <1>8, <2>1 DEF Apart
  <2>2. CASE i - m \in 1 .. n /\ j - m \in 1 .. n
    <3>1. u[i] = t[i - m] /\ u[j] = t[j - m]
      BY <1>2, <1>3, <2>2
    <3>2. i - m = j - m
      BY <1>1, <1>8, <2>2, <3>1 DEF Apart
    <3> QED
      BY <1>2, <3>2
  <2>3. ASSUME NEW k \in 1 .. m, NEW l \in 1 .. m + n, l - m \in 1 .. n
        PROVE  u[k].atom # u[l].atom
    <3>1. u[k] = s[k] /\ u[l] = t[l - m]
      BY <1>2, <1>3, <2>3
    <3> QED
      BY <1>1, <1>8, <2>3, <3>1 DEF AtomsOf
  <2> QED
    BY <1>3, <1>8, <2>1, <2>2, <2>3
<1>9. Apart(s) /\ Apart(t) /\ AtomsOf(s) \cap AtomsOf(t) = {} => Apart(u)
  BY <1>2, <1>8 DEF Apart
<1>10. \A j \in 1 .. m + n : \/ \E i \in 1 .. m : u[j] = s[i]
                             \/ \E i \in 1 .. n : u[j] = t[i]
  BY <1>6
<1> QED
  BY <1>1, <1>2, <1>7, <1>9, <1>10

\* The states of Deduplicate's loop over candidates C beside the rows E.
Entries(E, C) == [op : {"insert", "retire"}, atom : C,
                  old : {NoAtom} \cup {a.id : a \in E \cup C}]
Indexes(E, C) == UNION {[K -> E \cup C] : K \in SUBSET {a.key : a \in E \cup C}}
Judgings(E, C) == [index : Indexes(E, C), fresh : Seq(Entries(E, C)), pairs : Seq(Entries(E, C))]

WithKey(ix, c) == [k \in DOMAIN ix \cup {c.key} |-> IF k = c.key THEN c ELSE ix[k]]

LEMMA IndexFacts ==
    ASSUME NEW E, NEW C, NEW ix \in Indexes(E, C), NEW c \in C
    PROVE  /\ WithKey(ix, c) \in Indexes(E, C)
           /\ \A k \in DOMAIN ix : ix[k] \in E \cup C
<1>1. PICK K \in SUBSET {a.key : a \in E \cup C} : ix \in [K -> E \cup C]
  BY DEF Indexes
<1>2. K \cup {c.key} \in SUBSET {a.key : a \in E \cup C}
  OBVIOUS
<1>3. WithKey(ix, c) \in [K \cup {c.key} -> E \cup C]
  BY <1>1 DEF WithKey
<1>4. WithKey(ix, c) \in Indexes(E, C)
  BY <1>2, <1>3 DEF Indexes
<1> QED
  BY <1>1, <1>4

\* What one candidate does to the state.
LEMMA JudgedCases ==
    ASSUME NEW E, NEW C, NEW st \in Judgings(E, C), NEW c \in C, IsAtom(c),
           \A a \in E \cup C : IsAtom(a), NEW j, j = Judged(st, c)
    PROVE  /\ j \in Judgings(E, C)
           /\ \/ /\ j = st /\ c.key \in DOMAIN st.index /\ st.index[c.key].val = c.val
              \/ /\ j.index \in {st.index, WithKey(st.index, c)}
                 /\ j.fresh = Append(st.fresh, Insert(c)) /\ j.pairs = st.pairs
              \/ /\ j.index = WithKey(st.index, c) /\ j.fresh = st.fresh
                 /\ c.key \in DOMAIN st.index
                 /\ j.pairs = Append(st.pairs, Retire(c, st.index[c.key]))
                 /\ st.index[c.key].val # c.val
                 /\ c.at >= ValidityStart(st.index[c.key])
<1>1. /\ st.index \in Indexes(E, C) /\ st.fresh \in Seq(Entries(E, C)) /\ st.pairs \in Seq(Entries(E, C))
      /\ st = [index |-> st.index, fresh |-> st.fresh, pairs |-> st.pairs]
  BY DEF Judgings
<1>2. Insert(c) \in Entries(E, C)
  BY DEF Insert, Entries
<1>3. Append(st.fresh, Insert(c)) \in Seq(Entries(E, C))
  BY <1>1, <1>2
<1>4. WithKey(st.index, c) \in Indexes(E, C)
  BY <1>1, IndexFacts
<1>5. PICK u : u = AsFresh(st, c)
  OBVIOUS
<1>6. /\ u \in Judgings(E, C) /\ u.index = st.index
      /\ u.fresh = Append(st.fresh, Insert(c)) /\ u.pairs = st.pairs
  BY <1>1, <1>3, <1>5 DEF AsFresh, Judgings
<1>7. PICK v : v = Indexed(u, c)
  OBVIOUS
<1>8. /\ v \in Judgings(E, C) /\ v.index = WithKey(st.index, c)
      /\ v.fresh = Append(st.fresh, Insert(c)) /\ v.pairs = st.pairs
  <2>1. v = [u EXCEPT !.index = WithKey(st.index, c)]
    BY <1>6, <1>7 DEF Indexed, WithKey
  <2> QED
    BY <1>4, <1>6, <2>1 DEF Judgings
<1>9. CASE c.key \notin DOMAIN st.index
  <2>1. j \in {u, v}
    BY <1>5, <1>7, <1>9 DEF Judged
  <2> QED
    BY <1>6, <1>8, <2>1
<1>10. CASE c.key \in DOMAIN st.index
  <2>1. PICK cur : cur = st.index[c.key]
    OBVIOUS
  <2>2. cur \in E \cup C
    BY <1>1, <1>10, <2>1, IndexFacts
  <2>3. CASE cur.val = c.val
    <3>1. j \in {u, st}
      BY <1>5, <1>10, <2>1, <2>3 DEF Judged
    <3> QED
      BY <1>1, <1>6, <1>10, <2>1, <2>3, <3>1
  <2>4. CASE cur.val # c.val /\ (c.event \/ c.conf + 2 < cur.conf \/ c.at < ValidityStart(cur))
    <3>1. j = u
      BY <1>5, <1>10, <2>1, <2>4 DEF Judged
    <3> QED
      BY <1>6, <3>1
  <2>5. CASE cur.val # c.val /\ ~(c.event \/ c.conf + 2 < cur.conf \/ c.at < ValidityStart(cur))
    <3>1. PICK p : p = AsSupersession(st, c, cur)
      OBVIOUS
    <3>2. Retire(c, cur) \in Entries(E, C)
      BY <2>2 DEF Retire, Entries
    <3>3. Append(st.pairs, Retire(c, cur)) \in Seq(Entries(E, C))
      BY <1>1, <3>2
    <3>4. /\ p \in Judgings(E, C) /\ p.index = st.index /\ p.fresh = st.fresh
          /\ p.pairs = Append(st.pairs, Retire(c, cur))
      BY <1>1, <3>1, <3>3 DEF AsSupersession, Judgings
    <3>5. j = Indexed(p, c)
      BY <1>10, <2>1, <2>5, <3>1 DEF Judged
    <3>6. j = [p EXCEPT !.index = WithKey(st.index, c)]
      BY <3>4, <3>5 DEF Indexed, WithKey
    <3>7. /\ j \in Judgings(E, C) /\ j.index = WithKey(st.index, c) /\ j.fresh = st.fresh
          /\ j.pairs = Append(st.pairs, Retire(c, cur))
      BY <1>4, <3>4, <3>6 DEF Judgings
    <3>8. c.at >= ValidityStart(cur)
      <4>1. c.at \in Nat /\ cur.at \in Nat /\ cur.from \in Nat
        BY <2>2 DEF IsAtom
      <4> QED
        BY <2>5, <4>1 DEF ValidityStart
    <3> QED
      BY <1>10, <2>1, <2>5, <3>7, <3>8
  <2> QED
    BY <2>3, <2>4, <2>5
<1> QED
  BY <1>9, <1>10

\* The states of the loop.
LEMMA JudgedAllLoop ==
    ASSUME NEW n \in Nat, NEW cands, AreCandidates(cands, n), NEW E, IsFiniteSet(E),
           \A a \in E : IsAtom(a), NEW o \in Seq(1 .. n)
    PROVE  \E f : /\ f[0] = NothingJudged(E) /\ JudgedAll(E, cands, o) = f[Len(o)]
                 /\ \A i \in 1 .. Len(o) : f[i] = Judged(f[i - 1], cands[o[i]])
<1>c. PICK C : C = {cands[i] : i \in 1 .. n}
  OBVIOUS
<1> DEFINE step(x, i) == Judged(x, cands[o[i]])
<1>0. PICK nn, bb, SS : nn = Len(o) /\ bb = NothingJudged(E) /\ SS = Judgings(E, C)
  OBVIOUS
<1> DEFINE loop(f) == f = [i \in 0 .. nn |-> IF i = 0 THEN bb ELSE step(f[i - 1], i)]
<1>1. nn \in Nat /\ bb \in SS
  <2>1. LatestPerKey(E) \in [{a.key : a \in E} -> E]
    BY LatestPerKeyRows
  <2>2. LatestPerKey(E) \in [{a.key : a \in E} -> E \cup C]
    BY <2>1
  <2>3. LatestPerKey(E) \in Indexes(E, C)
    BY <2>2 DEF Indexes
  <2> QED
    BY <1>0, <2>3 DEF NothingJudged, Judgings
<1>2. \A x \in SS, i \in 1 .. nn : step(x, i) \in SS
  <2>1. \A i \in 1 .. nn : cands[o[i]] \in C
    BY <1>c, <1>0
  <2>2. \A a \in E \cup C : IsAtom(a)
    BY <1>c DEF AreCandidates
  <2> QED
    BY <1>0, <2>1, <2>2, JudgedCases
<1>3. JudgedAll(E, cands, o) = (CHOOSE f : loop(f))[nn]
  BY <1>0 DEF JudgedAll, LeftFold
<1> HIDE DEF step
<1>4. PICK G : AreTurns(G, nn, SS) /\ \A i \in 1 .. nn, x \in SS : G[i][x] = step(x, i)
  <2> DEFINE H == [i \in 1 .. nn |-> [x \in SS |-> step(x, i)]]
  <2>1. AreTurns(H, nn, SS) /\ \A i \in 1 .. nn, x \in SS : H[i][x] = step(x, i)
    BY <1>2 DEF AreTurns
  <2> HIDE DEF H
  <2> QED
    BY <2>1
<1>5. PICK g : IsLoop(g, nn, SS, bb, G)
  BY <1>1, <1>4, LoopExists
<1>6. loop(g)
  <2>1. \A i \in 1 .. nn : g[i - 1] \in SS /\ g[i] = step(g[i - 1], i)
    BY <1>1, <1>4, <1>5 DEF IsLoop
  <2>2. \A i \in 0 .. nn : g[i] = IF i = 0 THEN bb ELSE step(g[i - 1], i)
    BY <1>1, <1>5, <2>1 DEF IsLoop
  <2> QED
    BY <1>5, <2>2 DEF IsLoop
<1>7. PICK f : loop(f) /\ JudgedAll(E, cands, o) = f[nn]
  <2> HIDE DEF loop
  <2> QED
    BY <1>3, <1>6
<1>8. f[0] = bb /\ \A i \in 1 .. nn : f[i] = step(f[i - 1], i)
  BY <1>1, <1>7
<1> QED
  BY <1>0, <1>7, <1>8 DEF step

\* What holds of the state once the candidates with places D are judged.
Rows(E, fresh, pairs) == E \cup AtomsOf(fresh) \cup AtomsOf(pairs)
WritesApart(fresh, pairs, cands, D) ==
    /\ AtomsOf(fresh) \cup AtomsOf(pairs) \subseteq {cands[d] : d \in D}
    /\ Apart(fresh) /\ Apart(pairs) /\ AtomsOf(fresh) \cap AtomsOf(pairs) = {}
AllInserts(fresh) == \A j \in 1 .. Len(fresh) : fresh[j].op = "insert"
AllAnswer(pairs, A) == \A j \in 1 .. Len(pairs) : Answers(pairs[j], A)
IndexSound(ix, A) == \A k \in DOMAIN ix : ix[k].key = k /\ ix[k] \in A
AllKept(A, cands, D) == \A d \in D : \E a \in A : Like(a, cands[d])
JudgedSoundly(ix, fresh, pairs, E, cands, D) ==
    /\ WritesApart(fresh, pairs, cands, D)
    /\ AllInserts(fresh)
    /\ AllAnswer(pairs, Rows(E, fresh, pairs))
    /\ IndexSound(ix, Rows(E, fresh, pairs))
    /\ AllKept(Rows(E, fresh, pairs), cands, D)

LEMMA AnswersMore ==
    ASSUME NEW p, NEW A, NEW B, A \subseteq B, Answers(p, A)
    PROVE  Answers(p, B)
BY DEF Answers

LEMMA JudgedKeepsSound ==
    ASSUME NEW n \in Nat, NEW cands, AreCandidates(cands, n), NEW E, \A a \in E : IsAtom(a),
           NEW C, C = {cands[i] : i \in 1 .. n}, NEW st \in Judgings(E, C),
           NEW D \in SUBSET (1 .. n), NEW x \in (1 .. n) \ D,
           JudgedSoundly(st.index, st.fresh, st.pairs, E, cands, D),
           NEW j, j = Judged(st, cands[x])
    PROVE  JudgedSoundly(j.index, j.fresh, j.pairs, E, cands, D \cup {x})
<1>1. PICK c, ix, f, p, jx, g, q : /\ c = cands[x]
                                   /\ ix = st.index /\ f = st.fresh /\ p = st.pairs
                                   /\ jx = j.index /\ g = j.fresh /\ q = j.pairs
  OBVIOUS
<1>2. c \in C /\ IsAtom(c) /\ \A a \in E \cup C : IsAtom(a)
  BY <1>1 DEF AreCandidates
<1>3. c \notin {cands[d] : d \in D}
  BY <1>1 DEF AreCandidates
<1>4. j = Judged(st, c)
  BY <1>1
<1>5. PICK A, B : A = Rows(E, f, p) /\ B = Rows(E, g, q)
  OBVIOUS
<1>6. ix \in Indexes(E, C) /\ f \in Seq(Entries(E, C)) /\ p \in Seq(Entries(E, C))
  BY <1>1 DEF Judgings
<1>7. /\ WritesApart(f, p, cands, D) /\ AllInserts(f)
      /\ AllAnswer(p, A) /\ IndexSound(ix, A) /\ AllKept(A, cands, D)
  BY <1>1, <1>5 DEF JudgedSoundly
<1>8. c \notin AtomsOf(f) /\ c \notin AtomsOf(p)
  BY <1>3, <1>7 DEF WritesApart
<1>9. {cands[d] : d \in D \cup {x}} = {cands[d] : d \in D} \cup {c}
  BY <1>1
<1>10. SUFFICES /\ WritesApart(g, q, cands, D \cup {x}) /\ AllInserts(g)
                /\ AllAnswer(q, B) /\ IndexSound(jx, B) /\ AllKept(B, cands, D \cup {x})
  BY <1>1, <1>5 DEF JudgedSoundly
<1>11. Insert(c) \in Entries(E, C) /\ Insert(c).atom = c /\ Insert(c).op = "insert"
  BY <1>2 DEF Insert, Entries
<1>12. /\ DOMAIN WithKey(ix, c) = DOMAIN ix \cup {c.key}
       /\ WithKey(ix, c)[c.key] = c
       /\ \A k \in DOMAIN ix : k # c.key => WithKey(ix, c)[k] = ix[k]
       /\ \A k \in DOMAIN ix : ix[k] \in E \cup C
  <2>1. \A k \in DOMAIN ix : ix[k] \in E \cup C
    BY <1>2, <1>6, IndexFacts
  <2> QED
    BY <2>1 DEF WithKey
<1>13. CASE jx = ix /\ g = f /\ q = p /\ c.key \in DOMAIN ix /\ ix[c.key].val = c.val
  <2>1. Like(ix[c.key], c) /\ ix[c.key] \in A
    BY <1>7, <1>13 DEF Like, IndexSound
  <2>2. AllKept(A, cands, D \cup {x})
    BY <1>1, <1>7, <2>1 DEF AllKept
  <2>3. WritesApart(f, p, cands, D \cup {x})
    BY <1>7, <1>9 DEF WritesApart
  <2> QED
    BY <1>5, <1>7, <1>13, <2>2, <2>3
<1>14. ASSUME B = A \cup {c} PROVE AllKept(B, cands, D \cup {x})
  <2>1. Like(c, cands[x])
    BY <1>1 DEF Like
  <2> QED
    BY <1>7, <1>14, <2>1 DEF AllKept
<1>15. ASSUME B = A \cup {c}, jx \in {ix, WithKey(ix, c)} PROVE IndexSound(jx, B)
  <2>1. CASE jx = ix
    BY <1>7, <1>15, <2>1 DEF IndexSound
  <2>2. CASE jx = WithKey(ix, c)
    BY <1>7, <1>12, <1>15, <2>2 DEF IndexSound
  <2> QED
    BY <1>15, <2>1, <2>2
<1>16. CASE jx \in {ix, WithKey(ix, c)} /\ g = Append(f, Insert(c)) /\ q = p
  <2>1. /\ AtomsOf(g) = AtomsOf(f) \cup {c} /\ Len(g) = Len(f) + 1 /\ Len(f) \in Nat
        /\ \A k \in 1 .. Len(f) : g[k] = f[k]
        /\ g[Len(f) + 1] = Insert(c)
        /\ Apart(f) => Apart(g)
    BY <1>6, <1>8, <1>11, <1>16, AppendApart
  <2>2. AllInserts(g)
    <3>1. \A k \in 1 .. Len(f) + 1 : k \in 1 .. Len(f) \/ k = Len(f) + 1
      BY <2>1
    <3> QED
      BY <1>7, <1>11, <2>1, <3>1 DEF AllInserts
  <2>3. B = A \cup {c}
    BY <1>5, <1>16, <2>1 DEF Rows
  <2>4. AllAnswer(q, B)
    BY <1>7, <1>16, <2>3, AnswersMore DEF AllAnswer
  <2>5. WritesApart(g, q, cands, D \cup {x})
    BY <1>7, <1>8, <1>9, <1>16, <2>1 DEF WritesApart
  <2> QED
    BY <1>14, <1>15, <1>16, <2>2, <2>3, <2>4, <2>5
<1>17. CASE /\ jx = WithKey(ix, c) /\ g = f /\ c.key \in DOMAIN ix
            /\ q = Append(p, Retire(c, ix[c.key]))
            /\ ix[c.key].val # c.val /\ c.at >= ValidityStart(ix[c.key])
  <2>1. PICK old, e : old = ix[c.key] /\ e = Retire(c, old)
    OBVIOUS
  <2>2. old \in A /\ old.key = c.key /\ old.val # c.val /\ c.at >= ValidityStart(old)
    BY <1>7, <1>17, <2>1 DEF IndexSound
  <2>3. old \in E \cup C
    BY <1>12, <1>17, <2>1
  <2>4. e \in Entries(E, C) /\ e.atom = c /\ e.old = old.id
    BY <1>2, <2>1, <2>3 DEF Retire, Entries
  <2>5. /\ AtomsOf(q) = AtomsOf(p) \cup {c} /\ Len(q) = Len(p) + 1 /\ Len(p) \in Nat
        /\ \A k \in 1 .. Len(p) : q[k] = p[k]
        /\ q[Len(p) + 1] = e
        /\ Apart(p) => Apart(q)
    BY <1>6, <1>8, <1>17, <2>1, <2>4, AppendApart
  <2>6. B = A \cup {c}
    BY <1>5, <1>17, <2>5 DEF Rows
  <2>7. Answers(e, B)
    BY <2>2, <2>4, <2>6 DEF Answers
  <2>8. AllAnswer(q, B)
    <3>1. \A k \in 1 .. Len(p) : Answers(p[k], B)
      BY <1>7, <2>6, AnswersMore DEF AllAnswer
    <3>2. \A k \in 1 .. Len(p) + 1 : k \in 1 .. Len(p) \/ k = Len(p) + 1
      BY <2>5
    <3> QED
      BY <2>5, <2>7, <3>1, <3>2 DEF AllAnswer
  <2>9. WritesApart(g, q, cands, D \cup {x})
    BY <1>7, <1>8, <1>9, <1>17, <2>5 DEF WritesApart
  <2> QED
    BY <1>7, <1>14, <1>15, <1>17, <2>6, <2>8, <2>9
<1>18. \/ /\ j = st /\ c.key \in DOMAIN ix /\ ix[c.key].val = c.val
       \/ /\ jx \in {ix, WithKey(ix, c)} /\ g = Append(f, Insert(c)) /\ q = p
       \/ /\ jx = WithKey(ix, c) /\ g = f /\ c.key \in DOMAIN ix
          /\ q = Append(p, Retire(c, ix[c.key]))
          /\ ix[c.key].val # c.val /\ c.at >= ValidityStart(ix[c.key])
  BY <1>1, <1>2, <1>4, JudgedCases
<1> QED
  BY <1>1, <1>13, <1>16, <1>17, <1>18

\* What a plan of Deduplicate promises.
PlanSound(plan, E, cands, n) ==
    /\ plan \in Seq(Entries(E, {cands[i] : i \in 1 .. n}))
    /\ Apart(plan)
    /\ AtomsOf(plan) \subseteq {cands[i] : i \in 1 .. n}
    /\ \A j \in 1 .. Len(plan) : plan[j].op # "insert" => Answers(plan[j], E \cup AtomsOf(plan))
    /\ \A i \in 1 .. n : \E a \in E \cup AtomsOf(plan) : Like(a, cands[i])

LEMMA DeduplicateFacts ==
    ASSUME NEW n \in Nat, NEW cands, AreCandidates(cands, n), NEW E, IsFiniteSet(E),
           \A a \in E : IsAtom(a), NEW plan \in Deduplicate(E, cands)
    PROVE  PlanSound(plan, E, cands, n)
<1>1. PICK o \in InOrder(cands) :
             plan = JudgedAll(E, cands, o).fresh \o JudgedAll(E, cands, o).pairs
  BY DEF Deduplicate
<1>2. PICK C : C = {cands[i] : i \in 1 .. n}
  OBVIOUS
<1>3. Distinct(cands) \subseteq 1 .. n
  BY DEF Distinct, AreCandidates
<1>4. IsFiniteSet(Distinct(cands))
  BY <1>3, FS_Interval, FS_Subset
<1>5. o \in SetToSeqs(Distinct(cands))
  BY DEF InOrder
<1>6. o \in Seq(Distinct(cands)) /\ IsInjective(o) /\ Range(o) = Distinct(cands)
  BY <1>4, <1>5, EnumerationFacts
<1>7. o \in Seq(1 .. n)
  <2>1. \A i \in 1 .. Len(o) : o[i] \in 1 .. n
    BY <1>3, <1>6
  <2>2. Len(o) \in Nat /\ o = [i \in 1 .. Len(o) |-> o[i]]
    BY <1>6
  <2> QED
    BY <2>1, <2>2
<1>8. PICK m \in Nat : m = Len(o) /\ DOMAIN o = 1 .. m /\ \A i \in 1 .. m : o[i] \in 1 .. n
  BY <1>7
<1>9. PICK f : /\ f[0] = NothingJudged(E) /\ JudgedAll(E, cands, o) = f[m]
               /\ \A i \in 1 .. m : f[i] = Judged(f[i - 1], cands[o[i]])
  <2>1. PICK f : /\ f[0] = NothingJudged(E) /\ JudgedAll(E, cands, o) = f[Len(o)]
                 /\ \A i \in 1 .. Len(o) : f[i] = Judged(f[i - 1], cands[o[i]])
    BY <1>7, JudgedAllLoop
  <2> QED
    BY <1>8, <2>1
<1> DEFINE Good(i) == /\ f[i] \in Judgings(E, C)
                      /\ JudgedSoundly(f[i].index, f[i].fresh, f[i].pairs, E, cands, UpTo(o, i))
           T == {i \in 0 .. m : Good(i)}
<1>10. Good(0)
  <2>1. PICK ix : ix = LatestPerKey(E)
    OBVIOUS
  <2>2. ix \in [{a.key : a \in E} -> E] /\ \A k \in {a.key : a \in E} : ix[k].key = k
    BY <2>1, LatestPerKeyRows
  <2>3. ix \in [{a.key : a \in E} -> E \cup C]
    BY <2>2
  <2>4. ix \in Indexes(E, C)
    BY <2>3 DEF Indexes
  <2>5. f[0] = [index |-> ix, fresh |-> <<>>, pairs |-> <<>>]
    BY <1>9, <2>1 DEF NothingJudged
  <2>6. f[0] \in Judgings(E, C) /\ f[0].index = ix /\ f[0].fresh = <<>> /\ f[0].pairs = <<>>
    BY <2>4, <2>5 DEF Judgings
  <2>7. UpTo(o, 0) = {} /\ AtomsOf(<<>>) = {} /\ Apart(<<>>)
    BY DEF UpTo, AtomsOf, Apart
  <2>8. Rows(E, <<>>, <<>>) = E
    BY <2>7 DEF Rows
  <2>9. /\ WritesApart(<<>>, <<>>, cands, {}) /\ AllInserts(<<>>) /\ AllAnswer(<<>>, E)
        /\ AllKept(E, cands, {})
    BY <2>7 DEF WritesApart, AllInserts, AllAnswer, AllKept
  <2>10. IndexSound(ix, E)
    BY <2>2 DEF IndexSound
  <2> QED
    BY <2>6, <2>7, <2>8, <2>9, <2>10 DEF JudgedSoundly
<1>11. ASSUME NEW i \in 1 .. m, Good(i - 1) PROVE Good(i)
  <2>1. UpTo(o, i) = UpTo(o, i - 1) \cup {o[i]} /\ UpTo(o, i - 1) \in SUBSET (1 .. n)
    BY <1>8 DEF UpTo
  <2>2. o[i] \in (1 .. n) \ UpTo(o, i - 1)
    BY <1>6, <1>8 DEF UpTo, IsInjective
  <2>3. PICK st, x, D, j : st = f[i - 1] /\ x = o[i] /\ D = UpTo(o, i - 1) /\ j = f[i]
    OBVIOUS
  <2>4. j = Judged(st, cands[x])
    BY <1>9, <2>3
  <2>5. st \in Judgings(E, C) /\ JudgedSoundly(st.index, st.fresh, st.pairs, E, cands, D)
    BY <1>11, <2>3
  <2>6. JudgedSoundly(j.index, j.fresh, j.pairs, E, cands, D \cup {x})
    BY <1>2, <2>1, <2>2, <2>3, <2>4, <2>5, JudgedKeepsSound
  <2>7. j \in Judgings(E, C)
    <3>1. cands[x] \in C /\ IsAtom(cands[x]) /\ \A a \in E \cup C : IsAtom(a)
      BY <1>2, <2>2, <2>3 DEF AreCandidates
    <3> QED
      BY <2>4, <2>5, <3>1, JudgedCases
  <2> QED
    BY <2>1, <2>3, <2>6, <2>7
<1>12. Good(m)
  <2> HIDE DEF Good
  <2>1. 0 \in T /\ \A i \in 1 .. m : i - 1 \in T => i \in T
    BY <1>10, <1>11
  <2> HIDE DEF T
  <2>2. \A i \in 0 .. m : i \in T
    BY <2>1, UpToAll
  <2>3. m \in T
    BY <2>2
  <2> QED
    BY <2>3 DEF T
<1>13. PICK g, q : g = f[m].fresh /\ q = f[m].pairs
  OBVIOUS
<1>14. plan = g \o q /\ g \in Seq(Entries(E, C)) /\ q \in Seq(Entries(E, C))
  BY <1>1, <1>9, <1>12, <1>13 DEF Judgings
<1>15. UpTo(o, m) = Distinct(cands)
  BY <1>6, <1>8 DEF UpTo, Range
<1>16. /\ WritesApart(g, q, cands, Distinct(cands)) /\ AllInserts(g)
       /\ AllAnswer(q, Rows(E, g, q)) /\ AllKept(Rows(E, g, q), cands, Distinct(cands))
  BY <1>12, <1>13, <1>15 DEF JudgedSoundly
<1>17. /\ plan \in Seq(Entries(E, C)) /\ AtomsOf(plan) = AtomsOf(g) \cup AtomsOf(q)
       /\ Apart(plan)
       /\ \A j \in 1 .. Len(plan) : \/ \E i \in 1 .. Len(g) : plan[j] = g[i]
                                    \/ \E i \in 1 .. Len(q) : plan[j] = q[i]
  <2>1. Apart(g) /\ Apart(q) /\ AtomsOf(g) \cap AtomsOf(q) = {}
    BY <1>16 DEF WritesApart
  <2>2. PICK V : V = Entries(E, C)
    OBVIOUS
  <2>3. g \in Seq(V) /\ q \in Seq(V)
    BY <1>14, <2>2
  <2>4. /\ g \o q \in Seq(V) /\ AtomsOf(g \o q) = AtomsOf(g) \cup AtomsOf(q)
        /\ Apart(g \o q)
        /\ \A j \in 1 .. Len(g \o q) : \/ \E i \in 1 .. Len(g) : (g \o q)[j] = g[i]
                                       \/ \E i \in 1 .. Len(q) : (g \o q)[j] = q[i]
    BY <2>1, <2>3, ConcatApart
  <2> QED
    BY <1>14, <2>2, <2>4
<1>18. Rows(E, g, q) = E \cup AtomsOf(plan)
  BY <1>17 DEF Rows
<1>19. \A j \in 1 .. Len(plan) : plan[j].op # "insert" => Answers(plan[j], E \cup AtomsOf(plan))
  BY <1>16, <1>17, <1>18 DEF AllInserts, AllAnswer
<1>20. ASSUME NEW i \in 1 .. n PROVE \E a \in E \cup AtomsOf(plan) : Like(a, cands[i])
  <2>1. PICK d \in Distinct(cands) : Like(cands[d], cands[i])
    BY FirstOfTheKind
  <2>2. PICK a \in E \cup AtomsOf(plan) : Like(a, cands[d])
    BY <1>16, <1>18 DEF AllKept
  <2>3. Like(a, cands[i])
    BY <2>1, <2>2 DEF Like
  <2> QED
    BY <2>3
<1>21. AtomsOf(plan) \subseteq C
  BY <1>2, <1>3, <1>16, <1>17 DEF WritesApart
<1> QED
  BY <1>2, <1>17, <1>19, <1>20, <1>21 DEF PlanSound

-----------------------------------------------------------------------------
(* The atoms table.                                                        *)

\* A retired row has one heir, which could replace it; another has none.
Inherited(A, a, noWrites) ==
    /\ a.retired <=> \E b \in A : b.sup = a.id
    /\ \A b, c \in A : b.sup = a.id /\ c.sup = a.id => b = c
    /\ \A b \in A : b.sup = a.id => /\ b.key = a.key /\ b.val # a.val
                                    /\ b.at >= ValidityStart(a) /\ ~noWrites
Identified(a) == a.id = <<a.id[1], a.mem, a.id[3]>>
OneRowEach(A) == \A a, b \in A : a.mem = b.mem /\ a.id[3] = b.id[3] => a = b
RowsSound(A, noWrites) ==
    /\ IsFiniteSet(A)
    /\ \A a \in A : IsAtom(a) /\ Identified(a)
    /\ OneRowEach(A)
    /\ \A a \in A : a.sup = NoAtom \/ a.sup[2] \notin XMems \/ \E b \in A : b.id = a.sup
    /\ \A a \in A : Inherited(A, a, noWrites)

LEMMA OneId ==
    ASSUME NEW A, \A a \in A : Identified(a), OneRowEach(A), NEW a \in A, NEW b \in A, a.id = b.id
    PROVE  a = b
<1>1. a.id[2] = a.mem /\ b.id[2] = b.mem
  BY DEF Identified
<1> QED
  BY <1>1 DEF OneRowEach

\* A new row of a memory of this session is not the one any row superseded.
NewRow(A, b) ==
    /\ IsAtom(b) /\ Identified(b) /\ b.mem \in XMems /\ ~b.retired
    /\ \A a \in A : a.mem = b.mem => a.id[3] # b.id[3]

LEMMA NewRowFacts ==
    ASSUME NEW A, NEW noWrites, RowsSound(A, noWrites), NEW b, NewRow(A, b)
    PROVE  /\ \A a \in A : a.id # b.id /\ a.sup # b.id
           /\ b.id # NoAtom
<1>1. b.id[2] = b.mem /\ b.id # NoAtom
  <2>1. PICK t : t = b.id /\ t = <<t[1], b.mem, t[3]>>
    BY DEF NewRow, Identified
  <2>2. t # <<>> /\ t[2] = b.mem
    BY <2>1
  <2> QED
    BY <2>1, <2>2 DEF NoAtom
<1>2. ASSUME NEW a \in A PROVE a.id # b.id
  <2>1. a.id[2] = a.mem
    BY DEF RowsSound, Identified
  <2> QED
    BY <1>1, <2>1 DEF NewRow
<1>3. ASSUME NEW a \in A PROVE a.sup # b.id
  BY <1>1, <1>2 DEF RowsSound, NewRow
<1> QED
  BY <1>1, <1>2, <1>3

LEMMA InsertKeepsRows ==
    ASSUME NEW A, NEW noWrites, RowsSound(A, noWrites), NEW b, NewRow(A, b), b.sup = NoAtom
    PROVE  RowsSound(A \cup {b}, noWrites)
<1>1. /\ \A a \in A : a.id # b.id /\ a.sup # b.id
      /\ b.id # NoAtom
  BY NewRowFacts
<1>2. \A a \in A : a.id # NoAtom
  <2> SUFFICES ASSUME NEW a \in A PROVE a.id # NoAtom
    OBVIOUS
  <2>1. PICK t : t = a.id /\ t = <<t[1], a.mem, t[3]>>
    BY DEF RowsSound, Identified
  <2>2. t # <<>>
    BY <2>1
  <2> QED
    BY <2>1, <2>2 DEF NoAtom
<1>3. PICK B : B = A \cup {b}
  OBVIOUS
<1>4. IsFiniteSet(B)
  BY <1>3, FS_AddElement DEF RowsSound
<1>5. \A a \in B : IsAtom(a) /\ Identified(a)
  BY <1>3 DEF RowsSound, NewRow
<1>6. OneRowEach(B)
  BY <1>3 DEF RowsSound, NewRow, OneRowEach
<1>7. \A a \in B : a.sup = NoAtom \/ a.sup[2] \notin XMems \/ \E c \in B : c.id = a.sup
  BY <1>3 DEF RowsSound
<1>8. ASSUME NEW a \in A PROVE Inherited(B, a, noWrites)
  <2>1. Inherited(A, a, noWrites)
    BY DEF RowsSound
  <2>2. \A c \in B : c.sup = a.id => c \in A
    BY <1>2, <1>3
  <2>3. \A c \in A : c \in B
    BY <1>3
  <2> QED
    BY <2>1, <2>2, <2>3 DEF Inherited
<1>9. Inherited(B, b, noWrites)
  <2>1. \A c \in B : c.sup # b.id
    BY <1>1, <1>3
  <2>2. ~b.retired
    BY DEF NewRow
  <2> QED
    BY <2>1, <2>2 DEF Inherited
<1> QED
  BY <1>3, <1>4, <1>5, <1>6, <1>7, <1>8, <1>9 DEF RowsSound

\* The table after the row with id `old' was retired.
Retiring(A, old) == {[a EXCEPT !.retired = @ \/ a.id = old] : a \in A}

LEMMA RetiringRows ==
    ASSUME NEW A, \A a \in A : IsAtom(a), NEW old
    PROVE  \E R : /\ Retiring(A, old) = {R[a] : a \in A}
                 /\ \A a \in A : /\ IsAtom(R[a]) /\ SameFact(R[a], a) /\ R[a].sup = a.sup
                                 /\ R[a].retired <=> (a.retired \/ a.id = old)
<1> DEFINE R == [a \in A |-> [a EXCEPT !.retired = @ \/ a.id = old]]
<1>1. Retiring(A, old) = {R[a] : a \in A}
  BY DEF Retiring
<1>2. ASSUME NEW a \in A
      PROVE  /\ IsAtom(R[a]) /\ SameFact(R[a], a) /\ R[a].sup = a.sup
             /\ R[a].retired <=> (a.retired \/ a.id = old)
  <2>1. PICK r \in BOOLEAN : r = (a.retired \/ a.id = old)
    OBVIOUS
  <2>2. PICK b : b = R[a]
    OBVIOUS
  <2>3. b = [a EXCEPT !.retired = a.retired \/ a.id = old]
    BY <2>2
  <2>4. b = [a EXCEPT !.retired = r]
    BY <2>1, <2>3
  <2>5. IsAtom(b) /\ SameFact(b, a) /\ b.sup = a.sup /\ b.retired = r
    BY <2>4, RetiredRow
  <2> QED
    BY <2>1, <2>2, <2>5
<1> HIDE DEF R
<1> QED
  BY <1>1, <1>2

LEMMA RetireKeepsRows ==
    ASSUME NEW A, NEW noWrites, ~noWrites, RowsSound(A, noWrites), NEW b, NewRow(A, b),
           NEW x \in A, ~x.retired, b.sup = x.id,
           b.key = x.key, b.val # x.val, b.at >= ValidityStart(x)
    PROVE  RowsSound(Retiring(A, x.id) \cup {b}, noWrites)
<1>1. /\ \A a \in A : a.id # b.id /\ a.sup # b.id
      /\ b.id # NoAtom
  BY NewRowFacts
<1>2. PICK R : /\ Retiring(A, x.id) = {R[a] : a \in A}
               /\ \A a \in A : /\ IsAtom(R[a]) /\ SameFact(R[a], a) /\ R[a].sup = a.sup
                               /\ R[a].retired <=> (a.retired \/ a.id = x.id)
  <2>1. \A a \in A : IsAtom(a)
    BY DEF RowsSound
  <2> QED
    BY <2>1, RetiringRows
<1>3. PICK B : B = {R[a] : a \in A} \cup {b}
  OBVIOUS
<1>4. IsFiniteSet(B)
  <2>1. IsFiniteSet(A)
    BY DEF RowsSound
  <2>2. [a \in A |-> R[a]] \in Surjection(A, {R[a] : a \in A})
    BY DEF Surjection
  <2>3. IsFiniteSet({R[a] : a \in A})
    BY <2>1, <2>2, FS_Surjection
  <2> QED
    BY <1>3, <2>3, FS_AddElement
<1>5. \A a \in B : IsAtom(a) /\ Identified(a)
  <2>1. \A a \in A : Identified(R[a])
    BY <1>2 DEF RowsSound, Identified, SameFact
  <2> QED
    BY <1>2, <1>3, <2>1 DEF NewRow
<1>6. OneRowEach(B)
  <2>1. ASSUME NEW a \in A, NEW c \in A, R[a].mem = R[c].mem, R[a].id[3] = R[c].id[3]
        PROVE  R[a] = R[c]
    <3>1. a.mem = c.mem /\ a.id[3] = c.id[3]
      BY <1>2, <2>1 DEF SameFact
    <3>2. a = c
      BY <3>1 DEF RowsSound, OneRowEach
    <3> QED
      BY <3>2
  <2>2. ASSUME NEW a \in A PROVE ~(R[a].mem = b.mem /\ R[a].id[3] = b.id[3])
    BY <1>2 DEF SameFact, NewRow
  <2> QED
    BY <1>3, <2>1, <2>2 DEF OneRowEach
<1>7. \A a \in B : a.sup = NoAtom \/ a.sup[2] \notin XMems \/ \E c \in B : c.id = a.sup
  <2>1. ASSUME NEW a \in A, NEW c \in A, c.id = a.sup PROVE \E d \in B : d.id = R[a].sup
    <3>1. R[c] \in B /\ R[c].id = c.id /\ R[a].sup = a.sup
      BY <1>2, <1>3 DEF SameFact
    <3> QED
      BY <2>1, <3>1
  <2>2. ASSUME NEW a \in A
        PROVE  R[a].sup = NoAtom \/ R[a].sup[2] \notin XMems \/ \E d \in B : d.id = R[a].sup
    BY <1>2, <2>1 DEF RowsSound
  <2>3. R[x] \in B /\ R[x].id = b.sup
    BY <1>2, <1>3 DEF SameFact
  <2> QED
    BY <1>3, <2>2, <2>3
<1>8. ASSUME NEW a \in A PROVE Inherited(B, R[a], noWrites)
  <2>0. /\ R[a].key = a.key /\ R[a].val = a.val /\ R[a].id = a.id
        /\ ValidityStart(R[a]) = ValidityStart(a)
    BY <1>2 DEF SameFact, ValidityStart
  <2>1. Inherited(A, a, noWrites)
    BY DEF RowsSound
  <2>2. CASE a = x
    <3>1. \A c \in A : R[c].sup # x.id
      BY <1>2, <2>1, <2>2 DEF Inherited
    <3>2. \A c \in B : c.sup = R[a].id => c = b
      BY <1>3, <2>0, <2>2, <3>1
    <3>3. R[a].retired /\ b \in B /\ b.sup = R[a].id
      BY <1>2, <1>3, <2>0, <2>2
    <3> QED
      BY <2>0, <2>2, <3>2, <3>3 DEF Inherited
  <2>3. CASE a # x
    <3>1. a.id # x.id
      BY <2>3, OneId DEF RowsSound
    <3>2. R[a].retired <=> a.retired
      BY <1>2, <3>1
    <3>3. \A d \in B : d.sup = a.id => \E c \in A : d = R[c] /\ c.sup = a.id
      BY <1>2, <1>3, <3>1
    <3>4. \A c \in A : c.sup = a.id => R[c] \in B /\ R[c].sup = a.id
      BY <1>2, <1>3
    <3>5. R[a].retired <=> \E d \in B : d.sup = a.id
      BY <2>1, <3>2, <3>3, <3>4 DEF Inherited
    <3>6. \A d, e \in B : d.sup = a.id /\ e.sup = a.id => d = e
      BY <2>1, <3>3 DEF Inherited
    <3>7. \A c \in A : R[c].key = c.key /\ R[c].val = c.val /\ R[c].at = c.at
      BY <1>2 DEF SameFact
    <3>8. \A d \in B : d.sup = a.id => /\ d.key = a.key /\ d.val # a.val
                                       /\ d.at >= ValidityStart(a) /\ ~noWrites
      BY <2>1, <3>3, <3>7 DEF Inherited
    <3> QED
      BY <2>0, <3>5, <3>6, <3>8 DEF Inherited
  <2> QED
    BY <2>2, <2>3
<1>9. Inherited(B, b, noWrites)
  <2>1. \A c \in B : c.sup # b.id
    BY <1>1, <1>2, <1>3
  <2>2. ~b.retired
    BY DEF NewRow
  <2> QED
    BY <2>1, <2>2 DEF Inherited
<1>10. \A a \in B : Inherited(B, a, noWrites)
  BY <1>3, <1>8, <1>9
<1> QED
  BY <1>2, <1>3, <1>4, <1>5, <1>6, <1>7, <1>10 DEF RowsSound

\* The properties of the specification are those of the rows.
LEMMA RowsGiveProperties ==
    ASSUME RowsSound(atoms, dry)
    PROVE  SupersededOnce /\ ExtractedOnce
<1>1. ExtractedOnce
  BY DEF RowsSound, OneRowEach, ExtractedOnce
<1>2. ASSUME NEW a \in atoms
      PROVE  /\ Cardinality({b \in atoms : b.sup = a.id}) = (IF a.retired THEN 1 ELSE 0)
             /\ \A b \in {b \in atoms : b.sup = a.id} :
                  /\ b.key = a.key /\ b.val # a.val /\ b.at >= ValidityStart(a) /\ ~dry
  <2>1. Inherited(atoms, a, dry)
    BY DEF RowsSound
  <2>2. PICK H : H = {b \in atoms : b.sup = a.id}
    OBVIOUS
  <2>3. CASE a.retired
    <3>1. PICK b \in atoms : b.sup = a.id
      BY <2>1, <2>3 DEF Inherited
    <3>2. H = {b}
      BY <2>1, <2>2, <3>1 DEF Inherited
    <3>3. Cardinality(H) = 1
      BY <3>2, FS_Singleton
    <3> QED
      BY <2>1, <2>2, <2>3, <3>3 DEF Inherited
  <2>4. CASE ~a.retired
    <3>1. H = {}
      BY <2>1, <2>2, <2>4 DEF Inherited
    <3>2. Cardinality(H) = 0
      BY <3>1, FS_EmptySet
    <3> QED
      BY <2>1, <2>2, <2>4, <3>2 DEF Inherited
  <2> QED
    BY <2>3, <2>4
<1> QED
  BY <1>1, <1>2 DEF SupersededOnce

-----------------------------------------------------------------------------
(* Plans.                                                                  *)

LEMMA TailApart ==
    ASSUME NEW V, NEW s \in Seq(V), s # <<>>
    PROVE  /\ Tail(s) \in Seq(V)
           /\ AtomsOf(s) = AtomsOf(Tail(s)) \cup {Head(s).atom}
           /\ Apart(s) => Apart(Tail(s)) /\ Head(s).atom \notin AtomsOf(Tail(s))
           /\ \A j \in 1 .. Len(Tail(s)) : \E i \in 1 .. Len(s) : Tail(s)[j] = s[i]
           /\ Head(s) = s[1] /\ 1 \in 1 .. Len(s)
<1>1. PICK t, h, n : t = Tail(s) /\ h = Head(s) /\ n = Len(s)
  OBVIOUS
<1>2. /\ n \in Nat \ {0} /\ t \in Seq(V) /\ Len(t) = n - 1 /\ h = s[1]
      /\ \A j \in 1 .. n - 1 : t[j] = s[j + 1]
  BY <1>1
<1>3. \A j \in 1 .. n - 1 : j + 1 \in 1 .. n
  BY <1>2
<1>4. \A j \in 1 .. n : j = 1 \/ (j - 1 \in 1 .. n - 1 /\ t[j - 1] = s[j])
  BY <1>2
<1>5. AtomsOf(s) = AtomsOf(t) \cup {h.atom}
  <2>1. \A j \in 1 .. n : s[j].atom \in AtomsOf(t) \cup {h.atom}
    BY <1>2, <1>4 DEF AtomsOf
  <2>2. AtomsOf(t) \subseteq AtomsOf(s)
    BY <1>1, <1>2, <1>3 DEF AtomsOf
  <2>3. h.atom \in AtomsOf(s)
    BY <1>1, <1>2 DEF AtomsOf
  <2> QED
    BY <1>1, <2>1, <2>2, <2>3 DEF AtomsOf
<1>6. ASSUME Apart(s) PROVE Apart(t) /\ h.atom \notin AtomsOf(t)
  <2>1. ASSUME NEW i \in 1 .. n - 1, NEW j \in 1 .. n - 1, t[i].atom = t[j].atom PROVE i = j
    <3>1. i + 1 = j + 1
      BY <1>1, <1>2, <1>3, <1>6, <2>1 DEF Apart
    <3> QED
      BY <3>1
  <2>2. ASSUME NEW j \in 1 .. n - 1 PROVE t[j].atom # h.atom
    <3>1. j + 1 # 1 /\ 1 \in 1 .. n /\ j + 1 \in 1 .. n
      BY <1>2
    <3> QED
      BY <1>1, <1>2, <1>6, <3>1 DEF Apart
  <2> QED
    BY <1>2, <2>1, <2>2 DEF Apart, AtomsOf
<1>7. 1 \in 1 .. n
  BY <1>2
<1>8. \A j \in 1 .. Len(t) : \E i \in 1 .. n : t[j] = s[i]
  BY <1>2, <1>3
<1> QED
  BY <1>1, <1>2, <1>5, <1>6, <1>7, <1>8

\* What holds of worker w's plan for memory m while the table is A.
PlanHolds(w, m, plan, A) ==
    /\ plan \in Seq(Range(plan)) /\ Apart(plan)
    /\ \A c \in AtomsOf(plan) :
         IsAtom(c) /\ ~c.retired /\ c.mem = m /\ c.id = <<w, m, c.id[3]>>
    /\ \A c, d \in AtomsOf(plan) : c.id[3] = d.id[3] => c = d
    /\ \A a \in A, c \in AtomsOf(plan) : a.mem = m => a.id[3] # c.id[3]
    /\ \A j \in 1 .. Len(plan) : plan[j].op # "insert" => Answers(plan[j], A \cup AtomsOf(plan))
    /\ \A i \in DOMAIN Says[m] : \E a \in A \cup AtomsOf(plan) : Like(a, Says[m][i])

\* Every row of A is in B, perhaps with other marks.
Kept(A, B) == \A a \in A : \E b \in B : SameFact(b, a)

LEMMA KeptFacts ==
    ASSUME NEW A, NEW B, Kept(A, B)
    PROVE  /\ \A p : Answers(p, A) => Answers(p, B)
           /\ \A c : (\E a \in A : Like(a, c)) => \E b \in B : Like(b, c)
<1>1. ASSUME NEW p, NEW a \in A, a.id = p.old, a.key = p.atom.key, a.val # p.atom.val,
             p.atom.at >= ValidityStart(a)
      PROVE  Answers(p, B)
  <2>1. PICK b \in B : SameFact(b, a)
    BY DEF Kept
  <2> QED
    BY <1>1, <2>1 DEF Answers, SameFact, ValidityStart
<1>2. ASSUME NEW c, NEW a \in A, Like(a, c) PROVE \E b \in B : Like(b, c)
  <2>1. PICK b \in B : SameFact(b, a)
    BY DEF Kept
  <2>2. Like(b, c)
    BY <1>2, <2>1 DEF Like, SameFact
  <2> QED
    BY <2>2
<1> QED
  BY <1>1, <1>2 DEF Answers

LEMMA OthersPlanHolds ==
    ASSUME NEW w, NEW m, NEW plan, NEW A, NEW B, PlanHolds(w, m, plan, A), Kept(A, B),
           \A b \in B : b.mem # m \/ \E a \in A : SameFact(b, a)
    PROVE  PlanHolds(w, m, plan, B)
<1>1. Kept(A \cup AtomsOf(plan), B \cup AtomsOf(plan))
  BY DEF Kept, SameFact
<1>2. /\ \A p : Answers(p, A \cup AtomsOf(plan)) => Answers(p, B \cup AtomsOf(plan))
      /\ \A c : (\E a \in A \cup AtomsOf(plan) : Like(a, c)) => \E b \in B \cup AtomsOf(plan) : Like(b, c)
  BY <1>1, KeptFacts
<1>3. \A b \in B, c \in AtomsOf(plan) : b.mem = m => b.id[3] # c.id[3]
  BY DEF PlanHolds, SameFact
<1> QED
  BY <1>2, <1>3 DEF PlanHolds

LEMMA RestOfPlanHolds ==
    ASSUME NEW w, NEW m, NEW plan, NEW A, NEW B, PlanHolds(w, m, plan, A), plan # <<>>,
           Kept(A, B), NEW x \in B, SameFact(x, Head(plan).atom),
           \A b \in B : b = x \/ \E a \in A : SameFact(b, a)
    PROVE  PlanHolds(w, m, Tail(plan), B)
<1>1. PICK t, h, V : t = Tail(plan) /\ h = Head(plan).atom /\ V = Range(plan)
  OBVIOUS
<1>2. plan \in Seq(V) /\ Apart(plan)
  BY <1>1 DEF PlanHolds
<1>3. /\ t \in Seq(V) /\ AtomsOf(plan) = AtomsOf(t) \cup {h}
      /\ Apart(t) /\ h \notin AtomsOf(t)
      /\ \A j \in 1 .. Len(t) : \E i \in 1 .. Len(plan) : t[j] = plan[i]
  BY <1>1, <1>2, TailApart
<1>4. t \in Seq(Range(t))
  <2>1. Len(t) \in Nat /\ DOMAIN t = 1 .. Len(t) /\ t = [i \in 1 .. Len(t) |-> t[i]]
    BY <1>3
  <2>2. \A i \in 1 .. Len(t) : t[i] \in Range(t)
    BY <2>1 DEF Range
  <2> QED
    BY <2>1, <2>2
<1>5. Kept(A \cup AtomsOf(plan), B \cup AtomsOf(t))
  <2>1. ASSUME NEW a \in A PROVE \E b \in B \cup AtomsOf(t) : SameFact(b, a)
    BY DEF Kept
  <2>2. ASSUME NEW a \in AtomsOf(t) PROVE \E b \in B \cup AtomsOf(t) : SameFact(b, a)
    BY DEF SameFact
  <2>3. \E b \in B \cup AtomsOf(t) : SameFact(b, h)
    BY <1>1
  <2> QED
    BY <1>3, <2>1, <2>2, <2>3 DEF Kept
<1>6. /\ \A p : Answers(p, A \cup AtomsOf(plan)) => Answers(p, B \cup AtomsOf(t))
      /\ \A c : (\E a \in A \cup AtomsOf(plan) : Like(a, c)) => \E b \in B \cup AtomsOf(t) : Like(b, c)
  BY <1>5, KeptFacts
<1>7. ASSUME NEW b \in B, NEW c \in AtomsOf(t), b.mem = m PROVE b.id[3] # c.id[3]
  <2>1. CASE b = x
    <3>1. x.id = h.id /\ h # c /\ h \in AtomsOf(plan) /\ c \in AtomsOf(plan)
      BY <1>1, <1>3 DEF SameFact
    <3> QED
      BY <2>1, <3>1 DEF PlanHolds
  <2>2. CASE \E a \in A : SameFact(b, a)
    BY <1>3, <1>7, <2>2 DEF PlanHolds, SameFact
  <2> QED
    BY <2>1, <2>2
<1>8. ASSUME NEW j \in 1 .. Len(t), t[j].op # "insert" PROVE Answers(t[j], B \cup AtomsOf(t))
  <2>1. PICK i \in 1 .. Len(plan) : t[j] = plan[i]
    BY <1>3
  <2>2. Answers(plan[i], A \cup AtomsOf(plan))
    BY <1>8, <2>1 DEF PlanHolds
  <2> QED
    BY <1>6, <2>1, <2>2
<1>9. /\ \A c \in AtomsOf(t) : IsAtom(c) /\ ~c.retired /\ c.mem = m /\ c.id = <<w, m, c.id[3]>>
      /\ \A c, d \in AtomsOf(t) : c.id[3] = d.id[3] => c = d
      /\ \A i \in DOMAIN Says[m] : \E a \in B \cup AtomsOf(t) : Like(a, Says[m][i])
  BY <1>3, <1>6 DEF PlanHolds
<1> QED
  BY <1>1, <1>3, <1>4, <1>7, <1>8, <1>9 DEF PlanHolds

LEMMA CandidateFacts ==
    ASSUME NEW w, NEW m \in XMems
    PROVE  /\ Len(Says[m]) \in Nat /\ AreCandidates(Candidates(w, m), Len(Says[m]))
           /\ DOMAIN Says[m] = 1 .. Len(Says[m])
           /\ \A i \in 1 .. Len(Says[m]) :
                /\ ~Candidates(w, m)[i].retired /\ Candidates(w, m)[i].mem = m
                /\ Candidates(w, m)[i].id = <<w, m, i>>
                /\ Like(Candidates(w, m)[i], Says[m][i])
<1>1. PICK n \in Nat : /\ n = Len(Says[m]) /\ DOMAIN Says[m] = 1 .. n
                       /\ \A i \in 1 .. n :
                            /\ {Says[m][i].at, Says[m][i].from, Says[m][i].conf} \subseteq Nat
                            /\ {Says[m][i].event, Says[m][i].status} \subseteq BOOLEAN
  BY AtomsAssumption
<1>2. ASSUME NEW i \in 1 .. n, NEW c, c = Candidates(w, m)[i]
      PROVE  /\ IsAtom(c) /\ c.id[3] = i /\ ~c.retired /\ c.mem = m /\ c.id = <<w, m, i>>
             /\ Like(c, Says[m][i])
  <2>1. c = [key |-> Says[m][i].key, val |-> Says[m][i].val, at |-> Says[m][i].at,
             from |-> Says[m][i].from, conf |-> Says[m][i].conf,
             event |-> Says[m][i].event, status |-> Says[m][i].status,
             id |-> <<w, m, i>>, mem |-> m, sup |-> NoAtom, retired |-> FALSE, born |-> 0]
    BY <1>1, <1>2 DEF Candidates
  <2>2. /\ Says[m][i].at \in Nat /\ Says[m][i].from \in Nat /\ Says[m][i].conf \in Nat
        /\ Says[m][i].event \in BOOLEAN /\ Says[m][i].status \in BOOLEAN
    BY <1>1
  <2>3. IsAtom(c)
    BY <2>1, <2>2 DEF IsAtom
  <2> QED
    BY <2>1, <2>3 DEF Like
<1>3. DOMAIN Candidates(w, m) = 1 .. n
  BY <1>1 DEF Candidates
<1> QED
  BY <1>1, <1>2, <1>3 DEF AreCandidates

LEMMA PlanStarts ==
    ASSUME NEW w, NEW m \in XMems, NEW noWrites, NEW A, RowsSound(A, noWrites),
           \A a \in A : a.mem # m, NEW E, E \subseteq A, NEW plan,
           PlanSound(plan, E, Candidates(w, m), Len(Says[m]))
    PROVE  PlanHolds(w, m, plan, A)
<1>1. PICK n, cands, C : n = Len(Says[m]) /\ cands = Candidates(w, m) /\ C = {cands[i] : i \in 1 .. n}
  OBVIOUS
<1>2. /\ n \in Nat /\ AreCandidates(cands, n) /\ DOMAIN Says[m] = 1 .. n
      /\ \A i \in 1 .. n : /\ ~cands[i].retired /\ cands[i].mem = m
                           /\ cands[i].id = <<w, m, i>> /\ Like(cands[i], Says[m][i])
  BY <1>1, CandidateFacts
<1>3. /\ plan \in Seq(Entries(E, C)) /\ Apart(plan) /\ AtomsOf(plan) \subseteq C
      /\ \A j \in 1 .. Len(plan) : plan[j].op # "insert" => Answers(plan[j], E \cup AtomsOf(plan))
      /\ \A i \in 1 .. n : \E a \in E \cup AtomsOf(plan) : Like(a, cands[i])
  BY <1>1 DEF PlanSound
<1>4. plan \in Seq(Range(plan))
  <2>1. Len(plan) \in Nat /\ DOMAIN plan = 1 .. Len(plan) /\ plan = [i \in 1 .. Len(plan) |-> plan[i]]
    BY <1>3
  <2>2. \A i \in 1 .. Len(plan) : plan[i] \in Range(plan)
    BY <2>1 DEF Range
  <2> QED
    BY <2>1, <2>2
<1>5. \A c \in C : IsAtom(c) /\ ~c.retired /\ c.mem = m /\ c.id = <<w, m, c.id[3]>>
  BY <1>1, <1>2 DEF AreCandidates
<1>6. \A c, d \in C : c.id[3] = d.id[3] => c = d
  BY <1>1, <1>2 DEF AreCandidates
<1>7. \A j \in 1 .. Len(plan) : plan[j].op # "insert" => Answers(plan[j], A \cup AtomsOf(plan))
  <2>1. E \cup AtomsOf(plan) \subseteq A \cup AtomsOf(plan)
    OBVIOUS
  <2> QED
    BY <1>3, <2>1, AnswersMore
<1>8. ASSUME NEW i \in 1 .. n PROVE \E a \in A \cup AtomsOf(plan) : Like(a, Says[m][i])
  <2>1. PICK a \in E \cup AtomsOf(plan) : Like(a, cands[i])
    BY <1>3
  <2>2. Like(a, Says[m][i]) /\ a \in A \cup AtomsOf(plan)
    BY <1>2, <2>1 DEF Like
  <2> QED
    BY <2>2
<1> QED
  BY <1>2, <1>3, <1>4, <1>5, <1>6, <1>7, <1>8 DEF PlanHolds

\* Without the active atoms every candidate is inserted.
LEMMA InsertAllSound ==
    ASSUME NEW n \in Nat, NEW cands, AreCandidates(cands, n),
           NEW plan, plan = [i \in DOMAIN cands |-> Insert(cands[i])]
    PROVE  PlanSound(plan, {}, cands, n)
<1>1. PICK C : C = {cands[i] : i \in 1 .. n}
  OBVIOUS
<1>2. \A c \in C : Insert(c) \in Entries({}, C) /\ Insert(c).atom = c /\ Insert(c).op = "insert"
  BY DEF Insert, Entries
<1>3. plan = [i \in 1 .. n |-> Insert(cands[i])]
  BY DEF AreCandidates
<1>4. \A i \in 1 .. n : cands[i] \in C /\ plan[i] \in Entries({}, C)
                        /\ plan[i].atom = cands[i] /\ plan[i].op = "insert"
  BY <1>1, <1>2, <1>3
<1>5. plan \in Seq(Entries({}, C)) /\ Len(plan) = n
  BY <1>3, <1>4
<1>6. AtomsOf(plan) = C
  <2>1. \A j \in 1 .. n : plan[j].atom \in C
    BY <1>4
  <2>2. \A i \in 1 .. n : cands[i] \in AtomsOf(plan)
    BY <1>4, <1>5 DEF AtomsOf
  <2>3. AtomsOf(plan) \subseteq C
    BY <1>5, <2>1 DEF AtomsOf
  <2>4. C \subseteq AtomsOf(plan)
    BY <1>1, <2>2
  <2> QED
    BY <2>3, <2>4
<1>7. Apart(plan)
  BY <1>4, <1>5 DEF Apart, AreCandidates
<1>8. \A i \in 1 .. n : \E a \in {} \cup AtomsOf(plan) : Like(a, cands[i])
  BY <1>4, <1>6 DEF Like
<1> QED
  BY <1>1, <1>4, <1>5, <1>6, <1>7, <1>8 DEF PlanSound

-----------------------------------------------------------------------------
(* The workers: a memory is claimed once, its claimer alone writes its     *)
(* rows, and what is left of a plan still promises what the plan did.      *)

IsWorker(r) ==
    r \in [at : {"poll", "next", "read", "fail", "write", "dead"}, mine : SUBSET XMems,
           mem : XMems \cup {"none"}, plan : {r.plan}]

XTypeOK ==
    /\ kind \in {"atom", "entity"} /\ dry \in BOOLEAN
    /\ job \in [XMems -> {"none", "pending", "processing", "done", "failed"}]
    /\ xw = [w \in XWorkers |-> xw[w]]
    /\ \A w \in XWorkers : IsWorker(xw[w])

Busy(w) == xw[w].at \in {"read", "fail", "write"}
Owns(w, m) == m \in xw[w].mine \/ (Busy(w) /\ m = xw[w].mem)
OwnInv ==
    /\ \A w \in XWorkers, m \in XMems : Owns(w, m) => job[m] = "processing"
    /\ \A v, w \in XWorkers, m \in XMems : Owns(v, m) /\ Owns(w, m) => v = w
    /\ \A w \in XWorkers : Busy(w) => xw[w].mem \in XMems /\ xw[w].mem \notin xw[w].mine

\* w has still to write the first row of m.
Awaits(w, m) == m \in xw[w].mine \/ (xw[w].at \in {"read", "fail"} /\ m = xw[w].mem)
RowsOwned ==
    /\ kind = "entity" => atoms = {}
    /\ \A a \in atoms : a.mem \in XMems => job[a.mem] \notin {"none", "pending"}
    /\ \A w \in XWorkers, a \in atoms : a.mem \in XMems => ~Awaits(w, a.mem)

PlansHold ==
    kind = "atom" =>
      \A w \in XWorkers : xw[w].at = "write" => PlanHolds(w, xw[w].mem, xw[w].plan, atoms)

ExtractionInv ==
    /\ XTypeOK /\ OwnInv /\ RowsSound(atoms, dry) /\ RowsOwned /\ DoneMeansStored /\ PlansHold

LEMMA ExtractionInitially == ExtractionInit => ExtractionInv
<1> SUFFICES ASSUME ExtractionInit PROVE ExtractionInv
  OBVIOUS
<1>1. \A w \in XWorkers : xw[w] = Idling
  BY DEF ExtractionInit
<1>2. Idling.at = "poll" /\ Idling.mine = {} /\ IsWorker(Idling)
  BY DEF Idling, IsWorker
<1>3. XTypeOK
  <2>1. xw = [w \in XWorkers |-> xw[w]]
    BY DEF ExtractionInit
  <2> QED
    BY <1>1, <1>2, <2>1 DEF ExtractionInit, XTypeOK
<1>4. \A w \in XWorkers : /\ ~Busy(w) /\ xw[w].at # "write"
                           /\ \A m \in XMems : ~Owns(w, m) /\ ~Awaits(w, m)
  BY <1>1, <1>2 DEF Busy, Owns, Awaits
<1>5. OwnInv /\ PlansHold
  BY <1>4 DEF OwnInv, PlansHold
<1>6. atoms = {} \/ atoms = SeedAtoms
  BY DEF ExtractionInit
<1>7. RowsSound(atoms, dry)
  <2>1. RowsSound({}, dry)
    BY FS_EmptySet DEF RowsSound, OneRowEach
  <2>2. \A a \in SeedAtoms : Inherited(SeedAtoms, a, dry)
    BY AtomsAssumption DEF Inherited
  <2>3. RowsSound(SeedAtoms, dry)
    BY <2>2, AtomsAssumption DEF RowsSound, OneRowEach, Identified
  <2> QED
    BY <1>6, <2>1, <2>3
<1>8. RowsOwned
  <2>1. \A a \in atoms : a.mem \notin XMems
    BY <1>6, AtomsAssumption
  <2> QED
    BY <2>1 DEF RowsOwned, ExtractionInit
<1>9. DoneMeansStored
  BY DEF ExtractionInit, DoneMeansStored
<1> QED
  BY <1>3, <1>5, <1>7, <1>8, <1>9 DEF ExtractionInv

\* A step of worker w that takes nothing but pending jobs.
LEMMA OwnKeeps ==
    ASSUME OwnInv, NEW w \in XWorkers, \A v \in XWorkers \ {w} : xw'[v] = xw[v],
           \A m \in XMems : Owns(w, m)' => Owns(w, m) \/ job[m] = "pending",
           \A m \in XMems : Owns(w, m)' => job'[m] = "processing",
           \A m \in XMems : job[m] = "processing" /\ ~Owns(w, m) => job'[m] = job[m],
           Busy(w)' => xw'[w].mem \in XMems /\ xw'[w].mem \notin xw'[w].mine
    PROVE  OwnInv'
<1>1. \A v \in XWorkers \ {w}, m \in XMems : (Owns(v, m)' <=> Owns(v, m)) /\ (Busy(v)' <=> Busy(v))
  BY DEF Owns, Busy
<1>2. ASSUME NEW v \in XWorkers, NEW m \in XMems, Owns(v, m)' PROVE job'[m] = "processing"
  <2>1. CASE v = w
    BY <1>2, <2>1
  <2>2. CASE v # w
    BY <1>1, <1>2, <2>2 DEF OwnInv
  <2> QED
    BY <2>1, <2>2
<1>3. ASSUME NEW v \in XWorkers \ {w}, NEW m \in XMems, Owns(v, m)' PROVE ~Owns(w, m)'
  BY <1>1, <1>3 DEF OwnInv
<1>4. ASSUME NEW u \in XWorkers, NEW v \in XWorkers, NEW m \in XMems, Owns(u, m)', Owns(v, m)'
      PROVE  u = v
  <2>1. CASE u # w /\ v # w
    BY <1>1, <1>4, <2>1 DEF OwnInv
  <2>2. CASE u = w \/ v = w
    BY <1>3, <1>4, <2>2
  <2> QED
    BY <2>1, <2>2
<1>5. ASSUME NEW v \in XWorkers, Busy(v)'
      PROVE  xw'[v].mem \in XMems /\ xw'[v].mem \notin xw'[v].mine
  <2>1. CASE v = w
    BY <1>5, <2>1
  <2>2. CASE v # w
    <3>1. xw'[v] = xw[v]
      BY <2>2
    <3> QED
      BY <1>5, <3>1 DEF OwnInv, Busy
  <2> QED
    BY <2>1, <2>2
<1> QED
  BY <1>2, <1>4, <1>5 DEF OwnInv

\* A step that leaves the table alone.
LEMMA QuietStep ==
    ASSUME ExtractionInv, UNCHANGED <<kind, dry, atoms>>, XTypeOK', OwnInv',
           \A m \in XMems : job'[m] \in {"none", "pending"} => job[m] \in {"none", "pending"},
           \A m \in XMems : job'[m] = "done" =>
              \/ job[m] = "done"
              \/ \E w \in XWorkers : xw[w].at = "write" /\ xw[w].plan = <<>> /\ xw[w].mem = m,
           \A w \in XWorkers, m \in XMems : Awaits(w, m)' => Awaits(w, m) \/ job[m] = "pending",
           \A w \in XWorkers : kind = "atom" /\ xw'[w].at = "write" =>
              PlanHolds(w, xw'[w].mem, xw'[w].plan, atoms)
    PROVE  ExtractionInv'
<1>1. RowsSound(atoms, dry)'
  <2>1. RowsSound(atoms, dry)
    BY DEF ExtractionInv
  <2>2. atoms' = atoms /\ dry' = dry
    OBVIOUS
  <2> QED
    BY <2>1, <2>2 DEF RowsSound, Inherited
<1>2. RowsOwned'
  BY DEF ExtractionInv, RowsOwned
<1>3. PlansHold'
  <2>1. atoms' = atoms /\ kind' = kind
    OBVIOUS
  <2>2. ASSUME NEW w \in XWorkers, kind = "atom", xw'[w].at = "write"
        PROVE  PlanHolds(w, xw'[w].mem, xw'[w].plan, atoms')
    BY <2>1, <2>2
  <2> QED
    BY <2>1, <2>2 DEF PlansHold
<1>4. DoneMeansStored'
  <2> SUFFICES ASSUME kind = "atom", NEW m \in XMems, job'[m] = "done", NEW i \in DOMAIN Says[m]
               PROVE  \E a \in atoms : a.key = Says[m][i].key /\ a.val = Says[m][i].val
    BY DEF DoneMeansStored
  <2>1. CASE job[m] = "done"
    BY <2>1 DEF ExtractionInv, DoneMeansStored
  <2>2. ASSUME NEW w \in XWorkers, xw[w].at = "write", xw[w].plan = <<>>, xw[w].mem = m
        PROVE  \E a \in atoms : a.key = Says[m][i].key /\ a.val = Says[m][i].val
    <3>1. PlanHolds(w, m, <<>>, atoms)
      BY <2>2 DEF ExtractionInv, PlansHold
    <3>2. AtomsOf(<<>>) = {}
      BY DEF AtomsOf
    <3> QED
      BY <3>1, <3>2 DEF PlanHolds, Like
  <2> QED
    BY <2>1, <2>2
<1> QED
  BY <1>1, <1>2, <1>3, <1>4 DEF ExtractionInv

\* An update of the fields of worker w.
Fields(at, mine, mem, plan) == [at |-> at, mine |-> mine, mem |-> mem, plan |-> plan]

\* z is y with another record for worker w.
Sets(z, y, w, r) ==
    z = [v \in XWorkers |-> z[v]] /\ z[w] = r /\ \A v \in XWorkers \ {w} : z[v] = y[v]
Becomes(w, at, mine, mem, plan) == Sets(xw', xw, w, Fields(at, mine, mem, plan))

LEMMA WorkerUpdate ==
    ASSUME XTypeOK, NEW w \in XWorkers, NEW at, NEW mine, NEW mem, NEW plan,
           at \in {"poll", "next", "read", "fail", "write", "dead"}, mine \in SUBSET XMems,
           mem \in XMems \cup {"none"},
           Becomes(w, at, mine, mem, plan)
    PROVE  /\ xw' = [v \in XWorkers |-> xw'[v]] /\ \A v \in XWorkers : IsWorker(xw'[v])
           /\ xw'[w].at = at /\ xw'[w].mine = mine /\ xw'[w].mem = mem /\ xw'[w].plan = plan
           /\ \A v \in XWorkers \ {w} : xw'[v] = xw[v]
<1>1. PICK r : r = Fields(at, mine, mem, plan)
  OBVIOUS
<1>2. r.at = at /\ r.mine = mine /\ r.mem = mem /\ r.plan = plan /\ IsWorker(r)
  BY <1>1 DEF IsWorker, Fields
<1>4. xw'[w] = r /\ (\A v \in XWorkers \ {w} : xw'[v] = xw[v]) /\ xw' = [v \in XWorkers |-> xw'[v]]
  BY <1>1 DEF Becomes, Sets
<1>5. \A v \in XWorkers : IsWorker(xw'[v])
  BY <1>2, <1>4 DEF XTypeOK
<1> QED
  BY <1>2, <1>4, <1>5

\* The record of a worker, by its fields.
LEMMA WorkerFields ==
    ASSUME XTypeOK, NEW w \in XWorkers
    PROVE  /\ xw[w] = Fields(xw[w].at, xw[w].mine, xw[w].mem, xw[w].plan)
           /\ xw[w].at \in {"poll", "next", "read", "fail", "write", "dead"}
           /\ xw[w].mine \in SUBSET XMems /\ xw[w].mem \in XMems \cup {"none"}
           /\ DOMAIN xw = XWorkers
<1>1. IsWorker(xw[w]) /\ DOMAIN xw = XWorkers
  BY DEF XTypeOK
<1> QED
  BY <1>1 DEF IsWorker, Fields

\* What the actions' updates of a worker's record come to.
LEMMA SetField ==
    ASSUME NEW y, y = [v \in XWorkers |-> y[v]], NEW w \in XWorkers, NEW at, NEW mine, NEW mem, NEW plan,
           y[w] = Fields(at, mine, mem, plan), NEW x
    PROVE  /\ Sets([y EXCEPT ![w].at = x], y, w, Fields(x, mine, mem, plan))
           /\ Sets([y EXCEPT ![w].mine = x], y, w, Fields(at, x, mem, plan))
           /\ Sets([y EXCEPT ![w].mem = x], y, w, Fields(at, mine, x, plan))
           /\ Sets([y EXCEPT ![w].plan = x], y, w, Fields(at, mine, mem, x))
<1>1. PICK r : r = y[w] /\ r = [at |-> at, mine |-> mine, mem |-> mem, plan |-> plan]
  BY DEF Fields
<1>2. /\ [y EXCEPT ![w].at = x] = [y EXCEPT ![w] = [r EXCEPT !.at = x]]
      /\ [y EXCEPT ![w].mine = x] = [y EXCEPT ![w] = [r EXCEPT !.mine = x]]
      /\ [y EXCEPT ![w].mem = x] = [y EXCEPT ![w] = [r EXCEPT !.mem = x]]
      /\ [y EXCEPT ![w].plan = x] = [y EXCEPT ![w] = [r EXCEPT !.plan = x]]
  BY <1>1
<1>3. /\ [r EXCEPT !.at = x] = Fields(x, mine, mem, plan)
      /\ [r EXCEPT !.mine = x] = Fields(at, x, mem, plan)
      /\ [r EXCEPT !.mem = x] = Fields(at, mine, x, plan)
      /\ [r EXCEPT !.plan = x] = Fields(at, mine, mem, x)
  BY <1>1 DEF Fields
<1>4. ASSUME NEW s PROVE Sets([y EXCEPT ![w] = s], y, w, s)
  BY DEF Sets
<1> QED
  BY <1>2, <1>3, <1>4

LEMMA ClaimFields ==
    ASSUME XTypeOK, NEW w \in XWorkers, NEW at, NEW mine, NEW z,
           z = [xw EXCEPT ![w].at = at, ![w].mine = mine]
    PROVE  Sets(z, xw, w, Fields(at, mine, xw[w].mem, xw[w].plan))
<1>1. xw = [v \in XWorkers |-> xw[v]] /\ xw[w] = Fields(xw[w].at, xw[w].mine, xw[w].mem, xw[w].plan)
  BY WorkerFields DEF XTypeOK
<1>2. PICK y1 : y1 = [xw EXCEPT ![w].at = at]
  OBVIOUS
<1>3. Sets(y1, xw, w, Fields(at, xw[w].mine, xw[w].mem, xw[w].plan))
  BY <1>1, <1>2, SetField
<1>4. y1 = [v \in XWorkers |-> y1[v]] /\ y1[w] = Fields(at, xw[w].mine, xw[w].mem, xw[w].plan)
  BY <1>3 DEF Sets
<1>5. PICK y2 : y2 = [y1 EXCEPT ![w].mine = mine]
  OBVIOUS
<1>6. Sets(y2, y1, w, Fields(at, mine, xw[w].mem, xw[w].plan))
  BY <1>4, <1>5, SetField
<1>7. z = y2
  BY <1>2, <1>5
<1>8. Sets(y2, xw, w, Fields(at, mine, xw[w].mem, xw[w].plan))
  BY <1>3, <1>6 DEF Sets
<1> QED
  BY <1>7, <1>8

LEMMA PlanFields ==
    ASSUME XTypeOK, NEW w \in XWorkers, NEW at, NEW plan, NEW z,
           z = [xw EXCEPT ![w].at = at, ![w].plan = plan]
    PROVE  Sets(z, xw, w, Fields(at, xw[w].mine, xw[w].mem, plan))
<1>1. xw = [v \in XWorkers |-> xw[v]] /\ xw[w] = Fields(xw[w].at, xw[w].mine, xw[w].mem, xw[w].plan)
  BY WorkerFields DEF XTypeOK
<1>2. PICK y1 : y1 = [xw EXCEPT ![w].at = at]
  OBVIOUS
<1>3. Sets(y1, xw, w, Fields(at, xw[w].mine, xw[w].mem, xw[w].plan))
  BY <1>1, <1>2, SetField
<1>4. y1 = [v \in XWorkers |-> y1[v]] /\ y1[w] = Fields(at, xw[w].mine, xw[w].mem, xw[w].plan)
  BY <1>3 DEF Sets
<1>5. PICK y2 : y2 = [y1 EXCEPT ![w].plan = plan]
  OBVIOUS
<1>6. Sets(y2, y1, w, Fields(at, xw[w].mine, xw[w].mem, plan))
  BY <1>4, <1>5, SetField
<1>7. z = y2
  BY <1>2, <1>5
<1>8. Sets(y2, xw, w, Fields(at, xw[w].mine, xw[w].mem, plan))
  BY <1>3, <1>6 DEF Sets
<1> QED
  BY <1>7, <1>8

LEMMA DropFields ==
    ASSUME XTypeOK, NEW w \in XWorkers, NEW at, NEW mem, NEW z,
           z = [xw EXCEPT ![w].at = at, ![w].mem = mem]
    PROVE  Sets(z, xw, w, Fields(at, xw[w].mine, mem, xw[w].plan))
<1>1. xw = [v \in XWorkers |-> xw[v]] /\ xw[w] = Fields(xw[w].at, xw[w].mine, xw[w].mem, xw[w].plan)
  BY WorkerFields DEF XTypeOK
<1>2. PICK y1 : y1 = [xw EXCEPT ![w].at = at]
  OBVIOUS
<1>3. Sets(y1, xw, w, Fields(at, xw[w].mine, xw[w].mem, xw[w].plan))
  BY <1>1, <1>2, SetField
<1>4. y1 = [v \in XWorkers |-> y1[v]] /\ y1[w] = Fields(at, xw[w].mine, xw[w].mem, xw[w].plan)
  BY <1>3 DEF Sets
<1>5. PICK y2 : y2 = [y1 EXCEPT ![w].mem = mem]
  OBVIOUS
<1>6. Sets(y2, y1, w, Fields(at, xw[w].mine, mem, xw[w].plan))
  BY <1>4, <1>5, SetField
<1>7. z = y2
  BY <1>2, <1>5
<1>8. Sets(y2, xw, w, Fields(at, xw[w].mine, mem, xw[w].plan))
  BY <1>3, <1>6 DEF Sets
<1> QED
  BY <1>7, <1>8

LEMMA CompleteFields ==
    ASSUME XTypeOK, NEW w \in XWorkers, NEW at, NEW mem, NEW plan, NEW z,
           z = [xw EXCEPT ![w].at = at, ![w].mem = mem, ![w].plan = plan]
    PROVE  Sets(z, xw, w, Fields(at, xw[w].mine, mem, plan))
<1>1. xw = [v \in XWorkers |-> xw[v]] /\ xw[w] = Fields(xw[w].at, xw[w].mine, xw[w].mem, xw[w].plan)
  BY WorkerFields DEF XTypeOK
<1>2. PICK y1 : y1 = [xw EXCEPT ![w].at = at]
  OBVIOUS
<1>3. Sets(y1, xw, w, Fields(at, xw[w].mine, xw[w].mem, xw[w].plan))
  BY <1>1, <1>2, SetField
<1>4. y1 = [v \in XWorkers |-> y1[v]] /\ y1[w] = Fields(at, xw[w].mine, xw[w].mem, xw[w].plan)
  BY <1>3 DEF Sets
<1>5. PICK y2 : y2 = [y1 EXCEPT ![w].mem = mem]
  OBVIOUS
<1>6. Sets(y2, y1, w, Fields(at, xw[w].mine, mem, xw[w].plan))
  BY <1>4, <1>5, SetField
<1>7. y2 = [v \in XWorkers |-> y2[v]] /\ y2[w] = Fields(at, xw[w].mine, mem, xw[w].plan)
  BY <1>6 DEF Sets
<1>8. PICK y3 : y3 = [y2 EXCEPT ![w].plan = plan]
  OBVIOUS
<1>9. Sets(y3, y2, w, Fields(at, xw[w].mine, mem, plan))
  BY <1>7, <1>8, SetField
<1>10. z = y3
  BY <1>2, <1>5, <1>8
<1>11. Sets(y3, xw, w, Fields(at, xw[w].mine, mem, plan))
  BY <1>3, <1>6, <1>9 DEF Sets
<1> QED
  BY <1>10, <1>11

LEMMA ExtractFields ==
    ASSUME XTypeOK, NEW w \in XWorkers, NEW mine, NEW mem, NEW at, NEW z,
           z = [xw EXCEPT ![w].mine = mine, ![w].mem = mem, ![w].at = at]
    PROVE  Sets(z, xw, w, Fields(at, mine, mem, xw[w].plan))
<1>1. xw = [v \in XWorkers |-> xw[v]] /\ xw[w] = Fields(xw[w].at, xw[w].mine, xw[w].mem, xw[w].plan)
  BY WorkerFields DEF XTypeOK
<1>2. PICK y1 : y1 = [xw EXCEPT ![w].mine = mine]
  OBVIOUS
<1>3. Sets(y1, xw, w, Fields(xw[w].at, mine, xw[w].mem, xw[w].plan))
  BY <1>1, <1>2, SetField
<1>4. y1 = [v \in XWorkers |-> y1[v]] /\ y1[w] = Fields(xw[w].at, mine, xw[w].mem, xw[w].plan)
  BY <1>3 DEF Sets
<1>5. PICK y2 : y2 = [y1 EXCEPT ![w].mem = mem]
  OBVIOUS
<1>6. Sets(y2, y1, w, Fields(xw[w].at, mine, mem, xw[w].plan))
  BY <1>4, <1>5, SetField
<1>7. y2 = [v \in XWorkers |-> y2[v]] /\ y2[w] = Fields(xw[w].at, mine, mem, xw[w].plan)
  BY <1>6 DEF Sets
<1>8. PICK y3 : y3 = [y2 EXCEPT ![w].at = at]
  OBVIOUS
<1>9. Sets(y3, y2, w, Fields(at, mine, mem, xw[w].plan))
  BY <1>7, <1>8, SetField
<1>10. z = y3
  BY <1>2, <1>5, <1>8
<1>11. Sets(y3, xw, w, Fields(at, mine, mem, xw[w].plan))
  BY <1>3, <1>6, <1>9 DEF Sets
<1> QED
  BY <1>10, <1>11

\* A step of worker w that leaves the table alone.
LEMMA WorkerStep ==
    ASSUME ExtractionInv, UNCHANGED <<kind, dry, atoms>>, NEW w \in XWorkers,
           NEW at, NEW mine, NEW mem, NEW plan,
           at \in {"poll", "next", "read", "fail", "write", "dead"}, mine \in SUBSET XMems,
           mem \in XMems \cup {"none"},
           Becomes(w, at, mine, mem, plan),
           job' \in [XMems -> {"none", "pending", "processing", "done", "failed"}],
           \A m \in XMems : \/ job'[m] = job[m]
                            \/ /\ job[m] = "pending" /\ job'[m] = "processing" /\ at = "next"
                            \/ /\ Busy(w) /\ m = xw[w].mem /\ job'[m] \in {"done", "failed"}
                               /\ job'[m] = "done" => xw[w].at = "write" /\ xw[w].plan = <<>>
                               /\ at = "next" /\ mine = xw[w].mine,
           \A m \in mine : m \in xw[w].mine \/ (job[m] = "pending" /\ job'[m] = "processing"),
           at \in {"read", "fail"} => mem \in XMems /\ Awaits(w, mem),
           at = "write" => Busy(w) /\ mem = xw[w].mem /\ mine = xw[w].mine,
           at \in {"read", "fail", "write"} => mem \notin mine,
           kind = "atom" /\ at = "write" => PlanHolds(w, mem, plan, atoms)
    PROVE  ExtractionInv'
<1>1. XTypeOK /\ OwnInv /\ PlansHold
  BY DEF ExtractionInv
<1>2. /\ xw' = [v \in XWorkers |-> xw'[v]] /\ \A v \in XWorkers : IsWorker(xw'[v])
      /\ xw'[w].at = at /\ xw'[w].mine = mine /\ xw'[w].mem = mem /\ xw'[w].plan = plan
      /\ \A v \in XWorkers \ {w} : xw'[v] = xw[v]
  BY <1>1, WorkerUpdate
<1>3. XTypeOK'
  BY <1>1, <1>2 DEF XTypeOK
<1>4. ASSUME NEW m \in XMems, Owns(w, m)'
      PROVE  (Owns(w, m) \/ job[m] = "pending") /\ job'[m] = "processing"
  <2>1. m \in mine \/ (at \in {"read", "fail", "write"} /\ m = mem)
    BY <1>2, <1>4 DEF Owns, Busy
  <2>2. CASE m \in mine /\ m \notin xw[w].mine
    BY <2>2
  <2>3. CASE m \in mine /\ m \in xw[w].mine
    <3>1. Owns(w, m) /\ job[m] = "processing"
      BY <1>1, <2>3 DEF Owns, OwnInv
    <3>2. Busy(w) => m # xw[w].mem
      BY <1>1, <2>3 DEF OwnInv
    <3> QED
      BY <3>1, <3>2
  <2>4. CASE at \in {"read", "fail", "write"} /\ m = mem
    <3>1. Owns(w, m) /\ job[m] = "processing"
      BY <1>1, <2>4 DEF Owns, Awaits, Busy, OwnInv
    <3> QED
      BY <2>4, <3>1
  <2> QED
    BY <2>1, <2>2, <2>3, <2>4
<1>5. OwnInv'
  <2>1. Busy(w)' => xw'[w].mem \in XMems /\ xw'[w].mem \notin xw'[w].mine
    BY <1>1, <1>2 DEF Busy, OwnInv
  <2>2. \A m \in XMems : job[m] = "processing" /\ ~Owns(w, m) => job'[m] = job[m]
    BY DEF Owns
  <2> QED
    BY <1>1, <1>2, <1>4, <2>1, <2>2, OwnKeeps
<1>6. \A m \in XMems : Awaits(w, m)' => Awaits(w, m) \/ job[m] = "pending"
  <2>1. \A m \in XMems : Awaits(w, m)' => m \in mine \/ (at \in {"read", "fail"} /\ m = mem)
    BY <1>2 DEF Awaits
  <2> QED
    BY <2>1 DEF Awaits
<1>7. \A v \in XWorkers, m \in XMems : Awaits(v, m)' => Awaits(v, m) \/ job[m] = "pending"
  <2>1. \A v \in XWorkers \ {w}, m \in XMems : Awaits(v, m)' => Awaits(v, m)
    BY <1>2 DEF Awaits
  <2> QED
    BY <1>6, <2>1
<1>8. ASSUME NEW v \in XWorkers, kind = "atom", xw'[v].at = "write"
      PROVE  PlanHolds(v, xw'[v].mem, xw'[v].plan, atoms)
  <2>1. CASE v = w
    BY <1>2, <1>8, <2>1
  <2>2. CASE v # w
    <3>1. xw'[v] = xw[v]
      BY <1>2, <2>2
    <3> QED
      BY <1>1, <1>8, <3>1 DEF PlansHold
  <2> QED
    BY <2>1, <2>2
<1>9. \A m \in XMems : job'[m] = "done" =>
         \/ job[m] = "done"
         \/ \E v \in XWorkers : xw[v].at = "write" /\ xw[v].plan = <<>> /\ xw[v].mem = m
  OBVIOUS
<1>10. \A m \in XMems : job'[m] \in {"none", "pending"} => job[m] \in {"none", "pending"}
  OBVIOUS
<1> QED
  BY <1>3, <1>5, <1>7, <1>8, <1>9, <1>10, QuietStep

LEMMA EnqueueKeeps ==
    ASSUME ExtractionInv, NEW m \in XMems, EnqueueJob(m)
    PROVE  ExtractionInv'
<1>1. XTypeOK /\ OwnInv /\ PlansHold
  BY DEF ExtractionInv
<1>2. /\ job[m] = "none" /\ job' = [job EXCEPT ![m] = "pending"]
      /\ UNCHANGED <<kind, dry, atoms>> /\ xw' = xw
  BY DEF EnqueueJob, tables
<1>3. \A x \in XMems : job'[x] = IF x = m THEN "pending" ELSE job[x]
  BY <1>1, <1>2 DEF XTypeOK
<1>4. XTypeOK'
  BY <1>1, <1>2 DEF XTypeOK
<1>5. OwnInv'
  BY <1>1, <1>2, <1>3 DEF OwnInv, Owns, Busy
<1>6. \A w \in XWorkers, x \in XMems : Awaits(w, x)' => Awaits(w, x)
  BY <1>2 DEF Awaits
<1>7. \A w \in XWorkers : kind = "atom" /\ xw'[w].at = "write" =>
         PlanHolds(w, xw'[w].mem, xw'[w].plan, atoms)
  BY <1>1, <1>2 DEF PlansHold
<1>8. \A x \in XMems : /\ job'[x] \in {"none", "pending"} => job[x] \in {"none", "pending"}
                       /\ job'[x] = "done" => job[x] = "done"
  BY <1>2, <1>3
<1> QED
  BY <1>2, <1>4, <1>5, <1>6, <1>7, <1>8, QuietStep

LEMMA StutterKeeps ==
    ASSUME ExtractionInv, UNCHANGED <<kind, dry, job, atoms, xw>>
    PROVE  ExtractionInv'
<1>1. XTypeOK /\ OwnInv /\ PlansHold
  BY DEF ExtractionInv
<1>2. XTypeOK' /\ OwnInv'
  BY <1>1 DEF XTypeOK, OwnInv, Owns, Busy
<1>3. \A w \in XWorkers, x \in XMems : Awaits(w, x)' => Awaits(w, x)
  BY DEF Awaits
<1>4. \A w \in XWorkers : kind = "atom" /\ xw'[w].at = "write" =>
         PlanHolds(w, xw'[w].mem, xw'[w].plan, atoms)
  BY <1>1 DEF PlansHold
<1>5. UNCHANGED <<kind, dry, atoms>> /\ job' = job
  OBVIOUS
<1> QED
  BY <1>2, <1>3, <1>4, <1>5, QuietStep

LEMMA ClaimKeeps ==
    ASSUME ExtractionInv, NEW w \in XWorkers, ClaimJobs(w)
    PROVE  ExtractionInv'
<1>1. XTypeOK /\ OwnInv
  BY DEF ExtractionInv
<1>2. PICK S \in SUBSET {m \in Claimable : job[m] = "pending"} :
        /\ job' = [m \in XMems |-> IF m \in S THEN "processing" ELSE job[m]]
        /\ xw' = [xw EXCEPT ![w].at = "next", ![w].mine = S]
  BY DEF ClaimJobs
<1>3. UNCHANGED <<kind, dry, atoms>>
  BY DEF ClaimJobs, tables
<1>4. S \in SUBSET XMems
  BY <1>2, ExtractionAssumption DEF Claimable
<1>5. Becomes(w, "next", S, xw[w].mem, xw[w].plan) /\ xw[w].mem \in XMems \cup {"none"}
  BY <1>1, <1>2, ClaimFields, WorkerFields DEF Becomes
<1>6. job' \in [XMems -> {"none", "pending", "processing", "done", "failed"}]
  BY <1>1, <1>2 DEF XTypeOK
<1>7. \A m \in XMems : job'[m] = job[m] \/ (job[m] = "pending" /\ job'[m] = "processing")
  BY <1>2
<1>8. \A m \in S : job[m] = "pending" /\ job'[m] = "processing"
  BY <1>2, <1>4
<1> QED
  BY <1>3, <1>4, <1>5, <1>6, <1>7, <1>8, WorkerStep

LEMMA ExtractKeeps ==
    ASSUME ExtractionInv, NEW w \in XWorkers, NEW m \in XMems, Extract(w, m)
    PROVE  ExtractionInv'
<1>1. XTypeOK /\ OwnInv
  BY DEF ExtractionInv
<1>2. PICK at, mine :
        /\ at \in {"read", "fail"} /\ mine = xw[w].mine \ {m}
        /\ xw' = [xw EXCEPT ![w].mine = mine, ![w].mem = m, ![w].at = at]
  <2>1. PICK ok \in BOOLEAN :
          xw' = [xw EXCEPT ![w].mine = @ \ {m}, ![w].mem = m,
                           ![w].at = IF ok THEN "read" ELSE "fail"]
    BY DEF Extract
  <2>2. PICK at \in {"read", "fail"} : at = IF ok THEN "read" ELSE "fail"
    OBVIOUS
  <2>3. xw' = [xw EXCEPT ![w].mine = xw[w].mine \ {m}, ![w].mem = m, ![w].at = at]
    BY <2>1, <2>2
  <2> QED
    BY <2>3
<1>3. Becomes(w, at, mine, m, xw[w].plan)
  BY <1>1, <1>2, ExtractFields DEF Becomes
<1>4. UNCHANGED <<kind, dry, atoms>> /\ job' = job /\ m \in xw[w].mine
  BY DEF Extract, tables
<1>5. mine \in SUBSET XMems /\ m \notin mine /\ \A x \in mine : x \in xw[w].mine
  BY <1>1, <1>2, WorkerFields
<1>6. Awaits(w, m)
  BY <1>4 DEF Awaits
<1>7. job' \in [XMems -> {"none", "pending", "processing", "done", "failed"}]
  BY <1>1, <1>4 DEF XTypeOK
<1> QED
  BY <1>2, <1>3, <1>4, <1>5, <1>6, <1>7, WorkerStep

\* A worker that lets go of everything, or of its memory.
LEMMA DropKeeps ==
    ASSUME ExtractionInv, UNCHANGED <<kind, dry, atoms, job>>, NEW w \in XWorkers,
           NEW at \in {"poll", "next", "dead"}, NEW mine, NEW plan, mine \subseteq xw[w].mine,
           NEW mem \in XMems \cup {"none"}, Becomes(w, at, mine, mem, plan)
    PROVE  ExtractionInv'
<1>1. XTypeOK
  BY DEF ExtractionInv
<1>2. mine \in SUBSET XMems
  BY <1>1, WorkerFields
<1>3. job' = job /\ job' \in [XMems -> {"none", "pending", "processing", "done", "failed"}]
  BY <1>1 DEF XTypeOK
<1> QED
  BY <1>2, <1>3, WorkerStep

LEMMA IdleFields ==
    ASSUME NEW at
    PROVE  [Idling EXCEPT !.at = at] = Fields(at, {}, "none", <<>>)
<1>1. PICK e, p, n : e = {} /\ p = <<>> /\ n = "none"
  OBVIOUS
<1>2. Idling = [at |-> "poll", mine |-> e, mem |-> n, plan |-> p]
  BY <1>1 DEF Idling
<1>3. [Idling EXCEPT !.at = at] = [at |-> at, mine |-> e, mem |-> n, plan |-> p]
  BY <1>2
<1> QED
  BY <1>1, <1>3 DEF Fields

LEMMA IdleKeeps ==
    ASSUME ExtractionInv, UNCHANGED <<kind, dry, atoms, job>>, NEW w \in XWorkers,
           NEW at \in {"poll", "dead"}, xw' = [xw EXCEPT ![w] = [Idling EXCEPT !.at = at]]
    PROVE  ExtractionInv'
<1>1. [Idling EXCEPT !.at = at] = Fields(at, {}, "none", <<>>)
  BY IdleFields
<1>2. xw = [v \in XWorkers |-> xw[v]]
  BY DEF ExtractionInv, XTypeOK
<1>3. Becomes(w, at, {}, "none", <<>>)
  BY <1>1, <1>2 DEF Becomes, Sets
<1> QED
  BY <1>3, DropKeeps

LEMMA CrashKeeps ==
    ASSUME ExtractionInv, NEW w \in XWorkers,
           CrashWorker(w) \/ RestartWorker(w) \/ \E m \in XMems : NilMemoryPanics(w, m)
    PROVE  ExtractionInv'
<1>1. Idling = [Idling EXCEPT !.at = "poll"]
  BY DEF Idling
<1>2. UNCHANGED <<kind, dry, atoms, job>>
  BY DEF CrashWorker, RestartWorker, NilMemoryPanics, tables
<1>3. \E at \in {"poll", "dead"} : xw' = [xw EXCEPT ![w] = [Idling EXCEPT !.at = at]]
  BY <1>1 DEF CrashWorker, RestartWorker, NilMemoryPanics
<1> QED
  BY <1>2, <1>3, IdleKeeps

LEMMA BatchOverKeeps ==
    ASSUME ExtractionInv, NEW w \in XWorkers, BatchOver(w)
    PROVE  ExtractionInv'
<1>1. XTypeOK
  BY DEF ExtractionInv
<1>2. UNCHANGED <<kind, dry, atoms, job>> /\ xw' = [xw EXCEPT ![w].at = "poll"]
  BY DEF BatchOver, tables
<1>3. /\ xw = [v \in XWorkers |-> xw[v]] /\ xw[w] = Fields(xw[w].at, xw[w].mine, xw[w].mem, xw[w].plan)
      /\ xw[w].mem \in XMems \cup {"none"}
  BY <1>1, WorkerFields DEF XTypeOK
<1>4. Becomes(w, "poll", xw[w].mine, xw[w].mem, xw[w].plan)
  BY <1>2, <1>3, SetField DEF Becomes
<1> QED
  BY <1>2, <1>3, <1>4, DropKeeps

LEMMA CompleteKeeps ==
    ASSUME ExtractionInv, NEW w \in XWorkers, NEW status \in {"done", "failed"}, Busy(w),
           status = "done" => xw[w].at = "write" /\ xw[w].plan = <<>>,
           UNCHANGED <<kind, dry, atoms>>,
           job' = job \/ job' = [job EXCEPT ![xw[w].mem] = status],
           xw' = [xw EXCEPT ![w].at = "next", ![w].mem = "none", ![w].plan = <<>>]
    PROVE  ExtractionInv'
<1>1. XTypeOK /\ OwnInv
  BY DEF ExtractionInv
<1>2. Becomes(w, "next", xw[w].mine, "none", <<>>)
  BY <1>1, CompleteFields DEF Becomes
<1>3. xw[w].mine \in SUBSET XMems /\ xw[w].mem \in XMems
  BY <1>1, WorkerFields DEF OwnInv
<1>4. job' \in [XMems -> {"none", "pending", "processing", "done", "failed"}]
  BY <1>1, <1>3 DEF XTypeOK
<1>5. \A m \in XMems : job'[m] = job[m] \/ (m = xw[w].mem /\ job'[m] = status)
  BY <1>1, <1>3 DEF XTypeOK
<1> QED
  BY <1>2, <1>3, <1>4, <1>5, WorkerStep

LEMMA EndsKeep ==
    ASSUME ExtractionInv, NEW w \in XWorkers, ExtractFails(w) \/ JobDone(w)
    PROVE  ExtractionInv'
<1>1. UNCHANGED <<kind, dry, atoms>> /\ Busy(w)
  BY DEF ExtractFails, JobDone, tables, Busy
<1>2. xw' = [xw EXCEPT ![w].at = "next", ![w].mem = "none", ![w].plan = <<>>]
  BY DEF ExtractFails, JobDone, Complete
<1>3. CASE ExtractFails(w)
  <2>1. job' = job \/ job' = [job EXCEPT ![xw[w].mem] = "failed"]
    BY <1>3 DEF ExtractFails, Complete
  <2> QED
    BY <1>1, <1>2, <2>1, CompleteKeeps
<1>4. CASE JobDone(w)
  <2>1. job' = job \/ job' = [job EXCEPT ![xw[w].mem] = "done"]
    BY <1>4 DEF JobDone, Complete
  <2>2. xw[w].at = "write" /\ xw[w].plan = <<>>
    BY <1>4 DEF JobDone
  <2> QED
    BY <1>1, <1>2, <2>1, <2>2, CompleteKeeps
<1> QED
  BY <1>3, <1>4

LEMMA ReadAtomsKeeps ==
    ASSUME ExtractionInv, NEW w \in XWorkers, ReadAtoms(w)
    PROVE  ExtractionInv'
<1>1. XTypeOK /\ OwnInv /\ RowsOwned /\ RowsSound(atoms, dry)
  BY DEF ExtractionInv
<1>2. /\ kind = "atom" /\ xw[w].at = "read" /\ UNCHANGED <<kind, dry, atoms>> /\ job' = job
  BY DEF ReadAtoms, tables
<1>3. PICK m, cands, n : m = xw[w].mem /\ cands = Candidates(w, m) /\ n = Len(Says[m])
  OBVIOUS
<1>4. m \in XMems /\ m \notin xw[w].mine /\ Busy(w) /\ Awaits(w, m)
  BY <1>1, <1>2, <1>3 DEF OwnInv, Busy, Awaits
<1>5. \A a \in atoms : a.mem # m
  BY <1>1, <1>4 DEF RowsOwned
<1>6. n \in Nat /\ AreCandidates(cands, n)
  BY <1>3, <1>4, CandidateFacts
<1>7. PICK plan, E : /\ xw' = [xw EXCEPT ![w].at = "write", ![w].plan = plan]
                     /\ E \subseteq atoms /\ PlanSound(plan, E, cands, n)
  <2>1. ASSUME NEW plan \in Deduplicate(ActiveAtoms, cands),
               xw' = [xw EXCEPT ![w].at = "write", ![w].plan = plan]
        PROVE  \E p, E : /\ xw' = [xw EXCEPT ![w].at = "write", ![w].plan = p]
                         /\ E \subseteq atoms /\ PlanSound(p, E, cands, n)
    <3>1. ActiveAtoms \subseteq atoms
      BY DEF ActiveAtoms
    <3>2. IsFiniteSet(ActiveAtoms) /\ \A a \in ActiveAtoms : IsAtom(a)
      BY <1>1, <3>1, FS_Subset DEF RowsSound
    <3>3. PlanSound(plan, ActiveAtoms, cands, n)
      BY <1>6, <3>2, DeduplicateFacts
    <3> QED
      BY <2>1, <3>1, <3>3
  <2>2. ASSUME NEW plan, plan = [i \in DOMAIN cands |-> Insert(cands[i])],
               xw' = [xw EXCEPT ![w].at = "write", ![w].plan = plan]
        PROVE  \E p, E : /\ xw' = [xw EXCEPT ![w].at = "write", ![w].plan = p]
                         /\ E \subseteq atoms /\ PlanSound(p, E, cands, n)
    <3>1. PlanSound(plan, {}, cands, n)
      BY <1>6, <2>2, InsertAllSound
    <3>2. {} \subseteq atoms
      OBVIOUS
    <3> QED
      BY <2>2, <3>1, <3>2
  <2>3. \/ \E plan \in Deduplicate(ActiveAtoms, cands) :
             xw' = [xw EXCEPT ![w].at = "write", ![w].plan = plan]
        \/ xw' = [xw EXCEPT ![w].at = "write",
                            ![w].plan = [i \in DOMAIN cands |-> Insert(cands[i])]]
    BY <1>3 DEF ReadAtoms
  <2> QED
    BY <2>1, <2>2, <2>3
<1>8. Becomes(w, "write", xw[w].mine, m, plan)
  BY <1>1, <1>3, <1>7, PlanFields DEF Becomes
<1>9. PlanHolds(w, m, plan, atoms)
  BY <1>1, <1>3, <1>4, <1>5, <1>7, PlanStarts
<1>10. /\ job' \in [XMems -> {"none", "pending", "processing", "done", "failed"}]
       /\ xw[w].mine \in SUBSET XMems
  BY <1>1, <1>2, WorkerFields DEF XTypeOK
<1> QED
  BY <1>2, <1>3, <1>4, <1>8, <1>9, <1>10, WorkerStep

LEMMA EntitiesKeep ==
    ASSUME ExtractionInv, NEW w \in XWorkers, ReadEntities(w) \/ PersistEntity(w)
    PROVE  ExtractionInv'
<1>1. XTypeOK /\ OwnInv
  BY DEF ExtractionInv
<1>2. /\ kind = "entity" /\ Busy(w) /\ UNCHANGED <<kind, dry, atoms>> /\ job' = job
  BY DEF ReadEntities, PersistEntity, tables, Busy
<1>3. /\ job' \in [XMems -> {"none", "pending", "processing", "done", "failed"}]
      /\ xw[w].mine \in SUBSET XMems
      /\ xw = [v \in XWorkers |-> xw[v]] /\ xw[w] = Fields(xw[w].at, xw[w].mine, xw[w].mem, xw[w].plan)
  BY <1>1, <1>2, WorkerFields DEF XTypeOK
<1>4. xw[w].mem \in XMems /\ xw[w].mem \notin xw[w].mine
  BY <1>1, <1>2 DEF OwnInv
<1>5. ASSUME NEW plan, Becomes(w, "write", xw[w].mine, xw[w].mem, plan) PROVE ExtractionInv'
  BY <1>2, <1>3, <1>4, <1>5, WorkerStep
<1>6. ASSUME ReadEntities(w) PROVE ExtractionInv'
  <2>1. CASE xw' = [xw EXCEPT ![w].at = "write", ![w].plan = EntityPlan(xw[w].mem)]
    <3>1. PICK plan : plan = EntityPlan(xw[w].mem)
      OBVIOUS
    <3>2. xw' = [xw EXCEPT ![w].at = "write", ![w].plan = plan]
      BY <2>1, <3>1
    <3>3. Becomes(w, "write", xw[w].mine, xw[w].mem, plan)
      BY <1>1, <3>2, PlanFields DEF Becomes
    <3> QED
      BY <1>5, <3>3
  <2>2. CASE xw' = [xw EXCEPT ![w].at = "next", ![w].mem = "none"]
    <3>1. Becomes(w, "next", xw[w].mine, "none", xw[w].plan)
      BY <1>1, <2>2, DropFields DEF Becomes
    <3> QED
      BY <1>2, <3>1, DropKeeps
  <2> QED
    BY <1>6, <2>1, <2>2 DEF ReadEntities
<1>7. ASSUME PersistEntity(w) PROVE ExtractionInv'
  <2>1. PICK plan : plan = Tail(xw[w].plan)
    OBVIOUS
  <2>2. xw' = [xw EXCEPT ![w].plan = plan] /\ xw[w].at = "write"
    BY <1>7, <2>1 DEF PersistEntity, Written
  <2>3. Becomes(w, "write", xw[w].mine, xw[w].mem, plan)
    BY <1>3, <2>2, SetField DEF Becomes
  <2> QED
    BY <1>5, <2>3
<1> QED
  BY <1>6, <1>7

\* The head of the plan of w is written.
LEMMA WriteKeeps ==
    ASSUME ExtractionInv, NEW w \in XWorkers, kind = "atom", xw[w].at = "write",
           xw[w].plan # <<>>, UNCHANGED <<kind, dry, job>>, Written(w),
           RowsSound(atoms', dry), Kept(atoms, atoms'), NEW x \in atoms',
           SameFact(x, Head(xw[w].plan).atom),
           \A b \in atoms' : b = x \/ \E a \in atoms : SameFact(b, a)
    PROVE  ExtractionInv'
<1>1. XTypeOK /\ OwnInv /\ RowsOwned /\ PlansHold /\ DoneMeansStored
  BY DEF ExtractionInv
<1>2. PICK m, plan, mine : m = xw[w].mem /\ plan = xw[w].plan /\ mine = xw[w].mine
  OBVIOUS
<1>3. m \in XMems /\ m \notin mine /\ Owns(w, m) /\ job[m] = "processing"
  BY <1>1, <1>2 DEF OwnInv, Busy, Owns
<1>4. PlanHolds(w, m, plan, atoms) /\ plan # <<>>
  BY <1>1, <1>2 DEF PlansHold
<1>5. PICK t : t = Tail(plan)
  OBVIOUS
<1>6. PlanHolds(w, m, t, atoms')
  BY <1>2, <1>4, <1>5, RestOfPlanHolds
<1>7. x.mem = m
  <2>1. Head(plan).atom \in AtomsOf(plan)
    BY <1>4, TailApart DEF PlanHolds
  <2>2. Head(plan).atom.mem = m
    BY <1>4, <2>1 DEF PlanHolds
  <2> QED
    BY <1>2, <2>2 DEF SameFact
<1>8. Becomes(w, "write", mine, m, t)
  <2>1. xw' = [xw EXCEPT ![w].plan = t]
    BY <1>2, <1>5 DEF Written
  <2>2. /\ xw = [v \in XWorkers |-> xw[v]] /\ xw[w] = Fields("write", mine, m, plan)
    BY <1>1, <1>2, WorkerFields DEF XTypeOK
  <2> QED
    BY <2>1, <2>2, SetField DEF Becomes
<1>9. /\ xw' = [v \in XWorkers |-> xw'[v]] /\ \A v \in XWorkers : IsWorker(xw'[v])
      /\ xw'[w].at = "write" /\ xw'[w].mine = mine /\ xw'[w].mem = m /\ xw'[w].plan = t
      /\ \A v \in XWorkers \ {w} : xw'[v] = xw[v]
  <2>1. mine \in SUBSET XMems
    BY <1>1, <1>2, WorkerFields
  <2> QED
    BY <1>1, <1>3, <1>8, <2>1, WorkerUpdate
<1>10. XTypeOK'
  BY <1>1, <1>9 DEF XTypeOK
<1>11. /\ \A v \in XWorkers : \A y : (Owns(v, y)' <=> Owns(v, y)) /\ (Awaits(v, y)' <=> Awaits(v, y))
       /\ \A v \in XWorkers : (Busy(v)' <=> Busy(v)) /\ xw'[v].mem = xw[v].mem
                              /\ xw'[v].mine = xw[v].mine
  <2>1. \A v \in XWorkers : xw'[v].at = xw[v].at /\ xw'[v].mem = xw[v].mem /\ xw'[v].mine = xw[v].mine
    BY <1>2, <1>9
  <2> QED
    BY <2>1 DEF Owns, Awaits, Busy
<1>12. OwnInv'
  BY <1>1, <1>11 DEF OwnInv
<1>13. \A v \in XWorkers : ~Awaits(v, m)
  <2>1. \A v \in XWorkers : Awaits(v, m) => Owns(v, m) /\ v = w
    BY <1>1, <1>3 DEF Awaits, Owns, Busy, OwnInv
  <2>2. ~Awaits(w, m)
    BY <1>2, <1>3 DEF Awaits
  <2> QED
    BY <2>1, <2>2
<1>14. \A b \in atoms' : b.mem = m \/ \E a \in atoms : b.mem = a.mem
  BY <1>7 DEF SameFact
<1>15. RowsOwned'
  <2>1. ASSUME NEW b \in atoms', b.mem \in XMems
        PROVE  job[b.mem] \notin {"none", "pending"} /\ \A v \in XWorkers : ~Awaits(v, b.mem)
    <3>1. CASE b.mem = m
      BY <1>3, <1>13, <3>1
    <3>2. CASE \E a \in atoms : b.mem = a.mem
      BY <1>1, <2>1, <3>2 DEF RowsOwned
    <3> QED
      BY <1>14, <3>1, <3>2
  <2> QED
    BY <1>11, <2>1 DEF RowsOwned
<1>16. DoneMeansStored'
  <2> SUFFICES ASSUME NEW y \in XMems, job[y] = "done", NEW i \in DOMAIN Says[y]
               PROVE  \E a \in atoms' : a.key = Says[y][i].key /\ a.val = Says[y][i].val
    BY DEF DoneMeansStored
  <2>1. \E a \in atoms : Like(a, Says[y][i])
    BY <1>1 DEF DoneMeansStored, Like
  <2>2. \E a \in atoms' : Like(a, Says[y][i])
    BY <2>1, KeptFacts
  <2> QED
    BY <2>2 DEF Like
<1>17. ASSUME NEW v \in XWorkers, xw'[v].at = "write"
       PROVE  PlanHolds(v, xw'[v].mem, xw'[v].plan, atoms')
  <2>1. CASE v = w
    BY <1>6, <1>9, <2>1
  <2>2. CASE v # w
    <3>1. PICK y, p : y = xw[v].mem /\ p = xw[v].plan /\ xw'[v].mem = y /\ xw'[v].plan = p
      BY <1>9, <2>2
    <3>2. PlanHolds(v, y, p, atoms)
      BY <1>1, <1>9, <1>17, <2>2, <3>1 DEF PlansHold
    <3>3. y # m
      <4>1. Owns(v, y) /\ y \in XMems
        BY <1>1, <1>9, <1>17, <2>2, <3>1 DEF Owns, Busy, OwnInv
      <4> QED
        BY <1>1, <1>3, <2>2, <4>1 DEF OwnInv
    <3>4. \A b \in atoms' : b.mem # y \/ \E a \in atoms : SameFact(b, a)
      BY <1>7, <3>3
    <3>5. PlanHolds(v, y, p, atoms')
      BY <3>2, <3>4, OthersPlanHolds
    <3> QED
      BY <3>1, <3>5
  <2> QED
    BY <2>1, <2>2
<1>18. PlansHold'
  BY <1>17 DEF PlansHold
<1>19. RowsSound(atoms, dry)'
  <2>1. RowsSound(atoms', dry')
    OBVIOUS
  <2> QED
    BY <2>1 DEF RowsSound, Inherited
<1> QED
  BY <1>10, <1>12, <1>15, <1>16, <1>18, <1>19 DEF ExtractionInv

\* What is known of the row that is written next.
LEMMA NextRow ==
    ASSUME ExtractionInv, NEW w \in XWorkers, kind = "atom", xw[w].at = "write",
           xw[w].plan # <<>>, NEW sup, NEW b, b = Stored(Head(xw[w].plan).atom, sup)
    PROVE  /\ NewRow(atoms, b) /\ SameFact(b, Head(xw[w].plan).atom) /\ b.sup = sup
<1>1. XTypeOK /\ OwnInv /\ PlansHold /\ RowsSound(atoms, dry)
  BY DEF ExtractionInv
<1>2. PICK m, plan, c : m = xw[w].mem /\ plan = xw[w].plan /\ c = Head(plan).atom
  OBVIOUS
<1>3. PlanHolds(w, m, plan, atoms) /\ m \in XMems /\ plan # <<>>
  BY <1>1, <1>2 DEF PlansHold, OwnInv, Busy
<1>4. c \in AtomsOf(plan)
  BY <1>2, <1>3, TailApart DEF PlanHolds
<1>5. /\ IsAtom(c) /\ ~c.retired /\ c.mem = m /\ c.id = <<w, m, c.id[3]>>
      /\ \A a \in atoms : a.mem = m => a.id[3] # c.id[3]
  BY <1>3, <1>4 DEF PlanHolds
<1>6. Cardinality(atoms) \in Nat
  BY <1>1, FS_CardinalityType DEF RowsSound
<1>7. IsAtom(b) /\ SameFact(b, c) /\ b.sup = sup /\ b.retired = c.retired
  BY <1>2, <1>5, <1>6, StoredRow
<1>8. Identified(b)
  <2>1. c.id[1] = w
    BY <1>5
  <2> QED
    BY <1>5, <1>7, <2>1 DEF Identified, SameFact
<1>9. NewRow(atoms, b)
  BY <1>3, <1>5, <1>7, <1>8 DEF NewRow, SameFact
<1> QED
  BY <1>2, <1>7, <1>9

LEMMA InsertAtomKeeps ==
    ASSUME ExtractionInv, NEW w \in XWorkers, kind = "atom", xw[w].at = "write",
           xw[w].plan # <<>>, UNCHANGED <<kind, dry>>, InsertAtom(w)
    PROVE  ExtractionInv'
<1>1. RowsSound(atoms, dry)
  BY DEF ExtractionInv
<1>2. PICK b : b = Stored(Head(xw[w].plan).atom, NoAtom)
  OBVIOUS
<1>3. NewRow(atoms, b) /\ SameFact(b, Head(xw[w].plan).atom) /\ b.sup = NoAtom
  BY <1>2, NextRow
<1>4. atoms' = atoms \cup {b} /\ Written(w) /\ job' = job
  BY <1>2 DEF InsertAtom
<1>5. RowsSound(atoms', dry)
  BY <1>1, <1>3, <1>4, InsertKeepsRows
<1>6. Kept(atoms, atoms')
  BY <1>4 DEF Kept, SameFact
<1>7. \A x \in atoms' : x = b \/ \E a \in atoms : SameFact(x, a)
  BY <1>4 DEF SameFact
<1> QED
  BY <1>3, <1>4, <1>5, <1>6, <1>7, WriteKeeps

LEMMA RetireAtomKeeps ==
    ASSUME ExtractionInv, NEW w \in XWorkers, kind = "atom", xw[w].at = "write",
           xw[w].plan # <<>>, UNCHANGED <<kind, dry>>, RetireAtom(w)
    PROVE  ExtractionInv'
<1>1. XTypeOK /\ OwnInv /\ PlansHold /\ RowsSound(atoms, dry)
  BY DEF ExtractionInv
<1>2. PICK m, plan, p, c : m = xw[w].mem /\ plan = xw[w].plan /\ p = Head(plan) /\ c = p.atom
  OBVIOUS
<1>3. p.op = "retire" /\ ~dry
  BY <1>2 DEF RetireAtom
<1>4. CASE \E a \in ActiveAtoms : a.id = p.old
  <2>1. PICK x \in ActiveAtoms : x.id = p.old
    BY <1>4
  <2>2. x \in atoms /\ ~x.retired
    BY <2>1 DEF ActiveAtoms
  <2>3. PICK b : b = Stored(c, p.old)
    OBVIOUS
  <2>4. NewRow(atoms, b) /\ SameFact(b, c) /\ b.sup = p.old
    BY <1>2, <2>3, NextRow
  <2>5. /\ atoms' = {[a EXCEPT !.retired = @ \/ a.id = p.old] : a \in atoms} \cup {b}
        /\ Written(w) /\ job' = job
    BY <1>2, <1>4, <2>3 DEF RetireAtom
  <2>6. atoms' = Retiring(atoms, x.id) \cup {b}
    BY <2>1, <2>5 DEF Retiring
  <2>7. b.key = x.key /\ b.val # x.val /\ b.at >= ValidityStart(x)
    <3>1. PlanHolds(w, m, plan, atoms) /\ plan # <<>>
      BY <1>1, <1>2 DEF PlansHold
    <3>2. p = plan[1] /\ 1 \in 1 .. Len(plan)
      BY <1>2, <3>1, TailApart DEF PlanHolds
    <3>3. Answers(p, atoms \cup AtomsOf(plan))
      BY <1>3, <3>1, <3>2 DEF PlanHolds
    <3>4. PICK y \in atoms \cup AtomsOf(plan) :
             y.id = p.old /\ y.key = c.key /\ y.val # c.val /\ c.at >= ValidityStart(y)
      BY <1>2, <3>3 DEF Answers
    <3>5. y \notin AtomsOf(plan) \/ y \in atoms
      <4>1. ASSUME y \in AtomsOf(plan) PROVE FALSE
        <5>1. y.mem = m /\ y.id = <<w, m, y.id[3]>> /\ \A a \in atoms : a.mem = m => a.id[3] # y.id[3]
          BY <3>1, <4>1 DEF PlanHolds
        <5>2. y.id[2] = m
          BY <5>1
        <5>3. x.id[2] = x.mem
          BY <1>1, <2>2 DEF RowsSound, Identified
        <5> QED
          BY <2>1, <2>2, <3>4, <5>1, <5>2, <5>3
      <4> QED
        BY <4>1
    <3>6. y = x
      BY <1>1, <2>1, <2>2, <3>4, <3>5, OneId DEF RowsSound
    <3> QED
      BY <2>4, <3>4, <3>6 DEF SameFact
  <2>8. RowsSound(atoms', dry)
    BY <1>1, <1>3, <2>1, <2>2, <2>4, <2>6, <2>7, RetireKeepsRows
  <2>9. PICK R : /\ Retiring(atoms, x.id) = {R[a] : a \in atoms}
                 /\ \A a \in atoms : SameFact(R[a], a)
    <3>1. \A a \in atoms : IsAtom(a)
      BY <1>1 DEF RowsSound
    <3> QED
      BY <3>1, RetiringRows
  <2>10. Kept(atoms, atoms')
    BY <2>6, <2>9 DEF Kept
  <2>11. \A y \in atoms' : y = b \/ \E a \in atoms : SameFact(y, a)
    BY <2>6, <2>9
  <2>12. b \in atoms' /\ SameFact(b, Head(xw[w].plan).atom)
    BY <1>2, <2>4, <2>6
  <2> QED
    BY <2>5, <2>8, <2>10, <2>11, <2>12, WriteKeeps
<1>5. CASE ~\E a \in ActiveAtoms : a.id = p.old
  <2>1. atoms' = atoms /\ Complete(w, "failed")
    BY <1>2, <1>5 DEF RetireAtom
  <2>2. /\ job' = job \/ job' = [job EXCEPT ![xw[w].mem] = "failed"]
        /\ xw' = [xw EXCEPT ![w].at = "next", ![w].mem = "none", ![w].plan = <<>>]
    BY <2>1 DEF Complete
  <2>3. Busy(w)
    BY DEF Busy
  <2> QED
    BY <2>1, <2>2, <2>3, CompleteKeeps
<1> QED
  BY <1>4, <1>5

LEMMA PersistAtomKeeps ==
    ASSUME ExtractionInv, NEW w \in XWorkers, PersistAtom(w)
    PROVE  ExtractionInv'
<1>1. kind = "atom" /\ xw[w].at = "write" /\ xw[w].plan # <<>> /\ UNCHANGED <<kind, dry>>
  BY DEF PersistAtom
<1>2. ASSUME WriteFails(w) PROVE ExtractionInv'
  <2>1. /\ job' = [job EXCEPT ![xw[w].mem] = "failed"] /\ atoms' = atoms
        /\ xw' = [xw EXCEPT ![w].at = "next", ![w].mem = "none", ![w].plan = <<>>]
    BY <1>2 DEF WriteFails
  <2>2. Busy(w)
    BY <1>1 DEF Busy
  <2> QED
    BY <1>1, <2>1, <2>2, CompleteKeeps
<1>3. InsertAtom(w) \/ RetireAtom(w) \/ WriteFails(w)
  BY DEF PersistAtom
<1> QED
  BY <1>1, <1>2, <1>3, InsertAtomKeeps, RetireAtomKeeps

LEMMA ExtractionStepKeeps == ExtractionInv /\ [ExtractionNext]_extractionVars => ExtractionInv'
<1> SUFFICES ASSUME ExtractionInv, [ExtractionNext]_extractionVars PROVE ExtractionInv'
  OBVIOUS
<1>1. CASE UNCHANGED extractionVars
  BY <1>1, StutterKeeps DEF extractionVars
<1>2. ASSUME NEW m \in XMems, ForgetSource(m) PROVE ExtractionInv'
  BY <1>2, StutterKeeps DEF ForgetSource
<1>3. ASSUME NEW w \in XWorkers, WorkerLoop(w) PROVE ExtractionInv'
  BY <1>3, ClaimKeeps, EndsKeep, BatchOverKeeps, ReadAtomsKeeps, PersistAtomKeeps,
     EntitiesKeep, ExtractKeeps, CrashKeeps DEF WorkerLoop
<1> QED
  BY <1>1, <1>2, <1>3, EnqueueKeeps, CrashKeeps DEF ExtractionNext

\* Upserts only add names and aliases.
LEMMA UpsertKeepsAliases ==
    [ExtractionNext]_extractionVars
      => [\A n \in Known : n \in DOMAIN ents' /\ ents[n] \subseteq ents'[n]]_extractionVars
<1> SUFFICES ASSUME ExtractionNext PROVE \A n \in Known : n \in DOMAIN ents' /\ ents[n] \subseteq ents'[n]
  OBVIOUS
<1>1. ents' = ents \/ \E e : UpsertEntity(e)
  <2>1. ASSUME NEW w \in XWorkers, WorkerLoop(w) PROVE ents' = ents \/ \E e : UpsertEntity(e)
    <3>1. ASSUME PersistEntity(w) PROVE ents' = ents \/ \E e : UpsertEntity(e)
      BY <3>1 DEF PersistEntity
    <3> QED
      BY <2>1, <3>1 DEF WorkerLoop, ClaimJobs, ExtractFails, BatchOver, JobDone, ReadAtoms,
         PersistAtom, ReadEntities, Extract, NilMemoryPanics, RestartWorker, tables
  <2> QED
    BY <2>1 DEF ExtractionNext, EnqueueJob, ForgetSource, CrashWorker, tables
<1>2. ASSUME NEW e, UpsertEntity(e), NEW n \in Known
      PROVE  n \in DOMAIN ents' /\ ents[n] \subseteq ents'[n]
  BY <1>2 DEF UpsertEntity
<1> QED
  BY <1>1, <1>2 DEF Known

(* For every number of servers, memories and extracted facts: however the      *)
(* workers claim, crash, fail and retire, each extracted atom is stored once    *)
(* before its job is done, a retired atom has the one heir that retired it,     *)
(* nothing is retired in a dry run, and no alias of an entity is lost.          *)
THEOREM ExtractionStaysSound == ExtractionSpec => ExtractionSound
<1>1. ExtractionInv => SupersededOnce /\ DoneMeansStored /\ ExtractedOnce
  BY RowsGiveProperties DEF ExtractionInv
<1>2. ExtractionSpec => []ExtractionInv
  BY ExtractionInitially, ExtractionStepKeeps, PTL DEF ExtractionSpec
<1>3. ExtractionSpec => AliasesKept
  BY UpsertKeepsAliases, PTL DEF ExtractionSpec, AliasesKept
<1> QED
  BY <1>1, <1>2, <1>3, PTL DEF ExtractionSound
===========================================================================
