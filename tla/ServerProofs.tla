---------------------------- MODULE ServerProofs ----------------------------
(* Proofs about the parts of the server process: the pool of engines, for  *)
(* every set of projects and callers and every maxPoolSize; the ingestion  *)
(* queue, which implements the job service for every set of jobs and       *)
(* workers, every depth of the channel and every result TTL; the start and *)
(* the migrations, for every set of servers, every window and every number *)
(* of faults and restarts; the uploads, for every set of calls and ids;    *)
(* the limiters, for every set of peers; the documents, for every set of   *)
(* workers, bodies and files; and the sessions, for every set of ids.      *)
EXTENDS EnginePool, IngestQueue, Startup, Uploads, FrontDoor, Documents, Sessions,
        SequenceTheorems, FiniteSetTheorems, TLAPS

-----------------------------------------------------------------------------
(* The engine pool: the list of cached projects.                           *)

\* An LRU list: the members of S, each once.
Lists(s, S) ==
    /\ s \in Seq(S)
    /\ \A i, j \in 1 .. Len(s) : s[i] = s[j] => i = j
    /\ \A p \in S : \E i \in 1 .. Len(s) : s[i] = p

LEMMA ListedAsTyped ==
    ASSUME NEW P, NEW S \in SUBSET P, NEW s, Lists(s, S)
    PROVE  s \in Seq(P) /\ IsInjective(s) /\ ToSet(s) = S
<1>1. Len(s) \in Nat /\ DOMAIN s = 1 .. Len(s) /\ \A i \in 1 .. Len(s) : s[i] \in S
  BY DEF Lists
<1>2. IsInjective(s)
  BY <1>1 DEF Lists, IsInjective
<1>3. ToSet(s) = S
  BY <1>1 DEF Lists, ToSet
<1>4. s \in Seq(P)
  BY SeqMonotonic DEF Lists
<1> QED
  BY <1>2, <1>3, <1>4

\* No more projects are cached than the list is long.
LEMMA ListedCount ==
    ASSUME NEW S, NEW s, Lists(s, S)
    PROVE  Cardinality(S) =< Len(s) /\ IsFiniteSet(S)
<1>1. Len(s) \in Nat /\ s \in [1 .. Len(s) -> S]
  BY DEF Lists
<1>2. s \in Surjection(1 .. Len(s), S)
  BY <1>1 DEF Lists, Surjection
<1>3. IsFiniteSet(1 .. Len(s)) /\ Cardinality(1 .. Len(s)) = Len(s)
  BY <1>1, FS_Interval
<1> QED
  BY <1>2, <1>3, FS_Surjection

\* The new key goes to the end.
LEMMA AppendLists ==
    ASSUME NEW S, NEW s, Lists(s, S), NEW p, p \notin S
    PROVE  Lists(Append(s, p), S \cup {p}) /\ Len(Append(s, p)) = Len(s) + 1
<1> DEFINE t == Append(s, p)
<1>1. Len(s) \in Nat /\ \A i \in 1 .. Len(s) : s[i] \in S
  BY DEF Lists
<1>2. s \in Seq(S \cup {p})
  BY SeqMonotonic DEF Lists
<1>3. /\ t \in Seq(S \cup {p}) /\ Len(t) = Len(s) + 1
      /\ \A i \in 1 .. Len(s) : t[i] = s[i]
      /\ t[Len(s) + 1] = p
  BY <1>2, AppendProperties
<1> HIDE DEF t
<1>4. 1 .. Len(t) = (1 .. Len(s)) \cup {Len(s) + 1}
  BY <1>1, <1>3
<1>5. \A i, j \in 1 .. Len(t) : t[i] = t[j] => i = j
  BY <1>1, <1>3, <1>4 DEF Lists
<1>6. \A q \in S \cup {p} : \E i \in 1 .. Len(t) : t[i] = q
  BY <1>3, <1>4 DEF Lists
<1> QED
  BY <1>3, <1>5, <1>6 DEF Lists, t

\* Taking one entry out takes its project out.
LEMMA RemoveLists ==
    ASSUME NEW S, NEW s, Lists(s, S), NEW i \in 1 .. Len(s)
    PROVE  Lists(RemoveAt(s, i), S \ {s[i]}) /\ Len(RemoveAt(s, i)) = Len(s) - 1
<1> DEFINE a == SubSeq(s, 1, i - 1)
           b == SubSeq(s, i + 1, Len(s))
           t == a \o b
           R == S \ {s[i]}
<1>1. Len(s) \in Nat /\ \A k \in 1 .. Len(s) : s[k] \in S
  BY DEF Lists
<1>2. \A k \in 1 .. Len(s) : k # i => s[k] \in R
  BY <1>1 DEF Lists
<1>3. /\ a \in Seq(R) /\ Len(a) = i - 1
      /\ \A k \in 1 .. i - 1 : a[k] = s[k]
  <2>1. \A k \in 1 .. i - 1 : s[k] \in R
    BY <1>1, <1>2
  <2>2. 1 \in Int /\ i - 1 \in Int /\ (i - 1) - 1 + 1 = i - 1
    OBVIOUS
  <2> QED
    BY <2>1, <2>2, SubSeqProperties
<1>4. /\ b \in Seq(R) /\ Len(b) = Len(s) - i
      /\ \A k \in 1 .. Len(s) - i : b[k] = s[i + k]
  <2>1. \A k \in i + 1 .. Len(s) : s[k] \in R
    BY <1>1, <1>2
  <2>2. i + 1 \in Int /\ Len(s) \in Int /\ Len(s) - (i + 1) + 1 = Len(s) - i
    BY <1>1
  <2>3. /\ b \in Seq(R)
        /\ Len(b) = IF i + 1 =< Len(s) THEN Len(s) - (i + 1) + 1 ELSE 0
        /\ \A k \in 1 .. Len(s) - (i + 1) + 1 : b[k] = s[(i + 1) + k - 1]
    BY <2>1, <2>2, SubSeqProperties
  <2>4. \A k \in 1 .. Len(s) - i : k \in 1 .. Len(s) - (i + 1) + 1 /\ (i + 1) + k - 1 = i + k
    BY <1>1
  <2>5. Len(b) = Len(s) - i
    BY <2>3, <1>1
  <2>6. \A k \in 1 .. Len(s) - i : b[k] = s[i + k]
    BY <2>3, <2>4
  <2> QED
    BY <2>3, <2>5, <2>6
<1> HIDE DEF a, b
<1>5. /\ t \in Seq(R) /\ Len(t) = Len(s) - 1
      /\ \A k \in 1 .. Len(s) - 1 : t[k] = IF k < i THEN s[k] ELSE s[k + 1]
  <2>1. /\ t \in Seq(R) /\ Len(t) = Len(a) + Len(b)
        /\ \A k \in 1 .. Len(a) + Len(b) :
              t[k] = IF k =< Len(a) THEN a[k] ELSE b[k - Len(a)]
    BY <1>3, <1>4, ConcatProperties
  <2>2. Len(a) + Len(b) = Len(s) - 1
    BY <1>1, <1>3, <1>4
  <2>3. ASSUME NEW k \in 1 .. Len(s) - 1
        PROVE  t[k] = IF k < i THEN s[k] ELSE s[k + 1]
    <3>1. CASE k < i
      BY <3>1, <2>1, <2>2, <1>1, <1>3
    <3>2. CASE ~(k < i)
      <4>1. ~(k =< Len(a)) /\ k - Len(a) \in 1 .. Len(s) - i /\ i + (k - Len(a)) = k + 1
        BY <3>2, <1>1, <1>3
      <4>2. t[k] = b[k - Len(a)]
        BY <4>1, <2>1, <2>2
      <4> QED
        BY <4>1, <4>2, <3>2, <1>4
    <3> QED
      BY <3>1, <3>2
  <2> QED
    BY <2>1, <2>2, <2>3
<1> HIDE DEF t
<1>6. \A k, m \in 1 .. Len(t) : t[k] = t[m] => k = m
  <2> SUFFICES ASSUME NEW k \in 1 .. Len(t), NEW m \in 1 .. Len(t), t[k] = t[m]
               PROVE  k = m
    OBVIOUS
  <2> DEFINE x == IF k < i THEN k ELSE k + 1
             y == IF m < i THEN m ELSE m + 1
  <2>1. x \in 1 .. Len(s) /\ y \in 1 .. Len(s) /\ s[x] = s[y]
    BY <1>1, <1>5
  <2>2. x = y
    BY <2>1 DEF Lists
  <2> QED
    BY <2>2, <1>1, <1>5
<1>7. \A p \in R : \E k \in 1 .. Len(t) : t[k] = p
  <2> SUFFICES ASSUME NEW p \in R PROVE \E k \in 1 .. Len(t) : t[k] = p
    OBVIOUS
  <2>1. PICK k \in 1 .. Len(s) : s[k] = p /\ k # i
    BY DEF Lists
  <2>2. CASE k < i
    BY <2>1, <2>2, <1>1, <1>5
  <2>3. CASE k > i
    <3>1. k - 1 \in 1 .. Len(t) /\ ~(k - 1 < i) /\ (k - 1) + 1 = k
      BY <2>3, <1>1, <1>5
    <3> QED
      BY <2>1, <3>1, <1>5
  <2> QED
    BY <2>1, <2>2, <2>3
<1>8. RemoveAt(s, i) = t
  BY DEF RemoveAt, t, a, b
<1> QED
  BY <1>5, <1>6, <1>7, <1>8 DEF Lists

\* Evicting the least recently used project is taking the first entry out.
LEMMA TailLists ==
    ASSUME NEW S, NEW s, Lists(s, S), s # <<>>
    PROVE  /\ Head(s) \in S
           /\ Lists(Tail(s), S \ {Head(s)}) /\ Len(Tail(s)) = Len(s) - 1
<1> DEFINE t == Tail(s)
           R == S \ {Head(s)}
<1>1. /\ Len(s) \in Nat \ {0} /\ Head(s) = s[1]
      /\ \A k \in 1 .. Len(s) : s[k] \in S
      /\ t \in Seq(S) /\ Len(t) = Len(s) - 1
      /\ \A k \in 1 .. Len(t) : t[k] = s[k + 1]
  BY DEF Lists
<1> HIDE DEF t
<1>a. \A k \in 1 .. Len(s) : k # 1 => s[k] \in R
  <2>1. 1 \in 1 .. Len(s)
    BY <1>1
  <2>2. \A k \in 1 .. Len(s) : s[k] = s[1] => k = 1
    BY <2>1 DEF Lists
  <2> QED
    BY <2>2, <1>1
<1>2. \A k \in 1 .. Len(t) : k + 1 \in 1 .. Len(s) /\ k + 1 # 1
  BY <1>1
<1>3. t \in Seq(R)
  <2>1. \A k \in 2 .. Len(s) : s[k] \in R
    BY <1>1, <1>a
  <2>2. SubSeq(s, 2, Len(s)) \in Seq(R)
    BY <2>1, <1>1, SubSeqProperties
  <2> QED
    BY <2>2, TailIsSubSeq DEF Lists, t
<1>4. \A k, m \in 1 .. Len(t) : t[k] = t[m] => k = m
  <2> SUFFICES ASSUME NEW k \in 1 .. Len(t), NEW m \in 1 .. Len(t), t[k] = t[m]
               PROVE  k = m
    OBVIOUS
  <2>1. s[k + 1] = s[m + 1] /\ k + 1 \in 1 .. Len(s) /\ m + 1 \in 1 .. Len(s)
    BY <1>1, <1>2
  <2>2. k + 1 = m + 1
    BY <2>1 DEF Lists
  <2>3. k \in Int /\ m \in Int
    BY <1>1
  <2> QED
    BY <2>2, <2>3
<1>5. \A p \in R : \E k \in 1 .. Len(t) : t[k] = p
  <2> SUFFICES ASSUME NEW p \in R PROVE \E k \in 1 .. Len(t) : t[k] = p
    OBVIOUS
  <2>1. PICK k \in 1 .. Len(s) : s[k] = p
    BY DEF Lists
  <2>2. k # 1 /\ k - 1 \in 1 .. Len(t) /\ (k - 1) + 1 = k
    BY <2>1, <1>1
  <2> QED
    BY <2>1, <2>2, <1>1
<1> QED
  BY <1>1, <1>3, <1>4, <1>5 DEF Lists, t

-----------------------------------------------------------------------------
(* The inductive invariant.                                                *)

CachedProjects == {p \in Projects : engines[p] # 0}

CachesTyped ==
    /\ engines \in [Projects -> 0 .. MaxMade]
    /\ closed \in BOOLEAN /\ swept \in BOOLEAN
    /\ made \in [Projects -> 0 .. MaxMade]
    /\ closes \in [Engines -> Nat]
    /\ flight \in [Projects -> {"none", "recheck", "factory", "insert", "evicting", "deliver"}]
    /\ result \in [Projects -> 0 .. MaxMade]

CallersTyped ==
    /\ pc \in [Callers -> {"idle", "lookup", "join", "waiting", "using"}]
    /\ proj \in [Callers -> Projects \cup {NoProject}]
    /\ handle \in [Callers -> 0 .. MaxMade]
    /\ \A c \in Callers : pc[c] # "idle" => proj[c] \in Projects

\* The list is bounded and lists the keys of the map.
ListBounded == Lists(lru, CachedProjects) /\ Len(lru) =< MaxPoolSize

\* singleflight: while the flight of a project makes its engine, nobody else
\* can put one into the cache.
FlightAlone ==
    \A p \in Projects :
        /\ flight[p] \in {"factory", "insert", "evicting"} => engines[p] = 0
        /\ flight[p] \in {"insert", "evicting"} => result[p] # 0

\* An engine that runs is the cached one, or the one its flight brings.
Reachable ==
    \A p \in Projects, k \in 1 .. MaxMade :
        k =< made[p] /\ closes[<<p, k>>] = 0 =>
            engines[p] = k \/ (flight[p] \in {"insert", "evicting"} /\ result[p] = k)

PoolInv == CachesTyped /\ CallersTyped /\ ListBounded /\ FlightAlone /\ Reachable

LEMMA PoolInvSuffices == PoolInv => EnginesAccounted
<1> SUFFICES ASSUME PoolInv PROVE EnginesAccounted
  OBVIOUS
<1> USE PoolAssumption DEF PoolInv
<1>1. lru \in Seq(Projects) /\ IsInjective(lru) /\ ToSet(lru) = CachedProjects
  BY ListedAsTyped DEF ListBounded, CachedProjects
<1>2. PoolTypeOK
  BY <1>1 DEF PoolTypeOK, CachesTyped, CallersTyped, CachedProjects
<1>3. PoolBounded
  <2>1. Cardinality(CachedProjects) =< Len(lru) /\ IsFiniteSet(CachedProjects)
    BY ListedCount DEF ListBounded
  <2>2. Cardinality(CachedProjects) \in Nat
    BY <2>1, FS_CardinalityType
  <2>3. Len(lru) \in Nat /\ Len(lru) =< MaxPoolSize
    BY DEF ListBounded, Lists
  <2> QED
    BY <2>1, <2>2, <2>3 DEF PoolBounded, CachedProjects, Cached
<1>4. \A e \in RunningEngines :
         /\ e = <<e[1], e[2]>> /\ e[1] \in Projects /\ e[2] \in 1 .. MaxMade
         /\ e[2] =< made[e[1]] /\ closes[<<e[1], e[2]>>] = 0
  BY DEF RunningEngines, Made, Engines
<1>5. NoOrphan
  BY <1>4 DEF NoOrphan, Reachable, Initializing
<1>6. OneEnginePerProject
  <2> SUFFICES ASSUME NEW e \in RunningEngines, NEW f \in RunningEngines, e[1] = f[1]
               PROVE  e = f
    BY DEF OneEnginePerProject
  <2> DEFINE p == e[1]
  <2>0. /\ p \in Projects /\ f[1] = p
        /\ e[2] \in 1 .. MaxMade /\ e[2] =< made[p] /\ closes[<<p, e[2]>>] = 0
        /\ f[2] \in 1 .. MaxMade /\ f[2] =< made[p] /\ closes[<<p, f[2]>>] = 0
    BY <1>4
  <2> HIDE DEF p
  <2>a. engines[p] = e[2] \/ (flight[p] \in {"insert", "evicting"} /\ result[p] = e[2])
    BY <2>0 DEF Reachable
  <2>b. engines[p] = f[2] \/ (flight[p] \in {"insert", "evicting"} /\ result[p] = f[2])
    BY <2>0 DEF Reachable
  <2>1. e[2] = f[2]
    BY <2>0, <2>a, <2>b DEF FlightAlone
  <2> QED
    BY <2>1, <1>4
<1> QED
  BY <1>2, <1>3, <1>5, <1>6 DEF EnginesAccounted

LEMMA PoolInitially == PoolInit => PoolInv
<1> SUFFICES ASSUME PoolInit PROVE PoolInv
  OBVIOUS
<1> USE PoolAssumption DEF PoolInit
<1>1. CachesTyped
  <2>1. closed \in BOOLEAN /\ swept \in BOOLEAN
    OBVIOUS
  <2>2. /\ engines \in [Projects -> 0 .. MaxMade] /\ made \in [Projects -> 0 .. MaxMade]
        /\ result \in [Projects -> 0 .. MaxMade] /\ closes \in [Engines -> Nat]
    OBVIOUS
  <2>3. flight \in [Projects -> {"none", "recheck", "factory", "insert", "evicting", "deliver"}]
    OBVIOUS
  <2> QED
    BY <2>1, <2>2, <2>3 DEF CachesTyped
<1>2. CallersTyped
  BY DEF CallersTyped, NoProject
<1>3. CachedProjects = {}
  BY DEF CachedProjects
<1>4. ListBounded
  <2>1. lru \in Seq({}) /\ Len(lru) = 0 /\ 1 .. Len(lru) = {}
    BY EmptySeq
  <2> QED
    BY <1>3, <2>1 DEF ListBounded, Lists
<1>5. FlightAlone /\ Reachable
  BY DEF FlightAlone, Reachable
<1> QED
  BY <1>1, <1>2, <1>4, <1>5 DEF PoolInv

\* The fast path: the entry of a cached project moves to the end of the list.
LEMMA TouchedLists ==
    ASSUME PoolInv, NEW p \in CachedProjects
    PROVE  Lists(Touched(p), CachedProjects) /\ Len(Touched(p)) = Len(lru)
<1> DEFINE i == Position(p)
<1>1. Lists(lru, CachedProjects)
  BY DEF PoolInv, ListBounded
<1>2. i \in 1 .. Len(lru) /\ lru[i] = p
  BY <1>1 DEF Lists, Position
<1>3. /\ Lists(RemoveAt(lru, i), CachedProjects \ {p})
      /\ Len(RemoveAt(lru, i)) = Len(lru) - 1
  BY <1>1, <1>2, RemoveLists
<1>4. /\ Lists(Touched(p), (CachedProjects \ {p}) \cup {p})
      /\ Len(Touched(p)) = (Len(lru) - 1) + 1
  BY <1>3, AppendLists DEF Touched
<1>5. (CachedProjects \ {p}) \cup {p} = CachedProjects
  OBVIOUS
<1>6. Len(lru) \in Nat
  BY <1>1 DEF Lists
<1>7. Lists(Touched(p), CachedProjects)
  BY <1>4, <1>5, Zenon
<1>8. Len(Touched(p)) = Len(lru)
  BY <1>4, <1>6
<1> QED
  BY <1>7, <1>8

\* The steps of a caller touch the list and the flights' start only.
LEMMA CallerPreserves ==
    ASSUME PoolInv, NEW c \in Callers, CallerStep(c)
    PROVE  PoolInv'
<1> USE PoolAssumption DEF PoolInv
<1>1. ASSUME NEW p \in Projects, GetStart(c, p) PROVE PoolInv'
  <2>1. UNCHANGED <<engines, lru, closed, swept, made, closes, flight, result>>
    BY <1>1 DEF GetStart
  <2>2. CallersTyped'
    BY <1>1 DEF GetStart, CallersTyped
  <2> QED
    BY <2>1, <2>2 DEF CachesTyped, ListBounded, CachedProjects, FlightAlone, Reachable
<1>2. CASE GetFast(c)
  <2>1. /\ pc[c] = "lookup" /\ engines[proj[c]] # 0 /\ lru' = Touched(proj[c])
        /\ pc' = [pc EXCEPT ![c] = "using"]
        /\ handle' = [handle EXCEPT ![c] = engines[proj[c]]]
        /\ UNCHANGED <<engines, closed, swept, made, closes, flight, result, proj>>
    BY <1>2 DEF GetFast, Cached
  <2>2. proj[c] \in CachedProjects /\ CachedProjects' = CachedProjects
    BY <2>1 DEF CallersTyped, CachedProjects
  <2>3. ListBounded'
    BY <2>1, <2>2, TouchedLists DEF ListBounded
  <2>4. CallersTyped'
    BY <2>1, <2>2 DEF CallersTyped, CachesTyped, CachedProjects
  <2> QED
    BY <2>1, <2>3, <2>4 DEF CachesTyped, FlightAlone, Reachable
<1>3. CASE GetMiss(c) \/ GetCancel(c) \/ Release(c)
  <2>1. UNCHANGED <<engines, lru, closed, swept, made, closes, flight, result>>
    BY <1>3 DEF GetMiss, GetCancel, Release
  <2>2. CallersTyped'
    BY <1>3 DEF GetMiss, GetCancel, Release, CallersTyped
  <2> QED
    BY <2>1, <2>2 DEF CachesTyped, ListBounded, CachedProjects, FlightAlone, Reachable
<1>4. CASE GetJoin(c)
  <2>1. /\ proj[c] \in Projects /\ pc' = [pc EXCEPT ![c] = "waiting"]
        /\ flight' = [flight EXCEPT ![proj[c]] = IF @ = "none" THEN "recheck" ELSE @]
        /\ UNCHANGED <<engines, lru, closed, swept, made, closes, result, proj, handle>>
    BY <1>4 DEF GetJoin, CallersTyped
  <2>2. /\ CachesTyped' /\ CallersTyped'
    BY <2>1 DEF CachesTyped, CallersTyped
  <2>3. \A p \in Projects : flight'[p] = flight[p]
                            \/ (flight[p] = "none" /\ flight'[p] = "recheck")
    BY <2>1 DEF CachesTyped
  <2>4. FlightAlone' /\ Reachable'
    BY <2>1, <2>3 DEF FlightAlone, Reachable
  <2> QED
    BY <2>1, <2>2, <2>4 DEF ListBounded, CachedProjects
<1> QED
  BY <1>1, <1>2, <1>3, <1>4 DEF CallerStep

\* Engine.Close on a set of engines counts once for each of them.
LEMMA StopCounts ==
    ASSUME CachesTyped, NEW S, Stop(S)
    PROVE  /\ closes' \in [Engines -> Nat]
           /\ \A p \in Projects, k \in 1 .. MaxMade :
                 closes'[<<p, k>>] = 0 => closes[<<p, k>>] = 0 /\ <<p, k>> \notin S
<1>1. \A e \in Engines : closes[e] \in Nat
  BY DEF CachesTyped
<1>2. \A p \in Projects, k \in 1 .. MaxMade : <<p, k>> \in Engines
  BY DEF Engines
<1>3. \A e \in Engines : closes'[e] = closes[e] + (IF e \in S THEN 1 ELSE 0)
  BY DEF Stop
<1>4. closes' \in [Engines -> Nat]
  BY <1>1 DEF Stop
<1> QED
  BY <1>1, <1>2, <1>3, <1>4

\* Recheck, the factory and the delivery change a flight, not the cache.
LEMMA FlightPreserves ==
    ASSUME PoolInv, NEW p \in Projects,
           Recheck(p) \/ FactoryOk(p) \/ FactoryFail(p) \/ InsertSpins(p) \/ Deliver(p)
    PROVE  PoolInv'
<1> USE PoolAssumption DEF PoolInv
<1>0. /\ UNCHANGED <<engines, lru, closed, swept, closes>>
      /\ CachedProjects' = CachedProjects
  BY DEF Recheck, FactoryOk, FactoryFail, InsertSpins, Deliver, CachedProjects
<1>1. ListBounded'
  BY <1>0 DEF ListBounded
<1>2. CASE Recheck(p)
  <2>1. /\ flight[p] = "recheck"
        /\ flight' = [flight EXCEPT ![p] = IF engines[p] # 0 THEN "deliver" ELSE "factory"]
        /\ result' = [result EXCEPT ![p] = engines[p]]
        /\ UNCHANGED <<made, pc, proj, handle>>
    BY <1>2 DEF Recheck, Cached
  <2>2. CachesTyped' /\ CallersTyped'
    BY <1>0, <2>1 DEF CachesTyped, CallersTyped
  <2>3. /\ \A q \in Projects \ {p} : flight'[q] = flight[q] /\ result'[q] = result[q]
        /\ flight'[p] \in {"deliver", "factory"}
        /\ flight'[p] = "factory" => engines[p] = 0
    BY <2>1 DEF CachesTyped
  <2>4. FlightAlone' /\ Reachable'
    BY <1>0, <2>1, <2>3 DEF FlightAlone, Reachable
  <2> QED
    BY <1>1, <2>2, <2>4
<1>3. CASE FactoryOk(p)
  <2>1. /\ flight[p] = "factory" /\ made[p] < MaxMade
        /\ made' = [made EXCEPT ![p] = @ + 1]
        /\ result' = [result EXCEPT ![p] = made[p] + 1]
        /\ flight' = [flight EXCEPT ![p] = "insert"]
        /\ UNCHANGED <<pc, proj, handle>>
    BY <1>3 DEF FactoryOk
  <2>2. CachesTyped' /\ CallersTyped'
    BY <1>0, <2>1 DEF CachesTyped, CallersTyped
  <2>3. /\ \A q \in Projects \ {p} :
             flight'[q] = flight[q] /\ result'[q] = result[q] /\ made'[q] = made[q]
        /\ flight'[p] = "insert" /\ made[p] \in Nat
        /\ made'[p] = made[p] + 1 /\ result'[p] = made[p] + 1
    BY <2>1 DEF CachesTyped
  <2>4. FlightAlone'
    BY <1>0, <2>1, <2>3 DEF FlightAlone
  <2>5. Reachable'
    <3> SUFFICES ASSUME NEW q \in Projects, NEW k \in 1 .. MaxMade,
                        k =< made'[q], closes[<<q, k>>] = 0
                 PROVE  engines[q] = k \/ (flight'[q] \in {"insert", "evicting"}
                                           /\ result'[q] = k)
      BY <1>0 DEF Reachable
    <3>1. CASE q # p
      BY <3>1, <2>3 DEF Reachable
    <3>2. CASE q = p /\ k = made[p] + 1
      BY <3>2, <2>3
    <3>3. CASE q = p /\ k =< made[p]
      BY <3>3, <2>1 DEF Reachable, FlightAlone
    <3> QED
      BY <3>1, <3>2, <3>3, <2>3
  <2> QED
    BY <1>1, <2>2, <2>4, <2>5
<1>4. CASE FactoryFail(p)
  <2>1. /\ flight[p] = "factory" /\ flight' = [flight EXCEPT ![p] = "deliver"]
        /\ UNCHANGED <<made, result, pc, proj, handle>>
    BY <1>4 DEF FactoryFail
  <2>2. CachesTyped' /\ CallersTyped'
    BY <1>0, <2>1 DEF CachesTyped, CallersTyped
  <2>3. FlightAlone' /\ Reachable'
    BY <1>0, <2>1 DEF FlightAlone, Reachable, CachesTyped
  <2> QED
    BY <1>1, <2>2, <2>3
<1>5. CASE InsertSpins(p)
  <2>1. /\ flight[p] = "insert" /\ flight' = [flight EXCEPT ![p] = "evicting"]
        /\ UNCHANGED <<made, result, pc, proj, handle>>
    BY <1>5 DEF InsertSpins
  <2>2. CachesTyped' /\ CallersTyped'
    BY <1>0, <2>1 DEF CachesTyped, CallersTyped
  <2>3. FlightAlone' /\ Reachable'
    BY <1>0, <2>1 DEF FlightAlone, Reachable, CachesTyped
  <2> QED
    BY <1>1, <2>2, <2>3
<1>6. CASE Deliver(p)
  <2>1. /\ flight[p] = "deliver" /\ flight' = [flight EXCEPT ![p] = "none"]
        /\ result' = [result EXCEPT ![p] = 0] /\ made' = made
    BY <1>6 DEF Deliver
  <2>2. CachesTyped'
    BY <1>0, <2>1 DEF CachesTyped
  <2>3. CallersTyped'
    <3> DEFINE waiters == {c \in Callers : pc[c] = "waiting" /\ proj[c] = p}
    <3>1. /\ pc' = [c \in Callers |-> IF c \notin waiters THEN pc[c]
                                      ELSE IF result[p] = 0 THEN "idle" ELSE "using"]
          /\ proj' = [c \in Callers |-> IF c \in waiters /\ result[p] = 0
                                        THEN NoProject ELSE proj[c]]
          /\ handle' = [c \in Callers |-> IF c \in waiters THEN result[p] ELSE handle[c]]
      BY <1>6 DEF Deliver
    <3>2. result[p] \in 0 .. MaxMade
      BY DEF CachesTyped
    <3> QED
      BY <3>1, <3>2 DEF CallersTyped
  <2>4. /\ \A q \in Projects \ {p} : flight'[q] = flight[q] /\ result'[q] = result[q]
        /\ flight'[p] = "none"
    BY <2>1 DEF CachesTyped
  <2>5. FlightAlone' /\ Reachable'
    BY <1>0, <2>1, <2>4 DEF FlightAlone, Reachable
  <2> QED
    BY <1>1, <2>2, <2>3, <2>5
<1> QED
  BY <1>2, <1>3, <1>4, <1>5, <1>6

\* The new engine takes its place, after the oldest one made room when the
\* cache is full; an engine that is evicted is stopped.
LEMMA InsertPreserves ==
    ASSUME PoolInv, NEW p \in Projects, Insert(p)
    PROVE  PoolInv'
<1> USE PoolAssumption DEF PoolInv
<1>1. /\ flight[p] = "insert" /\ engines[p] = 0 /\ result[p] \in 1 .. MaxMade
  BY DEF Insert, FlightAlone, CachesTyped
<1>2. /\ CacheNew(p) /\ flight' = [flight EXCEPT ![p] = "deliver"]
      /\ UNCHANGED <<result, closed, swept, made, pc, proj, handle>>
  BY <1>1 DEF Insert, Cached
<1>3. Lists(lru, CachedProjects) /\ Len(lru) \in Nat /\ Len(lru) =< MaxPoolSize
  BY DEF ListBounded, Lists
<1>4. p \notin CachedProjects
  BY <1>1 DEF CachedProjects
<1>5. /\ Full => lru # <<>>
      /\ Evicted \subseteq CachedProjects /\ p \notin Evicted
      /\ Full => Evicted = {Head(lru)}
      /\ ~Full => Evicted = {}
  <2>1. Full => lru # <<>>
    BY <1>3 DEF Full
  <2>2. Full => Head(lru) \in CachedProjects
    BY <2>1, <1>3, TailLists
  <2> QED
    BY <2>1, <2>2, <1>4 DEF Evicted
<1>6. /\ engines' \in [Projects -> 0 .. MaxMade]
      /\ engines'[p] = result[p]
      /\ \A q \in Projects \ {p} : engines'[q] = IF q \in Evicted THEN 0 ELSE engines[q]
  BY <1>1, <1>2 DEF CacheNew, CachesTyped
<1>7. CachedProjects' = (CachedProjects \ Evicted) \cup {p}
  BY <1>1, <1>5, <1>6 DEF CachedProjects
<1>8. ListBounded'
  <2>1. CASE Full
    <3>1. Lists(Tail(lru), CachedProjects \ Evicted) /\ Len(Tail(lru)) = Len(lru) - 1
      BY <2>1, <1>3, <1>5, TailLists
    <3>2. lru' = Append(Tail(lru), p)
      BY <2>1, <1>2 DEF CacheNew
    <3>3. Lists(lru', (CachedProjects \ Evicted) \cup {p}) /\ Len(lru') = Len(lru) - 1 + 1
      BY <3>1, <3>2, <1>4, AppendLists
    <3>4. Lists(lru', CachedProjects')
      BY <3>3, <1>7, Zenon
    <3> QED
      BY <3>3, <3>4, <1>3 DEF ListBounded
  <2>2. CASE ~Full
    <3>1. lru' = Append(lru, p) /\ CachedProjects \ Evicted = CachedProjects
      BY <2>2, <1>2, <1>5 DEF CacheNew
    <3>2. Lists(lru', CachedProjects \cup {p}) /\ Len(lru') = Len(lru) + 1
      BY <3>1, <1>3, <1>4, AppendLists
    <3>3. CachedProjects \cup {p} = CachedProjects'
      BY <3>1, <1>7
    <3>4. Lists(lru', CachedProjects')
      BY <3>2, <3>3, Zenon
    <3> QED
      BY <2>2, <3>2, <3>4, <1>3 DEF ListBounded, Full
  <2> QED
    BY <2>1, <2>2
<1> DEFINE S == {<<q, engines[q]>> : q \in Evicted}
<1>9. /\ closes' \in [Engines -> Nat]
      /\ \A q \in Projects, k \in 1 .. MaxMade :
            closes'[<<q, k>>] = 0 => closes[<<q, k>>] = 0 /\ <<q, k>> \notin S
  BY <1>2, StopCounts DEF CacheNew
<1>10. CachesTyped' /\ CallersTyped'
  BY <1>2, <1>6, <1>9 DEF CachesTyped, CallersTyped
<1>11. /\ \A q \in Projects \ {p} : flight'[q] = flight[q]
       /\ flight'[p] = "deliver"
  BY <1>2 DEF CachesTyped
<1>12. FlightAlone'
  BY <1>2, <1>6, <1>11 DEF FlightAlone
<1>13. Reachable'
  <2> SUFFICES ASSUME NEW q \in Projects, NEW k \in 1 .. MaxMade,
                      k =< made[q], closes'[<<q, k>>] = 0
               PROVE  engines'[q] = k \/ (flight'[q] \in {"insert", "evicting"}
                                          /\ result[q] = k)
    BY <1>2 DEF Reachable
  <2>1. closes[<<q, k>>] = 0 /\ <<q, k>> \notin S
    BY <1>9
  <2>2. engines[q] = k \/ (flight[q] \in {"insert", "evicting"} /\ result[q] = k)
    BY <2>1 DEF Reachable
  <2>3. CASE q = p
    BY <2>2, <2>3, <1>1, <1>6
  <2>4. CASE q # p /\ q \notin Evicted
    BY <2>2, <2>4, <1>6, <1>11
  <2>5. CASE q # p /\ q \in Evicted
    <3>1. <<q, engines[q]>> \in S /\ engines[q] # 0
      BY <2>5, <1>5 DEF CachedProjects
    <3>2. engines[q] # k
      BY <3>1, <2>1
    <3> QED
      BY <3>1, <3>2, <2>2, <2>5, <1>11 DEF FlightAlone
  <2> QED
    BY <2>3, <2>4, <2>5
<1> QED
  BY <1>8, <1>10, <1>12, <1>13

LEMMA ClosePreserves ==
    ASSUME PoolInv, CloseMark \/ CloseEngines
    PROVE  PoolInv'
<1> USE DEF PoolInv
<1>1. /\ UNCHANGED <<engines, lru, made, flight, result, pc, proj, handle>>
      /\ CachedProjects' = CachedProjects
  BY DEF CloseMark, CloseEngines, CachedProjects
<1>2. closed' \in BOOLEAN /\ swept' \in BOOLEAN
  BY DEF CloseMark, CloseEngines, CachesTyped
<1>3. /\ closes' \in [Engines -> Nat]
      /\ \A p \in Projects, k \in 1 .. MaxMade :
            closes'[<<p, k>>] = 0 => closes[<<p, k>>] = 0
  <2>1. CASE CloseMark
    BY <2>1 DEF CloseMark, CachesTyped
  <2>2. CASE CloseEngines
    BY <2>2, StopCounts DEF CloseEngines
  <2> QED
    BY <2>1, <2>2
<1>4. Reachable'
  BY <1>1, <1>3 DEF Reachable
<1> QED
  BY <1>1, <1>2, <1>3, <1>4 DEF CachesTyped, CallersTyped, ListBounded, FlightAlone

LEMMA PoolStepPreserves == PoolInv /\ [PoolNext]_poolVars => PoolInv'
<1> SUFFICES ASSUME PoolInv, [PoolNext]_poolVars PROVE PoolInv'
  OBVIOUS
<1>1. CASE PoolNext
  BY <1>1, CallerPreserves, FlightPreserves, InsertPreserves, ClosePreserves
  DEF PoolNext, FlightStep
<1>2. CASE UNCHANGED poolVars
  BY <1>2 DEF poolVars, PoolInv, CachesTyped, CallersTyped, ListBounded, CachedProjects,
              FlightAlone, Reachable
<1> QED
  BY <1>1, <1>2

\* EnginePool: whatever callers, flights, evictions and Close interleave, the
\* cache stays within maxPoolSize, a project never has two running engines and
\* a running engine is never out of the pool's reach.
THEOREM PoolAccountsForEngines == PoolSpec => []EnginesAccounted
BY PoolInitially, PoolStepPreserves, PoolInvSuffices, PTL DEF PoolSpec

-----------------------------------------------------------------------------
(* The ingestion queue: its inductive invariant.                           *)

\* A job that was not accepted is nowhere behind the channel.
NotAccepted ==
    \A j \in Jobs : call[j] # "accepted" => outcome[j] = 0

\* An accepted job is run once: it waits once in the channel, or one worker has
\* it, or its Work has returned.
QueuedOnce ==
    /\ \A i \in 1 .. Len(ch) : call[ch[i]] = "accepted" /\ outcome[ch[i]] = 0
    /\ \A w \in Workers : worker[w] \in Jobs =>
          call[worker[w]] = "accepted" /\ outcome[worker[w]] = 0
    /\ \A i, k \in 1 .. Len(ch) : ch[i] = ch[k] => i = k
    /\ \A v, w \in Workers : worker[v] \in Jobs /\ worker[v] = worker[w] => v = w
    /\ \A i \in 1 .. Len(ch), w \in Workers : ch[i] # worker[w]
    /\ \A j \in Jobs : outcome[j] \in {0, 1}

\* What memory_ingest_status says fits where the job is.
AnswersTrue ==
    \A j \in Jobs :
        /\ call[j] \in {"new", "rejected"} => results[j] = "none"
        /\ call[j] = "stored" => results[j] = "pending"
        /\ call[j] = "accepted" /\ outcome[j] = 0 => results[j] = "pending"
        /\ call[j] = "accepted" /\ outcome[j] = 1 => results[j] \in Finished \cup {"none"}

QueueInv == QueueTypeOK /\ NotAccepted /\ QueuedOnce /\ AnswersTrue

LEMMA QueueInitially == QueueInit => QueueInv
<1> SUFFICES ASSUME QueueInit PROVE QueueInv
  OBVIOUS
<1> USE QueueAssumption DEF QueueInit, Idle, Exited
<1>1. QueueTypeOK
  <2>1. ch \in Seq(Jobs) /\ Len(ch) =< Depth
    OBVIOUS
  <2>2. /\ results \in [Jobs -> {"none", "pending"} \cup Finished]
        /\ age \in [Jobs -> 0 .. ResultTTL] /\ outcome \in [Jobs -> Nat]
        /\ call \in [Jobs -> {"new", "stored", "accepted", "rejected"}]
        /\ worker \in [Workers -> Jobs \cup {Idle, Exited}]
    OBVIOUS
  <2>3. evictor \in BOOLEAN /\ cancelled \in BOOLEAN
    OBVIOUS
  <2>4. main \in {"serving", "workers", "waiting", "exited"}
    OBVIOUS
  <2> QED
    BY <2>1, <2>2, <2>3, <2>4 DEF QueueTypeOK
<1>2. NotAccepted /\ AnswersTrue
  BY DEF NotAccepted, AnswersTrue
<1>3. QueuedOnce
  <2>1. 1 .. Len(ch) = {}
    OBVIOUS
  <2> QED
    BY <2>1 DEF QueuedOnce
<1> QED
  BY <1>1, <1>2, <1>3 DEF QueueInv

LEMMA EnqueuePreserves ==
    ASSUME QueueInv, NEW j \in Jobs, EnqueueStep(j)
    PROVE  QueueInv'
<1> USE QueueAssumption DEF QueueInv
<1>1. CASE EnqueueStore(j)
  <2> USE <1>1 DEF EnqueueStore
  <2>1. QueueTypeOK'
    BY DEF QueueTypeOK
  <2>2. /\ \A k \in Jobs \ {j} : call'[k] = call[k] /\ results'[k] = results[k]
        /\ call'[j] = "stored" /\ results'[j] = "pending" /\ call[j] = "new"
    BY DEF QueueTypeOK
  <2>3. NotAccepted' /\ AnswersTrue'
    BY <2>2 DEF NotAccepted, AnswersTrue
  <2>4. QueuedOnce'
    <3>1. /\ \A i \in 1 .. Len(ch) : ch[i] \in Jobs /\ ch[i] # j
          /\ \A w \in Workers : worker[w] # j
      BY <2>2 DEF QueuedOnce, QueueTypeOK
    <3> QED
      BY <2>2, <3>1 DEF QueuedOnce
  <2> QED
    BY <2>1, <2>3, <2>4
<1>2. CASE EnqueueSend(j)
  <2> USE <1>2 DEF EnqueueSend
  <2>1. /\ \A k \in Jobs \ {j} : call'[k] = call[k]
        /\ call'[j] = "accepted" /\ call[j] = "stored" /\ call' \in [Jobs -> {"new", "stored", "accepted", "rejected"}]
    BY DEF QueueTypeOK
  <2>2. /\ ch' \in Seq(Jobs) /\ Len(ch') = Len(ch) + 1 /\ Len(ch') =< Depth
        /\ ch'[Len(ch) + 1] = j
        /\ \A i \in 1 .. Len(ch) : ch'[i] = ch[i] /\ ch[i] \in Jobs
    BY DEF QueueTypeOK
  <2>3. QueueTypeOK'
    BY <2>1, <2>2 DEF QueueTypeOK
  <2>4. NotAccepted' /\ AnswersTrue'
    BY <2>1 DEF NotAccepted, AnswersTrue
  <2>5. QueuedOnce'
    <3>1. /\ \A i \in 1 .. Len(ch) : ch[i] # j
          /\ \A w \in Workers : worker[w] # j
          /\ outcome[j] = 0
      BY <2>1, <2>2 DEF QueuedOnce, NotAccepted
    <3>2. Len(ch) \in Nat /\ 1 .. Len(ch') = (1 .. Len(ch)) \cup {Len(ch) + 1}
      BY <2>2 DEF QueueTypeOK
    <3>3. /\ \A i \in 1 .. Len(ch') : call'[ch'[i]] = "accepted" /\ outcome[ch'[i]] = 0
          /\ \A i, k \in 1 .. Len(ch') : ch'[i] = ch'[k] => i = k
          /\ \A i \in 1 .. Len(ch'), w \in Workers : ch'[i] # worker[w]
      BY <2>1, <2>2, <3>1, <3>2 DEF QueuedOnce
    <3> QED
      BY <2>1, <3>1, <3>3 DEF QueuedOnce
  <2> QED
    BY <2>3, <2>4, <2>5
<1>3. CASE EnqueueFull(j)
  <2> USE <1>3 DEF EnqueueFull
  <2>1. QueueTypeOK'
    BY DEF QueueTypeOK
  <2>2. /\ \A k \in Jobs \ {j} : call'[k] = call[k] /\ results'[k] = results[k]
        /\ call'[j] = "rejected" /\ results'[j] = "none" /\ call[j] = "stored"
    BY DEF QueueTypeOK
  <2>3. NotAccepted' /\ AnswersTrue'
    BY <2>2 DEF NotAccepted, AnswersTrue
  <2>4. QueuedOnce'
    <3>1. /\ \A i \in 1 .. Len(ch) : ch[i] \in Jobs /\ ch[i] # j
          /\ \A w \in Workers : worker[w] # j
      BY <2>2 DEF QueuedOnce, QueueTypeOK
    <3> QED
      BY <2>2, <3>1 DEF QueuedOnce
  <2> QED
    BY <2>1, <2>3, <2>4
<1> QED
  BY <1>1, <1>2, <1>3 DEF EnqueueStep

\* select takes the first job of the channel: it changes hands.
LEMMA TakePreserves ==
    ASSUME QueueInv, NEW w \in Workers, WorkerTake(w)
    PROVE  QueueInv'
<1> USE QueueAssumption DEF QueueInv, WorkerTake
<1>1. /\ ch \in Seq(Jobs) /\ ch # <<>> /\ Len(ch) \in Nat \ {0}
      /\ ch[1] \in Jobs /\ Head(ch) = ch[1]
      /\ \A i \in 1 .. Len(ch) : ch[i] \in Jobs
  BY DEF QueueTypeOK
<1>2. /\ ch' \in Seq(Jobs) /\ Len(ch') = Len(ch) - 1
      /\ \A i \in 1 .. Len(ch') : i + 1 \in 1 .. Len(ch) /\ ch'[i] = ch[i + 1]
  BY <1>1
<1>3. /\ worker'[w] = ch[1] /\ worker[w] = Idle
      /\ \A v \in Workers \ {w} : worker'[v] = worker[v]
      /\ worker' \in [Workers -> Jobs \cup {Idle, Exited}]
  BY <1>1 DEF QueueTypeOK
<1>4. QueueTypeOK'
  BY <1>1, <1>2, <1>3 DEF QueueTypeOK
<1>5. NotAccepted' /\ AnswersTrue'
  BY DEF NotAccepted, AnswersTrue
<1>6. QueuedOnce'
  <2>1. 1 \in 1 .. Len(ch) /\ \A i \in 1 .. Len(ch') : i + 1 # 1 /\ i + 1 \in 1 .. Len(ch)
    BY <1>1, <1>2
  <2>2. \A i \in 1 .. Len(ch') : call[ch'[i]] = "accepted" /\ outcome[ch'[i]] = 0
    BY <1>2 DEF QueuedOnce
  <2>3. \A v \in Workers : worker'[v] \in Jobs =>
           call[worker'[v]] = "accepted" /\ outcome[worker'[v]] = 0
    BY <2>1, <1>3 DEF QueuedOnce
  <2>4. \A i, k \in 1 .. Len(ch') : ch'[i] = ch'[k] => i = k
    <3> SUFFICES ASSUME NEW i \in 1 .. Len(ch'), NEW k \in 1 .. Len(ch'), ch'[i] = ch'[k]
                 PROVE  i = k
      OBVIOUS
    <3>1. ch[i + 1] = ch[k + 1] /\ i + 1 \in 1 .. Len(ch) /\ k + 1 \in 1 .. Len(ch)
      BY <1>2
    <3>2. i + 1 = k + 1
      BY <3>1 DEF QueuedOnce
    <3> QED
      BY <3>2
  <2>5. \A u, v \in Workers : worker'[u] \in Jobs /\ worker'[u] = worker'[v] => u = v
    BY <2>1, <1>3 DEF QueuedOnce
  <2>6. \A i \in 1 .. Len(ch'), v \in Workers : ch'[i] # worker'[v]
    BY <2>1, <1>2, <1>3 DEF QueuedOnce
  <2> QED
    BY <2>2, <2>3, <2>4, <2>5, <2>6 DEF QueuedOnce
<1> QED
  BY <1>4, <1>5, <1>6

\* Work returned: the job leaves the worker with its verdict.
LEMMA FinishPreserves ==
    ASSUME QueueInv, NEW w \in Workers, NEW status \in Finished, WorkerFinish(w, status)
    PROVE  QueueInv'
<1> USE QueueAssumption DEF QueueInv
<1> DEFINE j == worker[w]
<1>1. /\ j \in Jobs /\ call[j] = "accepted" /\ outcome[j] = 0
  BY DEF WorkerFinish, QueuedOnce
<1>2. /\ results' = [results EXCEPT ![j] = status]
      /\ outcome' = [outcome EXCEPT ![j] = @ + 1]
      /\ age' = [age EXCEPT ![j] = 0]
      /\ worker' = [worker EXCEPT ![w] = Idle]
      /\ UNCHANGED <<ch, call, evictor, cancelled, main>>
  BY DEF WorkerFinish
<1>3. /\ results'[j] = status /\ outcome'[j] = 1 /\ worker'[w] = Idle
      /\ \A k \in Jobs \ {j} : results'[k] = results[k] /\ outcome'[k] = outcome[k]
      /\ \A v \in Workers \ {w} : worker'[v] = worker[v]
  BY <1>1, <1>2 DEF QueueTypeOK
<1>4. QueueTypeOK'
  BY <1>1, <1>2 DEF QueueTypeOK, Finished
<1>5. NotAccepted' /\ AnswersTrue'
  BY <1>1, <1>2, <1>3 DEF NotAccepted, AnswersTrue
<1>6. QueuedOnce'
  <2>1. /\ \A i \in 1 .. Len(ch) : ch[i] \in Jobs /\ ch[i] # j
        /\ \A v \in Workers \ {w} : worker[v] # j
    BY <1>1 DEF QueuedOnce, QueueTypeOK
  <2>2. \A v \in Workers : worker'[v] \in Jobs =>
           call[worker'[v]] = "accepted" /\ outcome'[worker'[v]] = 0
    BY <1>3, <2>1 DEF QueuedOnce
  <2>3. \A i \in 1 .. Len(ch) : call[ch[i]] = "accepted" /\ outcome'[ch[i]] = 0
    BY <1>3, <2>1 DEF QueuedOnce
  <2>4. \A u, v \in Workers : worker'[u] \in Jobs /\ worker'[u] = worker'[v] => u = v
    BY <1>3 DEF QueuedOnce
  <2>5. \A i \in 1 .. Len(ch), v \in Workers : ch[i] # worker'[v]
    BY <1>3, <2>1 DEF QueuedOnce
  <2>6. \A k \in Jobs : outcome'[k] \in {0, 1}
    BY <1>3 DEF QueuedOnce
  <2> QED
    BY <1>2, <2>2, <2>3, <2>4, <2>5, <2>6 DEF QueuedOnce
<1> QED
  BY <1>4, <1>5, <1>6

\* The steps that touch neither the channel nor the callers.
LEMMA OthersPreserve ==
    ASSUME QueueInv,
           \/ \E w \in Workers : WorkerExit(w)
           \/ EvictResults \/ EvictorExit \/ ResultsAge \/ Signal \/ MainStep
           \/ UNCHANGED queueVars
    PROVE  QueueInv'
<1> USE QueueAssumption DEF QueueInv
<1>1. ASSUME NEW w \in Workers, WorkerExit(w) PROVE QueueInv'
  <2>1. /\ worker' = [worker EXCEPT ![w] = Exited]
        /\ UNCHANGED <<ch, results, age, call, outcome, evictor, cancelled, main>>
    BY <1>1 DEF WorkerExit
  <2>2. QueueTypeOK'
    BY <2>1 DEF QueueTypeOK
  <2>3. QueuedOnce'
    <3>1. /\ worker'[w] = Exited
          /\ \A v \in Workers \ {w} : worker'[v] = worker[v]
      BY <2>1 DEF QueueTypeOK
    <3>2. \A i \in 1 .. Len(ch) : ch[i] \in Jobs
      BY DEF QueueTypeOK
    <3> QED
      BY <2>1, <3>1, <3>2 DEF QueuedOnce
  <2> QED
    BY <2>1, <2>2, <2>3 DEF NotAccepted, AnswersTrue
<1>2. CASE EvictResults
  <2>1. /\ results' = [j \in Jobs |-> IF Evictable(j) THEN "none" ELSE results[j]]
        /\ UNCHANGED <<ch, age, call, worker, outcome, evictor, cancelled, main>>
    BY <1>2 DEF EvictResults
  <2>2. QueueTypeOK'
    BY <2>1 DEF QueueTypeOK
  <2>3. \A j \in Jobs : results'[j] = results[j]
                        \/ (results[j] \in Finished /\ results'[j] = "none")
    BY <2>1 DEF Evictable
  <2>4. AnswersTrue'
    BY <2>1, <2>3 DEF AnswersTrue, Finished, QueueTypeOK
  <2> QED
    BY <2>1, <2>2, <2>4 DEF NotAccepted, QueuedOnce
<1>3. CASE ResultsAge
  BY <1>3 DEF ResultsAge, QueueTypeOK, NotAccepted, QueuedOnce, AnswersTrue
<1>4. CASE EvictorExit \/ Signal \/ MainStep \/ UNCHANGED queueVars
  <2>1. UNCHANGED <<ch, results, age, call, worker, outcome>>
    BY <1>4 DEF EvictorExit, Signal, MainStep, StartShutdown, StartFails, WorkersDone,
                Exit, queueVars
  <2>2. /\ evictor' \in BOOLEAN /\ cancelled' \in BOOLEAN
        /\ main' \in {"serving", "workers", "waiting", "exited"}
    BY <1>4 DEF EvictorExit, Signal, MainStep, StartShutdown, StartFails, WorkersDone,
                Exit, queueVars, QueueTypeOK
  <2> QED
    BY <2>1, <2>2 DEF QueueTypeOK, NotAccepted, QueuedOnce, AnswersTrue
<1> QED
  BY <1>1, <1>2, <1>3, <1>4

LEMMA QueueStepPreserves == QueueInv /\ [QueueNext]_queueVars => QueueInv'
BY EnqueuePreserves, TakePreserves, FinishPreserves, OthersPreserve
DEF QueueNext, WorkerStep

LEMMA QueueAlways == QueueSpec => []QueueInv
BY QueueInitially, QueueStepPreserves, PTL DEF QueueSpec

-----------------------------------------------------------------------------
(* The refinement: every step of the queue is a step of the service or     *)
(* leaves its phases and answers alone.                                    *)

\* The phase a client sees, for each state of a job the invariant allows.
LEMMA PhaseOfJob ==
    ASSUME QueueInv, NEW j \in Jobs
    PROVE  /\ call[j] = "new" => Phase(j) = "new"
           /\ call[j] = "stored" => Phase(j) = "offered"
           /\ call[j] = "rejected" => Phase(j) = "refused"
           /\ call[j] = "accepted" /\ outcome[j] = 0 => Phase(j) = "owed"
           /\ call[j] = "accepted" /\ outcome[j] = 1 =>
                 Phase(j) = IF results[j] = "none" THEN "expired" ELSE "ended"
<1> USE DEF Phase
<1>1. CASE call[j] = "new"
  BY <1>1
<1>2. CASE call[j] = "stored"
  BY <1>2
<1>3. CASE call[j] = "rejected"
  BY <1>3
<1>4. CASE call[j] = "accepted" /\ outcome[j] = 0
  BY <1>4
<1>5. CASE call[j] = "accepted" /\ outcome[j] = 1
  BY <1>5
<1> QED
  BY <1>1, <1>2, <1>3, <1>4, <1>5 DEF QueueInv, QueueTypeOK, QueuedOnce

LEMMA PhaseOfJobNext ==
    ASSUME QueueInv', NEW j \in Jobs
    PROVE  /\ call'[j] = "stored" => Phase(j)' = "offered"
           /\ call'[j] = "rejected" => Phase(j)' = "refused"
           /\ call'[j] = "accepted" /\ outcome'[j] = 0 => Phase(j)' = "owed"
           /\ call'[j] = "accepted" /\ outcome'[j] = 1 =>
                 Phase(j)' = IF results'[j] = "none" THEN "expired" ELSE "ended"
<1> USE DEF Phase
<1>2. CASE call'[j] = "stored"
  BY <1>2
<1>3. CASE call'[j] = "rejected"
  BY <1>3
<1>4. CASE call'[j] = "accepted" /\ outcome'[j] = 0
  BY <1>4
<1>5. CASE call'[j] = "accepted" /\ outcome'[j] = 1
  BY <1>5
<1> QED
  BY <1>2, <1>3, <1>4, <1>5 DEF QueueInv, QueueTypeOK, QueuedOnce

\* A step that changes the call, the outcome and the answer of one job only
\* moves that job in the service.
LEMMA OneJobMoves ==
    ASSUME QueueInv, NEW j \in Jobs, NEW from, NEW to, NEW says,
           Phase(j) = from, Phase(j)' = to,
           results' = [results EXCEPT ![j] = says],
           \A k \in Jobs \ {j} :
              call'[k] = call[k] /\ outcome'[k] = outcome[k] /\ results'[k] = results[k]
    PROVE  Service!Moves(j, from, to, says)
<1>1. \A k \in Jobs \ {j} : Phase(k)' = Phase(k)
  BY DEF Phase
<1>2. [k \in Jobs |-> Phase(k)'] =
         [[k \in Jobs |-> Phase(k)] EXCEPT ![j] = to]
  BY <1>1
<1> QED
  BY <1>2 DEF Service!Moves

LEMMA EnqueueRefines ==
    ASSUME QueueInv, QueueInv', NEW j \in Jobs, EnqueueStep(j)
    PROVE  Service!ServiceNext
<1> USE DEF QueueInv, QueueTypeOK
<1>1. CASE EnqueueStore(j)
  <2>1. /\ call[j] = "new" /\ call'[j] = "stored"
        /\ results' = [results EXCEPT ![j] = "pending"]
        /\ \A k \in Jobs \ {j} : call'[k] = call[k] /\ outcome'[k] = outcome[k]
                                 /\ results'[k] = results[k]
    BY <1>1 DEF EnqueueStore
  <2>2. Phase(j) = "new" /\ Phase(j)' = "offered"
    BY <2>1, PhaseOfJob, PhaseOfJobNext
  <2>3. Service!Offer(j)
    BY <2>1, <2>2, OneJobMoves DEF Service!Offer
  <2> QED
    BY <2>3 DEF Service!ServiceNext
<1>2. CASE EnqueueSend(j)
  <2>1. /\ call[j] = "stored" /\ call'[j] = "accepted" /\ outcome'[j] = 0
        /\ results' = results /\ results[j] = "pending"
        /\ \A k \in Jobs \ {j} : call'[k] = call[k] /\ outcome'[k] = outcome[k]
    BY <1>2 DEF EnqueueSend, NotAccepted, AnswersTrue
  <2>2. Phase(j) = "offered" /\ Phase(j)' = "owed"
    BY <2>1, PhaseOfJob, PhaseOfJobNext
  <2>3. results' = [results EXCEPT ![j] = "pending"]
    BY <2>1
  <2>4. Service!Accept(j)
    BY <2>1, <2>2, <2>3, OneJobMoves DEF Service!Accept
  <2> QED
    BY <2>4 DEF Service!ServiceNext
<1>3. CASE EnqueueFull(j)
  <2>1. /\ call[j] = "stored" /\ call'[j] = "rejected"
        /\ results' = [results EXCEPT ![j] = "none"]
        /\ \A k \in Jobs \ {j} : call'[k] = call[k] /\ outcome'[k] = outcome[k]
                                 /\ results'[k] = results[k]
    BY <1>3 DEF EnqueueFull
  <2>2. Phase(j) = "offered" /\ Phase(j)' = "refused"
    BY <2>1, PhaseOfJob, PhaseOfJobNext
  <2>3. Service!Refuse(j)
    BY <2>1, <2>2, OneJobMoves DEF Service!Refuse
  <2> QED
    BY <2>3 DEF Service!ServiceNext
<1> QED
  BY <1>1, <1>2, <1>3 DEF EnqueueStep

LEMMA FinishRefines ==
    ASSUME QueueInv, QueueInv', NEW w \in Workers, NEW status \in Finished,
           WorkerFinish(w, status)
    PROVE  Service!ServiceNext
<1>0. PICK j \in Jobs : worker[w] = j
  BY DEF WorkerFinish
<1>1. /\ call[j] = "accepted" /\ outcome[j] = 0
      /\ results' = [results EXCEPT ![j] = status]
      /\ outcome' = [outcome EXCEPT ![j] = @ + 1] /\ call' = call
  BY <1>0 DEF WorkerFinish, QueueInv, QueuedOnce
<1>2. /\ outcome'[j] = 1 /\ results'[j] = status /\ status # "none"
      /\ \A k \in Jobs \ {j} : call'[k] = call[k] /\ outcome'[k] = outcome[k]
                               /\ results'[k] = results[k]
  BY <1>1 DEF QueueInv, QueueTypeOK, Finished
<1>3. Phase(j) = "owed" /\ Phase(j)' = "ended"
  BY <1>1, <1>2, PhaseOfJob, PhaseOfJobNext
<1>4. Service!Moves(j, "owed", "ended", status)
  BY <1>1, <1>2, <1>3, OneJobMoves
<1>5. Service!End(j)
  BY <1>4 DEF Service!End, Finished
<1> QED
  BY <1>1, <1>5 DEF Service!ServiceNext

\* evictCompletedResults lets the verdicts older than the TTL expire.
LEMMA EvictRefines ==
    ASSUME QueueInv, QueueInv', EvictResults
    PROVE  Service!ServiceNext
<1> DEFINE S == {j \in Jobs : Evictable(j)}
<1>1. /\ results' = [j \in Jobs |-> IF j \in S THEN "none" ELSE results[j]]
      /\ call' = call /\ outcome' = outcome
  BY DEF EvictResults
<1>2. \A j \in S : j \in Jobs /\ call[j] = "accepted" /\ outcome[j] = 1 /\ results[j] # "none"
  BY DEF Evictable, Finished, QueueInv, QueueTypeOK, AnswersTrue, QueuedOnce
<1>3. \A j \in S : Phase(j) = "ended" /\ Phase(j)' = "expired"
  BY <1>1, <1>2, PhaseOfJob, PhaseOfJobNext
<1>4. \A j \in Jobs \ S : Phase(j)' = Phase(j)
  BY <1>1 DEF Phase
<1>5. [j \in Jobs |-> Phase(j)'] =
         [j \in Jobs |-> IF j \in S THEN "expired" ELSE [k \in Jobs |-> Phase(k)][j]]
  BY <1>3, <1>4
<1>6. Service!Expire(S)
  BY <1>1, <1>3, <1>5 DEF Service!Expire
<1>7. S \in SUBSET Jobs
  OBVIOUS
<1> QED
  BY <1>6, <1>7 DEF Service!ServiceNext

LEMMA QueueStepRefines ==
    ASSUME QueueInv, QueueInv', [QueueNext]_queueVars
    PROVE  [Service!ServiceNext]_(Service!serviceVars)
<1>1. ASSUME UNCHANGED <<call, outcome, results>>
      PROVE  UNCHANGED Service!serviceVars
  BY <1>1 DEF Service!serviceVars, Phase
<1>2. CASE \E j \in Jobs : EnqueueStep(j)
  BY <1>2, EnqueueRefines
<1>3. CASE \E w \in Workers : WorkerStep(w)
  <2>1. CASE \E w \in Workers : WorkerTake(w) \/ WorkerExit(w)
    BY <2>1, <1>1 DEF WorkerTake, WorkerExit
  <2>2. CASE \E w \in Workers : \E status \in Finished : WorkerFinish(w, status)
    BY <2>2, FinishRefines
  <2> QED
    BY <1>3, <2>1, <2>2 DEF WorkerStep
<1>4. CASE EvictResults
  BY <1>4, EvictRefines
<1>5. CASE EvictorExit \/ ResultsAge \/ Signal \/ MainStep \/ UNCHANGED queueVars
  BY <1>1, <1>5 DEF EvictorExit, ResultsAge, Signal, MainStep, StartShutdown, StartFails,
                    WorkersDone, Exit, queueVars
<1> QED
  BY <1>2, <1>3, <1>4, <1>5 DEF QueueNext

\* A verdict is replaced by a step only when its TTL is over.
LEMMA ResultStays ==
    ASSUME QueueInv, [QueueNext]_queueVars, NEW j \in Jobs,
           results[j] \in Finished, age[j] < ResultTTL
    PROVE  results'[j] = results[j]
<1> USE DEF QueueInv, Finished
<1>0. call[j] = "accepted" /\ outcome[j] = 1
  BY DEF AnswersTrue, QueuedOnce, QueueTypeOK
<1>1. ASSUME NEW k \in Jobs, EnqueueStep(k) PROVE results'[j] = results[j]
  <2>1. k # j
    BY <1>0, <1>1 DEF EnqueueStep, EnqueueStore, EnqueueSend, EnqueueFull
  <2> QED
    BY <1>1, <2>1 DEF EnqueueStep, EnqueueStore, EnqueueSend, EnqueueFull, QueueTypeOK
<1>2. ASSUME NEW w \in Workers, NEW status \in Finished, WorkerFinish(w, status)
      PROVE  results'[j] = results[j]
  <2>1. worker[w] # j
    BY <1>0, <1>2 DEF WorkerFinish, QueuedOnce
  <2> QED
    BY <1>2, <2>1 DEF WorkerFinish, QueueTypeOK
<1>3. CASE EvictResults
  <2>1. ~Evictable(j)
    BY QueueAssumption DEF Evictable, QueueTypeOK
  <2> QED
    BY <1>3, <2>1 DEF EvictResults
<1>4. CASE results' = results
  BY <1>4
<1> QED
  BY <1>1, <1>2, <1>3, <1>4
  DEF QueueNext, WorkerStep, WorkerTake, WorkerExit, EvictorExit, ResultsAge, Signal,
      MainStep, StartShutdown, StartFails, WorkersDone, Exit, queueVars

\* memory_ingest and memory_ingest_status: no job runs twice or is refused
\* after it was accepted, every status is true, and a verdict neither changes
\* nor goes before its TTL.
THEOREM QueueImplementsService == QueueSpec => QueueServes
<1>1. QueueInit => Service!ServiceInit
  BY QueueInitially, PhaseOfJob DEF QueueInit, Service!ServiceInit
<1>2. QueueSpec => []QueueInv
  BY QueueAlways
<1>3. QueueInv => QueueTypeOK
  BY DEF QueueInv
<1>4. QueueInv /\ QueueInv' /\ [QueueNext]_queueVars
         => [Service!ServiceNext]_(Service!serviceVars)
  BY QueueStepRefines
<1>5. QueueSpec => Service!ServiceSpec
  BY <1>1, <1>2, <1>4, PTL DEF QueueSpec, Service!ServiceSpec
<1> DEFINE Keeps == \A j \in Jobs : results[j] \in Finished /\ age[j] < ResultTTL
                       => results'[j] = results[j]
<1>6. QueueInv /\ [QueueNext]_queueVars => [Keeps]_queueVars
  BY ResultStays
<1>7. QueueSpec => [][Keeps]_queueVars
  BY <1>2, <1>6, PTL DEF QueueSpec
<1> QED
  BY <1>2, <1>3, <1>5, <1>7, PTL DEF QueueServes, ImplementsJobService, ResultKept

-----------------------------------------------------------------------------
(* The start.                                                              *)

BootPcs == Attempting \cup {"config", "embedprobe", "sleep", "done", "rehydrate",
                            "serving", "failed", "dead"}

Migrating == {"check", "apply", "backfill", "record"}

BootTypeOK ==
    /\ boot \in [Nodes -> [at : BootPcs, file : 1 .. LastFile + 1, backoff : Nat,
                           waited : 0 .. StartupWait, stage : {"shared", "gateway"},
                           phase : {"starting", "warming", "warm"}]]
    /\ applied \in SUBSET (1 .. LastFile)
    /\ ran \in [1 .. LastFile -> Nat]
    /\ flag \in {"unset", "true", "false"}

\* runMigrations holds the advisory lock from its first look to its last record.
HoldsLock == \A n \in Nodes : boot[n].at \in Migrating => mlock = n

\* What the holder of the lock found is still so when it acts on it.
FoundStillSo ==
    \A n \in Nodes :
        /\ boot[n].at \in {"apply", "backfill", "record"} =>
              boot[n].file \in 1 .. LastFile
        /\ boot[n].at = "apply" => ~Skips(boot[n].file)
        /\ boot[n].at \in {"backfill", "record"} => ~InTransaction(boot[n].file)
        /\ boot[n].at \in {"backfill", "record"} /\ boot[n].file = Pgvector
              => flag # "unset"
        /\ boot[n].at \in Migrating /\ boot[n].file > Pgvector => Pgvector \in applied

\* pgvector_backfill_pending: set with 003, cleared when nothing is left.
FlagTrue ==
    /\ Pgvector \in applied => flag # "unset"
    /\ flag = "false" => unconverted = {}

\* The strengthening that makes StartupSound inductive.
StartupInv ==
    BootTypeOK /\ HoldsLock /\ FoundStillSo /\ FlagTrue /\ MigratedOnce /\ VectorsConverted

LEMMA MinOfTwo ==
    ASSUME NEW a \in Nat, NEW b \in Nat
    PROVE  Min({a, b}) = IF a =< b THEN a ELSE b
<1>1. \E x \in {a, b} : \A y \in {a, b} : x =< y
  OBVIOUS
<1>2. Min({a, b}) \in {a, b} /\ \A y \in {a, b} : Min({a, b}) =< y
  BY <1>1 DEF Min
<1> QED
  BY <1>2

LEMMA StartupInvSuffices == StartupInv => StartupSound
BY StartupAssumption DEF StartupInv, StartupSound, WaitBounded, BootTypeOK

LEMMA StartupInitially == StartupInit => StartupInv
BY StartupAssumption
DEF StartupInit, StartupInv, BootTypeOK, HoldsLock, FoundStillSo, FlagTrue, MigratedOnce,
    VectorsConverted, Fresh0, BootPcs, Migrating, Attempting, LastFile, Dropped, Finalize

\* A server that changes only its own record, and is not migrating afterwards,
\* may release the lock and lose an index.
LEMMA LeavesPreserves ==
    ASSUME StartupInv, NEW n \in Nodes, NEW r, boot' = [boot EXCEPT ![n] = r],
           r \in [at : BootPcs, file : 1 .. LastFile + 1, backoff : Nat,
                  waited : 0 .. StartupWait, stage : {"shared", "gateway"},
                  phase : {"starting", "warming", "warm"}],
           r.at \notin Migrating,
           mlock' = mlock \/ Releases(n),
           UNCHANGED <<applied, ran, flag, malformed, unconverted>>
    PROVE  StartupInv'
<1> USE StartupAssumption DEF StartupInv
<1>1. boot'[n] = r /\ \A m \in Nodes \ {n} : boot'[m] = boot[m]
  BY DEF BootTypeOK
<1>2. BootTypeOK'
  BY DEF BootTypeOK
<1>3. \A m \in Nodes \ {n} : mlock = m => mlock' = m
  BY DEF Releases
<1>4. HoldsLock'
  BY <1>1, <1>3 DEF HoldsLock
<1>5. FoundStillSo'
  BY <1>1 DEF FoundStillSo, Skips, Migrating
<1> QED
  BY <1>2, <1>4, <1>5 DEF FlagTrue, MigratedOnce, VectorsConverted, Dropped

\* The steps outside runMigrations, and those that end it by failing or dying.
LEMMA QuietStepPreserves ==
    ASSUME StartupInv, NEW n \in Nodes,
           \/ CheckConfig(n) \/ EmbedProbe(n) \/ LockTimesOut(n) \/ PermanentError(n)
           \/ Connect(n) \/ SharedPoolOpen(n) \/ Serve(n) \/ Prewarm(n) \/ Dies(n)
           \/ StartAgain(n)
    PROVE  StartupInv'
<1> DEFINE Records == [at : BootPcs, file : 1 .. LastFile + 1, backoff : Nat,
                       waited : 0 .. StartupWait, stage : {"shared", "gateway"},
                       phase : {"starting", "warming", "warm"}]
<1>1. boot \in [Nodes -> Records] /\ boot[n] \in Records
  BY DEF StartupInv, BootTypeOK
<1>2. StartupWait \in Nat /\ StartupWait \in 0 .. StartupWait /\ 0 \in 0 .. StartupWait
  BY StartupAssumption
<1>3. ASSUME NEW spot \in BootPcs \ Migrating, Goes(n, spot),
             mlock' = mlock \/ Releases(n),
             UNCHANGED <<applied, ran, flag, malformed, unconverted>>
      PROVE  StartupInv'
  <2> DEFINE r == [boot[n] EXCEPT !.at = spot]
  <2>1. boot' = [boot EXCEPT ![n] = r]
    BY <1>3 DEF Goes
  <2>2. r \in Records /\ r.at = spot
    BY <1>1
  <2> HIDE DEF r
  <2> QED
    BY <2>1, <2>2, <1>3, LeavesPreserves
<1>4. {"embedprobe", "failed", "connect", "lock", "rehydrate", "dead", "serving"}
        \subseteq BootPcs \ Migrating
  BY DEF BootPcs, Migrating, Attempting
<1>5. CASE CheckConfig(n) \/ EmbedProbe(n) \/ PermanentError(n) \/ Connect(n)
  BY <1>3, <1>4, <1>5 DEF CheckConfig, EmbedProbe, PermanentError, Connect, schema
<1>6. CASE Dies(n)
  BY <1>3, <1>4, <1>6 DEF Dies
<1>7. CASE LockTimesOut(n)
  <2> DEFINE r == [boot[n] EXCEPT !.waited = StartupWait, !.at = "failed"]
  <2>1. boot' = [boot EXCEPT ![n] = r]
    BY <1>7 DEF LockTimesOut
  <2>2. r \in Records /\ r.at = "failed" /\ r.at \notin Migrating
    BY <1>1, <1>2, <1>4
  <2> HIDE DEF r
  <2> QED
    BY <2>1, <2>2, <1>4, <1>7, LeavesPreserves DEF LockTimesOut, schema
<1>8. CASE SharedPoolOpen(n)
  <2> DEFINE spot == IF GatewayEnabled THEN "connect" ELSE "rehydrate"
             r == [boot[n] EXCEPT !.at = spot, !.stage = "gateway", !.waited = 0, !.backoff = 1]
  <2>1. boot' = [boot EXCEPT ![n] = r]
    BY <1>8 DEF SharedPoolOpen
  <2>2. spot \in BootPcs \ Migrating
    BY <1>4
  <2> HIDE DEF spot
  <2>3. r \in Records /\ r.at = spot
    BY <1>1, <1>2, <2>2
  <2> HIDE DEF r
  <2> QED
    BY <2>1, <2>2, <2>3, <1>8, LeavesPreserves DEF SharedPoolOpen, schema
<1>9. CASE Serve(n)
  <2> DEFINE r == [boot[n] EXCEPT !.at = "serving", !.phase = "warming"]
  <2>1. boot' = [boot EXCEPT ![n] = r]
    BY <1>9 DEF Serve
  <2>2. r \in Records /\ r.at = "serving" /\ r.at \notin Migrating
    BY <1>1, <1>4
  <2> HIDE DEF r
  <2> QED
    BY <2>1, <2>2, <1>4, <1>9, LeavesPreserves DEF Serve, schema
<1>10. CASE Prewarm(n)
  <2> DEFINE r == [boot[n] EXCEPT !.phase = "warm"]
  <2>1. boot' = [boot EXCEPT ![n] = r]
    BY <1>10 DEF Prewarm
  <2>2. r \in Records /\ r.at = "serving" /\ r.at \notin Migrating
    BY <1>1, <1>4, <1>10 DEF Prewarm, BootAt
  <2> HIDE DEF r
  <2> QED
    BY <2>1, <2>2, <1>4, <1>10, LeavesPreserves DEF Prewarm, schema
<1>11. CASE StartAgain(n)
  <2>1. Fresh0 \in Records /\ Fresh0.at = "config"
    BY <1>2 DEF Fresh0, BootPcs, LastFile
  <2>2. "config" \notin Migrating
    BY DEF Migrating
  <2> QED
    BY <2>1, <2>2, <1>11, LeavesPreserves DEF StartAgain, schema
<1> QED
  BY <1>5, <1>6, <1>7, <1>8, <1>9, <1>10, <1>11

\* The steps of the wait: an attempt that fails, a pause.
LEMMA WaitPreserves ==
    ASSUME StartupInv, NEW n \in Nodes, AttemptFails(n) \/ RetrySleep(n)
    PROVE  StartupInv'
<1> DEFINE Records == [at : BootPcs, file : 1 .. LastFile + 1, backoff : Nat,
                       waited : 0 .. StartupWait, stage : {"shared", "gateway"},
                       phase : {"starting", "warming", "warm"}]
<1>1. boot \in [Nodes -> Records] /\ boot[n] \in Records
  BY DEF StartupInv, BootTypeOK
<1>2. StartupWait \in Nat /\ MaxBackoff \in Nat /\ Left(n) \in Nat
  BY <1>1, StartupAssumption DEF Left
<1>3. {"failed", "sleep", "connect"} \subseteq BootPcs \ Migrating
  BY DEF BootPcs, Migrating, Attempting
<1>4. \A d \in 0 .. Left(n) : boot[n].waited + d \in 0 .. StartupWait
  BY <1>1, <1>2 DEF Left
<1>5. CASE AttemptFails(n)
  <2>1. PICK d \in 0 .. Left(n) :
           boot' = [boot EXCEPT ![n].waited = @ + d,
                                ![n].at = IF d = Left(n) THEN "failed" ELSE "sleep"]
    BY <1>5 DEF AttemptFails, AttemptEnds
  <2> DEFINE spot == IF d = Left(n) THEN "failed" ELSE "sleep"
             time == boot[n].waited + d
             r == [boot[n] EXCEPT !.waited = time, !.at = spot]
  <2>2. boot' = [boot EXCEPT ![n] = r]
    BY <2>1
  <2>3. spot \in BootPcs \ Migrating /\ time \in 0 .. StartupWait
    BY <1>3, <1>4
  <2> HIDE DEF spot, time
  <2>4. r \in Records /\ r.at = spot
    BY <1>1, <2>3
  <2> HIDE DEF r
  <2> QED
    BY <2>2, <2>3, <2>4, <1>5, LeavesPreserves DEF AttemptFails
<1>6. CASE RetrySleep(n)
  <2> DEFINE pause == Min({boot[n].backoff, Left(n)})
             spot == IF pause = Left(n) THEN "failed" ELSE "connect"
             time == boot[n].waited + pause
             next == Min({2 * boot[n].backoff, MaxBackoff})
             r == [boot[n] EXCEPT !.waited = time, !.backoff = next, !.at = spot]
  <2>1. boot' = [boot EXCEPT ![n] = r]
    BY <1>6 DEF RetrySleep
  <2>2. boot[n].backoff \in Nat /\ 2 * boot[n].backoff \in Nat
    BY <1>1
  <2>3. pause \in 0 .. Left(n)
    BY <1>2, <2>2, MinOfTwo
  <2>4. next \in Nat
    BY <1>2, <2>2, MinOfTwo
  <2> HIDE DEF pause, next
  <2>5. spot \in BootPcs \ Migrating /\ time \in 0 .. StartupWait
    BY <1>3, <1>4, <2>3
  <2> HIDE DEF spot, time
  <2>6. r \in Records /\ r.at = spot
    BY <1>1, <2>4, <2>5
  <2> HIDE DEF r
  <2> QED
    BY <2>1, <2>5, <2>6, <1>6, LeavesPreserves DEF RetrySleep, schema
<1> QED
  BY <1>5, <1>6

\* The holder of the lock is the only server that migrates; what it may have
\* found cannot be overtaken.
LEMMA OnlyHolderMigrates ==
    ASSUME StartupInv, NEW n \in Nodes, boot[n].at \in Migrating \/ mlock = NoNode
    PROVE  \A m \in Nodes \ {n} : boot[m].at \notin Migrating
BY StartupAssumption DEF StartupInv, HoldsLock

\* A step of runMigrations: the other servers are outside of it, so only what
\* is said about n and about the schema has to be shown again.
LEMMA MigrationPreserves ==
    ASSUME StartupInv, NEW n \in Nodes, NEW r, boot' = [boot EXCEPT ![n] = r],
           boot[n].at \in Migrating \/ mlock = NoNode,
           r \in [at : BootPcs, file : 1 .. LastFile + 1, backoff : Nat,
                  waited : 0 .. StartupWait, stage : {"shared", "gateway"},
                  phase : {"starting", "warming", "warm"}],
           r.at \in Migrating => mlock' = n,
           r.at \in {"apply", "backfill", "record"} => r.file \in 1 .. LastFile,
           r.at = "apply" => r.file \notin applied' /\ ~(r.file = Finalize /\ flag' = "true"),
           r.at \in {"backfill", "record"} => ~InTransaction(r.file),
           r.at \in {"backfill", "record"} /\ r.file = Pgvector => flag' # "unset",
           r.at \in Migrating /\ r.file > Pgvector => Pgvector \in applied',
           applied' \in SUBSET (1 .. LastFile), ran' \in [1 .. LastFile -> Nat],
           flag' \in {"unset", "true", "false"},
           FlagTrue', MigratedOnce', VectorsConverted'
    PROVE  StartupInv'
<1>1. boot'[n] = r /\ \A m \in Nodes \ {n} : boot'[m] = boot[m]
  BY DEF StartupInv, BootTypeOK
<1>2. \A m \in Nodes \ {n} : boot'[m].at \notin Migrating
  BY <1>1, OnlyHolderMigrates
<1>3. BootTypeOK'
  BY DEF StartupInv, BootTypeOK
<1>4. HoldsLock'
  BY <1>1, <1>2 DEF HoldsLock
<1>5. FoundStillSo'
  <2>1. \A m \in Nodes \ {n} : boot'[m].at \notin {"apply", "backfill", "record"}
    BY <1>2 DEF Migrating
  <2>2. ASSUME NEW m \in Nodes
        PROVE  /\ boot'[m].at \in {"apply", "backfill", "record"} =>
                     boot'[m].file \in 1 .. LastFile
               /\ boot'[m].at = "apply" =>
                     /\ boot'[m].file \notin applied'
                     /\ ~(boot'[m].file = Finalize /\ flag' = "true")
               /\ boot'[m].at \in {"backfill", "record"} => ~InTransaction(boot'[m].file)
               /\ boot'[m].at \in {"backfill", "record"} /\ boot'[m].file = Pgvector
                     => flag' # "unset"
               /\ boot'[m].at \in Migrating /\ boot'[m].file > Pgvector
                     => Pgvector \in applied'
    <3>1. CASE m = n
      BY <3>1, <1>1
    <3>2. CASE m # n
      BY <3>2, <1>2, <2>1
    <3> QED
      BY <3>1, <3>2
  <2> QED
    BY <2>2 DEF FoundStillSo, Skips
<1> QED
  BY <1>3, <1>4, <1>5 DEF StartupInv

LEMMA MigrationStepPreserves ==
    ASSUME StartupInv, NEW n \in Nodes,
           \/ TakeLock(n) \/ CheckMigration(n) \/ ApplyInTx(n) \/ ApplyOutsideTx(n)
           \/ BackfillVectors(n) \/ RecordMigration(n)
    PROVE  StartupInv'
<1> DEFINE Records == [at : BootPcs, file : 1 .. LastFile + 1, backoff : Nat,
                       waited : 0 .. StartupWait, stage : {"shared", "gateway"},
                       phase : {"starting", "warming", "warm"}]
<1>1. boot \in [Nodes -> Records] /\ boot[n] \in Records
  BY DEF StartupInv, BootTypeOK
<1>2. /\ applied \in SUBSET (1 .. LastFile) /\ ran \in [1 .. LastFile -> Nat]
      /\ flag \in {"unset", "true", "false"}
  BY DEF StartupInv, BootTypeOK
<1>3. Migrating \subseteq BootPcs
  BY DEF Migrating, BootPcs, Attempting
<1>4. FlagTrue /\ MigratedOnce /\ VectorsConverted
  BY DEF StartupInv
<1>5. /\ boot[n].at \in {"apply", "backfill", "record"} => boot[n].file \in 1 .. LastFile
      /\ boot[n].at = "apply" => ~Skips(boot[n].file)
      /\ boot[n].at \in {"backfill", "record"} => ~InTransaction(boot[n].file)
      /\ boot[n].at \in {"backfill", "record"} /\ boot[n].file = Pgvector => flag # "unset"
      /\ boot[n].at \in Migrating /\ boot[n].file > Pgvector => Pgvector \in applied
      /\ boot[n].at \in Migrating => mlock = n
  BY DEF StartupInv, FoundStillSo, HoldsLock
<1>6. {"check", "apply", "backfill", "record"} \subseteq Migrating
  BY DEF Migrating
<1>7. CASE TakeLock(n)
  <2> DEFINE r == [boot[n] EXCEPT !.at = "check", !.file = 1]
  <2>1. boot' = [boot EXCEPT ![n] = r]
    BY <1>7 DEF TakeLock
  <2>2. 1 \in 1 .. LastFile + 1
    BY DEF LastFile
  <2>3. r \in Records /\ r.at = "check" /\ r.file = 1
    BY <1>1, <1>3, <1>6, <2>2
  <2> HIDE DEF r
  <2>4. FlagTrue' /\ MigratedOnce' /\ VectorsConverted'
    BY <1>4, <1>7 DEF TakeLock, schema, FlagTrue, MigratedOnce, VectorsConverted, Dropped
  <2>5. UNCHANGED <<applied, ran, flag>> /\ mlock = NoNode /\ mlock' = n
    BY <1>7 DEF TakeLock, schema
  <2>6. ~(r.file > Pgvector) /\ r.at \notin {"apply", "backfill", "record"}
    BY <2>3 DEF Pgvector
  <2>7. r.at = "check" /\ r.at # "apply"
    BY <2>3
  <2> QED
    BY <2>1, <2>3, <2>4, <2>5, <2>6, <2>7, <1>2, MigrationPreserves
<1>8. CASE CheckMigration(n)
  <2> DEFINE f == boot[n].file
  <2>1. boot[n].at = "check" /\ UNCHANGED <<applied, ran, flag, malformed, unconverted>>
    BY <1>8 DEF CheckMigration, BootAt, schema
  <2>2. FlagTrue' /\ MigratedOnce' /\ VectorsConverted'
    BY <1>4, <2>1 DEF FlagTrue, MigratedOnce, VectorsConverted, Dropped
  <2>3. f \in 1 .. LastFile + 1 /\ mlock = n
    BY <1>1, <1>5, <1>6, <2>1
  <2>4. CASE Goes(n, "done") /\ Releases(n)
    <3> DEFINE r == [boot[n] EXCEPT !.at = "done"]
    <3>1. boot' = [boot EXCEPT ![n] = r]
      BY <2>4 DEF Goes
    <3>2. r \in Records /\ r.at \notin Migrating
      BY <1>1 DEF BootPcs, Migrating
    <3> HIDE DEF r
    <3> QED
      BY <3>1, <3>2, <2>1, <2>4, LeavesPreserves
  <2>5. CASE /\ f =< LastFile /\ Skips(f)
             /\ boot' = [boot EXCEPT ![n].file = f + 1] /\ UNCHANGED mlock
    <3> DEFINE r == [boot[n] EXCEPT !.file = f + 1]
    <3>1. boot' = [boot EXCEPT ![n] = r]
      BY <2>5
    <3>2. f + 1 \in 1 .. LastFile + 1
      BY <2>3, <2>5 DEF LastFile
    <3>3. r \in Records /\ r.at = "check" /\ r.file = f + 1
      BY <1>1, <2>1, <3>2
    <3> HIDE DEF r
    <3>4. f + 1 > Pgvector => Pgvector \in applied
      <4>1. CASE f > Pgvector
        BY <4>1, <1>5, <1>6, <2>1
      <4>2. CASE f = Pgvector
        BY <4>2, <2>5 DEF Skips, Finalize, Pgvector
      <4> QED
        BY <4>1, <4>2, <2>3 DEF Pgvector
    <3>5. /\ r.at \in Migrating /\ r.file > Pgvector => Pgvector \in applied'
          /\ r.at \in Migrating => mlock' = n
      BY <2>1, <2>3, <2>5, <3>3, <3>4
    <3> QED
      BY <3>1, <3>3, <3>5, <2>1, <2>2, <1>2, <1>6, MigrationPreserves
  <2>6. CASE f =< LastFile /\ ~Skips(f) /\ Goes(n, "apply") /\ UNCHANGED mlock
    <3> DEFINE r == [boot[n] EXCEPT !.at = "apply"]
    <3>1. boot' = [boot EXCEPT ![n] = r]
      BY <2>6 DEF Goes
    <3>2. r \in Records /\ r.at = "apply" /\ r.file = f
      BY <1>1, <1>3, <1>6
    <3> HIDE DEF r
    <3>3. /\ r.file \in 1 .. LastFile
          /\ r.file \notin applied' /\ ~(r.file = Finalize /\ flag' = "true")
          /\ r.file > Pgvector => Pgvector \in applied'
          /\ mlock' = n
      BY <2>1, <2>3, <2>6, <3>2, <1>5, <1>6 DEF Skips, LastFile
    <3> QED
      BY <3>1, <3>2, <3>3, <2>1, <2>2, <1>2, <1>6, MigrationPreserves
  <2> QED
    BY <2>4, <2>5, <2>6, <1>8 DEF CheckMigration
<1>9. CASE ApplyInTx(n)
  <2> DEFINE f == boot[n].file
             r == [boot[n] EXCEPT !.at = "check", !.file = f + 1]
  <2>1. boot' = [boot EXCEPT ![n] = r]
    BY <1>9 DEF ApplyInTx
  <2>2. /\ boot[n].at = "apply" /\ InTransaction(f)
        /\ ran' = [ran EXCEPT ![f] = @ + 1] /\ applied' = applied \cup {f}
        /\ UNCHANGED <<mlock, flag, unconverted>>
    BY <1>9 DEF ApplyInTx, BootAt
  <2>3. f \in 1 .. LastFile /\ ~Skips(f) /\ mlock = n
    BY <2>2, <1>5, <1>6
  <2>4. f + 1 \in 1 .. LastFile + 1
    BY <2>3 DEF LastFile
  <2>5. r \in Records /\ r.at = "check" /\ r.file = f + 1
    BY <1>1, <1>3, <1>6, <2>4
  <2>6. applied' \in SUBSET (1 .. LastFile) /\ ran' \in [1 .. LastFile -> Nat]
    <3> HIDE DEF f, r
    <3>1. applied' \in SUBSET (1 .. LastFile)
      BY <1>2, <2>2, <2>3
    <3>2. ran' \in [1 .. LastFile -> Nat]
      BY <1>2, <2>2, <2>3
    <3> QED
      BY <3>1, <3>2
  <2>7. f # Pgvector /\ (f > Pgvector => Pgvector \in applied)
    BY <2>2, <1>5, <1>6 DEF InTransaction
  <2>8. FlagTrue'
    BY <1>4, <2>2, <2>7 DEF FlagTrue
  <2>9. MigratedOnce'
    <3>1. \A g \in 1 .. LastFile \ {f} :
              ran'[g] = ran[g] /\ (g \in applied' <=> g \in applied)
      BY <1>2, <2>2
    <3>2. f \notin applied /\ ran[f] = 0
      BY <1>4, <2>2, <2>3 DEF Skips, MigratedOnce
    <3>3. ran'[f] = 1 /\ f \in applied'
      BY <1>2, <2>2, <2>3, <3>2
    <3> QED
      BY <1>4, <3>1, <3>3 DEF MigratedOnce
  <2>10. VectorsConverted'
    <3>1. CASE f = Finalize
      <4>1. Pgvector \in applied /\ flag # "true"
        BY <2>3, <2>7, <3>1 DEF Skips, Finalize, Pgvector
      <4> QED
        BY <4>1, <1>2, <1>4, <2>2 DEF FlagTrue, VectorsConverted
    <3>2. CASE f # Finalize
      <4>1. ran'[Finalize] = ran[Finalize]
        BY <3>2, <2>2, <1>2
      <4> QED
        BY <4>1, <1>4, <2>2 DEF VectorsConverted, Dropped
    <3> QED
      BY <3>1, <3>2
  <2>11. r.file > Pgvector => Pgvector \in applied'
    BY <2>2, <2>3, <2>5, <2>7 DEF Pgvector, LastFile
  <2> HIDE DEF r, f
  <2> QED
    BY <2>1, <2>2, <2>3, <2>5, <2>6, <2>8, <2>9, <2>10, <2>11, <1>2, <1>6, MigrationPreserves
<1>10. CASE ApplyOutsideTx(n)
  <2> DEFINE f == boot[n].file
             spot == IF f = Pgvector THEN "backfill" ELSE "record"
             r == [boot[n] EXCEPT !.at = spot]
  <2>1. boot' = [boot EXCEPT ![n] = r]
    BY <1>10 DEF ApplyOutsideTx, Goes
  <2>2. /\ boot[n].at = "apply" /\ ~InTransaction(f)
        /\ ran' = [ran EXCEPT ![f] = @ + 1]
        /\ flag' = IF f = Pgvector /\ flag = "unset" THEN "true" ELSE flag
        /\ UNCHANGED <<mlock, applied, unconverted>>
    BY <1>10 DEF ApplyOutsideTx, BootAt
  <2>3. f \in 1 .. LastFile /\ mlock = n /\ (f > Pgvector => Pgvector \in applied)
    BY <2>2, <1>5, <1>6
  <2>4. spot \in {"backfill", "record"}
    OBVIOUS
  <2> HIDE DEF spot
  <2>5. r \in Records /\ r.at = spot /\ r.file = f
    BY <1>1, <1>3, <1>6, <2>4
  <2>6. /\ ran' \in [1 .. LastFile -> Nat] /\ flag' \in {"unset", "true", "false"}
        /\ f = Pgvector => flag' # "unset"
    BY <1>2, <2>2, <2>3
  <2>7. FlagTrue'
    BY <1>4, <2>2 DEF FlagTrue
  <2>8. \A g \in 1 .. LastFile : InTransaction(g) => ran'[g] = ran[g]
    BY <1>2, <2>2
  <2>9. MigratedOnce'
    BY <1>4, <2>2, <2>8 DEF MigratedOnce
  <2>10. InTransaction(Finalize) /\ Finalize \in 1 .. LastFile
    BY DEF InTransaction, Finalize, LastFile, Pgvector, CoveringIdx
  <2>11. VectorsConverted'
    BY <1>4, <2>2, <2>8, <2>10 DEF VectorsConverted, Dropped
  <2> HIDE DEF r, f
  <2> QED
    BY <2>1, <2>2, <2>3, <2>4, <2>5, <2>6, <2>7, <2>9, <2>11, <1>2, <1>6, MigrationPreserves
<1>11. CASE BackfillVectors(n)
  <2> DEFINE f == boot[n].file
             r == [boot[n] EXCEPT !.at = "record"]
  <2>1. boot' = [boot EXCEPT ![n] = r]
    BY <1>11 DEF BackfillVectors, Goes
  <2>2. /\ boot[n].at = "backfill"
        /\ unconverted' = unconverted \cap malformed
        /\ flag' = IF unconverted' = {} THEN "false" ELSE flag
        /\ UNCHANGED <<mlock, applied, ran>>
    BY <1>11 DEF BackfillVectors, BootAt
  <2>3. /\ f \in 1 .. LastFile /\ mlock = n /\ (f > Pgvector => Pgvector \in applied)
        /\ ~InTransaction(f) /\ (f = Pgvector => flag # "unset")
    BY <2>2, <1>5, <1>6
  <2>4. r \in Records /\ r.at = "record" /\ r.file = f
    BY <1>1, <1>3, <1>6
  <2>5. /\ flag' \in {"unset", "true", "false"}
        /\ f = Pgvector => flag' # "unset"
    BY <1>2, <2>2, <2>3
  <2>6. FlagTrue'
    BY <1>4, <2>2 DEF FlagTrue
  <2>7. MigratedOnce' /\ VectorsConverted'
    BY <1>4, <2>2 DEF MigratedOnce, VectorsConverted, Dropped
  <2> HIDE DEF r, f
  <2> QED
    BY <2>1, <2>2, <2>3, <2>4, <2>5, <2>6, <2>7, <1>2, <1>6, MigrationPreserves
<1>12. CASE RecordMigration(n)
  <2> DEFINE f == boot[n].file
             r == [boot[n] EXCEPT !.at = "check", !.file = f + 1]
  <2>1. boot' = [boot EXCEPT ![n] = r]
    BY <1>12 DEF RecordMigration
  <2>2. /\ boot[n].at = "record" /\ applied' = applied \cup {f}
        /\ UNCHANGED <<mlock, ran, flag, unconverted>>
    BY <1>12 DEF RecordMigration, BootAt
  <2>3. /\ f \in 1 .. LastFile /\ mlock = n /\ (f > Pgvector => Pgvector \in applied)
        /\ ~InTransaction(f) /\ (f = Pgvector => flag # "unset")
    BY <2>2, <1>5, <1>6
  <2>4. f + 1 \in 1 .. LastFile + 1
    BY <2>3 DEF LastFile
  <2>5. r \in Records /\ r.at = "check" /\ r.file = f + 1
    BY <1>1, <1>3, <1>6, <2>4
  <2>6. applied' \in SUBSET (1 .. LastFile)
    BY <1>2, <2>2, <2>3
  <2>7. FlagTrue'
    BY <1>4, <2>2, <2>3 DEF FlagTrue
  <2>8. MigratedOnce' /\ VectorsConverted'
    BY <1>4, <2>2, <2>3 DEF MigratedOnce, VectorsConverted, Dropped
  <2>9. r.file > Pgvector => Pgvector \in applied'
    BY <2>2, <2>3, <2>5 DEF Pgvector, LastFile
  <2> HIDE DEF r, f
  <2> QED
    BY <2>1, <2>2, <2>3, <2>5, <2>6, <2>7, <2>8, <2>9, <1>2, <1>6, MigrationPreserves
<1> QED
  BY <1>7, <1>8, <1>9, <1>10, <1>11, <1>12

\* However many servers start, race for the lock, die and start again, every
\* file that runs in a transaction takes effect once, the old column is dropped
\* only when nothing in it waits for its conversion, and no dependency is waited
\* for beyond the window (runMigrations and the startup retry).
THEOREM MigrationsSound == StartupSpec => []StartupSound
<1>1. StartupInv /\ [StartupNext]_startupVars => StartupInv'
  <2> SUFFICES ASSUME StartupInv, [StartupNext]_startupVars
               PROVE  StartupInv'
    OBVIOUS
  <2>1. CASE UNCHANGED startupVars
    BY <2>1
    DEF startupVars, StartupInv, BootTypeOK, HoldsLock, FoundStillSo, FlagTrue, MigratedOnce,
        VectorsConverted, Dropped, Skips
  <2>2. ASSUME NEW n \in Nodes, StartupStep(n) \/ Dies(n)
        PROVE  StartupInv'
    BY <2>2, QuietStepPreserves, WaitPreserves, MigrationStepPreserves DEF StartupStep
  <2> QED
    BY <2>1, <2>2 DEF StartupNext
<1> QED
  BY <1>1, StartupInitially, StartupInvSuffices, PTL DEF StartupSpec

-----------------------------------------------------------------------------
(* Uploads.                                                                *)

Byte == Nat \X Nat

\* a was sent before b: in an earlier part, or earlier in the same one.
SentBefore(a, b) == a[1] < b[1] \/ (a[1] = b[1] /\ a[2] < b[2])

\* What a session holds that has acknowledged the parts before next, in order.
\* Whole is not inductive: the parts have to end where the next one begins, and
\* that no byte occurs twice follows from their order.
Stream(s, next) ==
    /\ s \in Seq(Byte)
    /\ s = <<>> => next = 0
    /\ s # <<>> => s[1] = <<0, 1>> /\ s[Len(s)][1] + 1 = next
    /\ \A i \in 1 .. Len(s) : s[i][1] < next
    /\ \A i, j \in 1 .. Len(s) : i < j => SentBefore(s[i], s[j])
    /\ \A i \in 1 .. Len(s) - 1 :
         s[i + 1] \in {<<s[i][1], s[i][2] + 1>>, <<s[i][1] + 1, 1>>}

LEMMA PrefixPointwise ==
    ASSUME NEW S, NEW s \in Seq(S), NEW t \in Seq(S)
    PROVE  IsPrefix(s, t) <=> /\ Len(s) =< Len(t)
                              /\ \A i \in 1 .. Len(s) : s[i] = t[i]
<1>1. SubSeq(s, 1, Len(s)) = s
  OBVIOUS
<1>2. ASSUME Len(s) =< Len(t)
      PROVE  /\ SubSeq(t, 1, Len(s)) \in Seq(S)
             /\ Len(SubSeq(t, 1, Len(s))) = Len(s)
             /\ \A i \in 1 .. Len(s) : SubSeq(t, 1, Len(s))[i] = t[i]
  BY <1>2
<1>3. ASSUME Len(s) =< Len(t), \A i \in 1 .. Len(s) : s[i] = t[i]
      PROVE  s = SubSeq(t, 1, Len(s))
  BY <1>2, <1>3
<1> QED
  BY <1>1, <1>2, <1>3 DEF IsPrefix

LEMMA PrefixGrows ==
    ASSUME NEW S, NEW s \in Seq(S), NEW t \in Seq(S), NEW x \in Seq(S), IsPrefix(s, t)
    PROVE  IsPrefix(s, t \o x)
<1>1. t \o x \in Seq(S) /\ Len(t \o x) = Len(t) + Len(x)
  OBVIOUS
<1>2. \A i \in 1 .. Len(t) : (t \o x)[i] = t[i]
  OBVIOUS
<1>3. Len(s) =< Len(t) /\ \A i \in 1 .. Len(s) : s[i] = t[i]
  BY PrefixPointwise
<1>4. Len(s) =< Len(t \o x) /\ \A i \in 1 .. Len(s) : s[i] = (t \o x)[i]
  BY <1>1, <1>2, <1>3
<1> QED
  BY <1>1, <1>4, PrefixPointwise

LEMMA PrefixOfItself ==
    ASSUME NEW S, NEW s \in Seq(S)
    PROVE  IsPrefix(s, s)
BY PrefixPointwise

LEMMA StreamWhole ==
    ASSUME NEW s, NEW n \in Nat, Stream(s, n), s # <<>>
    PROVE  Whole(s)
<1>1. DOMAIN s = 1 .. Len(s) /\ \A i \in 1 .. Len(s) : s[i] \in Byte
  BY DEF Stream
<1>2. ASSUME NEW i \in 1 .. Len(s), NEW j \in 1 .. Len(s), s[i] = s[j]
      PROVE  i = j
  <2>1. s[i] \in Byte /\ s[j] \in Byte /\ s[i] = s[j]
    BY <1>1, <1>2
  <2>2. ~SentBefore(s[i], s[j]) /\ ~SentBefore(s[j], s[i])
    BY <2>1 DEF SentBefore, Byte
  <2>3. ~(i < j) /\ ~(j < i)
    BY <2>2 DEF Stream
  <2>4. i \in Int /\ j \in Int
    OBVIOUS
  <2> QED
    BY <2>3, <2>4
<1>3. IsInjective(s)
  BY <1>1, <1>2 DEF IsInjective
<1> QED
  BY <1>3 DEF Stream, Whole

LEMMA StreamGrows ==
    ASSUME NEW s, NEW n \in Nat, Stream(s, n), NEW size \in 1 .. 2
    PROVE  Stream(s \o Bytes(n, size), n + 1)
<1> DEFINE b == Bytes(n, size)
           t == s \o b
<1>1. /\ b \in Seq(Byte) /\ Len(b) = size /\ size \in Nat /\ size >= 1
      /\ \A i \in 1 .. size : b[i] = <<n, i>>
  BY DEF Bytes, Byte
<1>2. s \in Seq(Byte) /\ \A i \in 1 .. Len(s) : s[i] \in Byte
  BY DEF Stream
<1> HIDE DEF b
<1>3. /\ t \in Seq(Byte) /\ Len(t) = Len(s) + size
      /\ \A i \in 1 .. Len(s) : t[i] = s[i]
      /\ \A i \in Len(s) + 1 .. Len(s) + size : t[i] = b[i - Len(s)]
  BY <1>1, <1>2
<1>4. \A i \in Len(s) + 1 .. Len(s) + size :
         t[i] = <<n, i - Len(s)>> /\ i - Len(s) \in 1 .. size
  BY <1>1, <1>2, <1>3
<1> HIDE DEF t
<1>5. t # <<>>
  BY <1>1, <1>2, <1>3
<1>6. t[1] = <<0, 1>>
  <2>1. CASE s = <<>>
    <3>1. Len(s) = 0 /\ n = 0
      BY <2>1 DEF Stream
    <3> QED
      BY <3>1, <1>1, <1>4
  <2>2. CASE s # <<>>
    <3>1. Len(s) >= 1 /\ s[1] = <<0, 1>>
      BY <2>2, <1>2 DEF Stream
    <3> QED
      BY <3>1, <1>2, <1>3
  <2> QED
    BY <2>1, <2>2
<1>7. t[Len(t)][1] + 1 = n + 1
  BY <1>1, <1>2, <1>3, <1>4
<1>8. \A i \in 1 .. Len(t) : i \in 1 .. Len(s) \/ i \in Len(s) + 1 .. Len(s) + size
  BY <1>1, <1>2, <1>3
<1>9. ASSUME NEW i \in 1 .. Len(t)
      PROVE  t[i][1] < n + 1
  <2>1. CASE i \in 1 .. Len(s)
    <3>1. t[i] = s[i] /\ s[i] \in Byte /\ s[i][1] < n
      BY <2>1, <1>2, <1>3 DEF Stream
    <3> QED
      BY <3>1 DEF Byte
  <2>2. CASE i \in Len(s) + 1 .. Len(s) + size
    BY <2>2, <1>4
  <2> QED
    BY <2>1, <2>2, <1>8
<1>10. ASSUME NEW i \in 1 .. Len(t), NEW j \in 1 .. Len(t), i < j
       PROVE  SentBefore(t[i], t[j])
  <2>1. CASE j \in 1 .. Len(s)
    <3>1. i \in 1 .. Len(s)
      BY <2>1, <1>10, <1>2
    <3> QED
      BY <2>1, <3>1, <1>3, <1>10 DEF Stream
  <2>2. CASE j \in Len(s) + 1 .. Len(s) + size /\ i \in 1 .. Len(s)
    <3>1. t[i] = s[i] /\ s[i][1] < n
      BY <2>2, <1>3 DEF Stream
    <3>2. t[j][1] = n
      BY <2>2, <1>4
    <3> QED
      BY <3>1, <3>2 DEF SentBefore
  <2>3. CASE j \in Len(s) + 1 .. Len(s) + size /\ i \in Len(s) + 1 .. Len(s) + size
    <3>1. t[i] = <<n, i - Len(s)>> /\ t[j] = <<n, j - Len(s)>>
      BY <2>3, <1>4
    <3>2. i - Len(s) < j - Len(s)
      BY <1>2, <1>10
    <3> QED
      BY <3>1, <3>2 DEF SentBefore
  <2> QED
    BY <2>1, <2>2, <2>3, <1>8
<1>11. ASSUME NEW i \in 1 .. Len(t) - 1
       PROVE  t[i + 1] \in {<<t[i][1], t[i][2] + 1>>, <<t[i][1] + 1, 1>>}
  <2>1. CASE i + 1 \in 1 .. Len(s)
    <3>1. i \in 1 .. Len(s) - 1
      BY <2>1, <1>11, <1>2
    <3>2. i \in 1 .. Len(s) /\ t[i] = s[i] /\ t[i + 1] = s[i + 1]
      BY <2>1, <3>1, <1>3, <1>2
    <3>3. s[i + 1] \in {<<s[i][1], s[i][2] + 1>>, <<s[i][1] + 1, 1>>}
      BY <3>1 DEF Stream
    <3> QED
      BY <3>2, <3>3
  <2>2. CASE i = Len(s)
    <3>1. s # <<>> /\ Len(s) \in 1 .. Len(s)
      BY <2>2, <1>2, <1>11
    <3>2. t[i] = s[Len(s)] /\ s[Len(s)][1] + 1 = n
      BY <2>2, <3>1, <1>3 DEF Stream
    <3>3. t[i + 1] = <<n, 1>>
      <4>1. i + 1 \in Len(s) + 1 .. Len(s) + size /\ (i + 1) - Len(s) = 1
        BY <2>2, <1>1, <1>2
      <4> QED
        BY <4>1, <1>4
    <3> QED
      BY <3>2, <3>3
  <2>3. CASE i \in Len(s) + 1 .. Len(s) + size
    <3>1. i + 1 \in Len(s) + 1 .. Len(s) + size /\ (i + 1) - Len(s) = (i - Len(s)) + 1
      BY <2>3, <1>11, <1>2, <1>3
    <3>2. t[i] = <<n, i - Len(s)>> /\ t[i + 1] = <<n, (i - Len(s)) + 1>>
      BY <2>3, <3>1, <1>4
    <3> QED
      BY <3>2
  <2>4. i \in Nat /\ Len(s) \in Nat /\ i \in 1 .. Len(s) + size /\ i + 1 \in 1 .. Len(s) + size
    BY <1>11, <1>1, <1>2, <1>3
  <2> QED
    BY <2>1, <2>2, <2>3, <2>4, <1>1
<1>12. Stream(t, n + 1)
  BY <1>3, <1>5, <1>6, <1>7, <1>9, <1>10, <1>11 DEF Stream
<1> QED
  BY <1>12 DEF t, b

ObjTypeOK ==
    /\ obj \in [Objects -> [buf : Seq(Byte), next : Nat, idle : BOOLEAN, aborted : BOOLEAN]]
    /\ accepted \in [Objects -> Seq(Byte)]

RegistryTypeOK ==
    /\ started \in 0 .. MaxObjects
    /\ registry \in [UploadIds -> 0 .. MaxObjects]
    /\ DOMAIN ucall = Uploaders

\* A session no append has aborted holds what was acknowledged, part by part.
BufferTrue ==
    \A o \in Objects : ~obj[o].aborted =>
        obj[o].buf = accepted[o] /\ Stream(obj[o].buf, obj[o].next)

AppendTrue(c) == c.at = "append" => c.obj \in Objects /\ c.id \in UploadIds /\ c.size \in 1 .. 2

FinishTrue(c) ==
    c.at = "finish" =>
        /\ c.obj \in Objects /\ c.id \in UploadIds /\ c.sent \in Seq(Byte)
        /\ IsPrefix(c.sent, accepted[c.obj])

Bodies == [at : {"drop", "enqueue"}, id : UploadIds, body : Seq(Byte), obj : Objects,
           sent : Seq(Byte)]

BodyTrue(c) ==
    c.at \in {"drop", "enqueue"} /\ c.body # NoBody =>
        /\ c \in Bodies
        /\ ~obj[c.obj].aborted =>
              Whole(c.body) /\ IsPrefix(c.sent, c.body) /\ IsPrefix(c.body, accepted[c.obj])

CallsTrue == \A u \in Uploaders : AppendTrue(ucall[u]) /\ FinishTrue(ucall[u]) /\ BodyTrue(ucall[u])

\* The strengthening that makes UploadWhole inductive: what a call carries is a
\* prefix of what its session acknowledged, and the session's buffer is all of it.
UploadsInv == ObjTypeOK /\ RegistryTypeOK /\ BufferTrue /\ CallsTrue

LEMMA UploadsInvSuffices == UploadsInv => UploadWhole
BY DEF UploadsInv, CallsTrue, BodyTrue, UploadWhole, Taken, NoBody

LEMMA UploadsInitially == UploadsInit => UploadsInv
<1> SUFFICES ASSUME UploadsInit PROVE UploadsInv
  OBVIOUS
<1>1. <<>> \in Seq(Byte)
  OBVIOUS
<1>2. ObjTypeOK
  BY <1>1 DEF UploadsInit, ObjTypeOK, NoBody
<1>3. RegistryTypeOK
  BY UploadsAssumption DEF UploadsInit, RegistryTypeOK
<1>4. Stream(<<>>, 0)
  BY <1>1 DEF Stream
<1>5. BufferTrue
  BY <1>4 DEF UploadsInit, BufferTrue, NoBody
<1>6. CallsTrue
  BY DEF UploadsInit, CallsTrue, AppendTrue, FinishTrue, BodyTrue
<1> QED
  BY <1>2, <1>3, <1>5, <1>6 DEF UploadsInv

\* The registry after expired sessions have been dropped.
LEMMA EvictedTyped ==
    ASSUME RegistryTypeOK
    PROVE  /\ EvictExpired(registry) \in [UploadIds -> 0 .. MaxObjects]
           /\ \A id \in UploadIds : EvictExpired(registry)[id] # 0 =>
                 EvictExpired(registry)[id] \in Objects
BY UploadsAssumption DEF RegistryTypeOK, EvictExpired, Objects

\* A step that leaves the sessions alone and changes one call, to c.
LEMMA CallChanges ==
    ASSUME UploadsInv, NEW u \in Uploaders, NEW c, ucall' = [ucall EXCEPT ![u] = c],
           AppendTrue(c), FinishTrue(c), BodyTrue(c), RegistryTypeOK',
           UNCHANGED <<obj, accepted>>
    PROVE  UploadsInv'
<1>1. ObjTypeOK' /\ BufferTrue'
  BY DEF UploadsInv, ObjTypeOK, BufferTrue
<1>2. ucall'[u] = c /\ \A v \in Uploaders \ {u} : ucall'[v] = ucall[v]
  BY DEF UploadsInv, RegistryTypeOK
<1>3. ASSUME NEW v \in Uploaders
      PROVE  (AppendTrue(ucall[v]) /\ FinishTrue(ucall[v]) /\ BodyTrue(ucall[v]))'
  <2>1. CASE v = u
    BY <2>1, <1>2 DEF AppendTrue, FinishTrue, BodyTrue
  <2>2. CASE v # u
    BY <2>2, <1>2 DEF UploadsInv, CallsTrue, AppendTrue, FinishTrue, BodyTrue
  <2> QED
    BY <2>1, <2>2
<1>4. CallsTrue'
  BY <1>3 DEF CallsTrue
<1> QED
  BY <1>1, <1>4 DEF UploadsInv

\* A step that changes neither calls nor sessions.
LEMMA RegistryChanges ==
    ASSUME UploadsInv, RegistryTypeOK', UNCHANGED <<obj, accepted, ucall>>
    PROVE  UploadsInv'
BY DEF UploadsInv, ObjTypeOK, BufferTrue, CallsTrue, AppendTrue, FinishTrue, BodyTrue

LEMMA IdleTrue ==
    ASSUME NEW c, c = [at |-> "idle"]
    PROVE  AppendTrue(c) /\ FinishTrue(c) /\ BodyTrue(c)
BY DEF AppendTrue, FinishTrue, BodyTrue

\* A step on the session o that keeps or extends what it acknowledged, and may
\* abort it; u is the call that makes it and is done with it, or drops the id.
LEMMA SessionChanges ==
    ASSUME UploadsInv, NEW u \in Uploaders, NEW c, ucall' = [ucall EXCEPT ![u] = c],
           AppendTrue(c), c.at # "finish",
           ~(c.at \in {"drop", "enqueue"} /\ c.body # NoBody),
           NEW o \in Objects, NEW r, NEW x \in Seq(Byte),
           obj' = [obj EXCEPT ![o] = r],
           accepted' = [accepted EXCEPT ![o] = @ \o x],
           r \in [buf : Seq(Byte), next : Nat, idle : BOOLEAN, aborted : BOOLEAN],
           obj[o].aborted => r.aborted,
           ~r.aborted => r.buf = accepted[o] \o x /\ Stream(r.buf, r.next),
           UNCHANGED <<registry, started>>
    PROVE  UploadsInv'
<1> USE DEF UploadsInv
<1>1. /\ ucall'[u] = c /\ \A v \in Uploaders \ {u} : ucall'[v] = ucall[v]
      /\ DOMAIN ucall' = Uploaders
  BY DEF RegistryTypeOK
<1>2. RegistryTypeOK'
  BY <1>1 DEF RegistryTypeOK
<1>3. /\ obj'[o] = r /\ \A p \in Objects \ {o} : obj'[p] = obj[p]
      /\ accepted'[o] = accepted[o] \o x
      /\ \A p \in Objects \ {o} : accepted'[p] = accepted[p]
      /\ accepted[o] \in Seq(Byte) /\ accepted[o] \o x \in Seq(Byte)
  BY DEF ObjTypeOK
<1>4. ObjTypeOK'
  <2>1. obj' \in [Objects -> [buf : Seq(Byte), next : Nat, idle : BOOLEAN, aborted : BOOLEAN]]
    BY DEF ObjTypeOK
  <2>2. accepted' \in [Objects -> Seq(Byte)]
    BY <1>3 DEF ObjTypeOK
  <2> QED
    BY <2>1, <2>2 DEF ObjTypeOK
<1>5. BufferTrue'
  BY <1>3 DEF BufferTrue
<1>6. \A p \in Objects : obj[p].aborted => obj'[p].aborted
  BY <1>3
<1>7. ASSUME NEW p \in Objects, NEW s \in Seq(Byte), IsPrefix(s, accepted[p])
      PROVE  IsPrefix(s, accepted'[p])
  <2>1. CASE p = o
    BY <2>1, <1>3, <1>7, PrefixGrows
  <2>2. CASE p # o
    BY <2>2, <1>3, <1>7
  <2> QED
    BY <2>1, <2>2
<1>8. ASSUME NEW v \in Uploaders
      PROVE  (AppendTrue(ucall[v]) /\ FinishTrue(ucall[v]) /\ BodyTrue(ucall[v]))'
  <2>1. CASE v = u
    BY <2>1, <1>1 DEF AppendTrue, FinishTrue, BodyTrue
  <2>2. CASE v # u
    <3>1. ucall'[v] = ucall[v]
      BY <2>2, <1>1
    <3>2. AppendTrue(ucall[v])'
      BY <3>1 DEF CallsTrue, AppendTrue
    <3>3. FinishTrue(ucall[v])'
      BY <3>1, <1>7 DEF CallsTrue, FinishTrue
    <3>4. BodyTrue(ucall[v])'
      BY <3>1, <1>6, <1>7 DEF CallsTrue, BodyTrue, Bodies
    <3> QED
      BY <3>2, <3>3, <3>4
  <2> QED
    BY <2>1, <2>2
<1>9. CallsTrue'
  BY <1>8 DEF CallsTrue
<1> QED
  BY <1>2, <1>4, <1>5, <1>9

LEMMA StartUploadPreserves ==
    ASSUME UploadsInv, NEW u \in Uploaders, NEW id \in UploadIds, StartUpload(u, id)
    PROVE  UploadsInv'
<1> DEFINE unexpired == EvictExpired(registry)
<1>1. unexpired \in [UploadIds -> 0 .. MaxObjects]
  BY EvictedTyped DEF UploadsInv
<1>2. \/ registry' = unexpired /\ started' = started
      \/ registry' = [unexpired EXCEPT ![id] = started + 1] /\ started' = started + 1
  BY DEF StartUpload
<1>3. started < MaxObjects /\ UNCHANGED <<obj, ucall, accepted>>
  BY DEF StartUpload
<1> HIDE DEF unexpired
<1>4. started + 1 \in 0 .. MaxObjects
  BY <1>3, UploadsAssumption DEF UploadsInv, RegistryTypeOK
<1>5. RegistryTypeOK'
  BY <1>1, <1>2, <1>3, <1>4 DEF UploadsInv, RegistryTypeOK
<1> QED
  BY <1>3, <1>5, RegistryChanges

\* What a call has found is true of it when it was true of every session.
LEMMA LookupPreserves ==
    ASSUME UploadsInv, NEW u \in Uploaders, NEW id \in UploadIds, NEW found,
           LookupUpload(u, id, found),
           \A o \in Objects :
              AppendTrue(found[o]) /\ FinishTrue(found[o]) /\ BodyTrue(found[o]),
           UNCHANGED <<obj, started, accepted>>
    PROVE  UploadsInv'
<1> DEFINE unexpired == EvictExpired(registry)
<1>1. /\ unexpired \in [UploadIds -> 0 .. MaxObjects]
      /\ unexpired[id] # 0 => unexpired[id] \in Objects
  BY EvictedTyped DEF UploadsInv
<1>2. registry' = unexpired
  BY DEF LookupUpload
<1>3. ucall' = ucall \/ (unexpired[id] # 0 /\ ucall' = [ucall EXCEPT ![u] = found[unexpired[id]]])
  BY DEF LookupUpload
<1> HIDE DEF unexpired
<1>4. RegistryTypeOK'
  BY <1>1, <1>2, <1>3 DEF UploadsInv, RegistryTypeOK
<1>5. CASE ucall' = ucall
  BY <1>4, <1>5, RegistryChanges
<1>6. CASE unexpired[id] # 0 /\ ucall' = [ucall EXCEPT ![u] = found[unexpired[id]]]
  <2> DEFINE c == found[unexpired[id]]
  <2>1. AppendTrue(c) /\ FinishTrue(c) /\ BodyTrue(c)
    BY <1>1, <1>6
  <2>2. ucall' = [ucall EXCEPT ![u] = c]
    BY <1>6
  <2> HIDE DEF c
  <2> QED
    BY <1>4, <2>1, <2>2, CallChanges
<1> QED
  BY <1>3, <1>5, <1>6

LEMMA BeginPreserves ==
    ASSUME UploadsInv, NEW u \in Uploaders, NEW id \in UploadIds,
           BeginFinish(u, id) \/ \E piece \in 0 .. MaxPart, size \in 1 .. 2 :
                                    BeginAppend(u, id, piece, size)
    PROVE  UploadsInv'
<1>1. CASE BeginFinish(u, id)
  <2> DEFINE found == [o \in Objects |->
                 [at |-> "finish", id |-> id, obj |-> o, sent |-> accepted[o]]]
  <2>1. LookupUpload(u, id, found) /\ UNCHANGED <<obj, started, accepted>>
    BY <1>1 DEF BeginFinish
  <2>2. ASSUME NEW o \in Objects
        PROVE  AppendTrue(found[o]) /\ FinishTrue(found[o]) /\ BodyTrue(found[o])
    <3>1. accepted[o] \in Seq(Byte)
      BY DEF UploadsInv, ObjTypeOK
    <3>2. IsPrefix(accepted[o], accepted[o])
      BY <3>1, PrefixOfItself
    <3> QED
      BY <3>1, <3>2 DEF AppendTrue, FinishTrue, BodyTrue
  <2> HIDE DEF found
  <2> QED
    BY <2>1, <2>2, LookupPreserves
<1>2. ASSUME NEW piece \in 0 .. MaxPart, NEW size \in 1 .. 2, BeginAppend(u, id, piece, size)
      PROVE  UploadsInv'
  <2> DEFINE found == [o \in Objects |->
                 [at |-> "append", id |-> id, obj |-> o, part |-> piece, size |-> size]]
  <2>1. LookupUpload(u, id, found) /\ UNCHANGED <<obj, started, accepted>>
    BY <1>2 DEF BeginAppend
  <2>2. ASSUME NEW o \in Objects
        PROVE  AppendTrue(found[o]) /\ FinishTrue(found[o]) /\ BodyTrue(found[o])
    BY DEF AppendTrue, FinishTrue, BodyTrue
  <2> HIDE DEF found
  <2> QED
    BY <2>1, <2>2, LookupPreserves
<1> QED
  BY <1>1, <1>2

LEMMA AppendPreserves ==
    ASSUME UploadsInv, NEW u \in Uploaders, AcceptPart(u) \/ RefusePart(u) \/ OverflowPart(u)
    PROVE  UploadsInv'
<1>1. PICK o \in Objects : o = ucall[u].obj
  BY DEF UploadsInv, CallsTrue, AppendTrue, AcceptPart, RefusePart, OverflowPart
<1>2. PICK size \in 1 .. 2 : size = ucall[u].size
  BY DEF UploadsInv, CallsTrue, AppendTrue, AcceptPart, RefusePart, OverflowPart
<1>3. PICK q : q = obj[o]
  OBVIOUS
<1>4. /\ q \in [buf : Seq(Byte), next : Nat, idle : BOOLEAN, aborted : BOOLEAN]
      /\ accepted[o] \in Seq(Byte)
      /\ ~q.aborted => q.buf = accepted[o] /\ Stream(q.buf, q.next)
  BY <1>1, <1>3 DEF UploadsInv, ObjTypeOK, BufferTrue
<1>5. CASE AcceptPart(u)
  <2>1. PICK x : x = Bytes(q.next, size)
    OBVIOUS
  <2>2. x \in Seq(Byte)
    BY <1>4, <2>1 DEF Bytes, Byte
  <2>3. PICK r : r = [q EXCEPT !.buf = q.buf \o x, !.next = q.next + 1, !.idle = FALSE]
    OBVIOUS
  <2>4. obj' = [obj EXCEPT ![o] = r] /\ accepted' = [accepted EXCEPT ![o] = @ \o x]
    BY <1>1, <1>2, <1>3, <1>5, <2>1, <2>3 DEF AcceptPart
  <2>5. r \in [buf : Seq(Byte), next : Nat, idle : BOOLEAN, aborted : BOOLEAN]
    <3>1. q.buf \o x \in Seq(Byte) /\ q.next + 1 \in Nat /\ FALSE \in BOOLEAN
      BY <1>4, <2>2
    <3>2. PICK b \in Seq(Byte), n \in Nat, i \in BOOLEAN :
             b = q.buf \o x /\ n = q.next + 1 /\ i = FALSE
      BY <3>1
    <3>3. r = [q EXCEPT !.buf = b, !.next = n, !.idle = i]
      BY <2>3, <3>2
    <3> QED
      BY <1>4, <3>3
  <2>6. r.aborted = q.aborted /\ r.buf = q.buf \o x /\ r.next = q.next + 1
    BY <1>4, <2>3
  <2>7. ~r.aborted => r.buf = accepted[o] \o x /\ Stream(r.buf, r.next)
    BY <1>4, <2>1, <2>6, StreamGrows
  <2>8. PICK c : c = [at |-> "idle"] /\ ucall' = [ucall EXCEPT ![u] = c]
    BY <1>5 DEF AcceptPart
  <2>9. AppendTrue(c) /\ c.at = "idle"
    BY <2>8, IdleTrue
  <2>10. UNCHANGED <<registry, started>>
    BY <1>5 DEF AcceptPart
  <2> QED
    BY <1>3, <2>2, <2>4, <2>5, <2>6, <2>7, <2>8, <2>9, <2>10, SessionChanges
<1>6. CASE RefusePart(u)
  <2>1. PICK c : c = [at |-> "idle"] /\ ucall' = [ucall EXCEPT ![u] = c]
    BY <1>6 DEF RefusePart
  <2>2. RegistryTypeOK' /\ UNCHANGED <<obj, accepted>>
    BY <1>6 DEF RefusePart, UploadsInv, RegistryTypeOK
  <2> QED
    BY <2>1, <2>2, IdleTrue, CallChanges
<1>7. CASE OverflowPart(u)
  <2>1. PICK r : r = [q EXCEPT !.buf = <<>>, !.aborted = TRUE]
    OBVIOUS
  <2>2. obj' = [obj EXCEPT ![o] = r]
    BY <1>1, <1>3, <1>7, <2>1 DEF OverflowPart, NoBody
  <2>3. r \in [buf : Seq(Byte), next : Nat, idle : BOOLEAN, aborted : BOOLEAN] /\ r.aborted
    <3>0. <<>> \in Seq(Byte) /\ TRUE \in BOOLEAN
      OBVIOUS
    <3>1. PICK b \in Seq(Byte), a \in BOOLEAN : b = <<>> /\ a = TRUE
      BY <3>0
    <3>2. r = [q EXCEPT !.buf = b, !.aborted = a]
      BY <2>1, <3>1
    <3>3. r \in [buf : Seq(Byte), next : Nat, idle : BOOLEAN, aborted : BOOLEAN]
      BY <1>4, <3>2
    <3>4. r.aborted
      BY <1>4, <2>1
    <3> QED
      BY <3>3, <3>4
  <2>4. accepted' = [accepted EXCEPT ![o] = @ \o <<>>]
    <3>1. accepted[o] \o <<>> = accepted[o]
      BY <1>4
    <3>2. [accepted EXCEPT ![o] = accepted[o]] = accepted
      BY DEF UploadsInv, ObjTypeOK
    <3> QED
      BY <3>1, <3>2, <1>7 DEF OverflowPart
  <2>5. PICK c : /\ c = [at |-> "drop", id |-> ucall[u].id, body |-> NoBody]
                 /\ ucall' = [ucall EXCEPT ![u] = c]
    BY <1>7 DEF OverflowPart
  <2>6. AppendTrue(c) /\ c.at = "drop" /\ c.body = NoBody
    BY <2>5 DEF AppendTrue
  <2>7. UNCHANGED <<registry, started>> /\ <<>> \in Seq(Byte)
    BY <1>7 DEF OverflowPart
  <2> QED
    BY <2>2, <2>3, <2>4, <2>5, <2>6, <2>7, SessionChanges
<1> QED
  BY <1>5, <1>6, <1>7

LEMMA TakeBodyPreserves ==
    ASSUME UploadsInv, NEW u \in Uploaders, TakeBody(u)
    PROVE  UploadsInv'
<1>1. PICK c : c = ucall[u]
  OBVIOUS
<1>2. /\ c.at = "finish" /\ c.obj \in Objects /\ c.id \in UploadIds /\ c.sent \in Seq(Byte)
      /\ IsPrefix(c.sent, accepted[c.obj])
  BY <1>1 DEF TakeBody, UploadsInv, CallsTrue, FinishTrue
<1>3. RegistryTypeOK' /\ UNCHANGED <<obj, accepted>>
  BY DEF TakeBody, UploadsInv, RegistryTypeOK
<1>4. CASE obj[c.obj].buf = NoBody
  <2>1. PICK d : d = [at |-> "idle"] /\ ucall' = [ucall EXCEPT ![u] = d]
    BY <1>1, <1>4 DEF TakeBody
  <2> QED
    BY <2>1, <1>3, IdleTrue, CallChanges
<1>5. CASE obj[c.obj].buf # NoBody
  <2>1. PICK b : b = obj[c.obj].buf
    OBVIOUS
  <2>2. PICK d : /\ d = [at |-> "drop", id |-> c.id, body |-> b, obj |-> c.obj,
                         sent |-> c.sent]
                 /\ ucall' = [ucall EXCEPT ![u] = d]
    BY <1>1, <1>5, <2>1 DEF TakeBody
  <2>3. b \in Seq(Byte) /\ b # <<>> /\ obj[c.obj].next \in Nat
    BY <1>2, <1>5, <2>1 DEF UploadsInv, ObjTypeOK, NoBody
  <2>4. d \in Bodies
    BY <1>2, <2>2, <2>3 DEF Bodies
  <2>5. ASSUME ~obj[c.obj].aborted
        PROVE  Whole(b) /\ IsPrefix(c.sent, b) /\ IsPrefix(b, accepted[c.obj])
    <3>1. b = accepted[c.obj] /\ Stream(b, obj[c.obj].next)
      BY <1>2, <2>1, <2>5 DEF UploadsInv, BufferTrue
    <3>2. Whole(b)
      BY <2>3, <3>1, StreamWhole
    <3> QED
      BY <1>2, <2>3, <3>1, <3>2, PrefixOfItself
  <2>6. d.at = "drop" /\ d.obj = c.obj /\ d.body = b /\ d.sent = c.sent
    BY <2>2
  <2>7. BodyTrue(d)
    BY <2>4, <2>5, <2>6 DEF BodyTrue
  <2>8. AppendTrue(d) /\ FinishTrue(d)
    BY <2>6 DEF AppendTrue, FinishTrue
  <2> QED
    BY <2>2, <2>7, <2>8, <1>3, CallChanges
<1> QED
  BY <1>4, <1>5

LEMMA DropAndEnqueuePreserve ==
    ASSUME UploadsInv, NEW u \in Uploaders, DropUpload(u) \/ EnqueueBody(u)
    PROVE  UploadsInv'
<1>1. CASE DropUpload(u)
  <2>1. PICK c : c = ucall[u]
    OBVIOUS
  <2>2. c.at = "drop" /\ BodyTrue(c) /\ UNCHANGED <<obj, accepted, started>>
    BY <1>1, <2>1 DEF DropUpload, UploadsInv, CallsTrue
  <2>3. registry' = [registry EXCEPT ![c.id] = 0]
    BY <1>1, <2>1 DEF DropUpload
  <2>4. PICK d : /\ d = IF c.body = NoBody THEN [at |-> "idle"] ELSE [c EXCEPT !.at = "enqueue"]
                 /\ ucall' = [ucall EXCEPT ![u] = d]
    BY <1>1, <2>1 DEF DropUpload
  <2>5. registry' \in [UploadIds -> 0 .. MaxObjects]
    <3>1. 0 \in 0 .. MaxObjects /\ registry \in [UploadIds -> 0 .. MaxObjects]
      BY UploadsAssumption DEF UploadsInv, RegistryTypeOK
    <3> QED
      BY <2>3, <3>1
  <2>6. RegistryTypeOK'
    BY <2>2, <2>4, <2>5 DEF UploadsInv, RegistryTypeOK
  <2>7. AppendTrue(d) /\ FinishTrue(d) /\ BodyTrue(d)
    <3>1. CASE c.body = NoBody
      BY <2>4, <3>1, IdleTrue
    <3>2. CASE c.body # NoBody
      <4>1. c \in Bodies
        BY <2>2, <3>2 DEF BodyTrue
      <4>2. /\ d \in Bodies /\ d.at = "enqueue" /\ d.body = c.body /\ d.obj = c.obj
            /\ d.sent = c.sent
        BY <2>4, <3>2, <4>1 DEF Bodies
      <4> QED
        BY <2>2, <3>2, <4>2 DEF AppendTrue, FinishTrue, BodyTrue
    <3> QED
      BY <3>1, <3>2
  <2> QED
    BY <2>2, <2>4, <2>6, <2>7, CallChanges
<1>2. CASE EnqueueBody(u)
  <2>1. PICK d : d = [at |-> "idle"] /\ ucall' = [ucall EXCEPT ![u] = d]
    BY <1>2 DEF EnqueueBody
  <2>2. RegistryTypeOK' /\ UNCHANGED <<obj, accepted>>
    BY <1>2, <2>1 DEF EnqueueBody, UploadsInv, RegistryTypeOK
  <2> QED
    BY <2>1, <2>2, IdleTrue, CallChanges
<1> QED
  BY <1>1, <1>2

LEMMA IdlesPreserves ==
    ASSUME UploadsInv, NEW o \in Objects, UploadIdles(o)
    PROVE  UploadsInv'
<1> USE DEF UploadsInv
<1>1. obj' = [obj EXCEPT ![o].idle = TRUE] /\ UNCHANGED <<registry, started, ucall, accepted>>
  BY DEF UploadIdles
<1>2. ObjTypeOK' /\ RegistryTypeOK'
  BY <1>1 DEF ObjTypeOK, RegistryTypeOK
<1>3. \A p \in Objects : /\ obj'[p].aborted = obj[p].aborted /\ obj'[p].buf = obj[p].buf
                         /\ obj'[p].next = obj[p].next
  BY <1>1 DEF ObjTypeOK
<1>4. BufferTrue'
  BY <1>1, <1>3 DEF BufferTrue
<1>5. CallsTrue'
  BY <1>1, <1>3 DEF CallsTrue, AppendTrue, FinishTrue, BodyTrue, Bodies
<1> QED
  BY <1>2, <1>4, <1>5

\* What a finish call of memory_ingest_document_stream ingests is whole,
\* whatever appends, evictions, retries and restarts of its id interleave.
THEOREM UploadsWhole == UploadsSpec => []UploadWhole
<1>1. UploadsInv /\ [UploadsNext]_upVars => UploadsInv'
  <2> SUFFICES ASSUME UploadsInv, [UploadsNext]_upVars
               PROVE  UploadsInv'
    OBVIOUS
  <2>1. CASE UNCHANGED upVars \/ TakeUpload
    <3>1. RegistryTypeOK' /\ UNCHANGED <<obj, accepted, ucall>>
      BY <2>1 DEF upVars, TakeUpload, UploadsInv, RegistryTypeOK
    <3> QED
      BY <3>1, RegistryChanges
  <2>2. CASE SweepUploads
    <3>1. RegistryTypeOK' /\ UNCHANGED <<obj, accepted, ucall>>
      BY <2>2, EvictedTyped DEF SweepUploads, UploadsInv, RegistryTypeOK
    <3> QED
      BY <3>1, RegistryChanges
  <2>3. ASSUME NEW u \in Uploaders, NEW id \in UploadIds,
               \/ StartUpload(u, id) \/ BeginFinish(u, id)
               \/ \E piece \in 0 .. MaxPart, size \in 1 .. 2 : BeginAppend(u, id, piece, size)
        PROVE  UploadsInv'
    BY <2>3, StartUploadPreserves, BeginPreserves
  <2>4. ASSUME NEW u \in Uploaders,
               \/ AcceptPart(u) \/ RefusePart(u) \/ OverflowPart(u)
               \/ TakeBody(u) \/ DropUpload(u) \/ EnqueueBody(u)
        PROVE  UploadsInv'
    BY <2>4, AppendPreserves, TakeBodyPreserves, DropAndEnqueuePreserve
  <2>5. CASE \E o \in Objects : UploadIdles(o)
    BY <2>5, IdlesPreserves
  <2> QED
    BY <2>1, <2>2, <2>3, <2>4, <2>5 DEF UploadsNext
<1> QED
  BY <1>1, UploadsInitially, UploadsInvSuffices, PTL DEF UploadsSpec

-----------------------------------------------------------------------------
(* The limiters.                                                           *)

\* Of a limiter and a peer: the entry holds what a limiter without eviction
\* would, and has earned a token per unit it was idle; without an entry the
\* peer has all of them.
EntryTrue(k) ==
    /\ ledger[k] \in 0 .. Burst[k[1]]
    /\ bucket[k] = NoBucket => ledger[k] = Burst[k[1]]
    /\ bucket[k] # NoBucket =>
         /\ bucket[k] \in [tokens : Nat, idle : Nat]
         /\ bucket[k].tokens = ledger[k]
         /\ \/ ledger[k] = Burst[k[1]]
            \/ bucket[k].idle = 0
            \/ k[1] = "setup" /\ bucket[k].idle =< ledger[k]

\* The strengthening that makes EvictionInvisible inductive.
DoorInv ==
    /\ DOMAIN bucket = Keys /\ DOMAIN ledger = Keys
    /\ \A k \in Keys : EntryTrue(k)
    /\ grants \in {0, 1}
    /\ ~granted => grants = 0

LEMMA KeyFacts ==
    ASSUME NEW k \in Keys
    PROVE  /\ k[1] \in {"clients", "setup"}
           /\ Burst[k[1]] \in Nat \ {0} /\ Refill[k[1]] \in Nat \ {0}
           /\ Burst[k[1]] < SetupBurst + ClientBurst
           /\ k[1] = "clients" => Refill[k[1]] = Burst[k[1]]
           /\ k[1] = "setup" => Burst[k[1]] =< EvictAfter /\ Refill[k[1]] = 1
BY DoorAssumption DEF Keys, Limiters, Burst, Refill

LEMMA DoorInvSuffices == DoorInv => EvictionInvisible
BY DEF DoorInv, EvictionInvisible, EntryTrue, Tokens

LEMMA DoorInitially == DoorInit => DoorInv
<1> SUFFICES ASSUME DoorInit PROVE DoorInv
  OBVIOUS
<1>1. ASSUME NEW k \in Keys
      PROVE  EntryTrue(k)
  <2>1. ledger[k] = Burst[k[1]] /\ bucket[k] = NoBucket
    BY DEF DoorInit
  <2> QED
    BY <2>1, KeyFacts DEF EntryTrue
<1> QED
  BY <1>1 DEF DoorInit, DoorInv

LEMMA AllowPreserves ==
    ASSUME DoorInv, NEW k \in Keys, Allow(k), NEW j \in Keys
    PROVE  EntryTrue(j)' /\ DOMAIN bucket' = Keys /\ DOMAIN ledger' = Keys
<1>1. DOMAIN bucket' = Keys /\ DOMAIN ledger' = Keys
  BY DEF DoorInv, Allow
<1>2. CASE j # k
  BY <1>2 DEF DoorInv, Allow, EntryTrue
<1>3. CASE j = k
  <2>1. PICK t \in Nat : t = ledger[k] /\ t = Tokens(k) /\ t =< Burst[k[1]]
    BY KeyFacts DEF DoorInv, EntryTrue, Tokens
  <2>2. Spent(t) \in Nat /\ Spent(t) =< t
    BY <2>1 DEF Spent
  <2>3. bucket'[k] = [tokens |-> Spent(t), idle |-> 0] /\ ledger'[k] = Spent(t)
    BY <2>1 DEF DoorInv, Allow
  <2>4. Burst[k[1]] \in Nat
    BY KeyFacts
  <2>5. Spent(t) # SetupBurst + ClientBurst
    BY <2>1, <2>2, KeyFacts, DoorAssumption
  <2>6. bucket'[k] # NoBucket /\ bucket'[k] \in [tokens : Nat, idle : Nat]
        /\ bucket'[k].tokens = Spent(t) /\ bucket'[k].idle = 0
    BY <2>2, <2>3, <2>5 DEF NoBucket
  <2>7. ledger'[k] \in 0 .. Burst[k[1]]
    BY <2>1, <2>2, <2>3, <2>4
  <2>8. EntryTrue(k)'
    BY <2>3, <2>6, <2>7 DEF EntryTrue
  <2> QED
    BY <1>1, <1>3, <2>8 DEF EntryTrue
<1> QED
  BY <1>1, <1>2, <1>3

LEMMA TimePreserves ==
    ASSUME DoorInv, TimePasses, NEW k \in Keys
    PROVE  EntryTrue(k)'
<1> DEFINE b == Burst[k[1]]
           f == Refill[k[1]]
<1>1. b \in Nat \ {0} /\ f \in Nat \ {0} /\ b < SetupBurst + ClientBurst
      /\ (k[1] = "clients" => f = b) /\ (k[1] = "setup" => f = 1)
      /\ k[1] \in {"clients", "setup"}
  BY KeyFacts
<1> HIDE DEF b, f
<1>2. PICK l \in 0 .. b : l = ledger[k]
  BY DEF DoorInv, EntryTrue, b
<1>3. ledger'[k] = Min({l + f, b})
  BY <1>2 DEF TimePasses, b, f
<1>4. ledger'[k] \in 0 .. b /\ ledger'[k] = IF l + f =< b THEN l + f ELSE b
  BY <1>1, <1>2, <1>3, MinOfTwo
<1>5. CASE bucket[k] = NoBucket
  <2>1. bucket'[k] = NoBucket /\ l = b
    BY <1>2, <1>5 DEF TimePasses, DoorInv, EntryTrue, b
  <2>2. ledger'[k] = b
    BY <2>1, <1>1, <1>4
  <2> QED
    BY <2>1, <2>2, <1>4 DEF EntryTrue, b
<1>6. CASE bucket[k] # NoBucket
  <2>1. PICK i \in Nat : i = bucket[k].idle /\ bucket[k].tokens = l
    BY <1>2, <1>6 DEF DoorInv, EntryTrue
  <2>2. l = b \/ i = 0 \/ (k[1] = "setup" /\ i =< l)
    BY <1>2, <1>6, <2>1 DEF DoorInv, EntryTrue, b
  <2>3. bucket'[k] = [tokens |-> ledger'[k], idle |-> Min({i + 1, EvictAfter + 1})]
    BY <1>3, <1>6, <2>1 DEF TimePasses, b, f
  <2>4. PICK h \in Nat : h = Min({i + 1, EvictAfter + 1}) /\ h =< i + 1
    BY <2>1, DoorAssumption, MinOfTwo
  <2>5. /\ bucket'[k].tokens = ledger'[k] /\ bucket'[k].idle = h
        /\ bucket'[k] \in [tokens : Nat, idle : Nat]
    BY <1>1, <1>4, <2>3, <2>4
  <2>6. ledger'[k] = b \/ (k[1] = "setup" /\ h =< ledger'[k])
    BY <1>1, <1>2, <1>4, <2>1, <2>2, <2>4
  <2>7. ledger'[k] # SetupBurst + ClientBurst
    BY <1>1, <1>4, DoorAssumption
  <2>8. bucket'[k] # NoBucket
    BY <2>5, <2>7 DEF NoBucket
  <2> QED
    BY <1>4, <2>5, <2>6, <2>8 DEF EntryTrue, b
<1> QED
  BY <1>5, <1>6

LEMMA EvictPreserves ==
    ASSUME DoorInv, Evict, NEW k \in Keys
    PROVE  EntryTrue(k)'
<1>1. ledger' = ledger /\ ledger[k] \in 0 .. Burst[k[1]]
  BY DEF Evict, DoorInv, EntryTrue
<1>2. CASE bucket[k].idle > EvictAfter
  <2>1. bucket'[k] = NoBucket
    BY <1>2 DEF Evict
  <2>2. ledger[k] = Burst[k[1]]
    <3>1. CASE bucket[k] = NoBucket
      BY <3>1 DEF DoorInv, EntryTrue
    <3>2. CASE bucket[k] # NoBucket
      <4>1. \/ ledger[k] = Burst[k[1]]
            \/ bucket[k].idle = 0
            \/ k[1] = "setup" /\ bucket[k].idle =< ledger[k]
        BY <3>2 DEF DoorInv, EntryTrue
      <4>2. bucket[k].idle \in Nat
        BY <3>2 DEF DoorInv, EntryTrue
      <4> QED
        BY <4>1, <4>2, <1>1, <1>2, KeyFacts, DoorAssumption
    <3> QED
      BY <3>1, <3>2
  <2> QED
    BY <1>1, <2>1, <2>2 DEF EntryTrue
<1>3. CASE ~(bucket[k].idle > EvictAfter)
  <2>1. bucket'[k] = bucket[k]
    BY <1>3 DEF Evict
  <2> QED
    BY <1>1, <2>1 DEF DoorInv, EntryTrue
<1> QED
  BY <1>2, <1>3

\* Dropping idle rate-limit entries changes no decision of a limiter, and the
\* setup token is handed out without a bearer once.
THEOREM EvictionChangesNothing == DoorSpec => []EvictionInvisible
<1>1. DoorInv /\ [DoorNext]_doorVars => DoorInv'
  <2> SUFFICES ASSUME DoorInv, [DoorNext]_doorVars
               PROVE  DoorInv'
    OBVIOUS
  <2>1. CASE UNCHANGED limitVars
    BY <2>1 DEF limitVars, DoorInv, EntryTrue
  <2>2. CASE TimePasses
    <3>1. DOMAIN bucket' = Keys /\ DOMAIN ledger' = Keys /\ UNCHANGED <<granted, grants>>
      BY <2>2 DEF TimePasses
    <3> QED
      BY <2>2, <3>1, TimePreserves DEF DoorInv
  <2>3. CASE Evict
    <3>1. DOMAIN bucket' = Keys /\ DOMAIN ledger' = Keys /\ UNCHANGED <<granted, grants>>
      BY <2>3 DEF Evict, DoorInv
    <3> QED
      BY <2>3, <3>1, EvictPreserves DEF DoorInv
  <2>4. ASSUME NEW p \in Peers, Admit(p)
        PROVE  DoorInv'
    <3>1. <<"clients", p>> \in Keys /\ Allow(<<"clients", p>>) /\ UNCHANGED <<granted, grants>>
      BY <2>4 DEF Admit, Keys, Limiters
    <3>2. \A j \in Keys : EntryTrue(j)' /\ DOMAIN bucket' = Keys /\ DOMAIN ledger' = Keys
      BY <3>1, AllowPreserves
    <3> QED
      BY <3>1, <3>2 DEF DoorInv
  <2>5. ASSUME NEW p \in Peers, SetupToken(p)
        PROVE  DoorInv'
    <3>1. <<"setup", p>> \in Keys /\ Allow(<<"setup", p>>)
      BY <2>5 DEF SetupToken, Keys, Limiters
    <3>2. \A j \in Keys : EntryTrue(j)' /\ DOMAIN bucket' = Keys /\ DOMAIN ledger' = Keys
      BY <3>1, AllowPreserves
    <3> DEFINE first == Tokens(<<"setup", p>>) > 0 /\ p \in Local /\ ~granted
    <3>3. /\ granted' = (granted \/ first)
          /\ grants' = IF first THEN Min({grants + 1, MaxGrants}) ELSE grants
      BY <2>5 DEF SetupToken
    <3>4. grants' \in {0, 1} /\ (~granted' => grants' = 0)
      <4>1. CASE first
        <5>1. grants = 0 /\ granted'
          BY <4>1, <3>3 DEF DoorInv
        <5>2. grants' = Min({1, MaxGrants})
          BY <4>1, <3>3, <5>1
        <5>3. grants' \in {0, 1}
          BY <5>2, MinOfTwo, DoorAssumption
        <5> QED
          BY <5>1, <5>3
      <4>2. CASE ~first
        BY <4>2, <3>3 DEF DoorInv
      <4> QED
        BY <4>1, <4>2
    <3> QED
      BY <3>1, <3>2, <3>4 DEF DoorInv
  <2>6. CASE EmbedderFlips \/ TtlPasses
    BY <2>6, <2>1 DEF EmbedderFlips, TtlPasses
  <2>7. ASSUME NEW c \in Probers, ProberStep(c)
        PROVE  DoorInv'
    BY <2>7, <2>1 DEF ProberStep, HealthProbe, HealthLoad, HealthStore
  <2>8. ASSUME NEW c \in Readers, ReaderStep(c)
        PROVE  DoorInv'
    BY <2>8, <2>1 DEF ReaderStep, SnapshotProbe, SnapshotStore, SnapshotUsed
  <2>9. CASE UNCHANGED doorVars
    BY <2>9, <2>1 DEF doorVars
  <2> QED
    BY <2>2, <2>3, <2>4, <2>5, <2>6, <2>7, <2>8, <2>9 DEF DoorNext
<1> QED
  BY <1>1, DoorInitially, DoorInvSuffices, PTL DEF DoorSpec

-----------------------------------------------------------------------------
(* Documents.                                                              *)

Holds(job) == job.at \in {"parked", "rollback"}
Ingests(job) == job.at \in {"check", "store"}

\* The jobs between a parked body and its memory, and those of memory_ingest.
ParkedJobs == [at : {"parked", "rollback"}, body : DocBodies, doc : Nat \ {0}]
IngestJobs == [at : {"check", "store"}, left : Seq(Contents) \ {<<>>}, before : SUBSET Nat]

DocsTypeOK ==
    /\ DOMAIN docjob = DocWorkers
    /\ DOMAIN docs \subseteq Nat \ {0}
    /\ IsFiniteSet(DOMAIN docs)
    /\ \A w \in DocWorkers :
         /\ docjob[w].at = "raw" => docjob[w].body \in DocBodies
         /\ Holds(docjob[w]) => docjob[w] \in ParkedJobs
         /\ Ingests(docjob[w]) => docjob[w] \in IngestJobs

RowTrue(r) ==
    /\ r.doc = NoDoc => r.chunks = r.body
    /\ r.doc # NoDoc => r.doc \in DOMAIN docs /\ docs[r.doc] = r.body

\* A parked body is its job's own: no memory and no other job has it.
HeldTrue(job) ==
    Holds(job) =>
        /\ job.doc \in DOMAIN docs => docs[job.doc] = job.body
        /\ \A r \in rows : r.doc # job.doc

HeldApart ==
    \A v, w \in DocWorkers :
        v # w /\ Holds(docjob[v]) /\ Holds(docjob[w]) => docjob[v].doc # docjob[w].doc

Accounted(d) ==
    \/ \E r \in rows : r.doc = d
    \/ \E w \in DocWorkers : Holds(docjob[w]) /\ docjob[w].doc = d
    \/ d \in leaked

DocsInv ==
    /\ \A r \in rows : RowTrue(r)
    /\ \A w \in DocWorkers : HeldTrue(docjob[w])
    /\ HeldApart
    /\ \A d \in DOMAIN docs : Accounted(d)

Ids == {n.id : n \in notes}

NotesTypeOK ==
    /\ notes \in SUBSET [id : Nat, text : Contents, before : SUBSET Nat]
    /\ IsFiniteSet(notes)
    /\ \A m, n \in notes : m.id = n.id => m = n
    /\ \A n \in notes : n.before \subseteq Ids

\* What an ingestion remembers is still there, and what it is about to store
\* it did not find.
IngestTrue(job) ==
    /\ Ingests(job) => job.before \subseteq Ids
    /\ job.at = "store" =>
          \A m \in notes : m.text = Head(job.left) => m.id \notin job.before

NotesInv ==
    /\ NotesTypeOK
    /\ \A w \in DocWorkers : IngestTrue(docjob[w])
    /\ IngestOnce

\* The strengthening that makes DocumentsSound inductive.
DocumentsInv == DocsTypeOK /\ DocsInv /\ NotesInv

LEMMA FreshNumber ==
    ASSUME NEW S, IsFiniteSet(S), NEW n \in Nat, Cardinality(S) =< n
    PROVE  \E d \in 1 .. n + 1 : d \notin S
<1> SUFFICES ASSUME 1 .. n + 1 \subseteq S PROVE FALSE
  OBVIOUS
<1>1. Cardinality(1 .. n + 1) =< Cardinality(S)
  BY FS_Subset
<1>2. Cardinality(1 .. n + 1) = n + 1
  BY FS_Interval
<1>3. Cardinality(S) \in Nat
  BY FS_CardinalityType
<1> QED
  BY <1>1, <1>2, <1>3

\* The library's theorem on images has an operator as a parameter.
LEMMA ImageFinite ==
    ASSUME NEW S, IsFiniteSet(S), NEW T, NEW f \in [S -> T]
    PROVE  /\ IsFiniteSet({f[x] : x \in S})
           /\ Cardinality({f[x] : x \in S}) =< Cardinality(S)
<1>1. f \in Surjection(S, {f[x] : x \in S})
  BY DEF Surjection
<1> QED
  BY <1>1, FS_Surjection

LEMMA DocumentsInvSuffices == DocumentsInv => DocumentsSound
<1> SUFFICES ASSUME DocumentsInv PROVE DocumentsAccounted
  BY DEF DocumentsInv, NotesInv, DocumentsSound
<1>1. \A r \in rows : RowTrue(r)
  BY DEF DocumentsInv, DocsInv
<1>2. \A r \in rows, semantic \in BOOLEAN : r.doc # NoDoc => ResolveContent(r, semantic) = r.body
  BY <1>1 DEF RowTrue, ResolveContent
<1>3. \A r \in rows : ResolveContent(r, TRUE) = r.body
  BY <1>1 DEF RowTrue, ResolveContent
<1>4. \A d \in DOMAIN docs : Accounted(d)
  BY DEF DocumentsInv, DocsInv
<1> QED
  BY <1>2, <1>3, <1>4 DEF DocumentsAccounted, Accounted, Holds

LEMMA DocumentsInitially == DocumentsInit => DocumentsInv
<1> SUFFICES ASSUME DocumentsInit PROVE DocumentsInv
  OBVIOUS
<1>1. DOMAIN docs = {} /\ notes = {} /\ rows = {}
  BY DEF DocumentsInit, NoDocs
<1>2. DOMAIN docjob = DocWorkers /\ \A w \in DocWorkers : docjob[w].at = "idle"
  BY DEF DocumentsInit, NoJob
<1>3. IsFiniteSet({})
  BY FS_EmptySet
<1>4. DocsTypeOK
  BY <1>1, <1>2, <1>3 DEF DocsTypeOK, Holds, Ingests
<1>5. DocsInv
  BY <1>1, <1>2 DEF DocsInv, HeldTrue, HeldApart, Holds
<1>6. NotesInv
  BY <1>1, <1>2, <1>3 DEF NotesInv, NotesTypeOK, IngestTrue, Ingests, IngestOnce
<1> QED
  BY <1>4, <1>5, <1>6 DEF DocumentsInv

\* What one worker's step does to the jobs.
LEMMA MovesOne ==
    ASSUME DocsTypeOK, NEW w \in DocWorkers, NEW job, Moves(w, job)
    PROVE  /\ docjob'[w] = job
           /\ \A v \in DocWorkers \ {w} : docjob'[v] = docjob[v]
           /\ DOMAIN docjob' = DocWorkers
BY DEF DocsTypeOK, Moves

\* A worker that holds no parked body goes on to another job without one;
\* memories without a document may be added.
LEMMA JobWithoutDocument ==
    ASSUME DocsTypeOK, DocsInv, NEW w \in DocWorkers, NEW job, Moves(w, job),
           ~Holds(docjob[w]), ~Holds(job), job.at = "raw" => job.body \in DocBodies,
           Ingests(job) => job \in IngestJobs,
           UNCHANGED <<docs, leaked>>, rows \subseteq rows',
           \A r \in rows' \ rows : r.doc = NoDoc /\ r.chunks = r.body
    PROVE  DocsTypeOK' /\ DocsInv'
<1>1. /\ docjob'[w] = job /\ \A v \in DocWorkers \ {w} : docjob'[v] = docjob[v]
      /\ DOMAIN docjob' = DocWorkers
  BY MovesOne
<1>2. DocsTypeOK'
  BY <1>1 DEF DocsTypeOK, Holds, Ingests
<1>3. \A v \in DocWorkers : Holds(docjob'[v]) => v # w /\ docjob'[v] = docjob[v]
  BY <1>1
<1>4. \A r \in rows' : RowTrue(r)'
  BY DEF DocsInv, RowTrue
<1>5. ASSUME NEW v \in DocWorkers, Holds(docjob'[v])
      PROVE  /\ docjob'[v].doc \in DOMAIN docs' => docs'[docjob'[v].doc] = docjob'[v].body
             /\ \A r \in rows' : r.doc # docjob'[v].doc
  <2>1. docjob'[v] = docjob[v] /\ Holds(docjob[v])
    BY <1>3, <1>5
  <2>2. docjob[v].doc # NoDoc
    BY <2>1 DEF DocsTypeOK, ParkedJobs, NoDoc
  <2> QED
    BY <2>1, <2>2 DEF DocsInv, HeldTrue
<1>6. \A v \in DocWorkers : HeldTrue(docjob[v])'
  BY <1>5 DEF HeldTrue, Holds
<1>7. HeldApart'
  BY <1>3 DEF DocsInv, HeldApart, Holds
<1>8. ASSUME NEW d \in DOMAIN docs PROVE Accounted(d)'
  <2>1. Accounted(d)
    BY DEF DocsInv
  <2>2. ASSUME NEW v \in DocWorkers, Holds(docjob[v]), docjob[v].doc = d
        PROVE  Holds(docjob'[v]) /\ docjob'[v].doc = d
    BY <2>2, <1>1
  <2> QED
    BY <2>1, <2>2 DEF Accounted, Holds
<1> QED
  BY <1>2, <1>4, <1>6, <1>7, <1>8 DEF DocsInv

\* A step that changes no note and gives no ingestion anything to do.
LEMMA NotesUntouched ==
    ASSUME NotesInv, UNCHANGED notes,
           \A w \in DocWorkers : docjob'[w] = docjob[w] \/ ~Ingests(docjob'[w])
    PROVE  NotesInv'
<1>1. NotesTypeOK' /\ IngestOnce'
  BY DEF NotesInv, NotesTypeOK, IngestOnce, Ids
<1>2. \A w \in DocWorkers : IngestTrue(docjob[w])'
  BY DEF NotesInv, IngestTrue, Ingests, Ids
<1> QED
  BY <1>1, <1>2 DEF NotesInv

LEMMA NoJobQuiet == ~Holds(NoJob) /\ ~Ingests(NoJob) /\ NoJob.at # "raw"
BY DEF NoJob, Holds, Ingests

\* A worker that holds no parked body ends its job, having stored memories
\* without a document.
LEMMA JobEnds ==
    ASSUME DocumentsInv, NEW w \in DocWorkers, Moves(w, NoJob), ~Holds(docjob[w]),
           UNCHANGED <<docs, leaked, notes>>, rows \subseteq rows',
           \A r \in rows' \ rows : r.doc = NoDoc /\ r.chunks = r.body
    PROVE  DocumentsInv'
<1>1. DocsTypeOK' /\ DocsInv'
  BY JobWithoutDocument, NoJobQuiet DEF DocumentsInv
<1>2. NotesInv'
  BY NotesUntouched, NoJobQuiet, MovesOne DEF DocumentsInv
<1> QED
  BY <1>1, <1>2 DEF DocumentsInv

LEMMA TakeDocumentPreserves ==
    ASSUME DocumentsInv, NEW w \in DocWorkers, NEW body \in DocBodies, NEW format \in Formats,
           TakeDocument(w, body, format)
    PROVE  DocumentsInv'
<1>1. docjob[w].at = "idle" /\ UNCHANGED <<notes, docs, rows, leaked>>
  BY DEF TakeDocument
<1>2. ~Holds(docjob[w])
  BY <1>1 DEF Holds
<1>3. ASSUME NEW spot \in {"small", "synopsis", "raw", "reject", "fanout"},
             Moves(w, [at |-> spot, body |-> body])
      PROVE  DocumentsInv'
  <2>1. PICK job : job = [at |-> spot, body |-> body]
    OBVIOUS
  <2>2. ~Holds(job) /\ ~Ingests(job) /\ job.body = body
    BY <2>1 DEF Holds, Ingests
  <2>3. DocsTypeOK' /\ DocsInv'
    BY <1>1, <1>2, <1>3, <2>1, <2>2, JobWithoutDocument DEF DocumentsInv
  <2>4. NotesInv'
    BY <1>1, <1>3, <2>1, <2>2, NotesUntouched, MovesOne DEF DocumentsInv
  <2> QED
    BY <2>3, <2>4 DEF DocumentsInv
<1>4. TierOf(body) \in {"small", "synopsis", "raw", "reject"}
  BY DEF TierOf
<1>5. CASE format = "plain"
  BY <1>3, <1>4, <1>5 DEF TakeDocument
<1>6. CASE format = "export"
  BY <1>3, <1>6 DEF TakeDocument
<1>7. CASE format = "malformed"
  <2>1. Moves(w, NoJob)
    BY <1>7 DEF TakeDocument
  <2> QED
    BY <2>1, <1>1, <1>2, JobEnds
<1> QED
  BY <1>5, <1>6, <1>7 DEF Formats

LEMMA InlineStoresPreserve ==
    ASSUME DocumentsInv, NEW w \in DocWorkers,
           RejectDocument(w) \/ RunExportFanout(w) \/ StoreInline(w)
    PROVE  DocumentsInv'
<1>1. \A s : Inline(s).doc = NoDoc /\ Inline(s).chunks = Inline(s).body
  BY DEF Inline, MemoryOf
<1>2. Moves(w, NoJob) /\ UNCHANGED <<notes, docs, leaked>>
  BY DEF RejectDocument, RunExportFanout, StoreInline
<1>3. ~Holds(docjob[w])
  BY DEF RejectDocument, RunExportFanout, StoreInline, Holds
<1>4. rows \subseteq rows' /\ \A r \in rows' \ rows : \E s : r = Inline(s)
  BY DEF RejectDocument, RunExportFanout, StoreInline
<1>5. \A r \in rows' \ rows : r.doc = NoDoc /\ r.chunks = r.body
  BY <1>1, <1>4
<1> QED
  BY <1>2, <1>3, <1>4, <1>5, JobEnds

\* The id of a new document is nobody's.
LEMMA NewDocFresh ==
    ASSUME DocsTypeOK
    PROVE  /\ NewDoc \in Nat \ {0} /\ NewDoc \notin DOMAIN docs
           /\ \A v \in DocWorkers : Holds(docjob[v]) => docjob[v].doc # NewDoc
<1> DEFINE holders == {v \in DocWorkers : docjob[v].at \in {"parked", "rollback"}}
           held == {docjob[v].doc : v \in holders}
           used == DOMAIN docs \cup held
<1>1. IsFiniteSet(holders)
  BY DocumentsAssumption, FS_Subset
<1> HIDE DEF holders
<1>2. IsFiniteSet(held)
  <2> DEFINE doc == [v \in holders |-> docjob[v].doc]
  <2>1. held = {doc[v] : v \in holders}
    OBVIOUS
  <2>2. doc \in [holders -> held]
    OBVIOUS
  <2> HIDE DEF doc, held
  <2>3. IsFiniteSet({doc[v] : v \in holders})
    BY <1>1, <2>2, ImageFinite
  <2> QED
    BY <2>1, <2>3
<1> HIDE DEF held
<1>3. IsFiniteSet(used)
  BY <1>2, FS_Union DEF DocsTypeOK
<1>4. Cardinality(used) \in Nat
  BY <1>3, FS_CardinalityType
<1>5. NewDoc = CHOOSE d \in 1 .. Cardinality(used) + 1 : d \notin used
  BY DEF NewDoc, held, holders
<1> HIDE DEF used
<1>6. \E d \in 1 .. Cardinality(used) + 1 : d \notin used
  BY <1>3, <1>4, FreshNumber
<1>7. NewDoc \in 1 .. Cardinality(used) + 1 /\ NewDoc \notin used
  BY <1>5, <1>6
<1>8. NewDoc \in Nat \ {0}
  BY <1>4, <1>7
<1>9. \A v \in DocWorkers : Holds(docjob[v]) => docjob[v].doc \in used
  BY DEF used, held, holders, Holds
<1> QED
  BY <1>7, <1>8, <1>9 DEF used

LEMMA StoreRawBodyPreserves ==
    ASSUME DocumentsInv, NEW w \in DocWorkers, StoreRawBody(w)
    PROVE  DocumentsInv'
<1> USE DEF DocumentsInv
<1>1. docjob[w].at = "raw" /\ ~Holds(docjob[w]) /\ UNCHANGED <<notes, rows, leaked>>
  BY DEF StoreRawBody, Holds
<1>2. CASE Moves(w, NoJob) /\ UNCHANGED docs
  BY <1>1, <1>2, JobEnds
<1>3. CASE /\ docs' = [d \in DOMAIN docs \cup {NewDoc} |->
                          IF d = NewDoc THEN docjob[w].body ELSE docs[d]]
           /\ Moves(w, [at |-> "parked", body |-> docjob[w].body, doc |-> NewDoc])
  <2>1. PICK n \in Nat \ {0} : n = NewDoc
    BY NewDocFresh
  <2>2. n \notin DOMAIN docs /\ \A v \in DocWorkers : Holds(docjob[v]) => docjob[v].doc # n
    BY <2>1, NewDocFresh
  <2>3. PICK body \in DocBodies : body = docjob[w].body
    BY <1>1 DEF DocsTypeOK
  <2>4. PICK job : job = [at |-> "parked", body |-> body, doc |-> n]
    OBVIOUS
  <2>5. job \in ParkedJobs /\ Holds(job) /\ ~Ingests(job) /\ job.doc = n /\ job.body = body
        /\ job.at # "raw"
    BY <2>4 DEF ParkedJobs, Holds, Ingests
  <2>6. /\ docjob'[w] = job /\ \A v \in DocWorkers \ {w} : docjob'[v] = docjob[v]
        /\ DOMAIN docjob' = DocWorkers
    BY <1>3, <2>1, <2>3, <2>4, MovesOne
  <2>7. /\ DOMAIN docs' = DOMAIN docs \cup {n} /\ docs'[n] = body
        /\ \A d \in DOMAIN docs : docs'[d] = docs[d]
    BY <1>3, <2>1, <2>2, <2>3
  <2>8. IsFiniteSet(DOMAIN docs')
    BY <2>7, FS_AddElement DEF DocsTypeOK
  <2>9. DocsTypeOK'
    BY <2>5, <2>6, <2>7, <2>8 DEF DocsTypeOK, Holds, Ingests
  <2>10. \A r \in rows' : RowTrue(r)'
    BY <1>1, <2>7 DEF DocsInv, RowTrue
  <2>11. \A r \in rows : r.doc # n
    BY <2>2 DEF DocsInv, RowTrue, NoDoc
  <2>12. ASSUME NEW v \in DocWorkers, Holds(docjob'[v])
         PROVE  /\ docjob'[v].doc \in DOMAIN docs' => docs'[docjob'[v].doc] = docjob'[v].body
                /\ \A r \in rows' : r.doc # docjob'[v].doc
    <3>1. CASE v = w
      BY <3>1, <1>1, <2>5, <2>6, <2>7, <2>11
    <3>2. CASE v # w
      <4>1. docjob'[v] = docjob[v] /\ Holds(docjob[v]) /\ docjob[v].doc # n
        BY <3>2, <2>2, <2>6, <2>12
      <4> QED
        BY <4>1, <1>1, <2>7 DEF DocsInv, HeldTrue
    <3> QED
      BY <3>1, <3>2
  <2>13. \A v \in DocWorkers : HeldTrue(docjob[v])'
    BY <2>12 DEF HeldTrue, Holds
  <2>14. HeldApart'
    <3>1. ASSUME NEW v \in DocWorkers, NEW u \in DocWorkers, v # u,
                 Holds(docjob'[v]), Holds(docjob'[u])
          PROVE  docjob'[v].doc # docjob'[u].doc
      <4>1. CASE v = w
        BY <4>1, <3>1, <2>2, <2>5, <2>6
      <4>2. CASE u = w
        BY <4>2, <3>1, <2>2, <2>5, <2>6
      <4>3. CASE v # w /\ u # w
        BY <4>3, <3>1, <2>6 DEF DocsInv, HeldApart
      <4> QED
        BY <4>1, <4>2, <4>3
    <3> QED
      BY <3>1 DEF HeldApart, Holds
  <2>15. ASSUME NEW d \in DOMAIN docs' PROVE Accounted(d)'
    <3>1. CASE d = n
      BY <3>1, <2>5, <2>6 DEF Accounted, Holds
    <3>2. CASE d # n
      <4>1. Accounted(d)
        BY <3>2, <2>7 DEF DocsInv
      <4>2. \A v \in DocWorkers : Holds(docjob[v]) => docjob'[v] = docjob[v]
        BY <1>1, <2>6
      <4> QED
        BY <4>1, <4>2, <1>1 DEF Accounted, Holds
    <3> QED
      BY <3>1, <3>2
  <2>16. DocsInv'
    BY <2>10, <2>13, <2>14, <2>15 DEF DocsInv
  <2>17. NotesInv'
    BY <1>1, <2>5, <2>6, NotesUntouched
  <2> QED
    BY <2>9, <2>16, <2>17
<1> QED
  BY <1>2, <1>3 DEF StoreRawBody

\* The job w gives up its document d: from then on it is a memory's, or left
\* behind, or gone.
LEMMA HolderLeaves ==
    ASSUME DocumentsInv, NEW w \in DocWorkers, Holds(docjob[w]), Moves(w, NoJob),
           NEW d, d = docjob[w].doc, UNCHANGED notes,
           DOMAIN docs' \subseteq DOMAIN docs, \A e \in DOMAIN docs' : docs'[e] = docs[e],
           DOMAIN docs \ {d} \subseteq DOMAIN docs',
           rows \subseteq rows', leaked \subseteq leaked',
           \A r \in rows' \ rows : r.doc = d /\ d \in DOMAIN docs' /\ docs[d] = r.body,
           d \in DOMAIN docs' => d \in leaked' \/ \E r \in rows' : r.doc = d
    PROVE  DocumentsInv'
<1> USE DEF DocumentsInv
<1>1. /\ docjob'[w] = NoJob /\ \A v \in DocWorkers \ {w} : docjob'[v] = docjob[v]
      /\ DOMAIN docjob' = DocWorkers
  BY MovesOne
<1>2. IsFiniteSet(DOMAIN docs')
  BY FS_Subset DEF DocsTypeOK
<1>3. DocsTypeOK'
  BY <1>1, <1>2, NoJobQuiet DEF DocsTypeOK, Holds, Ingests
<1>4. \A v \in DocWorkers : Holds(docjob'[v]) => v # w /\ docjob'[v] = docjob[v]
  BY <1>1, NoJobQuiet
<1>5. d \in Nat \ {0} /\ \A r \in rows : r.doc # d
  BY DEF DocsTypeOK, ParkedJobs, DocsInv, HeldTrue
<1>6. ASSUME NEW r \in rows' PROVE RowTrue(r)'
  <2>1. CASE r \in rows
    <3>1. RowTrue(r) /\ r.doc # d
      BY <2>1, <1>5 DEF DocsInv
    <3> QED
      BY <3>1 DEF RowTrue
  <2>2. CASE r \notin rows
    BY <2>2, <1>5 DEF RowTrue, NoDoc
  <2> QED
    BY <2>1, <2>2
<1>7. ASSUME NEW v \in DocWorkers, Holds(docjob'[v])
      PROVE  /\ docjob'[v].doc \in DOMAIN docs' => docs'[docjob'[v].doc] = docjob'[v].body
             /\ \A r \in rows' : r.doc # docjob'[v].doc
  <2>1. docjob'[v] = docjob[v] /\ Holds(docjob[v]) /\ v # w
    BY <1>4, <1>7
  <2>2. docjob[v].doc # d
    BY <2>1 DEF DocsInv, HeldApart
  <2> QED
    BY <2>1, <2>2 DEF DocsInv, HeldTrue
<1>8. \A v \in DocWorkers : HeldTrue(docjob[v])'
  BY <1>7 DEF HeldTrue, Holds
<1>9. HeldApart'
  BY <1>4 DEF DocsInv, HeldApart, Holds
<1>10. ASSUME NEW e \in DOMAIN docs' PROVE Accounted(e)'
  <2>1. CASE e = d
    BY <2>1, <1>10 DEF Accounted
  <2>2. CASE e # d
    <3>1. Accounted(e)
      BY <1>10 DEF DocsInv
    <3>2. ASSUME NEW v \in DocWorkers, Holds(docjob[v]), docjob[v].doc = e
          PROVE  Holds(docjob'[v]) /\ docjob'[v].doc = e
      BY <3>2, <2>2, <1>1
    <3> QED
      BY <3>1, <3>2 DEF Accounted, Holds
  <2> QED
    BY <2>1, <2>2
<1>11. DocsInv'
  BY <1>6, <1>8, <1>9, <1>10 DEF DocsInv
<1>12. NotesInv'
  BY <1>1, NoJobQuiet, NotesUntouched
<1> QED
  BY <1>3, <1>11, <1>12

LEMMA StoreRawMemoryPreserves ==
    ASSUME DocumentsInv, NEW w \in DocWorkers, StoreRawMemory(w)
    PROVE  DocumentsInv'
<1> USE DEF DocumentsInv
<1>1. PICK job : job = docjob[w]
  OBVIOUS
<1>2. /\ job.at = "parked" /\ Holds(job) /\ job \in ParkedJobs
      /\ UNCHANGED <<notes, docs, leaked>>
  BY <1>1 DEF StoreRawMemory, Holds, DocsTypeOK
<1>3. CASE /\ job.doc \in DOMAIN docs
           /\ rows' = rows \cup {Parked(job.body, job.doc)}
           /\ Moves(w, NoJob)
  <2>1. Parked(job.body, job.doc).doc = job.doc /\ Parked(job.body, job.doc).body = job.body
    BY DEF Parked, MemoryOf
  <2>2. docs[job.doc] = job.body
    BY <1>1, <1>2, <1>3 DEF DocsInv, HeldTrue
  <2> QED
    BY <1>1, <1>2, <1>3, <2>1, <2>2, HolderLeaves
<1>4. CASE Moves(w, [job EXCEPT !.at = "rollback"]) /\ UNCHANGED rows
  <2>1. PICK next : next = [job EXCEPT !.at = "rollback"]
    OBVIOUS
  <2>2. /\ next \in ParkedJobs /\ Holds(next) /\ ~Ingests(next) /\ next.at # "raw"
        /\ next.doc = job.doc /\ next.body = job.body
    BY <1>2, <2>1 DEF ParkedJobs, Holds, Ingests
  <2>3. /\ docjob'[w] = next /\ \A v \in DocWorkers \ {w} : docjob'[v] = docjob[v]
        /\ DOMAIN docjob' = DocWorkers
    BY <1>4, <2>1, MovesOne
  <2>4. DocsTypeOK'
    BY <1>2, <2>2, <2>3 DEF DocsTypeOK, Holds, Ingests
  <2>5. \A v \in DocWorkers : /\ Holds(docjob'[v]) <=> Holds(docjob[v])
                              /\ Holds(docjob[v]) => /\ docjob'[v].doc = docjob[v].doc
                                                     /\ docjob'[v].body = docjob[v].body
    BY <1>1, <1>2, <2>2, <2>3
  <2>6. \A r \in rows' : RowTrue(r)'
    BY <1>2, <1>4 DEF DocsInv, RowTrue
  <2>7. ASSUME NEW v \in DocWorkers, Holds(docjob'[v])
        PROVE  /\ docjob'[v].doc \in DOMAIN docs' => docs'[docjob'[v].doc] = docjob'[v].body
               /\ \A r \in rows' : r.doc # docjob'[v].doc
    BY <1>2, <1>4, <2>5, <2>7 DEF DocsInv, HeldTrue
  <2>8. \A v \in DocWorkers : HeldTrue(docjob[v])'
    BY <2>7 DEF HeldTrue, Holds
  <2>9. HeldApart'
    BY <2>5 DEF DocsInv, HeldApart, Holds
  <2>10. \A d \in DOMAIN docs' : Accounted(d)'
    BY <1>2, <1>4, <2>5 DEF DocsInv, Accounted, Holds
  <2>11. DocsInv'
    BY <2>6, <2>8, <2>9, <2>10 DEF DocsInv
  <2>12. NotesInv'
    BY <1>2, <2>2, <2>3, NotesUntouched
  <2> QED
    BY <2>4, <2>11, <2>12
<1> QED
  BY <1>1, <1>3, <1>4 DEF StoreRawMemory

LEMMA RollbackRawBodyPreserves ==
    ASSUME DocumentsInv, NEW w \in DocWorkers, RollbackRawBody(w)
    PROVE  DocumentsInv'
<1>1. PICK d : d = docjob[w].doc
  OBVIOUS
<1>2. Holds(docjob[w]) /\ Moves(w, NoJob) /\ UNCHANGED <<notes, rows>>
  BY DEF RollbackRawBody, Holds
<1>3. CASE docs' = WithoutDoc(d) /\ UNCHANGED leaked
  <2>1. DOMAIN docs' = DOMAIN docs \ {d} /\ \A e \in DOMAIN docs' : docs'[e] = docs[e]
    BY <1>3 DEF WithoutDoc
  <2> QED
    BY <1>1, <1>2, <1>3, <2>1, HolderLeaves
<1>4. CASE leaked' = leaked \cup {d} /\ UNCHANGED docs
  BY <1>1, <1>2, <1>4, HolderLeaves
<1> QED
  BY <1>1, <1>3, <1>4 DEF RollbackRawBody

\* A memory is deleted, with its document unless another memory has it too, or
\* the document is left behind.
LEMMA MemoryGone ==
    ASSUME DocumentsInv, NEW r \in rows, rows' = rows \ {r}, UNCHANGED <<notes, docjob>>,
           DOMAIN docs' \subseteq DOMAIN docs, \A e \in DOMAIN docs' : docs'[e] = docs[e],
           DOMAIN docs \ {r.doc} \subseteq DOMAIN docs', leaked \subseteq leaked',
           \/ r.doc \notin DOMAIN docs' /\ \A q \in rows' : q.doc # r.doc
           \/ r.doc \in leaked' /\ docs' = docs
           \/ docs' = docs /\ \E q \in rows' : q.doc = r.doc
           \/ docs' = docs /\ r.doc = NoDoc
    PROVE  DocumentsInv'
<1> USE DEF DocumentsInv
<1>1. IsFiniteSet(DOMAIN docs')
  BY FS_Subset DEF DocsTypeOK
<1>2. DocsTypeOK'
  BY <1>1 DEF DocsTypeOK, Holds, Ingests
<1>3. ASSUME NEW q \in rows' PROVE RowTrue(q)'
  <2>1. RowTrue(q)
    BY <1>3 DEF DocsInv
  <2>2. q.doc # NoDoc => q.doc \in DOMAIN docs'
    BY <2>1 DEF RowTrue
  <2> QED
    BY <2>1, <2>2 DEF RowTrue
<1>4. \A w \in DocWorkers : HeldTrue(docjob[w])'
  BY DEF DocsInv, HeldTrue, Holds
<1>5. HeldApart'
  BY DEF DocsInv, HeldApart, Holds
<1>6. ASSUME NEW d \in DOMAIN docs' PROVE Accounted(d)'
  <2>1. Accounted(d) /\ d # NoDoc
    BY <1>6 DEF DocsInv, DocsTypeOK, NoDoc
  <2>2. CASE d = r.doc
    BY <2>1, <2>2, <1>6 DEF Accounted
  <2>3. CASE d # r.doc
    BY <2>1, <2>3 DEF Accounted, Holds
  <2> QED
    BY <2>2, <2>3
<1>7. DocsInv'
  BY <1>3, <1>4, <1>5, <1>6 DEF DocsInv
<1>8. NotesInv'
  BY NotesUntouched
<1> QED
  BY <1>2, <1>7, <1>8

LEMMA DeletePreserves ==
    ASSUME DocumentsInv, NEW r \in rows, DeleteDocumentMemory(r) \/ MergeAway(r)
    PROVE  DocumentsInv'
<1>1. CASE DeleteDocumentMemory(r)
  <2>1. rows' = rows \ {r} /\ UNCHANGED <<notes, docjob, leaked>>
    BY <1>1 DEF DeleteDocumentMemory
  <2>2. CASE r.doc = NoDoc
    <3>1. docs' = docs
      BY <1>1, <2>2 DEF DeleteDocumentMemory
    <3> QED
      BY <2>1, <2>2, <3>1, MemoryGone
  <2>3. CASE r.doc # NoDoc /\ \E q \in rows' : q.doc = r.doc
    <3>1. docs' = docs
      BY <1>1, <2>3 DEF DeleteDocumentMemory, DeleteOrphanedDocument
    <3> QED
      BY <2>1, <2>3, <3>1, MemoryGone
  <2>4. CASE r.doc # NoDoc /\ \A q \in rows' : q.doc # r.doc
    <3>1. docs' = WithoutDoc(r.doc)
      BY <1>1, <2>4 DEF DeleteDocumentMemory, DeleteOrphanedDocument
    <3>2. DOMAIN docs' = DOMAIN docs \ {r.doc} /\ \A e \in DOMAIN docs' : docs'[e] = docs[e]
      BY <3>1 DEF WithoutDoc
    <3> QED
      BY <2>1, <2>4, <3>2, MemoryGone
  <2> QED
    BY <2>2, <2>3, <2>4
<1>2. CASE MergeAway(r)
  <2>1. /\ rows' = rows \ {r} /\ UNCHANGED <<notes, docjob, docs>>
        /\ leaked \subseteq leaked' /\ (r.doc # NoDoc => r.doc \in leaked')
    BY <1>2 DEF MergeAway
  <2> QED
    BY <2>1, MemoryGone
<1> QED
  BY <1>1, <1>2

\* Notes that are deleted are forgotten by the ingestions, and nothing else is.
LEMMA ForgottenNotes ==
    ASSUME DocsTypeOK, NEW S, docjob' = WithoutNotes(S)
    PROVE  /\ DOMAIN docjob' = DocWorkers
           /\ \A w \in DocWorkers :
                /\ ~Ingests(docjob[w]) => docjob'[w] = docjob[w]
                /\ Ingests(docjob[w]) =>
                     /\ docjob'[w] \in IngestJobs /\ docjob'[w].at = docjob[w].at
                     /\ docjob'[w].left = docjob[w].left
                     /\ docjob'[w].before = docjob[w].before \ S
<1>1. DOMAIN docjob' = DocWorkers
  BY DEF WithoutNotes
<1>2. ASSUME NEW w \in DocWorkers, Ingests(docjob[w])
      PROVE  /\ docjob'[w] \in IngestJobs /\ docjob'[w].at = docjob[w].at
             /\ docjob'[w].left = docjob[w].left
             /\ docjob'[w].before = docjob[w].before \ S
  <2>1. PICK job \in IngestJobs : job = docjob[w]
    BY <1>2 DEF DocsTypeOK
  <2>2. PICK rest \in SUBSET Nat : rest = job.before \ S
    BY <2>1 DEF IngestJobs
  <2>3. docjob'[w] = [job EXCEPT !.before = rest]
    BY <1>2, <2>1, <2>2 DEF WithoutNotes, Ingests
  <2> QED
    BY <2>1, <2>2, <2>3 DEF IngestJobs
<1>3. \A w \in DocWorkers : ~Ingests(docjob[w]) => docjob'[w] = docjob[w]
  BY DEF WithoutNotes, Ingests
<1> QED
  BY <1>1, <1>2, <1>3

LEMMA DeleteProjectPreserves ==
    ASSUME DocumentsInv, DeleteDocProject
    PROVE  DocumentsInv'
<1> USE DEF DocumentsInv
<1>1. rows' = {} /\ notes' = {} /\ DOMAIN docs' = {} /\ docjob' = WithoutNotes(Ids)
  BY DEF DeleteDocProject, NoDocs, Ids
<1>2. /\ DOMAIN docjob' = DocWorkers
      /\ \A w \in DocWorkers :
           /\ ~Ingests(docjob[w]) => docjob'[w] = docjob[w]
           /\ Ingests(docjob[w]) =>
                /\ docjob'[w] \in IngestJobs /\ docjob'[w].at = docjob[w].at
                /\ docjob'[w].before = docjob[w].before \ Ids
  BY <1>1, ForgottenNotes
<1>3. \A w \in DocWorkers : Holds(docjob'[w]) => docjob'[w] = docjob[w]
  BY <1>2 DEF Holds, Ingests
<1>4. \A w \in DocWorkers : Ingests(docjob'[w]) => Ingests(docjob[w])
  BY <1>2 DEF Ingests
<1>5. IsFiniteSet({})
  BY FS_EmptySet
<1>6. DocsTypeOK'
  BY <1>1, <1>2, <1>3, <1>4, <1>5 DEF DocsTypeOK, Holds, Ingests
<1>7. DocsInv'
  BY <1>1, <1>3 DEF DocsInv, HeldTrue, HeldApart, Holds
<1>8. \A w \in DocWorkers : Ingests(docjob[w]) => docjob[w].before \subseteq Ids
  BY DEF NotesInv, IngestTrue
<1>9. \A w \in DocWorkers : IngestTrue(docjob[w])'
  BY <1>1, <1>2, <1>4, <1>8 DEF IngestTrue, Ingests, Ids
<1>10. NotesInv'
  BY <1>1, <1>5, <1>9 DEF NotesInv, NotesTypeOK, IngestOnce
<1> QED
  BY <1>6, <1>7, <1>10

LEMMA DeleteNotePreserves ==
    ASSUME DocumentsInv, NEW n \in notes, DeleteNote(n)
    PROVE  DocumentsInv'
<1> USE DEF DocumentsInv
<1>1. UNCHANGED <<docs, rows, leaked>> /\ docjob' = WithoutNotes({n.id})
  BY DEF DeleteNote
<1>2. /\ DOMAIN docjob' = DocWorkers
      /\ \A w \in DocWorkers :
           /\ ~Ingests(docjob[w]) => docjob'[w] = docjob[w]
           /\ Ingests(docjob[w]) =>
                /\ docjob'[w] \in IngestJobs /\ docjob'[w].at = docjob[w].at
                /\ docjob'[w].left = docjob[w].left
                /\ docjob'[w].before = docjob[w].before \ {n.id}
  BY <1>1, ForgottenNotes
<1>3. \A w \in DocWorkers : /\ docjob'[w].at = docjob[w].at
                            /\ Holds(docjob[w]) => docjob'[w] = docjob[w]
  BY <1>2 DEF Holds, Ingests
<1>4. DocsTypeOK'
  BY <1>1, <1>2, <1>3 DEF DocsTypeOK, Holds, Ingests
<1>5. DocsInv'
  <2>1. \A r \in rows' : RowTrue(r)'
    BY <1>1 DEF DocsInv, RowTrue
  <2>2. \A w \in DocWorkers : Holds(docjob'[w]) => docjob'[w] = docjob[w]
    BY <1>3 DEF Holds
  <2>3. \A w \in DocWorkers : HeldTrue(docjob[w])'
    BY <1>1, <2>2 DEF DocsInv, HeldTrue, Holds
  <2>4. HeldApart'
    BY <2>2 DEF DocsInv, HeldApart, Holds
  <2>5. \A d \in DOMAIN docs' : Accounted(d)'
    BY <1>1, <1>3 DEF DocsInv, Accounted, Holds
  <2> QED
    BY <2>1, <2>3, <2>4, <2>5 DEF DocsInv
<1>6. DEFINE Less(m) == [m EXCEPT !.before = @ \ {n.id}]
<1>7. notes' = {Less(m) : m \in notes \ {n}}
  BY DEF DeleteNote
<1>8. ASSUME NEW m \in notes
      PROVE  /\ Less(m) \in [id : Nat, text : Contents, before : SUBSET Nat]
             /\ Less(m).id = m.id /\ Less(m).text = m.text
             /\ Less(m).before = m.before \ {n.id}
  <2>1. m \in [id : Nat, text : Contents, before : SUBSET Nat]
    BY DEF NotesInv, NotesTypeOK
  <2>2. PICK rest \in SUBSET Nat : rest = m.before \ {n.id}
    BY <2>1
  <2> QED
    BY <2>1, <2>2
<1> HIDE DEF Less
<1>9. \A k \in notes' : \E m \in notes \ {n} :
          k = Less(m) /\ k.id = m.id /\ k.text = m.text /\ k.before = m.before \ {n.id}
  BY <1>7, <1>8
<1>10. \A m \in notes \ {n} : Less(m) \in notes' /\ m.id # n.id
  BY <1>7 DEF NotesInv, NotesTypeOK
<1>11. Ids' = Ids \ {n.id}
  <2>1. \A k \in notes' : k.id \in Ids /\ k.id # n.id
    BY <1>9, <1>10 DEF Ids
  <2>2. \A m \in notes : m.id # n.id => m.id \in Ids'
    <3> SUFFICES ASSUME NEW m \in notes, m.id # n.id PROVE m.id \in Ids'
      OBVIOUS
    <3>1. Less(m) \in notes' /\ Less(m).id = m.id
      BY <1>8, <1>10
    <3> QED
      BY <3>1 DEF Ids
  <2> QED
    BY <2>1, <2>2 DEF Ids
<1>12. NotesTypeOK'
  <2>1. notes' \in SUBSET [id : Nat, text : Contents, before : SUBSET Nat]
    BY <1>7, <1>8
  <2>2. IsFiniteSet(notes')
    <3> DEFINE less == [m \in notes \ {n} |-> Less(m)]
    <3>1. IsFiniteSet(notes \ {n})
      BY FS_RemoveElement DEF NotesInv, NotesTypeOK
    <3>2. notes' = {less[m] : m \in notes \ {n}} /\ less \in [notes \ {n} -> notes']
      BY <1>7
    <3>3. PICK f, S, T : f = less /\ S = notes \ {n} /\ T = notes'
      OBVIOUS
    <3> HIDE DEF less
    <3>4. f \in [S -> T] /\ IsFiniteSet(S) /\ notes' = {f[m] : m \in S}
      BY <3>1, <3>2, <3>3
    <3>5. IsFiniteSet({f[m] : m \in S})
      BY <3>4, ImageFinite
    <3> QED
      BY <3>4, <3>5
  <2>3. \A k, l \in notes' : k.id = l.id => k = l
    BY <1>9 DEF NotesInv, NotesTypeOK
  <2>4. \A k \in notes' : k.before \subseteq Ids'
    BY <1>9, <1>11 DEF NotesInv, NotesTypeOK
  <2> QED
    BY <2>1, <2>2, <2>3, <2>4 DEF NotesTypeOK
<1>13. ASSUME NEW w \in DocWorkers PROVE IngestTrue(docjob[w])'
  <2>1. CASE ~Ingests(docjob[w])
    BY <2>1, <1>2 DEF IngestTrue, Ingests
  <2>2. CASE Ingests(docjob[w])
    <3>1. docjob'[w].before \subseteq Ids'
      BY <2>2, <1>2, <1>11 DEF NotesInv, IngestTrue
    <3>2. ASSUME docjob'[w].at = "store", NEW k \in notes', k.text = Head(docjob'[w].left)
          PROVE  k.id \notin docjob'[w].before
      BY <2>2, <3>2, <1>2, <1>9 DEF NotesInv, IngestTrue
    <3> QED
      BY <3>1, <3>2 DEF IngestTrue, Ingests
  <2> QED
    BY <2>1, <2>2
<1>14. IngestOnce'
  <2>1. ASSUME NEW k \in notes', NEW l \in notes', k.text = l.text
        PROVE  k.id \notin l.before
    BY <2>1, <1>9 DEF NotesInv, IngestOnce
  <2> QED
    BY <2>1 DEF IngestOnce
<1>15. NotesInv'
  BY <1>12, <1>13, <1>14 DEF NotesInv
<1> QED
  BY <1>4, <1>5, <1>15

\* A worker's ingestion goes on to the job next, having stored nothing.
LEMMA IngestGoesOn ==
    ASSUME DocumentsInv, NEW w \in DocWorkers, NEW next, Moves(w, next),
           ~Holds(docjob[w]), next = NoJob \/ (next \in IngestJobs /\ IngestTrue(next)),
           UNCHANGED <<docs, rows, notes, leaked>>
    PROVE  DocumentsInv'
<1> USE DEF DocumentsInv
<1>1. ~Holds(next) /\ next.at # "raw"
  BY NoJobQuiet DEF IngestJobs, Holds
<1>2. Ingests(next) => next \in IngestJobs /\ IngestTrue(next)
  BY NoJobQuiet
<1>3. DocsTypeOK' /\ DocsInv'
  BY <1>1, <1>2, JobWithoutDocument
<1>4. docjob'[w] = next /\ \A v \in DocWorkers \ {w} : docjob'[v] = docjob[v]
  BY MovesOne
<1>5. \A v \in DocWorkers : IngestTrue(docjob'[v])
  <2>1. IngestTrue(next)
    BY <1>2 DEF IngestTrue, Ingests
  <2> QED
    BY <2>1, <1>4 DEF NotesInv
<1>6. \A v \in DocWorkers : IngestTrue(docjob[v])'
  BY <1>5 DEF IngestTrue, Ingests, Ids
<1>7. NotesTypeOK' /\ IngestOnce'
  BY DEF NotesInv, NotesTypeOK, IngestOnce, Ids
<1> QED
  BY <1>3, <1>6, <1>7 DEF NotesInv

\* After a file an ingestion looks at the next one, remembering the same notes.
LEMMA NextFile ==
    ASSUME DocsTypeOK, NEW w \in DocWorkers, Ingests(docjob[w])
    PROVE  \/ AfterFile(w) = NoJob
           \/ /\ AfterFile(w) \in IngestJobs /\ AfterFile(w).at = "check"
              /\ AfterFile(w).before = docjob[w].before
<1>1. PICK job \in IngestJobs : job = docjob[w]
  BY DEF DocsTypeOK
<1>2. CASE Len(job.left) = 1
  BY <1>1, <1>2 DEF AfterFile
<1>3. CASE Len(job.left) # 1
  <2>1. Tail(job.left) \in Seq(Contents) /\ Tail(job.left) # <<>>
    <3>1. job.left \in Seq(Contents) /\ job.left # <<>>
      BY DEF IngestJobs
    <3>2. Len(job.left) \in Nat /\ Len(job.left) # 0
      BY <3>1
    <3>3. Tail(job.left) \in Seq(Contents) /\ Len(Tail(job.left)) = Len(job.left) - 1
      BY <3>1
    <3>4. Len(Tail(job.left)) # 0
      BY <3>2, <3>3, <1>3
    <3>5. Len(<<>>) = 0
      OBVIOUS
    <3> QED
      BY <3>3, <3>4, <3>5
  <2>2. PICK rest \in Seq(Contents) \ {<<>>} : rest = Tail(job.left)
    BY <2>1
  <2>3. AfterFile(w) = [job EXCEPT !.at = "check", !.left = rest]
    BY <1>1, <1>3, <2>2 DEF AfterFile
  <2> QED
    BY <1>1, <2>3 DEF IngestJobs
<1> QED
  BY <1>2, <1>3

LEMMA BeginIngestPreserves ==
    ASSUME DocumentsInv, NEW w \in DocWorkers, NEW texts \in Texts, BeginIngest(w, texts)
    PROVE  DocumentsInv'
<1>1. PICK next : next = [at |-> "check", left |-> texts, before |-> Ids]
  OBVIOUS
<1>2. Ids \in SUBSET Nat
  BY DEF DocumentsInv, NotesInv, NotesTypeOK, Ids
<1>3. texts \in Seq(Contents) \ {<<>>}
  BY DocumentsAssumption
<1>4. next \in IngestJobs /\ next.at = "check" /\ next.before = Ids
  BY <1>1, <1>2, <1>3 DEF IngestJobs
<1>5. IngestTrue(next)
  BY <1>4 DEF IngestTrue
<1>6. Moves(w, next) /\ ~Holds(docjob[w]) /\ UNCHANGED <<docs, rows, notes, leaked>>
  BY <1>1 DEF BeginIngest, Holds, Ids
<1> QED
  BY <1>4, <1>5, <1>6, IngestGoesOn

LEMMA CheckFilePreserves ==
    ASSUME DocumentsInv, NEW w \in DocWorkers, CheckFile(w)
    PROVE  DocumentsInv'
<1>1. PICK job : job = docjob[w]
  OBVIOUS
<1>2. /\ job.at = "check" /\ Ingests(job) /\ ~Holds(job)
      /\ UNCHANGED <<docs, rows, notes, leaked>>
  BY <1>1 DEF CheckFile, Ingests, Holds
<1>3. job \in IngestJobs /\ job.before \subseteq Ids
  BY <1>1, <1>2 DEF DocumentsInv, DocsTypeOK, NotesInv, IngestTrue
<1>4. CASE Moves(w, NoJob)
  BY <1>1, <1>2, <1>4, IngestGoesOn
<1>5. CASE Moves(w, AfterFile(w))
  <2>1. AfterFile(w) = NoJob \/ (AfterFile(w) \in IngestJobs /\ IngestTrue(AfterFile(w)))
    BY <1>1, <1>2, <1>3, NextFile DEF DocumentsInv, IngestTrue
  <2> QED
    BY <2>1, <1>1, <1>2, <1>5, IngestGoesOn
<1>6. CASE /\ \A n \in notes : n.text # Head(job.left)
           /\ Moves(w, [job EXCEPT !.at = "store"])
  <2>1. PICK next : next = [job EXCEPT !.at = "store"]
    OBVIOUS
  <2>2. /\ next \in IngestJobs /\ next.at = "store" /\ next.left = job.left
        /\ next.before = job.before
    BY <1>3, <2>1 DEF IngestJobs
  <2>3. IngestTrue(next)
    BY <1>3, <1>6, <2>2 DEF IngestTrue
  <2> QED
    BY <1>1, <1>2, <1>6, <2>1, <2>2, <2>3, IngestGoesOn
<1>7. \/ Moves(w, NoJob)
      \/ Moves(w, IF \E n \in notes : n.text = Head(job.left)
                  THEN AfterFile(w) ELSE [job EXCEPT !.at = "store"])
  BY <1>1 DEF CheckFile
<1>8. CASE \E n \in notes : n.text = Head(job.left)
  BY <1>4, <1>5, <1>7, <1>8
<1>9. CASE ~\E n \in notes : n.text = Head(job.left)
  BY <1>4, <1>6, <1>7, <1>9
<1> QED
  BY <1>8, <1>9

\* The id of a new note is nobody's.
LEMMA NewNoteFresh ==
    ASSUME NotesTypeOK
    PROVE  NewNote \in Nat /\ NewNote \notin Ids
<1> DEFINE ids == [n \in notes |-> n.id]
<1>1. ids \in [notes -> Ids] /\ Ids = {ids[n] : n \in notes}
  BY DEF Ids
<1>2. PICK f, T : f = ids /\ T = Ids
  OBVIOUS
<1> HIDE DEF ids
<1>3. f \in [notes -> T] /\ T = {f[n] : n \in notes} /\ IsFiniteSet(notes)
  BY <1>1, <1>2 DEF NotesTypeOK
<1>4. /\ IsFiniteSet({f[n] : n \in notes})
      /\ Cardinality({f[n] : n \in notes}) =< Cardinality(notes)
  BY <1>3, ImageFinite
<1>5. IsFiniteSet(Ids) /\ Cardinality(Ids) =< Cardinality(notes)
  BY <1>2, <1>3, <1>4
<1>6. Cardinality(notes) \in Nat
  BY <1>3, FS_CardinalityType
<1>7. \E i \in 1 .. Cardinality(notes) + 1 : i \notin Ids
  BY <1>5, <1>6, FreshNumber
<1>8. NewNote = CHOOSE i \in 1 .. Cardinality(notes) + 1 : i \notin Ids
  BY DEF NewNote, Ids
<1>9. NewNote \in 1 .. Cardinality(notes) + 1 /\ NewNote \notin Ids
  BY <1>7, <1>8
<1> QED
  BY <1>6, <1>9

LEMMA StoreFilePreserves ==
    ASSUME DocumentsInv, NEW w \in DocWorkers, StoreFile(w)
    PROVE  DocumentsInv'
<1> USE DEF DocumentsInv
<1>1. PICK job : job = docjob[w]
  OBVIOUS
<1>2. job.at = "store" /\ Ingests(job) /\ ~Holds(job) /\ UNCHANGED <<docs, rows, leaked>>
  BY <1>1 DEF StoreFile, Ingests, Holds
<1>3. /\ job \in IngestJobs /\ job.before \subseteq Ids
      /\ \A m \in notes : m.text = Head(job.left) => m.id \notin job.before
  BY <1>1, <1>2 DEF DocsTypeOK, NotesInv, IngestTrue
<1>4. CASE Moves(w, NoJob) /\ UNCHANGED notes
  BY <1>1, <1>2, <1>4, IngestGoesOn
<1>5. CASE /\ Moves(w, AfterFile(w))
           /\ notes' = notes \cup {[id |-> NewNote, text |-> Head(job.left),
                                    before |-> job.before \cap {n.id : n \in notes}]}
  <2>1. PICK i \in Nat : i = NewNote /\ i \notin Ids
    BY NewNoteFresh DEF NotesInv
  <2>2. job.before \cap {n.id : n \in notes} = job.before /\ job.before \in SUBSET Nat
    BY <1>3 DEF Ids, IngestJobs
  <2>3. PICK text \in Contents : text = Head(job.left)
    BY <1>3 DEF IngestJobs
  <2>4. PICK new : new = [id |-> i, text |-> text, before |-> job.before]
    OBVIOUS
  <2>5. /\ new \in [id : Nat, text : Contents, before : SUBSET Nat]
        /\ new.id = i /\ new.text = text /\ new.before = job.before
    BY <2>2, <2>4
  <2>6. notes' = notes \cup {new}
    BY <1>5, <2>1, <2>2, <2>3, <2>4
  <2>7. Ids' = Ids \cup {i}
    BY <2>5, <2>6 DEF Ids
  <2>8. PICK next : next = AfterFile(w)
    OBVIOUS
  <2>9. next = NoJob \/ (next \in IngestJobs /\ next.at = "check" /\ next.before = job.before)
    BY <1>1, <1>2, <2>8, NextFile
  <2>10. /\ docjob'[w] = next /\ \A v \in DocWorkers \ {w} : docjob'[v] = docjob[v]
         /\ DOMAIN docjob' = DocWorkers
    BY <1>5, <2>8, MovesOne
  <2>11. DocsTypeOK' /\ DocsInv'
    <3>1. ~Holds(next) /\ next.at # "raw"
      BY <2>9, NoJobQuiet DEF Holds
    <3>2. Ingests(next) => next \in IngestJobs
      BY <2>9, NoJobQuiet
    <3> QED
      BY <1>1, <1>2, <1>5, <2>8, <3>1, <3>2, JobWithoutDocument
  <2>12. NotesTypeOK'
    <3>1. notes' \in SUBSET [id : Nat, text : Contents, before : SUBSET Nat]
      BY <2>5, <2>6 DEF NotesInv, NotesTypeOK
    <3>2. IsFiniteSet(notes')
      BY <2>6, FS_AddElement DEF NotesInv, NotesTypeOK
    <3>3. \A m \in notes : m.id \in Ids
      BY DEF Ids
    <3>4. \A m, n \in notes' : m.id = n.id => m = n
      BY <2>1, <2>5, <2>6, <3>3 DEF NotesInv, NotesTypeOK
    <3>5. \A n \in notes' : n.before \subseteq Ids'
      BY <1>3, <2>5, <2>6, <2>7 DEF NotesInv, NotesTypeOK
    <3> QED
      BY <3>1, <3>2, <3>4, <3>5 DEF NotesTypeOK
  <2>13. ASSUME NEW v \in DocWorkers PROVE IngestTrue(docjob[v])'
    <3>1. CASE v = w
      <4>1. Ingests(docjob'[v]) => docjob'[v].before \subseteq Ids' /\ docjob'[v].at = "check"
        BY <3>1, <1>3, <2>7, <2>9, <2>10, NoJobQuiet
      <4> QED
        BY <4>1 DEF IngestTrue, Ingests
    <3>2. CASE v # w
      <4>1. docjob'[v] = docjob[v] /\ IngestTrue(docjob[v])
        BY <3>2, <2>10 DEF NotesInv
      <4>2. Ingests(docjob[v]) => docjob[v].before \subseteq Ids /\ i \notin docjob[v].before
        BY <4>1, <2>1 DEF IngestTrue
      <4>3. Ingests(docjob'[v]) => docjob'[v].before \subseteq Ids'
        BY <4>1, <4>2, <2>7
      <4>4. ASSUME docjob'[v].at = "store", NEW m \in notes', m.text = Head(docjob'[v].left)
            PROVE  m.id \notin docjob'[v].before
        <5>1. CASE m \in notes
          BY <5>1, <4>1, <4>4 DEF IngestTrue
        <5>2. CASE m = new
          BY <5>2, <4>1, <4>2, <4>4, <2>5 DEF Ingests
        <5> QED
          BY <5>1, <5>2, <2>6
      <4> QED
        BY <4>3, <4>4 DEF IngestTrue, Ingests
    <3> QED
      BY <3>1, <3>2
  <2>14. IngestOnce'
    <3>1. ASSUME NEW m \in notes', NEW n \in notes', m.text = n.text
          PROVE  m.id \notin n.before
      <4>1. n.before \subseteq Ids /\ i \notin n.before
        BY <1>3, <2>1, <2>5, <2>6 DEF NotesInv, NotesTypeOK
      <4>2. CASE m = new
        BY <4>1, <4>2, <2>5
      <4>3. CASE m \in notes /\ n = new
        BY <4>3, <3>1, <1>3, <2>3, <2>5
      <4>4. CASE m \in notes /\ n \in notes
        BY <4>4, <3>1 DEF NotesInv, IngestOnce
      <4> QED
        BY <4>2, <4>3, <4>4, <2>6
    <3> QED
      BY <3>1 DEF IngestOnce
  <2> QED
    BY <2>11, <2>12, <2>13, <2>14 DEF NotesInv
<1> QED
  BY <1>1, <1>4, <1>5 DEF StoreFile

\* Whatever ingestion jobs overlap, fail, roll back or race with deletions, a
\* memory's document is there and is its body, no parked body is forgotten, and
\* a file that was stored before an ingestion began is not stored by it again.
THEOREM DocumentsKept == DocumentsSpec => []DocumentsSound
<1>1. DocumentsInv /\ [DocumentsNext]_docVars => DocumentsInv'
  <2> SUFFICES ASSUME DocumentsInv, [DocumentsNext]_docVars
               PROVE  DocumentsInv'
    OBVIOUS
  <2>1. CASE UNCHANGED docVars
    <3>1. UNCHANGED <<docjob, docs, rows, notes, leaked>>
      BY <2>1 DEF docVars
    <3>2. DocsTypeOK' /\ NotesInv'
      BY <3>1, NotesUntouched DEF DocumentsInv, DocsTypeOK, Holds, Ingests
    <3>3. DocsInv'
      BY <3>1 DEF DocumentsInv, DocsInv, RowTrue, HeldTrue, HeldApart, Accounted, Holds
    <3> QED
      BY <3>2, <3>3 DEF DocumentsInv
  <2>2. ASSUME NEW w \in DocWorkers,
               \/ \E body \in DocBodies, format \in Formats : TakeDocument(w, body, format)
               \/ RejectDocument(w) \/ RunExportFanout(w) \/ StoreInline(w)
               \/ StoreRawBody(w) \/ StoreRawMemory(w) \/ RollbackRawBody(w)
        PROVE  DocumentsInv'
    BY <2>2, TakeDocumentPreserves, InlineStoresPreserve, StoreRawBodyPreserves,
       StoreRawMemoryPreserves, RollbackRawBodyPreserves
  <2>3. ASSUME NEW r \in rows, DeleteDocumentMemory(r) \/ MergeAway(r)
        PROVE  DocumentsInv'
    BY <2>3, DeletePreserves
  <2>4. CASE DeleteDocProject
    BY <2>4, DeleteProjectPreserves
  <2>5. ASSUME NEW w \in DocWorkers,
               \/ \E texts \in Texts : BeginIngest(w, texts)
               \/ CheckFile(w) \/ StoreFile(w)
        PROVE  DocumentsInv'
    BY <2>5, BeginIngestPreserves, CheckFilePreserves, StoreFilePreserves
  <2>6. ASSUME NEW n \in notes, DeleteNote(n)
        PROVE  DocumentsInv'
    BY <2>6, DeleteNotePreserves
  <2> QED
    BY <2>1, <2>2, <2>3, <2>4, <2>5, <2>6 DEF DocumentsNext
<1> QED
  BY <1>1, DocumentsInitially, DocumentsInvSuffices, PTL DEF DocumentsSpec

-----------------------------------------------------------------------------
(* The sessions.                                                           *)

\* The setting the retention worker's comment relies on.
WindowFits == RehydrateWindow =< Retention

\* The rows' ages, and what the goroutines still have to do.
SessionInv ==
    /\ WindowFits
    /\ srow \in [SIds -> 0 .. NoRow]
    /\ scalls \subseteq {"insert", "delete", "touch"} \X SIds

LEMMA AgesBounded ==
    MaxAge \in Nat /\ NoRow = MaxAge + 1 /\ RehydrateWindow < MaxAge /\ Retention < MaxAge
<1>1. \E x \in {RehydrateWindow, Retention, EpisodeTTL} :
         \A y \in {RehydrateWindow, Retention, EpisodeTTL} : x >= y
  BY SessionsAssumption
<1>2. Max({RehydrateWindow, Retention, EpisodeTTL}) \in {RehydrateWindow, Retention, EpisodeTTL}
      /\ \A y \in {RehydrateWindow, Retention, EpisodeTTL} :
            Max({RehydrateWindow, Retention, EpisodeTTL}) >= y
  BY <1>1 DEF Max
<1> QED
  BY <1>2, SessionsAssumption DEF MaxAge, NoRow

LEMMA SessionStepKeeps ==
    SessionInv /\ [SessionsNext]_sessionVars =>
        /\ SessionInv'
        /\ \A s \in Rehydratable : srow'[s] = NoRow => <<"delete", s>> \in scalls \ scalls'
<1> SUFFICES ASSUME SessionInv, [SessionsNext]_sessionVars
             PROVE  /\ SessionInv'
                    /\ \A s \in Rehydratable :
                          srow'[s] = NoRow => <<"delete", s>> \in scalls \ scalls'
  OBVIOUS
<1> USE AgesBounded DEF SessionInv, WindowFits, Rehydratable
<1>0. RehydrateWindow \in Nat /\ Retention \in Nat /\ RehydrateWindow =< Retention
  BY SessionsAssumption
<1>1. CASE \E s \in SIds : RegisterSession(s) \/ UnregisterSession(s) \/ PostMessage(s)
  BY <1>0, <1>1 DEF RegisterSession, UnregisterSession, PostMessage
<1>2. ASSUME NEW c \in scalls, SessionCall(c)
      PROVE  /\ SessionInv'
             /\ \A s \in Rehydratable :
                   srow'[s] = NoRow => <<"delete", s>> \in scalls \ scalls'
  <2>1. PICK op \in {"insert", "delete", "touch"}, s \in SIds : c = <<op, s>>
    BY <1>2
  <2>2. RowAfter(op, srow[s]) \in 0 .. NoRow /\ (RowAfter(op, srow[s]) = NoRow =>
            op = "delete" \/ srow[s] = NoRow)
    BY DEF RowAfter
  <2>3. srow' = [srow EXCEPT ![s] = RowAfter(op, srow[s])] \/ srow' = srow
    BY <1>2, <2>1 DEF SessionCall
  <2>4. scalls' = scalls \ {c}
    BY <1>2 DEF SessionCall
  <2>5. \A t \in Rehydratable : t \in SIds /\ srow[t] # NoRow
    BY <1>0
  <2> QED
    BY <1>0, <2>1, <2>2, <2>3, <2>4, <2>5
<1>3. CASE DeleteOldSessions
  BY <1>0, <1>3 DEF DeleteOldSessions
<1>4. CASE RunEpisodeSweep \/ RehydrateSessions
  BY <1>0, <1>4 DEF RunEpisodeSweep, RehydrateSessions
<1>5. CASE HourPasses
  BY <1>0, <1>5 DEF HourPasses
<1>6. CASE SCrash
  BY <1>0, <1>6 DEF SCrash
<1>7. CASE UNCHANGED sessionVars
  BY <1>0, <1>7 DEF sessionVars
<1> QED
  BY <1>1, <1>2, <1>3, <1>4, <1>5, <1>6, <1>7 DEF SessionsNext

(* With a rehydration window no longer than the retention, for every set of     *)
(* sessions, crashes and failing calls: the only way a row that a restart would *)
(* turn into a session goes is the delete of its own clean disconnect.          *)
THEOREM RestartFindsSessions == WindowFits /\ SessionsSpec => RehydratableKept
<1>1. WindowFits /\ SessionsInit => SessionInv
  BY AgesBounded DEF SessionsInit, SessionInv
<1> QED
  BY <1>1, SessionStepKeeps, PTL DEF SessionsSpec, RehydratableKept
=============================================================================
