--------------------------- MODULE SequenceLemmas ---------------------------
(***************************************************************************)
(* What the loops of LeftFolds compute, for every sequence.  Induction is  *)
(* on a set of prefix lengths: it contains all of them because it has no   *)
(* least exception.                                                        *)
(***************************************************************************)
EXTENDS LeftFolds, SequencesExt, SequenceTheorems, FiniteSetTheorems, WellFoundedInduction, TLAPS

LEMMA SmallestNat ==
    ASSUME NEW T \in SUBSET Nat, T # {}
    PROVE  \E x \in T : \A y \in T : x =< y
<1>1. PICK x \in T : \A y \in T : ~(<<y, x>> \in OpToRel(<, Nat))
  BY NatLessThanWellFounded, WFMin
<1>2. \A y \in T : ~(y < x)
  BY <1>1 DEF OpToRel
<1> QED
  BY <1>2

\* A set of lengths that contains 0 and, with i, i + 1 contains all up to n.
LEMMA UpToAll ==
    ASSUME NEW n \in Nat, NEW T, 0 \in T, \A i \in 1 .. n : i - 1 \in T => i \in T
    PROVE  \A i \in 0 .. n : i \in T
<1> DEFINE B == {i \in 0 .. n : i \notin T}
<1> SUFFICES ASSUME B # {} PROVE FALSE
  OBVIOUS
<1>0. B \in SUBSET Nat
  OBVIOUS
<1>1. PICK x \in B : \A y \in B : x =< y
  <2> HIDE DEF B
  <2> QED
    BY <1>0, SmallestNat
<1>2. x \in 1 .. n /\ x - 1 \in 0 .. n /\ x - 1 \notin B
  BY <1>1
<1> QED
  BY <1>1, <1>2

\* The states of a loop that starts with b and whose i-th turn is G[i].
IsLoop(f, n, S, b, G) ==
    f \in [0 .. n -> S] /\ f[0] = b /\ \A i \in 1 .. n : f[i] = G[i][f[i - 1]]
AreTurns(G, n, S) == G \in [1 .. n -> [S -> S]]

LEMMA LoopExists ==
    ASSUME NEW n \in Nat, NEW S, NEW b \in S, NEW G, AreTurns(G, n, S)
    PROVE  \E f : IsLoop(f, n, S, b, G)
<1> USE DEF AreTurns
<1> DEFINE P(k, f) == f[0] = b /\ \A i \in 1 .. k : f[i] = G[i][f[i - 1]]
           T == {k \in 0 .. n : \E f \in [0 .. k -> S] : P(k, f)}
<1>1. 0 \in T
  <2>1. [i \in 0 .. 0 |-> b] \in [0 .. 0 -> S] /\ P(0, [i \in 0 .. 0 |-> b])
    OBVIOUS
  <2> HIDE DEF P
  <2> QED
    BY <2>1
<1>2. ASSUME NEW i \in 1 .. n, i - 1 \in T
      PROVE  i \in T
  <2>1. PICK f \in [0 .. i - 1 -> S] : P(i - 1, f)
    BY <1>2
  <2> DEFINE g == [k \in 0 .. i |-> IF k = i THEN G[i][f[i - 1]] ELSE f[k]]
  <2>2. f[i - 1] \in S /\ G[i][f[i - 1]] \in S
    OBVIOUS
  <2>3. g \in [0 .. i -> S]
    BY <2>2
  <2>4. P(i, g)
    <3>1. g[0] = b
      BY <2>1
    <3>2. ASSUME NEW k \in 1 .. i
          PROVE  g[k] = G[k][g[k - 1]]
      <4>1. g[k - 1] = f[k - 1] /\ k - 1 \in 0 .. i - 1
        OBVIOUS
      <4>2. CASE k = i
        <5>1. g[k] = G[k][f[k - 1]]
          BY <4>2
        <5> HIDE DEF g
        <5> QED
          BY <4>1, <5>1
      <4>3. CASE k # i
        <5>1. k \in 1 .. i - 1 /\ g[k] = f[k]
          BY <4>3
        <5> QED
          BY <2>1, <4>1, <5>1
      <4> QED
        BY <4>2, <4>3
    <3> QED
      BY <3>1, <3>2
  <2> HIDE DEF P, g
  <2> QED
    BY <2>3, <2>4
<1>3. \A k \in 0 .. n : k \in T
  <2> HIDE DEF T
  <2> QED
    BY <1>1, <1>2, UpToAll
<1>4. n \in T
  <2> HIDE DEF T
  <2> QED
    BY <1>3
<1> QED
  BY <1>4 DEF IsLoop

-----------------------------------------------------------------------------
(* Selections.                                                             *)

\* The elements of the first i places.
UpTo(s, i) == {s[j] : j \in 1 .. i}

LEMMA AppendFacts ==
    ASSUME NEW V, NEW s \in Seq(V), NEW x \in V
    PROVE  /\ Append(s, x) \in Seq(V) /\ Len(Append(s, x)) = Len(s) + 1
           /\ Range(Append(s, x)) = Range(s) \cup {x}
           /\ IsInjective(s) /\ x \notin Range(s) => IsInjective(Append(s, x))
<1> DEFINE t == Append(s, x)
<1>1. /\ t \in Seq(V) /\ Len(t) = Len(s) + 1 /\ Len(s) \in Nat
      /\ \A i \in 1 .. Len(s) : t[i] = s[i]
      /\ t[Len(s) + 1] = x
  BY AppendProperties
<1> HIDE DEF t
<1>2. DOMAIN t = 1 .. Len(s) + 1 /\ DOMAIN s = 1 .. Len(s)
  BY <1>1
<1>3. Range(t) = Range(s) \cup {x}
  BY <1>1, <1>2 DEF Range
<1>4. IsInjective(s) /\ x \notin Range(s) => IsInjective(t)
  BY <1>1, <1>2 DEF Range, IsInjective
<1> QED
  BY <1>1, <1>3, <1>4 DEF t

LEMMA OnlyLoop ==
    ASSUME NEW V, NEW s \in Seq(V), NEW A
    PROVE  \E f : /\ f[0] = <<>> /\ Only(s, A) = f[Len(s)]
                 /\ \A i \in 1 .. Len(s) : f[i] = IF s[i] \in A THEN Append(f[i - 1], s[i]) ELSE f[i - 1]
<1> DEFINE step(x, i) == IF s[i] \in A THEN Append(x, s[i]) ELSE x
<1>0. PICK n, b, S : n = Len(s) /\ b = <<>> /\ S = Seq(V)
  OBVIOUS
<1> DEFINE loop(f) == f = [i \in 0 .. n |-> IF i = 0 THEN b ELSE step(f[i - 1], i)]
<1>1. n \in Nat /\ b \in S
  BY <1>0
<1>2. \A x \in S, i \in 1 .. n : step(x, i) \in S
  BY <1>0
<1>3. Only(s, A) = (CHOOSE f : loop(f))[n]
  BY <1>0 DEF Only, LeftFold
<1> HIDE DEF step
<1>4. PICK G : AreTurns(G, n, S) /\ \A i \in 1 .. n, x \in S : G[i][x] = step(x, i)
  <2> DEFINE H == [i \in 1 .. n |-> [x \in S |-> step(x, i)]]
  <2>1. AreTurns(H, n, S) /\ \A i \in 1 .. n, x \in S : H[i][x] = step(x, i)
    BY <1>2 DEF AreTurns
  <2> HIDE DEF H
  <2> QED
    BY <2>1
<1>5. PICK g : IsLoop(g, n, S, b, G)
  BY <1>1, <1>4, LoopExists
<1>6. loop(g)
  <2>1. \A i \in 1 .. n : g[i - 1] \in S /\ g[i] = step(g[i - 1], i)
    BY <1>1, <1>4, <1>5 DEF IsLoop
  <2>2. \A i \in 0 .. n : g[i] = IF i = 0 THEN b ELSE step(g[i - 1], i)
    BY <1>1, <1>5, <2>1 DEF IsLoop
  <2> QED
    BY <1>5, <2>2 DEF IsLoop
<1>7. PICK f : loop(f) /\ Only(s, A) = f[n]
  <2> HIDE DEF loop
  <2> QED
    BY <1>3, <1>6
<1>8. f[0] = b /\ \A i \in 1 .. n : f[i] = step(f[i - 1], i)
  BY <1>1, <1>7
<1> QED
  BY <1>0, <1>7, <1>8 DEF step

\* A selection has the elements it is asked for, and each of them once if s had.
LEMMA OnlyFacts ==
    ASSUME NEW V, NEW s \in Seq(V), NEW A
    PROVE  /\ Only(s, A) \in Seq(V) /\ Len(Only(s, A)) =< Len(s)
           /\ Range(Only(s, A)) = Range(s) \cap A
           /\ IsInjective(s) => IsInjective(Only(s, A))
<1>1. PICK f : /\ f[0] = <<>> /\ Only(s, A) = f[Len(s)]
               /\ \A i \in 1 .. Len(s) :
                     f[i] = IF s[i] \in A THEN Append(f[i - 1], s[i]) ELSE f[i - 1]
  BY OnlyLoop
<1> DEFINE Good(i) == /\ f[i] \in Seq(V) /\ Len(f[i]) =< i
                      /\ Range(f[i]) = UpTo(s, i) \cap A
                      /\ IsInjective(s) => IsInjective(f[i])
           T == {i \in 0 .. Len(s) : Good(i)}
<1>2. Len(s) \in Nat /\ DOMAIN s = 1 .. Len(s) /\ \A i \in 1 .. Len(s) : s[i] \in V
  OBVIOUS
<1>3. Good(0)
  <2>1. <<>> \in Seq(V) /\ Len(<<>>) = 0 /\ Range(<<>>) = {} /\ IsInjective(<<>>)
    BY DEF Range, IsInjective
  <2>2. UpTo(s, 0) = {}
    BY DEF UpTo
  <2> QED
    BY <1>1, <2>1, <2>2
<1>4. ASSUME NEW i \in 1 .. Len(s), Good(i - 1) PROVE Good(i)
  <2>1. i - 1 \in Nat /\ UpTo(s, i) = UpTo(s, i - 1) \cup {s[i]}
    BY <1>2 DEF UpTo
  <2>2. IsInjective(s) => s[i] \notin UpTo(s, i - 1)
    BY <1>2 DEF UpTo, IsInjective
  <2>3. CASE s[i] \in A
    <3>1. f[i] = Append(f[i - 1], s[i])
      BY <1>1, <2>3
    <3>2. Len(f[i - 1]) \in Nat
      BY <1>4
    <3> QED
      BY <1>2, <1>4, <2>1, <2>2, <2>3, <3>1, <3>2, AppendFacts
  <2>4. CASE s[i] \notin A
    <3>1. f[i] = f[i - 1]
      BY <1>1, <2>4
    <3>2. Len(f[i - 1]) \in Nat
      BY <1>4
    <3> QED
      BY <1>4, <2>1, <2>4, <3>1, <3>2
  <2> QED
    BY <2>3, <2>4
<1>5. Good(Len(s))
  <2> HIDE DEF Good
  <2>1. 0 \in T
    BY <1>2, <1>3
  <2>2. \A i \in 1 .. Len(s) : i - 1 \in T => i \in T
    BY <1>2, <1>4
  <2> HIDE DEF T
  <2>3. \A i \in 0 .. Len(s) : i \in T
    BY <1>2, <2>1, <2>2, UpToAll
  <2>4. Len(s) \in T
    BY <1>2, <2>3
  <2> QED
    BY <2>4 DEF T
<1>6. UpTo(s, Len(s)) = Range(s)
  BY <1>2 DEF UpTo, Range
<1> QED
  BY <1>1, <1>5, <1>6

LEMMA WithoutFacts ==
    ASSUME NEW V, NEW s \in Seq(V), NEW A
    PROVE  /\ Without(s, A) \in Seq(V) /\ Len(Without(s, A)) =< Len(s)
           /\ Range(Without(s, A)) = Range(s) \ A
           /\ IsInjective(s) => IsInjective(Without(s, A))
<1>1. Without(s, A) = Only(s, Range(s) \ A)
  BY DEF Without, Range
<1> QED
  BY <1>1, OnlyFacts

-----------------------------------------------------------------------------
(* Pieces, joins and enumerations.                                         *)

\* A piece of a sequence.
LEMMA PieceFacts ==
    ASSUME NEW V, NEW s \in Seq(V), NEW m \in Nat, NEW n \in Nat,
           1 =< m, m =< n + 1, n =< Len(s)
    PROVE  /\ SubSeq(s, m, n) \in Seq(V) /\ Len(SubSeq(s, m, n)) = n - m + 1
           /\ \A i \in 1 .. n - m + 1 : SubSeq(s, m, n)[i] = s[i + m - 1]
           /\ Range(SubSeq(s, m, n)) = {s[i] : i \in m .. n}
           /\ IsInjective(s) => IsInjective(SubSeq(s, m, n))
<1> DEFINE t == SubSeq(s, m, n)
<1>1. Len(s) \in Nat /\ DOMAIN s = 1 .. Len(s) /\ \A i \in 1 .. Len(s) : s[i] \in V
  OBVIOUS
<1>2. t = [i \in 1 .. n - m + 1 |-> s[i + m - 1]]
  BY <1>1
<1>3. n - m + 1 \in Nat /\ \A i \in 1 .. n - m + 1 : i + m - 1 \in 1 .. Len(s)
  BY <1>1
<1>4. t \in Seq(V) /\ Len(t) = n - m + 1
  BY <1>1, <1>2, <1>3
<1> HIDE DEF t
<1>5. DOMAIN t = 1 .. n - m + 1 /\ \A i \in 1 .. n - m + 1 : t[i] = s[i + m - 1]
  BY <1>2
<1>6. \A i \in m .. n : i - m + 1 \in 1 .. n - m + 1 /\ t[i - m + 1] = s[i]
  BY <1>5
<1>7. Range(t) = {s[i] : i \in m .. n}
  <2>1. \A i \in 1 .. n - m + 1 : i + m - 1 \in m .. n
    OBVIOUS
  <2> QED
    BY <1>5, <1>6, <2>1 DEF Range
<1>8. ASSUME IsInjective(s) PROVE IsInjective(t)
  <2>1. ASSUME NEW i \in 1 .. n - m + 1, NEW j \in 1 .. n - m + 1, t[i] = t[j]
        PROVE  i = j
    <3>1. i + m - 1 = j + m - 1
      BY <1>1, <1>3, <1>5, <1>8, <2>1 DEF IsInjective
    <3> QED
      BY <3>1
  <2> QED
    BY <1>5, <2>1 DEF IsInjective
<1> QED
  BY <1>4, <1>5, <1>7, <1>8 DEF t

\* The first n elements.
LEMMA PrefixFacts ==
    ASSUME NEW V, NEW s \in Seq(V), NEW n \in Nat, n =< Len(s)
    PROVE  /\ SubSeq(s, 1, n) \in Seq(V) /\ Len(SubSeq(s, 1, n)) = n
           /\ \A i \in 1 .. n : SubSeq(s, 1, n)[i] = s[i]
           /\ Range(SubSeq(s, 1, n)) = UpTo(s, n)
           /\ Range(SubSeq(s, 1, n)) \subseteq Range(s)
           /\ IsInjective(s) => IsInjective(SubSeq(s, 1, n))
<1> DEFINE t == SubSeq(s, 1, n)
<1>1. Len(s) \in Nat /\ DOMAIN s = 1 .. Len(s) /\ \A i \in 1 .. Len(s) : s[i] \in V
  OBVIOUS
<1>2. t = [i \in 1 .. n |-> s[i]]
  BY <1>1
<1>3. t \in Seq(V) /\ Len(t) = n
  BY <1>1, <1>2
<1> HIDE DEF t
<1>4. DOMAIN t = 1 .. n /\ \A i \in 1 .. n : t[i] = s[i] /\ i \in 1 .. Len(s)
  BY <1>1, <1>2
<1>5. Range(t) = UpTo(s, n) /\ Range(t) \subseteq Range(s)
  BY <1>1, <1>4 DEF Range, UpTo
<1>6. IsInjective(s) => IsInjective(t)
  BY <1>1, <1>4 DEF IsInjective
<1> QED
  BY <1>3, <1>4, <1>5, <1>6 DEF t

LEMMA ConcatFacts ==
    ASSUME NEW V, NEW s \in Seq(V), NEW t \in Seq(V)
    PROVE  /\ s \o t \in Seq(V) /\ Len(s \o t) = Len(s) + Len(t)
           /\ \A i \in 1 .. Len(s) : (s \o t)[i] = s[i]
           /\ \A i \in 1 .. Len(t) : (s \o t)[Len(s) + i] = t[i]
           /\ Range(s \o t) = Range(s) \cup Range(t)
           /\ IsInjective(s) /\ IsInjective(t) /\ Range(s) \cap Range(t) = {} => IsInjective(s \o t)
<1> DEFINE u == s \o t
<1>1. /\ Len(s) \in Nat /\ Len(t) \in Nat
      /\ DOMAIN s = 1 .. Len(s) /\ DOMAIN t = 1 .. Len(t)
  OBVIOUS
<1>2. /\ u \in Seq(V) /\ Len(u) = Len(s) + Len(t) /\ DOMAIN u = 1 .. Len(s) + Len(t)
      /\ \A i \in 1 .. Len(s) + Len(t) : u[i] = IF i =< Len(s) THEN s[i] ELSE t[i - Len(s)]
  OBVIOUS
<1> HIDE DEF u
<1>3. \A i \in 1 .. Len(s) : u[i] = s[i] /\ i \in DOMAIN u
  BY <1>1, <1>2
<1>4. \A i \in 1 .. Len(t) : u[Len(s) + i] = t[i] /\ Len(s) + i \in DOMAIN u
  BY <1>1, <1>2, SMTT(60)
<1>5. \A i \in DOMAIN u : i \in 1 .. Len(s) \/ (i - Len(s) \in 1 .. Len(t) /\ u[i] = t[i - Len(s)])
  BY <1>1, <1>2, SMTT(60)
<1>6. Range(u) = Range(s) \cup Range(t)
  <2>1. Range(u) \subseteq Range(s) \cup Range(t)
    BY <1>1, <1>3, <1>5 DEF Range
  <2>2. Range(s) \cup Range(t) \subseteq Range(u)
    BY <1>1, <1>3, <1>4 DEF Range
  <2> QED
    BY <2>1, <2>2
<1>7. ASSUME IsInjective(s), IsInjective(t), Range(s) \cap Range(t) = {}
      PROVE  IsInjective(u)
  <2>1. \A i \in 1 .. Len(s), j \in 1 .. Len(t) : s[i] # t[j]
    BY <1>1, <1>7 DEF Range
  <2>2. ASSUME NEW i \in DOMAIN u, NEW j \in DOMAIN u, u[i] = u[j]
        PROVE  i = j
    <3>1. i \in Nat /\ j \in Nat
      BY <1>1, <1>2
    <3>2. CASE i \in 1 .. Len(s) /\ j \in 1 .. Len(s)
      BY <1>1, <1>3, <1>7, <2>2, <3>2 DEF IsInjective
    <3>3. CASE i \in 1 .. Len(s) /\ j \notin 1 .. Len(s)
      BY <1>3, <1>5, <2>1, <2>2, <3>3
    <3>4. CASE i \notin 1 .. Len(s) /\ j \in 1 .. Len(s)
      BY <1>3, <1>5, <2>1, <2>2, <3>4
    <3>5. CASE i \notin 1 .. Len(s) /\ j \notin 1 .. Len(s)
      <4>1. i - Len(s) = j - Len(s)
        BY <1>1, <1>5, <1>7, <2>2, <3>5 DEF IsInjective
      <4> QED
        BY <1>1, <3>1, <4>1
    <3> QED
      BY <3>2, <3>3, <3>4, <3>5
  <2> QED
    BY <2>2 DEF IsInjective
<1> QED
  BY <1>2, <1>3, <1>4, <1>6, <1>7 DEF u

\* The numbers up to n are n.
LEMMA IntervalCount ==
    ASSUME NEW n \in Nat
    PROVE  IsFiniteSet(1 .. n) /\ Cardinality(1 .. n) = n
<1>1. 1 \in Int /\ n \in Int /\ (1 > n => n = 0) /\ n - 1 + 1 = n
  OBVIOUS
<1>2. IsFiniteSet(1 .. n) /\ Cardinality(1 .. n) = IF 1 > n THEN 0 ELSE n - 1 + 1
  BY <1>1, FS_Interval, Zenon
<1> QED
  BY <1>1, <1>2, Zenon

\* A sequence without repetitions is as long as its set is large.
LEMMA InjectiveCount ==
    ASSUME NEW V, NEW s \in Seq(V), IsInjective(s)
    PROVE  IsFiniteSet(Range(s)) /\ Cardinality(Range(s)) = Len(s)
<1>1. Len(s) \in Nat /\ DOMAIN s = 1 .. Len(s) /\ s = [i \in 1 .. Len(s) |-> s[i]]
  OBVIOUS
<1>2. IsFiniteSet(1 .. Len(s)) /\ Cardinality(1 .. Len(s)) = Len(s)
  <2>1. Len(s) \in Nat
    OBVIOUS
  <2> QED
    BY <2>1, IntervalCount, Zenon
<1>3. s \in Bijection(1 .. Len(s), Range(s))
  BY <1>1 DEF Bijection, Injection, Surjection, Range, IsInjective
<1>4. ExistsBijection(1 .. Len(s), Range(s))
  BY <1>3 DEF ExistsBijection
<1> QED
  BY <1>2, <1>4, FS_Bijection

\* In general it is not longer than its sequence.
LEMMA RangeFinite ==
    ASSUME NEW V, NEW s \in Seq(V)
    PROVE  IsFiniteSet(Range(s)) /\ Cardinality(Range(s)) =< Len(s)
<1>1. Len(s) \in Nat /\ DOMAIN s = 1 .. Len(s) /\ s = [i \in 1 .. Len(s) |-> s[i]]
  OBVIOUS
<1>2. IsFiniteSet(1 .. Len(s)) /\ Cardinality(1 .. Len(s)) = Len(s)
  <2>1. Len(s) \in Nat
    OBVIOUS
  <2> QED
    BY <2>1, IntervalCount, Zenon
<1>3. s \in Surjection(1 .. Len(s), Range(s))
  BY <1>1 DEF Surjection, Range
<1> QED
  BY <1>2, <1>3, FS_Surjection

\* An enumeration of a set has each element once.
LEMMA EnumerationFacts ==
    ASSUME NEW S, IsFiniteSet(S), NEW p \in SetToSeqs(S)
    PROVE  p \in Seq(S) /\ IsInjective(p) /\ Range(p) = S /\ Len(p) = Cardinality(S)
<1>1. Cardinality(S) \in Nat
  BY FS_CardinalityType
<1>2. p \in [1 .. Cardinality(S) -> S] /\ IsInjective(p)
  BY DEF SetToSeqs, IsInjective
<1>3. p \in Seq(S) /\ Len(p) = Cardinality(S)
  BY <1>1, <1>2
<1>4. Range(p) \in SUBSET S /\ Cardinality(Range(p)) = Cardinality(S)
  BY <1>2, <1>3, InjectiveCount DEF Range
<1>5. Range(p) = S
  BY <1>4, FS_Subset
<1> QED
  BY <1>2, <1>3, <1>5

\* The enumeration SetToSeq chooses.
LEMMA ChosenEnumeration ==
    ASSUME NEW S, IsFiniteSet(S)
    PROVE  SetToSeq(S) \in Seq(S) /\ IsInjective(SetToSeq(S)) /\ Range(SetToSeq(S)) = S
<1>1. PICK n \in Nat : ExistsBijection(1 .. n, S)
  BY FS_NatBijection
<1>2. Cardinality(S) = n
  BY <1>1, FS_CountingElements
<1>3. PICK g \in Bijection(1 .. n, S) : TRUE
  BY <1>1 DEF ExistsBijection
<1>4. g \in [1 .. Cardinality(S) -> S] /\ IsInjective(g)
  BY <1>2, <1>3 DEF Bijection, Injection, IsInjective
<1>5. SetToSeq(S) \in [1 .. Cardinality(S) -> S] /\ IsInjective(SetToSeq(S))
  BY <1>4 DEF SetToSeq
<1>6. SetToSeq(S) \in SetToSeqs(S)
  BY <1>5 DEF SetToSeqs, IsInjective
<1> QED
  BY <1>6, EnumerationFacts

\* Least and greatest elements.
LEMMA LesserOfTwo ==
    ASSUME NEW m \in Nat, NEW n \in Nat
    PROVE  Min({m, n}) \in Nat /\ Min({m, n}) =< m /\ Min({m, n}) =< n /\ Min({m, n}) \in {m, n}
<1>1. \E x \in {m, n} : \A y \in {m, n} : x =< y
  OBVIOUS
<1>2. Min({m, n}) \in {m, n} /\ \A y \in {m, n} : Min({m, n}) =< y
  BY <1>1 DEF Min
<1> QED
  BY <1>2

LEMMA GreatestBelow ==
    ASSUME NEW n \in Nat, NEW T \in SUBSET (0 .. n), T # {}
    PROVE  Max(T) \in T /\ \A y \in T : y =< Max(T)
<1> DEFINE D == {n - y : y \in T}
<1>1. D \in SUBSET Nat /\ D # {}
  <2>1. \A y \in T : y \in 0 .. n
    OBVIOUS
  <2>2. \A y \in T : n - y \in Nat
    BY <2>1
  <2>3. PICK z : z \in T
    BY Zenon
  <2>4. n - z \in D
    BY <2>3, Zenon
  <2>5. \A e \in D : e \in Nat
    BY <2>2, Zenon
  <2> QED
    BY <2>4, <2>5, Zenon
<1>2. PICK d \in D : \A e \in D : d =< e
  <2> HIDE DEF D
  <2> QED
    BY <1>1, SmallestNat
<1>3. PICK x \in T : d = n - x
  BY <1>2
<1>4. \A y \in T : x >= y
  <2> SUFFICES ASSUME NEW y \in T PROVE x >= y
    OBVIOUS
  <2>1. n - y \in D /\ x \in 0 .. n /\ y \in 0 .. n
    OBVIOUS
  <2>2. n - x =< n - y
    BY <1>2, <1>3, <2>1
  <2> QED
    BY <2>1, <2>2
<1>5. Max(T) \in T /\ \A y \in T : Max(T) >= y
  <2> HIDE DEF D
  <2> QED
    BY <1>4 DEF Max
<1>6. PICK m : m = Max(T)
  OBVIOUS
<1>7. m \in 0 .. n /\ \A y \in T : y \in 0 .. n /\ m >= y
  BY <1>5, <1>6
<1> QED
  BY <1>5, <1>6, <1>7

-----------------------------------------------------------------------------
(* Selecting from sequences, and joining them.                             *)

\* Joining pieces is a loop that appends one piece a turn.
LEMMA ConcatLoop ==
    ASSUME NEW V, NEW s \in Seq(Seq(V))
    PROVE  \E f : /\ f[0] = <<>> /\ Concat(s) = f[Len(s)]
                 /\ \A i \in 1 .. Len(s) : f[i] = f[i - 1] \o s[i]
<1> DEFINE step(x, i) == x \o s[i]
<1>1. PICK nn, bb, SS : nn = Len(s) /\ bb = <<>> /\ SS = Seq(V)
  OBVIOUS
<1> DEFINE loop(f) == f = [i \in 0 .. nn |-> IF i = 0 THEN bb ELSE step(f[i - 1], i)]
<1>2. nn \in Nat /\ bb \in SS
  BY <1>1
<1>3. \A x \in SS, i \in 1 .. nn : step(x, i) \in SS
  BY <1>1, ConcatProperties
<1>4. Concat(s) = (CHOOSE f : loop(f))[nn]
  BY <1>1 DEF Concat, LeftFold
<1> HIDE DEF step
<1>5. PICK G : AreTurns(G, nn, SS) /\ \A i \in 1 .. nn, x \in SS : G[i][x] = step(x, i)
  <2> DEFINE H == [i \in 1 .. nn |-> [x \in SS |-> step(x, i)]]
  <2>1. AreTurns(H, nn, SS) /\ \A i \in 1 .. nn, x \in SS : H[i][x] = step(x, i)
    BY <1>3 DEF AreTurns
  <2> HIDE DEF H
  <2> QED
    BY <2>1
<1>6. PICK g : IsLoop(g, nn, SS, bb, G)
  BY <1>2, <1>5, LoopExists
<1>7. loop(g)
  <2>1. \A i \in 1 .. nn : g[i - 1] \in SS /\ g[i] = step(g[i - 1], i)
    BY <1>2, <1>5, <1>6 DEF IsLoop
  <2>2. \A i \in 0 .. nn : g[i] = IF i = 0 THEN bb ELSE step(g[i - 1], i)
    BY <1>2, <1>6, <2>1 DEF IsLoop
  <2> QED
    BY <1>6, <2>2 DEF IsLoop
<1>8. PICK f : loop(f) /\ Concat(s) = f[nn]
  <2> HIDE DEF loop
  <2> QED
    BY <1>4, <1>7
<1>9. f[0] = bb /\ \A i \in 1 .. nn : f[i] = step(f[i - 1], i)
  BY <1>2, <1>8
<1> QED
  BY <1>1, <1>8, <1>9 DEF step

\* Two loops that agree at the start and keep agreeing agree at the end.
LEMMA LoopsAgree ==
    ASSUME NEW n \in Nat, NEW f, NEW g, f[0] = g[0],
           \A i \in 1 .. n : f[i - 1] = g[i - 1] => f[i] = g[i]
    PROVE  f[n] = g[n]
<1> DEFINE T == {i \in 0 .. n : f[i] = g[i]}
<1>1. 0 \in T /\ \A i \in 1 .. n : i - 1 \in T => i \in T
  OBVIOUS
<1> HIDE DEF T
<1>2. n \in T
  BY <1>1, UpToAll
<1> QED
  BY <1>2 DEF T

\* Induction up to n: T is reached from 0, one step at a time.
LEMMA UpToEnd ==
    ASSUME NEW n \in Nat, NEW T, 0 \in T, \A i \in 1 .. n : i - 1 \in T => i \in T
    PROVE  n \in T
<1>1. \A i \in 0 .. n : i \in T
  BY UpToAll
<1> QED
  BY <1>1

\* A longer sequence has the elements of the shorter one, and one more.
LEMMA AppendPlaces ==
    ASSUME NEW V, NEW s \in Seq(V), NEW x \in V
    PROVE  /\ Len(s) \in Nat /\ Len(Append(s, x)) = Len(s) + 1
           /\ \A i \in 1 .. Len(s) : Append(s, x)[i] = s[i]
           /\ Append(s, x)[Len(s) + 1] = x
BY AppendProperties

\* A sequence without an element is empty.
LEMMA NoneIsEmpty ==
    ASSUME NEW V, NEW s \in Seq(V), Range(s) = {}
    PROVE  s = <<>>
<1>1. Len(s) \in Nat /\ \A i \in 1 .. Len(s) : s[i] \in Range(s)
  BY DEF Range
<1>2. Len(s) = 0
  BY <1>1
<1> QED
  BY <1>2

\* One turn of a selection, and one of joining.
OnlyTurn(p, x, A) == IF x \in A THEN Append(p, x) ELSE p
JoinTurn(p, x) == p \o x

\* Selecting from a longer sequence is one more turn.
LEMMA OnlyAppend ==
    ASSUME NEW V, NEW s \in Seq(V), NEW x \in V, NEW A
    PROVE  Only(Append(s, x), A) = OnlyTurn(Only(s, A), x, A)
<1>1. PICK t, n : t = Append(s, x) /\ n = Len(s)
  OBVIOUS
<1>2. n \in Nat /\ t \in Seq(V) /\ Len(t) = n + 1
  BY <1>1, AppendPlaces, AppendFacts
<1>3. (\A i \in 1 .. n : t[i] = s[i]) /\ t[n + 1] = x
  BY <1>1, AppendPlaces
<1>4. PICK f : /\ f[0] = <<>> /\ Only(s, A) = f[n]
               /\ \A i \in 1 .. n : f[i] = OnlyTurn(f[i - 1], s[i], A)
  BY <1>1, OnlyLoop DEF OnlyTurn
<1>5. PICK g : /\ g[0] = <<>> /\ Only(t, A) = g[n + 1]
               /\ \A i \in 1 .. n + 1 : g[i] = OnlyTurn(g[i - 1], t[i], A)
  <2>1. t \in Seq(V)
    BY <1>2
  <2>2. PICK g : /\ g[0] = <<>> /\ Only(t, A) = g[Len(t)]
                 /\ \A i \in 1 .. Len(t) : g[i] = IF t[i] \in A THEN Append(g[i - 1], t[i]) ELSE g[i - 1]
    BY <2>1, OnlyLoop
  <2> QED
    BY <1>2, <2>2 DEF OnlyTurn
<1>6. f[n] = g[n]
  <2>1. f[0] = g[0]
    BY <1>4, <1>5
  <2>2. \A i \in 1 .. n : g[i] = OnlyTurn(g[i - 1], s[i], A)
    BY <1>2, <1>3, <1>5
  <2>3. \A i \in 1 .. n : f[i - 1] = g[i - 1] => f[i] = g[i]
    BY <1>4, <2>2
  <2> QED
    BY <1>2, <2>1, <2>3, LoopsAgree
<1>7. g[n + 1] = OnlyTurn(g[n], x, A)
  <2>1. n + 1 \in 1 .. n + 1 /\ n + 1 - 1 = n
    BY <1>2
  <2>2. g[n + 1] = OnlyTurn(g[n + 1 - 1], t[n + 1], A)
    BY <1>2, <1>5, <2>1
  <2> QED
    BY <1>3, <2>1, <2>2
<1> QED
  BY <1>1, <1>4, <1>5, <1>6, <1>7

\* Joining one piece more appends it.
LEMMA ConcatAppend ==
    ASSUME NEW V, NEW s \in Seq(Seq(V)), NEW x \in Seq(V)
    PROVE  Concat(Append(s, x)) = Concat(s) \o x
<1>1. PICK W : W = Seq(V)
  OBVIOUS
<1>2. PICK t, n : t = Append(s, x) /\ n = Len(s)
  OBVIOUS
<1>3. n \in Nat /\ t \in Seq(W) /\ Len(t) = n + 1
  BY <1>1, <1>2, AppendPlaces, AppendFacts
<1>4. (\A i \in 1 .. n : t[i] = s[i]) /\ t[n + 1] = x
  BY <1>1, <1>2, AppendPlaces
<1>5. PICK f : /\ f[0] = <<>> /\ Concat(s) = f[n]
               /\ \A i \in 1 .. n : f[i] = JoinTurn(f[i - 1], s[i])
  BY <1>2, ConcatLoop DEF JoinTurn
<1>6. PICK g : /\ g[0] = <<>> /\ Concat(t) = g[n + 1]
               /\ \A i \in 1 .. n + 1 : g[i] = JoinTurn(g[i - 1], t[i])
  <2>1. t \in Seq(Seq(V))
    BY <1>1, <1>3
  <2>2. PICK g : /\ g[0] = <<>> /\ Concat(t) = g[Len(t)]
                 /\ \A i \in 1 .. Len(t) : g[i] = g[i - 1] \o t[i]
    BY <2>1, ConcatLoop
  <2> QED
    BY <1>3, <2>2 DEF JoinTurn
<1>7. f[n] = g[n]
  <2>1. f[0] = g[0]
    BY <1>5, <1>6
  <2>2. \A i \in 1 .. n : g[i] = JoinTurn(g[i - 1], s[i])
    BY <1>3, <1>4, <1>6
  <2>3. \A i \in 1 .. n : f[i - 1] = g[i - 1] => f[i] = g[i]
    BY <1>5, <2>2
  <2> QED
    BY <1>3, <2>1, <2>3, LoopsAgree
<1>8. g[n + 1] = JoinTurn(g[n], x)
  <2>1. n + 1 \in 1 .. n + 1 /\ n + 1 - 1 = n
    BY <1>3
  <2>2. g[n + 1] = JoinTurn(g[n + 1 - 1], t[n + 1])
    BY <1>3, <1>6, <2>1
  <2> QED
    BY <1>4, <2>1, <2>2
<1> QED
  BY <1>2, <1>5, <1>6, <1>7, <1>8 DEF JoinTurn

\* Appending an element to the second of two sequences appends it to both.
LEMMA ConcatOfAppend ==
    ASSUME NEW V, NEW s \in Seq(V), NEW t \in Seq(V), NEW x \in V
    PROVE  s \o Append(t, x) = Append(s \o t, x)
<1>1. <<x>> \in Seq(V) /\ s \o t \in Seq(V)
  BY ConcatProperties
<1>2. Append(t, x) = t \o <<x>> /\ Append(s \o t, x) = (s \o t) \o <<x>>
  BY <1>1, AppendIsConcat
<1> QED
  BY <1>1, <1>2, ConcatAssociative

\* Joining is associative.
LEMMA JoinThree ==
    ASSUME NEW V, NEW s \in Seq(V), NEW t \in Seq(V), NEW u \in Seq(V)
    PROVE  s \o (t \o u) = (s \o t) \o u
<1>1. (s \o t) \o u = s \o (t \o u)
  BY ConcatAssociative, SMTT(60)
<1> QED
  BY <1>1, Zenon

\* The prefix of length 0.
LEMMA EmptyPrefix == \A s : SubSeq(s, 1, 0) = <<>>
BY SubSeqEmpty

\* The first i elements and the next one.
LEMMA PrefixGrows ==
    ASSUME NEW V, NEW s \in Seq(V), NEW i \in 1 .. Len(s)
    PROVE  /\ s[i] \in V /\ SubSeq(s, 1, i - 1) \in Seq(V)
           /\ SubSeq(s, 1, i) = Append(SubSeq(s, 1, i - 1), s[i])
<1>1. PICK p, q, x : p = SubSeq(s, 1, i - 1) /\ q = SubSeq(s, 1, i) /\ x = s[i]
  OBVIOUS
<1>2. i \in Nat /\ i - 1 \in Nat /\ i =< Len(s) /\ i - 1 =< Len(s) /\ s[i] \in V
  OBVIOUS
<1>3. p \in Seq(V) /\ Len(p) = i - 1 /\ (\A j \in 1 .. i - 1 : p[j] = s[j])
  BY <1>1, <1>2, PrefixFacts
<1>4. q \in Seq(V) /\ Len(q) = i /\ (\A j \in 1 .. i : q[j] = s[j])
  BY <1>1, <1>2, PrefixFacts
<1>5. PICK r : r = Append(p, x)
  OBVIOUS
<1>6. r \in Seq(V) /\ Len(r) = Len(p) + 1 /\ (\A j \in 1 .. Len(p) : r[j] = p[j]) /\ r[Len(p) + 1] = x
  BY <1>1, <1>2, <1>3, <1>5, AppendProperties
<1>7. Len(r) = i /\ (\A j \in 1 .. i - 1 : r[j] = p[j]) /\ r[i] = x
  <2>1. Len(p) + 1 = i
    BY <1>2, <1>3
  <2> QED
    BY <1>3, <1>6, <2>1
<1>8. \A j \in 1 .. i : q[j] = r[j]
  BY <1>1, <1>2, <1>3, <1>4, <1>7
<1>9. q = r
  BY <1>4, <1>6, <1>7, <1>8, SeqEqual
<1> QED
  BY <1>1, <1>2, <1>3, <1>5, <1>9

\* A selection of two sequences is the selections one after the other.
LEMMA OnlyConcat ==
    ASSUME NEW V, NEW s \in Seq(V), NEW t \in Seq(V), NEW A
    PROVE  Only(s \o t, A) = Only(s, A) \o Only(t, A)
<1>1. PICK m \in Nat : m = Len(t)
  OBVIOUS
<1> DEFINE Same(u) == Only(s \o u, A) = Only(s, A) \o Only(u, A)
           T == {i \in 0 .. m : Same(SubSeq(t, 1, i))}
<1>2. PICK a \in Seq(V) : a = Only(s, A)
  BY OnlyFacts
<1>3. Same(<<>>)
  <2>1. <<>> \in Seq(V)
    OBVIOUS
  <2>2. PICK e \in Seq(V) : e = <<>>
    BY <2>1
  <2>3. Range(e) = {}
    BY <2>2 DEF Range
  <2>4. Only(<<>>, A) = <<>>
    <3>1. Only(e, A) \in Seq(V) /\ Range(Only(e, A)) = {}
      BY <2>3, OnlyFacts
    <3>2. Only(e, A) = <<>>
      BY <3>1, NoneIsEmpty
    <3> QED
      BY <2>2, <3>2
  <2>5. s \o <<>> = s /\ a \o <<>> = a
    BY <1>2, ConcatEmptySeq
  <2> QED
    BY <1>2, <2>4, <2>5
<1>4. ASSUME NEW u \in Seq(V), NEW x \in V, Same(u) PROVE Same(Append(u, x))
  <2>1. PICK b \in Seq(V) : b = Only(u, A)
    BY OnlyFacts
  <2>2. s \o Append(u, x) = Append(s \o u, x) /\ s \o u \in Seq(V)
    BY ConcatOfAppend, ConcatProperties
  <2>3. Only(s \o Append(u, x), A) = OnlyTurn(a \o b, x, A)
    BY <1>2, <1>4, <2>1, <2>2, OnlyAppend
  <2>4. Only(Append(u, x), A) = OnlyTurn(b, x, A)
    BY <2>1, OnlyAppend
  <2>5. OnlyTurn(a \o b, x, A) = a \o OnlyTurn(b, x, A)
    <3>1. CASE x \in A
      <4>1. a \o Append(b, x) = Append(a \o b, x)
        BY ConcatOfAppend
      <4> QED
        BY <3>1, <4>1 DEF OnlyTurn
    <3>2. CASE x \notin A
      BY <3>2 DEF OnlyTurn
    <3> QED
      BY <3>1, <3>2
  <2> QED
    BY <1>2, <2>3, <2>4, <2>5
<1> HIDE DEF Same
<1>5. 0 \in T
  <2>1. Same(SubSeq(t, 1, 0))
    BY <1>3, EmptyPrefix
  <2> QED
    BY <2>1
<1>6. \A i \in 1 .. m : i - 1 \in T => i \in T
  <2> SUFFICES ASSUME NEW i \in 1 .. m, Same(SubSeq(t, 1, i - 1)) PROVE Same(SubSeq(t, 1, i))
    BY <1>1
  <2>1. i \in 1 .. Len(t)
    BY <1>1
  <2> QED
    BY <1>4, <2>1, PrefixGrows
<1> HIDE DEF T
<1>7. m \in T
  BY <1>5, <1>6, UpToEnd
<1>8. SubSeq(t, 1, m) = t
  BY <1>1, SubSeqFull
<1> QED
  BY <1>7, <1>8 DEF T, Same

\* All elements of the sequences of ss.
Said(ss) == UNION {Range(ss[k]) : k \in DOMAIN ss}

\* The elements of one sequence more.
LEMMA SaidAppend ==
    ASSUME NEW V, NEW cs \in Seq(V), NEW c \in V
    PROVE  Said(Append(cs, c)) = Said(cs) \cup Range(c)
<1>1. PICK n \in Nat : n = Len(cs)
  OBVIOUS
<1>2. PICK t : t = Append(cs, c)
  OBVIOUS
<1>3. DOMAIN t = 1 .. n + 1 /\ DOMAIN cs = 1 .. n
  <2>1. t \in Seq(V) /\ Len(t) = n + 1
    BY <1>1, <1>2, AppendProperties
  <2> QED
    BY <1>1, <2>1
<1>4. (\A i \in 1 .. n : t[i] = cs[i]) /\ t[n + 1] = c
  BY <1>1, <1>2, AppendPlaces
<1>5. \A k \in 1 .. n + 1 : k = n + 1 \/ k \in 1 .. n
  OBVIOUS
<1>6. n + 1 \in 1 .. n + 1 /\ \A k \in 1 .. n : k \in 1 .. n + 1
  OBVIOUS
<1>7. Said(t) \subseteq Said(cs) \cup Range(c)
  <2> SUFFICES ASSUME NEW y \in Said(t) PROVE y \in Said(cs) \cup Range(c)
    OBVIOUS
  <2>1. PICK k \in 1 .. n + 1 : y \in Range(t[k])
    BY <1>3 DEF Said
  <2>2. CASE k = n + 1
    BY <1>4, <2>1, <2>2
  <2>3. CASE k \in 1 .. n
    <3>1. y \in Range(cs[k])
      BY <1>4, <2>1, <2>3
    <3> QED
      BY <1>3, <2>3, <3>1 DEF Said
  <2> QED
    BY <1>5, <2>2, <2>3
<1>8. Said(cs) \subseteq Said(t)
  <2> SUFFICES ASSUME NEW y \in Said(cs) PROVE y \in Said(t)
    OBVIOUS
  <2>1. PICK k \in 1 .. n : y \in Range(cs[k])
    BY <1>3 DEF Said
  <2>2. k \in 1 .. n + 1 /\ y \in Range(t[k])
    BY <1>4, <1>6, <2>1
  <2> QED
    BY <1>3, <2>2 DEF Said
<1>9. Range(c) \subseteq Said(t)
  <2>1. Range(t[n + 1]) \subseteq Said(t)
    BY <1>3, <1>6 DEF Said
  <2> QED
    BY <1>4, <2>1
<1> QED
  BY <1>2, <1>7, <1>8, <1>9

\* What one of the sequences says, all of them say.
LEMMA SaidFacts ==
    ASSUME NEW V, NEW cs \in Seq(V)
    PROVE  /\ cs # <<>> => Range(Last(cs)) \subseteq Said(cs)
           /\ \A k \in 1 .. Len(cs) : Range(cs[k]) \subseteq Said(cs)
<1>1. \A k \in 1 .. Len(cs) : Range(cs[k]) \subseteq Said(cs)
  <2>1. DOMAIN cs = 1 .. Len(cs)
    OBVIOUS
  <2> QED
    BY <2>1 DEF Said
<1>2. cs # <<>> => Len(cs) \in 1 .. Len(cs)
  OBVIOUS
<1> QED
  BY <1>1, <1>2 DEF Last

\* No sequence says anything.
LEMMA SaidNothing == Said(<<>>) = {}
BY DEF Said

\* Joining no pieces gives nothing.
LEMMA ConcatNone == Concat(<<>>) = <<>>
<1>1. PICK V : V = {}
  OBVIOUS
<1>2. PICK W : W = Seq(V)
  OBVIOUS
<1>3. <<>> \in Seq(W) /\ Len(<<>>) = 0
  OBVIOUS
<1>4. PICK e : e = <<>>
  OBVIOUS
<1>5. e \in Seq(Seq(V)) /\ Len(e) = 0
  BY <1>2, <1>3, <1>4
<1>6. \E f : f[0] = <<>> /\ Concat(e) = f[Len(e)]
  BY <1>5, ConcatLoop
<1> QED
  BY <1>4, <1>5, <1>6

\* Joining one piece gives it.
LEMMA ConcatOne ==
    ASSUME NEW V, NEW x \in Seq(V)
    PROVE  Concat(<<x>>) = x
<1>1. PICK e \in Seq(Seq(V)) : e = <<>>
  <2>1. PICK W : W = Seq(V)
    OBVIOUS
  <2>2. <<>> \in Seq(W)
    OBVIOUS
  <2> QED
    BY <2>1, <2>2
<1>2. Append(e, x) = <<x>>
  BY <1>1
<1>3. Concat(Append(e, x)) = Concat(e) \o x
  BY ConcatAppend
<1>4. <<>> \o x = x
  BY ConcatEmptySeq
<1> QED
  BY <1>1, <1>2, <1>3, <1>4, ConcatNone

\* The joined pieces have the elements of the pieces.
LEMMA FlatFacts ==
    ASSUME NEW V, NEW s \in Seq(Seq(V))
    PROVE  Concat(s) \in Seq(V) /\ Range(Concat(s)) = Said(s)
<1>1. PICK W : W = Seq(V)
  OBVIOUS
<1>2. PICK m \in Nat : m = Len(s)
  OBVIOUS
<1> DEFINE Good(u) == Concat(u) \in Seq(V) /\ Range(Concat(u)) = Said(u)
           T == {i \in 0 .. m : Good(SubSeq(s, 1, i))}
<1>3. Good(<<>>)
  <2>1. <<>> \in Seq(V) /\ Range(<<>>) = {}
    BY DEF Range
  <2> QED
    BY <2>1, ConcatNone, SaidNothing
<1>4. ASSUME NEW u \in Seq(W), NEW x \in W, Good(u) PROVE Good(Append(u, x))
  <2>1. u \in Seq(Seq(V)) /\ x \in Seq(V)
    BY <1>1
  <2>2. PICK a \in Seq(V) : a = Concat(u)
    BY <1>4
  <2>3. Concat(Append(u, x)) = a \o x
    BY <2>1, <2>2, ConcatAppend
  <2>4. a \o x \in Seq(V) /\ Range(a \o x) = Range(a) \cup Range(x)
    BY <2>1, ConcatFacts
  <2>5. Said(Append(u, x)) = Said(u) \cup Range(x)
    BY SaidAppend
  <2> QED
    BY <1>4, <2>2, <2>3, <2>4, <2>5
<1> HIDE DEF Good
<1>5. 0 \in T
  <2>1. Good(SubSeq(s, 1, 0))
    BY <1>3, EmptyPrefix
  <2> QED
    BY <2>1
<1>6. \A i \in 1 .. m : i - 1 \in T => i \in T
  <2> SUFFICES ASSUME NEW i \in 1 .. m, Good(SubSeq(s, 1, i - 1)) PROVE Good(SubSeq(s, 1, i))
    BY <1>2
  <2>1. i \in 1 .. Len(s) /\ s \in Seq(W)
    BY <1>1, <1>2
  <2> QED
    BY <1>4, <2>1, PrefixGrows
<1> HIDE DEF T
<1>7. m \in T
  BY <1>5, <1>6, UpToEnd
<1>8. SubSeq(s, 1, m) = s
  BY <1>1, <1>2, SubSeqFull
<1> QED
  BY <1>7, <1>8 DEF T, Good

\* The pieces of two lists are the pieces of the first and then of the second.
LEMMA ConcatJoins ==
    ASSUME NEW V, NEW s \in Seq(Seq(V)), NEW t \in Seq(Seq(V))
    PROVE  Concat(s \o t) = Concat(s) \o Concat(t)
<1>1. PICK W : W = Seq(V)
  OBVIOUS
<1>2. PICK m \in Nat : m = Len(t)
  OBVIOUS
<1>3. PICK a \in Seq(V) : a = Concat(s)
  BY FlatFacts
<1> DEFINE Same(u) == Concat(s \o u) = a \o Concat(u)
           T == {i \in 0 .. m : Same(SubSeq(t, 1, i))}
<1>4. Same(<<>>)
  <2>1. s \o <<>> = s
    BY <1>1, ConcatEmptySeq
  <2>2. a \o <<>> = a
    BY ConcatEmptySeq
  <2> QED
    BY <1>3, <2>1, <2>2, ConcatNone
<1>5. ASSUME NEW u \in Seq(W), NEW x \in W, Same(u) PROVE Same(Append(u, x))
  <2>1. u \in Seq(Seq(V)) /\ x \in Seq(V) /\ s \in Seq(W)
    BY <1>1
  <2>2. PICK b \in Seq(V) : b = Concat(u)
    BY <2>1, FlatFacts
  <2>3. s \o Append(u, x) = Append(s \o u, x) /\ s \o u \in Seq(W)
    <3>1. s \o Append(u, x) = Append(s \o u, x)
      BY <2>1, ConcatOfAppend, SMTT(60)
    <3>2. s \o u \in Seq(W)
      BY <2>1, ConcatProperties
    <3> QED
      BY <3>1, <3>2
  <2>4. s \o u \in Seq(Seq(V))
    BY <1>1, <2>3
  <2>5. Concat(Append(s \o u, x)) = (a \o b) \o x
    BY <1>5, <2>1, <2>2, <2>4, ConcatAppend
  <2>6. Concat(Append(u, x)) = b \o x
    BY <2>1, <2>2, ConcatAppend
  <2>7. (a \o b) \o x = a \o (b \o x)
    <3>1. PICK y \in Seq(V) : y = x
      BY <2>1
    <3>2. (a \o b) \o y = a \o (b \o y)
      BY ConcatAssociative, SMTT(60)
    <3> QED
      BY <3>1, <3>2
  <2> QED
    BY <2>3, <2>5, <2>6, <2>7
<1> HIDE DEF Same
<1>6. 0 \in T
  <2>1. Same(SubSeq(t, 1, 0))
    BY <1>4, EmptyPrefix
  <2> QED
    BY <2>1
<1>7. \A i \in 1 .. m : i - 1 \in T => i \in T
  <2> SUFFICES ASSUME NEW i \in 1 .. m, Same(SubSeq(t, 1, i - 1)) PROVE Same(SubSeq(t, 1, i))
    BY <1>2
  <2>1. i \in 1 .. Len(t) /\ t \in Seq(W)
    BY <1>1, <1>2
  <2> QED
    BY <1>5, <2>1, PrefixGrows
<1> HIDE DEF T
<1>8. m \in T
  BY <1>6, <1>7, UpToEnd
<1>9. SubSeq(t, 1, m) = t
  BY <1>1, <1>2, SubSeqFull
<1> QED
  BY <1>3, <1>8, <1>9 DEF T, Same

\* What a selection takes depends only on which elements of s it is asked for.
LEMMA OnlySame ==
    ASSUME NEW V, NEW s \in Seq(V), NEW A, NEW B, \A x \in Range(s) : x \in A <=> x \in B
    PROVE  Only(s, A) = Only(s, B)
<1>1. PICK n \in Nat : n = Len(s)
  OBVIOUS
<1>2. \A i \in 1 .. n : s[i] \in A <=> s[i] \in B
  BY <1>1 DEF Range
<1>3. PICK f : /\ f[0] = <<>> /\ Only(s, A) = f[n]
               /\ \A i \in 1 .. n : f[i] = OnlyTurn(f[i - 1], s[i], A)
  BY <1>1, OnlyLoop DEF OnlyTurn
<1>4. PICK g : /\ g[0] = <<>> /\ Only(s, B) = g[n]
               /\ \A i \in 1 .. n : g[i] = OnlyTurn(g[i - 1], s[i], B)
  BY <1>1, OnlyLoop DEF OnlyTurn
<1>5. \A p : \A i \in 1 .. n : OnlyTurn(p, s[i], A) = OnlyTurn(p, s[i], B)
  BY <1>2 DEF OnlyTurn
<1>6. f[0] = g[0]
  BY <1>3, <1>4
<1>7. \A i \in 1 .. n : f[i - 1] = g[i - 1] => f[i] = g[i]
  BY <1>3, <1>4, <1>5
<1>8. f[n] = g[n]
  BY <1>6, <1>7, LoopsAgree
<1> QED
  BY <1>3, <1>4, <1>8

\* Selecting all elements changes nothing.
LEMMA OnlyAll ==
    ASSUME NEW V, NEW s \in Seq(V), NEW A, Range(s) \subseteq A
    PROVE  Only(s, A) = s
<1>1. PICK m \in Nat : m = Len(s)
  OBVIOUS
<1> DEFINE Same(u) == Only(u, A) = u
           T == {i \in 0 .. m : Same(SubSeq(s, 1, i))}
<1>2. Same(<<>>)
  <2>1. <<>> \in Seq(V)
    OBVIOUS
  <2>2. PICK e \in Seq(V) : e = <<>>
    BY <2>1
  <2>3. Range(e) = {}
    BY <2>2 DEF Range
  <2>4. Only(e, A) \in Seq(V) /\ Range(Only(e, A)) = {}
    BY <2>3, OnlyFacts
  <2>5. Only(e, A) = <<>>
    BY <2>4, NoneIsEmpty
  <2> QED
    BY <2>2, <2>5
<1>3. ASSUME NEW u \in Seq(V), NEW x \in V, x \in A, Same(u) PROVE Same(Append(u, x))
  BY <1>3, OnlyAppend DEF OnlyTurn
<1> HIDE DEF Same
<1>4. 0 \in T
  <2>1. Same(SubSeq(s, 1, 0))
    BY <1>2, EmptyPrefix
  <2> QED
    BY <2>1
<1>5. \A i \in 1 .. m : i - 1 \in T => i \in T
  <2> SUFFICES ASSUME NEW i \in 1 .. m, Same(SubSeq(s, 1, i - 1)) PROVE Same(SubSeq(s, 1, i))
    BY <1>1
  <2>1. i \in 1 .. Len(s) /\ s[i] \in A
    BY <1>1 DEF Range
  <2> QED
    BY <1>3, <2>1, PrefixGrows
<1> HIDE DEF T
<1>6. m \in T
  BY <1>4, <1>5, UpToEnd
<1>7. SubSeq(s, 1, m) = s
  BY <1>1, SubSeqFull
<1> QED
  BY <1>6, <1>7 DEF T, Same

\* What was there before is left out, what is new stays.
LEMMA WithoutOld ==
    ASSUME NEW V, NEW s \in Seq(V), NEW t \in Seq(V), NEW A,
           Range(s) \subseteq A, Range(t) \cap A = {}
    PROVE  Without(s \o t, A) = t
<1>1. PICK B : B = Range(s \o t) \ A
  OBVIOUS
<1>2. Without(s \o t, A) = Only(s \o t, B)
  BY <1>1 DEF Without, Range
<1>3. B = Range(t)
  <2>1. Range(s \o t) = Range(s) \cup Range(t)
    BY ConcatFacts
  <2> QED
    BY <1>1, <2>1
<1>4. Only(t, B) = t
  BY <1>3, OnlyAll
<1>5. Only(s, B) \in Seq(V) /\ Range(Only(s, B)) = {}
  BY <1>3, OnlyFacts
<1>6. Only(s, B) = <<>>
  BY <1>5, NoneIsEmpty
<1>7. Only(s \o t, B) = Only(s, B) \o Only(t, B)
  BY OnlyConcat
<1>8. <<>> \o t = t
  BY ConcatEmptySeq
<1> QED
  BY <1>2, <1>4, <1>6, <1>7, <1>8

\* A new element at the end stays at the end.
LEMMA WithoutAppend ==
    ASSUME NEW V, NEW s \in Seq(V), NEW x \in V, NEW A, x \notin A
    PROVE  Without(Append(s, x), A) = Append(Without(s, A), x)
<1>1. PICK B : B = Range(Append(s, x)) \ A
  OBVIOUS
<1>2. Without(Append(s, x), A) = Only(Append(s, x), B)
  BY <1>1 DEF Without, Range
<1>3. B = (Range(s) \cup {x}) \ A
  BY <1>1, AppendFacts
<1>4. Without(s, A) = Only(s, Range(s) \ A)
  BY DEF Without, Range
<1>5. Only(s, B) = Only(s, Range(s) \ A)
  <2>1. PICK C : C = Range(s) \ A
    OBVIOUS
  <2>2. \A y \in Range(s) : y \in B <=> y \in C
    BY <1>3, <2>1
  <2> QED
    BY <2>1, <2>2, OnlySame
<1>6. Only(Append(s, x), B) = OnlyTurn(Only(s, B), x, B)
  BY OnlyAppend
<1>7. x \in B
  BY <1>3
<1> QED
  BY <1>2, <1>4, <1>5, <1>6, <1>7 DEF OnlyTurn

\* Only the elements of s among A matter.
LEMMA WithoutSame ==
    ASSUME NEW s, NEW A, NEW B, Range(s) \cap A = Range(s) \cap B
    PROVE  Without(s, A) = Without(s, B)
<1>1. Range(s) \ A = Range(s) \ B
  OBVIOUS
<1> QED
  BY <1>1 DEF Without, Range

\* The last element of a sequence.
LEMMA LastFacts ==
    ASSUME NEW V, NEW s \in Seq(V), s # <<>>
    PROVE  Last(s) = s[Len(s)] /\ Last(s) \in V /\ Last(s) \in Range(s)
<1>1. Len(s) \in DOMAIN s
  OBVIOUS
<1> QED
  BY <1>1 DEF Last, Range

\* A list of sequences with one more at its end.
LEMMA SaidMore ==
    ASSUME NEW V, NEW cs \in Seq(Seq(V)), NEW c \in Seq(V)
    PROVE  /\ Append(cs, c) \in Seq(Seq(V)) /\ Append(cs, c) # <<>> /\ Last(Append(cs, c)) = c
           /\ Said(Append(cs, c)) = Said(cs) \cup Range(c)
<1>1. PICK W : W = Seq(V)
  OBVIOUS
<1>2. cs \in Seq(W) /\ c \in W
  BY <1>1
<1>3. /\ Append(cs, c) \in Seq(W) /\ Append(cs, c) # <<>> /\ Len(Append(cs, c)) = Len(cs) + 1
      /\ Append(cs, c)[Len(cs) + 1] = c
  BY <1>2, AppendProperties
<1>4. Said(Append(cs, c)) = Said(cs) \cup Range(c)
  BY <1>2, SaidAppend
<1> QED
  BY <1>1, <1>3, <1>4 DEF Last

\* Only the empty sequence has length 0.
LEMMA EmptyIsNone ==
    ASSUME NEW V, NEW s \in Seq(V)
    PROVE  (Len(s) = 0) <=> (s = <<>>)
OBVIOUS

\* A sequence of one element.
LEMMA OneIsSeq ==
    ASSUME NEW V, NEW x \in V
    PROVE  <<x>> \in Seq(V) /\ Range(<<x>>) = {x}
<1>1. <<x>> \in Seq(V) /\ DOMAIN <<x>> = {1}
  OBVIOUS
<1> QED
  BY <1>1 DEF Range

\* Two lists say what either says.
LEMMA SaidJoins ==
    ASSUME NEW V, NEW s \in Seq(Seq(V)), NEW t \in Seq(Seq(V))
    PROVE  Said(s \o t) = Said(s) \cup Said(t)
<1>1. s \o t \in Seq(Seq(V))
  BY ConcatProperties
<1>2. PICK a \in Seq(V), b \in Seq(V) : a = Concat(s) /\ b = Concat(t)
  BY FlatFacts
<1>3. Range(a) = Said(s) /\ Range(b) = Said(t) /\ Range(Concat(s \o t)) = Said(s \o t)
  BY <1>1, <1>2, FlatFacts
<1>4. Concat(s \o t) = a \o b
  BY <1>2, ConcatJoins
<1>5. Range(a \o b) = Range(a) \cup Range(b)
  BY ConcatFacts
<1> QED
  BY <1>3, <1>4, <1>5

\* What is said is said by one of the sequences.
LEMMA SaidBy ==
    ASSUME NEW V, NEW cs \in Seq(V)
    PROVE  \A y : (y \in Said(cs)) <=> (\E k \in 1 .. Len(cs) : y \in Range(cs[k]))
<1>1. DOMAIN cs = 1 .. Len(cs)
  OBVIOUS
<1> QED
  BY <1>1 DEF Said

\* The elements of two sequences joined.
LEMMA JoinPlaces ==
    ASSUME NEW W, NEW s \in Seq(W), NEW t \in Seq(W), NEW n, n = Len(s), NEW m, m = Len(t),
           NEW u, u = s \o t
    PROVE  /\ u \in Seq(W) /\ Len(u) = n + m
           /\ (\A k \in 1 .. n : u[k] = s[k]) /\ (\A k \in 1 .. m : u[n + k] = t[k])
BY ConcatFacts

\* Two sets without a common element, and one within the other.
NoCommon(A, B) == A \cap B = {}
Within(A, B) == A \subseteq B
IsBoth(u, s, t) == u = s \o t

\* WithoutOld for a sequence known to consist of an old and a new part.
LEMMA OldLeftOut ==
    ASSUME NEW V, NEW s \in Seq(V), NEW t \in Seq(V), NEW u, IsBoth(u, s, t), NEW A,
           Within(Range(s), A), NoCommon(Range(t), A)
    PROVE  Without(u, A) = t
BY WithoutOld DEF NoCommon, Within, IsBoth

\* The empty sequence is a sequence of anything,
LEMMA NothingIsSeq == \A V : <<>> \in Seq(V)
OBVIOUS

\* of sequences too.
LEMMA NoneOfNone == \A V : <<>> \in Seq(Seq(V))
<1> SUFFICES ASSUME NEW V PROVE <<>> \in Seq(Seq(V))
  OBVIOUS
<1>1. PICK W : W = Seq(V)
  OBVIOUS
<1> QED
  BY <1>1, NothingIsSeq

\* All but the last of a longer sequence.
LEMMA FrontOfAppend ==
    ASSUME NEW V, NEW s \in Seq(V), NEW x \in V
    PROVE  Front(Append(s, x)) = s
<1>1. PICK t, n : t = Append(s, x) /\ n = Len(s)
  OBVIOUS
<1>2. n \in Nat /\ t \in Seq(V) /\ Len(t) = n + 1
  BY <1>1, AppendPlaces, AppendFacts
<1>3. \A i \in 1 .. n : t[i] = s[i]
  BY <1>1, AppendPlaces
<1>4. n =< Len(t) /\ Len(t) - 1 = n
  BY <1>2
<1>5. PICK u : u = SubSeq(t, 1, n)
  OBVIOUS
<1>6. u \in Seq(V) /\ Len(u) = n /\ \A i \in 1 .. n : u[i] = t[i]
  BY <1>2, <1>4, <1>5, PrefixFacts
<1>7. u = s
  <2>1. Len(s) = Len(u) /\ \A i \in 1 .. Len(u) : u[i] = s[i]
    BY <1>1, <1>3, <1>6
  <2> QED
    BY <1>6, <2>1, SeqEqual
<1> QED
  BY <1>1, <1>4, <1>5, <1>7 DEF Front

\* A stretch of a text and the next element are a stretch.
LEMMA StretchGrows ==
    ASSUME NEW V, NEW text \in Seq(V), NEW a \in Nat, NEW b \in Nat, 1 =< a, a =< b + 1, b + 1 =< Len(text)
    PROVE  Append(SubSeq(text, a, b), text[b + 1]) = SubSeq(text, a, b + 1)
<1>1. PICK b1 \in Nat : b1 = b + 1
  OBVIOUS
<1>2. PICK c, d : c = SubSeq(text, a, b) /\ d = SubSeq(text, a, b1)
  OBVIOUS
<1>3. PICK m \in Nat : m = b - a + 1
  OBVIOUS
<1>4. c \in Seq(V) /\ Len(c) = m /\ \A i \in 1 .. m : c[i] = text[i + a - 1]
  <2>1. b =< Len(text)
    OBVIOUS
  <2> QED
    BY <1>2, <1>3, <2>1, PieceFacts
<1>5. d \in Seq(V) /\ Len(d) = b1 - a + 1 /\ \A i \in 1 .. b1 - a + 1 : d[i] = text[i + a - 1]
  <2>1. a =< b1 + 1 /\ b1 =< Len(text)
    BY <1>1
  <2> QED
    BY <1>2, <2>1, PieceFacts
<1>6. b1 - a + 1 = m + 1 /\ m + 1 + a - 1 = b1
  BY <1>1, <1>3
<1>7. PICK x \in V : x = text[b1]
  <2>1. b1 \in 1 .. Len(text)
    BY <1>1
  <2> QED
    BY <2>1
<1>8. PICK e : e = Append(c, x)
  OBVIOUS
<1>9. e \in Seq(V) /\ Len(e) = m + 1 /\ (\A i \in 1 .. m : e[i] = c[i]) /\ e[m + 1] = x
  <2>1. e \in Seq(V) /\ Len(e) = Len(c) + 1 /\ (\A i \in 1 .. Len(c) : e[i] = c[i]) /\ e[Len(c) + 1] = x
    BY <1>4, <1>8, AppendProperties
  <2> QED
    BY <1>4, <2>1
<1>10. \A i \in 1 .. m + 1 : e[i] = d[i]
  <2> SUFFICES ASSUME NEW i \in 1 .. m + 1 PROVE e[i] = d[i]
    OBVIOUS
  <2>1. d[i] = text[i + a - 1]
    BY <1>5, <1>6
  <2>2. CASE i = m + 1
    BY <1>6, <1>7, <1>9, <2>1, <2>2
  <2>3. CASE i # m + 1
    <3>1. i \in 1 .. m
      BY <2>3
    <3> QED
      BY <1>4, <1>9, <2>1, <3>1
  <2> QED
    BY <2>2, <2>3
<1>11. e = d
  <2>1. Len(d) = m + 1
    BY <1>5, <1>6
  <2> QED
    BY <1>5, <1>9, <1>10, <2>1, SeqEqual
<1> QED
  BY <1>1, <1>2, <1>7, <1>8, <1>11

\* A tail of a stretch is a stretch that ends where it ends.
LEMMA TailOfStretch ==
    ASSUME NEW V, NEW text \in Seq(V), NEW a \in Nat, NEW b \in Nat, 1 =< a, a =< b + 1, b =< Len(text),
           NEW c, c = SubSeq(text, a, b), NEW m \in Nat, m = Len(c), NEW k \in 0 .. m
    PROVE  m = b - a + 1 /\ SubSeq(c, m - k + 1, m) = SubSeq(text, b - k + 1, b)
<1>1. c \in Seq(V) /\ Len(c) = b - a + 1 /\ \A i \in 1 .. b - a + 1 : c[i] = text[i + a - 1]
  BY PieceFacts
<1>2. m = b - a + 1
  BY <1>1
<1>3. PICK p \in Nat, q \in Nat : p = m - k + 1 /\ q = b - k + 1
  BY <1>2
<1>4. 1 =< p /\ p =< m + 1 /\ m =< Len(c) /\ 1 =< q /\ q =< b + 1
  BY <1>2, <1>3
<1>5. PICK u, v : u = SubSeq(c, p, m) /\ v = SubSeq(text, q, b)
  OBVIOUS
<1>6. u \in Seq(V) /\ Len(u) = m - p + 1 /\ \A i \in 1 .. m - p + 1 : u[i] = c[i + p - 1]
  <2>1. c \in Seq(V)
    BY <1>1
  <2> QED
    BY <1>4, <1>5, <2>1, PieceFacts
<1>7. v \in Seq(V) /\ Len(v) = b - q + 1 /\ \A i \in 1 .. b - q + 1 : v[i] = text[i + q - 1]
  BY <1>4, <1>5, PieceFacts
<1>8. m - p + 1 = k /\ b - q + 1 = k
  BY <1>3
<1>9. \A i \in 1 .. k : u[i] = v[i]
  <2> SUFFICES ASSUME NEW i \in 1 .. k PROVE u[i] = v[i]
    OBVIOUS
  <2>1. u[i] = c[i + p - 1]
    BY <1>6, <1>8
  <2>2. v[i] = text[i + q - 1]
    BY <1>7, <1>8
  <2>3. i + p - 1 \in 1 .. b - a + 1 /\ (i + p - 1) + a - 1 = i + q - 1
    BY <1>2, <1>3
  <2>4. c[i + p - 1] = text[(i + p - 1) + a - 1]
    BY <1>1, <2>3
  <2> QED
    BY <2>1, <2>2, <2>3, <2>4
<1>10. u = v
  <2>1. Len(u) = k /\ Len(v) = k
    BY <1>6, <1>7, <1>8
  <2> QED
    BY <1>6, <1>7, <1>9, <2>1, SeqEqual
<1> QED
  BY <1>2, <1>3, <1>5, <1>10
=============================================================================
