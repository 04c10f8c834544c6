---------------------------- MODULE RecallProofs ----------------------------
(***************************************************************************)
(* Proofs about the way from a text to an answer: the recall, for every    *)
(* set of memories, sessions and relationships and every call, the tools   *)
(* that reason over what was recalled, for every budget and answer, and    *)
(* the chunker, for every text and document.                               *)
(***************************************************************************)
EXTENDS Recall, Reasoning, Chunker, SequenceLemmas

-----------------------------------------------------------------------------
(* The stages on the results.                                              *)

\* A list of memories, each once.
Ranked(s) == s \in Seq(MemIds) /\ IsInjective(s)

LEMMA EmptyRanked == Ranked(<<>>) /\ Range(<<>>) = {} /\ Len(<<>>) = 0
BY DEF Ranked, IsInjective, Range

LEMMA RankedFinite ==
    ASSUME NEW s, Ranked(s)
    PROVE  /\ Range(s) \subseteq MemIds /\ IsFiniteSet(Range(s)) /\ ToSet(s) = Range(s)
           /\ Cardinality(Range(s)) = Len(s) /\ Len(s) \in Nat
<1>1. s \in Seq(MemIds) /\ IsInjective(s) /\ Len(s) \in Nat /\ DOMAIN s = 1 .. Len(s)
  BY DEF Ranked
<1>2. Range(s) \subseteq MemIds /\ ToSet(s) = Range(s)
  BY <1>1 DEF Range, ToSet
<1> QED
  BY <1>1, <1>2, InjectiveCount

\* Another order of the same memories.
LEMMA PermutedRanked ==
    ASSUME NEW s, Ranked(s), NEW p \in SetToSeqs(ToSet(s))
    PROVE  Ranked(p) /\ Range(p) = Range(s) /\ Len(p) = Len(s)
<1>1. /\ Range(s) \subseteq MemIds /\ IsFiniteSet(Range(s)) /\ ToSet(s) = Range(s)
      /\ Cardinality(Range(s)) = Len(s)
  BY RankedFinite
<1>2. p \in Seq(Range(s)) /\ IsInjective(p) /\ Range(p) = Range(s) /\ Len(p) = Len(s)
  BY <1>1, EnumerationFacts
<1>3. p \in Seq(MemIds)
  BY <1>1, <1>2, SeqMonotonic
<1> QED
  BY <1>2, <1>3 DEF Ranked

\* The cut keeps a prefix.
LEMMA CutFacts ==
    ASSUME NEW s, Ranked(s), TopK \in Nat
    PROVE  /\ Ranked(Cut(s)) /\ Range(Cut(s)) \subseteq Range(s) /\ Len(Cut(s)) =< TopK
           /\ Len(s) =< TopK => Range(Cut(s)) = Range(s)
           /\ \A i \in 1 .. Len(s) : i =< TopK => s[i] \in Range(Cut(s))
<1>1. s \in Seq(MemIds) /\ IsInjective(s) /\ Len(s) \in Nat
  BY DEF Ranked
<1>2. PICK n \in Nat : Cut(s) = SubSeq(s, 1, n) /\ n =< Len(s) /\ n =< TopK
                       /\ (n = Len(s) \/ n = TopK)
  <2>1. CASE Len(s) < TopK
    <3>1. Cut(s) = SubSeq(s, 1, Len(s))
      BY <2>1 DEF Cut
    <3> QED
      BY <1>1, <2>1, <3>1
  <2>2. CASE ~(Len(s) < TopK)
    <3>1. Cut(s) = SubSeq(s, 1, TopK)
      BY <2>2 DEF Cut
    <3> QED
      BY <1>1, <2>2, <3>1
  <2> QED
    BY <2>1, <2>2
<1>3. Len(s) =< TopK => n = Len(s)
  BY <1>1, <1>2
<1>4. \A i \in 1 .. Len(s) : i =< TopK => i \in 1 .. n
  BY <1>1, <1>2
<1>6. /\ Cut(s) \in Seq(MemIds) /\ Len(Cut(s)) = n /\ Range(Cut(s)) = UpTo(s, n)
      /\ Range(Cut(s)) \subseteq Range(s) /\ IsInjective(Cut(s))
  <2>1. n =< Len(s)
    BY <1>2
  <2>2. /\ SubSeq(s, 1, n) \in Seq(MemIds) /\ Len(SubSeq(s, 1, n)) = n
        /\ Range(SubSeq(s, 1, n)) = UpTo(s, n)
        /\ Range(SubSeq(s, 1, n)) \subseteq Range(s) /\ IsInjective(SubSeq(s, 1, n))
    BY <1>1, <2>1, PrefixFacts
  <2> QED
    BY <1>2, <2>2
<1>7. Range(s) = UpTo(s, Len(s))
  <2>1. DOMAIN s = 1 .. Len(s)
    BY <1>1
  <2> QED
    BY <2>1 DEF Range, UpTo
<1>8. Len(s) =< TopK => Range(Cut(s)) = Range(s)
  BY <1>3, <1>6, <1>7
<1>9. \A i \in 1 .. Len(s) : i =< TopK => s[i] \in Range(Cut(s))
  BY <1>4, <1>6 DEF UpTo
<1> QED
  BY <1>2, <1>6, <1>8, <1>9 DEF Ranked

\* A session still has room in the diverse list.
Room(out, n, id) ==
    /\ Len(out) < TopK
    /\ Cardinality({k \in DOMAIN out : SessionOf[out[k]] = SessionOf[id]}) < n

LEMMA DiverseLoop ==
    ASSUME NEW s \in Seq(MemIds), NEW n,
           ~(n = 0 \/ Cardinality({SessionOf[id] : id \in ToSet(s)}) < 2)
    PROVE  \E f : /\ f[0] = <<>> /\ Diverse(s, n) = f[Len(s)]
                 /\ \A i \in 1 .. Len(s) : f[i] = IF Room(f[i - 1], n, s[i]) THEN Append(f[i - 1], s[i]) ELSE f[i - 1]
<1> DEFINE step(x, i) == IF Room(x, n, s[i]) THEN Append(x, s[i]) ELSE x
<1>0. PICK nn, bb, SS : nn = Len(s) /\ bb = <<>> /\ SS = Seq(MemIds)
  OBVIOUS
<1> DEFINE loop(f) == f = [i \in 0 .. nn |-> IF i = 0 THEN bb ELSE step(f[i - 1], i)]
<1>1. nn \in Nat /\ bb \in SS
  BY <1>0
<1>2. \A x \in SS, i \in 1 .. nn : step(x, i) \in SS
  BY <1>0
<1>3. Diverse(s, n) = (CHOOSE f : loop(f))[nn]
  BY <1>0 DEF Diverse, LeftFold, Room
<1> HIDE DEF step
<1>4. PICK G : AreTurns(G, nn, SS) /\ \A i \in 1 .. nn, x \in SS : G[i][x] = step(x, i)
  <2> DEFINE H == [i \in 1 .. nn |-> [x \in SS |-> step(x, i)]]
  <2>1. AreTurns(H, nn, SS) /\ \A i \in 1 .. nn, x \in SS : H[i][x] = step(x, i)
    BY <1>2 DEF AreTurns
  <2> HIDE DEF H
  <2> QED
    BY <2>1
<1>5. PICK g : IsLoop(g, nn, SS, bb, G)
  BY <1>1, <1>4, LoopExists
<1>6. loop(g)
  <2>1. \A i \in 1 .. nn : g[i - 1] \in SS /\ g[i] = step(g[i - 1], i)
    BY <1>1, <1>4, <1>5 DEF IsLoop
  <2>2. \A i \in 0 .. nn : g[i] = IF i = 0 THEN bb ELSE step(g[i - 1], i)
    BY <1>1, <1>5, <2>1 DEF IsLoop
  <2> QED
    BY <1>5, <2>2 DEF IsLoop
<1>7. PICK f : loop(f) /\ Diverse(s, n) = f[nn]
  <2> HIDE DEF loop
  <2> QED
    BY <1>3, <1>6
<1>8. f[0] = bb /\ \A i \in 1 .. nn : f[i] = step(f[i - 1], i)
  BY <1>1, <1>7
<1> QED
  BY <1>0, <1>7, <1>8 DEF step

\* Diversity only leaves out.
LEMMA DiverseFacts ==
    ASSUME NEW s, Ranked(s), NEW n
    PROVE  /\ Ranked(Diverse(s, n)) /\ Range(Diverse(s, n)) \subseteq Range(s)
           /\ n = 0 => Diverse(s, n) = s
<1>1. s \in Seq(MemIds) /\ IsInjective(s) /\ Len(s) \in Nat
  BY DEF Ranked
<1>2. CASE n = 0 \/ Cardinality({SessionOf[id] : id \in ToSet(s)}) < 2
  <2>1. Diverse(s, n) = s
    BY <1>2 DEF Diverse
  <2> QED
    BY <2>1
<1>3. CASE ~(n = 0 \/ Cardinality({SessionOf[id] : id \in ToSet(s)}) < 2)
  <2>1. PICK f : /\ f[0] = <<>> /\ Diverse(s, n) = f[Len(s)]
                 /\ \A i \in 1 .. Len(s) :
                       f[i] = IF Room(f[i - 1], n, s[i]) THEN Append(f[i - 1], s[i]) ELSE f[i - 1]
    BY <1>1, <1>3, DiverseLoop
  <2> DEFINE Good(i) == Ranked(f[i]) /\ Range(f[i]) \subseteq UpTo(s, i)
             T == {i \in 0 .. Len(s) : Good(i)}
  <2>2. Good(0)
    BY <2>1, EmptyRanked
  <2>3. ASSUME NEW i \in 1 .. Len(s), Good(i - 1) PROVE Good(i)
    <3>1. DOMAIN s = 1 .. Len(s) /\ s[i] \in MemIds
      BY <1>1
    <3>2. UpTo(s, i) = UpTo(s, i - 1) \cup {s[i]} /\ s[i] \notin UpTo(s, i - 1)
      BY <1>1, <3>1 DEF UpTo, IsInjective
    <3>3. f[i] = Append(f[i - 1], s[i]) \/ f[i] = f[i - 1]
      BY <2>1
    <3>4. f[i - 1] \in Seq(MemIds) /\ IsInjective(f[i - 1]) /\ s[i] \notin Range(f[i - 1])
      BY <2>3, <3>2 DEF Ranked
    <3>5. CASE f[i] = Append(f[i - 1], s[i])
      <4>1. /\ f[i] \in Seq(MemIds) /\ IsInjective(f[i])
            /\ Range(f[i]) = Range(f[i - 1]) \cup {s[i]}
        BY <3>1, <3>4, <3>5, AppendFacts
      <4> QED
        BY <2>3, <3>2, <4>1 DEF Ranked
    <3>6. CASE f[i] = f[i - 1]
      BY <2>3, <3>2, <3>6
    <3> QED
      BY <3>3, <3>5, <3>6
  <2>4. Good(Len(s))
    <3> HIDE DEF Good
    <3>1. 0 \in T
      BY <1>1, <2>2
    <3>2. \A i \in 1 .. Len(s) : i - 1 \in T => i \in T
      BY <1>1, <2>3
    <3> HIDE DEF T
    <3>3. \A i \in 0 .. Len(s) : i \in T
      BY <1>1, <3>1, <3>2, UpToAll
    <3>4. Len(s) \in T
      BY <1>1, <3>3
    <3> QED
      BY <3>4 DEF T
  <2>5. UpTo(s, Len(s)) = Range(s)
    <3>1. DOMAIN s = 1 .. Len(s)
      BY <1>1
    <3> QED
      BY <3>1 DEF UpTo, Range
  <2> QED
    BY <1>3, <2>1, <2>4, <2>5
<1> QED
  BY <1>2, <1>3

LEMMA PrefSlotsFit == TopK \in Nat \ {0} => PrefSlots \in Nat /\ PrefSlots =< TopK
BY DEF PrefSlots

\* The split keeps as many preferences as it has slots, and when there is a
\* preference to keep it leaves no more than TopK results.
LEMMA PreferenceFirstFacts ==
    ASSUME NEW s, Ranked(s), TopK \in Nat \ {0}
    PROVE  LET t == PreferenceFirst(s)
               n == Cardinality(Range(s) \cap Preference)
           IN  /\ Ranked(t) /\ Range(t) \subseteq Range(s)
               /\ Range(s) \cap Preference = {} \/ Len(t) =< TopK
               /\ Cardinality(Range(t) \cap Preference) >= (IF n < PrefSlots THEN n ELSE PrefSlots)
<1> DEFINE prefs == Only(s, Preference)
           rest == Without(s, Preference)
           taken == IF Len(prefs) < PrefSlots THEN Len(prefs) ELSE PrefSlots
           top == SubSeq(prefs, 1, taken)
           low == SubSeq(prefs, taken + 1, Len(prefs))
           n == Cardinality(Range(s) \cap Preference)
           t == PreferenceFirst(s)
<1>1. s \in Seq(MemIds) /\ IsInjective(s)
  BY DEF Ranked
<1>2. /\ prefs \in Seq(MemIds) /\ IsInjective(prefs) /\ Range(prefs) = Range(s) \cap Preference
      /\ rest \in Seq(MemIds) /\ IsInjective(rest) /\ Range(rest) = Range(s) \ Preference
  BY <1>1, OnlyFacts, WithoutFacts
<1>3. n = Len(prefs) /\ IsFiniteSet(Range(s) \cap Preference)
  BY <1>2, InjectiveCount
<1>4. PrefSlots \in Nat /\ PrefSlots =< TopK /\ TopK \in Nat
  BY PrefSlotsFit
<1>5. t = IF prefs = <<>> THEN s ELSE Cut(top \o rest \o low)
  BY DEF PreferenceFirst
<1>6. taken \in Nat /\ taken =< Len(prefs) /\ taken =< TopK /\ Len(prefs) \in Nat
      /\ taken = IF n < PrefSlots THEN n ELSE PrefSlots
  <2> HIDE DEF prefs, n
  <2>1. Len(prefs) \in Nat
    BY <1>2
  <2>2. CASE Len(prefs) < PrefSlots
    BY <1>3, <1>4, <2>1, <2>2
  <2>3. CASE ~(Len(prefs) < PrefSlots)
    BY <1>3, <1>4, <2>1, <2>3
  <2> QED
    BY <2>2, <2>3
<1> HIDE DEF prefs, rest, n, t, taken
<1>7. CASE prefs = <<>>
  <2>1. Range(s) \cap Preference = {}
    BY <1>2, <1>7, EmptyRanked
  <2>2. n = 0
    BY <1>3, <1>7
  <2>3. t = s
    BY <1>5, <1>7
  <2>4. Cardinality(Range(t) \cap Preference) = n
    BY <2>3 DEF n
  <2>5. taken = 0
    BY <1>6, <2>2, <1>7
  <2> QED
    BY <1>6, <2>1, <2>2, <2>3, <2>4, <2>5 DEF n, t
<1>8. CASE prefs # <<>>
  <2>1. /\ top \in Seq(MemIds) /\ Len(top) = taken /\ Range(top) \subseteq Range(prefs)
        /\ IsInjective(top) /\ \A i \in 1 .. taken : top[i] = prefs[i]
    BY <1>2, <1>6, PrefixFacts
  <2>2. /\ low \in Seq(MemIds) /\ IsInjective(low)
        /\ Range(low) = {prefs[i] : i \in taken + 1 .. Len(prefs)}
    <3>1. 1 =< taken + 1 /\ taken + 1 \in Nat /\ taken + 1 =< Len(prefs) + 1
      BY <1>6
    <3>2. Len(prefs) =< Len(prefs) /\ Len(prefs) \in Nat
      BY <1>6
    <3> QED
      BY <1>2, <3>1, <3>2, PieceFacts
  <2>3. Range(low) \subseteq Range(prefs) /\ Range(top) \cap Range(low) = {}
    <3>1. DOMAIN prefs = 1 .. Len(prefs) /\ DOMAIN top = 1 .. taken
      BY <1>2, <2>1
    <3>2. Range(low) \subseteq Range(prefs)
      BY <1>6, <2>2, <3>1, SMTT(30) DEF Range
    <3>3. \A i \in 1 .. taken, j \in taken + 1 .. Len(prefs) : prefs[i] # prefs[j]
      <4>1. \A i \in 1 .. taken, j \in taken + 1 .. Len(prefs) :
               i \in 1 .. Len(prefs) /\ j \in 1 .. Len(prefs) /\ i # j
        BY <1>6
      <4> QED
        BY <1>2, <3>1, <4>1 DEF IsInjective
    <3>4. Range(top) = {prefs[i] : i \in 1 .. taken}
      BY <2>1, <3>1 DEF Range
    <3> QED
      BY <2>2, <3>2, <3>3, <3>4
  <2> HIDE DEF top, low
  <2>4. /\ top \o rest \in Seq(MemIds) /\ IsInjective(top \o rest)
        /\ Range(top \o rest) = Range(top) \cup Range(rest)
        /\ Len(top \o rest) = taken + Len(rest)
        /\ \A i \in 1 .. taken : (top \o rest)[i] = top[i]
    <3>1. Range(top) \cap Range(rest) = {}
      BY <1>2, <2>1
    <3>2. top \in Seq(MemIds) /\ rest \in Seq(MemIds) /\ IsInjective(top) /\ IsInjective(rest)
      BY <1>2, <2>1
    <3>3. /\ top \o rest \in Seq(MemIds) /\ IsInjective(top \o rest)
          /\ Range(top \o rest) = Range(top) \cup Range(rest)
          /\ Len(top \o rest) = Len(top) + Len(rest)
          /\ \A i \in 1 .. Len(top) : (top \o rest)[i] = top[i]
      BY <3>1, <3>2, ConcatFacts
    <3> QED
      BY <2>1, <3>3
  <2> DEFINE all == top \o rest \o low
  <2>5. /\ all \in Seq(MemIds) /\ IsInjective(all)
        /\ Range(all) = Range(top) \cup Range(rest) \cup Range(low)
        /\ Len(all) = Len(top \o rest) + Len(low)
        /\ \A i \in 1 .. Len(top \o rest) : all[i] = (top \o rest)[i]
    <3>1. PICK h : h = top \o rest
      OBVIOUS
    <3>2. h \in Seq(MemIds) /\ IsInjective(h) /\ Range(h) = Range(top) \cup Range(rest)
      BY <2>4, <3>1
    <3>3. Range(h) \cap Range(low) = {}
      BY <1>2, <2>3, <3>2
    <3>4. /\ h \o low \in Seq(MemIds) /\ IsInjective(h \o low)
          /\ Range(h \o low) = Range(h) \cup Range(low) /\ Len(h \o low) = Len(h) + Len(low)
          /\ \A i \in 1 .. Len(h) : (h \o low)[i] = h[i]
      BY <2>2, <3>2, <3>3, ConcatFacts
    <3> QED
      BY <3>1, <3>2, <3>4
  <2> HIDE DEF all
  <2>6. Ranked(all) /\ t = Cut(all)
    BY <1>5, <1>8, <2>5 DEF Ranked, all
  <2>7. /\ Ranked(t) /\ Range(t) \subseteq Range(all) /\ Len(t) =< TopK
        /\ \A i \in 1 .. Len(all) : i =< TopK => all[i] \in Range(t)
    BY <1>4, <2>6, CutFacts
  <2>8. Range(top) \subseteq Range(t) \cap Preference
    <3>1. Len(rest) \in Nat /\ Len(low) \in Nat
      BY <1>2, <2>2
    <3>2. \A i \in 1 .. taken : i \in 1 .. Len(top \o rest) /\ i \in 1 .. Len(all) /\ i =< TopK
      BY <1>4, <1>6, <2>4, <2>5, <3>1
    <3>3. \A i \in 1 .. taken : top[i] \in Range(t)
      BY <2>4, <2>5, <2>7, <3>2
    <3>4. DOMAIN top = 1 .. taken
      BY <2>1
    <3>5. Range(top) \subseteq Range(t)
      BY <3>3, <3>4 DEF Range
    <3> QED
      BY <1>2, <2>1, <3>5
  <2>9. Cardinality(Range(top)) = taken /\ IsFiniteSet(Range(t))
    BY <2>1, <2>7, InjectiveCount DEF Ranked
  <2>10. Cardinality(Range(t) \cap Preference) >= taken
    <3>1. IsFiniteSet(Range(t) \cap Preference)
      BY <2>9, FS_Intersection
    <3>2. Cardinality(Range(top)) =< Cardinality(Range(t) \cap Preference)
      BY <2>8, <3>1, FS_Subset
    <3>3. Cardinality(Range(t) \cap Preference) \in Nat
      BY <3>1, FS_CardinalityType
    <3> QED
      BY <1>6, <2>9, <3>2, <3>3
  <2>11. Range(t) \subseteq Range(s)
    BY <1>2, <2>1, <2>3, <2>5, <2>7
  <2> QED
    BY <1>6, <2>7, <2>10, <2>11 DEF n, t
<1> QED
  BY <1>7, <1>8

\* The second pass adds: nothing of a first list that fits is lost.
LEMMA MergeFacts ==
    ASSUME NEW a, NEW b, Ranked(a), Ranked(b), TopK \in Nat, Len(a) =< TopK
    PROVE  LET m == MergeSearchResults(a, b)
           IN  /\ Ranked(m) /\ Len(m) =< TopK
               /\ Range(a) \subseteq Range(m) /\ Range(m) \subseteq Range(a) \cup Range(b)
<1> DEFINE new == Without(b, ToSet(a))
           m == MergeSearchResults(a, b)
<1>1. /\ a \in Seq(MemIds) /\ IsInjective(a) /\ b \in Seq(MemIds) /\ IsInjective(b)
      /\ ToSet(a) = Range(a)
  BY RankedFinite DEF Ranked
<1>2. new \in Seq(MemIds) /\ IsInjective(new) /\ Range(new) = Range(b) \ Range(a)
  BY <1>1, WithoutFacts
<1>3. m = Cut(a \o new)
  BY DEF MergeSearchResults
<1> HIDE DEF new, m
<1>4. /\ Ranked(a \o new) /\ Len(a \o new) = Len(a) + Len(new)
      /\ Range(a \o new) = Range(a) \cup Range(b)
      /\ \A i \in 1 .. Len(a) : (a \o new)[i] = a[i]
  BY <1>1, <1>2, ConcatFacts DEF Ranked
<1>5. /\ Ranked(m) /\ Len(m) =< TopK /\ Range(m) \subseteq Range(a \o new)
      /\ \A i \in 1 .. Len(a \o new) : i =< TopK => (a \o new)[i] \in Range(m)
  BY <1>3, <1>4, CutFacts
<1>6. Range(a) \subseteq Range(m)
  <2>1. Len(a) \in Nat /\ Len(new) \in Nat
    BY <1>1, <1>2
  <2>2. \A i \in 1 .. Len(a) : i \in 1 .. Len(a \o new) /\ i =< TopK
    BY <1>4, <2>1
  <2>3. \A i \in 1 .. Len(a) : a[i] \in Range(m)
    BY <1>4, <1>5, <2>2
  <2>4. DOMAIN a = 1 .. Len(a)
    BY <1>1
  <2> QED
    BY <2>3, <2>4 DEF Range
<1> QED
  BY <1>4, <1>5, <1>6 DEF m

-----------------------------------------------------------------------------
(* The call.                                                               *)

\* Where the results have been cut to TopK.
AfterCut == {"enrich", "touch", "second", "reply", "done"}

\* What the preferences are promised, while a preference query without
\* diversity or window runs: its slots are full, and the cut that is still to
\* come takes none of them away.
SlotsFull ==
    LET n == Cardinality(cands \cap Preference) IN
    /\ Cardinality(Range(results) \cap Preference) >= (IF n < PrefSlots THEN n ELSE PrefSlots)
    /\ cands \cap Preference = {} \/ Len(results) =< TopK

PreferenceCall == opts.pref /\ opts.div = 0 /\ ~opts.window

SeenInv ==
    /\ opts \in CallOptions /\ live \subseteq MemIds /\ seen0 \subseteq MemIds
    /\ rpc = "idle" => /\ seen0 = {} /\ mems = {} /\ fts = NoFTS /\ connected = {}
                       /\ cands = {} /\ results = <<>> /\ first = <<>>
    /\ rpc # "idle" => live \subseteq seen0
    /\ mems \subseteq seen0 /\ fts.ids \subseteq seen0 /\ connected \subseteq seen0
    /\ cands \subseteq seen0

ListInv ==
    /\ Ranked(results) /\ Range(results) \subseteq seen0
    /\ Ranked(first) /\ Range(first) \subseteq seen0 /\ Len(first) =< TopK
    /\ rpc \in AfterCut => Len(results) =< TopK
    /\ rpc \in {"reply", "done"} /\ opts.window => Range(first) \subseteq Range(results)
    /\ rpc \in {"mmr", "rerank", "enrich", "touch", "reply", "done"} /\ PreferenceCall => SlotsFull

ReplyInv ==
    /\ rpc \in {"second", "merge"} \/ pass = 2 => opts.window
    /\ degraded \in BOOLEAN /\ noVector = degraded
    /\ rpc = "failed" => faulted
    /\ rpc = "done" => /\ reply.ids = results
                       /\ degraded => reply.degraded /\ reply.warned
                       /\ opts.handle /\ reply.degraded => degraded

RecallInv == SeenInv /\ ListInv /\ ReplyInv

LEMMA RecallInitInv == RecallInit => RecallInv
<1> SUFFICES ASSUME RecallInit PROVE RecallInv
  OBVIOUS
<1>1. NoCall \in CallOptions
  BY DEF NoCall, CallOptions
<1>2. SeenInv
  BY <1>1 DEF RecallInit, SeenInv, NoFTS
<1>3. TopK = 2
  BY DEF RecallInit, NoCall, TopK
<1>4. ListInv
  BY <1>3, EmptyRanked DEF RecallInit, ListInv, AfterCut
<1>5. rpc = "idle" /\ pass # 2
  BY DEF RecallInit
<1>6. degraded \in BOOLEAN /\ noVector = degraded
  BY DEF RecallInit
<1>7. ReplyInv
  BY <1>5, <1>6 DEF ReplyInv
<1> QED
  BY <1>2, <1>4, <1>7 DEF RecallInv

\* What most steps leave alone.
LEMMA ListStable ==
    ASSUME RecallInv, UNCHANGED <<opts, results, first, cands, seen0>>,
           rpc' \in AfterCut => rpc \in AfterCut,
           rpc' \in {"reply", "done"} /\ opts.window => rpc \in {"reply", "done"},
           rpc' \in {"mmr", "rerank", "enrich", "touch", "reply", "done"}
              => rpc \in {"mmr", "rerank", "enrich", "touch", "reply", "done"}
    PROVE  ListInv'
BY DEF RecallInv, ListInv, Ranked, TopK, PreferenceCall, SlotsFull, PrefSlots

LEMMA EmptyList ==
    ASSUME RecallInv, results' = <<>>, UNCHANGED <<first, seen0>>, TopK' = TopK,
           rpc' \notin AfterCut \cup {"mmr", "rerank"}
    PROVE  ListInv'
BY EmptyRanked DEF RecallInv, ListInv, AfterCut, Ranked

LEMMA AbortKeeps ==
    ASSUME RecallInv, rpc # "idle", Abort, UNCHANGED <<live, opts, seen0, passVars, connected, cands>>,
           mems' \subseteq seen0, fts'.ids \subseteq seen0
    PROVE  RecallInv'
<1>1. rpc' \in {"merge", "failed"} /\ results' = <<>> /\ faulted' /\ (rpc' = "merge" => pass = 2)
  BY DEF Abort
<1>2. ListInv'
  BY <1>1, EmptyList DEF TopK, AfterCut, passVars
<1>3. SeenInv'
  BY <1>1 DEF RecallInv, SeenInv
<1>4. ReplyInv'
  BY <1>1 DEF RecallInv, ReplyInv, passVars
<1> QED
  BY <1>2, <1>3, <1>4 DEF RecallInv

LEMMA RecallStartKeeps ==
    ASSUME RecallInv, NEW o \in Calls, RecallStart(o)
    PROVE  RecallInv'
<1>1. /\ rpc = "idle" /\ rpc' = "embed" /\ opts' = o /\ seen0' = live
      /\ pass' = 1
      /\ UNCHANGED <<live, mems, fts, connected, cands, results, first, degraded, noVector>>
  BY DEF RecallStart
<1>2. o \in CallOptions
  BY RecallAssumption
<1>3. SeenInv'
  BY <1>1, <1>2 DEF RecallInv, SeenInv, NoFTS
<1>4. ListInv'
  <2>1. TopK' \in Nat /\ results' = <<>> /\ first' = <<>>
    BY <1>1, <1>2 DEF RecallInv, SeenInv, TopK, CallOptions
  <2> QED
    BY <1>1, <2>1, EmptyRanked DEF ListInv, AfterCut, Ranked
<1>5. ReplyInv'
  BY <1>1 DEF RecallInv, ReplyInv
<1> QED
  BY <1>3, <1>4, <1>5 DEF RecallInv

LEMMA SearchKeeps ==
    ASSUME RecallInv, EmbedQuery \/ VectorSearch \/ LoadMemories \/ FTSSearch \/ JoinFTS
    PROVE  RecallInv'
<1>1. CASE EmbedQuery
  <2>1. /\ rpc = "embed" /\ rpc' \in {"vector", "fts"} /\ results' = <<>>
        /\ mems' = {} /\ fts' = NoFTS
        /\ UNCHANGED <<live, opts, seen0, pass, first, connected, cands>>
        /\ (UNCHANGED <<degraded, noVector>> \/ \E ok \in BOOLEAN : degraded' = ~ok /\ noVector' = ~ok)
    BY <1>1 DEF EmbedQuery, callVars
  <2>2. ListInv'
    BY <2>1, EmptyList DEF TopK, AfterCut
  <2>3. SeenInv'
    BY <2>1 DEF RecallInv, SeenInv, NoFTS
  <2>4. ReplyInv'
    BY <2>1 DEF RecallInv, ReplyInv
  <2> QED
    BY <2>2, <2>3, <2>4 DEF RecallInv
<1>2. CASE VectorSearch
  <2>1. /\ rpc = "vector"
        /\ UNCHANGED <<live, opts, reply, seen0, passVars, fts, mems, connected, cands>>
    BY <1>2 DEF VectorSearch, callVars
  <2>2. CASE rpc' = "fts" /\ UNCHANGED <<results, faulted>>
    <3>1. ListInv'
      BY <2>1, <2>2, ListStable DEF AfterCut, passVars
    <3> QED
      BY <2>1, <2>2, <3>1 DEF RecallInv, SeenInv, ReplyInv, passVars
  <2>3. CASE Abort
    BY <2>1, <2>3, AbortKeeps DEF RecallInv, SeenInv
  <2> QED
    BY <1>2, <2>2, <2>3 DEF VectorSearch
<1>3. CASE LoadMemories
  <2>1. /\ rpc = "fts" /\ fts'.ids = {}
        /\ UNCHANGED <<live, opts, reply, seen0, passVars, connected, cands>>
    BY <1>3 DEF LoadMemories, callVars
  <2>2. CASE rpc' = "join" /\ mems' = vec \cap live /\ UNCHANGED <<results, faulted>>
    <3>1. ListInv'
      BY <2>1, <2>2, ListStable DEF AfterCut, passVars
    <3> QED
      BY <2>1, <2>2, <3>1 DEF RecallInv, SeenInv, ReplyInv, passVars
  <2>3. CASE Abort /\ UNCHANGED mems
    BY <2>1, <2>3, AbortKeeps DEF RecallInv, SeenInv
  <2> QED
    BY <1>3, <2>2, <2>3 DEF LoadMemories
<1>4. CASE FTSSearch
  <2>1. /\ UNCHANGED <<live, opts, reply, seen0, passVars, rpc, mems, results, connected, cands, faulted>>
        /\ fts'.ids \subseteq live /\ fts.st = "running"
    BY <1>4 DEF FTSSearch, callVars
  <2>2. rpc # "idle"
    BY <2>1 DEF RecallInv, SeenInv, NoFTS
  <2>3. ListInv'
    BY <2>1, ListStable DEF passVars
  <2> QED
    BY <2>1, <2>2, <2>3 DEF RecallInv, SeenInv, ReplyInv, passVars
<1>5. CASE JoinFTS
  <2>1. /\ rpc = "join" /\ UNCHANGED <<live, opts, reply, seen0, passVars, fts, connected, cands>>
    BY <1>5 DEF JoinFTS, callVars
  <2>2. CASE rpc' = "score" /\ mems' = mems \cup fts.ids /\ UNCHANGED <<results, faulted>>
    <3>1. ListInv'
      BY <2>1, <2>2, ListStable DEF AfterCut, passVars
    <3> QED
      BY <2>1, <2>2, <3>1 DEF RecallInv, SeenInv, ReplyInv, passVars
  <2>3. CASE Abort /\ UNCHANGED mems
    BY <2>1, <2>3, AbortKeeps DEF RecallInv, SeenInv
  <2> QED
    BY <1>5, <2>2, <2>3 DEF JoinFTS
<1> QED
  BY <1>1, <1>2, <1>3, <1>4, <1>5

LEMMA ParaphraseKeeps ==
    ASSUME RecallInv, ParaphraseUnion
    PROVE  RecallInv'
<1>1. /\ rpc = "score" /\ opts' = [opts EXCEPT !.para = FALSE] /\ mems' \subseteq mems \cup live
      /\ UNCHANGED <<live, reply, seen0, passVars, rpc, fts, results, connected, cands, faulted>>
  BY DEF ParaphraseUnion
<1>2. opts' \in CallOptions /\ TopK' = TopK
  BY <1>1 DEF RecallInv, SeenInv, CallOptions, TopK
<1>3. SeenInv'
  BY <1>1, <1>2 DEF RecallInv, SeenInv
<1>4. ListInv'
  BY <1>1, <1>2 DEF RecallInv, ListInv, Ranked, AfterCut, passVars
<1>5. ReplyInv'
  BY <1>1 DEF RecallInv, ReplyInv, passVars
<1> QED
  BY <1>3, <1>4, <1>5 DEF RecallInv

LEMMA ScoreKeeps ==
    ASSUME RecallInv, ScoreAndSort
    PROVE  RecallInv'
<1>1. rpc = "score" /\ UNCHANGED <<live, opts, reply, seen0, passVars, fts, mems, connected>>
  BY DEF ScoreAndSort, callVars
<1>2. CASE Abort /\ UNCHANGED cands
  BY <1>1, <1>2, AbortKeeps DEF RecallInv, SeenInv
<1>3. ASSUME NEW order \in SetToSeqs(Candidates),
             NEW packed \in IF opts.ndcg /\ ~opts.pref /\ vec # {} THEN SessionPacked(order) ELSE {order},
             results' = IF opts.pref THEN PreferenceFirst(Diverse(packed, opts.div))
                        ELSE Diverse(packed, opts.div),
             cands' = Candidates, rpc' = "mmr", UNCHANGED faulted
      PROVE  RecallInv'
  <2>1. Candidates \subseteq mems /\ Candidates \subseteq seen0 /\ Candidates \subseteq MemIds
    BY DEF Candidates, RecallInv, SeenInv
  <2>2. IsFiniteSet(Candidates)
    BY <2>1, RecallAssumption, FS_Subset
  <2>3. Ranked(order) /\ Range(order) = Candidates
    <3>1. order \in Seq(Candidates) /\ IsInjective(order) /\ Range(order) = Candidates
      BY <2>2, EnumerationFacts
    <3> QED
      BY <2>1, <3>1, SeqMonotonic DEF Ranked
  <2>4. Ranked(packed) /\ Range(packed) = Candidates
    <3>1. packed = order \/ packed \in SetToSeqs(ToSet(order))
      BY <1>3 DEF SessionPacked
    <3> QED
      BY <2>3, <3>1, PermutedRanked
  <2> DEFINE div == Diverse(packed, opts.div)
  <2>5. Ranked(div) /\ Range(div) \subseteq Candidates /\ (opts.div = 0 => div = packed)
    BY <2>4, DiverseFacts
  <2>6. results' = IF opts.pref THEN PreferenceFirst(div) ELSE div
    BY <1>3
  <2> HIDE DEF div
  <2>7. TopK \in Nat \ {0} /\ TopK' = TopK /\ PrefSlots' = PrefSlots
    BY <1>1 DEF RecallInv, SeenInv, CallOptions, TopK, PrefSlots
  <2>8. Ranked(results') /\ Range(results') \subseteq Candidates
    <3>1. CASE opts.pref
      BY <2>5, <2>6, <2>7, <3>1, PreferenceFirstFacts
    <3>2. CASE ~opts.pref
      BY <2>5, <2>6, <3>2
    <3> QED
      BY <3>1, <3>2
  <2>9. ASSUME PreferenceCall PROVE SlotsFull'
    <3>1. results' = PreferenceFirst(packed) /\ cands' \cap Preference = Range(packed) \cap Preference
      BY <1>3, <2>4, <2>5, <2>6, <2>9 DEF PreferenceCall
    <3> DEFINE t == PreferenceFirst(packed)
               n == Cardinality(Range(packed) \cap Preference)
    <3>2. /\ Range(packed) \cap Preference = {} \/ Len(t) =< TopK
          /\ Cardinality(Range(t) \cap Preference) >= (IF n < PrefSlots THEN n ELSE PrefSlots)
      BY <2>4, <2>7, PreferenceFirstFacts
    <3> HIDE DEF t, n
    <3>3. results' = t /\ Cardinality(cands' \cap Preference) = n
      BY <3>1 DEF t, n
    <3> QED
      BY <2>7, <3>1, <3>2, <3>3 DEF SlotsFull
  <2>10. PreferenceCall' = PreferenceCall
    BY <1>1 DEF PreferenceCall
  <2>11. ListInv'
    BY <1>1, <1>3, <2>1, <2>7, <2>8, <2>9, <2>10 DEF RecallInv, ListInv, Ranked, AfterCut, passVars
  <2>12. SeenInv' /\ ReplyInv'
    BY <1>1, <1>3, <2>1 DEF RecallInv, SeenInv, ReplyInv, passVars
  <2> QED
    BY <2>11, <2>12 DEF RecallInv
<1> QED
  BY <1>2, <1>3 DEF ScoreAndSort

LEMMA OrderKeeps ==
    ASSUME RecallInv, PreferenceMMR \/ Rerank
    PROVE  RecallInv'
<1> DEFINE Rest == UNCHANGED <<live, opts, reply, seen0, passVars, fts, mems, connected, cands, faulted>>
<1>0. TopK \in Nat
  BY DEF RecallInv, SeenInv, CallOptions, TopK
<1>1. CASE PreferenceMMR
  <2>1. rpc = "mmr" /\ rpc' = "rerank" /\ Rest
    BY <1>1 DEF PreferenceMMR, callVars
  <2>2. Ranked(results) /\ (results' = results \/ results' \in SetToSeqs(ToSet(results)))
    BY <1>1 DEF PreferenceMMR, RecallInv, ListInv
  <2>3. Ranked(results)' /\ Range(results') = Range(results) /\ Len(results') = Len(results)
    BY <2>2, PermutedRanked DEF Ranked
  <2>4. ListInv'
    BY <2>1, <2>3 DEF RecallInv, ListInv, Ranked, AfterCut, passVars, SlotsFull, PreferenceCall, TopK, PrefSlots
  <2>5. SeenInv' /\ ReplyInv'
    BY <2>1 DEF RecallInv, SeenInv, ReplyInv, passVars
  <2> QED
    BY <2>4, <2>5 DEF RecallInv
<1>2. CASE Rerank
  <2>1. rpc = "rerank" /\ rpc' = "enrich" /\ Rest
    BY <1>2 DEF Rerank, callVars
  <2>2. Ranked(results) /\ \E p : (p = results \/ p \in SetToSeqs(ToSet(results))) /\ results' = Cut(p)
    BY <1>2 DEF Rerank, Reordered, RecallInv, ListInv
  <2>3. PICK p : Ranked(p) /\ Range(p) = Range(results) /\ Len(p) = Len(results) /\ results' = Cut(p)
    BY <2>2, PermutedRanked
  <2>4. /\ Ranked(results)' /\ Range(results') \subseteq Range(results) /\ Len(results') =< TopK
        /\ Len(results) =< TopK => Range(results') = Range(results)
    BY <1>0, <2>3, CutFacts DEF Ranked
  <2>5. ASSUME PreferenceCall PROVE SlotsFull'
    <3>1. SlotsFull /\ TopK' = TopK /\ PrefSlots' = PrefSlots
      BY <2>1, <2>5 DEF RecallInv, ListInv, TopK, PrefSlots
    <3>2. CASE Len(results) =< TopK
      BY <2>1, <2>4, <3>1, <3>2 DEF SlotsFull
    <3>3. CASE cands \cap Preference = {}
      <4>1. IsFiniteSet(Range(results')) /\ Cardinality(cands \cap Preference) = 0
        BY <2>4, <3>3, RankedFinite, FS_EmptySet DEF Ranked
      <4>2. Cardinality(Range(results') \cap Preference) \in Nat
        BY <4>1, FS_Intersection, FS_CardinalityType
      <4>3. PrefSlots \in Nat
        BY PrefSlotsFit DEF RecallInv, SeenInv, CallOptions, TopK
      <4> QED
        BY <2>1, <3>1, <3>3, <4>1, <4>2, <4>3 DEF SlotsFull
    <3> QED
      BY <3>1, <3>2, <3>3 DEF SlotsFull
  <2>6. ListInv'
    <3>1. TopK' = TopK /\ PreferenceCall' = PreferenceCall
      BY <2>1 DEF TopK, PreferenceCall
    <3> QED
      BY <2>1, <2>4, <2>5, <3>1 DEF RecallInv, ListInv, Ranked, passVars
  <2>7. SeenInv' /\ ReplyInv'
    BY <2>1 DEF RecallInv, SeenInv, ReplyInv, passVars
  <2> QED
    BY <2>6, <2>7 DEF RecallInv
<1> QED
  BY <1>1, <1>2

LEMMA TailKeeps ==
    ASSUME RecallInv, Enrich \/ Touch \/ SecondPass \/ RecallReply
    PROVE  RecallInv'
<1>1. CASE Enrich
  <2>1. /\ rpc = "enrich" /\ rpc' = "touch" /\ connected' \subseteq live
        /\ UNCHANGED <<live, opts, reply, seen0, passVars, fts, mems, results, cands, faulted>>
    BY <1>1 DEF Enrich, callVars
  <2>2. ListInv'
    BY <2>1, ListStable DEF AfterCut, passVars
  <2> QED
    BY <2>1, <2>2 DEF RecallInv, SeenInv, ReplyInv, passVars
<1>2. CASE Touch
  <2>1. /\ rpc = "touch" /\ mems' = {} /\ fts' = NoFTS
        /\ rpc' \in {"reply", "second", "merge"} /\ (rpc' = "reply" <=> ~opts.window)
        /\ UNCHANGED <<live, opts, reply, seen0, passVars, results, connected, cands, faulted>>
    BY <1>2 DEF Touch, callVars
  <2>2. ListInv'
    BY <2>1, ListStable DEF AfterCut, passVars
  <2> QED
    BY <2>1, <2>2 DEF RecallInv, SeenInv, ReplyInv, passVars, NoFTS
<1>3. CASE SecondPass
  <2>1. /\ rpc = "second" /\ rpc' = "embed" /\ first' = results
        /\ UNCHANGED <<live, opts, reply, seen0, degraded, noVector, fts, mems, results, connected,
                       cands, faulted>>
    BY <1>3 DEF SecondPass, callVars
  <2>2. ListInv'
    BY <2>1 DEF RecallInv, ListInv, Ranked, AfterCut, TopK
  <2> QED
    BY <2>1, <2>2 DEF RecallInv, SeenInv, ReplyInv
<1>4. CASE RecallReply
  <2>1. /\ rpc = "reply" /\ rpc' = "done"
        /\ UNCHANGED <<live, opts, seen0, passVars, fts, mems, results, connected, cands, faulted>>
    BY <1>4 DEF RecallReply
  <2>2. /\ reply'.ids = results
        /\ \E unhealthy \in BOOLEAN :
              /\ unhealthy => ~opts.handle
              /\ reply'.degraded = (degraded \/ unhealthy)
              /\ reply'.warned = (degraded \/ unhealthy \/ dropped > 0)
    BY <1>4 DEF RecallReply
  <2>3. ListInv'
    BY <2>1, ListStable DEF AfterCut, passVars
  <2>4. ReplyInv'
    BY <2>1, <2>2 DEF RecallInv, ReplyInv, passVars
  <2> QED
    BY <2>1, <2>3, <2>4 DEF RecallInv, SeenInv
<1> QED
  BY <1>1, <1>2, <1>3, <1>4

LEMMA MergeKeeps ==
    ASSUME RecallInv, MergePasses
    PROVE  RecallInv'
<1> DEFINE merged == MergeSearchResults(first, results)
<1>1. /\ rpc = "merge" /\ rpc' = "reply"
      /\ UNCHANGED <<live, opts, reply, seen0, passVars, fts, mems, connected, cands, faulted>>
  BY DEF MergePasses, callVars
<1>2. /\ Ranked(merged) /\ Len(merged) =< TopK
      /\ Range(first) \subseteq Range(merged) /\ Range(merged) \subseteq Range(first) \cup Range(results)
  <2>1. TopK \in Nat /\ Ranked(first) /\ Ranked(results) /\ Len(first) =< TopK
    BY DEF RecallInv, SeenInv, ListInv, CallOptions, TopK
  <2> QED
    BY <2>1, MergeFacts
<1>3. results' = merged \/ results' \in SetToSeqs(ToSet(merged))
  BY DEF MergePasses, Reordered
<1> HIDE DEF merged
<1>4. Ranked(results)' /\ Range(results') = Range(merged) /\ Len(results') = Len(merged)
  BY <1>2, <1>3, PermutedRanked DEF Ranked
<1>5. ListInv'
  <2>1. opts.window
    BY <1>1 DEF RecallInv, ReplyInv
  <2> QED
    BY <1>1, <1>2, <1>4, <2>1 DEF RecallInv, ListInv, Ranked, AfterCut, passVars, TopK, PreferenceCall
<1>6. SeenInv' /\ ReplyInv'
  BY <1>1 DEF RecallInv, SeenInv, ReplyInv, passVars
<1> QED
  BY <1>5, <1>6 DEF RecallInv

LEMMA RecallNextInv == RecallInv /\ [RecallNext]_recallVars => RecallInv'
<1> SUFFICES ASSUME RecallInv, [RecallNext]_recallVars PROVE RecallInv'
  OBVIOUS
<1>1. ASSUME NEW id \in MemIds, ForgetOther(id) PROVE RecallInv'
  <2>1. /\ live' \subseteq live
        /\ UNCHANGED <<opts, reply, seen0, passVars, rpc, fts, mems, results, connected, cands, faulted>>
    BY <1>1 DEF ForgetOther, callVars
  <2>2. ListInv'
    BY <2>1, ListStable DEF passVars
  <2> QED
    BY <2>1, <2>2 DEF RecallInv, SeenInv, ReplyInv, passVars
<1>2. CASE ToolTimeout \/ UNCHANGED recallVars
  <2>1. UNCHANGED <<live, opts, reply, seen0, passVars, rpc, fts, mems, results, connected, cands, faulted>>
    BY <1>2 DEF ToolTimeout, recallVars, passVars
  <2>2. ListInv'
    BY <2>1, ListStable DEF passVars
  <2> QED
    BY <2>1, <2>2 DEF RecallInv, SeenInv, ReplyInv, passVars
<1> QED
  BY <1>1, <1>2, RecallStartKeeps, SearchKeeps, ParaphraseKeeps, ScoreKeeps, OrderKeeps, TailKeeps,
     MergeKeeps DEF RecallNext, CallStep

(* For every set of memories, every call and every number of forgotten memories: *)
(* whatever fails or ends between two steps of the recall, what the call answers *)
(* was not forgotten before it, has nothing twice and no more than topK, keeps    *)
(* the preferences it has slots for and all that its first pass found, and says  *)
(* so when it is the answer of keyword search alone (RecallWithOpts,              *)
(* recallTwoPassTemporal and handleMemoryRecall).                                 *)
THEOREM RecallAnswersSoundly == RecallSpec => []AnswerSound
<1>1. RecallInv => AnswerSound
  <2> SUFFICES ASSUME RecallInv PROVE AnswerSound
    OBVIOUS
  <2>1. rpc = "done" => /\ Answer = Range(results) /\ Cardinality(Answer) = Len(reply.ids)
                        /\ reply.ids = results
    BY RankedFinite DEF RecallInv, ListInv, ReplyInv, Answer
  <2>2. ForgottenStaysAway /\ AnswerDistinct
    BY <2>1 DEF RecallInv, SeenInv, ListInv, AfterCut, ForgottenStaysAway, AnswerDistinct
  <2>3. PreferencesKept
    BY <2>1 DEF RecallInv, ListInv, PreferencesKept, PreferenceCall, SlotsFull
  <2>4. WindowOnlyAdds
    <3>1. ToSet(first) = Range(first)
      BY DEF ToSet, Range
    <3> QED
      BY <2>1, <3>1 DEF RecallInv, ListInv, WindowOnlyAdds
  <2>5. DegradesNotFails
    BY DEF RecallInv, ReplyInv, DegradesNotFails
  <2> QED
    BY <2>2, <2>3, <2>4, <2>5 DEF AnswerSound
<1> QED
  BY <1>1, RecallInitInv, RecallNextInv, PTL DEF RecallSpec

-----------------------------------------------------------------------------
(* The reasoning tools: the explore loop and its shards.                   *)

\* The corpus of an explore call.
CorpusInv == corpus \in Seq(RMems) /\ Range(corpus) \subseteq Scoped

\* The shards, from the fan-out to the reducer.
ShardInv ==
    /\ Exploring("fanout") \/ Exploring("reduce")
         => shards \in [1 .. ShardCount -> {"waiting", "running"} \cup Outcomes]
    /\ Exploring("reduce") => InState("ok") = 1 .. ShardCount

\* The citations of a finished call.
CitesInv == Exploring("done") => cites \subseteq Range(corpus)

ExploreInv == CorpusInv /\ ShardInv /\ CitesInv

LEMMA ShardQuotient ==
    ASSUME NEW n \in Nat, NEW t \in Nat \ {0}
    PROVE  /\ n \div t \in Nat /\ (n \div t) * t =< n /\ n < (n \div t) * t + t
OBVIOUS

LEMMA ShardOrder ==
    ASSUME NEW x \in Int, NEW y \in Int, NEW t \in Nat \ {0}, x * t < y * t
    PROVE  x < y
OBVIOUS

LEMMA ShardNext ==
    ASSUME NEW x \in Int, NEW t \in Int
    PROVE  (x + 1) * t = x * t + t
OBVIOUS

\* The shards cut the corpus into pieces that leave nothing out.
LEMMA ShardsCover ==
    ASSUME CorpusInv
    PROVE  UNION {ShardMems(i) : i \in 1 .. ShardCount} = Range(corpus)
<1>0. ShardSize \in Nat \ {0}
  BY ReasonAssumption
<1>1. PICK len \in Nat : len = Len(corpus) /\ corpus \in Seq(RMems)
  BY DEF CorpusInv
<1>2. PICK cnt \in Nat : /\ cnt = ShardCount
                         /\ cnt * ShardSize =< len + ShardSize - 1
                         /\ len + ShardSize - 1 < cnt * ShardSize + ShardSize
  <2>1. len + ShardSize - 1 \in Nat
    BY <1>0
  <2> QED
    BY <1>0, <1>1, <2>1, ShardQuotient DEF ShardCount
<1>3. ASSUME NEW i \in 1 .. cnt
      PROVE  /\ (i - 1) * ShardSize + 1 \in Nat /\ i * ShardSize \in Nat
             /\ i * ShardSize = (i - 1) * ShardSize + ShardSize
             /\ (i - 1) * ShardSize + 1 =< len
  <2>1. i * ShardSize = (i - 1) * ShardSize + ShardSize /\ (i - 1) * ShardSize \in Nat
    <3>1. i - 1 \in Nat /\ i = (i - 1) + 1
      OBVIOUS
    <3>2. ((i - 1) + 1) * ShardSize = (i - 1) * ShardSize + ShardSize
      BY <1>0, <3>1, ShardNext
    <3>3. (i - 1) * ShardSize \in Nat
      BY <1>0, <3>1
    <3> QED
      BY <3>1, <3>2, <3>3
  <2>2. i * ShardSize =< cnt * ShardSize
    BY <1>0, <1>2
  <2> QED
    BY <1>0, <1>2, <2>1, <2>2
<1>4. ASSUME NEW i \in 1 .. cnt
      PROVE  ShardMems(i) = {corpus[k] : k \in (i - 1) * ShardSize + 1 .. Min({i * ShardSize, len})}
  <2>1. PICK lo, last : lo = (i - 1) * ShardSize + 1 /\ last = Min({i * ShardSize, len})
    OBVIOUS
  <2>2. /\ lo \in Nat /\ last \in Nat /\ 1 =< lo /\ lo =< last + 1 /\ last =< len
    BY <1>0, <1>3, <2>1, LesserOfTwo
  <2>3. PICK c \in Seq(RMems) : c = corpus /\ Len(c) = len
    BY <1>1
  <2>4. Range(SubSeq(c, lo, last)) = {c[k] : k \in lo .. last}
    BY <2>2, <2>3, PieceFacts
  <2> QED
    BY <1>1, <2>1, <2>3, <2>4 DEF ShardMems
<1>5. Range(corpus) = {corpus[k] : k \in 1 .. len}
  <2>1. DOMAIN corpus = 1 .. len
    BY <1>1
  <2> QED
    BY <2>1 DEF Range
<1>6. ASSUME NEW i \in 1 .. cnt PROVE ShardMems(i) \subseteq Range(corpus)
  <2>1. PICK lo, last : lo = (i - 1) * ShardSize + 1 /\ last = Min({i * ShardSize, len})
    OBVIOUS
  <2>2. (i - 1) * ShardSize \in Nat
    BY <1>0
  <2>3. lo \in Nat /\ 1 =< lo /\ last \in Nat /\ last =< len
    BY <1>3, <2>1, <2>2, LesserOfTwo
  <2>4. \A k \in lo .. last : k \in 1 .. len
    BY <2>3
  <2> QED
    BY <1>4, <1>5, <2>1, <2>4
<1>7. ASSUME NEW k \in 1 .. len
      PROVE  \E i \in 1 .. cnt : corpus[k] \in ShardMems(i)
  <2>0. k - 1 \in Nat
    OBVIOUS
  <2>1. PICK q \in Nat : q * ShardSize =< k - 1 /\ k - 1 < q * ShardSize + ShardSize
    BY <1>0, <2>0, ShardQuotient
  <2>2. (q + 1) * ShardSize = q * ShardSize + ShardSize
    BY <1>0, ShardNext
  <2>3. q \in 0 .. cnt - 1
    <3>1. q * ShardSize \in Nat /\ cnt * ShardSize \in Nat
      BY <1>0
    <3>2. q * ShardSize < cnt * ShardSize
      BY <1>0, <1>2, <2>1, <3>1
    <3>3. q < cnt
      BY <1>0, <3>2, ShardOrder
    <3> QED
      BY <3>3
  <2>4. q + 1 \in 1 .. cnt /\ (q + 1) - 1 = q
    BY <2>3
  <2>5. (q + 1) * ShardSize \in Nat
    BY <1>0, <2>4
  <2>6. k \in q * ShardSize + 1 .. Min({(q + 1) * ShardSize, len})
    <3>1. q * ShardSize \in Nat
      BY <1>0
    <3>2. PICK last \in Nat : last = Min({(q + 1) * ShardSize, len}) /\ last \in {(q + 1) * ShardSize, len}
      BY <2>5, LesserOfTwo
    <3>3. q * ShardSize + 1 =< k /\ k =< last
      BY <1>0, <2>1, <2>2, <3>1, <3>2
    <3> QED
      BY <3>1, <3>2, <3>3
  <2> QED
    BY <1>4, <2>4, <2>6
<1> QED
  BY <1>2, <1>5, <1>6, <1>7

LEMMA ExploreInitInv == ReasonInit => ExploreInv
<1>1. <<>> \in Seq(RMems) /\ Range(<<>>) = {}
  BY DEF Range
<1> QED
  BY <1>1 DEF ReasonInit, ExploreInv, CorpusInv, ShardInv, CitesInv, Exploring

\* The steps of the loop that leave the corpus alone.
LEMMA LoopKeeps ==
    ASSUME ExploreInv, LeaveLoop \/ ScoreCorpus \/ ScoreFailed \/ Refine
    PROVE  ExploreInv'
<1>1. rcall' = rcall /\ corpus' = corpus /\ stage' \in {"synthesise", "decide", "recall"}
  <2>1. CASE LeaveLoop
    BY <2>1 DEF LeaveLoop
  <2>2. CASE ScoreCorpus
    BY <2>2 DEF ScoreCorpus
  <2>3. CASE ScoreFailed
    BY <2>3 DEF ScoreFailed
  <2>4. CASE Refine
    BY <2>4 DEF Refine
  <2> QED
    BY <2>1, <2>2, <2>3, <2>4
<1> QED
  BY <1>1 DEF ExploreInv, CorpusInv, ShardInv, CitesInv, Exploring

LEMMA ExploreRecallKeeps ==
    ASSUME ExploreInv, ExploreRecall
    PROVE  ExploreInv'
<1>1. rcall' = rcall /\ stage' \in {"score", "failed"}
  BY DEF ExploreRecall
<1>2. CorpusInv'
  <2>1. CASE corpus' = corpus
    BY <2>1 DEF ExploreInv, CorpusInv
  <2>2. CASE corpus' # corpus
    <3>1. PICK found \in SUBSET RMems :
            corpus' = corpus \o SetToSeq(InScope(found) \ Range(corpus))
      BY <2>2 DEF ExploreRecall
    <3>2. PICK S : S = InScope(found) \ Range(corpus)
      OBVIOUS
    <3>3. S \subseteq RMems /\ S \subseteq Scoped /\ IsFiniteSet(S)
      <4>1. S \in SUBSET RMems /\ S \subseteq Scoped
        BY <3>2 DEF InScope
      <4> QED
        BY <4>1, ReasonAssumption, FS_Subset
    <3>4. PICK new : new = SetToSeq(S)
      OBVIOUS
    <3>5. new \in Seq(S) /\ Range(new) = S
      BY <3>3, <3>4, ChosenEnumeration
    <3>6. new \in Seq(RMems)
      BY <3>3, <3>5, SeqMonotonic
    <3>7. corpus \in Seq(RMems) /\ Range(corpus) \subseteq Scoped
      BY DEF ExploreInv, CorpusInv
    <3>8. corpus \o new \in Seq(RMems) /\ Range(corpus \o new) = Range(corpus) \cup Range(new)
      BY <3>6, <3>7, ConcatFacts
    <3>9. corpus' = corpus \o new
      BY <3>1, <3>2, <3>4
    <3> QED
      BY <3>3, <3>5, <3>7, <3>8, <3>9 DEF CorpusInv
  <2> QED
    BY <2>1, <2>2
<1> QED
  BY <1>1, <1>2 DEF ExploreInv, ShardInv, CitesInv, Exploring

LEMMA SynthesiseKeeps ==
    ASSUME ExploreInv, Synthesise
    PROVE  ExploreInv'
<1>1. rcall' = rcall /\ corpus' = corpus /\ ShardCount' = ShardCount
  BY DEF Synthesise, loopVars, ShardCount
<1>2. \/ stage' = "answer"
      \/ stage' = "fanout" /\ shards' = [i \in 1 .. ShardCount |-> "waiting"]
  BY DEF Synthesise
<1>3. CASE stage' = "answer"
  BY <1>1, <1>3 DEF ExploreInv, CorpusInv, ShardInv, CitesInv, Exploring
<1>4. CASE stage' = "fanout" /\ shards' = [i \in 1 .. ShardCount |-> "waiting"]
  BY <1>1, <1>4 DEF ExploreInv, CorpusInv, ShardInv, CitesInv, Exploring
<1> QED
  BY <1>2, <1>3, <1>4

LEMMA ShardStepKeeps ==
    ASSUME ExploreInv, NEW i \in DOMAIN shards, StartShard(i) \/ ShardEnds(i)
    PROVE  ExploreInv'
<1>1. /\ Exploring("fanout") /\ rcall' = rcall /\ stage' = stage /\ corpus' = corpus
      /\ \E st \in {"waiting", "running"} \cup Outcomes : shards' = [shards EXCEPT ![i] = st]
  BY DEF StartShard, ShardEnds, loopVars
<1>2. ShardCount' = ShardCount
  BY <1>1 DEF ShardCount
<1> QED
  BY <1>1, <1>2 DEF ExploreInv, CorpusInv, ShardInv, CitesInv, Exploring

LEMMA WaitShardsKeeps ==
    ASSUME ExploreInv, WaitShards
    PROVE  ExploreInv'
<1>1. /\ Exploring("fanout") /\ rcall' = rcall /\ shards' = shards /\ corpus' = corpus
      /\ stage' \in {"failed", "reduce"}
      /\ InState("waiting") \cup InState("running") = {}
      /\ stage' = "reduce" => InState("error") = {}
  BY DEF WaitShards, loopVars
<1>2. ShardCount' = ShardCount /\ InState("ok")' = InState("ok")
  BY <1>1 DEF ShardCount, InState
<1>3. stage' = "reduce" => InState("ok") = 1 .. ShardCount
  BY <1>1 DEF ExploreInv, ShardInv, InState, Outcomes
<1> QED
  BY <1>1, <1>2, <1>3 DEF ExploreInv, CorpusInv, ShardInv, CitesInv, Exploring

LEMMA LastCallKeeps ==
    ASSUME ExploreInv, LastCall
    PROVE  ExploreInv'
<1>1. /\ rcall' = rcall /\ corpus' = corpus /\ stage' \in {"done", "failed"}
      /\ stage' = "done" => cites' \subseteq Range(corpus)
  BY DEF LastCall, loopVars, ValidateCitations
<1> QED
  BY <1>1 DEF ExploreInv, CorpusInv, ShardInv, CitesInv, Exploring

LEMMA ExploreNextInv == ExploreInv /\ [ReasonNext]_reasonVars => ExploreInv'
<1> SUFFICES ASSUME ExploreInv, [ReasonNext]_reasonVars PROVE ExploreInv'
  OBVIOUS
<1>1. CASE ExploreStep
  BY <1>1, LoopKeeps, ExploreRecallKeeps, SynthesiseKeeps, ShardStepKeeps, WaitShardsKeeps,
     LastCallKeeps DEF ExploreStep
<1>2. CASE Reason \/ Ask \/ QueryDocument \/ UNCHANGED reasonVars
  <2>1. UNCHANGED <<rcall, stage, corpus, shards, cites>>
    BY <1>2 DEF Reason, Ask, QueryDocument, reasonVars, loopVars
  <2> QED
    BY <2>1 DEF ExploreInv, CorpusInv, ShardInv, CitesInv, Exploring, ShardCount, InState
<1> QED
  BY <1>1, <1>2 DEF ReasonNext

\* What an answer rests on.
LEMMA ExploreGrounded == ExploreInv => AnswerGrounded
BY ShardsCover DEF ExploreInv, CorpusInv, ShardInv, CitesInv, AnswerGrounded

-----------------------------------------------------------------------------
(* memory_reason.                                                          *)

LEMMA ReasonEstablishes ==
    ASSUME Reason
    PROVE  ReasonSound'
<1>1. PICK ms \in SetToSeqs(RMems), k \in 0 .. Cardinality(RMems), readable \in SUBSET RMems :
        LET recalled == SubSeq(ms, 1, k)
            listed == SubSeq(recalled, 1, Min({k, ReasonCap}))
        IN  made' = [done |-> TRUE, listed |-> listed, readable |-> readable,
                     conflicts |-> KeptConflicts(Conflicts(recalled, readable), listed)]
  BY DEF Reason
<1>2. PICK recalled, listed :
        /\ recalled = SubSeq(ms, 1, k) /\ listed = SubSeq(recalled, 1, Min({k, ReasonCap}))
        /\ made' = [done |-> TRUE, listed |-> listed, readable |-> readable,
                    conflicts |-> KeptConflicts(Conflicts(recalled, readable), listed)]
  BY <1>1
<1>3. Cardinality(RMems) \in Nat /\ ms \in Seq(RMems) /\ Len(ms) = Cardinality(RMems)
  BY ReasonAssumption, FS_CardinalityType, EnumerationFacts
<1>4. k \in Nat /\ k =< Len(ms)
  BY <1>3
<1>5. recalled \in Seq(RMems) /\ Len(recalled) = k
  BY <1>2, <1>3, <1>4, PrefixFacts
<1>6. Min({k, ReasonCap}) \in Nat /\ Min({k, ReasonCap}) =< Len(recalled)
  BY <1>4, <1>5, ReasonAssumption, LesserOfTwo
<1>7. Range(listed) \subseteq Range(recalled)
  BY <1>2, <1>5, <1>6, PrefixFacts
<1>8. Contradicts \subseteq RMems \X RMems
  BY ReasonAssumption
<1>9. made'.listed = listed /\ made'.readable = readable
      /\ made'.conflicts = {e \in Contradicts : /\ {e[1], e[2]} \subseteq Range(recalled)
                                                /\ {e[1], e[2]} \cap readable # {}
                                                /\ {e[1], e[2]} \subseteq Range(listed)}
  BY <1>2 DEF KeptConflicts, Conflicts
<1>10. made'.conflicts \subseteq Range(listed) \X Range(listed)
  BY <1>8, <1>9
<1>11. \A e \in Contradicts : {e[1], e[2]} \subseteq Range(listed) /\ e[1] \in readable
                                => e \in made'.conflicts
  BY <1>7, <1>9
<1> QED
  BY <1>9, <1>10, <1>11 DEF ReasonSound

-----------------------------------------------------------------------------
(* memory_ask: the budget.                                                 *)

\* Results whose costs are positive.
Priced(rs) == rs \in Seq([score : AskScores, cost : AskCosts])

LEMMA PlacesFacts ==
    ASSUME NEW rs, Priced(rs)
    PROVE  /\ Len(rs) \in Nat /\ DOMAIN rs = 1 .. Len(rs) /\ Len(Places(rs)) = Len(rs)
           /\ \A i \in 1 .. Len(rs) : Places(rs)[i] = i /\ rs[i].cost \in Nat \ {0}
<1>1. rs \in Seq([score : AskScores, cost : AskCosts]) /\ AskCosts \subseteq Nat \ {0}
  BY ReasonAssumption DEF Priced
<1>2. Len(rs) \in Nat /\ DOMAIN rs = 1 .. Len(rs)
  BY <1>1
<1>3. ASSUME NEW i \in 1 .. Len(rs) PROVE rs[i].cost \in Nat \ {0}
  <2>1. PICK V : V = [score : AskScores, cost : AskCosts]
    OBVIOUS
  <2>2. rs \in Seq(V)
    BY <1>1, <2>1
  <2>3. rs[i] \in V
    BY <2>2
  <2>4. rs[i].cost \in AskCosts
    BY <2>1, <2>3
  <2> QED
    BY <1>1, <2>4
<1>4. Places(rs) \in Seq(Nat) /\ Len(Places(rs)) = Len(rs)
  BY <1>2 DEF Places
<1> QED
  BY <1>2, <1>3, <1>4 DEF Places

\* The sum of the costs of S.
LEMMA TokensLoop ==
    ASSUME NEW rs, Priced(rs), NEW S
    PROVE  \E f : /\ f[0] = 0 /\ ContextTokens(rs, S) = f[Len(Places(rs))]
                 /\ \A i \in 1 .. Len(Places(rs)) : f[i] = IF Places(rs)[i] \in S THEN f[i - 1] + rs[Places(rs)[i]].cost ELSE f[i - 1]
<1> DEFINE step(x, i) == IF Places(rs)[i] \in S THEN x + rs[Places(rs)[i]].cost ELSE x
<1>0. PICK nn, bb, SS : nn = Len(Places(rs)) /\ bb = 0 /\ SS = Int
  OBVIOUS
<1> DEFINE loop(f) == f = [i \in 0 .. nn |-> IF i = 0 THEN bb ELSE step(f[i - 1], i)]
<1>1. nn \in Nat /\ bb \in SS
  BY <1>0, PlacesFacts
<1>2. \A x \in SS, i \in 1 .. nn : step(x, i) \in SS
  BY <1>0, PlacesFacts
<1>3. ContextTokens(rs, S) = (CHOOSE f : loop(f))[nn]
  BY <1>0 DEF ContextTokens, LeftFold
<1> HIDE DEF step
<1>4. PICK G : AreTurns(G, nn, SS) /\ \A i \in 1 .. nn, x \in SS : G[i][x] = step(x, i)
  <2> DEFINE H == [i \in 1 .. nn |-> [x \in SS |-> step(x, i)]]
  <2>1. AreTurns(H, nn, SS) /\ \A i \in 1 .. nn, x \in SS : H[i][x] = step(x, i)
    BY <1>2 DEF AreTurns
  <2> HIDE DEF H
  <2> QED
    BY <2>1
<1>5. PICK g : IsLoop(g, nn, SS, bb, G)
  BY <1>1, <1>4, LoopExists
<1>6. loop(g)
  <2>1. \A i \in 1 .. nn : g[i - 1] \in SS /\ g[i] = step(g[i - 1], i)
    BY <1>1, <1>4, <1>5 DEF IsLoop
  <2>2. \A i \in 0 .. nn : g[i] = IF i = 0 THEN bb ELSE step(g[i - 1], i)
    BY <1>1, <1>5, <2>1 DEF IsLoop
  <2> QED
    BY <1>5, <2>2 DEF IsLoop
<1>7. PICK f : loop(f) /\ ContextTokens(rs, S) = f[nn]
  <2> HIDE DEF loop
  <2> QED
    BY <1>3, <1>6
<1>8. f[0] = bb /\ \A i \in 1 .. nn : f[i] = step(f[i - 1], i)
  BY <1>1, <1>7
<1> QED
  BY <1>0, <1>7, <1>8 DEF step

LEMMA AskOrderFacts ==
    ASSUME NEW rs, Priced(rs), NEW order \in SetToSeqs(DOMAIN rs)
    PROVE  /\ Len(order) \in Nat /\ IsInjective(order) /\ DOMAIN order = 1 .. Len(order)
           /\ \A i \in 1 .. Len(order) : order[i] \in 1 .. Len(rs)
           /\ UpTo(order, Len(order)) = 1 .. Len(rs)
<1>1. Len(rs) \in Nat /\ DOMAIN rs = 1 .. Len(rs)
  BY PlacesFacts
<1>2. IsFiniteSet(1 .. Len(rs))
  BY <1>1, FS_Interval
<1>3. /\ order \in Seq(1 .. Len(rs)) /\ IsInjective(order) /\ Range(order) = 1 .. Len(rs)
  BY <1>1, <1>2, EnumerationFacts
<1>4. DOMAIN order = 1 .. Len(order) /\ Len(order) \in Nat
  BY <1>3
<1>5. UpTo(order, Len(order)) = Range(order)
  BY <1>4 DEF UpTo, Range
<1> QED
  BY <1>3, <1>4, <1>5

\* The greedy pass.
LEMMA GreedyLoop ==
    ASSUME NEW rs, Priced(rs), NEW order \in SetToSeqs(DOMAIN rs)
    PROVE  \E f : /\ f[0] = NothingTaken /\ Greedy(rs, order) = f[Len(order)]
                 /\ \A i \in 1 .. Len(order) : f[i] = Take(rs, f[i - 1], order[i])
<1> DEFINE step(x, i) == Take(rs, x, order[i])
<1>0. PICK nn, bb, SS : nn = Len(order) /\ bb = NothingTaken /\ SS = [left : Int, taken : SUBSET Nat]
  OBVIOUS
<1> DEFINE loop(f) == f = [i \in 0 .. nn |-> IF i = 0 THEN bb ELSE step(f[i - 1], i)]
<1>1. nn \in Nat /\ bb \in SS
  BY <1>0, ReasonAssumption, AskOrderFacts DEF NothingTaken
<1>2. \A x \in SS, i \in 1 .. nn : step(x, i) \in SS
  BY <1>0, AskOrderFacts, PlacesFacts DEF Take
<1>3. Greedy(rs, order) = (CHOOSE f : loop(f))[nn]
  BY <1>0 DEF Greedy, LeftFold
<1> HIDE DEF step
<1>4. PICK G : AreTurns(G, nn, SS) /\ \A i \in 1 .. nn, x \in SS : G[i][x] = step(x, i)
  <2> DEFINE H == [i \in 1 .. nn |-> [x \in SS |-> step(x, i)]]
  <2>1. AreTurns(H, nn, SS) /\ \A i \in 1 .. nn, x \in SS : H[i][x] = step(x, i)
    BY <1>2 DEF AreTurns
  <2> HIDE DEF H
  <2> QED
    BY <2>1
<1>5. PICK g : IsLoop(g, nn, SS, bb, G)
  BY <1>1, <1>4, LoopExists
<1>6. loop(g)
  <2>1. \A i \in 1 .. nn : g[i - 1] \in SS /\ g[i] = step(g[i - 1], i)
    BY <1>1, <1>4, <1>5 DEF IsLoop
  <2>2. \A i \in 0 .. nn : g[i] = IF i = 0 THEN bb ELSE step(g[i - 1], i)
    BY <1>1, <1>5, <2>1 DEF IsLoop
  <2> QED
    BY <1>5, <2>2 DEF IsLoop
<1>7. PICK f : loop(f) /\ Greedy(rs, order) = f[nn]
  <2> HIDE DEF loop
  <2> QED
    BY <1>3, <1>6
<1>8. f[0] = bb /\ \A i \in 1 .. nn : f[i] = step(f[i - 1], i)
  BY <1>1, <1>7
<1> QED
  BY <1>0, <1>7, <1>8 DEF step

\* One more result costs its price more.
LEMMA TokensAdd ==
    ASSUME NEW rs, Priced(rs), NEW S, NEW j \in 1 .. Len(rs), j \notin S
    PROVE  /\ ContextTokens(rs, S) \in Nat
           /\ ContextTokens(rs, S \cup {j}) = ContextTokens(rs, S) + rs[j].cost
<1>0. PICK n \in Nat : /\ n = Len(rs) /\ n = Len(Places(rs))
                       /\ \A i \in 1 .. n : Places(rs)[i] = i /\ rs[i].cost \in Nat \ {0}
  BY PlacesFacts
<1>1. PICK f : /\ f[0] = 0 /\ ContextTokens(rs, S) = f[n]
               /\ \A i \in 1 .. n : f[i] = IF i \in S THEN f[i - 1] + rs[i].cost ELSE f[i - 1]
  BY <1>0, TokensLoop, SMTT(60)
<1>2. PICK g : /\ g[0] = 0 /\ ContextTokens(rs, S \cup {j}) = g[n]
               /\ \A i \in 1 .. n : g[i] = IF i \in S \cup {j} THEN g[i - 1] + rs[i].cost ELSE g[i - 1]
  BY <1>0, TokensLoop, SMTT(60)
<1> DEFINE Good(i) == /\ f[i] \in Nat
                      /\ g[i] = IF i < j THEN f[i] ELSE f[i] + rs[j].cost
           T == {i \in 0 .. n : Good(i)}
<1>3. j \in 1 .. n /\ rs[j].cost \in Nat
  BY <1>0
<1>4. Good(0)
  BY <1>1, <1>2, <1>3
<1>5. ASSUME NEW i \in 1 .. n, Good(i - 1) PROVE Good(i)
  <2>1. i - 1 \in Nat /\ rs[i].cost \in Nat
    BY <1>0
  <2>2. CASE i \in S
    <3>1. f[i] = f[i - 1] + rs[i].cost /\ g[i] = g[i - 1] + rs[i].cost /\ i # j
      BY <1>1, <1>2, <2>2
    <3>2. i - 1 < j <=> i < j
      BY <1>3, <3>1
    <3> QED
      BY <1>3, <1>5, <2>1, <3>1, <3>2, SMTT(30)
  <2>3. CASE i = j
    <3>1. f[i] = f[i - 1] /\ g[i] = g[i - 1] + rs[j].cost /\ i - 1 < j
      BY <1>1, <1>2, <1>3, <2>3
    <3>2. g[i - 1] = f[i - 1]
      BY <1>5, <3>1
    <3> QED
      BY <1>3, <1>5, <2>3, <3>1, <3>2
  <2>4. CASE i \notin S /\ i # j
    <3>1. f[i] = f[i - 1] /\ g[i] = g[i - 1]
      BY <1>1, <1>2, <2>4
    <3>2. i - 1 < j <=> i < j
      BY <1>3, <2>4
    <3> QED
      BY <1>3, <1>5, <2>1, <3>1, <3>2
  <2> QED
    BY <2>2, <2>3, <2>4
<1>6. Good(n)
  <2> HIDE DEF Good
  <2>1. 0 \in T /\ \A i \in 1 .. n : i - 1 \in T => i \in T
    BY <1>4, <1>5
  <2> HIDE DEF T
  <2>2. \A i \in 0 .. n : i \in T
    BY <2>1, UpToAll
  <2>3. n \in T
    BY <2>2
  <2> QED
    BY <2>3 DEF T
<1> QED
  BY <1>1, <1>2, <1>3, <1>6

LEMMA TokensNone ==
    ASSUME NEW rs, Priced(rs)
    PROVE  ContextTokens(rs, {}) = 0
<1>0. PICK n \in Nat : /\ n = Len(rs) /\ n = Len(Places(rs))
                       /\ \A i \in 1 .. n : Places(rs)[i] = i
  BY PlacesFacts
<1>1. PICK f : /\ f[0] = 0 /\ ContextTokens(rs, {}) = f[n]
               /\ \A i \in 1 .. n : f[i] = f[i - 1]
  BY <1>0, TokensLoop
<1> DEFINE T == {i \in 0 .. n : f[i] = 0}
<1>2. 0 \in T /\ \A i \in 1 .. n : i - 1 \in T => i \in T
  BY <1>1
<1>3. \A i \in 0 .. n : i \in T
  <2> HIDE DEF T
  <2> QED
    BY <1>2, UpToAll
<1>4. n \in T
  <2> HIDE DEF T
  <2> QED
    BY <1>3
<1> QED
  BY <1>1, <1>4

\* The greedy pass spends what it takes, and passes over only what no longer fits.
LEMMA GreedyFacts ==
    ASSUME NEW rs, Priced(rs), NEW order \in SetToSeqs(DOMAIN rs)
    PROVE  LET taken == Greedy(rs, order).taken
               cost == ContextTokens(rs, taken)
           IN  /\ cost =< AskBudget
               /\ \A i \in DOMAIN rs \ taken : cost + rs[i].cost > AskBudget
<1>1. PICK n \in Nat : /\ n = Len(order) /\ IsInjective(order) /\ DOMAIN order = 1 .. n
                       /\ \A i \in 1 .. n : order[i] \in 1 .. Len(rs)
                       /\ UpTo(order, n) = 1 .. Len(rs)
  BY AskOrderFacts
<1>2. /\ Len(rs) \in Nat /\ DOMAIN rs = 1 .. Len(rs)
      /\ \A i \in 1 .. Len(rs) : rs[i].cost \in Nat \ {0}
  BY PlacesFacts
<1>3. PICK f : /\ f[0] = NothingTaken /\ Greedy(rs, order) = f[Len(order)]
               /\ \A i \in 1 .. Len(order) : f[i] = Take(rs, f[i - 1], order[i])
  BY GreedyLoop
<1> DEFINE Good(i) == /\ f[i].left \in Nat /\ ContextTokens(rs, f[i].taken) \in Nat
                      /\ f[i].left + ContextTokens(rs, f[i].taken) = AskBudget
                      /\ f[i].taken \subseteq UpTo(order, i)
                      /\ \A j \in UpTo(order, i) \ f[i].taken : rs[j].cost > f[i].left
           T == {i \in 0 .. n : Good(i)}
<1>4. Good(0)
  <2>1. f[0].left = AskBudget /\ f[0].taken = {} /\ UpTo(order, 0) = {}
    BY <1>3 DEF UpTo, NothingTaken
  <2>2. ContextTokens(rs, {}) = 0 /\ AskBudget \in Nat
    BY TokensNone, ReasonAssumption
  <2> QED
    BY <2>1, <2>2
<1>5. ASSUME NEW i \in 1 .. n, Good(i - 1) PROVE Good(i)
  <2>1. PICK k : k = order[i]
    OBVIOUS
  <2>2. /\ k \in 1 .. Len(rs) /\ rs[k].cost \in Nat
        /\ UpTo(order, i) = UpTo(order, i - 1) \cup {k} /\ k \notin UpTo(order, i - 1)
    <3>1. k \in 1 .. Len(rs) /\ rs[k].cost \in Nat
      BY <1>1, <1>2, <2>1
    <3>2. UpTo(order, i) = UpTo(order, i - 1) \cup {k}
      BY <2>1 DEF UpTo
    <3>3. \A j \in 1 .. i - 1 : order[j] # k
      BY <1>1, <2>1 DEF IsInjective
    <3> QED
      BY <3>1, <3>2, <3>3 DEF UpTo
  <2>3. \A j \in UpTo(order, i - 1) : rs[j].cost \in Nat
    BY <1>1, <1>2 DEF UpTo
  <2>4. CASE rs[k].cost > f[i - 1].left
    <3>1. f[i] = f[i - 1]
      BY <1>1, <1>3, <2>1, <2>4 DEF Take
    <3> QED
      BY <1>5, <2>2, <2>4, <3>1
  <2>5. CASE ~(rs[k].cost > f[i - 1].left)
    <3>1. f[i] = [left |-> f[i - 1].left - rs[k].cost, taken |-> f[i - 1].taken \cup {k}]
      BY <1>1, <1>3, <2>1, <2>5 DEF Take
    <3>2. f[i].left = f[i - 1].left - rs[k].cost /\ f[i].taken = f[i - 1].taken \cup {k}
      BY <3>1
    <3>3. k \notin f[i - 1].taken
      BY <1>5, <2>2
    <3>4. ContextTokens(rs, f[i].taken) = ContextTokens(rs, f[i - 1].taken) + rs[k].cost
      BY <2>2, <3>2, <3>3, TokensAdd
    <3>5. f[i].left \in Nat /\ f[i].left =< f[i - 1].left
      BY <1>5, <2>2, <2>5, <3>2
    <3>6. ContextTokens(rs, f[i].taken) \in Nat
          /\ f[i].left + ContextTokens(rs, f[i].taken) = AskBudget
      <4>1. PICK l, c, p \in Nat : l = f[i - 1].left /\ c = ContextTokens(rs, f[i - 1].taken) /\ p = rs[k].cost
        BY <1>5, <2>2
      <4>2. l + c = AskBudget /\ f[i].left = l - p /\ ContextTokens(rs, f[i].taken) = c + p
        BY <1>5, <3>2, <3>4, <4>1
      <4> QED
        BY <4>1, <4>2, ReasonAssumption
    <3>7. f[i].taken \subseteq UpTo(order, i)
      BY <1>5, <2>2, <3>2
    <3>8. ASSUME NEW j \in UpTo(order, i) \ f[i].taken PROVE rs[j].cost > f[i].left
      <4>1. j \in UpTo(order, i - 1) \ f[i - 1].taken
        BY <2>2, <3>2
      <4>2. rs[j].cost > f[i - 1].left /\ rs[j].cost \in Nat /\ f[i - 1].left \in Nat
        BY <1>5, <2>3, <4>1
      <4> QED
        BY <3>5, <4>2
    <3> QED
      BY <3>5, <3>6, <3>7, <3>8
  <2> QED
    BY <2>4, <2>5
<1>6. Good(n)
  <2> HIDE DEF Good
  <2>1. 0 \in T /\ \A i \in 1 .. n : i - 1 \in T => i \in T
    BY <1>4, <1>5
  <2> HIDE DEF T
  <2>2. \A i \in 0 .. n : i \in T
    BY <2>1, UpToAll
  <2>3. n \in T
    BY <2>2
  <2> QED
    BY <2>3 DEF T
<1>7. PICK taken, cost : taken = Greedy(rs, order).taken /\ cost = ContextTokens(rs, taken)
  OBVIOUS
<1>8. PICK left \in Nat : /\ cost \in Nat /\ left + cost = AskBudget
                          /\ \A j \in DOMAIN rs \ taken : rs[j].cost > left
  BY <1>1, <1>2, <1>3, <1>6, <1>7
<1>9. \A j \in DOMAIN rs \ taken : cost + rs[j].cost > AskBudget
  BY <1>2, <1>8
<1>10. cost =< AskBudget
  BY <1>8
<1> QED
  BY <1>7, <1>9, <1>10

LEMMA AskEstablishes ==
    ASSUME Ask
    PROVE  AskSound'
<1>1. PICK rs \in Results : \E order \in ByScore(rs) :
        made' = [done |-> TRUE, results |-> rs, taken |-> Greedy(rs, order).taken]
  BY DEF Ask
<1>2. PICK order \in ByScore(rs) :
        made' = [done |-> TRUE, results |-> rs, taken |-> Greedy(rs, order).taken]
  BY <1>1
<1>3. Priced(rs)
  <2>1. PICK V : V = [score : AskScores, cost : AskCosts]
    OBVIOUS
  <2>2. PICK m \in 1 .. AskMax : rs \in [1 .. m -> V]
    BY <2>1 DEF Results
  <2>3. m \in Nat
    OBVIOUS
  <2>4. rs \in Seq(V)
    BY <2>2, <2>3
  <2> QED
    BY <2>1, <2>4 DEF Priced
<1>4. order \in SetToSeqs(DOMAIN rs)
  BY DEF ByScore
<1>5. made'.results = rs /\ made'.taken = Greedy(rs, order).taken
  BY <1>2
<1> QED
  BY <1>3, <1>4, <1>5, GreedyFacts DEF AskSound

-----------------------------------------------------------------------------
(* memory_query_document: windows, merge, budget.                          *)

LEMMA SpanFacts ==
    ASSUME NEW s \in Spans
    PROVE  /\ s[1] \in Nat /\ s[2] \in Nat /\ s[1] =< s[2] /\ s[2] =< DocLen
           /\ s = <<s[1], s[2]>>
BY ReasonAssumption DEF Spans

LEMMA SpanMade ==
    ASSUME NEW x \in Nat, NEW y \in Nat, x =< y, y =< DocLen
    PROVE  <<x, y>> \in Spans
BY ReasonAssumption DEF Spans

LEMMA BytesIff ==
    ASSUME NEW S, NEW x
    PROVE  x \in BytesOf(S) <=> \E s \in S : x \in s[1] .. s[2] - 1
BY DEF BytesOf

LEMMA BytesUnion ==
    ASSUME NEW S, NEW U
    PROVE  BytesOf(S \cup U) = BytesOf(S) \cup BytesOf(U)
BY DEF BytesOf

LEMMA BytesOne ==
    ASSUME NEW s
    PROVE  BytesOf({s}) = s[1] .. s[2] - 1
BY DEF BytesOf

LEMMA SpansFinite == IsFiniteSet(Spans)
<1>1. IsFiniteSet(0 .. DocLen)
  BY ReasonAssumption, FS_Interval
<1>2. IsFiniteSet((0 .. DocLen) \X (0 .. DocLen))
  BY <1>1, FS_Product
<1>3. Spans \in SUBSET ((0 .. DocLen) \X (0 .. DocLen))
  BY DEF Spans
<1> QED
  BY <1>2, <1>3, FS_Subset

LEMMA WidenedSpan ==
    ASSUME NEW x \in Spans, NEW half \in Nat
    PROVE  Widened(x, half) \in Spans
<1>1. PICK from, to \in Nat : from = x[1] /\ to = x[2] /\ from =< to /\ to =< DocLen
  BY SpanFacts
<1>2. PICK hi \in Nat : hi = Min({to + half, DocLen}) /\ hi \in {to + half, DocLen} /\ hi =< DocLen
  <2>1. to + half \in Nat /\ DocLen \in Nat
    BY ReasonAssumption
  <2> QED
    BY <2>1, LesserOfTwo
<1>3. PICK lo \in Nat : lo = (IF from < half THEN 0 ELSE from - half) /\ lo =< from
  OBVIOUS
<1>4. Widened(x, half) = <<lo, hi>>
  BY <1>1, <1>2, <1>3 DEF Widened
<1>5. lo =< hi
  BY <1>1, <1>2, <1>3
<1> QED
  BY <1>2, <1>4, <1>5, SpanMade

\* Spans in order, with a gap between any two.
Separated(out) == \A i, j \in 1 .. Len(out) : i < j => out[i][2] < out[j][1]

\* The places where spans end.
Ends(S) == {s[2] : s \in S}

LEMMA JoinFacts ==
    ASSUME NEW out \in Seq(Spans), Separated(out), NEW s \in Spans,
           \A i \in 1 .. Len(out) : out[i][1] =< s[1]
    PROVE  /\ Join(out, s) \in Seq(Spans) /\ Separated(Join(out, s))
           /\ \A i \in 1 .. Len(Join(out, s)) : Join(out, s)[i][1] =< s[1]
           /\ BytesOf(Range(Join(out, s))) = BytesOf(Range(out)) \cup BytesOf({s})
           /\ Ends(Range(Join(out, s))) \subseteq Ends(Range(out)) \cup {s[2]}
<1>1. PICK n \in Nat : n = Len(out) /\ \A i \in 1 .. n : out[i] \in Spans
  OBVIOUS
<1>2. DOMAIN out = 1 .. n
  BY <1>1
<1>3. \A i \in 1 .. n : /\ out[i][1] \in Nat /\ out[i][2] \in Nat
                        /\ out[i][1] =< out[i][2] /\ out[i][2] =< DocLen
  BY <1>1, SpanFacts
<1>4. s[1] \in Nat /\ s[2] \in Nat /\ s[1] =< s[2] /\ s[2] =< DocLen
  BY SpanFacts
<1>5. out # <<>> <=> n > 0
  BY <1>1
<1>6. CASE n > 0 /\ s[1] =< out[n][2]
  <2>1. PICK hi \in Nat : /\ hi = (IF s[2] > out[n][2] THEN s[2] ELSE out[n][2])
                          /\ hi \in {s[2], out[n][2]} /\ s[2] =< hi /\ out[n][2] =< hi
    BY <1>3, <1>4, <1>6
  <2>2. PICK last : last = <<out[n][1], hi>>
    OBVIOUS
  <2>3. last \in Spans /\ last[1] = out[n][1] /\ last[2] = hi
    <3>1. out[n][1] \in Nat /\ out[n][1] =< hi /\ hi =< DocLen
      BY <1>3, <1>4, <1>6, <2>1
    <3> QED
      BY <2>2, <3>1, SpanMade
  <2>4. Join(out, s) = [out EXCEPT ![n] = last]
    BY <1>1, <1>5, <1>6, <2>1, <2>2 DEF Join
  <2>5. PICK o : o = Join(out, s)
    OBVIOUS
  <2>6. o \in [1 .. n -> Spans] /\ o[n] = last /\ \A i \in 1 .. n - 1 : o[i] = out[i]
    <3>1. out \in [1 .. n -> Spans]
      BY <1>1, <1>2
    <3> QED
      BY <1>6, <2>3, <2>4, <2>5, <3>1
  <2>7. o \in Seq(Spans) /\ Len(o) = n
    BY <2>6
  <2>8. Separated(o)
    <3>1. ASSUME NEW i \in 1 .. n, NEW j \in 1 .. n, i < j
          PROVE  o[i][2] < o[j][1]
      <4>1. out[i][2] < out[j][1] /\ i \in 1 .. n - 1
        BY <1>1, <3>1 DEF Separated
      <4>2. o[i] = out[i] /\ o[j][1] = out[j][1]
        <5>1. CASE j = n
          BY <2>3, <2>6, <4>1, <5>1
        <5>2. CASE j # n
          BY <2>6, <4>1, <5>2
        <5> QED
          BY <5>1, <5>2
      <4> QED
        BY <4>1, <4>2
    <3> QED
      BY <2>7, <3>1 DEF Separated
  <2>9. \A i \in 1 .. n : o[i][1] =< s[1]
    <3>1. ASSUME NEW i \in 1 .. n PROVE o[i][1] = out[i][1]
      <4>1. CASE i = n
        BY <2>3, <2>6, <4>1
      <4>2. CASE i # n
        BY <2>6, <4>2
      <4> QED
        BY <4>1, <4>2
    <3> QED
      BY <1>1, <3>1
  <2>10. PICK R : R = {out[i] : i \in 1 .. n - 1}
    OBVIOUS
  <2>11. Range(out) = R \cup {out[n]} /\ Range(o) = R \cup {last}
    <3>1. DOMAIN o = 1 .. n /\ \A i \in 1 .. n : i = n \/ i \in 1 .. n - 1
      BY <2>6
    <3>2. n \in 1 .. n /\ \A i \in 1 .. n - 1 : i \in 1 .. n
      BY <1>6
    <3>3. Range(out) = R \cup {out[n]}
      BY <1>2, <2>10, <3>1, <3>2 DEF Range
    <3>4. Range(o) = R \cup {last}
      BY <2>6, <2>10, <3>1, <3>2 DEF Range
    <3> QED
      BY <3>3, <3>4
  <2>12. BytesOf({last}) = BytesOf({out[n]}) \cup BytesOf({s})
    <3>1. /\ out[n][1] \in Nat /\ out[n][2] \in Nat /\ out[n][1] =< s[1]
      BY <1>1, <1>3, <1>6
    <3>2. BytesOf({last}) = out[n][1] .. hi - 1
      BY <2>3, BytesOne
    <3>3. BytesOf({out[n]}) = out[n][1] .. out[n][2] - 1 /\ BytesOf({s}) = s[1] .. s[2] - 1
      BY BytesOne
    <3>4. out[n][1] .. hi - 1 = (out[n][1] .. out[n][2] - 1) \cup (s[1] .. s[2] - 1)
      <4>1. PICK p, q, u, v \in Nat : p = out[n][1] /\ q = out[n][2] /\ u = s[1] /\ v = s[2]
        BY <1>4, <3>1
      <4>2. p =< u /\ u =< q /\ hi \in {q, v} /\ q =< hi /\ v =< hi
        BY <1>6, <2>1, <3>1, <4>1
      <4>3. ASSUME NEW x PROVE x \in p .. hi - 1 <=> x \in p .. q - 1 \/ x \in u .. v - 1
        BY <4>2
      <4> QED
        BY <4>1, <4>3
    <3> QED
      BY <3>2, <3>3, <3>4
  <2>13. BytesOf(Range(o)) = BytesOf(Range(out)) \cup BytesOf({s})
    <3>1. BytesOf(R \cup {last}) = BytesOf(R) \cup BytesOf({last})
      BY BytesUnion
    <3>2. BytesOf(R \cup {out[n]}) = BytesOf(R) \cup BytesOf({out[n]})
      BY BytesUnion
    <3> QED
      BY <2>11, <2>12, <3>1, <3>2
  <2>14. Ends(Range(o)) \subseteq Ends(Range(out)) \cup {s[2]}
    BY <2>1, <2>3, <2>11 DEF Ends
  <2> QED
    BY <2>5, <2>7, <2>8, <2>9, <2>13, <2>14
<1>7. CASE ~(n > 0 /\ s[1] =< out[n][2])
  <2>1. Join(out, s) = Append(out, s)
    BY <1>1, <1>5, <1>7 DEF Join
  <2>2. PICK o : o = Join(out, s)
    OBVIOUS
  <2>3. /\ o \in Seq(Spans) /\ Len(o) = n + 1 /\ Range(o) = Range(out) \cup {s}
        /\ \A i \in 1 .. n : o[i] = out[i]
        /\ o[n + 1] = s
    BY <1>1, <2>1, <2>2, AppendFacts, AppendProperties
  <2>4. ASSUME NEW i \in 1 .. n PROVE out[i][2] < s[1]
    <3>1. /\ n \in 1 .. n /\ out[n][1] \in Nat /\ out[n][2] \in Nat /\ out[i][2] \in Nat
          /\ out[n][1] =< out[n][2]
      BY <1>3
    <3>2. out[n][2] < s[1]
      BY <1>4, <1>7, <3>1
    <3>3. CASE i = n
      BY <3>2, <3>3
    <3>4. CASE i # n
      <4>1. out[i][2] < out[n][1]
        BY <1>1, <3>1, <3>4 DEF Separated
      <4> QED
        BY <1>4, <3>1, <3>2, <4>1
    <3> QED
      BY <3>3, <3>4
  <2>5. Separated(o)
    <3>1. ASSUME NEW i \in 1 .. n + 1, NEW j \in 1 .. n + 1, i < j
          PROVE  o[i][2] < o[j][1]
      <4>1. i \in 1 .. n
        BY <3>1
      <4>2. CASE j = n + 1
        BY <2>3, <2>4, <4>1, <4>2
      <4>3. CASE j # n + 1
        <5>1. j \in 1 .. n
          BY <4>3
        <5> QED
          BY <1>1, <2>3, <3>1, <4>1, <5>1 DEF Separated
      <4> QED
        BY <4>2, <4>3
    <3> QED
      BY <2>3, <3>1 DEF Separated
  <2>6. ASSUME NEW i \in 1 .. n + 1 PROVE o[i][1] =< s[1]
    <3>1. CASE i = n + 1
      BY <1>4, <2>3, <3>1
    <3>2. CASE i # n + 1
      <4>1. i \in 1 .. n
        BY <3>2
      <4> QED
        BY <1>1, <2>3, <4>1
    <3> QED
      BY <3>1, <3>2
  <2>7. BytesOf(Range(o)) = BytesOf(Range(out)) \cup BytesOf({s})
    BY <2>3, BytesUnion
  <2>8. Ends(Range(o)) \subseteq Ends(Range(out)) \cup {s[2]}
    BY <2>3 DEF Ends
  <2> QED
    BY <2>2, <2>3, <2>5, <2>6, <2>7, <2>8
<1> QED
  BY <1>6, <1>7

LEMMA JoinType ==
    ASSUME NEW out \in Seq(Spans), NEW s \in Spans
    PROVE  Join(out, s) \in Seq(Spans)
<1>1. PICK n \in Nat : n = Len(out) /\ out \in [1 .. n -> Spans] /\ (out # <<>> <=> n > 0)
  OBVIOUS
<1>2. CASE n > 0 /\ s[1] =< out[n][2]
  <2>1. /\ out[n][1] \in Nat /\ out[n][2] \in Nat /\ out[n][1] =< out[n][2]
        /\ out[n][2] =< DocLen
    BY <1>1, <1>2, SpanFacts
  <2>2. s[2] \in Nat /\ s[2] =< DocLen
    BY SpanFacts
  <2>3. PICK hi \in Nat : /\ hi = (IF s[2] > out[n][2] THEN s[2] ELSE out[n][2])
                          /\ out[n][1] =< hi /\ hi =< DocLen
    BY <2>1, <2>2
  <2>4. Join(out, s) = [out EXCEPT ![n] = <<out[n][1], hi>>]
    BY <1>1, <1>2, <2>3 DEF Join
  <2>5. <<out[n][1], hi>> \in Spans
    BY <2>1, <2>3, SpanMade
  <2>6. Join(out, s) \in [1 .. n -> Spans]
    BY <1>1, <2>4, <2>5
  <2> QED
    BY <2>6
<1>3. CASE ~(n > 0 /\ s[1] =< out[n][2])
  <2>1. Join(out, s) = Append(out, s)
    BY <1>1, <1>3 DEF Join
  <2> QED
    BY <2>1
<1> QED
  BY <1>2, <1>3

LEMMA MergeLoop ==
    ASSUME NEW order \in Seq(Spans)
    PROVE  \E f : /\ f[0] = <<>> /\ MergeSpans(order) = f[Len(order)]
                 /\ \A i \in 1 .. Len(order) : f[i] = Join(f[i - 1], order[i])
<1> DEFINE step(x, i) == Join(x, order[i])
<1>0. PICK nn, bb, SS : nn = Len(order) /\ bb = <<>> /\ SS = Seq(Spans)
  OBVIOUS
<1> DEFINE loop(f) == f = [i \in 0 .. nn |-> IF i = 0 THEN bb ELSE step(f[i - 1], i)]
<1>1. nn \in Nat /\ bb \in SS
  BY <1>0
<1>2. \A x \in SS, i \in 1 .. nn : step(x, i) \in SS
  BY <1>0, JoinType
<1>3. MergeSpans(order) = (CHOOSE f : loop(f))[nn]
  BY <1>0 DEF MergeSpans, LeftFold
<1> HIDE DEF step
<1>4. PICK G : AreTurns(G, nn, SS) /\ \A i \in 1 .. nn, x \in SS : G[i][x] = step(x, i)
  <2> DEFINE H == [i \in 1 .. nn |-> [x \in SS |-> step(x, i)]]
  <2>1. AreTurns(H, nn, SS) /\ \A i \in 1 .. nn, x \in SS : H[i][x] = step(x, i)
    BY <1>2 DEF AreTurns
  <2> HIDE DEF H
  <2> QED
    BY <2>1
<1>5. PICK g : IsLoop(g, nn, SS, bb, G)
  BY <1>1, <1>4, LoopExists
<1>6. loop(g)
  <2>1. \A i \in 1 .. nn : g[i - 1] \in SS /\ g[i] = step(g[i - 1], i)
    BY <1>1, <1>4, <1>5 DEF IsLoop
  <2>2. \A i \in 0 .. nn : g[i] = IF i = 0 THEN bb ELSE step(g[i - 1], i)
    BY <1>1, <1>5, <2>1 DEF IsLoop
  <2> QED
    BY <1>5, <2>2 DEF IsLoop
<1>7. PICK f : loop(f) /\ MergeSpans(order) = f[nn]
  <2> HIDE DEF loop
  <2> QED
    BY <1>3, <1>6
<1>8. f[0] = bb /\ \A i \in 1 .. nn : f[i] = step(f[i - 1], i)
  BY <1>1, <1>7
<1> QED
  BY <1>0, <1>7, <1>8 DEF step

\* What the merge has made of the first i windows.
MergedSoFar(out, order, i) ==
    /\ out \in Seq(Spans) /\ Separated(out)
    /\ i > 0 => \A k \in 1 .. Len(out) : out[k][1] =< order[i][1]
    /\ BytesOf(Range(out)) = BytesOf(UpTo(order, i))
    /\ Ends(Range(out)) \subseteq Ends(UpTo(order, i))

LEMMA MergeSpansFacts ==
    ASSUME NEW order \in Seq(Spans),
           \A i, j \in DOMAIN order : i < j => order[i][1] =< order[j][1]
    PROVE  /\ MergeSpans(order) \in Seq(Spans) /\ Separated(MergeSpans(order))
           /\ BytesOf(Range(MergeSpans(order))) = BytesOf(Range(order))
           /\ Ends(Range(MergeSpans(order))) \subseteq Ends(Range(order))
<1>1. PICK f : /\ f[0] = <<>> /\ MergeSpans(order) = f[Len(order)]
               /\ \A i \in 1 .. Len(order) : f[i] = Join(f[i - 1], order[i])
  BY MergeLoop
<1>2. PICK n \in Nat : n = Len(order) /\ \A i \in 1 .. n : order[i] \in Spans
  OBVIOUS
<1>3. DOMAIN order = 1 .. n
  BY <1>2
<1> DEFINE T == {i \in 0 .. n : MergedSoFar(f[i], order, i)}
<1>4. 0 \in T
  <2>1. <<>> \in Seq(Spans) /\ Len(<<>>) = 0 /\ Range(<<>>) = {} /\ UpTo(order, 0) = {}
    BY DEF Range, UpTo
  <2>2. PICK out : out = f[0]
    OBVIOUS
  <2>3. out \in Seq(Spans) /\ Len(out) = 0 /\ Range(out) = UpTo(order, 0)
    BY <1>1, <2>1, <2>2
  <2>4. Separated(out)
    BY <2>3 DEF Separated
  <2>5. MergedSoFar(out, order, 0)
    BY <2>3, <2>4 DEF MergedSoFar
  <2> QED
    BY <2>2, <2>5
<1>5. ASSUME NEW i \in 1 .. n, i - 1 \in T PROVE i \in T
  <2>1. PICK out : out = f[i - 1]
    OBVIOUS
  <2>2. f[i] = Join(out, order[i])
    BY <1>1, <1>2, <2>1
  <2>3. MergedSoFar(out, order, i - 1)
    BY <1>5, <2>1
  <2>4. out \in Seq(Spans) /\ Separated(out)
    BY <2>3 DEF MergedSoFar
  <2>5. ASSUME NEW k \in 1 .. Len(out) PROVE out[k][1] =< order[i][1]
    <3>1. i - 1 > 0
      <4>1. CASE i = 1
        <5>1. out = <<>>
          BY <1>1, <2>1, <4>1
        <5> QED
          BY <2>5, <5>1
      <4> QED
        BY <4>1
    <3>2. out[k][1] =< order[i - 1][1] /\ order[i - 1][1] =< order[i][1]
      <4>1. out[k][1] =< order[i - 1][1]
        BY <2>3, <2>5, <3>1 DEF MergedSoFar
      <4> QED
        BY <1>3, <3>1, <4>1
    <3>3. out[k][1] \in Nat /\ order[i - 1][1] \in Nat /\ order[i][1] \in Nat
      <4>1. out[k] \in Spans /\ order[i - 1] \in Spans /\ order[i] \in Spans
        BY <1>2, <2>4, <3>1
      <4> QED
        BY <4>1, SpanFacts
    <3> QED
      BY <3>2, <3>3
  <2>6. order[i] \in Spans
    BY <1>2
  <2>7. /\ f[i] \in Seq(Spans) /\ Separated(f[i])
        /\ \A k \in 1 .. Len(f[i]) : f[i][k][1] =< order[i][1]
        /\ BytesOf(Range(f[i])) = BytesOf(Range(out)) \cup BytesOf({order[i]})
        /\ Ends(Range(f[i])) \subseteq Ends(Range(out)) \cup {order[i][2]}
    BY <2>2, <2>4, <2>5, <2>6, JoinFacts
  <2>8. UpTo(order, i) = UpTo(order, i - 1) \cup {order[i]}
    BY DEF UpTo
  <2>9. BytesOf(Range(f[i])) = BytesOf(UpTo(order, i))
    <3>1. BytesOf(UpTo(order, i - 1) \cup {order[i]})
            = BytesOf(UpTo(order, i - 1)) \cup BytesOf({order[i]})
      BY BytesUnion
    <3> QED
      BY <2>3, <2>7, <2>8, <3>1 DEF MergedSoFar
  <2>10. Ends(Range(f[i])) \subseteq Ends(UpTo(order, i))
    <3>1. Ends(Range(out)) \subseteq Ends(UpTo(order, i - 1))
      BY <2>3 DEF MergedSoFar
    <3>2. Ends(UpTo(order, i)) = Ends(UpTo(order, i - 1)) \cup {order[i][2]}
      BY <2>8 DEF Ends
    <3> QED
      BY <2>7, <3>1, <3>2
  <2> QED
    BY <2>7, <2>9, <2>10 DEF MergedSoFar
<1>6. \A i \in 0 .. n : i \in T
  <2> HIDE DEF T
  <2> QED
    BY <1>4, <1>5, UpToAll
<1>7. MergedSoFar(f[n], order, n)
  <2>1. n \in T
    <3> HIDE DEF T
    <3> QED
      BY <1>6
  <2> QED
    BY <2>1
<1>8. UpTo(order, n) = Range(order)
  BY <1>3 DEF UpTo, Range
<1> QED
  BY <1>1, <1>2, <1>7, <1>8 DEF MergedSoFar

\* The part of a span that still fits ends at a rune within the room that is left.
LEMMA CutAtFacts ==
    ASSUME NEW s \in Spans, NEW room \in Int, NEW runes \in SUBSET (0 .. DocLen)
    PROVE  /\ \A c, d \in CutAt(s, room, runes) : c = d
           /\ \A c \in CutAt(s, room, runes) : /\ c \in Spans /\ c[1] = s[1] /\ c[2] \in runes
                                                /\ c[1] < c[2] /\ c[2] =< s[1] + room
<1>1. s[1] \in Nat /\ DocLen \in Nat
  BY SpanFacts, ReasonAssumption
<1>2. PICK ends : ends = {s[1] + n : n \in 1 .. room} \cap runes
  OBVIOUS
<1>3. CASE ends = {}
  BY <1>2, <1>3 DEF CutAt
<1>4. CASE ends # {}
  <2>1. ends \in SUBSET (0 .. DocLen)
    BY <1>2
  <2>2. PICK e : e = Max(ends)
    OBVIOUS
  <2>3. e \in ends
    BY <1>1, <1>4, <2>1, <2>2, GreatestBelow
  <2>4. CutAt(s, room, runes) = {<<s[1], e>>}
    BY <1>2, <1>4, <2>2 DEF CutAt
  <2>5. e \in runes /\ e \in 0 .. DocLen /\ s[1] < e /\ e =< s[1] + room
    BY <1>1, <1>2, <2>1, <2>3
  <2>6. <<s[1], e>> \in Spans
    BY <1>1, <2>5, SpanMade
  <2>7. PICK c : c = <<s[1], e>>
    OBVIOUS
  <2>8. c[1] = s[1] /\ c[2] = e /\ c \in Spans /\ CutAt(s, room, runes) = {c}
    BY <2>4, <2>6, <2>7
  <2> QED
    BY <2>5, <2>8
<1> QED
  BY <1>3, <1>4

AdmitStates == [total : Int, truncated : BOOLEAN, spans : SUBSET Spans]

LEMMA AdmitType ==
    ASSUME NEW acc \in AdmitStates, NEW s \in Spans, NEW cap \in Nat,
           NEW runes \in SUBSET (0 .. DocLen)
    PROVE  Admit(acc, s, cap, runes) \in AdmitStates
<1>1. acc.total \in Int /\ acc.truncated \in BOOLEAN /\ acc.spans \in SUBSET Spans
  BY DEF AdmitStates
<1>2. s[1] \in Nat /\ s[2] \in Nat
  BY SpanFacts
<1>3. PICK C : C = CutAt(s, cap - acc.total, runes)
  OBVIOUS
<1>4. C \in SUBSET Spans
  <2>1. cap - acc.total \in Int
    BY <1>1
  <2>2. \A c \in CutAt(s, cap - acc.total, runes) : c \in Spans
    BY <2>1, CutAtFacts
  <2> QED
    BY <1>3, <2>2
<1>5. CASE acc.truncated
  BY <1>5 DEF Admit
<1>6. CASE ~acc.truncated /\ acc.total + (s[2] - s[1]) > cap
  <2>1. Admit(acc, s, cap, runes) = [acc EXCEPT !.truncated = TRUE, !.spans = @ \cup C]
    BY <1>3, <1>6 DEF Admit
  <2> QED
    BY <1>1, <1>4, <2>1 DEF AdmitStates
<1>7. CASE ~acc.truncated /\ ~(acc.total + (s[2] - s[1]) > cap)
  <2>1. PICK sum, U : sum = acc.total + (s[2] - s[1]) /\ U = acc.spans \cup {s}
    OBVIOUS
  <2>2. sum \in Int /\ U \in SUBSET Spans
    BY <1>1, <1>2, <2>1
  <2>3. Admit(acc, s, cap, runes) = [acc EXCEPT !.total = sum, !.spans = U]
    BY <1>7, <2>1 DEF Admit
  <2> QED
    BY <1>1, <2>2, <2>3 DEF AdmitStates
<1> QED
  BY <1>5, <1>6, <1>7

LEMMA AdmitLoop ==
    ASSUME NEW m \in Seq(Spans), NEW cap \in Nat, NEW runes \in SUBSET (0 .. DocLen)
    PROVE  \E f : /\ f[0] = NothingAdmitted /\ WithinBudget(m, cap, runes) = f[Len(m)]
                 /\ \A i \in 1 .. Len(m) : f[i] = Admit(f[i - 1], m[i], cap, runes)
<1> DEFINE step(x, i) == Admit(x, m[i], cap, runes)
<1>0. PICK nn, bb, SS : nn = Len(m) /\ bb = NothingAdmitted /\ SS = AdmitStates
  OBVIOUS
<1> DEFINE loop(f) == f = [i \in 0 .. nn |-> IF i = 0 THEN bb ELSE step(f[i - 1], i)]
<1>1. nn \in Nat /\ bb \in SS
  BY <1>0 DEF NothingAdmitted, AdmitStates
<1>2. \A x \in SS, i \in 1 .. nn : step(x, i) \in SS
  BY <1>0, AdmitType
<1>3. WithinBudget(m, cap, runes) = (CHOOSE f : loop(f))[nn]
  BY <1>0 DEF WithinBudget, LeftFold
<1> HIDE DEF step
<1>4. PICK G : AreTurns(G, nn, SS) /\ \A i \in 1 .. nn, x \in SS : G[i][x] = step(x, i)
  <2> DEFINE H == [i \in 1 .. nn |-> [x \in SS |-> step(x, i)]]
  <2>1. AreTurns(H, nn, SS) /\ \A i \in 1 .. nn, x \in SS : H[i][x] = step(x, i)
    BY <1>2 DEF AreTurns
  <2> HIDE DEF H
  <2> QED
    BY <2>1
<1>5. PICK g : IsLoop(g, nn, SS, bb, G)
  BY <1>1, <1>4, LoopExists
<1>6. loop(g)
  <2>1. \A i \in 1 .. nn : g[i - 1] \in SS /\ g[i] = step(g[i - 1], i)
    BY <1>1, <1>4, <1>5 DEF IsLoop
  <2>2. \A i \in 0 .. nn : g[i] = IF i = 0 THEN bb ELSE step(g[i - 1], i)
    BY <1>1, <1>5, <2>1 DEF IsLoop
  <2> QED
    BY <1>5, <2>2 DEF IsLoop
<1>7. PICK f : loop(f) /\ WithinBudget(m, cap, runes) = f[nn]
  <2> HIDE DEF loop
  <2> QED
    BY <1>3, <1>6
<1>8. f[0] = bb /\ \A i \in 1 .. nn : f[i] = step(f[i - 1], i)
  BY <1>1, <1>7
<1> QED
  BY <1>0, <1>7, <1>8 DEF step

\* Bytes that follow all others add their number.
LEMMA BytesAdd ==
    ASSUME NEW B, IsFiniteSet(B), NEW p \in Nat, NEW q \in Nat, p =< q,
           \A x \in B : x \in Nat /\ x < p
    PROVE  /\ IsFiniteSet(B \cup (p .. q - 1)) /\ Cardinality(B) \in Nat
           /\ Cardinality(B \cup (p .. q - 1)) = Cardinality(B) + (q - p)
<1>1. IsFiniteSet(p .. q - 1) /\ Cardinality(p .. q - 1) = q - p
  <2>1. PICK h \in Int : h = q - 1
    OBVIOUS
  <2>2. IsFiniteSet(p .. h) /\ Cardinality(p .. h) = IF p > h THEN 0 ELSE h - p + 1
    <3>1. p \in Int
      OBVIOUS
    <3> QED
      BY <3>1, FS_Interval
  <2>3. (IF p > h THEN 0 ELSE h - p + 1) = q - p
    BY <2>1
  <2> QED
    BY <2>1, <2>2, <2>3
<1>2. B \cap (p .. q - 1) = {}
  OBVIOUS
<1>3. Cardinality(B \cap (p .. q - 1)) = 0
  BY <1>2, FS_EmptySet
<1>4. Cardinality(B) \in Nat
  BY FS_CardinalityType
<1>5. PICK J : J = p .. q - 1
  OBVIOUS
<1>6. /\ IsFiniteSet(B \cup J)
      /\ Cardinality(B \cup J) = Cardinality(B) + Cardinality(J) - Cardinality(B \cap J)
  BY <1>1, <1>5, FS_Union
<1>7. Cardinality(B \cup J) = Cardinality(B) + (q - p)
  BY <1>1, <1>3, <1>4, <1>5, <1>6
<1> QED
  BY <1>4, <1>5, <1>6, <1>7

\* The first spans of separated ones end before the next.
LEMMA BytesBefore ==
    ASSUME NEW m \in Seq(Spans), Separated(m), NEW k \in 1 .. Len(m)
    PROVE  /\ \A x \in BytesOf(UpTo(m, k - 1)) : x \in Nat /\ x < m[k][1]
           /\ IsFiniteSet(BytesOf(UpTo(m, k - 1)))
           /\ UpTo(m, k) = UpTo(m, k - 1) \cup {m[k]} /\ UpTo(m, k) \subseteq Range(m)
           /\ \A t \in UpTo(m, k - 1) : t \in Spans /\ t[2] < m[k][1]
<1>1. PICK n \in Nat : n = Len(m) /\ \A i \in 1 .. n : m[i] \in Spans
  OBVIOUS
<1>2. k \in 1 .. n /\ m[k] \in Spans /\ m[k][1] \in Nat
  BY <1>1, SpanFacts
<1>3. ASSUME NEW t \in UpTo(m, k - 1) PROVE t \in Spans /\ t[2] < m[k][1]
  <2>1. PICK j \in 1 .. k - 1 : t = m[j]
    BY DEF UpTo
  <2>2. j \in 1 .. n /\ j < k
    BY <1>2
  <2> QED
    BY <1>1, <1>2, <2>1, <2>2 DEF Separated
<1>4. ASSUME NEW x \in BytesOf(UpTo(m, k - 1)) PROVE x \in Nat /\ x < m[k][1]
  <2>1. PICK t \in UpTo(m, k - 1) : x \in t[1] .. t[2] - 1
    BY BytesIff
  <2>2. t[1] \in Nat /\ t[2] \in Nat /\ t[2] < m[k][1]
    BY <1>3, SpanFacts
  <2> QED
    BY <1>2, <2>1, <2>2
<1>5. IsFiniteSet(BytesOf(UpTo(m, k - 1)))
  <2>1. BytesOf(UpTo(m, k - 1)) \in SUBSET (0 .. m[k][1])
    BY <1>2, <1>4
  <2>2. IsFiniteSet(0 .. m[k][1])
    <3>1. 0 \in Int /\ m[k][1] \in Int
      BY <1>2
    <3> QED
      BY <3>1, FS_Interval
  <2> QED
    BY <2>1, <2>2, FS_Subset
<1>6. UpTo(m, k) = UpTo(m, k - 1) \cup {m[k]}
  BY <1>2 DEF UpTo
<1>7. UpTo(m, k) \subseteq Range(m)
  <2>1. DOMAIN m = 1 .. n
    BY <1>1
  <2>2. \A i \in 1 .. k : i \in 1 .. n
    BY <1>2
  <2> QED
    BY <2>1, <2>2 DEF UpTo, Range
<1> QED
  BY <1>3, <1>4, <1>5, <1>6, <1>7

\* What the model is given, up to the question whether it is everything.
Fits(spans, m, cap, runes) ==
    /\ \A s, t \in spans : s = t \/ s[2] < t[1] \/ t[2] < s[1]
    /\ Cardinality(BytesOf(spans)) =< cap
    /\ BytesOf(spans) \subseteq BytesOf(Range(m))
    /\ \A s \in spans : s[2] \in runes \cup Ends(Range(m))

\* The first spans of separated ones are separated.
LEMMA PrefixApart ==
    ASSUME NEW m \in Seq(Spans), Separated(m), NEW k \in 0 .. Len(m)
    PROVE  /\ \A s, t \in UpTo(m, k) : s = t \/ s[2] < t[1] \/ t[2] < s[1]
           /\ UpTo(m, k) \subseteq Range(m)
<1>1. PICK n \in Nat : n = Len(m) /\ k \in 0 .. n /\ \A i \in 1 .. k : i \in 1 .. n
  OBVIOUS
<1>2. DOMAIN m = 1 .. n
  BY <1>1
<1>3. ASSUME NEW s \in UpTo(m, k), NEW t \in UpTo(m, k)
      PROVE  s = t \/ s[2] < t[1] \/ t[2] < s[1]
  <2>1. PICK i, j \in 1 .. k : s = m[i] /\ t = m[j]
    BY DEF UpTo
  <2>2. i \in 1 .. n /\ j \in 1 .. n /\ (i = j \/ i < j \/ j < i)
    BY <1>1
  <2> QED
    BY <1>1, <2>1, <2>2 DEF Separated
<1>4. UpTo(m, k) \subseteq Range(m)
  BY <1>1, <1>2 DEF UpTo, Range
<1> QED
  BY <1>3, <1>4

LEMMA BytesMonotone ==
    ASSUME NEW S, NEW U, S \subseteq U
    PROVE  BytesOf(S) \subseteq BytesOf(U)
BY DEF BytesOf

\* A span that fits is given whole.
LEMMA AdmitWhole ==
    ASSUME NEW m \in Seq(Spans), Separated(m), NEW k \in 1 .. Len(m)
    PROVE  /\ Cardinality(BytesOf(UpTo(m, k))) \in Nat
           /\ Cardinality(BytesOf(UpTo(m, k)))
                = Cardinality(BytesOf(UpTo(m, k - 1))) + (m[k][2] - m[k][1])
<1>1. /\ \A x \in BytesOf(UpTo(m, k - 1)) : x \in Nat /\ x < m[k][1]
      /\ IsFiniteSet(BytesOf(UpTo(m, k - 1)))
      /\ UpTo(m, k) = UpTo(m, k - 1) \cup {m[k]}
  BY BytesBefore
<1>2. m[k] \in Spans
  OBVIOUS
<1>3. m[k][1] \in Nat /\ m[k][2] \in Nat /\ m[k][1] =< m[k][2]
  BY <1>2, SpanFacts
<1>4. BytesOf(UpTo(m, k)) = BytesOf(UpTo(m, k - 1)) \cup (m[k][1] .. m[k][2] - 1)
  <2>1. BytesOf(UpTo(m, k - 1) \cup {m[k]}) = BytesOf(UpTo(m, k - 1)) \cup BytesOf({m[k]})
    BY BytesUnion
  <2>2. BytesOf({m[k]}) = m[k][1] .. m[k][2] - 1
    BY BytesOne
  <2> QED
    BY <1>1, <2>1, <2>2
<1>5. PICK B : B = BytesOf(UpTo(m, k - 1))
  OBVIOUS
<1>6. /\ Cardinality(B) \in Nat /\ IsFiniteSet(B \cup (m[k][1] .. m[k][2] - 1))
      /\ Cardinality(B \cup (m[k][1] .. m[k][2] - 1)) = Cardinality(B) + (m[k][2] - m[k][1])
  BY <1>1, <1>3, <1>5, BytesAdd
<1>7. Cardinality(BytesOf(UpTo(m, k))) \in Nat
  BY <1>4, <1>5, <1>6, FS_CardinalityType
<1> QED
  BY <1>4, <1>5, <1>6, <1>7

LEMMA RoomLeft ==
    ASSUME NEW from \in Nat, NEW to \in Nat, NEW cap \in Nat, NEW total \in Nat,
           total =< cap, total + (to - from) > cap
    PROVE  cap - total \in Nat /\ from + (cap - total) < to
OBVIOUS

LEMMA RoomUsed ==
    ASSUME NEW from \in Nat, NEW to \in Nat, NEW cap \in Nat, NEW total \in Nat, NEW e \in Nat,
           total =< cap, from + (cap - total) < to, from < e, e =< from + (cap - total)
    PROVE  total + (e - from) =< cap /\ e < to
OBVIOUS

\* Of one that does not a part, after the whole ones before it.
LEMMA AdmitPart ==
    ASSUME NEW m \in Seq(Spans), Separated(m), NEW k \in 1 .. Len(m),
           NEW cap \in Nat, NEW runes \in SUBSET (0 .. DocLen),
           NEW total \in Nat, total = Cardinality(BytesOf(UpTo(m, k - 1))), total =< cap,
           total + (m[k][2] - m[k][1]) > cap
    PROVE  LET spans == UpTo(m, k - 1) \cup CutAt(m[k], cap - total, runes)
           IN  Fits(spans, m, cap, runes) /\ BytesOf(spans) # BytesOf(Range(m))
<1> DEFINE P == UpTo(m, k - 1)
<1>1. /\ \A x \in BytesOf(P) : x \in Nat /\ x < m[k][1]
      /\ IsFiniteSet(BytesOf(P))
      /\ UpTo(m, k) = P \cup {m[k]} /\ UpTo(m, k) \subseteq Range(m)
      /\ \A t \in P : t \in Spans /\ t[2] < m[k][1]
  BY BytesBefore
<1>2. m[k] \in Spans
  OBVIOUS
<1>3. PICK from, to \in Nat : from = m[k][1] /\ to = m[k][2] /\ from =< to
  BY <1>2, SpanFacts
<1>4. PICK room \in Nat : room = cap - total /\ from + room < to
  <2>1. total + (to - from) > cap
    BY <1>3
  <2> QED
    BY <2>1, RoomLeft
<1>5. PICK C : C = CutAt(m[k], room, runes)
  OBVIOUS
<1>6. /\ \A c, d \in C : c = d
      /\ \A c \in C : /\ c \in Spans /\ c[1] = from /\ c[2] \in runes
                       /\ c[1] < c[2] /\ c[2] =< from + room
  <2>1. room \in Int
    BY <1>4
  <2>2. /\ \A c, d \in CutAt(m[k], room, runes) : c = d
        /\ \A c \in CutAt(m[k], room, runes) :
             /\ c \in Spans /\ c[1] = m[k][1] /\ c[2] \in runes
             /\ c[1] < c[2] /\ c[2] =< m[k][1] + room
    BY <1>2, <2>1, CutAtFacts
  <2> QED
    BY <1>3, <1>5, <2>2
<1>7. \A s, t \in P : s = t \/ s[2] < t[1] \/ t[2] < s[1]
  <2>1. k - 1 \in 0 .. Len(m)
    OBVIOUS
  <2> QED
    BY <2>1, PrefixApart
<1> HIDE DEF P
<1>8. \A s, t \in P \cup C : s = t \/ s[2] < t[1] \/ t[2] < s[1]
  <2>1. \A s, t \in C : s = t
    BY <1>6
  <2>2. \A s \in P, t \in C : s[2] < t[1]
    BY <1>1, <1>3, <1>6
  <2> QED
    BY <1>7, <2>1, <2>2
<1>9. BytesOf(P \cup C) = BytesOf(P) \cup BytesOf(C)
  BY BytesUnion
<1>10. /\ Cardinality(BytesOf(P \cup C)) =< cap
       /\ BytesOf(C) \subseteq BytesOf({m[k]})
       /\ \A x \in BytesOf(C) : x < to - 1
  <2>0. BytesOf({m[k]}) = from .. to - 1
    BY <1>3, BytesOne
  <2>1. CASE C = {}
    <3>1. BytesOf(C) = {}
      BY <2>1 DEF BytesOf
    <3>2. BytesOf(P \cup C) = BytesOf(P)
      BY <1>9, <3>1
    <3> QED
      BY <3>1, <3>2 DEF P
  <2>2. CASE C # {}
    <3>1. PICK c \in C : C = {c}
      BY <1>6, <2>2
    <3>2. PICK e \in Nat : e = c[2] /\ from < e /\ e =< from + room /\ c[1] = from
      BY <1>3, <1>6, <3>1, SpanFacts
    <3>3. BytesOf(C) = from .. e - 1
      BY <3>1, <3>2, BytesOne
    <3>4. Cardinality(BytesOf(P) \cup (from .. e - 1)) = Cardinality(BytesOf(P)) + (e - from)
      <4>1. from =< e /\ \A x \in BytesOf(P) : x \in Nat /\ x < from
        BY <1>1, <1>3, <3>2
      <4> QED
        BY <1>1, <4>1, BytesAdd
    <3>5. Cardinality(BytesOf(P)) = total
      BY DEF P
    <3>6. /\ total + (e - from) =< cap
          /\ \A x \in from .. e - 1 : x \in from .. to - 1 /\ x < to - 1
      <4>1. from + (cap - total) < to /\ e =< from + (cap - total)
        BY <1>4, <3>2
      <4> QED
        <5>1. total + (e - from) =< cap /\ e < to
          BY <3>2, <4>1, RoomUsed, SMTT(30)
        <5>2. \A x \in from .. e - 1 : x \in from .. to - 1 /\ x < to - 1
          BY <5>1
        <5> QED
          BY <5>1, <5>2
    <3> QED
      BY <1>9, <2>0, <3>3, <3>4, <3>5, <3>6
  <2> QED
    BY <2>1, <2>2
<1>11. BytesOf(P) \cup BytesOf({m[k]}) \subseteq BytesOf(Range(m))
  <2>1. P \subseteq Range(m) /\ {m[k]} \subseteq Range(m)
    BY <1>1
  <2> QED
    BY <2>1, BytesMonotone
<1>12. to - 1 \in BytesOf(Range(m)) /\ to - 1 \notin BytesOf(P \cup C)
  <2>1. to - 1 \in from .. to - 1 /\ from =< to - 1
    <3>1. from < to
      BY <1>4
    <3> QED
      BY <3>1
  <2>2. BytesOf({m[k]}) = from .. to - 1
    BY <1>3, BytesOne
  <2>3. to - 1 \in BytesOf(Range(m))
    BY <1>11, <2>1, <2>2
  <2>4. to - 1 \notin BytesOf(P)
    BY <1>1, <1>3, <2>1
  <2>5. to - 1 \notin BytesOf(C)
    BY <1>3, <1>10
  <2> QED
    BY <1>9, <2>3, <2>4, <2>5
<1>13. \A s \in P \cup C : s[2] \in runes \cup Ends(Range(m))
  <2>1. P \subseteq Range(m)
    BY <1>1
  <2> QED
    BY <1>6, <2>1 DEF Ends
<1>14. Fits(P \cup C, m, cap, runes)
  BY <1>8, <1>9, <1>10, <1>11, <1>13 DEF Fits
<1> QED
  BY <1>4, <1>5, <1>12, <1>14 DEF P

\* The state of the budget after the first k spans.
AdmittedSoFar(acc, m, k, cap, runes) ==
    /\ acc \in AdmitStates
    /\ acc.truncated => /\ Fits(acc.spans, m, cap, runes)
                        /\ BytesOf(acc.spans) # BytesOf(Range(m))
    /\ ~acc.truncated => /\ acc.spans = UpTo(m, k) /\ acc.total \in Nat /\ acc.total =< cap
                         /\ acc.total = Cardinality(BytesOf(UpTo(m, k)))

LEMMA AdmitFacts ==
    ASSUME NEW m \in Seq(Spans), Separated(m), NEW k \in 1 .. Len(m),
           NEW cap \in Nat, NEW runes \in SUBSET (0 .. DocLen),
           NEW acc, AdmittedSoFar(acc, m, k - 1, cap, runes)
    PROVE  AdmittedSoFar(Admit(acc, m[k], cap, runes), m, k, cap, runes)
<1>1. m[k] \in Spans
  OBVIOUS
<1>2. PICK from, to \in Nat : from = m[k][1] /\ to = m[k][2] /\ from =< to
  BY <1>1, SpanFacts
<1>3. acc \in AdmitStates /\ acc.truncated \in BOOLEAN
  BY DEF AdmittedSoFar, AdmitStates
<1>4. PICK next : next = Admit(acc, m[k], cap, runes)
  OBVIOUS
<1>5. next \in AdmitStates
  BY <1>1, <1>3, <1>4, AdmitType
<1>6. CASE acc.truncated
  <2>1. next = acc
    BY <1>4, <1>6 DEF Admit
  <2> QED
    BY <1>4, <1>6, <2>1 DEF AdmittedSoFar
<1>7. CASE ~acc.truncated
  <2>1. PICK total \in Nat : /\ total = acc.total /\ total =< cap /\ acc.spans = UpTo(m, k - 1)
                             /\ total = Cardinality(BytesOf(UpTo(m, k - 1)))
    BY <1>7 DEF AdmittedSoFar
  <2>2. CASE total + (m[k][2] - m[k][1]) > cap
    <3>1. PICK C : C = CutAt(m[k], cap - total, runes)
      OBVIOUS
    <3>2. next = [acc EXCEPT !.truncated = TRUE, !.spans = @ \cup C]
      BY <1>4, <1>7, <2>1, <2>2, <3>1 DEF Admit
    <3>3. next.truncated = TRUE /\ next.spans = UpTo(m, k - 1) \cup C
      BY <1>3, <2>1, <3>2 DEF AdmitStates
    <3>4. /\ Fits(UpTo(m, k - 1) \cup C, m, cap, runes)
          /\ BytesOf(UpTo(m, k - 1) \cup C) # BytesOf(Range(m))
      BY <2>1, <2>2, <3>1, AdmitPart
    <3> QED
      BY <1>4, <1>5, <3>3, <3>4 DEF AdmittedSoFar
  <2>3. CASE ~(total + (m[k][2] - m[k][1]) > cap)
    <3>1. PICK sum, U : sum = total + (m[k][2] - m[k][1]) /\ U = UpTo(m, k - 1) \cup {m[k]}
      OBVIOUS
    <3>2. next = [acc EXCEPT !.total = sum, !.spans = U]
      BY <1>4, <1>7, <2>1, <2>3, <3>1 DEF Admit
    <3>3. next.truncated = FALSE /\ next.spans = U /\ next.total = sum
      BY <1>3, <1>7, <3>2 DEF AdmitStates
    <3>4. UpTo(m, k) = U
      BY <3>1, BytesBefore
    <3>5. sum = Cardinality(BytesOf(UpTo(m, k))) /\ sum \in Nat
      BY <2>1, <3>1, AdmitWhole
    <3>6. sum =< cap
      <4>1. ~(sum > cap)
        BY <2>3, <3>1
      <4> QED
        BY <3>5, <4>1
    <3> QED
      BY <1>4, <1>5, <3>3, <3>4, <3>5, <3>6 DEF AdmittedSoFar
  <2> QED
    BY <2>2, <2>3
<1> QED
  BY <1>3, <1>6, <1>7

LEMMA WithinBudgetFacts ==
    ASSUME NEW m \in Seq(Spans), Separated(m), NEW cap \in Nat,
           NEW runes \in SUBSET (0 .. DocLen)
    PROVE  LET out == WithinBudget(m, cap, runes)
           IN  /\ Fits(out.spans, m, cap, runes)
               /\ out.truncated <=> BytesOf(out.spans) # BytesOf(Range(m))
<1>1. PICK f : /\ f[0] = NothingAdmitted /\ WithinBudget(m, cap, runes) = f[Len(m)]
               /\ \A i \in 1 .. Len(m) : f[i] = Admit(f[i - 1], m[i], cap, runes)
  BY AdmitLoop
<1>2. PICK n \in Nat : n = Len(m)
  OBVIOUS
<1>3. UpTo(m, n) = Range(m)
  <2>1. DOMAIN m = 1 .. n
    BY <1>2
  <2> QED
    BY <2>1 DEF UpTo, Range
<1> DEFINE T == {i \in 0 .. n : AdmittedSoFar(f[i], m, i, cap, runes)}
<1>4. 0 \in T
  <2>1. UpTo(m, 0) = {} /\ BytesOf({}) = {} /\ Cardinality({}) = 0
    BY FS_EmptySet DEF UpTo, BytesOf
  <2>2. PICK acc : acc = f[0]
    OBVIOUS
  <2>3. acc.total = 0 /\ acc.truncated = FALSE /\ acc.spans = {} /\ acc \in AdmitStates
    BY <1>1, <2>2 DEF NothingAdmitted, AdmitStates
  <2>4. Cardinality(BytesOf(UpTo(m, 0))) = 0
    BY <2>1
  <2>5. AdmittedSoFar(acc, m, 0, cap, runes)
    BY <2>1, <2>3, <2>4 DEF AdmittedSoFar
  <2> QED
    BY <2>2, <2>5
<1>5. \A i \in 1 .. n : i - 1 \in T => i \in T
  <2> SUFFICES ASSUME NEW i \in 1 .. n, i - 1 \in T PROVE i \in T
    OBVIOUS
  <2>1. f[i] = Admit(f[i - 1], m[i], cap, runes) /\ i \in 1 .. Len(m)
    BY <1>1, <1>2
  <2> QED
    BY <2>1, AdmitFacts
<1>6. AdmittedSoFar(f[n], m, n, cap, runes)
  <2>1. n \in T
    <3> HIDE DEF T
    <3>1. \A i \in 0 .. n : i \in T
      BY <1>4, <1>5, UpToAll
    <3> QED
      BY <3>1
  <2> QED
    BY <2>1
<1>7. PICK out : out = f[n]
  OBVIOUS
<1>8. out = WithinBudget(m, cap, runes) /\ AdmittedSoFar(out, m, n, cap, runes)
  BY <1>1, <1>2, <1>6, <1>7
<1>9. out.truncated \in BOOLEAN
  BY <1>8 DEF AdmittedSoFar, AdmitStates
<1>10. CASE out.truncated
  BY <1>8, <1>10 DEF AdmittedSoFar
<1>11. CASE ~out.truncated
  <2>1. out.spans = Range(m) /\ Cardinality(BytesOf(Range(m))) =< cap
    BY <1>3, <1>8, <1>11 DEF AdmittedSoFar
  <2>2. \A s, t \in Range(m) : s = t \/ s[2] < t[1] \/ t[2] < s[1]
    <3>1. n \in 0 .. Len(m)
      BY <1>2
    <3> QED
      BY <1>3, <3>1, PrefixApart
  <2>3. Fits(Range(m), m, cap, runes)
    BY <2>1, <2>2 DEF Fits, Ends
  <2> QED
    BY <1>8, <1>11, <2>1, <2>3
<1> QED
  BY <1>9, <1>10, <1>11

LEMMA QueryEstablishes ==
    ASSUME QueryDocument
    PROVE  QuerySound'
<1>1. PICK n \in 1 .. MaxMatches, half \in 0 .. MaxHalf, cap \in 1 .. DocLen,
           runes \in {{0} \cup r : r \in SUBSET (1 .. DocLen - 1)} :
        \E matches \in kSubset(n, Spans) :
          \E order \in ByStart({Widened(x, half) : x \in matches}) :
            made' = [done |-> TRUE, windows |-> {Widened(x, half) : x \in matches}, cap |-> cap,
                     runes |-> runes, out |-> WithinBudget(MergeSpans(order), cap, runes)]
  BY DEF QueryDocument
<1>2. PICK matches \in kSubset(n, Spans) :
        \E order \in ByStart({Widened(x, half) : x \in matches}) :
          made' = [done |-> TRUE, windows |-> {Widened(x, half) : x \in matches}, cap |-> cap,
                   runes |-> runes, out |-> WithinBudget(MergeSpans(order), cap, runes)]
  BY <1>1
<1>3. PICK windows : windows = {Widened(x, half) : x \in matches}
  OBVIOUS
<1>4. PICK order \in ByStart(windows) :
        made' = [done |-> TRUE, windows |-> windows, cap |-> cap, runes |-> runes,
                 out |-> WithinBudget(MergeSpans(order), cap, runes)]
  BY <1>2, <1>3
<1>5. windows \in SUBSET Spans /\ IsFiniteSet(windows)
  <2>1. half \in Nat /\ matches \subseteq Spans
    BY DEF kSubset
  <2>2. windows \in SUBSET Spans
    BY <1>3, <2>1, WidenedSpan
  <2> QED
    BY <2>2, SpansFinite, FS_Subset
<1>6. /\ order \in SetToSeqs(windows)
      /\ \A i, j \in DOMAIN order : i < j => order[i][1] =< order[j][1]
  BY DEF ByStart
<1>7. order \in Seq(Spans) /\ Range(order) = windows
  <2>1. order \in Seq(windows) /\ Range(order) = windows
    BY <1>5, <1>6, EnumerationFacts
  <2> QED
    BY <1>5, <2>1, SeqMonotonic
<1>8. PICK m : m = MergeSpans(order)
  OBVIOUS
<1>9. /\ m \in Seq(Spans) /\ Separated(m) /\ BytesOf(Range(m)) = BytesOf(windows)
      /\ Ends(Range(m)) \subseteq Ends(windows)
  BY <1>6, <1>7, <1>8, MergeSpansFacts
<1>10. cap \in Nat /\ runes \in SUBSET (0 .. DocLen)
  <2>1. PICK r \in SUBSET (1 .. DocLen - 1) : runes = {0} \cup r
    OBVIOUS
  <2>2. DocLen \in Nat
    BY ReasonAssumption
  <2>3. \A x \in r : x \in 0 .. DocLen
    BY <2>2
  <2>4. 0 \in 0 .. DocLen
    BY <2>2
  <2> QED
    BY <2>1, <2>3, <2>4
<1>11. PICK out : out = WithinBudget(m, cap, runes)
  OBVIOUS
<1>12. /\ Fits(out.spans, m, cap, runes)
       /\ out.truncated <=> BytesOf(out.spans) # BytesOf(Range(m))
  BY <1>9, <1>10, <1>11, WithinBudgetFacts
<1>13. made'.windows = windows /\ made'.cap = cap /\ made'.runes = runes /\ made'.out = out
  BY <1>4, <1>8, <1>11
<1> QED
  BY <1>9, <1>12, <1>13 DEF QuerySound, Fits, Ends

-----------------------------------------------------------------------------

\* The tools that only make a prompt.
LEMMA PromptsNext == PromptsSound /\ [ReasonNext]_reasonVars => PromptsSound'
<1> SUFFICES ASSUME PromptsSound, [ReasonNext]_reasonVars PROVE PromptsSound'
  OBVIOUS
<1>1. CASE rcall' = rcall /\ made' = made
  BY <1>1 DEF PromptsSound, ReasonSound, AskSound, QuerySound
<1>2. CASE Reason
  <2>1. rcall' = "reason"
    BY <1>2 DEF Reason
  <2>2. AskSound' /\ QuerySound'
    BY <2>1 DEF AskSound, QuerySound
  <2> QED
    BY <1>2, <2>2, ReasonEstablishes DEF PromptsSound
<1>3. CASE Ask
  <2>1. rcall' = "ask"
    BY <1>3 DEF Ask, Asking
  <2>2. ReasonSound' /\ QuerySound'
    BY <2>1 DEF ReasonSound, QuerySound
  <2> QED
    BY <1>3, <2>2, AskEstablishes DEF PromptsSound
<1>4. CASE QueryDocument
  <2>1. rcall' = "query"
    BY <1>4 DEF QueryDocument
  <2>2. ReasonSound' /\ AskSound'
    BY <2>1 DEF ReasonSound, AskSound
  <2> QED
    BY <1>4, <2>2, QueryEstablishes DEF PromptsSound
<1>5. ExploreStep => rcall' = rcall /\ made' = made
  BY DEF ExploreStep, LeaveLoop, ExploreRecall, ScoreCorpus, ScoreFailed, Refine, Synthesise,
         WaitShards, LastCall, StartShard, ShardEnds
<1>6. UNCHANGED reasonVars => rcall' = rcall /\ made' = made
  BY DEF reasonVars
<1> QED
  BY <1>1, <1>2, <1>3, <1>4, <1>5, <1>6 DEF ReasonNext

LEMMA PromptsInit == ReasonInit => PromptsSound
BY DEF ReasonInit, NothingMade, PromptsSound, ReasonSound, AskSound, QuerySound

\* Whatever the model answers, in whatever order its shards finish and whichever
\* of its calls and reads fail, an answer of memory_explore rests on the whole
\* corpus and cites only it (FanOutReason, validateCitations), the conflicts of
\* memory_reason are those between listed memories, the context of memory_ask
\* fits its budget and leaves out nothing that would (Trim), and the spans of
\* memory_query_document are disjoint, whole runes and within the budget.
THEOREM ReasoningStaysSound == ReasonSpec => []ReasoningSound
<1>1. ReasonInit => ExploreInv /\ PromptsSound
  BY ExploreInitInv, PromptsInit
<1>2. ExploreInv /\ PromptsSound /\ [ReasonNext]_reasonVars => (ExploreInv /\ PromptsSound)'
  BY ExploreNextInv, PromptsNext
<1>3. ExploreInv /\ PromptsSound => ReasoningSound
  BY ExploreGrounded DEF ReasoningSound
<1> QED
  BY <1>1, <1>2, <1>3, PTL DEF ReasonSpec

-----------------------------------------------------------------------------
(* The chunker: lengths.                                                   *)

\* A sentence: its place (section, paragraph, number), its length, its stop.
Sentence == [at : Nat \X Nat \X Nat, len : Nat, stop : BOOLEAN]

\* The length of a sentence is a number.
LEMMA LengthType == ASSUME NEW x \in Sentence PROVE x.len \in Nat
BY DEF Sentence

\* The length of sentences is summed up in a loop over them.
LEMMA SpanLoop ==
    ASSUME NEW s \in Seq(Sentence)
    PROVE  \E f : /\ f[0] = 0 /\ Span(s) = f[Len(s)]
                 /\ \A i \in 1 .. Len(s) : f[i] = f[i - 1] + s[i].len + 1
<1> DEFINE step(x, i) == x + s[i].len + 1
<1>1. PICK nn, bb, SS : nn = Len(s) /\ bb = 0 /\ SS = Nat
  OBVIOUS
<1> DEFINE loop(f) == f = [i \in 0 .. nn |-> IF i = 0 THEN bb ELSE step(f[i - 1], i)]
<1>2. nn \in Nat /\ bb \in SS
  BY <1>1
<1>3. \A x \in SS, i \in 1 .. nn : step(x, i) \in SS
  <2>1. \A i \in 1 .. nn : s[i].len \in Nat
    BY <1>1, LengthType
  <2> QED
    BY <1>1, <2>1
<1>4. Span(s) = (CHOOSE f : loop(f))[nn]
  BY <1>1 DEF Span, LeftFold
<1> HIDE DEF step
<1>5. PICK G : AreTurns(G, nn, SS) /\ \A i \in 1 .. nn, x \in SS : G[i][x] = step(x, i)
  <2> DEFINE H == [i \in 1 .. nn |-> [x \in SS |-> step(x, i)]]
  <2>1. AreTurns(H, nn, SS) /\ \A i \in 1 .. nn, x \in SS : H[i][x] = step(x, i)
    BY <1>3 DEF AreTurns
  <2> HIDE DEF H
  <2> QED
    BY <2>1
<1>6. PICK g : IsLoop(g, nn, SS, bb, G)
  BY <1>2, <1>5, LoopExists
<1>7. loop(g)
  <2>1. \A i \in 1 .. nn : g[i - 1] \in SS /\ g[i] = step(g[i - 1], i)
    BY <1>2, <1>5, <1>6 DEF IsLoop
  <2>2. \A i \in 0 .. nn : g[i] = IF i = 0 THEN bb ELSE step(g[i - 1], i)
    BY <1>2, <1>6, <2>1 DEF IsLoop
  <2> QED
    BY <1>6, <2>2 DEF IsLoop
<1>8. PICK f : loop(f) /\ Span(s) = f[nn]
  <2> HIDE DEF loop
  <2> QED
    BY <1>4, <1>7
<1>9. f[0] = bb /\ \A i \in 1 .. nn : f[i] = step(f[i - 1], i)
  BY <1>2, <1>8
<1> QED
  BY <1>1, <1>8, <1>9 DEF step

-----------------------------------------------------------------------------
(* The pieces a chunk carries over.                                        *)

\* The tail ChunkText carries over is a tail of the chunk and fits the room.
LEMMA TailFacts ==
    ASSUME NEW V, NEW cur \in Seq(V), NEW room \in Nat
    PROVE  /\ \E n \in 0 .. Len(cur) : TailWithin(cur, room) = SubSeq(cur, Len(cur) - n + 1, Len(cur))
           /\ TailWithin(cur, room) \in Seq(V) /\ Joined(TailWithin(cur, room)) =< room
<1>1. PICK m \in Nat : m = Len(cur)
  OBVIOUS
<1> DEFINE fits == {k \in 0 .. m : Joined(SubSeq(cur, m - k + 1, m)) =< room}
<1>2. 0 \in fits
  <2>1. PICK u : u = SubSeq(cur, m - 0 + 1, m)
    OBVIOUS
  <2>2. u = <<>>
    BY <2>1, SubSeqEmpty
  <2>3. Joined(u) = 0
    BY <2>2 DEF Joined
  <2>4. Joined(SubSeq(cur, m - 0 + 1, m)) =< room
    BY <2>1, <2>3
  <2>5. 0 \in 0 .. m
    OBVIOUS
  <2> QED
    BY <2>4, <2>5
<1>3. TailWithin(cur, room) = SubSeq(cur, m - Max(fits) + 1, m)
  BY <1>1 DEF TailWithin
<1>4. Max(fits) \in fits
  <2>1. fits \in SUBSET (0 .. m) /\ fits # {}
    BY <1>2
  <2> HIDE DEF fits
  <2> QED
    BY <2>1, GreatestBelow
<1>5. PICK n \in 0 .. m : n = Max(fits) /\ Joined(SubSeq(cur, m - n + 1, m)) =< room
  BY <1>4
<1>6. m - n + 1 \in Nat /\ 1 =< m - n + 1 /\ m - n + 1 =< m + 1
  BY <1>5
<1>7. SubSeq(cur, m - n + 1, m) \in Seq(V)
  BY <1>1, <1>6, PieceFacts
<1> QED
  BY <1>1, <1>3, <1>5, <1>7

\* What is carried over is made of sentences.
LEMMA CarryFacts ==
    ASSUME NEW V, NEW cur \in Seq(V), cur # <<>>, NEW whole \in BOOLEAN, NEW room \in Nat
    PROVE  Carry(cur, whole, room) \in Seq(V)
BY LastFacts, TailFacts DEF Carry

\* The state of the loop that cuts sentences of V.
Cuts(V) == [out : Seq(Seq(V)), cur : Seq(V)]

\* The loop body keeps the type of that state.
LEMMA AddSentenceType ==
    ASSUME NEW V, NEW acc \in Cuts(V), NEW s \in V, NEW limit, NEW whole \in BOOLEAN, NEW room \in Nat
    PROVE  AddSentence(acc, s, limit, whole, room) \in Cuts(V)
<1>1. acc.out \in Seq(Seq(V)) /\ acc.cur \in Seq(V)
  BY DEF Cuts
<1>2. CASE acc.cur # <<>> /\ Joined(Append(acc.cur, s)) > limit
  <2>1. Append(Carry(acc.cur, whole, room), s) \in Seq(V)
    BY <1>1, <1>2, CarryFacts, AppendProperties
  <2>2. Append(acc.out, acc.cur) \in Seq(Seq(V))
    BY <1>1, AppendProperties
  <2> QED
    BY <1>2, <2>1, <2>2 DEF AddSentence, Cuts
<1>3. CASE ~(acc.cur # <<>> /\ Joined(Append(acc.cur, s)) > limit)
  <2>1. Append(acc.cur, s) \in Seq(V)
    BY <1>1, AppendProperties
  <2> QED
    BY <1>3, <2>1 DEF AddSentence, Cuts
<1> QED
  BY <1>2, <1>3

\* A step of sentenceWindow and one of ChunkText.
WholeAdd(acc, s, limit) == AddSentence(acc, s, limit, TRUE, 0)
WholeCut(sents, limit) == Cutting(sents, limit, TRUE, 0)
RoomAdd(acc, s, limit, room) == AddSentence(acc, s, limit, FALSE, room)
RoomCut(sents, limit, room) == Cutting(sents, limit, FALSE, room)

\* So does the loop body of sentenceWindow.
LEMMA WholeType ==
    ASSUME NEW V, NEW acc \in Cuts(V), NEW s \in V, NEW limit
    PROVE  WholeAdd(acc, s, limit) \in Cuts(V)
<1>1. PICK whole \in BOOLEAN, z \in Nat : whole = TRUE /\ z = 0
  OBVIOUS
<1>2. AddSentence(acc, s, limit, whole, z) \in Cuts(V)
  BY AddSentenceType
<1> QED
  BY <1>1, <1>2 DEF WholeAdd

\* And the one of ChunkText.
LEMMA RoomType ==
    ASSUME NEW V, NEW acc \in Cuts(V), NEW s \in V, NEW limit, NEW room \in Nat
    PROVE  RoomAdd(acc, s, limit, room) \in Cuts(V)
<1>1. PICK whole \in BOOLEAN : whole = FALSE
  OBVIOUS
<1>2. AddSentence(acc, s, limit, whole, room) \in Cuts(V)
  BY AddSentenceType
<1> QED
  BY <1>1, <1>2 DEF RoomAdd

\* sentenceWindow adds one sentence a turn.
LEMMA WholeLoop ==
    ASSUME NEW V, NEW s \in Seq(V), NEW limit
    PROVE  \E f : /\ f[0] = NothingCut /\ WholeCut(s, limit) = f[Len(s)]
                 /\ \A i \in 1 .. Len(s) : f[i] = WholeAdd(f[i - 1], s[i], limit)
<1> DEFINE step(x, i) == WholeAdd(x, s[i], limit)
<1>1. PICK nn, bb, SS : nn = Len(s) /\ bb = NothingCut /\ SS = Cuts(V)
  OBVIOUS
<1> DEFINE loop(f) == f = [i \in 0 .. nn |-> IF i = 0 THEN bb ELSE step(f[i - 1], i)]
<1>2. nn \in Nat /\ bb \in SS
  BY <1>1 DEF Cuts, NothingCut
<1>3. \A x \in SS, i \in 1 .. nn : step(x, i) \in SS
  BY <1>1, WholeType
<1>4. WholeCut(s, limit) = (CHOOSE f : loop(f))[nn]
  BY <1>1 DEF WholeCut, WholeAdd, Cutting, LeftFold
<1> HIDE DEF step
<1>5. PICK G : AreTurns(G, nn, SS) /\ \A i \in 1 .. nn, x \in SS : G[i][x] = step(x, i)
  <2> DEFINE H == [i \in 1 .. nn |-> [x \in SS |-> step(x, i)]]
  <2>1. AreTurns(H, nn, SS) /\ \A i \in 1 .. nn, x \in SS : H[i][x] = step(x, i)
    BY <1>3 DEF AreTurns
  <2> HIDE DEF H
  <2> QED
    BY <2>1
<1>6. PICK g : IsLoop(g, nn, SS, bb, G)
  BY <1>2, <1>5, LoopExists
<1>7. loop(g)
  <2>1. \A i \in 1 .. nn : g[i - 1] \in SS /\ g[i] = step(g[i - 1], i)
    BY <1>2, <1>5, <1>6 DEF IsLoop
  <2>2. \A i \in 0 .. nn : g[i] = IF i = 0 THEN bb ELSE step(g[i - 1], i)
    BY <1>2, <1>6, <2>1 DEF IsLoop
  <2> QED
    BY <1>6, <2>2 DEF IsLoop
<1>8. PICK f : loop(f) /\ WholeCut(s, limit) = f[nn]
  <2> HIDE DEF loop
  <2> QED
    BY <1>4, <1>7
<1>9. f[0] = bb /\ \A i \in 1 .. nn : f[i] = step(f[i - 1], i)
  BY <1>2, <1>8
<1> QED
  BY <1>1, <1>8, <1>9 DEF step

\* ChunkText adds one sentence a turn.
LEMMA RoomLoop ==
    ASSUME NEW V, NEW s \in Seq(V), NEW limit, NEW room \in Nat
    PROVE  \E f : /\ f[0] = NothingCut /\ RoomCut(s, limit, room) = f[Len(s)]
                 /\ \A i \in 1 .. Len(s) : f[i] = RoomAdd(f[i - 1], s[i], limit, room)
<1> DEFINE step(x, i) == RoomAdd(x, s[i], limit, room)
<1>1. PICK nn, bb, SS : nn = Len(s) /\ bb = NothingCut /\ SS = Cuts(V)
  OBVIOUS
<1> DEFINE loop(f) == f = [i \in 0 .. nn |-> IF i = 0 THEN bb ELSE step(f[i - 1], i)]
<1>2. nn \in Nat /\ bb \in SS
  BY <1>1 DEF Cuts, NothingCut
<1>3. \A x \in SS, i \in 1 .. nn : step(x, i) \in SS
  BY <1>1, RoomType
<1>4. RoomCut(s, limit, room) = (CHOOSE f : loop(f))[nn]
  BY <1>1 DEF RoomCut, RoomAdd, Cutting, LeftFold
<1> HIDE DEF step
<1>5. PICK G : AreTurns(G, nn, SS) /\ \A i \in 1 .. nn, x \in SS : G[i][x] = step(x, i)
  <2> DEFINE H == [i \in 1 .. nn |-> [x \in SS |-> step(x, i)]]
  <2>1. AreTurns(H, nn, SS) /\ \A i \in 1 .. nn, x \in SS : H[i][x] = step(x, i)
    BY <1>3 DEF AreTurns
  <2> HIDE DEF H
  <2> QED
    BY <2>1
<1>6. PICK g : IsLoop(g, nn, SS, bb, G)
  BY <1>2, <1>5, LoopExists
<1>7. loop(g)
  <2>1. \A i \in 1 .. nn : g[i - 1] \in SS /\ g[i] = step(g[i - 1], i)
    BY <1>2, <1>5, <1>6 DEF IsLoop
  <2>2. \A i \in 0 .. nn : g[i] = IF i = 0 THEN bb ELSE step(g[i - 1], i)
    BY <1>2, <1>6, <2>1 DEF IsLoop
  <2> QED
    BY <1>6, <2>2 DEF IsLoop
<1>8. PICK f : loop(f) /\ RoomCut(s, limit, room) = f[nn]
  <2> HIDE DEF loop
  <2> QED
    BY <1>4, <1>7
<1>9. f[0] = bb /\ \A i \in 1 .. nn : f[i] = step(f[i - 1], i)
  BY <1>2, <1>8
<1> QED
  BY <1>1, <1>8, <1>9 DEF step

\* The k-th of the news.
NewAt(cs, k) == IF k = 1 THEN cs[1] ELSE Without(cs[k], Range(cs[k - 1]))

\* The news of some chunks, chunk by chunk.
LEMMA NewsType ==
    ASSUME NEW V, NEW cs \in Seq(Seq(V))
    PROVE  /\ News(cs) \in Seq(Seq(V)) /\ Len(News(cs)) = Len(cs)
           /\ \A k \in 1 .. Len(cs) : News(cs)[k] = NewAt(cs, k)
<1>1. PICK W : W = Seq(V)
  OBVIOUS
<1>2. PICK n \in Nat : n = Len(cs)
  OBVIOUS
<1>3. DOMAIN cs = 1 .. n /\ \A k \in 1 .. n : cs[k] \in W
  BY <1>1, <1>2
<1>4. \A k \in 1 .. n : NewAt(cs, k) \in W
  <2> SUFFICES ASSUME NEW k \in 1 .. n PROVE NewAt(cs, k) \in W
    OBVIOUS
  <2>1. cs[k] \in Seq(V)
    BY <1>1, <1>3
  <2>2. CASE k = 1
    BY <1>3, <2>2 DEF NewAt
  <2>3. CASE k # 1
    <3>1. \A A : Without(cs[k], A) \in Seq(V)
      BY <2>1, WithoutFacts
    <3> QED
      BY <1>1, <2>3, <3>1 DEF NewAt
  <2> QED
    BY <2>2, <2>3
<1>5. News(cs) = [k \in 1 .. n |-> NewAt(cs, k)]
  BY <1>3 DEF News, NewAt
<1>6. News(cs) \in Seq(W) /\ Len(News(cs)) = n /\ \A k \in 1 .. n : News(cs)[k] = NewAt(cs, k)
  BY <1>4, <1>5, IsASeq
<1> QED
  BY <1>1, <1>2, <1>6

\* No chunks, no news.
LEMMA NewsNone == Concat(News(<<>>)) = <<>>
<1>1. News(<<>>) = <<>>
  BY DEF News
<1> QED
  BY <1>1, ConcatNone

\* A chunk at the end adds what the chunk before it does not have.
LEMMA NewsAppend ==
    ASSUME NEW V, NEW cs \in Seq(Seq(V)), NEW c \in Seq(V)
    PROVE  /\ cs = <<>> => Concat(News(Append(cs, c))) = Concat(News(cs)) \o c
           /\ cs # <<>> => Concat(News(Append(cs, c))) = Concat(News(cs)) \o Without(c, Range(Last(cs)))
<1>1. PICK W : W = Seq(V)
  OBVIOUS
<1>2. PICK n \in Nat : n = Len(cs)
  OBVIOUS
<1>3. PICK t : t = Append(cs, c)
  OBVIOUS
<1>4. t \in Seq(Seq(V)) /\ Len(t) = n + 1
  BY <1>2, <1>3, AppendProperties
<1>5. (\A i \in 1 .. n : t[i] = cs[i]) /\ t[n + 1] = c
  <2>1. cs \in Seq(W) /\ c \in W
    BY <1>1
  <2> QED
    BY <1>2, <1>3, <2>1, AppendPlaces
<1>6. PICK p : p = News(cs)
  OBVIOUS
<1>7. PICK q : q = News(t)
  OBVIOUS
<1>8. p \in Seq(W) /\ Len(p) = n /\ \A k \in 1 .. n : p[k] = NewAt(cs, k)
  BY <1>1, <1>2, <1>6, NewsType
<1>9. q \in Seq(W) /\ Len(q) = n + 1 /\ \A k \in 1 .. n + 1 : q[k] = NewAt(t, k)
  <2>1. News(t) \in Seq(Seq(V)) /\ Len(News(t)) = Len(t) /\ \A k \in 1 .. Len(t) : News(t)[k] = NewAt(t, k)
    BY <1>4, NewsType
  <2> QED
    BY <1>1, <1>4, <1>7, <2>1
<1>10. PICK x : x = NewAt(t, n + 1)
  OBVIOUS
<1>11. x \in W /\ q[n + 1] = x
  <2>1. n + 1 \in 1 .. n + 1
    OBVIOUS
  <2>2. q[n + 1] = x
    BY <1>9, <1>10, <2>1
  <2> QED
    BY <1>9, <2>1, <2>2
<1>12. \A k \in 1 .. n : q[k] = p[k]
  <2> SUFFICES ASSUME NEW k \in 1 .. n PROVE NewAt(t, k) = NewAt(cs, k)
    BY <1>8, <1>9
  <2>1. t[k] = cs[k]
    BY <1>5
  <2>2. k # 1 => t[k - 1] = cs[k - 1]
    BY <1>5
  <2> QED
    BY <2>1, <2>2 DEF NewAt
<1>13. q = Append(p, x)
  <2>1. PICK u : u = Append(p, x)
    OBVIOUS
  <2>2. u \in Seq(W) /\ Len(u) = Len(p) + 1 /\ (\A k \in 1 .. Len(p) : u[k] = p[k]) /\ u[Len(p) + 1] = x
    BY <1>8, <1>11, <2>1, AppendProperties
  <2>3. Len(u) = n + 1 /\ (\A k \in 1 .. n : u[k] = p[k]) /\ u[n + 1] = x
    BY <1>8, <2>2
  <2>4. \A k \in 1 .. n + 1 : q[k] = u[k]
    <3>1. \A k \in 1 .. n + 1 : k = n + 1 \/ k \in 1 .. n
      OBVIOUS
    <3> QED
      BY <1>11, <1>12, <2>3, <3>1
  <2>5. q = u
    BY <1>9, <2>2, <2>3, <2>4, SeqEqual
  <2> QED
    BY <2>1, <2>5
<1>14. Concat(q) = Concat(p) \o x
  <2>1. p \in Seq(Seq(V)) /\ x \in Seq(V)
    BY <1>1, <1>8, <1>11
  <2> QED
    BY <1>13, <2>1, ConcatAppend
<1>15. CASE cs = <<>>
  <2>1. n = 0
    BY <1>2, <1>15
  <2>2. x = c
    BY <1>5, <1>10, <2>1 DEF NewAt
  <2> QED
    BY <1>3, <1>6, <1>7, <1>14, <1>15, <2>2
<1>16. CASE cs # <<>>
  <2>1. n # 0
    BY <1>2, <1>16, EmptyIsNone
  <2>2. Last(cs) = cs[n]
    BY <1>2 DEF Last
  <2>3. n + 1 # 1 /\ n + 1 - 1 = n /\ n \in 1 .. n
    BY <2>1
  <2>4. x = Without(t[n + 1], Range(t[n + 1 - 1]))
    BY <1>10, <2>3 DEF NewAt
  <2>5. x = Without(c, Range(Last(cs)))
    BY <1>5, <2>2, <2>3, <2>4
  <2> QED
    BY <1>3, <1>6, <1>7, <1>14, <1>16, <2>5
<1> QED
  BY <1>15, <1>16

\* The next sentence is the only news, whether it closes a chunk or not.
LEMMA SentenceIsNews ==
    ASSUME NEW V, NEW acc \in Cuts(V), NEW x \in V, x \notin Said(Chunks(acc)), NEW limit,
           NEW next, next = WholeAdd(acc, x, limit)
    PROVE  /\ Said(Chunks(next)) \subseteq Said(Chunks(acc)) \cup {x}
           /\ Concat(News(Chunks(next))) = Append(Concat(News(Chunks(acc))), x)
<1>1. PICK out \in Seq(Seq(V)), cur \in Seq(V) : out = acc.out /\ cur = acc.cur
  BY DEF Cuts
<1>2. next = WholeAdd(acc, x, limit)
  OBVIOUS
<1>3. PICK cs \in Seq(Seq(V)) : cs = Append(out, cur)
  BY SaidMore
<1>4. Chunks(acc) = cs
  BY <1>1, <1>3 DEF Chunks
<1>5. Said(cs) = Said(out) \cup Range(cur) /\ x \notin Said(cs)
  BY <1>3, <1>4, SaidMore
<1>6. News(out) \in Seq(Seq(V)) /\ News(cs) \in Seq(Seq(V))
  BY NewsType
<1>7. PICK old \in Seq(V), all \in Seq(V) : old = Concat(News(out)) /\ all = Concat(News(cs))
  BY <1>6, FlatFacts
<1>8. CASE cur # <<>> /\ Joined(Append(cur, x)) > limit
  <2>1. PICK l \in Seq(V) : l = <<Last(cur)>>
    <3>1. Last(cur) \in V
      BY <1>8, LastFacts
    <3> QED
      BY <3>1, OneIsSeq
  <2>2. PICK xs \in Seq(V) : xs = <<x>>
    BY OneIsSeq
  <2>3. PICK d \in Seq(V) : d = l \o xs
    BY ConcatProperties
  <2>4. next.out = cs /\ next.cur = d
    <3>1. d = Append(<<Last(cur)>>, x)
      <4>1. Append(l, x) = l \o <<x>>
        BY AppendIsConcat
      <4> QED
        BY <2>1, <2>2, <2>3, <4>1
    <3>2. next = [out |-> Append(acc.out, acc.cur), cur |-> Append(<<Last(cur)>>, x)]
      BY <1>1, <1>2, <1>8 DEF WholeAdd, AddSentence, Carry
    <3> QED
      BY <1>1, <1>3, <3>1, <3>2
  <2>5. Range(l) \subseteq Range(cur) /\ Range(d) = Range(l) \cup {x}
    <3>1. Range(xs) = {x}
      BY <2>2, OneIsSeq
    <3>2. Last(cur) \in Range(cur) /\ Last(cur) \in V
      BY <1>8, LastFacts
    <3>3. Range(l) = {Last(cur)}
      BY <2>1, <3>2, OneIsSeq
    <3>4. Range(d) = Range(l) \cup Range(xs)
      BY <2>3, ConcatFacts
    <3> QED
      BY <3>1, <3>2, <3>3, <3>4
  <2>6. Chunks(next) = Append(cs, d)
    BY <2>4 DEF Chunks
  <2>7. Said(Append(cs, d)) = Said(cs) \cup Range(d)
    BY SaidMore
  <2>8. cs # <<>> /\ Last(cs) = cur
    BY <1>3, SaidMore
  <2>9. Without(d, Range(cur)) = xs
    <3>1. Range(xs) \cap Range(cur) = {}
      <4>1. Range(xs) = {x}
        BY <2>2, OneIsSeq
      <4> QED
        BY <1>5, <4>1
    <3>2. Range(l) \subseteq Range(cur)
      BY <2>5
    <3>3. Without(l \o xs, Range(cur)) = xs
      <4>1. PICK A : A = Range(cur)
        OBVIOUS
      <4> QED
        BY <3>1, <3>2, <4>1, WithoutOld
    <3> QED
      BY <2>3, <3>3
  <2>10. Concat(News(Append(cs, d))) = all \o xs
    BY <1>7, <2>8, <2>9, NewsAppend
  <2>11. all \o xs = Append(all, x)
    BY <2>2, AppendIsConcat
  <2> QED
    BY <1>2, <1>4, <1>5, <1>7, <2>5, <2>6, <2>7, <2>10, <2>11
<1>9. CASE ~(cur # <<>> /\ Joined(Append(cur, x)) > limit)
  <2>1. PICK d \in Seq(V) : d = Append(cur, x)
    BY AppendProperties
  <2>2. next.out = out /\ next.cur = d
    BY <1>1, <1>2, <1>9, <2>1 DEF WholeAdd, AddSentence, Cuts
  <2>3. Chunks(next) = Append(out, d)
    BY <2>2 DEF Chunks
  <2>4. Said(Append(out, d)) = Said(out) \cup Range(d) /\ Range(d) = Range(cur) \cup {x}
    <3>1. Said(Append(out, d)) = Said(out) \cup Range(d)
      BY SaidMore
    <3>2. Range(Append(cur, x)) = Range(cur) \cup {x}
      BY AppendFacts
    <3> QED
      BY <2>1, <3>1, <3>2
  <2>5. Concat(News(Append(out, d))) = Append(all, x)
    <3>1. CASE out = <<>>
      <4>1. all = old \o cur
        BY <1>3, <1>7, <3>1, NewsAppend
      <4>2. Concat(News(Append(out, d))) = old \o d
        BY <1>7, <3>1, NewsAppend
      <4>3. old \o Append(cur, x) = Append(old \o cur, x)
        BY ConcatOfAppend
      <4> QED
        BY <2>1, <4>1, <4>2, <4>3
    <3>2. CASE out # <<>>
      <4>1. PICK A : A = Range(Last(out))
        OBVIOUS
      <4>2. PICK w \in Seq(V) : w = Without(cur, A)
        BY WithoutFacts
      <4>3. all = old \o w
        BY <1>3, <1>7, <3>2, <4>1, <4>2, NewsAppend
      <4>4. x \notin A
        <5>1. A \subseteq Said(out)
          BY <3>2, <4>1, SaidFacts
        <5> QED
          BY <1>5, <5>1
      <4>5. Without(d, A) = Append(w, x)
        BY <2>1, <4>2, <4>4, WithoutAppend
      <4>6. Concat(News(Append(out, d))) = old \o Append(w, x)
        BY <1>7, <3>2, <4>1, <4>5, NewsAppend
      <4>7. old \o Append(w, x) = Append(old \o w, x)
        BY ConcatOfAppend
      <4> QED
        BY <4>3, <4>6, <4>7
    <3> QED
      BY <3>1, <3>2
  <2> QED
    BY <1>2, <1>4, <1>5, <1>7, <2>3, <2>4, <2>5
<1> QED
  BY <1>1, <1>8, <1>9

\* The windows of a paragraph give it back.
LEMMA WindowsCover ==
    ASSUME NEW V, NEW s \in Seq(V), IsInjective(s), NEW limit
    PROVE  /\ Windows(s, limit, TRUE, 0) \in Seq(Seq(V)) /\ Windows(s, limit, TRUE, 0) # <<>>
           /\ Said(Windows(s, limit, TRUE, 0)) \subseteq Range(s)
           /\ Concat(News(Windows(s, limit, TRUE, 0))) = s
<1>1. PICK n \in Nat : n = Len(s)
  OBVIOUS
<1>2. PICK f : /\ f[0] = NothingCut /\ WholeCut(s, limit) = f[n]
               /\ \A i \in 1 .. n : f[i] = WholeAdd(f[i - 1], s[i], limit)
  BY <1>1, WholeLoop
<1> DEFINE Good(i) == /\ f[i] \in Cuts(V) /\ Said(Chunks(f[i])) \subseteq UpTo(s, i)
                      /\ Concat(News(Chunks(f[i]))) = SubSeq(s, 1, i)
           T == {i \in 0 .. n : Good(i)}
<1>3. Good(0)
  <2>1. NothingCut \in Cuts(V) /\ Chunks(NothingCut) = Append(<<>>, <<>>)
    BY DEF NothingCut, Cuts, Chunks
  <2>2. PICK e \in Seq(Seq(V)) : e = <<>>
    <3>1. PICK W : W = Seq(V)
      OBVIOUS
    <3>2. <<>> \in Seq(W)
      OBVIOUS
    <3> QED
      BY <3>1, <3>2
  <2>3. PICK c \in Seq(V) : c = <<>>
    <3>1. <<>> \in Seq(V)
      OBVIOUS
    <3> QED
      BY <3>1
  <2>4. Concat(News(Append(e, c))) = Concat(News(e)) \o c
    BY <2>2, NewsAppend
  <2>5. c \o c = c
    BY <2>3, ConcatEmptySeq
  <2>6. Said(Append(e, c)) = Said(e) \cup Range(c)
    BY SaidMore
  <2>7. Range(c) = {} /\ Said(e) = {} /\ Concat(News(e)) = c
    BY <2>2, <2>3, NewsNone, SaidNothing DEF Range
  <2>8. SubSeq(s, 1, 0) = c
    BY <2>3, EmptyPrefix
  <2>9. Chunks(f[0]) = Append(e, c)
    BY <1>2, <2>1, <2>2, <2>3
  <2> QED
    BY <1>2, <2>1, <2>4, <2>5, <2>6, <2>7, <2>8, <2>9
<1>4. ASSUME NEW i \in 1 .. n, Good(i - 1) PROVE Good(i)
  <2>1. PICK acc \in Cuts(V) : acc = f[i - 1]
    BY <1>4
  <2>2. PICK x \in V : x = s[i]
    BY <1>1
  <2>3. f[i] = WholeAdd(acc, x, limit)
    BY <1>2, <2>1, <2>2
  <2>4. f[i] \in Cuts(V)
    BY <2>3, WholeType
  <2>5. x \notin UpTo(s, i - 1) /\ UpTo(s, i) = UpTo(s, i - 1) \cup {x}
    <3>1. \A j \in 1 .. i - 1 : s[j] # s[i]
      BY <1>1 DEF IsInjective
    <3> QED
      BY <2>2, <3>1 DEF UpTo
  <2>6. Said(Chunks(acc)) \subseteq UpTo(s, i - 1) /\ Concat(News(Chunks(acc))) = SubSeq(s, 1, i - 1)
    BY <1>4, <2>1
  <2>7. /\ Said(Chunks(f[i])) \subseteq Said(Chunks(acc)) \cup {x}
        /\ Concat(News(Chunks(f[i]))) = Append(Concat(News(Chunks(acc))), x)
    <3>1. x \notin Said(Chunks(acc))
      BY <2>5, <2>6
    <3> QED
      BY <2>3, <3>1, SentenceIsNews
  <2>8. SubSeq(s, 1, i) = Append(SubSeq(s, 1, i - 1), x)
    BY <1>1, <2>2, PrefixGrows
  <2> QED
    BY <2>4, <2>5, <2>6, <2>7, <2>8
<1> HIDE DEF Good
<1>5. 0 \in T /\ \A i \in 1 .. n : i - 1 \in T => i \in T
  BY <1>3, <1>4
<1> HIDE DEF T
<1>6. n \in T
  BY <1>5, UpToEnd
<1>7. PICK acc : acc = f[n]
  OBVIOUS
<1>8. acc \in Cuts(V) /\ Said(Chunks(acc)) \subseteq Range(s) /\ Concat(News(Chunks(acc))) = s
  <2>1. SubSeq(s, 1, n) = s
    BY <1>1, SubSeqFull
  <2>2. UpTo(s, n) = Range(s)
    BY <1>1 DEF UpTo, Range
  <2> QED
    BY <1>6, <1>7, <2>1, <2>2 DEF T, Good
<1>9. Chunks(acc) \in Seq(Seq(V)) /\ Chunks(acc) # <<>>
  <2>1. acc.out \in Seq(Seq(V)) /\ acc.cur \in Seq(V)
    BY <1>8 DEF Cuts
  <2> QED
    BY <2>1, SaidMore DEF Chunks
<1> QED
  BY <1>2, <1>7, <1>8, <1>9 DEF Windows, WholeCut

\* A last sentence that is not in the text is put in front of it.
LEMMA OverlappedFacts ==
    ASSUME NEW V, NEW prev \in Seq(V), NEW text \in Seq(V), Range(prev) \cap Range(text) = {}
    PROVE  Overlapped(prev, text) = prev \o text
<1>1. CASE \E i \in 0 .. Len(text) - Len(prev) : SubSeq(text, i + 1, i + Len(prev)) = prev
  <2>1. PICK l \in Nat, n \in Nat : l = Len(prev) /\ n = Len(text)
    OBVIOUS
  <2>2. PICK i \in 0 .. n - l : SubSeq(text, i + 1, i + l) = prev
    BY <1>1, <2>1
  <2>3. PICK a \in Nat, b \in Nat : a = i + 1 /\ b = i + l
    OBVIOUS
  <2>4. 1 =< a /\ a =< b + 1 /\ b =< n
    BY <2>2, <2>3
  <2>5. b =< Len(text)
    BY <2>1, <2>4
  <2>6. Range(SubSeq(text, a, b)) = {text[j] : j \in a .. b}
    BY <2>4, <2>5, PieceFacts
  <2>7. \A j \in a .. b : j \in 1 .. n
    BY <2>4
  <2>8. \A j \in 1 .. n : text[j] \in Range(text)
    BY <2>1 DEF Range
  <2>9. Range(prev) \subseteq Range(text)
    BY <2>2, <2>3, <2>6, <2>7, <2>8
  <2>10. Range(prev) = {}
    BY <2>9
  <2>11. prev = <<>>
    BY <2>10, NoneIsEmpty
  <2>12. Overlapped(prev, text) = text
    BY <1>1 DEF Overlapped
  <2>13. <<>> \o text = text
    BY ConcatEmptySeq
  <2> QED
    BY <2>11, <2>12, <2>13
<1>2. CASE ~(\E i \in 0 .. Len(text) - Len(prev) : SubSeq(text, i + 1, i + Len(prev)) = prev)
  BY <1>2 DEF Overlapped
<1> QED
  BY <1>1, <1>2

\* Changing the first of some sequences.
LEMMA FirstChanged ==
    ASSUME NEW W, NEW cs \in Seq(W), cs # <<>>, NEW o \in W
    PROVE  /\ [cs EXCEPT ![1] = o] \in Seq(W) /\ Len([cs EXCEPT ![1] = o]) = Len(cs)
           /\ [cs EXCEPT ![1] = o][1] = o
           /\ \A k \in 2 .. Len(cs) : [cs EXCEPT ![1] = o][k] = cs[k]
<1>1. PICK n \in Nat : n = Len(cs)
  OBVIOUS
<1>2. PICK ds : ds = [cs EXCEPT ![1] = o]
  OBVIOUS
<1>3. n # 0
  BY <1>1, EmptyIsNone
<1>4. DOMAIN cs = 1 .. n /\ (\A k \in 1 .. n : cs[k] \in W) /\ 1 \in 1 .. n
  BY <1>1, <1>3
<1>5. DOMAIN ds = 1 .. n /\ ds[1] = o /\ \A k \in 1 .. n : k # 1 => ds[k] = cs[k]
  BY <1>2, <1>4
<1>6. \A k \in 2 .. n : k \in 1 .. n /\ k # 1
  OBVIOUS
<1>7. ds = [k \in 1 .. n |-> ds[k]] /\ \A k \in 1 .. n : ds[k] \in W
  BY <1>2, <1>4, <1>5
<1>8. ds \in Seq(W) /\ Len(ds) = n
  BY <1>7, IsASeq
<1> QED
  BY <1>1, <1>2, <1>5, <1>6, <1>8

\* The chunks with the overlap put in front of the first.
Patched(prev, cs) == [cs EXCEPT ![1] = Overlapped(prev, @)]

\* What is known of it when the overlap is no part of the chunks.
IsPatch(ds, prev, cs) ==
    /\ Len(ds) = Len(cs) /\ ds[1] = prev \o cs[1] /\ Range(ds[1]) = Range(prev) \cup Range(cs[1])
    /\ \A k \in 2 .. Len(cs) : ds[k] = cs[k]

\* Putting an overlap in front changes the first chunk only.
LEMMA PatchFacts ==
    ASSUME NEW V, NEW prev \in Seq(V), NEW cs \in Seq(Seq(V)), cs # <<>>,
           Range(prev) \cap Said(cs) = {},
           NEW ds, ds = Patched(prev, cs)
    PROVE  ds \in Seq(Seq(V)) /\ cs[1] \in Seq(V) /\ IsPatch(ds, prev, cs)
<1>1. PICK W : W = Seq(V)
  OBVIOUS
<1>2. cs \in Seq(W) /\ 1 \in 1 .. Len(cs)
  <2>1. Len(cs) # 0 /\ Len(cs) \in Nat
    BY EmptyIsNone
  <2> QED
    BY <1>1, <2>1
<1>3. cs[1] \in Seq(V)
  BY <1>1, <1>2
<1>4. Range(cs[1]) \subseteq Said(cs)
  BY <1>2, SaidFacts
<1>5. PICK c \in Seq(V) : c = cs[1]
  BY <1>3
<1>6. Overlapped(prev, c) = prev \o c
  BY <1>4, <1>5, OverlappedFacts
<1>7. prev \o c \in Seq(V) /\ Range(prev \o c) = Range(prev) \cup Range(c)
  BY ConcatFacts
<1>8. PICK o \in W : o = prev \o c
  BY <1>1, <1>7
<1>9. ds = [cs EXCEPT ![1] = o]
  <2>1. ds = [cs EXCEPT ![1] = Overlapped(prev, cs[1])]
    BY DEF Patched
  <2> QED
    BY <1>5, <1>6, <1>8, <2>1
<1>10. ds \in Seq(W) /\ Len(ds) = Len(cs) /\ ds[1] = o /\ \A k \in 2 .. Len(cs) : ds[k] = cs[k]
  BY <1>2, <1>9, FirstChanged
<1> QED
  BY <1>1, <1>3, <1>5, <1>7, <1>8, <1>10 DEF IsPatch

\* The overlap that is carried on stands in the last chunk.
Carried(out, prev) == IF out = <<>> THEN prev = <<>> ELSE Range(prev) \subseteq Range(Last(out))

\* What the overlap says was said.
LEMMA CarriedFacts ==
    ASSUME NEW V, NEW out \in Seq(Seq(V)), NEW prev \in Seq(V), Carried(out, prev)
    PROVE  /\ Range(prev) \subseteq Said(out) /\ (out = <<>> => prev = <<>>)
           /\ (out # <<>> => Range(prev) \subseteq Range(Last(out)))
<1>1. CASE out = <<>>
  <2>1. prev = <<>>
    BY <1>1 DEF Carried
  <2>2. Range(prev) = {}
    BY <2>1 DEF Range
  <2> QED
    BY <1>1, <2>1, <2>2
<1>2. CASE out # <<>>
  <2>1. Range(prev) \subseteq Range(Last(out))
    BY <1>2 DEF Carried
  <2>2. Range(Last(out)) \subseteq Said(out)
    BY <1>2, SaidFacts
  <2> QED
    BY <1>2, <2>1, <2>2
<1> QED
  BY <1>1, <1>2

\* Overlap and chunks say what was said before and what the chunks say.
LEMMA PatchSays ==
    ASSUME NEW V, NEW prev \in Seq(V), NEW cs \in Seq(Seq(V)), cs # <<>>,
           NEW ds \in Seq(Seq(V)), IsPatch(ds, prev, cs)
    PROVE  Said(ds) = Range(prev) \cup Said(cs)
<1>1. PICK W : W = Seq(V)
  OBVIOUS
<1>2. PICK m \in Nat : m = Len(cs)
  OBVIOUS
<1>3. m # 0
  BY <1>2, EmptyIsNone
<1>4. 1 \in 1 .. m /\ \A k \in 1 .. m : k = 1 \/ k \in 2 .. m
  BY <1>3
<1>5. cs \in Seq(W) /\ ds \in Seq(W)
  BY <1>1
<1>6. \A y : (y \in Said(cs)) <=> (\E k \in 1 .. m : y \in Range(cs[k]))
  BY <1>2, <1>5, SaidBy
<1>7. \A y : (y \in Said(ds)) <=> (\E k \in 1 .. m : y \in Range(ds[k]))
  <2>1. Len(ds) = m
    BY <1>2 DEF IsPatch
  <2> QED
    BY <1>5, <2>1, SaidBy
<1>8. Range(ds[1]) = Range(prev) \cup Range(cs[1]) /\ \A k \in 2 .. m : Range(ds[k]) = Range(cs[k])
  BY <1>2 DEF IsPatch
<1>9. \A y : (\E k \in 1 .. m : y \in Range(ds[k])) <=> (y \in Range(prev) \/ \E k \in 1 .. m : y \in Range(cs[k]))
  BY <1>4, <1>8
<1> QED
  BY <1>6, <1>7, <1>9

\* Attached chunks bring their own news and nothing else.
LEMMA NewsJoin ==
    ASSUME NEW V, NEW out \in Seq(Seq(V)), NEW prev \in Seq(V), NEW cs \in Seq(Seq(V)), cs # <<>>,
           Carried(out, prev), NoCommon(Said(out), Said(cs)),
           NEW ds \in Seq(Seq(V)), cs[1] \in Seq(V), IsPatch(ds, prev, cs)
    PROVE  News(out \o ds) = News(out) \o News(cs)
<1>1. PICK W : W = Seq(V)
  OBVIOUS
<1>2. PICK n \in Nat, m \in Nat : n = Len(out) /\ m = Len(cs)
  OBVIOUS
<1>3. m # 0 /\ Len(ds) = m
  BY <1>2, EmptyIsNone DEF IsPatch
<1>4. PICK all : all = out \o ds
  OBVIOUS
<1>5. out \in Seq(W) /\ cs \in Seq(W) /\ ds \in Seq(W)
  BY <1>1
<1>6. /\ all \in Seq(W) /\ Len(all) = n + m
      /\ (\A k \in 1 .. n : all[k] = out[k]) /\ (\A k \in 1 .. m : all[n + k] = ds[k])
  <2>1. m = Len(ds) /\ n = Len(out)
    BY <1>2, <1>3
  <2> QED
    BY <1>4, <1>5, <2>1, JoinPlaces
<1>7. PICK p \in Seq(W) : p = News(out) /\ Len(p) = n /\ \A k \in 1 .. n : p[k] = NewAt(out, k)
  BY <1>1, <1>2, NewsType
<1>8. PICK q \in Seq(W) : q = News(cs) /\ Len(q) = m /\ \A k \in 1 .. m : q[k] = NewAt(cs, k)
  BY <1>1, <1>2, NewsType
<1>9. PICK r \in Seq(W) : r = News(all) /\ Len(r) = n + m /\ \A k \in 1 .. n + m : r[k] = NewAt(all, k)
  <2>1. all \in Seq(Seq(V))
    BY <1>1, <1>6
  <2>2. News(all) \in Seq(Seq(V)) /\ Len(News(all)) = Len(all) /\ \A k \in 1 .. Len(all) : News(all)[k] = NewAt(all, k)
    BY <2>1, NewsType
  <2> QED
    BY <1>1, <1>6, <2>2
<1>10. \A k \in 1 .. n : r[k] = p[k]
  <2> SUFFICES ASSUME NEW k \in 1 .. n PROVE r[k] = p[k]
    OBVIOUS
  <2>1. k \in 1 .. n + m /\ (k # 1 => k - 1 \in 1 .. n) /\ 1 \in 1 .. n
    OBVIOUS
  <2>2. all[k] = out[k] /\ all[1] = out[1] /\ (k # 1 => all[k - 1] = out[k - 1])
    BY <1>6, <2>1
  <2>3. NewAt(all, k) = NewAt(out, k)
    BY <2>2 DEF NewAt
  <2> QED
    BY <1>7, <1>9, <2>1, <2>3
<1>11. PICK c \in Seq(V) : c = cs[1]
  OBVIOUS
<1>12. \A k \in 1 .. m : Range(cs[k]) \cap Said(out) = {}
  BY <1>2, <1>5, SaidFacts DEF NoCommon
<1>13. 1 \in 1 .. m
  BY <1>3
<1>14. r[n + 1] = c
  <2>1. n + 1 \in 1 .. n + m
    BY <1>3
  <2>2. all[n + 1] = prev \o c
    BY <1>6, <1>11, <1>13 DEF IsPatch
  <2>3. r[n + 1] = NewAt(all, n + 1)
    BY <1>9, <2>1
  <2>4. CASE out = <<>>
    <3>1. n = 0
      BY <1>2, <2>4
    <3>2. prev = <<>>
      BY <2>4, CarriedFacts
    <3>3. <<>> \o c = c
      BY ConcatEmptySeq
    <3>4. NewAt(all, n + 1) = all[n + 1]
      BY <3>1 DEF NewAt
    <3> QED
      BY <2>2, <2>3, <3>2, <3>3, <3>4
  <2>5. CASE out # <<>>
    <3>1. n # 0
      BY <1>2, <2>5, EmptyIsNone
    <3>2. PICK l : l = out[n]
      OBVIOUS
    <3>3. Last(out) = l
      BY <1>2, <3>2 DEF Last
    <3>4. PICK A : A = Range(l)
      OBVIOUS
    <3>5. Range(prev) \subseteq A
      BY <2>5, <3>3, <3>4, CarriedFacts
    <3>6. Range(c) \cap A = {}
      <4>1. A \subseteq Said(out)
        BY <2>5, <3>3, <3>4, SaidFacts
      <4> QED
        BY <1>11, <1>12, <1>13, <4>1
    <3>7. Without(all[n + 1], A) = c
      <4>1. PICK u : u = all[n + 1]
        OBVIOUS
      <4>2. IsBoth(u, prev, c)
        BY <2>2, <4>1 DEF IsBoth
      <4>3. Within(Range(prev), A) /\ NoCommon(Range(c), A)
        BY <3>5, <3>6 DEF NoCommon, Within
      <4>4. Without(u, A) = c
        BY <4>2, <4>3, OldLeftOut
      <4> QED
        BY <4>1, <4>4
    <3>8. n + 1 # 1 /\ n + 1 - 1 = n /\ n \in 1 .. n
      BY <3>1
    <3>9. NewAt(all, n + 1) = Without(all[n + 1], Range(all[n + 1 - 1]))
      BY <3>8 DEF NewAt
    <3>10. all[n + 1 - 1] = l
      BY <1>6, <3>2, <3>8
    <3> QED
      BY <2>3, <3>4, <3>7, <3>9, <3>10
  <2> QED
    BY <2>4, <2>5
<1>15. \A k \in 1 .. m : r[n + k] = q[k]
  <2> SUFFICES ASSUME NEW k \in 1 .. m PROVE r[n + k] = q[k]
    OBVIOUS
  <2>1. CASE k = 1
    <3>1. q[1] = c
      BY <1>8, <1>11, <1>13 DEF NewAt
    <3> QED
      BY <1>14, <2>1, <3>1
  <2>2. CASE k # 1
    <3>1. k \in 2 .. m /\ k - 1 \in 1 .. m /\ n + k \in 1 .. n + m /\ n + k # 1 /\ n + k - 1 = n + (k - 1)
      BY <2>2
    <3>2. r[n + k] = Without(all[n + k], Range(all[n + k - 1]))
      BY <1>9, <3>1 DEF NewAt
    <3>3. all[n + k] = cs[k] /\ all[n + k - 1] = ds[k - 1]
      BY <1>2, <1>6, <3>1 DEF IsPatch
    <3>4. q[k] = Without(cs[k], Range(cs[k - 1]))
      BY <1>8, <2>2 DEF NewAt
    <3>5. PICK x, A, B : x = cs[k] /\ A = Range(ds[k - 1]) /\ B = Range(cs[k - 1])
      OBVIOUS
    <3>6. Range(x) \cap A = Range(x) \cap B
      <4>1. CASE k - 1 = 1
        <5>1. A = Range(prev) \cup B
          BY <3>5, <4>1 DEF IsPatch
        <5>2. Range(prev) \subseteq Said(out)
          BY CarriedFacts
        <5>3. Range(x) \cap Said(out) = {}
          BY <1>12, <3>5
        <5> QED
          BY <5>1, <5>2, <5>3
      <4>2. CASE k - 1 # 1
        <5>1. k - 1 \in 2 .. m
          BY <3>1, <4>2
        <5> QED
          BY <1>2, <3>5, <5>1 DEF IsPatch
      <4> QED
        BY <4>1, <4>2
    <3>7. Without(x, A) = Without(x, B)
      BY <3>6, WithoutSame
    <3> QED
      BY <3>2, <3>3, <3>4, <3>5, <3>7
  <2> QED
    BY <2>1, <2>2
<1>16. r = p \o q
  <2>1. PICK u : u = p \o q
    OBVIOUS
  <2>2. /\ u \in Seq(W) /\ Len(u) = n + m
        /\ (\A k \in 1 .. n : u[k] = p[k]) /\ (\A k \in 1 .. m : u[n + k] = q[k])
    <3>1. n = Len(p) /\ m = Len(q)
      BY <1>7, <1>8
    <3> QED
      BY <2>1, <3>1, JoinPlaces
  <2>3. \A k \in 1 .. n + m : u[k] = r[k]
    <3> SUFFICES ASSUME NEW k \in 1 .. n + m PROVE u[k] = r[k]
      OBVIOUS
    <3>1. CASE k \in 1 .. n
      BY <1>10, <2>2, <3>1
    <3>2. CASE k \notin 1 .. n
      <4>1. PICK j \in 1 .. m : k = n + j
        <5>1. k - n \in 1 .. m /\ n + (k - n) = k
          BY <3>2
        <5> QED
          BY <5>1
      <4> QED
        BY <1>15, <2>2, <4>1
    <3> QED
      BY <3>1, <3>2
  <2>4. Len(r) = n + m
    BY <1>9
  <2>5. u = r
    BY <2>2, <2>3, <2>4, SeqEqual
  <2> QED
    BY <2>1, <2>5
<1> QED
  BY <1>4, <1>7, <1>8, <1>9, <1>16

\* Attaching cs to out says what both say and adds the news of cs.
AddsTo(all, out, prev, cs) ==
    /\ all # <<>> /\ Said(all) = Said(out) \cup Said(cs)
    /\ Concat(News(all)) = Concat(News(out)) \o Concat(News(cs))
    /\ Len(cs) = 1 => Range(prev) \subseteq Range(Last(all))

\* Attaching chunks of new sentences loses and repeats nothing: the news of
\* all are the news of both.
LEMMA AttachFacts ==
    ASSUME NEW V, NEW out \in Seq(Seq(V)), NEW prev \in Seq(V), NEW cs \in Seq(Seq(V)), cs # <<>>,
           Carried(out, prev), NoCommon(Said(out), Said(cs)),
           NEW all, all = Attach(out, prev, cs)
    PROVE  all \in Seq(Seq(V)) /\ AddsTo(all, out, prev, cs)
<1>1. PICK W : W = Seq(V)
  OBVIOUS
<1>2. PICK ds : ds = Patched(prev, cs)
  OBVIOUS
<1>3. all = out \o ds
  BY <1>2 DEF Attach, Patched
<1>4. Range(prev) \subseteq Said(out)
  BY CarriedFacts
<1>5. Range(prev) \cap Said(cs) = {}
  BY <1>4 DEF NoCommon
<1>6. ds \in Seq(Seq(V)) /\ cs[1] \in Seq(V) /\ IsPatch(ds, prev, cs)
  BY <1>2, <1>5, PatchFacts
<1>7. Said(ds) = Range(prev) \cup Said(cs)
  BY <1>6, PatchSays
<1>8. News(out \o ds) = News(out) \o News(cs)
  BY <1>6, NewsJoin
<1>9. Said(out \o ds) = Said(out) \cup Said(ds)
  BY <1>6, SaidJoins
<1>10. News(out) \in Seq(Seq(V)) /\ News(cs) \in Seq(Seq(V))
  BY NewsType
<1>11. Concat(News(out) \o News(cs)) = Concat(News(out)) \o Concat(News(cs))
  BY <1>10, ConcatJoins
<1>12. PICK n \in Nat, m \in Nat : n = Len(out) /\ m = Len(ds)
  BY <1>6
<1>13. all \in Seq(W) /\ Len(all) = n + m /\ \A k \in 1 .. m : all[n + k] = ds[k]
  <2>1. out \in Seq(W) /\ ds \in Seq(W)
    BY <1>1, <1>6
  <2> QED
    BY <1>3, <1>12, <2>1, JoinPlaces
<1>14. m # 0
  BY <1>6, <1>12, EmptyIsNone DEF IsPatch
<1>15. all # <<>>
  <2>1. Len(all) # 0
    BY <1>13, <1>14
  <2> QED
    BY <1>13, <2>1, EmptyIsNone
<1>16. Len(cs) = 1 => Range(prev) \subseteq Range(Last(all))
  <2> SUFFICES ASSUME Len(cs) = 1 PROVE Range(prev) \subseteq Range(Last(all))
    OBVIOUS
  <2>1. m = 1
    BY <1>6, <1>12 DEF IsPatch
  <2>2. Last(all) = ds[1]
    BY <1>13, <2>1 DEF Last
  <2> QED
    BY <1>6, <2>2 DEF IsPatch
<1> QED
  BY <1>1, <1>3, <1>4, <1>7, <1>8, <1>9, <1>11, <1>13, <1>15, <1>16 DEF AddsTo

\* lastSentence returns a part of the text.
LEMMA LastSentenceFacts ==
    ASSUME NEW V, NEW text \in Seq(V)
    PROVE  LastSentence(text) \in Seq(V) /\ Range(LastSentence(text)) \subseteq Range(text)
<1>1. PICK m \in Nat : m = Len(text)
  OBVIOUS
<1> DEFINE ends == {i \in 1 .. m - 1 : text[i].stop}
<1>2. PICK from : from = (IF ends = {} THEN 0 ELSE Max(ends)) + 1
  OBVIOUS
<1>3. LastSentence(text) = SubSeq(text, from, m)
  BY <1>1, <1>2 DEF LastSentence
<1>4. ends \in SUBSET (0 .. m) /\ ends \subseteq 1 .. m - 1
  OBVIOUS
<1> HIDE DEF ends
<1>5. from \in Nat /\ 1 =< from /\ from =< m + 1
  <2>1. CASE ends = {}
    BY <1>2, <2>1
  <2>2. CASE ends # {}
    <3>1. Max(ends) \in 1 .. m - 1
      BY <1>4, <2>2, GreatestBelow
    <3> QED
      BY <1>2, <2>2, <3>1
  <2> QED
    BY <2>1, <2>2
<1>6. m =< Len(text)
  BY <1>1
<1>7. /\ SubSeq(text, from, m) \in Seq(V)
      /\ Range(SubSeq(text, from, m)) = {text[i] : i \in from .. m}
  <2>1. PICK a \in Nat : a = from
    BY <1>5
  <2>2. 1 =< a /\ a =< m + 1
    BY <1>5, <2>1
  <2>3. SubSeq(text, a, m) \in Seq(V) /\ Range(SubSeq(text, a, m)) = {text[i] : i \in a .. m}
    BY <1>6, <2>2, PieceFacts
  <2> QED
    BY <2>1, <2>3
<1>8. \A i \in from .. m : i \in 1 .. m
  BY <1>5
<1>9. \A i \in 1 .. m : text[i] \in Range(text)
  BY <1>1 DEF Range
<1> QED
  BY <1>3, <1>7, <1>8, <1>9

-----------------------------------------------------------------------------
(* Sections.                                                               *)

\* The state of the loops over paragraphs and sections.
Sects(V) == [out : Seq(Seq(V)), cur : Seq(Seq(V)), prev : Seq(V)]

\* Its fields,
LEMMA SectFields ==
    ASSUME NEW V, NEW acc \in Sects(V)
    PROVE  acc.out \in Seq(Seq(V)) /\ acc.cur \in Seq(Seq(V)) /\ acc.prev \in Seq(V)
BY DEF Sects

\* and what setting one of them changes.
LEMMA PutOut ==
    ASSUME NEW V, NEW acc \in Sects(V), NEW o \in Seq(Seq(V)), NEW d, d = [acc EXCEPT !.out = o]
    PROVE  d \in Sects(V) /\ d.out = o /\ d.cur = acc.cur /\ d.prev = acc.prev
BY DEF Sects

\* Setting the collected paragraphs.
LEMMA PutCur ==
    ASSUME NEW V, NEW acc \in Sects(V), NEW c \in Seq(Seq(V)), NEW d, d = [acc EXCEPT !.cur = c]
    PROVE  d \in Sects(V) /\ d.out = acc.out /\ d.cur = c /\ d.prev = acc.prev
BY DEF Sects

\* Setting the sentence to be repeated.
LEMMA PutPrev ==
    ASSUME NEW V, NEW acc \in Sects(V), NEW p \in Seq(V), NEW d, d = [acc EXCEPT !.prev = p]
    PROVE  d \in Sects(V) /\ d.out = acc.out /\ d.cur = acc.cur /\ d.prev = p
BY DEF Sects

\* The state after a flush to the chunks o and the collected paragraphs c.
Flushed(acc, o, c) == [acc EXCEPT !.out = o, !.cur = c]
IsFlushed(d, acc, o, c) == d.out = o /\ d.cur = c /\ d.prev = acc.prev

\* Setting both.
LEMMA PutOutCur ==
    ASSUME NEW V, NEW acc \in Sects(V), NEW o \in Seq(Seq(V)), NEW c \in Seq(Seq(V)),
           NEW d, d = Flushed(acc, o, c)
    PROVE  d \in Sects(V) /\ IsFlushed(d, acc, o, c)
BY DEF Sects, Flushed, IsFlushed

\* A state of the loop over paragraphs: what is collected is not yet in a chunk.
SectSound(acc, V) ==
    acc \in Sects(V) /\ NoCommon(Said(acc.out), Said(acc.cur)) /\ Carried(acc.out, acc.prev)

\* The text so far: the news of the chunks, then the collected paragraphs.
Told(acc) == Concat(News(acc.out)) \o Concat(acc.cur)

\* The sentences so far.
Heard(acc) == Said(acc.out) \cup Said(acc.cur)

\* Remembering the last sentence changes nothing of the text.
LEMMA RememberFacts ==
    ASSUME NEW V, NEW acc, SectSound(acc, V), NEW b, b = Remember(acc)
    PROVE  SectSound(b, V) /\ Told(b) = Told(acc) /\ Heard(b) = Heard(acc) /\ b.cur = acc.cur /\ b.out = acc.out
<1>1. acc \in Sects(V) /\ NoCommon(Said(acc.out), Said(acc.cur)) /\ Carried(acc.out, acc.prev)
  BY DEF SectSound
<1>2. CASE acc.out = <<>>
  <2>1. b = acc
    BY <1>2 DEF Remember
  <2> QED
    BY <2>1
<1>3. CASE acc.out # <<>>
  <2>1. PICK W : W = Seq(V)
    OBVIOUS
  <2>2. PICK o \in Seq(Seq(V)) : o = acc.out
    BY <1>1, SectFields
  <2>3. PICK l \in Seq(V) : l = Last(o)
    <3>1. o \in Seq(W) /\ o # <<>>
      BY <1>3, <2>1, <2>2
    <3>2. Last(o) \in W
      BY <3>1, LastFacts
    <3> QED
      BY <2>1, <3>2
  <2>4. PICK p \in Seq(V) : p = LastSentence(l) /\ Range(p) \subseteq Range(l)
    BY LastSentenceFacts
  <2>5. b = [acc EXCEPT !.prev = p]
    BY <1>3, <2>2, <2>3, <2>4 DEF Remember
  <2>6. b \in Sects(V) /\ b.out = acc.out /\ b.cur = acc.cur /\ b.prev = p
    BY <1>1, <2>5, PutPrev
  <2>7. Carried(b.out, b.prev)
    BY <1>3, <2>2, <2>3, <2>4, <2>6 DEF Carried
  <2> QED
    BY <1>1, <2>6, <2>7 DEF SectSound, Told, Heard
<1> QED
  BY <1>2, <1>3

\* A chunk that stands alone is all news.
LEMMA NewsOne ==
    ASSUME NEW V, NEW c \in Seq(V), NEW cs, cs = <<c>>
    PROVE  /\ cs \in Seq(Seq(V)) /\ cs # <<>> /\ Len(cs) = 1
           /\ Said(cs) = Range(c) /\ Concat(News(cs)) = c
<1>1. PICK e \in Seq(Seq(V)) : e = <<>>
  BY NoneOfNone
<1>2. cs = Append(e, c)
  BY <1>1
<1>3. cs \in Seq(Seq(V)) /\ cs # <<>> /\ Said(cs) = Said(e) \cup Range(c)
  <2>1. PICK d : d = Append(e, c)
    OBVIOUS
  <2>2. d \in Seq(Seq(V)) /\ d # <<>> /\ Said(d) = Said(e) \cup Range(c)
    BY <2>1, SaidMore
  <2> QED
    BY <1>2, <2>1, <2>2
<1>4. Said(e) = {}
  BY <1>1, SaidNothing
<1>5. Concat(News(cs)) = Concat(News(e)) \o c
  BY <1>1, <1>2, NewsAppend
<1>6. Concat(News(e)) = <<>>
  BY <1>1, NewsNone
<1>7. <<>> \o c = c
  BY ConcatEmptySeq
<1>8. Len(cs) = 1
  OBVIOUS
<1> QED
  BY <1>3, <1>4, <1>5, <1>6, <1>7, <1>8

\* flush moves the collected paragraphs to the chunks and leaves the text as
\* it is.
LEMMA FlushFacts ==
    ASSUME NEW V, NEW acc, SectSound(acc, V), NEW b, b = Flush(acc)
    PROVE  /\ SectSound(b, V) /\ Told(b) = Told(acc) /\ Heard(b) = Heard(acc) /\ b.cur = <<>>
           /\ (acc.cur # <<>> \/ acc.out # <<>>) => b.out # <<>>
<1>1. CASE acc.cur = <<>>
  <2>1. b = acc
    BY <1>1 DEF Flush
  <2> QED
    BY <1>1, <2>1
<1>2. CASE acc.cur # <<>>
  <2>1. acc \in Sects(V) /\ NoCommon(Said(acc.out), Said(acc.cur)) /\ Carried(acc.out, acc.prev)
    BY DEF SectSound
  <2>2. PICK out \in Seq(Seq(V)) : out = acc.out
    BY <2>1, SectFields
  <2>3. PICK cur \in Seq(Seq(V)) : cur = acc.cur
    BY <2>1, SectFields
  <2>4. PICK prev \in Seq(V) : prev = acc.prev
    BY <2>1, SectFields
  <2>5. PICK c \in Seq(V) : c = Concat(cur) /\ Range(c) = Said(cur)
    BY FlatFacts
  <2>6. PICK cs : cs = <<c>>
    OBVIOUS
  <2>7. /\ cs \in Seq(Seq(V)) /\ cs # <<>> /\ Len(cs) = 1
        /\ Said(cs) = Range(c) /\ Concat(News(cs)) = c
    BY <2>6, NewsOne
  <2>8. PICK all : all = Attach(out, prev, cs)
    OBVIOUS
  <2>9. Carried(out, prev) /\ NoCommon(Said(out), Said(cs))
    BY <2>1, <2>2, <2>3, <2>4, <2>5, <2>7
  <2>10. all \in Seq(Seq(V)) /\ AddsTo(all, out, prev, cs)
    <3>1. cs \in Seq(Seq(V)) /\ cs # <<>>
      BY <2>7
    <3> QED
      BY <2>8, <2>9, <3>1, AttachFacts
  <2>11. /\ all # <<>>
         /\ Concat(News(all)) = Concat(News(out)) \o Concat(News(cs))
         /\ Said(all) = Said(out) \cup Said(cs)
         /\ Len(cs) = 1 => Range(prev) \subseteq Range(Last(all))
    BY <2>10 DEF AddsTo
  <2>12. PICK e \in Seq(Seq(V)) : e = <<>>
    BY NoneOfNone
  <2>13. b = Flushed(acc, all, e)
    BY <1>2, <2>2, <2>3, <2>4, <2>5, <2>6, <2>8, <2>12 DEF Flush, Flushed
  <2>14. b \in Sects(V) /\ b.out = all /\ b.cur = e /\ b.prev = prev
    <3>1. acc \in Sects(V)
      BY <2>1
    <3>2. all \in Seq(Seq(V))
      BY <2>10
    <3>3. b \in Sects(V) /\ IsFlushed(b, acc, all, e)
      BY <2>13, <3>1, <3>2, PutOutCur
    <3> QED
      BY <2>4, <3>3 DEF IsFlushed
  <2>15. Carried(all, prev)
    BY <2>7, <2>11 DEF Carried
  <2>16. Said(e) = {} /\ Concat(e) = <<>>
    BY <2>12, SaidNothing, ConcatNone
  <2>17. PICK old \in Seq(V) : old = Concat(News(out))
    <3>1. News(out) \in Seq(Seq(V))
      BY NewsType
    <3> QED
      BY <3>1, FlatFacts
  <2>18. Told(b) = Told(acc)
    <3>1. PICK both \in Seq(V) : both = old \o c
      BY ConcatProperties
    <3>2. both \o <<>> = both
      BY ConcatEmptySeq
    <3>3. Concat(News(b.out)) = both /\ Concat(b.cur) = <<>>
      BY <2>7, <2>11, <2>14, <2>16, <2>17, <3>1
    <3>4. Told(b) = both
      BY <3>2, <3>3 DEF Told
    <3>5. Told(acc) = both
      BY <2>2, <2>3, <2>5, <2>17, <3>1 DEF Told
    <3> QED
      BY <3>4, <3>5
  <2>19. Heard(b) = Heard(acc) /\ NoCommon(Said(b.out), Said(b.cur))
    BY <2>2, <2>3, <2>5, <2>7, <2>11, <2>14, <2>16 DEF Heard, NoCommon
  <2> QED
    BY <2>11, <2>12, <2>14, <2>15, <2>18, <2>19 DEF SectSound
<1> QED
  BY <1>1, <1>2

\* The windows of a long paragraph.
WholeWindows(para) == Windows(para, Target, TRUE, 0)

\* The windows ws give back the paragraph.
Gives(ws, para) == ws # <<>> /\ Said(ws) \subseteq Range(para) /\ Concat(News(ws)) = para

\* The windows of a paragraph give it back.
LEMMA WholeWindowsFacts ==
    ASSUME NEW V, NEW para \in Seq(V), IsInjective(para), NEW ws, ws = WholeWindows(para)
    PROVE  ws \in Seq(Seq(V)) /\ Gives(ws, para)
BY WindowsCover DEF WholeWindows, Gives

\* Windows are chunks, at least one.
LEMMA WholeWindowsType ==
    ASSUME NEW V, NEW s \in Seq(V)
    PROVE  WholeWindows(s) \in Seq(Seq(V)) /\ WholeWindows(s) # <<>>
<1>1. PICK n \in Nat : n = Len(s)
  OBVIOUS
<1>2. \A i \in 1 .. n : s[i] \in V
  BY <1>1
<1>3. PICK f : /\ f[0] = NothingCut /\ WholeCut(s, Target) = f[n]
               /\ \A i \in 1 .. n : f[i] = WholeAdd(f[i - 1], s[i], Target)
  BY <1>1, WholeLoop
<1> DEFINE T == {i \in 0 .. n : f[i] \in Cuts(V)}
<1>4. 0 \in T
  <2>1. NothingCut \in Cuts(V)
    BY DEF Cuts, NothingCut
  <2> QED
    BY <1>3, <2>1
<1>5. \A i \in 1 .. n : i - 1 \in T => i \in T
  <2> SUFFICES ASSUME NEW i \in 1 .. n, i - 1 \in T PROVE f[i] \in Cuts(V)
    OBVIOUS
  <2>1. PICK acc \in Cuts(V), x \in V : acc = f[i - 1] /\ x = s[i]
    BY <1>2
  <2>2. WholeAdd(acc, x, Target) \in Cuts(V)
    BY WholeType
  <2> QED
    BY <1>3, <2>1, <2>2
<1> HIDE DEF T
<1>6. n \in T
  BY <1>4, <1>5, UpToEnd
<1>7. PICK acc \in Cuts(V) : acc = f[n]
  BY <1>6 DEF T
<1>8. acc.out \in Seq(Seq(V)) /\ acc.cur \in Seq(V)
  BY DEF Cuts
<1>9. Chunks(acc) \in Seq(Seq(V)) /\ Chunks(acc) # <<>>
  BY <1>8, SaidMore DEF Chunks
<1> QED
  BY <1>3, <1>7, <1>9 DEF WholeWindows, Windows, WholeCut

\* Attached chunks are chunks.
LEMMA AttachType ==
    ASSUME NEW V, NEW out \in Seq(Seq(V)), NEW prev \in Seq(V), NEW cs \in Seq(Seq(V)), cs # <<>>
    PROVE  Attach(out, prev, cs) \in Seq(Seq(V))
<1>1. PICK W : W = Seq(V)
  OBVIOUS
<1>2. PICK ds : ds = [cs EXCEPT ![1] = Overlapped(prev, @)]
  OBVIOUS
<1>3. Len(cs) \in Nat /\ Len(cs) # 0
  BY EmptyIsNone
<1>4. PICK c \in Seq(V) : c = cs[1]
  BY <1>3
<1>5. PICK o \in W : o = Overlapped(prev, c)
  <2>1. prev \o c \in Seq(V)
    BY ConcatProperties
  <2>2. Overlapped(prev, c) = c \/ Overlapped(prev, c) = prev \o c
    BY DEF Overlapped
  <2> QED
    BY <1>1, <2>1, <2>2
<1>6. ds = [cs EXCEPT ![1] = o]
  BY <1>2, <1>4, <1>5
<1>7. ds \in Seq(W) /\ out \in Seq(W)
  <2>1. cs \in Seq(W)
    BY <1>1
  <2> QED
    BY <1>1, <1>6, <2>1, FirstChanged
<1>8. out \o ds \in Seq(W)
  BY <1>7, ConcatProperties
<1> QED
  BY <1>1, <1>2, <1>8 DEF Attach

\* flush, prevLast and the three ways to take a paragraph keep the type of the
\* state.
LEMMA FlushType ==
    ASSUME NEW V, NEW acc \in Sects(V)
    PROVE  Flush(acc) \in Sects(V)
<1>1. CASE acc.cur = <<>>
  BY <1>1 DEF Flush
<1>2. CASE acc.cur # <<>>
  <2>1. PICK out \in Seq(Seq(V)) : out = acc.out
    BY SectFields
  <2>2. PICK cur \in Seq(Seq(V)) : cur = acc.cur
    BY SectFields
  <2>3. PICK prev \in Seq(V) : prev = acc.prev
    BY SectFields
  <2>4. PICK c \in Seq(V) : c = Concat(cur)
    BY FlatFacts
  <2>5. PICK cs : cs = <<c>>
    OBVIOUS
  <2>6. cs \in Seq(Seq(V)) /\ cs # <<>>
    BY <2>5, NewsOne
  <2>7. PICK all \in Seq(Seq(V)) : all = Attach(out, prev, cs)
    BY <2>6, AttachType
  <2>8. PICK e \in Seq(Seq(V)) : e = <<>>
    BY NoneOfNone
  <2>9. Flush(acc) = Flushed(acc, all, e)
    BY <1>2, <2>1, <2>2, <2>3, <2>4, <2>5, <2>7, <2>8 DEF Flush, Flushed
  <2>10. Flushed(acc, all, e) \in Sects(V)
    BY PutOutCur
  <2> QED
    BY <2>9, <2>10
<1> QED
  BY <1>1, <1>2

\* prevLast keeps it.
LEMMA RememberType ==
    ASSUME NEW V, NEW acc \in Sects(V)
    PROVE  Remember(acc) \in Sects(V)
<1>1. CASE acc.out = <<>>
  BY <1>1 DEF Remember
<1>2. CASE acc.out # <<>>
  <2>1. PICK W : W = Seq(V)
    OBVIOUS
  <2>2. acc.out \in Seq(Seq(V))
    BY SectFields
  <2>3. acc.out \in Seq(W)
    BY <2>1, <2>2
  <2>4. PICK l \in Seq(V) : l = Last(acc.out)
    BY <1>2, <2>1, <2>3, LastFacts
  <2>5. PICK p \in Seq(V) : p = LastSentence(l)
    BY LastSentenceFacts
  <2>6. Remember(acc) = [acc EXCEPT !.prev = p]
    BY <1>2, <2>4, <2>5 DEF Remember
  <2> QED
    BY <2>6, PutPrev
<1> QED
  BY <1>1, <1>2

\* A long paragraph keeps it.
LEMMA AddLongType ==
    ASSUME NEW V, NEW acc \in Sects(V), NEW para \in Seq(V)
    PROVE  AddLong(acc, para) \in Sects(V)
<1>1. PICK out \in Seq(Seq(V)) : out = acc.out
  BY SectFields
<1>2. PICK prev \in Seq(V) : prev = acc.prev
  BY SectFields
<1>3. PICK ws \in Seq(Seq(V)) : ws = WholeWindows(para) /\ ws # <<>>
  BY WholeWindowsType
<1>4. PICK all \in Seq(Seq(V)) : all = Attach(out, prev, ws)
  BY <1>3, AttachType
<1>5. PICK d : d = [acc EXCEPT !.out = all]
  OBVIOUS
<1>6. d \in Sects(V)
  BY <1>5, PutOut
<1>7. AddLong(acc, para) = Remember(d)
  BY <1>1, <1>2, <1>3, <1>4, <1>5 DEF AddLong, WholeWindows
<1> QED
  BY <1>6, <1>7, RememberType

\* A collected paragraph keeps it.
LEMMA CollectType ==
    ASSUME NEW V, NEW acc \in Sects(V), NEW para \in Seq(V)
    PROVE  Collect(acc, para) \in Sects(V)
<1>1. PICK cur \in Seq(Seq(V)) : cur = acc.cur
  BY SectFields
<1>2. PICK c \in Seq(Seq(V)) : c = Append(cur, para)
  BY SaidMore
<1>3. Collect(acc, para) = [acc EXCEPT !.cur = c]
  BY <1>1, <1>2 DEF Collect
<1> QED
  BY <1>3, PutCur

\* The loop body keeps it.
LEMMA AddParaType ==
    ASSUME NEW V, NEW acc \in Sects(V), NEW para \in Seq(V)
    PROVE  AddPara(acc, para) \in Sects(V)
<1>1. AddLong(Flush(acc), para) \in Sects(V)
  BY FlushType, AddLongType
<1>2. Collect(acc, para) \in Sects(V)
  BY CollectType
<1>3. Collect(Remember(Flush(acc)), para) \in Sects(V)
  BY FlushType, RememberType, CollectType
<1> QED
  BY <1>1, <1>2, <1>3 DEF AddPara

\* The loops start in a state of that type.
LEMMA NoChunkType == \A V : NoChunk \in Sects(V)
BY NothingIsSeq, NoneOfNone DEF NoChunk, Sects

\* chunkSection takes one paragraph a turn.
LEMMA SectioningLoop ==
    ASSUME NEW V, NEW s \in Seq(Seq(V))
    PROVE  \E f : /\ f[0] = NoChunk /\ Sectioning(s) = f[Len(s)]
                 /\ \A i \in 1 .. Len(s) : f[i] = AddPara(f[i - 1], s[i])
<1> DEFINE step(x, i) == AddPara(x, s[i])
<1>1. PICK nn, bb, SS : nn = Len(s) /\ bb = NoChunk /\ SS = Sects(V)
  OBVIOUS
<1> DEFINE loop(f) == f = [i \in 0 .. nn |-> IF i = 0 THEN bb ELSE step(f[i - 1], i)]
<1>2. nn \in Nat /\ bb \in SS
  BY <1>1, NoChunkType
<1>3. \A x \in SS, i \in 1 .. nn : step(x, i) \in SS
  BY <1>1, AddParaType
<1>4. Sectioning(s) = (CHOOSE f : loop(f))[nn]
  BY <1>1 DEF Sectioning, LeftFold
<1> HIDE DEF step
<1>5. PICK G : AreTurns(G, nn, SS) /\ \A i \in 1 .. nn, x \in SS : G[i][x] = step(x, i)
  <2> DEFINE H == [i \in 1 .. nn |-> [x \in SS |-> step(x, i)]]
  <2>1. AreTurns(H, nn, SS) /\ \A i \in 1 .. nn, x \in SS : H[i][x] = step(x, i)
    BY <1>3 DEF AreTurns
  <2> HIDE DEF H
  <2> QED
    BY <2>1
<1>6. PICK g : IsLoop(g, nn, SS, bb, G)
  BY <1>2, <1>5, LoopExists
<1>7. loop(g)
  <2>1. \A i \in 1 .. nn : g[i - 1] \in SS /\ g[i] = step(g[i - 1], i)
    BY <1>2, <1>5, <1>6 DEF IsLoop
  <2>2. \A i \in 0 .. nn : g[i] = IF i = 0 THEN bb ELSE step(g[i - 1], i)
    BY <1>2, <1>6, <2>1 DEF IsLoop
  <2> QED
    BY <1>6, <2>2 DEF IsLoop
<1>8. PICK f : loop(f) /\ Sectioning(s) = f[nn]
  <2> HIDE DEF loop
  <2> QED
    BY <1>4, <1>7
<1>9. f[0] = bb /\ \A i \in 1 .. nn : f[i] = step(f[i - 1], i)
  BY <1>2, <1>8
<1> QED
  BY <1>1, <1>8, <1>9 DEF step

\* A paragraph is told after what was told, and nothing else is.
Grows(b, acc, para) ==
    /\ Told(b) = Told(acc) \o para /\ Heard(b) \subseteq Heard(acc) \cup Range(para)
    /\ b.out # <<>> \/ b.cur # <<>>

\* Collecting a new paragraph adds it to the text.
LEMMA CollectFacts ==
    ASSUME NEW V, NEW acc, SectSound(acc, V), NEW para \in Seq(V), NoCommon(Range(para), Heard(acc)),
           NEW b, b = Collect(acc, para)
    PROVE  SectSound(b, V) /\ Grows(b, acc, para)
<1>1. acc \in Sects(V) /\ NoCommon(Said(acc.out), Said(acc.cur)) /\ Carried(acc.out, acc.prev)
  BY DEF SectSound
<1>2. PICK out \in Seq(Seq(V)) : out = acc.out
  BY <1>1, SectFields
<1>3. PICK cur \in Seq(Seq(V)) : cur = acc.cur
  BY <1>1, SectFields
<1>4. PICK c \in Seq(Seq(V)) : c = Append(cur, para) /\ c # <<>> /\ Said(c) = Said(cur) \cup Range(para)
  BY SaidMore
<1>5. b = [acc EXCEPT !.cur = c]
  BY <1>3, <1>4 DEF Collect
<1>6. b \in Sects(V) /\ b.out = acc.out /\ b.cur = c /\ b.prev = acc.prev
  BY <1>1, <1>5, PutCur
<1>7. PICK old \in Seq(V) : old = Concat(News(out))
  <2>1. News(out) \in Seq(Seq(V))
    BY NewsType
  <2> QED
    BY <2>1, FlatFacts
<1>8. PICK mid \in Seq(V) : mid = Concat(cur)
  BY FlatFacts
<1>9. Concat(c) = mid \o para
  BY <1>4, <1>8, ConcatAppend
<1>10. old \o (mid \o para) = (old \o mid) \o para
  BY JoinThree, SMTT(60)
<1>11. Told(acc) = old \o mid
  BY <1>2, <1>3, <1>7, <1>8 DEF Told
<1>12. Told(b) = old \o (mid \o para)
  BY <1>2, <1>6, <1>7, <1>9 DEF Told
<1>13. Told(b) = Told(acc) \o para
  BY <1>10, <1>11, <1>12
<1>14. Heard(b) = Heard(acc) \cup Range(para) /\ NoCommon(Said(b.out), Said(b.cur))
  BY <1>1, <1>2, <1>3, <1>4, <1>6 DEF Heard, NoCommon
<1> QED
  BY <1>1, <1>4, <1>6, <1>13, <1>14 DEF SectSound, Grows

\* Attaching chunks and remembering the last sentence.
WithChunks(acc, ws) == Remember([acc EXCEPT !.out = Attach(@, acc.prev, ws)])

\* Attaching chunks that give back a new paragraph adds it to the text.
LEMMA AddedChunks ==
    ASSUME NEW V, NEW acc, SectSound(acc, V), acc.cur = <<>>, NEW para \in Seq(V),
           NoCommon(Range(para), Heard(acc)), NEW ws \in Seq(Seq(V)), Gives(ws, para),
           NEW b, b = WithChunks(acc, ws)
    PROVE  SectSound(b, V) /\ Grows(b, acc, para) /\ b.cur = <<>> /\ b.out # <<>>
<1>1. acc \in Sects(V) /\ Carried(acc.out, acc.prev)
  BY DEF SectSound
<1>2. PICK out \in Seq(Seq(V)) : out = acc.out
  BY <1>1, SectFields
<1>3. PICK prev \in Seq(V) : prev = acc.prev
  BY <1>1, SectFields
<1>4. ws # <<>> /\ Said(ws) \subseteq Range(para) /\ Concat(News(ws)) = para
  BY DEF Gives
<1>5. PICK all : all = Attach(out, prev, ws)
  OBVIOUS
<1>6. Carried(out, prev) /\ NoCommon(Said(out), Said(ws))
  BY <1>1, <1>2, <1>3, <1>4 DEF Heard, NoCommon
<1>7. all \in Seq(Seq(V)) /\ AddsTo(all, out, prev, ws)
  BY <1>4, <1>5, <1>6, AttachFacts
<1>8. all # <<>> /\ Said(all) = Said(out) \cup Said(ws) /\ Concat(News(all)) = Concat(News(out)) \o para
  BY <1>4, <1>7 DEF AddsTo
<1>9. PICK d : d = [acc EXCEPT !.out = all]
  OBVIOUS
<1>10. d \in Sects(V) /\ d.out = all /\ d.cur = acc.cur /\ d.prev = acc.prev
  BY <1>1, <1>7, <1>9, PutOut
<1>11. b = Remember(d)
  BY <1>2, <1>3, <1>5, <1>9 DEF WithChunks
<1>12. PICK W : W = Seq(V)
  OBVIOUS
<1>13. PICK l \in Seq(V) : l = Last(all)
  <2>1. all \in Seq(W) /\ all # <<>>
    BY <1>7, <1>8, <1>12
  <2> QED
    BY <1>12, <2>1, LastFacts
<1>14. PICK p \in Seq(V) : p = LastSentence(l) /\ Range(p) \subseteq Range(l)
  BY LastSentenceFacts
<1>15. b = [d EXCEPT !.prev = p]
  BY <1>8, <1>10, <1>11, <1>13, <1>14 DEF Remember
<1>16. b \in Sects(V) /\ b.out = d.out /\ b.cur = d.cur /\ b.prev = p
  <2>1. d \in Sects(V)
    BY <1>10
  <2> QED
    BY <1>15, <2>1, PutPrev
<1>17. Carried(b.out, b.prev)
  BY <1>8, <1>10, <1>13, <1>14, <1>16 DEF Carried
<1>18. Said(b.cur) = {} /\ Concat(b.cur) = <<>> /\ Said(acc.cur) = {} /\ Concat(acc.cur) = <<>>
  BY <1>10, <1>16, SaidNothing, ConcatNone
<1>19. Told(b) = Told(acc) \o para
  <2>1. News(out) \in Seq(Seq(V))
    BY NewsType
  <2>2. PICK old \in Seq(V) : old = Concat(News(out))
    BY <2>1, FlatFacts
  <2>3. PICK new \in Seq(V) : new = old \o para
    BY ConcatProperties
  <2>4. Concat(News(b.out)) = new
    BY <1>8, <1>10, <1>16, <2>2, <2>3
  <2>5. new \o <<>> = new /\ old \o <<>> = old
    BY ConcatEmptySeq
  <2>6. Told(b) = new
    BY <1>18, <2>4, <2>5 DEF Told
  <2>7. Told(acc) = old
    BY <1>2, <1>18, <2>2, <2>5 DEF Told
  <2> QED
    BY <2>3, <2>6, <2>7
<1>20. Heard(b) \subseteq Heard(acc) \cup Range(para) /\ NoCommon(Said(b.out), Said(b.cur))
  BY <1>2, <1>4, <1>8, <1>10, <1>16, <1>18 DEF Heard, NoCommon
<1>21. b.out # <<>>
  BY <1>8, <1>10, <1>16
<1>22. b.cur = <<>>
  BY <1>10, <1>16
<1> QED
  BY <1>16, <1>17, <1>19, <1>20, <1>21, <1>22 DEF SectSound, Grows

\* So does cutting a long paragraph into windows.
LEMMA AddLongFacts ==
    ASSUME NEW V, NEW acc, SectSound(acc, V), acc.cur = <<>>, NEW para \in Seq(V), IsInjective(para),
           NoCommon(Range(para), Heard(acc)), NEW b, b = AddLong(acc, para)
    PROVE  SectSound(b, V) /\ Grows(b, acc, para)
<1>1. PICK ws : ws = WholeWindows(para)
  OBVIOUS
<1>2. ws \in Seq(Seq(V)) /\ Gives(ws, para)
  BY <1>1, WholeWindowsFacts
<1>3. b = WithChunks(acc, ws)
  BY <1>1 DEF AddLong, WholeWindows, WithChunks
<1> QED
  BY <1>2, <1>3, AddedChunks

\* A turn of chunkSection adds its paragraph to the text, whichever way it
\* takes.
LEMMA AddParaFacts ==
    ASSUME NEW V, NEW acc, SectSound(acc, V), NEW para \in Seq(V), IsInjective(para),
           NoCommon(Range(para), Heard(acc)), NEW b, b = AddPara(acc, para)
    PROVE  SectSound(b, V) /\ Grows(b, acc, para)
<1>1. PICK d : d = Flush(acc)
  OBVIOUS
<1>2. SectSound(d, V) /\ Told(d) = Told(acc) /\ Heard(d) = Heard(acc) /\ d.cur = <<>>
  BY <1>1, FlushFacts
<1>3. PICK e : e = Remember(d)
  OBVIOUS
<1>4. SectSound(e, V) /\ Told(e) = Told(acc) /\ Heard(e) = Heard(acc)
  BY <1>2, <1>3, RememberFacts
<1>5. CASE b = AddLong(d, para)
  <2>1. NoCommon(Range(para), Heard(d))
    BY <1>2
  <2>2. SectSound(b, V) /\ Grows(b, d, para)
    BY <1>2, <1>5, <2>1, AddLongFacts
  <2> QED
    BY <1>2, <2>2 DEF Grows
<1>6. CASE b = Collect(acc, para)
  BY <1>6, CollectFacts
<1>7. CASE b = Collect(e, para)
  <2>1. NoCommon(Range(para), Heard(e))
    BY <1>4
  <2>2. SectSound(b, V) /\ Grows(b, e, para)
    BY <1>4, <1>7, <2>1, CollectFacts
  <2> QED
    BY <1>4, <2>2 DEF Grows
<1> QED
  BY <1>1, <1>3, <1>5, <1>6, <1>7 DEF AddPara

\* No sentence stands twice in the paragraphs.
AllNew(paras) ==
    \A i \in 1 .. Len(paras) :
        IsInjective(paras[i]) /\ NoCommon(Range(paras[i]), Said(SubSeq(paras, 1, i - 1)))

\* The chunks give back the paragraphs.
Renders(cs, paras) ==
    /\ Concat(News(cs)) = Concat(paras) /\ Said(cs) \subseteq Said(paras)
    /\ cs = <<>> => paras = <<>>

\* At the start nothing is told.
LEMMA NoChunkSound ==
    ASSUME NEW V, NEW acc, acc = NoChunk
    PROVE  /\ SectSound(acc, V) /\ Told(acc) = <<>> /\ Heard(acc) = {}
           /\ acc.cur = <<>> /\ acc.out = <<>>
<1>1. acc \in Sects(V)
  BY NoChunkType
<1>2. acc.cur = <<>> /\ acc.out = <<>> /\ acc.prev = <<>>
  BY DEF NoChunk
<1>3. Carried(acc.out, acc.prev)
  BY <1>2 DEF Carried
<1>4. Said(acc.out) = {} /\ Said(acc.cur) = {}
  BY <1>2, SaidNothing
<1>5. Concat(News(acc.out)) = <<>> /\ Concat(acc.cur) = <<>>
  BY <1>2, NewsNone, ConcatNone
<1>6. PICK e \in Seq(V) : e = <<>>
  BY NothingIsSeq
<1>7. e \o e = e
  BY <1>6, ConcatEmptySeq
<1>8. Told(acc) = <<>>
  BY <1>5, <1>6, <1>7 DEF Told
<1> QED
  BY <1>1, <1>2, <1>3, <1>4, <1>8 DEF SectSound, Heard, NoCommon

\* What the loop over the paragraphs has told after some of them.
Tells(acc, paras, V) ==
    /\ SectSound(acc, V) /\ Told(acc) = Concat(paras) /\ Heard(acc) \subseteq Said(paras)
    /\ paras # <<>> => acc.out # <<>> \/ acc.cur # <<>>

\* After one paragraph more the text is one paragraph longer.
LEMMA ParaTold ==
    ASSUME NEW V, NEW paras \in Seq(Seq(V)), NEW x \in Seq(V), NEW acc, Tells(acc, paras, V),
           IsInjective(x), NoCommon(Range(x), Said(paras)), NEW b, b = AddPara(acc, x),
           NEW more, more = Append(paras, x)
    PROVE  Tells(b, more, V)
<1>1. SectSound(acc, V) /\ Told(acc) = Concat(paras) /\ Heard(acc) \subseteq Said(paras)
  BY DEF Tells
<1>2. NoCommon(Range(x), Heard(acc))
  BY <1>1 DEF NoCommon
<1>3. SectSound(b, V) /\ Grows(b, acc, x)
  BY <1>1, <1>2, AddParaFacts
<1>4. Said(more) = Said(paras) \cup Range(x)
  BY SaidMore
<1>5. Concat(more) = Concat(paras) \o x
  BY ConcatAppend
<1>6. Told(b) = Concat(more) /\ Heard(b) \subseteq Said(more) /\ (b.out # <<>> \/ b.cur # <<>>)
  BY <1>1, <1>3, <1>4, <1>5 DEF Grows
<1> QED
  BY <1>3, <1>6 DEF Tells

\* After all turns the text is the section.
LEMMA SectioningTells ==
    ASSUME NEW V, NEW paras \in Seq(Seq(V)), AllNew(paras)
    PROVE  Tells(Sectioning(paras), paras, V)
<1>1. PICK W : W = Seq(V)
  OBVIOUS
<1>2. PICK n \in Nat : n = Len(paras)
  OBVIOUS
<1>3. PICK f : /\ f[0] = NoChunk /\ Sectioning(paras) = f[n]
               /\ \A i \in 1 .. n : f[i] = AddPara(f[i - 1], paras[i])
  BY <1>2, SectioningLoop
<1> DEFINE T == {i \in 0 .. n : Tells(f[i], SubSeq(paras, 1, i), V)}
<1>4. 0 \in T
  <2>1. PICK e : e = SubSeq(paras, 1, 0)
    OBVIOUS
  <2>2. e = <<>>
    BY <2>1, EmptyPrefix
  <2>3. Concat(e) = <<>> /\ Said(e) = {}
    BY <2>2, ConcatNone, SaidNothing
  <2>4. SectSound(f[0], V) /\ Told(f[0]) = <<>> /\ Heard(f[0]) = {}
    BY <1>3, NoChunkSound
  <2>5. Tells(f[0], e, V)
    BY <2>2, <2>3, <2>4 DEF Tells
  <2> QED
    BY <2>1, <2>5
<1>5. \A i \in 1 .. n : i - 1 \in T => i \in T
  <2> SUFFICES ASSUME NEW i \in 1 .. n, Tells(f[i - 1], SubSeq(paras, 1, i - 1), V)
               PROVE  Tells(f[i], SubSeq(paras, 1, i), V)
    OBVIOUS
  <2>1. i \in 1 .. Len(paras) /\ paras \in Seq(W)
    BY <1>1, <1>2
  <2>2. PICK x \in Seq(V) : x = paras[i]
    BY <1>1, <2>1
  <2>3. PICK q \in Seq(Seq(V)) : q = SubSeq(paras, 1, i - 1)
    BY <1>1, <2>1, PrefixGrows
  <2>4. PICK more : more = SubSeq(paras, 1, i)
    OBVIOUS
  <2>5. more = Append(q, x)
    BY <2>1, <2>2, <2>3, <2>4, PrefixGrows
  <2>6. IsInjective(x) /\ NoCommon(Range(x), Said(q))
    BY <2>1, <2>2, <2>3 DEF AllNew
  <2>7. PICK acc, b : acc = f[i - 1] /\ b = f[i]
    OBVIOUS
  <2>8. Tells(acc, q, V) /\ b = AddPara(acc, x)
    BY <1>3, <2>2, <2>3, <2>7
  <2>9. Tells(b, more, V)
    BY <2>5, <2>6, <2>8, ParaTold
  <2> QED
    BY <2>4, <2>7, <2>9
<1> HIDE DEF T
<1>6. n \in T
  BY <1>4, <1>5, UpToEnd
<1>7. SubSeq(paras, 1, n) = paras
  <2>1. paras \in Seq(W)
    BY <1>1
  <2> QED
    BY <1>2, <2>1, SubSeqFull
<1> QED
  BY <1>3, <1>6, <1>7 DEF T

\* chunkSection returns chunks.
LEMMA SectionType ==
    ASSUME NEW V, NEW paras \in Seq(Seq(V))
    PROVE  ChunkSection(paras) \in Seq(Seq(V))
<1>1. PICK W : W = Seq(V)
  OBVIOUS
<1>2. PICK n \in Nat : n = Len(paras)
  OBVIOUS
<1>3. PICK f : /\ f[0] = NoChunk /\ Sectioning(paras) = f[n]
               /\ \A i \in 1 .. n : f[i] = AddPara(f[i - 1], paras[i])
  BY <1>2, SectioningLoop
<1> DEFINE T == {i \in 0 .. n : f[i] \in Sects(V)}
<1>4. 0 \in T
  BY <1>3, NoChunkType
<1>5. \A i \in 1 .. n : i - 1 \in T => i \in T
  <2> SUFFICES ASSUME NEW i \in 1 .. n, f[i - 1] \in Sects(V) PROVE f[i] \in Sects(V)
    OBVIOUS
  <2>1. PICK x \in Seq(V) : x = paras[i]
    BY <1>2
  <2>2. PICK acc \in Sects(V) : acc = f[i - 1]
    OBVIOUS
  <2>3. AddPara(acc, x) \in Sects(V)
    BY AddParaType
  <2> QED
    BY <1>3, <2>1, <2>2, <2>3
<1> HIDE DEF T
<1>6. n \in T
  BY <1>4, <1>5, UpToEnd
<1>7. Sectioning(paras) \in Sects(V)
  BY <1>3, <1>6 DEF T
<1>8. Flush(Sectioning(paras)) \in Sects(V)
  BY <1>7, FlushType
<1> QED
  BY <1>8, SectFields DEF ChunkSection

\* The chunks of a section give it back.
LEMMA SectionCovers ==
    ASSUME NEW V, NEW paras \in Seq(Seq(V)), AllNew(paras), NEW cs, cs = ChunkSection(paras)
    PROVE  cs \in Seq(Seq(V)) /\ Renders(cs, paras)
<1>1. PICK acc : acc = Sectioning(paras)
  OBVIOUS
<1>2. Tells(acc, paras, V)
  BY <1>1, SectioningTells
<1>3. /\ SectSound(acc, V) /\ Told(acc) = Concat(paras) /\ Heard(acc) \subseteq Said(paras)
      /\ paras # <<>> => acc.out # <<>> \/ acc.cur # <<>>
  BY <1>2 DEF Tells
<1>4. PICK b : b = Flush(acc)
  OBVIOUS
<1>5. /\ SectSound(b, V) /\ Told(b) = Told(acc) /\ Heard(b) = Heard(acc) /\ b.cur = <<>>
      /\ (acc.cur # <<>> \/ acc.out # <<>>) => b.out # <<>>
  <2>1. SectSound(acc, V)
    BY <1>3
  <2> QED
    BY <1>4, <2>1, FlushFacts
<1>6. cs = b.out
  BY <1>1, <1>4 DEF ChunkSection
<1>7. cs \in Seq(Seq(V))
  BY SectionType
<1>8. Told(b) = Concat(News(cs))
  <2>1. News(cs) \in Seq(Seq(V))
    BY <1>7, NewsType
  <2>2. PICK old \in Seq(V) : old = Concat(News(cs))
    BY <2>1, FlatFacts
  <2>3. old \o <<>> = old
    BY ConcatEmptySeq
  <2>4. Concat(b.cur) = <<>>
    BY <1>5, ConcatNone
  <2> QED
    BY <1>6, <2>2, <2>3, <2>4 DEF Told
<1>9. Said(cs) \subseteq Said(paras)
  BY <1>3, <1>5, <1>6 DEF Heard
<1> QED
  BY <1>3, <1>5, <1>6, <1>7, <1>8, <1>9 DEF Renders

-----------------------------------------------------------------------------
(* Documents.                                                              *)

\* The state after the sections secs.
Sectioned(secs) == LeftFold(AddSection, NoChunk, secs)

\* No sentence stands twice in the sections.
AllFresh(secs) ==
    \A i \in 1 .. Len(secs) :
        AllNew(secs[i]) /\ NoCommon(Said(secs[i]), Said(Concat(SubSeq(secs, 1, i - 1))))

\* Attaching chunks keeps the type of the state.
LEMMA WithChunksType ==
    ASSUME NEW V, NEW acc \in Sects(V), NEW ws \in Seq(Seq(V)), ws # <<>>
    PROVE  WithChunks(acc, ws) \in Sects(V)
<1>1. PICK out \in Seq(Seq(V)) : out = acc.out
  BY SectFields
<1>2. PICK prev \in Seq(V) : prev = acc.prev
  BY SectFields
<1>3. PICK all \in Seq(Seq(V)) : all = Attach(out, prev, ws)
  BY AttachType
<1>4. PICK d : d = [acc EXCEPT !.out = all]
  OBVIOUS
<1>5. d \in Sects(V)
  BY <1>4, PutOut
<1>6. WithChunks(acc, ws) = Remember(d)
  BY <1>1, <1>2, <1>3, <1>4 DEF WithChunks
<1> QED
  BY <1>5, <1>6, RememberType

\* A turn of ChunkDocument keeps it.
LEMMA AddSectionType ==
    ASSUME NEW V, NEW acc \in Sects(V), NEW paras \in Seq(Seq(V))
    PROVE  AddSection(acc, paras) \in Sects(V)
<1>1. PICK cs \in Seq(Seq(V)) : cs = ChunkSection(paras)
  BY SectionType
<1>2. CASE cs = <<>>
  BY <1>1, <1>2 DEF AddSection
<1>3. CASE cs # <<>>
  <2>1. WithChunks(acc, cs) \in Sects(V)
    BY <1>3, WithChunksType
  <2>2. AddSection(acc, paras) = WithChunks(acc, cs)
    BY <1>1, <1>3 DEF AddSection, WithChunks
  <2> QED
    BY <2>1, <2>2
<1> QED
  BY <1>2, <1>3

\* ChunkDocument takes one section a turn.
LEMMA SectionedLoop ==
    ASSUME NEW V, NEW s \in Seq(Seq(Seq(V)))
    PROVE  \E f : /\ f[0] = NoChunk /\ Sectioned(s) = f[Len(s)]
                 /\ \A i \in 1 .. Len(s) : f[i] = AddSection(f[i - 1], s[i])
<1> DEFINE step(x, i) == AddSection(x, s[i])
<1>1. PICK nn, bb, SS : nn = Len(s) /\ bb = NoChunk /\ SS = Sects(V)
  OBVIOUS
<1> DEFINE loop(f) == f = [i \in 0 .. nn |-> IF i = 0 THEN bb ELSE step(f[i - 1], i)]
<1>2. nn \in Nat /\ bb \in SS
  BY <1>1, NoChunkType
<1>3. \A x \in SS, i \in 1 .. nn : step(x, i) \in SS
  BY <1>1, AddSectionType
<1>4. Sectioned(s) = (CHOOSE f : loop(f))[nn]
  BY <1>1 DEF Sectioned, LeftFold
<1> HIDE DEF step
<1>5. PICK G : AreTurns(G, nn, SS) /\ \A i \in 1 .. nn, x \in SS : G[i][x] = step(x, i)
  <2> DEFINE H == [i \in 1 .. nn |-> [x \in SS |-> step(x, i)]]
  <2>1. AreTurns(H, nn, SS) /\ \A i \in 1 .. nn, x \in SS : H[i][x] = step(x, i)
    BY <1>3 DEF AreTurns
  <2> HIDE DEF H
  <2> QED
    BY <2>1
<1>6. PICK g : IsLoop(g, nn, SS, bb, G)
  BY <1>2, <1>5, LoopExists
<1>7. loop(g)
  <2>1. \A i \in 1 .. nn : g[i - 1] \in SS /\ g[i] = step(g[i - 1], i)
    BY <1>2, <1>5, <1>6 DEF IsLoop
  <2>2. \A i \in 0 .. nn : g[i] = IF i = 0 THEN bb ELSE step(g[i - 1], i)
    BY <1>2, <1>6, <2>1 DEF IsLoop
  <2> QED
    BY <1>6, <2>2 DEF IsLoop
<1>8. PICK f : loop(f) /\ Sectioned(s) = f[nn]
  <2> HIDE DEF loop
  <2> QED
    BY <1>4, <1>7
<1>9. f[0] = bb /\ \A i \in 1 .. nn : f[i] = step(f[i - 1], i)
  BY <1>2, <1>8
<1> QED
  BY <1>1, <1>8, <1>9 DEF step

\* What the loop over the sections has told after some of them.
TellsAll(acc, paras, V) ==
    /\ SectSound(acc, V) /\ Told(acc) = Concat(paras) /\ Heard(acc) \subseteq Said(paras)
    /\ acc.cur = <<>> /\ (paras # <<>> => acc.out # <<>>)

\* After one section more the text is one section longer.
LEMMA SectionTold ==
    ASSUME NEW V, NEW paras \in Seq(Seq(V)), NEW x \in Seq(Seq(V)), NEW acc, TellsAll(acc, paras, V),
           AllNew(x), NoCommon(Said(x), Said(paras)), NEW b, b = AddSection(acc, x),
           NEW more, more = paras \o x
    PROVE  TellsAll(b, more, V)
<1>1. PICK W : W = Seq(V)
  OBVIOUS
<1>2. /\ SectSound(acc, V) /\ Told(acc) = Concat(paras) /\ Heard(acc) \subseteq Said(paras)
      /\ acc.cur = <<>> /\ (paras # <<>> => acc.out # <<>>)
  BY DEF TellsAll
<1>3. PICK cs \in Seq(Seq(V)) : cs = ChunkSection(x) /\ Renders(cs, x)
  BY SectionCovers
<1>4. Concat(News(cs)) = Concat(x) /\ Said(cs) \subseteq Said(x) /\ (cs = <<>> => x = <<>>)
  BY <1>3 DEF Renders
<1>5. CASE cs = <<>>
  <2>1. b = acc
    BY <1>3, <1>5 DEF AddSection
  <2>2. x = <<>>
    BY <1>4, <1>5
  <2>3. more = paras
    <3>1. paras \in Seq(W)
      BY <1>1
    <3>2. paras \o <<>> = paras
      BY <3>1, ConcatEmptySeq
    <3> QED
      BY <2>2, <3>2
  <2> QED
    BY <2>1, <2>3
<1>6. CASE cs # <<>>
  <2>1. b = WithChunks(acc, cs)
    BY <1>3, <1>6 DEF AddSection, WithChunks
  <2>2. PICK para \in Seq(V) : para = Concat(x) /\ Range(para) = Said(x)
    BY FlatFacts
  <2>3. Gives(cs, para)
    BY <1>4, <1>6, <2>2 DEF Gives
  <2>4. NoCommon(Range(para), Heard(acc))
    BY <1>2, <2>2 DEF NoCommon
  <2>5. SectSound(b, V) /\ Grows(b, acc, para) /\ b.cur = <<>> /\ b.out # <<>>
    <3>1. SectSound(acc, V) /\ acc.cur = <<>>
      BY <1>2
    <3> QED
      BY <2>1, <2>3, <2>4, <3>1, AddedChunks
  <2>6. Said(more) = Said(paras) \cup Said(x)
    BY SaidJoins
  <2>7. Concat(more) = Concat(paras) \o para
    BY <2>2, ConcatJoins
  <2>8. Told(b) = Concat(more) /\ Heard(b) \subseteq Said(more)
    BY <1>2, <2>2, <2>5, <2>6, <2>7 DEF Grows
  <2> QED
    BY <2>5, <2>8 DEF TellsAll
<1> QED
  BY <1>5, <1>6

\* The chunks of a document give its sections back.
LEMMA SectionsCover ==
    ASSUME NEW V, NEW secs \in Seq(Seq(Seq(V))), AllFresh(secs), NEW cs, cs = ChunkSections(secs)
    PROVE  cs \in Seq(Seq(V)) /\ Renders(cs, Concat(secs))
<1>1. PICK W : W = Seq(V)
  OBVIOUS
<1>2. PICK X : X = Seq(W)
  OBVIOUS
<1>3. PICK n \in Nat : n = Len(secs)
  OBVIOUS
<1>4. secs \in Seq(X) /\ secs \in Seq(Seq(W))
  BY <1>1, <1>2
<1>5. PICK f : /\ f[0] = NoChunk /\ Sectioned(secs) = f[n]
               /\ \A i \in 1 .. n : f[i] = AddSection(f[i - 1], secs[i])
  BY <1>3, SectionedLoop
<1> DEFINE T == {i \in 0 .. n : TellsAll(f[i], Concat(SubSeq(secs, 1, i)), V)}
<1>6. 0 \in T
  <2>1. PICK e : e = Concat(SubSeq(secs, 1, 0))
    OBVIOUS
  <2>2. e = <<>>
    BY <2>1, EmptyPrefix, ConcatNone
  <2>3. Concat(e) = <<>> /\ Said(e) = {}
    BY <2>2, ConcatNone, SaidNothing
  <2>4. SectSound(f[0], V) /\ Told(f[0]) = <<>> /\ Heard(f[0]) = {} /\ f[0].cur = <<>>
    BY <1>5, NoChunkSound
  <2>5. TellsAll(f[0], e, V)
    BY <2>2, <2>3, <2>4 DEF TellsAll
  <2> QED
    BY <2>1, <2>5
<1>7. \A i \in 1 .. n : i - 1 \in T => i \in T
  <2> SUFFICES ASSUME NEW i \in 1 .. n, TellsAll(f[i - 1], Concat(SubSeq(secs, 1, i - 1)), V)
               PROVE  TellsAll(f[i], Concat(SubSeq(secs, 1, i)), V)
    OBVIOUS
  <2>1. i \in 1 .. Len(secs)
    BY <1>3
  <2>2. PICK x \in X : x = secs[i]
    BY <1>4, <2>1
  <2>3. PICK q \in Seq(X) : q = SubSeq(secs, 1, i - 1)
    BY <1>4, <2>1, PrefixGrows
  <2>4. SubSeq(secs, 1, i) = Append(q, x)
    BY <1>4, <2>1, <2>2, <2>3, PrefixGrows
  <2>5. x \in Seq(W) /\ q \in Seq(Seq(W))
    BY <1>2
  <2>6. PICK paras \in Seq(W) : paras = Concat(q)
    BY <2>5, FlatFacts
  <2>7. PICK more : more = Concat(SubSeq(secs, 1, i))
    OBVIOUS
  <2>8. more = paras \o x
    BY <2>4, <2>5, <2>6, <2>7, ConcatAppend
  <2>9. AllNew(x) /\ NoCommon(Said(x), Said(paras))
    BY <2>1, <2>2, <2>3, <2>6 DEF AllFresh
  <2>10. PICK acc, b : acc = f[i - 1] /\ b = f[i]
    OBVIOUS
  <2>11. TellsAll(acc, paras, V) /\ b = AddSection(acc, x)
    BY <1>5, <2>2, <2>3, <2>6, <2>10
  <2>12. paras \in Seq(Seq(V)) /\ x \in Seq(Seq(V))
    BY <1>1, <2>5
  <2>13. TellsAll(b, more, V)
    BY <2>8, <2>9, <2>11, <2>12, SectionTold
  <2> QED
    BY <2>7, <2>10, <2>13
<1> HIDE DEF T
<1>8. n \in T
  BY <1>6, <1>7, UpToEnd
<1>9. SubSeq(secs, 1, n) = secs
  BY <1>3, <1>4, SubSeqFull
<1>10. PICK acc : acc = f[n]
  OBVIOUS
<1>11. PICK body : body = Concat(secs)
  OBVIOUS
<1>12. TellsAll(acc, body, V)
  BY <1>8, <1>9, <1>10, <1>11 DEF T
<1>13. /\ SectSound(acc, V) /\ Told(acc) = Concat(body) /\ Heard(acc) \subseteq Said(body)
       /\ acc.cur = <<>> /\ (body # <<>> => acc.out # <<>>)
  BY <1>12 DEF TellsAll
<1>14. cs = acc.out
  BY <1>5, <1>10 DEF ChunkSections, Sectioned
<1>15. cs \in Seq(Seq(V))
  <2>1. acc \in Sects(V)
    BY <1>13 DEF SectSound
  <2> QED
    BY <1>14, <2>1, SectFields
<1>16. Told(acc) = Concat(News(cs))
  <2>1. News(cs) \in Seq(Seq(V))
    BY <1>15, NewsType
  <2>2. PICK old \in Seq(V) : old = Concat(News(cs))
    BY <2>1, FlatFacts
  <2>3. old \o <<>> = old
    BY ConcatEmptySeq
  <2>4. Concat(acc.cur) = <<>>
    BY <1>13, ConcatNone
  <2> QED
    BY <1>14, <2>2, <2>3, <2>4 DEF Told
<1>17. Said(cs) \subseteq Said(body)
  BY <1>13, <1>14 DEF Heard
<1> QED
  BY <1>11, <1>13, <1>14, <1>15, <1>16, <1>17 DEF Renders

\* A bounded sequence is a sequence.
LEMMA ShortSeq ==
    ASSUME NEW S, NEW n \in Nat, NEW s \in SeqsUpTo(S, n)
    PROVE  s \in Seq(S)
<1>1. PICK k \in 0 .. n : s \in [1 .. k -> S]
  BY DEF SeqsUpTo
<1>2. k \in Nat
  OBVIOUS
<1> QED
  BY <1>1, <1>2, SeqDef

\* A sentence of a paragraph before it has a place.
Measure == [len : Nat, stop : BOOLEAN]

\* Its fields.
LEMMA MeasureType == \A x \in Measure : x.len \in Nat /\ x.stop \in BOOLEAN
BY DEF Measure

\* The sentences of paragraph k of section s.
OfPara(x, s, k) == x.at[1] = s /\ x.at[2] = k

\* The sentences of a paragraph are different and bear its place.
LEMMA ParaFacts ==
    ASSUME NEW p \in Seq(Measure), NEW s \in Nat, NEW k \in Nat, NEW para, para = Para(p, s, k)
    PROVE  para \in Seq(Sentence) /\ IsInjective(para) /\ \A x \in Range(para) : OfPara(x, s, k)
<1>1. PICK n \in Nat : n = Len(p)
  OBVIOUS
<1>2. DOMAIN p = 1 .. n /\ \A i \in 1 .. n : p[i].len \in Nat /\ p[i].stop \in BOOLEAN
  <2>1. DOMAIN p = 1 .. n /\ \A i \in 1 .. n : p[i] \in Measure
    BY <1>1
  <2> QED
    BY <2>1, MeasureType
<1>3. para = [i \in 1 .. n |-> [at |-> <<s, k, i>>, len |-> p[i].len, stop |-> p[i].stop]]
  BY <1>2 DEF Para
<1>4. \A i \in 1 .. n : para[i] \in Sentence
  BY <1>2, <1>3 DEF Sentence
<1>5. \A i \in 1 .. n : para[i].at = <<s, k, i>>
  BY <1>3
<1>6. para = [i \in 1 .. n |-> para[i]] /\ DOMAIN para = 1 .. n
  BY <1>3
<1>7. para \in Seq(Sentence)
  BY <1>4, <1>6, IsASeq
<1>8. IsInjective(para)
  <2>1. \A i \in 1 .. n, j \in 1 .. n : para[i] = para[j] => i = j
    <3> SUFFICES ASSUME NEW i \in 1 .. n, NEW j \in 1 .. n, para[i] = para[j] PROVE i = j
      OBVIOUS
    <3>1. <<s, k, i>> = <<s, k, j>>
      BY <1>5
    <3> QED
      BY <3>1
  <2> QED
    BY <1>6, <2>1 DEF IsInjective
<1>9. \A x \in Range(para) : OfPara(x, s, k)
  <2> SUFFICES ASSUME NEW i \in 1 .. n PROVE OfPara(para[i], s, k)
    BY <1>6 DEF Range
  <2>1. para[i].at = <<s, k, i>>
    BY <1>5
  <2>2. <<s, k, i>>[1] = s /\ <<s, k, i>>[2] = k
    OBVIOUS
  <2> QED
    BY <2>1, <2>2 DEF OfPara
<1> QED
  BY <1>7, <1>8, <1>9

\* The paragraphs of a section share no sentence.
LEMMA ParasFacts ==
    ASSUME NEW sec \in Seq(Seq(Measure)), NEW s \in Nat, NEW paras, paras = Paras(sec, s)
    PROVE  /\ paras \in Seq(Seq(Sentence)) /\ Len(paras) = Len(sec) /\ AllNew(paras)
           /\ \A x \in Said(paras) : x.at[1] = s
<1>1. PICK W : W = Seq(Sentence)
  OBVIOUS
<1>2. PICK n \in Nat : n = Len(sec)
  OBVIOUS
<1>3. DOMAIN sec = 1 .. n /\ \A k \in 1 .. n : sec[k] \in Seq(Measure)
  BY <1>2
<1>4. paras = [k \in 1 .. n |-> Para(sec[k], s, k)]
  BY <1>3 DEF Paras
<1>5. \A k \in 1 .. n : paras[k] = Para(sec[k], s, k)
  BY <1>4
<1>6. \A k \in 1 .. n : /\ paras[k] \in W /\ IsInjective(paras[k])
                       /\ \A x \in Range(paras[k]) : OfPara(x, s, k)
  <2> SUFFICES ASSUME NEW k \in 1 .. n
               PROVE  /\ paras[k] \in W /\ IsInjective(paras[k])
                      /\ \A x \in Range(paras[k]) : OfPara(x, s, k)
    OBVIOUS
  <2>1. PICK q : q = paras[k]
    OBVIOUS
  <2>2. PICK p \in Seq(Measure) : p = sec[k]
    BY <1>3
  <2>3. q = Para(p, s, k) /\ k \in Nat
    BY <1>5, <2>1, <2>2
  <2>4. q \in Seq(Sentence) /\ IsInjective(q) /\ \A x \in Range(q) : OfPara(x, s, k)
    BY <2>3, ParaFacts
  <2> QED
    BY <1>1, <2>1, <2>4
<1>7. paras = [k \in 1 .. n |-> paras[k]]
  BY <1>4
<1>8. paras \in Seq(W) /\ Len(paras) = n
  BY <1>6, <1>7, IsASeq
<1>9. AllNew(paras)
  <2> SUFFICES ASSUME NEW i \in 1 .. n PROVE NoCommon(Range(paras[i]), Said(SubSeq(paras, 1, i - 1)))
    BY <1>6, <1>8 DEF AllNew
  <2>1. PICK m \in Nat : m = i - 1
    OBVIOUS
  <2>2. m =< Len(paras)
    BY <1>8, <2>1
  <2>3. PICK q : q = SubSeq(paras, 1, m)
    OBVIOUS
  <2>4. q \in Seq(W) /\ Len(q) = m /\ \A j \in 1 .. m : q[j] = paras[j]
    BY <1>8, <2>2, <2>3, PrefixFacts
  <2>5. \A y : (y \in Said(q)) => (\E j \in 1 .. m : y \in Range(q[j]))
    BY <2>4, SaidBy
  <2>6. \A j \in 1 .. m : j \in 1 .. n /\ j # i
    BY <2>1
  <2>7. \A j \in 1 .. m : \A x \in Range(q[j]) : OfPara(x, s, j)
    BY <1>6, <2>4, <2>6
  <2>8. \A x \in Range(paras[i]) : OfPara(x, s, i)
    BY <1>6
  <2>9. \A x \in Range(paras[i]) : x \notin Said(q)
    <3> SUFFICES ASSUME NEW x \in Range(paras[i]), x \in Said(q) PROVE FALSE
      OBVIOUS
    <3>1. PICK j \in 1 .. m : x \in Range(q[j])
      BY <2>5
    <3>2. x.at[2] = j /\ x.at[2] = i
      BY <2>7, <2>8, <3>1 DEF OfPara
    <3> QED
      BY <2>6, <3>2
  <2> QED
    BY <2>1, <2>3, <2>9 DEF NoCommon
<1>10. \A x \in Said(paras) : x.at[1] = s
  <2>1. \A y : (y \in Said(paras)) => (\E j \in 1 .. n : y \in Range(paras[j]))
    BY <1>8, SaidBy
  <2> QED
    BY <1>6, <2>1 DEF OfPara
<1> QED
  BY <1>1, <1>2, <1>8, <1>9, <1>10

\* The sections of a document share no sentence.
LEMMA BodyFacts ==
    ASSUME NEW secs \in Seq(Seq(Seq(Measure))), NEW in, in.sections = secs, NEW body, body = Body(in)
    PROVE  body \in Seq(Seq(Seq(Sentence))) /\ AllFresh(body)
<1>1. PICK W : W = Seq(Sentence)
  OBVIOUS
<1>2. PICK X : X = Seq(W)
  OBVIOUS
<1>3. PICK n \in Nat : n = Len(secs)
  OBVIOUS
<1>4. DOMAIN secs = 1 .. n /\ \A k \in 1 .. n : secs[k] \in Seq(Seq(Measure))
  <2>1. PICK Y : Y = Seq(Seq(Measure))
    OBVIOUS
  <2>2. secs \in Seq(Y)
    BY <2>1
  <2>3. DOMAIN secs = 1 .. n /\ \A k \in 1 .. n : secs[k] \in Y
    BY <1>3, <2>2
  <2> QED
    BY <2>1, <2>3
<1>5. body = [k \in 1 .. n |-> Paras(secs[k], k)]
  BY <1>4 DEF Body
<1>6. \A k \in 1 .. n : body[k] = Paras(secs[k], k)
  BY <1>5
<1>7. \A k \in 1 .. n : body[k] \in X /\ AllNew(body[k]) /\ \A x \in Said(body[k]) : x.at[1] = k
  <2> SUFFICES ASSUME NEW k \in 1 .. n
               PROVE  body[k] \in X /\ AllNew(body[k]) /\ \A x \in Said(body[k]) : x.at[1] = k
    OBVIOUS
  <2>1. PICK q : q = body[k]
    OBVIOUS
  <2>2. PICK p \in Seq(Seq(Measure)) : p = secs[k]
    BY <1>4
  <2>3. q = Paras(p, k) /\ k \in Nat
    BY <1>6, <2>1, <2>2
  <2>4. q \in Seq(Seq(Sentence)) /\ AllNew(q) /\ \A x \in Said(q) : x.at[1] = k
    BY <2>3, ParasFacts
  <2> QED
    BY <1>1, <1>2, <2>1, <2>4
<1>8. body = [k \in 1 .. n |-> body[k]]
  BY <1>5
<1>9. body \in Seq(X) /\ Len(body) = n
  BY <1>7, <1>8, IsASeq
<1>10. AllFresh(body)
  <2> SUFFICES ASSUME NEW i \in 1 .. n PROVE NoCommon(Said(body[i]), Said(Concat(SubSeq(body, 1, i - 1))))
    BY <1>7, <1>9 DEF AllFresh
  <2>1. PICK m \in Nat : m = i - 1
    OBVIOUS
  <2>2. m =< Len(body)
    BY <1>9, <2>1
  <2>3. PICK q : q = SubSeq(body, 1, m)
    OBVIOUS
  <2>4. q \in Seq(X) /\ Len(q) = m /\ \A j \in 1 .. m : q[j] = body[j]
    BY <1>9, <2>2, <2>3, PrefixFacts
  <2>5. q \in Seq(Seq(W))
    BY <1>2, <2>4
  <2>6. PICK c \in Seq(W) : c = Concat(q) /\ Range(c) = Said(q)
    BY <2>5, FlatFacts
  <2>7. \A y : (y \in Said(c)) => \E l \in 1 .. Len(c) : y \in Range(c[l])
    BY SaidBy
  <2>8. \A l \in 1 .. Len(c) : c[l] \in Said(q)
    BY <2>6 DEF Range
  <2>9. \A z : (z \in Said(q)) => \E j \in 1 .. m : z \in Range(q[j])
    BY <2>4, SaidBy
  <2>10. \A j \in 1 .. m : j \in 1 .. n /\ j # i
    BY <2>1
  <2>11. \A j \in 1 .. m : \A z \in Range(q[j]) : \A y \in Range(z) : y.at[1] = j
    <3> SUFFICES ASSUME NEW j \in 1 .. m, NEW z \in Range(q[j]), NEW y \in Range(z) PROVE y.at[1] = j
      OBVIOUS
    <3>1. PICK bj \in X : bj = body[j]
      BY <1>7, <2>10
    <3>2. z \in Range(bj)
      BY <2>4, <3>1
    <3>3. Range(z) \subseteq Said(bj)
      BY <3>2 DEF Said, Range
    <3> QED
      BY <1>7, <2>10, <3>1, <3>3
  <2>12. \A x \in Said(body[i]) : x.at[1] = i
    BY <1>7
  <2>13. \A x \in Said(body[i]) : x \notin Said(c)
    <3> SUFFICES ASSUME NEW x \in Said(body[i]), x \in Said(c) PROVE FALSE
      OBVIOUS
    <3>1. PICK l \in 1 .. Len(c) : x \in Range(c[l])
      BY <2>7
    <3>2. PICK j \in 1 .. m : c[l] \in Range(q[j])
      BY <2>8, <2>9
    <3>3. x.at[1] = j
      BY <2>11, <3>1, <3>2
    <3> QED
      BY <2>10, <2>12, <3>3
  <2> QED
    BY <2>1, <2>3, <2>6, <2>13 DEF NoCommon
<1> QED
  BY <1>1, <1>2, <1>9, <1>10

-----------------------------------------------------------------------------
(* ChunkText: the windows of a text.                                       *)

\* A sentence more makes the sum larger.
LEMMA SpanTurn ==
    ASSUME NEW n \in Nat, NEW x \in Sentence
    PROVE  n + x.len + 1 \in Nat /\ n + x.len + 1 >= n + 1
BY LengthType

\* The sum is a number.
LEMMA SpanType ==
    ASSUME NEW s \in Seq(Sentence)
    PROVE  Span(s) \in Nat
<1>1. PICK n \in Nat : n = Len(s)
  OBVIOUS
<1>2. \A i \in 1 .. n : s[i] \in Sentence
  BY <1>1
<1>3. PICK f : f[0] = 0 /\ Span(s) = f[n] /\ \A i \in 1 .. n : f[i] = f[i - 1] + s[i].len + 1
  BY <1>1, SpanLoop
<1> DEFINE T == {i \in 0 .. n : f[i] \in Nat}
<1>4. 0 \in T
  BY <1>3
<1>5. \A i \in 1 .. n : i - 1 \in T => i \in T
  <2> SUFFICES ASSUME NEW i \in 1 .. n, f[i - 1] \in Nat PROVE f[i] \in Nat
    OBVIOUS
  <2>1. PICK x \in Sentence : x = s[i]
    BY <1>2
  <2>2. PICK a \in Nat : a = f[i - 1]
    OBVIOUS
  <2>3. a + x.len + 1 \in Nat
    BY SpanTurn
  <2> QED
    BY <1>3, <2>1, <2>2, <2>3
<1> HIDE DEF T
<1>6. n \in T
  BY <1>4, <1>5, UpToEnd
<1> QED
  BY <1>3, <1>6 DEF T

\* One turn of the sum.
AddSpan(n, x) == n + x.len + 1

\* The sum of one sentence more.
LEMMA SpanAppend ==
    ASSUME NEW s \in Seq(Sentence), NEW x \in Sentence
    PROVE  Span(Append(s, x)) = AddSpan(Span(s), x)
<1>1. PICK t, n : t = Append(s, x) /\ n = Len(s)
  OBVIOUS
<1>2. n \in Nat /\ t \in Seq(Sentence) /\ Len(t) = n + 1
  BY <1>1, AppendPlaces, AppendFacts
<1>3. (\A i \in 1 .. n : t[i] = s[i]) /\ t[n + 1] = x
  BY <1>1, AppendPlaces
<1>4. PICK f : f[0] = 0 /\ Span(s) = f[n] /\ \A i \in 1 .. n : f[i] = AddSpan(f[i - 1], s[i])
  BY <1>1, SpanLoop DEF AddSpan
<1>5. PICK g : g[0] = 0 /\ Span(t) = g[n + 1] /\ \A i \in 1 .. n + 1 : g[i] = AddSpan(g[i - 1], t[i])
  <2>1. t \in Seq(Sentence)
    BY <1>2
  <2>2. PICK g : /\ g[0] = 0 /\ Span(t) = g[Len(t)]
                 /\ \A i \in 1 .. Len(t) : g[i] = g[i - 1] + t[i].len + 1
    BY <2>1, SpanLoop
  <2> QED
    BY <1>2, <2>2 DEF AddSpan
<1>6. f[n] = g[n]
  <2>1. f[0] = g[0]
    BY <1>4, <1>5
  <2>2. \A i \in 1 .. n : g[i] = AddSpan(g[i - 1], s[i])
    BY <1>2, <1>3, <1>5
  <2>3. \A i \in 1 .. n : f[i - 1] = g[i - 1] => f[i] = g[i]
    BY <1>4, <2>2
  <2> QED
    BY <1>2, <2>1, <2>3, LoopsAgree
<1>7. g[n + 1] = AddSpan(g[n], x)
  <2>1. n + 1 \in 1 .. n + 1 /\ n + 1 - 1 = n
    BY <1>2
  <2>2. g[n + 1] = AddSpan(g[n + 1 - 1], t[n + 1])
    BY <1>2, <1>5, <2>1
  <2> QED
    BY <1>3, <2>1, <2>2
<1> QED
  BY <1>1, <1>4, <1>5, <1>6, <1>7

\* A sentence more makes a chunk longer.
LEMMA JoinedGrows ==
    ASSUME NEW s \in Seq(Sentence), NEW x \in Sentence, NEW t, t = Append(s, x)
    PROVE  Joined(s) \in Int /\ Joined(t) \in Nat /\ Joined(s) =< Joined(t)
<1>1. Span(s) \in Nat
  BY SpanType
<1>2. x.len \in Nat
  BY LengthType
<1>3. t # <<>>
  BY AppendProperties
<1>4. Span(t) = Span(s) + x.len + 1
  BY SpanAppend DEF AddSpan
<1>5. Joined(t) = Span(s) + x.len
  BY <1>1, <1>2, <1>3, <1>4 DEF Joined
<1>6. CASE s = <<>>
  <2>1. Joined(s) = 0
    BY <1>6 DEF Joined
  <2> QED
    BY <1>1, <1>2, <1>5, <2>1
<1>7. CASE s # <<>>
  <2>1. Joined(s) = Span(s) - 1
    BY <1>7 DEF Joined
  <2> QED
    BY <1>1, <1>2, <1>5, <2>1
<1> QED
  BY <1>6, <1>7

\* The sentences of a text know their places.
Numbered(text) == text \in Seq(Sentence) /\ \A i \in 1 .. Len(text) : text[i].at[3] = i

\* A stretch of a text begins and ends where it says.
LEMMA EndsOf ==
    ASSUME NEW text, Numbered(text), NEW a \in Nat, NEW b \in Nat, 1 =< a, a =< b, b =< Len(text),
           NEW c, c = SubSeq(text, a, b)
    PROVE  c \in Seq(Sentence) /\ c # <<>> /\ From(c) = a /\ To(c) = b /\ IsStretch(c, text)
<1>1. text \in Seq(Sentence) /\ \A i \in 1 .. Len(text) : text[i].at[3] = i
  BY DEF Numbered
<1>2. c \in Seq(Sentence) /\ Len(c) = b - a + 1 /\ \A i \in 1 .. b - a + 1 : c[i] = text[i + a - 1]
  <2>1. text \in Seq(Sentence) /\ a =< b + 1
    BY <1>1
  <2> QED
    BY <2>1, PieceFacts
<1>3. PICK m \in Nat : m = Len(c) /\ m = b - a + 1
  BY <1>2
<1>4. 1 \in 1 .. m /\ m \in 1 .. m /\ 1 + a - 1 = a /\ m + a - 1 = b /\ m # 0
  BY <1>3
<1>5. c[1] = text[a] /\ c[m] = text[b]
  BY <1>2, <1>3, <1>4
<1>6. c # <<>>
  BY <1>2, <1>3, <1>4, EmptyIsNone
<1>7. Head(c) = c[1]
  BY <1>2, <1>6
<1>8. Last(c) = c[m]
  BY <1>3 DEF Last
<1>9. text[a].at[3] = a /\ text[b].at[3] = b
  BY <1>1
<1>10. From(c) = a /\ To(c) = b
  BY <1>5, <1>7, <1>8, <1>9 DEF From, To
<1> QED
  BY <1>2, <1>6, <1>10 DEF IsStretch

\* A chunk is the stretch from a to b, and too long by no more than its last sentence.
IsPiece(c, text, a, b) ==
    /\ a \in Nat /\ b \in Nat /\ 1 =< a /\ a =< b /\ b =< Len(text)
    /\ c = SubSeq(text, a, b) /\ Joined(Front(c)) =< MaxChars

\* A stretch that exceeds the window only by its last sentence.
IsChunk(c, text) == IsStretch(c, text) /\ Joined(Front(c)) =< MaxChars

\* A piece is such a stretch, from a to b.
LEMMA PieceIsChunk ==
    ASSUME NEW text, Numbered(text), NEW a, NEW b, NEW c, IsPiece(c, text, a, b)
    PROVE  c \in Seq(Sentence) /\ c # <<>> /\ From(c) = a /\ To(c) = b /\ IsChunk(c, text)
<1>1. PICK a1 \in Nat, b1 \in Nat : a1 = a /\ b1 = b
  BY DEF IsPiece
<1>2. 1 =< a1 /\ a1 =< b1 /\ b1 =< Len(text) /\ c = SubSeq(text, a1, b1)
  BY <1>1 DEF IsPiece
<1>3. c \in Seq(Sentence) /\ c # <<>> /\ From(c) = a1 /\ To(c) = b1 /\ IsStretch(c, text)
  BY <1>2, EndsOf
<1> QED
  BY <1>1, <1>3 DEF IsPiece, IsChunk

\* Chunks that reach from the beginning of the text to sentence i.
Reaches(cs, text, i, room) ==
    /\ cs \in Seq(Seq(Sentence)) /\ cs # <<>>
    /\ \A k \in 1 .. Len(cs) : IsChunk(cs[k], text)
    /\ From(cs[1]) = 1 /\ To(Last(cs)) = i
    /\ \A k \in 1 .. Len(cs) - 1 : Follows(cs[k], cs[k + 1], text, room)

\* The closed chunks, and how the open one, from a to i, goes on from them.
Chained(out, text, room) ==
    /\ \A k \in 1 .. Len(out) : IsChunk(out[k], text)
    /\ \A k \in 1 .. Len(out) - 1 : Follows(out[k], out[k + 1], text, room)

\* The open chunk goes on where the closed ones end, with an overlap that fits
\* the room.
GoesOn(out, text, a, i, room) ==
    IF out = <<>> THEN a = 1
    ELSE /\ From(out[1]) = 1 /\ a \in From(Last(out)) .. To(Last(out)) + 1
         /\ To(Last(out)) \in Nat /\ To(Last(out)) < i /\ Joined(SubSeq(text, a, To(Last(out)))) =< room

\* The closed and the open chunk together.
Holds(out, cur, text, a, i, room) ==
    IsPiece(cur, text, a, i) /\ Chained(out, text, room) /\ GoesOn(out, text, a, i, room)

\* After i sentences.
CutSound(acc, text, i, room) ==
    acc \in Cuts(Sentence) /\ \E a \in Nat : Holds(acc.out, acc.cur, text, a, i, room)

\* When the loop stops at i, its chunks reach to i.
LEMMA CutReaches ==
    ASSUME NEW text, Numbered(text), NEW acc, NEW i, NEW room, CutSound(acc, text, i, room)
    PROVE  Reaches(Chunks(acc), text, i, room)
<1>1. acc \in Cuts(Sentence)
  BY DEF CutSound
<1>2. PICK a \in Nat : Holds(acc.out, acc.cur, text, a, i, room)
  BY DEF CutSound
<1>3. PICK W : W = Seq(Sentence)
  OBVIOUS
<1>4. PICK out, cur : out = acc.out /\ cur = acc.cur
  OBVIOUS
<1>5. out \in Seq(W) /\ cur \in W
  BY <1>1, <1>3, <1>4 DEF Cuts
<1>6. IsPiece(cur, text, a, i) /\ Chained(out, text, room) /\ GoesOn(out, text, a, i, room)
  BY <1>2, <1>4 DEF Holds
<1>7. cur \in Seq(Sentence) /\ From(cur) = a /\ To(cur) = i /\ IsChunk(cur, text)
  BY <1>6, PieceIsChunk
<1>8. PICK cs, n : cs = Append(out, cur) /\ n = Len(out)
  OBVIOUS
<1>9. n \in Nat /\ Len(cs) = n + 1 /\ (\A k \in 1 .. n : cs[k] = out[k]) /\ cs[n + 1] = cur
  BY <1>5, <1>8, AppendPlaces
<1>10. cs \in Seq(W) /\ cs # <<>>
  BY <1>5, <1>8, AppendProperties
<1>11. Last(cs) = cur
  BY <1>9 DEF Last
<1>12. \A k \in 1 .. n + 1 : IsChunk(cs[k], text)
  <2>1. \A k \in 1 .. n : IsChunk(out[k], text)
    BY <1>6, <1>8 DEF Chained
  <2>2. \A k \in 1 .. n + 1 : k = n + 1 \/ k \in 1 .. n
    BY <1>9
  <2> QED
    BY <1>7, <1>9, <2>1, <2>2
<1>13. From(cs[1]) = 1 /\ \A k \in 1 .. n : Follows(cs[k], cs[k + 1], text, room)
  <2>1. CASE out = <<>>
    <3>1. n = 0
      BY <1>8, <2>1
    <3>2. a = 1
      BY <1>6, <2>1 DEF GoesOn
    <3> QED
      BY <1>7, <1>9, <3>1, <3>2
  <2>2. CASE out # <<>>
    <3>1. n # 0
      BY <1>5, <1>8, <2>2, EmptyIsNone
    <3>2. PICK l : l = Last(out)
      OBVIOUS
    <3>3. l = out[n]
      BY <1>8, <3>2 DEF Last
    <3>4. /\ From(out[1]) = 1 /\ a \in From(l) .. To(l) + 1
          /\ Joined(SubSeq(text, a, To(l))) =< room /\ To(l) < i
      BY <1>6, <2>2, <3>2 DEF GoesOn
    <3>5. Follows(l, cur, text, room)
      BY <1>7, <3>4 DEF Follows
    <3>6. \A k \in 1 .. n - 1 : Follows(out[k], out[k + 1], text, room)
      BY <1>6, <1>8 DEF Chained
    <3>7. \A k \in 1 .. n : k = n \/ (k \in 1 .. n - 1 /\ k + 1 \in 1 .. n)
      BY <1>9
    <3>8. 1 \in 1 .. n /\ n \in 1 .. n
      BY <1>9, <3>1
    <3> QED
      BY <1>9, <3>3, <3>4, <3>5, <3>6, <3>7, <3>8
  <2> QED
    BY <2>1, <2>2
<1>14. Len(cs) - 1 = n
  BY <1>9
<1>15. cs \in Seq(Seq(Sentence))
  BY <1>3, <1>10
<1>16. Reaches(cs, text, i, room)
  BY <1>7, <1>9, <1>10, <1>11, <1>12, <1>13, <1>14, <1>15 DEF Reaches
<1> QED
  BY <1>4, <1>8, <1>16 DEF Chunks

\* No sentences have no length.
LEMMA NothingJoined == Joined(<<>>) = 0
BY DEF Joined

\* The first turn of ChunkText opens a chunk with the first sentence.
LEMMA FirstSentence ==
    ASSUME NEW text, Numbered(text), 1 =< Len(text), NEW room \in Nat, NEW x, x = text[1],
           NEW b, b = RoomAdd(NothingCut, x, MaxChars, room)
    PROVE  CutSound(b, text, 1, room)
<1>1. PICK V : V = Sentence
  OBVIOUS
<1>2. text \in Seq(V) /\ x \in V
  BY <1>1 DEF Numbered
<1>3. NothingCut \in Cuts(V) /\ NothingCut.out = <<>> /\ NothingCut.cur = <<>>
  BY DEF NothingCut, Cuts
<1>4. b \in Cuts(V)
  BY <1>2, <1>3, RoomType
<1>5. b = [NothingCut EXCEPT !.cur = Append(@, x)]
  BY <1>3 DEF RoomAdd, AddSentence
<1>6. PICK e \in Seq(V) : e = <<>>
  BY NothingIsSeq
<1>7. b.out = <<>> /\ b.cur = Append(e, x)
  BY <1>3, <1>5, <1>6 DEF NothingCut
<1>8. PICK c : c = Append(e, x)
  OBVIOUS
<1>9. c = SubSeq(text, 1, 1)
  <2>1. 1 \in 1 .. Len(text)
    BY <1>2
  <2>2. SubSeq(text, 1, 1) = Append(SubSeq(text, 1, 1 - 1), text[1])
    BY <1>2, <2>1, PrefixGrows
  <2>3. SubSeq(text, 1, 1 - 1) = e
    BY <1>6, EmptyPrefix
  <2> QED
    BY <1>8, <2>2, <2>3
<1>10. Front(c) = e
  BY <1>2, <1>8, FrontOfAppend
<1>11. Joined(Front(c)) =< MaxChars
  BY <1>6, <1>10, NothingJoined, ChunkerAssumption
<1>12. PICK o : o = b.out
  OBVIOUS
<1>13. o = <<>>
  BY <1>7, <1>12
<1>14. IsPiece(c, text, 1, 1)
  BY <1>9, <1>11 DEF IsPiece
<1>15. Chained(o, text, room)
  <2>1. Len(o) = 0
    BY <1>13
  <2> QED
    BY <2>1 DEF Chained
<1>16. GoesOn(o, text, 1, 1, room)
  BY <1>13 DEF GoesOn
<1>17. Holds(b.out, b.cur, text, 1, 1, room)
  <2>1. Holds(o, c, text, 1, 1, room)
    BY <1>14, <1>15, <1>16 DEF Holds
  <2> QED
    BY <1>7, <1>8, <1>12, <2>1
<1> QED
  BY <1>1, <1>4, <1>17 DEF CutSound

\* A turn of ChunkText keeps the loop invariant: the sentence joins the open
\* chunk, or closes it and the next one begins with the overlap.
LEMMA NextSentence ==
    ASSUME NEW text, Numbered(text), NEW i \in Nat, i + 1 =< Len(text), NEW room \in Nat, room =< MaxChars,
           NEW acc, CutSound(acc, text, i, room), NEW x, x = text[i + 1],
           NEW b, b = RoomAdd(acc, x, MaxChars, room)
    PROVE  CutSound(b, text, i + 1, room)
<1>1. PICK V : V = Sentence
  OBVIOUS
<1>2. text \in Seq(V) /\ x \in V
  <2>1. text \in Seq(V)
    BY <1>1 DEF Numbered
  <2>2. i + 1 \in 1 .. Len(text)
    BY <2>1
  <2> QED
    BY <2>1, <2>2
<1>3. acc \in Cuts(V)
  BY <1>1 DEF CutSound
<1>4. PICK a \in Nat : Holds(acc.out, acc.cur, text, a, i, room)
  BY DEF CutSound
<1>5. PICK out, cur : out = acc.out /\ cur = acc.cur
  OBVIOUS
<1>6. IsPiece(cur, text, a, i) /\ Chained(out, text, room) /\ GoesOn(out, text, a, i, room)
  BY <1>4, <1>5 DEF Holds
<1>7. 1 =< a /\ a =< i /\ i =< Len(text) /\ cur = SubSeq(text, a, i)
  BY <1>6 DEF IsPiece
<1>8. cur \in Seq(V) /\ cur # <<>> /\ From(cur) = a /\ To(cur) = i /\ IsChunk(cur, text)
  BY <1>1, <1>6, PieceIsChunk
<1>9. b \in Cuts(V)
  BY <1>2, <1>3, RoomType
<1>10. PICK i1 \in Nat : i1 = i + 1
  OBVIOUS
<1>11. CASE Joined(Append(cur, x)) > MaxChars
  <2>1. PICK tail : tail = TailWithin(cur, room)
    OBVIOUS
  <2>2. PICK m \in Nat : m = Len(cur)
    BY <1>8
  <2>3. /\ \E n \in 0 .. Len(cur) : TailWithin(cur, room) = SubSeq(cur, Len(cur) - n + 1, Len(cur))
        /\ TailWithin(cur, room) \in Seq(V) /\ Joined(TailWithin(cur, room)) =< room
    <3>1. cur \in Seq(V)
      BY <1>8
    <3> QED
      BY <3>1, TailFacts
  <2>4. PICK k \in 0 .. m : tail = SubSeq(cur, m - k + 1, m)
    BY <2>1, <2>2, <2>3
  <2>5. tail \in Seq(V) /\ Joined(tail) =< room
    BY <2>1, <2>3
  <2>6. m = i - a + 1 /\ SubSeq(cur, m - k + 1, m) = SubSeq(text, i - k + 1, i)
    <3>1. text \in Seq(V)
      BY <1>2
    <3>2. a =< i + 1
      BY <1>7
    <3> QED
      BY <1>7, <2>2, <3>1, <3>2, TailOfStretch
  <2>7. PICK a1 \in Nat : a1 = i - k + 1
    BY <1>7, <2>6
  <2>8. a =< a1 /\ a1 =< i + 1 /\ 1 =< a1
    BY <1>7, <2>6, <2>7
  <2>9. tail = SubSeq(text, a1, i)
    BY <2>4, <2>6, <2>7
  <2>10. PICK d : d = Append(tail, x)
    OBVIOUS
  <2>11. d = SubSeq(text, a1, i1)
    <3>1. Append(SubSeq(text, a1, i), text[i + 1]) = SubSeq(text, a1, i + 1)
      BY <1>2, <2>8, StretchGrows
    <3> QED
      BY <1>10, <2>9, <2>10, <3>1
  <2>12. Front(d) = tail
    BY <1>2, <2>5, <2>10, FrontOfAppend
  <2>13. Joined(Front(d)) =< MaxChars
    <3>1. PICK j : j = Joined(tail)
      OBVIOUS
    <3>2. j \in Int
      <4>1. tail \in Seq(Sentence) /\ x \in Sentence
        BY <1>1, <1>2, <2>5
      <4>2. Joined(tail) \in Int
        BY <4>1, JoinedGrows
      <4> QED
        BY <3>1, <4>2
    <3>3. MaxChars \in Nat /\ j =< room
      BY <2>5, <3>1, ChunkerAssumption
    <3>4. j =< MaxChars
      BY <3>2, <3>3
    <3> QED
      BY <2>12, <3>1, <3>4
  <2>14. IsPiece(d, text, a1, i1)
    <3>1. a1 =< i1 /\ i1 =< Len(text)
      BY <1>10, <2>8
    <3> QED
      BY <2>8, <2>11, <2>13, <3>1 DEF IsPiece
  <2>15. PICK cs : cs = Chunks(acc)
    OBVIOUS
  <2>16. Reaches(cs, text, i, room)
    BY <2>15, CutReaches
  <2>17. Chained(cs, text, room) /\ From(cs[1]) = 1 /\ cs # <<>>
    BY <2>16 DEF Reaches, Chained
  <2>18. Last(cs) = cur
    <3>1. PICK W : W = Seq(V)
      OBVIOUS
    <3>2. out \in Seq(W) /\ cur \in W
      BY <1>3, <1>5, <3>1 DEF Cuts
    <3>3. cs = Append(out, cur)
      BY <1>5, <2>15 DEF Chunks
    <3>4. Len(cs) = Len(out) + 1 /\ cs[Len(out) + 1] = cur
      BY <3>2, <3>3, AppendPlaces
    <3> QED
      BY <3>4 DEF Last
  <2>19. GoesOn(cs, text, a1, i1, room)
    <3>1. a1 \in a .. i + 1 /\ i < i1
      BY <1>10, <2>8
    <3>2. Joined(SubSeq(text, a1, i)) =< room
      BY <2>5, <2>9
    <3> QED
      BY <1>8, <2>17, <2>18, <3>1, <3>2 DEF GoesOn
  <2>20. Holds(cs, d, text, a1, i1, room)
    BY <2>14, <2>17, <2>19 DEF Holds
  <2>21. b.out = cs /\ b.cur = d
    <3>1. b = [out |-> Append(acc.out, acc.cur), cur |-> Append(TailWithin(acc.cur, room), x)]
      BY <1>5, <1>8, <1>11 DEF RoomAdd, AddSentence, Carry
    <3>2. b.out = Append(acc.out, acc.cur) /\ b.cur = Append(TailWithin(acc.cur, room), x)
      BY <3>1
    <3> QED
      BY <1>5, <2>1, <2>10, <2>15, <3>2 DEF Chunks
  <2> QED
    BY <1>1, <1>9, <1>10, <2>7, <2>20, <2>21 DEF CutSound
<1>12. CASE ~(Joined(Append(cur, x)) > MaxChars)
  <2>1. PICK d : d = Append(cur, x)
    OBVIOUS
  <2>2. d = SubSeq(text, a, i1)
    <3>1. a =< i + 1
      BY <1>7
    <3>2. Append(SubSeq(text, a, i), text[i + 1]) = SubSeq(text, a, i + 1)
      BY <1>2, <1>7, <3>1, StretchGrows
    <3> QED
      BY <1>7, <1>10, <2>1, <3>2
  <2>3. Front(d) = cur
    BY <1>2, <1>8, <2>1, FrontOfAppend
  <2>4. Joined(cur) =< MaxChars
    <3>1. cur \in Seq(Sentence) /\ x \in Sentence
      BY <1>1, <1>2, <1>8
    <3>2. Joined(cur) \in Int /\ Joined(d) \in Nat /\ Joined(cur) =< Joined(d)
      BY <2>1, <3>1, JoinedGrows
    <3>3. MaxChars \in Nat /\ ~(Joined(d) > MaxChars)
      BY <1>12, <2>1, ChunkerAssumption
    <3> QED
      BY <3>2, <3>3
  <2>5. IsPiece(d, text, a, i1)
    <3>1. a =< i1 /\ i1 =< Len(text)
      BY <1>7, <1>10
    <3> QED
      BY <1>7, <2>2, <2>3, <2>4, <3>1 DEF IsPiece
  <2>6. GoesOn(out, text, a, i1, room)
    <3>1. CASE out = <<>>
      BY <1>6, <3>1 DEF GoesOn
    <3>2. CASE out # <<>>
      <4>1. PICK t : t = To(Last(out))
        OBVIOUS
      <4>2. /\ From(out[1]) = 1 /\ a \in From(Last(out)) .. t + 1
            /\ t < i /\ Joined(SubSeq(text, a, t)) =< room
        BY <1>6, <3>2, <4>1 DEF GoesOn
      <4>3. t < i1
        <5>1. t \in Nat
          BY <1>6, <3>2, <4>1 DEF GoesOn
        <5> QED
          BY <1>10, <4>2, <5>1
      <4> QED
        BY <1>6, <3>2, <4>1, <4>2, <4>3 DEF GoesOn
    <3> QED
      BY <3>1, <3>2
  <2>7. Holds(out, d, text, a, i1, room)
    BY <1>6, <2>5, <2>6 DEF Holds
  <2>8. b.out = out /\ b.cur = d
    <3>1. b = [acc EXCEPT !.cur = Append(@, x)]
      BY <1>5, <1>12 DEF RoomAdd, AddSentence
    <3> QED
      BY <1>3, <1>5, <2>1, <3>1 DEF Cuts
  <2> QED
    BY <1>1, <1>9, <1>10, <2>7, <2>8 DEF CutSound
<1> QED
  BY <1>11, <1>12

\* The windows of a text reach from its beginning to its end.
LEMMA RoomCovers ==
    ASSUME NEW text, Numbered(text), 1 =< Len(text), NEW room \in Nat, room =< MaxChars
    PROVE  Reaches(Windows(text, MaxChars, FALSE, room), text, Len(text), room)
<1>1. PICK V : V = Sentence
  OBVIOUS
<1>2. text \in Seq(V)
  BY <1>1 DEF Numbered
<1>3. PICK n \in Nat : n = Len(text)
  BY <1>2
<1>4. PICK f : /\ f[0] = NothingCut /\ RoomCut(text, MaxChars, room) = f[n]
               /\ \A i \in 1 .. n : f[i] = RoomAdd(f[i - 1], text[i], MaxChars, room)
  <2>1. PICK f : /\ f[0] = NothingCut /\ RoomCut(text, MaxChars, room) = f[Len(text)]
                 /\ \A i \in 1 .. Len(text) : f[i] = RoomAdd(f[i - 1], text[i], MaxChars, room)
    <3>1. PICK s \in Seq(V) : s = text
      BY <1>2
    <3>2. \E f : /\ f[0] = NothingCut /\ RoomCut(s, MaxChars, room) = f[Len(s)]
                 /\ \A i \in 1 .. Len(s) : f[i] = RoomAdd(f[i - 1], s[i], MaxChars, room)
      BY RoomLoop
    <3> QED
      BY <3>1, <3>2
  <2> QED
    BY <1>3, <2>1
<1> DEFINE T == {i \in 0 .. n : i # 0 => CutSound(f[i], text, i, room)}
<1>5. 0 \in T
  BY <1>3
<1>6. \A i \in 1 .. n : i - 1 \in T => i \in T
  <2> SUFFICES ASSUME NEW i \in 1 .. n, i - 1 # 0 => CutSound(f[i - 1], text, i - 1, room)
               PROVE  CutSound(f[i], text, i, room)
    BY <1>3
  <2>1. PICK j \in Nat : j = i - 1
    OBVIOUS
  <2>2. j + 1 = i /\ j + 1 =< Len(text)
    BY <1>3, <2>1
  <2>3. PICK x, acc, b : x = text[i] /\ acc = f[i - 1] /\ b = f[i]
    OBVIOUS
  <2>4. b = RoomAdd(acc, x, MaxChars, room)
    BY <1>4, <2>3
  <2>5. CASE j = 0
    <3>1. acc = NothingCut /\ i = 1 /\ x = text[1]
      BY <1>4, <2>1, <2>3, <2>5
    <3>2. b = RoomAdd(NothingCut, x, MaxChars, room)
      BY <2>4, <3>1
    <3>3. CutSound(b, text, 1, room)
      BY <3>1, <3>2, FirstSentence
    <3> QED
      BY <2>3, <3>1, <3>3
  <2>6. CASE j # 0
    <3>1. CutSound(acc, text, j, room)
      BY <2>1, <2>3, <2>6
    <3>2. x = text[j + 1]
      BY <2>2, <2>3
    <3>3. CutSound(b, text, j + 1, room)
      BY <2>2, <2>4, <3>1, <3>2, NextSentence
    <3> QED
      BY <2>2, <2>3, <3>3
  <2> QED
    BY <2>5, <2>6
<1> HIDE DEF T
<1>7. n \in T
  BY <1>5, <1>6, UpToEnd
<1>8. n # 0
  BY <1>3
<1>9. CutSound(f[n], text, n, room)
  BY <1>7, <1>8 DEF T
<1>10. Reaches(Chunks(f[n]), text, n, room)
  BY <1>9, CutReaches
<1> QED
  BY <1>3, <1>4, <1>10 DEF Windows, RoomCut

\* A text that fits is one chunk.
LEMMA WholeCovers ==
    ASSUME NEW text, Numbered(text), 1 =< Len(text), Joined(text) =< MaxChars, NEW room
    PROVE  Reaches(<<text>>, text, Len(text), room)
<1>1. PICK V : V = Sentence
  OBVIOUS
<1>2. text \in Seq(V)
  BY <1>1 DEF Numbered
<1>3. PICK n \in Nat : n = Len(text)
  BY <1>2
<1>4. n \in 1 .. Len(text)
  BY <1>3
<1>5. text = SubSeq(text, 1, n)
  BY <1>2, <1>3, SubSeqFull
<1>6. PICK s \in Seq(V), x \in V : s = SubSeq(text, 1, n - 1) /\ x = text[n]
  BY <1>2, <1>4, PrefixGrows
<1>7. text = Append(s, x)
  BY <1>2, <1>4, <1>5, <1>6, PrefixGrows
<1>8. Front(text) = s
  <2>1. Front(Append(s, x)) = s
    BY FrontOfAppend
  <2> QED
    BY <1>7, <2>1
<1>9. Joined(s) \in Int /\ Joined(text) \in Nat /\ Joined(s) =< Joined(text)
  <2>1. s \in Seq(Sentence) /\ x \in Sentence
    BY <1>1
  <2> QED
    BY <1>7, <2>1, JoinedGrows
<1>10. Joined(Front(text)) =< MaxChars
  <2>1. MaxChars \in Nat
    BY ChunkerAssumption
  <2> QED
    BY <1>8, <1>9, <2>1
<1>11. IsPiece(text, text, 1, n)
  BY <1>3, <1>5, <1>10 DEF IsPiece
<1>12. text \in Seq(Sentence) /\ From(text) = 1 /\ To(text) = n /\ IsChunk(text, text)
  BY <1>11, PieceIsChunk
<1>13. PICK cs : cs = <<text>>
  OBVIOUS
<1>14. cs \in Seq(Seq(Sentence)) /\ cs # <<>> /\ Len(cs) = 1
  <2>1. text \in Seq(Sentence)
    BY <1>12
  <2> QED
    BY <1>13, <2>1, NewsOne
<1>15. cs[1] = text /\ Last(cs) = text
  BY <1>13 DEF Last
<1>16. Reaches(cs, text, n, room)
  BY <1>12, <1>14, <1>15 DEF Reaches
<1> QED
  BY <1>3, <1>13, <1>16

\* The sentences of a text are numbered and there is one.
LEMMA TextFacts ==
    ASSUME NEW lens \in Seq(Nat), lens # <<>>, NEW in, in.lens = lens, NEW text, text = TextOf(in)
    PROVE  Numbered(text) /\ 1 =< Len(text)
<1>1. PICK n \in Nat : n = Len(lens)
  OBVIOUS
<1>2. DOMAIN lens = 1 .. n /\ (\A i \in 1 .. n : lens[i] \in Nat) /\ n # 0
  BY <1>1
<1>3. text = [i \in 1 .. n |-> [at |-> <<1, 1, i>>, len |-> lens[i], stop |-> TRUE]]
  BY <1>2 DEF TextOf
<1>4. \A i \in 1 .. n : text[i] \in Sentence
  BY <1>2, <1>3 DEF Sentence
<1>5. \A i \in 1 .. n : text[i].at = <<1, 1, i>>
  BY <1>3
<1>6. text = [i \in 1 .. n |-> text[i]] /\ DOMAIN text = 1 .. n
  BY <1>3
<1>7. text \in Seq(Sentence) /\ Len(text) = n
  BY <1>4, <1>6, IsASeq
<1>8. \A i \in 1 .. n : text[i].at[3] = i
  <2> SUFFICES ASSUME NEW i \in 1 .. n PROVE text[i].at[3] = i
    OBVIOUS
  <2>1. <<1, 1, i>>[3] = i
    OBVIOUS
  <2> QED
    BY <1>5, <2>1
<1> QED
  BY <1>2, <1>7, <1>8 DEF Numbered

\* Chunks that reach the end of the text cover it.
LEMMA ReachesCovers ==
    ASSUME NEW text, NEW room, NEW cs, Reaches(cs, text, Len(text), room)
    PROVE  /\ \A k \in DOMAIN cs : IsStretch(cs[k], text)
           /\ From(cs[1]) = 1 /\ To(Last(cs)) = Len(text)
           /\ \A k \in 1 .. Len(cs) - 1 : Follows(cs[k], cs[k + 1], text, room)
           /\ \A k \in DOMAIN cs : Joined(Front(cs[k])) =< MaxChars
<1>1. cs \in Seq(Seq(Sentence))
  BY DEF Reaches
<1>2. DOMAIN cs = 1 .. Len(cs)
  BY <1>1
<1>3. \A k \in DOMAIN cs : IsStretch(cs[k], text) /\ Joined(Front(cs[k])) =< MaxChars
  BY <1>2 DEF Reaches, IsChunk
<1> QED
  BY <1>3 DEF Reaches

\* ChunkText establishes its part, whatever the text and the overlap.
LEMMA TextStep ==
    ASSUME ChunkText
    PROVE  ChunksCover'
<1>1. PICK in \in PlainTexts :
        /\ given' = in
        /\ cut' = IF Joined(TextOf(in)) =< MaxChars THEN <<TextOf(in)>>
                  ELSE Windows(TextOf(in), MaxChars, FALSE, in.overlap)
  BY DEF ChunkText
<1>2. /\ in.kind = "text" /\ in.overlap \in Overlaps
      /\ in.lens \in SeqsUpTo(TextLens, MaxSentences) \ {<<>>}
  BY DEF PlainTexts
<1>3. PICK lens \in Seq(Nat) : lens = in.lens /\ lens # <<>>
  <2>1. in.lens \in Seq(TextLens)
    BY <1>2, ShortSeq, ChunkerAssumption
  <2>2. TextLens \subseteq Nat
    BY ChunkerAssumption
  <2>3. PICK N : N = Nat
    OBVIOUS
  <2>4. TextLens \subseteq N
    BY <2>2, <2>3
  <2>5. in.lens \in Seq(N)
    BY <2>1, <2>4
  <2> QED
    BY <1>2, <2>3, <2>5
<1>4. PICK text : text = TextOf(in)
  OBVIOUS
<1>5. Numbered(text) /\ 1 =< Len(text)
  BY <1>3, <1>4, TextFacts
<1>6. PICK room \in Nat : room = in.overlap /\ room =< MaxChars
  <2>1. MaxChars \in Nat /\ Overlaps \subseteq 0 .. MaxChars
    BY ChunkerAssumption
  <2>2. PICK r : r = in.overlap
    OBVIOUS
  <2>3. r \in 0 .. MaxChars
    BY <1>2, <2>1, <2>2
  <2>4. r \in Nat /\ r =< MaxChars
    BY <2>1, <2>3
  <2> QED
    BY <2>2, <2>4
<1>7. PICK cs : cs = cut'
  OBVIOUS
<1>8. Reaches(cs, text, Len(text), room)
  <2>1. CASE Joined(text) =< MaxChars
    <3>1. cs = <<text>>
      BY <1>1, <1>4, <1>7, <2>1
    <3>2. Reaches(<<text>>, text, Len(text), room)
      BY <1>5, <2>1, WholeCovers
    <3> QED
      BY <3>1, <3>2
  <2>2. CASE ~(Joined(text) =< MaxChars)
    <3>1. cs = Windows(text, MaxChars, FALSE, room)
      BY <1>1, <1>4, <1>6, <1>7, <2>2
    <3>2. Reaches(Windows(text, MaxChars, FALSE, room), text, Len(text), room)
      BY <1>5, <1>6, RoomCovers
    <3> QED
      BY <3>1, <3>2
  <2> QED
    BY <2>1, <2>2
<1>9. /\ \A k \in DOMAIN cs : IsStretch(cs[k], text)
      /\ From(cs[1]) = 1 /\ To(Last(cs)) = Len(text)
      /\ \A k \in 1 .. Len(cs) - 1 : Follows(cs[k], cs[k + 1], text, room)
      /\ \A k \in DOMAIN cs : Joined(Front(cs[k])) =< MaxChars
  BY <1>8, ReachesCovers
<1>10. given'.overlap = room /\ TextOf(given') = text /\ cut' = cs /\ given'.kind = "text"
  BY <1>1, <1>2, <1>4, <1>6, <1>7
<1>11. TextCovered'
  BY <1>9, <1>10 DEF TextCovered, Chunked
<1>12. SectionsCovered'
  BY <1>10 DEF SectionsCovered, Chunked
<1> QED
  BY <1>11, <1>12 DEF ChunksCover

\* ChunkDocument establishes its part, whatever the document.
LEMMA DocumentStep ==
    ASSUME ChunkDocument
    PROVE  ChunksCover'
<1>1. PICK P : P = Seq(Measure)
  OBVIOUS
<1>2. PICK in \in DocTexts :
        /\ given' = in
        /\ LET cs == IF in.sections = <<>> THEN ChunkSection(Paras(in.preamble, 0))
                     ELSE ChunkSections(Body(in))
           IN  cut' = IF cs = <<>> THEN <<WholeDoc(in)>> ELSE cs
  BY DEF ChunkDocument
<1>3. /\ in.kind = "document" /\ in.preamble \in SeqsUpTo(Paragraphs, 1)
      /\ in.sections \in SeqsUpTo(Sections, MaxHeadings)
  BY DEF DocTexts
<1>4. Paragraphs \subseteq P
  BY <1>1, ChunkerAssumption DEF Measure
<1>5. Sections \subseteq Seq(P)
  <2> SUFFICES ASSUME NEW x \in Sections PROVE x \in Seq(P)
    OBVIOUS
  <2>1. x \in Seq(Paragraphs)
    BY ShortSeq, ChunkerAssumption DEF Sections
  <2> QED
    BY <1>4, <2>1
<1>6. PICK pre \in Seq(Seq(Measure)) : pre = in.preamble
  <2>1. in.preamble \in Seq(Paragraphs)
    BY <1>3, ShortSeq
  <2>2. in.preamble \in Seq(P)
    BY <1>4, <2>1
  <2> QED
    BY <1>1, <2>2
<1>7. PICK secs \in Seq(Seq(Seq(Measure))) : secs = in.sections
  <2>1. in.sections \in Seq(Sections)
    BY <1>3, ShortSeq, ChunkerAssumption
  <2>2. PICK Q : Q = Seq(P)
    OBVIOUS
  <2>3. in.sections \in Seq(Q)
    BY <1>5, <2>1, <2>2
  <2> QED
    BY <1>1, <2>2, <2>3
<1>8. PICK cs, body :
        /\ cs = IF secs = <<>> THEN ChunkSection(Paras(pre, 0)) ELSE ChunkSections(Body(in))
        /\ body = IF secs = <<>> THEN Paras(pre, 0) ELSE Concat(Body(in))
  OBVIOUS
<1>9. Renders(cs, body)
  <2>1. CASE secs = <<>>
    <3>1. cs = ChunkSection(body) /\ body = Paras(pre, 0)
      BY <1>8, <2>1
    <3>2. PICK z \in Nat : z = 0
      OBVIOUS
    <3>3. body \in Seq(Seq(Sentence)) /\ AllNew(body)
      <4>1. body = Paras(pre, z)
        BY <3>1, <3>2
      <4> QED
        BY <4>1, ParasFacts
    <3>4. cs = ChunkSection(body)
      BY <3>1
    <3> QED
      BY <3>3, <3>4, SectionCovers
  <2>2. CASE secs # <<>>
    <3>1. PICK b : b = Body(in)
      OBVIOUS
    <3>2. b \in Seq(Seq(Seq(Sentence))) /\ AllFresh(b)
      BY <1>7, <3>1, BodyFacts
    <3>3. cs = ChunkSections(b) /\ body = Concat(b)
      BY <1>8, <2>2, <3>1
    <3>4. Renders(cs, Concat(b))
      BY <3>2, <3>3, SectionsCover
    <3> QED
      BY <3>3, <3>4
  <2> QED
    BY <2>1, <2>2
<1>10. Concat(News(cs)) = Concat(body) /\ (cs = <<>> => body = <<>>)
  BY <1>9 DEF Renders
<1>11. body # <<>> => Concat(News(cut')) = Concat(body)
  <2> SUFFICES ASSUME body # <<>> PROVE cut' = cs
    BY <1>10
  <2>1. cs # <<>>
    BY <1>10
  <2>2. cs = IF in.sections = <<>> THEN ChunkSection(Paras(in.preamble, 0)) ELSE ChunkSections(Body(in))
    BY <1>6, <1>7, <1>8
  <2> QED
    BY <1>2, <2>1, <2>2
<1>12. given'.kind = "document" /\ given' = in
  BY <1>2, <1>3
<1>13. SectionsCovered'
  <2>1. body = IF in.sections = <<>> THEN Paras(in.preamble, 0) ELSE Concat(Body(in))
    BY <1>6, <1>7, <1>8
  <2> QED
    BY <1>11, <1>12, <2>1 DEF SectionsCovered
<1>14. TextCovered'
  BY <1>12 DEF TextCovered, Chunked
<1> QED
  BY <1>13, <1>14 DEF ChunksCover

\* ChunkText and ChunkDocument lose, repeat and reorder nothing but the
\* overlap: the windows of a text reach from its beginning to its end without
\* a gap, and the chunks of a document, without what stood in the chunk
\* before, are its sections, for every text, every document and every limit.
THEOREM ChunksGiveBack == ChunkerSpec => []ChunksCover
<1>1. ChunkerInit => ChunksCover
  BY DEF ChunkerInit, NotYet, ChunksCover, TextCovered, SectionsCovered, Chunked
<1>2. ChunksCover /\ [ChunkerNext]_chunkVars => ChunksCover'
  <2> SUFFICES ASSUME ChunksCover, [ChunkerNext]_chunkVars PROVE ChunksCover'
    OBVIOUS
  <2>1. CASE ChunkText
    BY <2>1, TextStep
  <2>2. CASE ChunkDocument
    BY <2>2, DocumentStep
  <2>3. CASE UNCHANGED chunkVars
    BY <2>3 DEF chunkVars, ChunksCover, TextCovered, SectionsCovered, Chunked
  <2> QED
    BY <2>1, <2>2, <2>3 DEF ChunkerNext
<1> QED
  BY <1>1, <1>2, PTL DEF ChunkerSpec
=============================================================================
