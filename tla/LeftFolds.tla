----------------------------- MODULE LeftFolds -----------------------------
(***************************************************************************)
(* Loops over a sequence as recursive functions over its prefixes.  They   *)
(* compute what FoldLeft and SelectSeq do; a recursive function is the     *)
(* form the proof system expands.                                          *)
(***************************************************************************)
EXTENDS Naturals, Sequences

\* for _, x := range s { acc = op(acc, x) }
LeftFold(op(_, _), base, s) ==
    LET upTo[i \in 0 .. Len(s)] == IF i = 0 THEN base ELSE op(upTo[i - 1], s[i])
    IN  upTo[Len(s)]

\* The sequences of ss, one after the other.
Concat(ss) == LeftFold(LAMBDA out, s : out \o s, <<>>, ss)

\* The elements of s that lie in S, in the order of s.
Only(s, S) == LeftFold(LAMBDA out, x : IF x \in S THEN Append(out, x) ELSE out, <<>>, s)

\* The elements of s that do not lie in S.
Without(s, S) == Only(s, {s[i] : i \in DOMAIN s} \ S)
=============================================================================
