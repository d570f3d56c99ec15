------------------------------ MODULE Prefixes ------------------------------
(***************************************************************************)
(* Facts about IsPrefix on the sequences over a set, cited by the proofs   *)
(* about append-only logs.                                                 *)
(***************************************************************************)
EXTENDS Integers, Sequences, SequencesExt, SequenceTheorems, TLAPS

\* IsPrefix, defined by SubSeq, compares the sequences element by element.
LEMMA PrefixElements ==
  ASSUME NEW S, NEW s \in Seq(S), NEW t \in Seq(S)
  PROVE  IsPrefix(s, t) <=> Len(s) <= Len(t) /\ \A i \in 1..Len(s) : s[i] = t[i]
<1>1. ASSUME Len(s) <= Len(t)
      PROVE  /\ SubSeq(t, 1, Len(s)) \in Seq(S)
             /\ Len(SubSeq(t, 1, Len(s))) = Len(s)
             /\ \A i \in 1..Len(s) : SubSeq(t, 1, Len(s))[i] = t[i]
  BY <1>1, SubSeqProperties, LenProperties
<1>2. SubSeq(s, 1, Len(s)) = s
  BY SubSeqFull
<1>3. ASSUME Len(s) <= Len(t), \A i \in 1..Len(s) : s[i] = t[i]
      PROVE  s = SubSeq(t, 1, Len(s))
  BY <1>1, <1>3, SeqEqual
<1> QED  BY <1>1, <1>2, <1>3 DEF IsPrefix

\* The sequence logs of a type are ordered by IsPrefix.
LEMMA PrefixReflexive ==
  ASSUME NEW S, NEW s \in Seq(S)
  PROVE  IsPrefix(s, s)
BY PrefixElements, LenProperties

\* A prefix of a prefix is a prefix.
LEMMA PrefixTransitive ==
  ASSUME NEW S, NEW s \in Seq(S), NEW t \in Seq(S), NEW u \in Seq(S),
         IsPrefix(s, t), IsPrefix(t, u)
  PROVE  IsPrefix(s, u)
BY PrefixElements, LenProperties

\* A prefix of full length is the sequence itself.
LEMMA PrefixEqual ==
  ASSUME NEW S, NEW s \in Seq(S), NEW t \in Seq(S), IsPrefix(s, t), Len(t) <= Len(s)
  PROVE  s = t
BY PrefixElements, LenProperties, SeqEqual

\* The empty sequence is a prefix of every sequence.
LEMMA PrefixEmpty ==
  ASSUME NEW S, NEW s \in Seq(S)
  PROVE  /\ IsPrefix(<<>>, s)
         /\ IsPrefix(s, <<>>) => s = <<>>
<1>1. <<>> \in Seq(S) /\ Len(<<>>) = 0 /\ Len(s) \in Nat
  BY EmptySeq, LenProperties
<1>2. IsPrefix(<<>>, s)
  <2> DEFINE e == <<>>
  <2>1. e \in Seq(S) /\ Len(e) = 0
    BY <1>1
  <2> HIDE DEF e
  <2>2. Len(e) <= Len(s) /\ \A i \in 1..Len(e) : e[i] = s[i]
    BY <1>1, <2>1
  <2>3. IsPrefix(e, s)
    BY <2>1, <2>2, PrefixElements
  <2> QED  BY <2>3 DEF e
<1>3. ASSUME IsPrefix(s, <<>>)  PROVE s = <<>>
  <2>1. Len(s) = 0
    BY <1>1, <1>3 DEF IsPrefix
  <2> QED  BY <1>1, <2>1, EmptySeq
<1> QED  BY <1>2, <1>3

\* An append extends what it was applied to.
LEMMA PrefixAppend ==
  ASSUME NEW S, NEW s \in Seq(S), NEW e \in S
  PROVE  Append(s, e) \in Seq(S) /\ IsPrefix(s, Append(s, e))
<1>1. /\ Append(s, e) \in Seq(S)
      /\ Len(Append(s, e)) = Len(s) + 1
      /\ \A i \in 1..Len(s) : Append(s, e)[i] = s[i]
  BY AppendProperties
<1>2. Len(s) \in Nat
  BY LenProperties
<1> DEFINE t == Append(s, e)
<1> HIDE DEF t
<1>3. t \in Seq(S) /\ IsPrefix(s, t)
  <2>1. t \in Seq(S) /\ Len(s) <= Len(t) /\ \A i \in 1..Len(s) : s[i] = t[i]
    BY <1>1, <1>2 DEF t
  <2> QED  BY <2>1, PrefixElements
<1> QED  BY <1>3 DEF t

\* Of two prefixes of one sequence the shorter is a prefix of the longer.
LEMMA PrefixComparable ==
  ASSUME NEW S, NEW s \in Seq(S), NEW t \in Seq(S), NEW u \in Seq(S),
         IsPrefix(s, u), IsPrefix(t, u), Len(s) <= Len(t)
  PROVE  IsPrefix(s, t)
BY PrefixElements, LenProperties

\* A prefix is no longer than the sequence.
LEMMA PrefixLength ==
  ASSUME NEW S, NEW s \in Seq(S), NEW t \in Seq(S), IsPrefix(s, t)
  PROVE  Len(s) \in Nat /\ Len(t) \in Nat /\ Len(s) <= Len(t)
BY PrefixElements, LenProperties
=============================================================================
