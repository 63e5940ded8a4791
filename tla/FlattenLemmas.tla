---------------------------- MODULE FlattenLemmas ----------------------------
(***************************************************************************)
(* Lemmas about FlattenSeq, for sequences of any length: what a block or a *)
(* client's view is made of is flattened from flashblocks, so that what is *)
(* proved of them needs induction on the number of flashblocks. The        *)
(* library states induction for an operator, which the provers cannot      *)
(* instantiate; here it is stated for a set, and proved from the least     *)
(* element that a non-empty set of numbers has.                            *)
(***************************************************************************)
EXTENDS Integers, SequencesExt, SequenceTheorems, WellFoundedInduction, TLAPS

LEMMA NatSetInduction ==
  ASSUME NEW X, 0 \in X, \A n \in Nat : n \in X => n + 1 \in X
  PROVE  \A n \in Nat : n \in X
<1> DEFINE R == OpToRel(<, Nat)
           Rest == Nat \ X
<1> SUFFICES ASSUME Rest # {} PROVE FALSE
  OBVIOUS
<1>1. IsWellFoundedOn(R, Nat)
  BY NatLessThanWellFounded
<1>2. R = {ss \in Nat \X Nat : ss[1] < ss[2]}
  BY DEF OpToRel
<1> HIDE DEF R
<1>3. PICK least \in Rest : \A y \in Rest : ~(<<y, least>> \in R)
  <2>1. Rest \subseteq Nat OBVIOUS
  <2> HIDE DEF Rest
  <2> QED BY <1>1, <2>1, WFMin
<1>4. least - 1 \in Rest
  <2>1. least # 0 /\ least \in Nat OBVIOUS
  <2> QED BY <2>1
<1>5. <<least - 1, least>> \in R
  BY <1>2, <1>4
<1> QED BY <1>3, <1>4, <1>5

\* What holds of the empty sequence and is kept by Append holds of every sequence.
LEMMA SeqSetInduction ==
  ASSUME NEW T, NEW X, <<>> \in X,
         \A s \in Seq(T) : s \in X => \A e \in T : Append(s, e) \in X
  PROVE  \A s \in Seq(T) : s \in X
<1> DEFINE N == {n \in Nat : \A s \in Seq(T) : Len(s) = n => s \in X}
<1>1. 0 \in N
  BY EmptySeq
<1>2. ASSUME NEW n \in Nat, n \in N PROVE n + 1 \in N
  <2> SUFFICES ASSUME NEW s \in Seq(T), Len(s) = n + 1 PROVE s \in X
    OBVIOUS
  <2>1. s # <<>>
    BY EmptySeq
  <2>2. PICK front \in Seq(T), e \in T : s = Append(front, e)
    BY <2>1, SequenceEmptyOrAppend
  <2>3. Len(front) = n
    BY <2>2, AppendProperties, LenProperties
  <2> QED BY <1>2, <2>2, <2>3
<1> HIDE DEF N
<1>3. \A n \in Nat : n \in N
  BY <1>1, <1>2, NatSetInduction
<1> QED BY <1>3, LenProperties DEF N

----------------------------------------------------------------------------
(* FlattenSeq *)

IsFlatten(f, ss, n) ==
  f = [i \in 1..n |-> IF i = 1 THEN ss[i] ELSE f[i - 1] \o ss[i]]

\* The function that FlattenSeq is defined by exists.
LEMMA FlattenExists ==
  ASSUME NEW ss, NEW n \in Nat
  PROVE  \E f : IsFlatten(f, ss, n)
<1> DEFINE X == {k \in Nat : \E f : IsFlatten(f, ss, k)}
<1>1. 0 \in X
  <2>1. IsFlatten([i \in 1..0 |-> 0], ss, 0) BY DEF IsFlatten
  <2> QED BY <2>1
<1>2. ASSUME NEW k \in Nat, k \in X PROVE k + 1 \in X
  <2>1. PICK f : IsFlatten(f, ss, k) BY <1>2
  <2>2. \A i \in 1..k : f[i] = IF i = 1 THEN ss[i] ELSE f[i - 1] \o ss[i]
    BY <2>1 DEF IsFlatten
  <2> DEFINE last == IF k = 0 THEN ss[k + 1] ELSE f[k] \o ss[k + 1]
             g == [i \in 1..(k + 1) |-> IF i = k + 1 THEN last ELSE f[i]]
  <2>3. ASSUME NEW i \in 1..(k + 1)
        PROVE  g[i] = IF i = 1 THEN ss[i] ELSE g[i - 1] \o ss[i]
    <3>1. CASE i = k + 1 BY <3>1
    <3>2. CASE i # k + 1
      <4>1. i \in 1..k /\ (i # 1 => i - 1 \in 1..(k + 1) /\ i - 1 # k + 1) BY <3>2
      <4> QED BY <4>1, <3>2, <2>2
    <3> QED BY <3>1, <3>2
  <2>4. IsFlatten(g, ss, k + 1)
    BY <2>3 DEF IsFlatten
  <2> QED BY <2>4
<1> HIDE DEF X
<1>3. n \in X
  BY <1>1, <1>2, NatSetInduction
<1> QED BY <1>3 DEF X

LEMMA FlattenValue ==
  ASSUME NEW ss, Len(ss) \in Nat \ {0}
  PROVE  \E f : IsFlatten(f, ss, Len(ss)) /\ FlattenSeq(ss) = f[Len(ss)]
<1>1. PICK f : IsFlatten(f, ss, Len(ss))
  BY FlattenExists
<1>2. FlattenSeq(ss) = (CHOOSE g : IsFlatten(g, ss, Len(ss)))[Len(ss)]
  BY DEF FlattenSeq, IsFlatten
<1> QED BY <1>1, <1>2

LEMMA FlattenEmpty == FlattenSeq(<<>>) = <<>>
BY DEF FlattenSeq

\* One more sequence at the end.
LEMMA FlattenAppend ==
  ASSUME NEW S, NEW ss \in Seq(Seq(S)), NEW s \in Seq(S)
  PROVE  FlattenSeq(Append(ss, s)) = FlattenSeq(ss) \o s
<1> DEFINE T == Seq(S)
           n == Len(ss)
           tt == Append(ss, s)
<1> HIDE DEF T
<1>1. /\ n \in Nat /\ Len(tt) = n + 1
      /\ \A i \in 1..n : tt[i] = ss[i]
      /\ tt[n + 1] = s
  <2>1. ss \in Seq(T) /\ s \in T BY DEF T
  <2> QED BY <2>1, AppendProperties, LenProperties
<1> HIDE DEF tt
<1>2. PICK g : IsFlatten(g, tt, n + 1) /\ FlattenSeq(tt) = g[n + 1]
  BY <1>1, FlattenValue
<1>3. CASE n = 0
  <2>1. ss = <<>> /\ <<>> \o s = s
    <3>1. ss \in Seq(T) BY DEF T
    <3> QED BY <1>3, <3>1, EmptySeq, ConcatEmptySeq
  <2>2. g[1] = s BY <1>1, <1>2, <1>3 DEF IsFlatten
  <2> QED BY <1>2, <1>3, <2>1, <2>2, FlattenEmpty DEF tt
<1>4. CASE n # 0
  <2>1. PICK f : IsFlatten(f, ss, n) /\ FlattenSeq(ss) = f[n]
    BY <1>1, <1>4, FlattenValue
  <2>2. /\ \A i \in 1..n : f[i] = IF i = 1 THEN ss[i] ELSE f[i - 1] \o ss[i]
        /\ \A i \in 1..(n + 1) : g[i] = IF i = 1 THEN tt[i] ELSE g[i - 1] \o tt[i]
    BY <1>2, <2>1 DEF IsFlatten
  <2> DEFINE X == {k \in Nat : k \in 1..n => g[k] = f[k]}
  <2>3. 0 \in X
    OBVIOUS
  <2>4. ASSUME NEW k \in Nat, k \in X PROVE k + 1 \in X
    <3> SUFFICES ASSUME k + 1 \in 1..n PROVE g[k + 1] = f[k + 1]
      OBVIOUS
    <3>1. k + 1 \in 1..(n + 1) /\ (k + 1) - 1 = k /\ tt[k + 1] = ss[k + 1]
      BY <1>1
    <3>2. CASE k = 0 BY <3>1, <3>2, <2>2
    <3>3. CASE k # 0
      <4>1. g[k] = f[k] BY <2>4, <3>3, <1>1
      <4> QED BY <3>1, <3>3, <4>1, <2>2, SMTT(30)
    <3> QED BY <3>2, <3>3
  <2> HIDE DEF X
  <2>5. n \in X
    BY <1>1, <2>3, <2>4, NatSetInduction
  <2>6. g[n] = f[n]
    BY <1>1, <1>4, <2>5 DEF X
  <2>7. g[n + 1] = g[n] \o tt[n + 1]
    <3>1. n + 1 \in 1..(n + 1) /\ n + 1 # 1 /\ (n + 1) - 1 = n BY <1>1, <1>4
    <3> QED BY <3>1, <2>2
  <2> QED BY <1>1, <1>2, <2>1, <2>6, <2>7 DEF tt
<1> QED BY <1>3, <1>4

LEMMA FlattenType ==
  ASSUME NEW S, NEW ss \in Seq(Seq(S))
  PROVE  FlattenSeq(ss) \in Seq(S)
<1> DEFINE T == Seq(S)
           X == {tt \in Seq(T) : FlattenSeq(tt) \in T}
<1>1. <<>> \in X
  BY FlattenEmpty, EmptySeq
<1>2. ASSUME NEW tt \in Seq(T), tt \in X, NEW s \in T PROVE Append(tt, s) \in X
  <2>1. FlattenSeq(Append(tt, s)) = FlattenSeq(tt) \o s
    BY FlattenAppend
  <2>2. FlattenSeq(tt) \o s \in T
    BY <1>2, ConcatProperties
  <2>3. Append(tt, s) \in Seq(T)
    <3> HIDE DEF T
    <3> QED BY AppendProperties
  <2> QED BY <2>1, <2>2, <2>3
<1> HIDE DEF X, T
<1>3. \A tt \in Seq(T) : tt \in X
  BY <1>1, <1>2, SeqSetInduction
<1> QED BY <1>3 DEF X, T

LEMMA FlattenConcat ==
  ASSUME NEW S, NEW ss \in Seq(Seq(S)), NEW tt \in Seq(Seq(S))
  PROVE  FlattenSeq(ss \o tt) = FlattenSeq(ss) \o FlattenSeq(tt)
<1> DEFINE T == Seq(S)
           X == {uu \in Seq(T) : FlattenSeq(ss \o uu) = FlattenSeq(ss) \o FlattenSeq(uu)}
<1>1. <<>> \in X
  <2>1. ss \o <<>> = ss
    <3> HIDE DEF T
    <3>1. ss \in Seq(T) BY DEF T
    <3> QED BY <3>1, ConcatEmptySeq
  <2>2. FlattenSeq(ss) \o <<>> = FlattenSeq(ss)
    BY FlattenType, ConcatEmptySeq
  <2> QED BY <2>1, <2>2, FlattenEmpty, EmptySeq
<1>2. ASSUME NEW uu \in Seq(T), uu \in X, NEW s \in T PROVE Append(uu, s) \in X
  <2>1. /\ ss \o Append(uu, s) = Append(ss \o uu, s)
        /\ ss \o uu \in Seq(T) /\ Append(uu, s) \in Seq(T)
    <3> HIDE DEF T
    <3>1. ss \in Seq(T) BY DEF T
    <3>2. ss \o uu \in Seq(T) /\ Append(uu, s) \in Seq(T)
      BY <3>1, AppendProperties, ConcatProperties
    <3>3. Append(ss \o uu, s) = (ss \o uu) \o <<s>> /\ Append(uu, s) = uu \o <<s>> /\ <<s>> \in Seq(T)
      BY <3>2, AppendIsConcat
    <3>4. (ss \o uu) \o <<s>> = ss \o (uu \o <<s>>)
      <4>1. uu \in Seq(T) /\ <<s>> \in Seq(T) BY <1>2, <3>3
      <4> HIDE DEF X
      <4> QED BY <3>1, <4>1, ConcatAssociative, SMTT(30)
    <3> QED BY <3>2, <3>3, <3>4
  <2>2. FlattenSeq(Append(ss \o uu, s)) = FlattenSeq(ss \o uu) \o s
    BY <2>1, FlattenAppend
  <2>3. FlattenSeq(Append(uu, s)) = FlattenSeq(uu) \o s
    BY FlattenAppend
  <2>4. (FlattenSeq(ss) \o FlattenSeq(uu)) \o s = FlattenSeq(ss) \o (FlattenSeq(uu) \o s)
    <3>1. FlattenSeq(ss) \in T /\ FlattenSeq(uu) \in T BY FlattenType
    <3> QED BY <3>1, ConcatAssociative, SMTT(30)
  <2> QED BY <1>2, <2>1, <2>2, <2>3, <2>4
<1> HIDE DEF X, T
<1>3. \A uu \in Seq(T) : uu \in X
  BY <1>1, <1>2, SeqSetInduction
<1> QED BY <1>3 DEF X, T

\* Nothing comes of sequences that are all empty.
LEMMA FlattenOfEmpty ==
  ASSUME NEW S, NEW ss \in Seq(Seq(S)), \A i \in 1..Len(ss) : ss[i] = <<>>
  PROVE  FlattenSeq(ss) = <<>>
<1> DEFINE T == {<<>>}
           X == {uu \in Seq(T) : FlattenSeq(uu) = <<>>}
<1>1. ss \in Seq(T)
  <2>1. Len(ss) \in Nat /\ ss \in [1..Len(ss) -> Seq(S)] BY LenProperties
  <2>2. ss \in [1..Len(ss) -> T] BY <2>1
  <2> HIDE DEF T
  <2> QED BY <2>1, <2>2, SeqDef
<1>2. <<>> \in X
  BY FlattenEmpty, EmptySeq
<1>3. ASSUME NEW uu \in Seq(T), uu \in X, NEW s \in T PROVE Append(uu, s) \in X
  <2>1. Append(uu, s) \in Seq(T)
    <3> HIDE DEF T
    <3> QED BY AppendProperties
  <2>2. uu \in Seq(Seq({})) /\ s \in Seq({})
    <3>1. T \subseteq Seq({}) BY EmptySeq
    <3> QED BY <3>1, SeqMonotonic
  <2>3. FlattenSeq(Append(uu, s)) = <<>> \o <<>>
    BY <1>3, <2>2, FlattenAppend
  <2> QED BY <2>1, <2>3
<1> HIDE DEF X, T
<1>4. \A uu \in Seq(T) : uu \in X
  BY <1>2, <1>3, SeqSetInduction
<1> QED BY <1>1, <1>4 DEF X

\* What is flattened can be cut in two.
LEMMA FlattenSplit ==
  ASSUME NEW S, NEW ss \in Seq(Seq(S)), NEW m \in 0..Len(ss)
  PROVE  FlattenSeq(ss) = FlattenSeq(SubSeq(ss, 1, m)) \o FlattenSeq(SubSeq(ss, m + 1, Len(ss)))
<1> DEFINE T == Seq(S)
           head == SubSeq(ss, 1, m)
           rest == SubSeq(ss, m + 1, Len(ss))
<1>1. ss \in Seq(T)
  OBVIOUS
<1> HIDE DEF T
<1>2. Len(ss) \in Nat /\ \A i \in 1..Len(ss) : ss[i] \in T
  BY <1>1, LenProperties, ElementOfSeq
<1>3. head \in Seq(T)
  <2>1. 1 \in Int /\ m \in Int /\ \A i \in 1..m : ss[i] \in T BY <1>2
  <2> QED BY <2>1, SubSeqProperties
<1>4. rest \in Seq(T)
  <2>1. m + 1 \in Int /\ Len(ss) \in Int /\ \A i \in (m + 1)..Len(ss) : ss[i] \in T BY <1>2
  <2> QED BY <2>1, SubSeqProperties
<1>5. head \o rest = ss
  <2>1. 1 \in 1..(Len(ss) + 1) /\ m \in (1 - 1)..Len(ss) /\ Len(ss) \in m..Len(ss) BY <1>2
  <2>2. head \o rest = SubSeq(ss, 1, Len(ss)) BY <1>1, <2>1, ConcatAdjacentSubSeq
  <2> QED BY <1>1, <2>2, SubSeqFull
<1> HIDE DEF head, rest
<1>6. FlattenSeq(head \o rest) = FlattenSeq(head) \o FlattenSeq(rest)
  BY <1>3, <1>4, FlattenConcat DEF T
<1> QED BY <1>5, <1>6 DEF head, rest

LEMMA PrefixOfConcat ==
  ASSUME NEW S, NEW s \in Seq(S), NEW u \in Seq(S)
  PROVE  IsPrefix(s, s \o u)
<1> DEFINE t == s \o u
           n == Len(s)
<1>1. /\ t \in Seq(S) /\ Len(t) = n + Len(u) /\ n \in Nat /\ Len(u) \in Nat
      /\ \A i \in 1..(n + Len(u)) : t[i] = IF i <= n THEN s[i] ELSE u[i - n]
  BY ConcatProperties, LenProperties
<1> HIDE DEF t
<1>2. \A i \in 1..n : t[i] = s[i] /\ s[i] \in S
  BY <1>1, ElementOfSeq
<1>3. /\ SubSeq(t, 1, n) \in Seq(S) /\ Len(SubSeq(t, 1, n)) = n
      /\ \A i \in 1..n : SubSeq(t, 1, n)[i] = t[i]
  <2>1. 1 \in Int /\ n \in Int /\ \A i \in 1..n : t[i] \in S BY <1>1, <1>2
  <2>2. /\ SubSeq(t, 1, n) \in Seq(S) /\ Len(SubSeq(t, 1, n)) = IF 1 <= n THEN n - 1 + 1 ELSE 0
        /\ \A i \in 1..(n - 1 + 1) : SubSeq(t, 1, n)[i] = t[1 + i - 1]
    BY <2>1, SubSeqProperties
  <2> QED BY <2>2, <1>1
<1>4. SubSeq(t, 1, n) = s
  BY <1>2, <1>3, SeqEqual
<1>5. SubSeq(s, 1, n) = s
  BY SubSeqFull
<1>6. n <= Len(t)
  BY <1>1
<1> QED BY <1>4, <1>5, <1>6 DEF IsPrefix, t
=============================================================================
