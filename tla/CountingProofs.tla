--------------------------- MODULE CountingProofs ---------------------------
(***************************************************************************)
(* What the operations on sequences do to the number of occurrences of an  *)
(* element.                                                                *)
(***************************************************************************)
EXTENDS Counting, FiniteSetTheorems, FunctionTheorems, SequenceTheorems,
        WellFoundedInduction, TLAPS

\* A sequence has finitely many places where an element may occur.
LEMMA OccurrencesType ==
    ASSUME NEW S, NEW s \in Seq(S), NEW e
    PROVE  /\ IsFiniteSet({k \in DOMAIN s : s[k] = e})
           /\ Occurrences(e, s) \in Nat
           /\ Occurrences(e, s) = 0 <=> \A k \in DOMAIN s : s[k] # e
<1> DEFINE K == {k \in DOMAIN s : s[k] = e}
<1>1. IsFiniteSet(1 .. Len(s))
  BY FS_Interval, LenProperties
<1>2. K \subseteq 1 .. Len(s)
  BY LenProperties
<1>3. IsFiniteSet(K)
  BY <1>1, <1>2, FS_Subset
<1>4. Cardinality(K) \in Nat /\ (Cardinality(K) = 0 <=> K = {})
  BY <1>3, FS_CardinalityType, FS_EmptySet
<1> QED
  BY <1>3, <1>4 DEF Occurrences

\* Nothing occurs in the empty sequence.
LEMMA OccurrencesEmpty ==
    ASSUME NEW e
    PROVE  Occurrences(e, <<>>) = 0
<1>1. {k \in DOMAIN <<>> : <<>>[k] = e} = {}
  OBVIOUS
<1> QED
  BY <1>1, FS_EmptySet DEF Occurrences

\* Append adds one occurrence of the element it appends.
LEMMA OccurrencesAppend ==
    ASSUME NEW S, NEW s \in Seq(S), NEW x \in S, NEW e
    PROVE  Occurrences(e, Append(s, x)) =
              Occurrences(e, s) + (IF x = e THEN 1 ELSE 0)
<1> DEFINE K == {k \in DOMAIN s : s[k] = e}
           L == {k \in DOMAIN Append(s, x) : Append(s, x)[k] = e}
           n == Len(s) + 1
<1>1. IsFiniteSet(K) /\ Cardinality(K) \in Nat
  BY OccurrencesType DEF Occurrences
<1>2. /\ Len(s) \in Nat
      /\ DOMAIN s = 1 .. Len(s)
      /\ DOMAIN Append(s, x) = 1 .. n
      /\ Append(s, x)[n] = x
      /\ \A k \in 1 .. Len(s) : Append(s, x)[k] = s[k]
  BY AppendProperties, LenProperties
<1>3. n \notin K
  BY <1>2
<1>4. CASE x = e
  <2>1. L = K \cup {n}
    BY <1>2, <1>4
  <2>2. Cardinality(L) = Cardinality(K) + 1
    BY <1>1, <1>3, <2>1, FS_AddElement
  <2> QED
    BY <1>4, <2>2 DEF Occurrences
<1>5. CASE x # e
  <2>1. L = K
    BY <1>2, <1>5
  <2>2. Occurrences(e, Append(s, x)) = Occurrences(e, s)
    BY <2>1, Zenon DEF Occurrences
  <2>3. Occurrences(e, s) \in Nat
    BY OccurrencesType
  <2> QED
    BY <1>5, <2>2, <2>3
<1> QED
  BY <1>4, <1>5

\* Tail loses one occurrence of the element at the head.
LEMMA OccurrencesTail ==
    ASSUME NEW S, NEW s \in Seq(S), s # <<>>, NEW e
    PROVE  Occurrences(e, s) =
              Occurrences(e, Tail(s)) + (IF Head(s) = e THEN 1 ELSE 0)
<1> DEFINE K == {k \in DOMAIN s : s[k] = e}
           L == {k \in DOMAIN Tail(s) : Tail(s)[k] = e}
           M == K \ {1}
           f == [k \in L |-> k + 1]
<1>1. /\ Len(s) \in Nat /\ Len(s) > 0
      /\ DOMAIN s = 1 .. Len(s)
      /\ Tail(s) \in Seq(S)
      /\ DOMAIN Tail(s) = 1 .. Len(s) - 1
      /\ Head(s) = s[1]
      /\ \A k \in 1 .. Len(s) - 1 : Tail(s)[k] = s[k + 1]
  BY HeadTailProperties, LenProperties, EmptySeq
<1>2. IsFiniteSet(K) /\ Cardinality(K) \in Nat
  BY OccurrencesType DEF Occurrences
<1>3. IsFiniteSet(L) /\ Cardinality(L) \in Nat
  <2>1. Tail(s) \in Seq(S)
    BY <1>1
  <2>2. IsFiniteSet(L)
    BY <2>1, OccurrencesType, Zenon
  <2> QED
    BY <2>2, FS_CardinalityType
<1>4. f \in Bijection(L, M)
  <2>1. f \in [L -> M]
    BY <1>1
  <2>2. \A a, b \in L : f[a] = f[b] => a = b
    BY <1>1
  <2>3. \A m \in M : \E a \in L : f[a] = m
    <3>1. TAKE m \in M
    <3>2. m - 1 \in L /\ f[m - 1] = m
      BY <1>1
    <3> QED
      BY <3>2
  <2> QED
    BY <2>1, <2>2, <2>3, Fun_IsBij, Zenon
<1>5. Cardinality(M) = Cardinality(L)
  <2>1. ExistsBijection(L, M)
    BY <1>4, Zenon DEF ExistsBijection
  <2> QED
    BY <1>3, <2>1, FS_Bijection
<1>6. /\ Occurrences(e, s) = Cardinality(K)
      /\ Occurrences(e, Tail(s)) = Cardinality(L)
  BY Zenon DEF Occurrences
<1> HIDE DEF K, L, M
<1>7. CASE Head(s) = e
  <2>1. 1 \in K
    BY <1>1, <1>7 DEF K
  <2>2. Cardinality(M) = Cardinality(K) - 1
    BY <1>2, <2>1, FS_RemoveElement DEF M
  <2> QED
    BY <1>6, <1>2, <1>3, <1>5, <1>7, <2>2
<1>8. CASE Head(s) # e
  <2>1. M = K
    BY <1>1, <1>8 DEF M, K
  <2> QED
    BY <1>6, <1>3, <1>5, <1>8, <2>1
<1> QED
  BY <1>7, <1>8

\* What occurs in a concatenation occurs in one part or the other.
LEMMA OccurrencesConcat ==
    ASSUME NEW S, NEW s \in Seq(S), NEW r \in Seq(S), NEW e
    PROVE  Occurrences(e, s \o r) = Occurrences(e, s) + Occurrences(e, r)
<1> DEFINE n == Len(s)
           K == {k \in DOMAIN s : s[k] = e}
           L == {k \in DOMAIN r : r[k] = e}
           M == {k \in DOMAIN (s \o r) : (s \o r)[k] = e}
           H == M \ K
           f == [k \in L |-> k + n]
<1>1. /\ n \in Nat /\ Len(r) \in Nat
      /\ DOMAIN s = 1 .. n /\ DOMAIN r = 1 .. Len(r)
      /\ DOMAIN (s \o r) = 1 .. n + Len(r)
      /\ \A k \in 1 .. n : (s \o r)[k] = s[k]
      /\ \A k \in 1 .. Len(r) : (s \o r)[k + n] = r[k]
  BY ConcatProperties, LenProperties
<1>2. IsFiniteSet(K) /\ Cardinality(K) \in Nat
  BY OccurrencesType DEF Occurrences
<1>3. IsFiniteSet(L) /\ Cardinality(L) \in Nat
  BY OccurrencesType DEF Occurrences
<1>4. f \in Bijection(L, H)
  <2>1. f \in [L -> H]
    BY <1>1
  <2>2. \A a, b \in L : f[a] = f[b] => a = b
    BY <1>1
  <2>3. \A m \in H : \E a \in L : f[a] = m
    <3>1. TAKE m \in H
    <3>2. m - n \in L /\ f[m - n] = m
      BY <1>1
    <3> QED
      BY <3>2
  <2> QED
    BY <2>1, <2>2, <2>3, Fun_IsBij, Zenon
<1>5. IsFiniteSet(H) /\ Cardinality(H) = Cardinality(L)
  <2>1. ExistsBijection(L, H)
    BY <1>4, Zenon DEF ExistsBijection
  <2> QED
    BY <1>3, <2>1, FS_Bijection
<1>6. M = K \cup H /\ K \cap H = {}
  BY <1>1
<1>7. /\ Occurrences(e, s) = Cardinality(K)
      /\ Occurrences(e, r) = Cardinality(L)
      /\ Occurrences(e, s \o r) = Cardinality(M)
  BY Zenon DEF Occurrences
<1> HIDE DEF K, L, M, H
<1>8. Cardinality(M) = Cardinality(K) + Cardinality(H) - Cardinality(K \cap H)
  BY <1>2, <1>5, <1>6, FS_Union
<1>9. Cardinality(K \cap H) = 0
  BY <1>6, FS_EmptySet
<1> QED
  BY <1>2, <1>3, <1>5, <1>7, <1>8, <1>9

\* A sequence with one element.
LEMMA OccurrencesSingle ==
    ASSUME NEW S, NEW x \in S, NEW e
    PROVE  Occurrences(e, <<x>>) = IF x = e THEN 1 ELSE 0
<1>1. <<>> \in Seq(S) /\ <<x>> = Append(<<>>, x)
  OBVIOUS
<1>2. Occurrences(e, Append(<<>>, x)) = Occurrences(e, <<>>) + (IF x = e THEN 1 ELSE 0)
  BY <1>1, OccurrencesAppend
<1> QED
  BY <1>1, <1>2, OccurrencesEmpty

\* A sequence cut in two keeps its elements.
LEMMA OccurrencesCut ==
    ASSUME NEW S, NEW s \in Seq(S), NEW i \in 0 .. Len(s), NEW e
    PROVE  /\ SubSeq(s, 1, i) \in Seq(S)
           /\ SubSeq(s, i + 1, Len(s)) \in Seq(S)
           /\ s = SubSeq(s, 1, i) \o SubSeq(s, i + 1, Len(s))
           /\ Occurrences(e, s) = Occurrences(e, SubSeq(s, 1, i))
                                    + Occurrences(e, SubSeq(s, i + 1, Len(s)))
<1>1. /\ SubSeq(s, 1, i) \in Seq(S)
      /\ SubSeq(s, i + 1, Len(s)) \in Seq(S)
  <2>1. Len(s) \in Nat /\ \A k \in 1 .. Len(s) : s[k] \in S
    BY LenProperties, ElementOfSeq
  <2>2. SubSeq(s, 1, i) \in Seq(S)
    BY <2>1, SubSeqProperties
  <2>3. SubSeq(s, i + 1, Len(s)) \in Seq(S)
    BY <2>1, SubSeqProperties
  <2> QED
    BY <2>2, <2>3
<1>2. s = SubSeq(s, 1, i) \o SubSeq(s, i + 1, Len(s))
  <2>1. Len(s) \in Nat
    BY LenProperties
  <2>2. 1 \in 1 .. Len(s) + 1 /\ i \in 1 - 1 .. Len(s) /\ Len(s) \in i .. Len(s)
    BY <2>1
  <2>3. SubSeq(s, 1, i) \o SubSeq(s, i + 1, Len(s)) = SubSeq(s, 1, Len(s))
    BY <2>2, ConcatAdjacentSubSeq
  <2> QED
    BY <2>3, SubSeqFull
<1>3. Occurrences(e, SubSeq(s, 1, i) \o SubSeq(s, i + 1, Len(s)))
         = Occurrences(e, SubSeq(s, 1, i)) + Occurrences(e, SubSeq(s, i + 1, Len(s)))
  BY <1>1, OccurrencesConcat
<1> QED
  BY <1>1, <1>2, <1>3, Zenon

\* Every nonempty set of numbers has a least element.
LEMMA LeastNumber ==
    ASSUME NEW T \in SUBSET Nat, T # {}
    PROVE  \E n \in T : \A m \in T : n <= m
<1>1. PICK n \in T : \A m \in T : ~ (<<m, n>> \in OpToRel(<, Nat))
  BY NatLessThanWellFounded, WFMin
<1>2. \A m \in T : ~ (m < n)
  BY <1>1 DEF OpToRel
<1>3. n \in Nat /\ \A m \in T : m \in Nat
  OBVIOUS
<1>4. \A m \in T : n <= m
  BY <1>2, <1>3
<1> QED
  BY <1>4
=============================================================================
