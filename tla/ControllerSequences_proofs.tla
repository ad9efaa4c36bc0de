--------------------- MODULE ControllerSequences_proofs ---------------------
(***************************************************************************)
(* Facts about sequences that the proofs about Controller keep needing:    *)
(* what is in a queue after Append, concatenation, RemoveAt, Tail and      *)
(* Part, and that Part keeps the order. None of them is about a state of   *)
(* the controller.                                                         *)
(***************************************************************************)
EXTENDS Controller, Integers, SequenceTheorems, FiniteSetTheorems, WellFoundedInduction, TLAPS

-----------------------------------------------------------------------------
(* Min of a set of numbers, and the n-th of a set of positions.            *)

(* The least element of a set of numbers is one of its elements.           *)
LEMMA MinIsMember ==
    ASSUME NEW S, S \subseteq Nat, S # {}
    PROVE  Min(S) \in S /\ \A x \in S : Min(S) <= x
<1>1. \E x \in S : \A y \in S : ~(<<y, x>> \in OpToRel(<, Nat))
  BY NatLessThanWellFounded, WFMin
<1>2. PICK x \in S : \A y \in S : ~(<<y, x>> \in OpToRel(<, Nat))
  BY <1>1
<1>3. \A y \in S : x <= y
  <2> SUFFICES ASSUME NEW y \in S, y < x PROVE FALSE
    OBVIOUS
  <2>1. <<y, x>> \in Nat \X Nat /\ <<y, x>>[1] < <<y, x>>[2]
    OBVIOUS
  <2>2. <<y, x>> \in OpToRel(<, Nat)
    BY <2>1 DEF OpToRel
  <2> QED
    BY <2>2, <1>2
<1> QED
  BY <1>3 DEF Min

LEMMA LowerPart ==
    ASSUME NEW keep, keep \subseteq Nat, NEW i \in Nat, NEW j \in Nat, i <= j
    PROVE  {k \in keep : k <= i} \subseteq {k \in keep : k <= j}
<1> SUFFICES ASSUME NEW k \in keep, k <= i PROVE k <= j
  OBVIOUS
<1>1. k \in Nat
  OBVIOUS
<1> QED
  BY <1>1

(* Nth finds, for each n up to the number of positions, the position with  *)
(* n positions up to it.                                                   *)
LEMMA NthIsMember ==
    ASSUME NEW m \in Nat, NEW keep, keep \subseteq 1 .. m
    PROVE  /\ IsFiniteSet(keep) /\ Cardinality(keep) \in Nat
           /\ \A n \in 1 .. Cardinality(keep) :
                 Nth(keep, n) \in keep
                 /\ Cardinality({j \in keep : j <= Nth(keep, n)}) = n
<1> DEFINE low(i) == {j \in keep : j <= i}
           rank == [i \in keep |-> Cardinality(low(i))]
<1>1. IsFiniteSet(1 .. m) /\ Cardinality(1 .. m) = m
  BY FS_Interval
<1>2. IsFiniteSet(keep)
  BY <1>1, FS_Subset
<1>3. Cardinality(keep) \in Nat
  BY <1>2, FS_CardinalityType
<1>4. \A i \in keep : IsFiniteSet(low(i)) /\ Cardinality(low(i)) \in 1 .. Cardinality(keep)
  <2> SUFFICES ASSUME NEW i \in keep
               PROVE  IsFiniteSet(low(i)) /\ Cardinality(low(i)) \in 1 .. Cardinality(keep)
    OBVIOUS
  <2>1. low(i) \in SUBSET keep /\ i \in low(i)
    OBVIOUS
  <2> HIDE DEF low
  <2>2. IsFiniteSet(low(i)) /\ Cardinality(low(i)) <= Cardinality(keep)
    BY <2>1, <1>2, FS_Subset
  <2>3. Cardinality(low(i)) \in Nat /\ Cardinality(low(i)) # 0
    BY <2>1, <2>2, FS_CardinalityType, FS_EmptySet
  <2> QED
    BY <2>2, <2>3, <1>3
<1>5. \A i, j \in keep : i < j => Cardinality(low(i)) # Cardinality(low(j))
  <2> SUFFICES ASSUME NEW i \in keep, NEW j \in keep, i < j,
                      Cardinality(low(i)) = Cardinality(low(j))
               PROVE  FALSE
    OBVIOUS
  <2>1. i \in Nat /\ j \in Nat /\ keep \subseteq Nat
    OBVIOUS
  <2>5. i <= j
    BY <2>1
  <2>3. low(i) \subseteq low(j)
    BY <2>1, <2>5, LowerPart
  <2>4. j \in low(j) /\ j \notin low(i)
    BY <2>1
  <2>2. IsFiniteSet(low(j))
    BY <1>4
  <2> HIDE DEF low
  <2> QED
    BY <2>3, <2>4, <2>2, FS_Subset
<1>6. rank \in Injection(keep, 1 .. Cardinality(keep))
  <2>1. rank \in [keep -> 1 .. Cardinality(keep)]
    BY <1>4
  <2>2. \A i, j \in keep : rank[i] = rank[j] => i = j
    <3> SUFFICES ASSUME NEW i \in keep, NEW j \in keep, rank[i] = rank[j], i # j
                 PROVE  FALSE
      OBVIOUS
    <3>1. i \in Nat /\ j \in Nat
      OBVIOUS
    <3>2. Cardinality(low(i)) = Cardinality(low(j))
      OBVIOUS
    <3> QED
      BY <3>1, <3>2, <1>5
  <2> QED
    BY <2>1, <2>2 DEF Injection, IsInjective
<1>7. rank \in Surjection(keep, 1 .. Cardinality(keep))
  <2>1. IsFiniteSet(1 .. Cardinality(keep)) /\ Cardinality(1 .. Cardinality(keep)) = Cardinality(keep)
    BY <1>3, FS_Interval
  <2> QED
    BY <2>1, <1>6, FS_Injection
<1>8. \A n \in 1 .. Cardinality(keep) : \E i \in keep : Cardinality(low(i)) = n
  BY <1>7 DEF Surjection
<1> QED
  BY <1>2, <1>3, <1>8 DEF Nth

(* Part is the elements at the positions, each of them and in their order. *)
LEMMA PartOfSeq ==
    ASSUME NEW S, NEW s \in Seq(S), NEW keep, keep \subseteq 1 .. Len(s)
    PROVE  /\ Part(s, keep) \in Seq(S)
           /\ \A n \in 1 .. Len(Part(s, keep)) :
                 Nth(keep, n) \in keep /\ Part(s, keep)[n] = s[Nth(keep, n)]
           /\ \A i \in keep : \E n \in 1 .. Len(Part(s, keep)) : Nth(keep, n) = i
           /\ \A a, b \in 1 .. Len(Part(s, keep)) : a < b => Nth(keep, a) < Nth(keep, b)
<1> DEFINE low(i) == {j \in keep : j <= i}
<1>1. /\ IsFiniteSet(keep) /\ Cardinality(keep) \in Nat
      /\ \A n \in 1 .. Cardinality(keep) :
            Nth(keep, n) \in keep /\ Cardinality(low(Nth(keep, n))) = n
  <2>1. Len(s) \in Nat
    OBVIOUS
  <2> QED
    BY <2>1, NthIsMember
<1>2. /\ Part(s, keep) = [n \in 1 .. Cardinality(keep) |-> s[Nth(keep, n)]]
      /\ \A i \in keep : s[i] \in S
  BY DEF Part
<1>3. Part(s, keep) \in Seq(S) /\ Len(Part(s, keep)) = Cardinality(keep)
  <2> HIDE DEF low
  <2>1. \A n \in 1 .. Cardinality(keep) : s[Nth(keep, n)] \in S
    BY <1>1, <1>2
  <2>2. [n \in 1 .. Cardinality(keep) |-> s[Nth(keep, n)]] \in [1 .. Cardinality(keep) -> S]
    BY <2>1
  <2> QED
    BY <1>1, <1>2, <2>2
<1>4. \A i, j \in keep : i <= j =>
        IsFiniteSet(low(j)) /\ low(i) \subseteq low(j) /\ Cardinality(low(i)) <= Cardinality(low(j))
  <2> SUFFICES ASSUME NEW i \in keep, NEW j \in keep, i <= j
               PROVE  IsFiniteSet(low(j)) /\ low(i) \subseteq low(j)
                      /\ Cardinality(low(i)) <= Cardinality(low(j))
    OBVIOUS
  <2>0. i \in Nat /\ j \in Nat /\ keep \subseteq Nat
    OBVIOUS
  <2>1. low(i) \subseteq low(j)
    BY <2>0, LowerPart
  <2>2. low(j) \subseteq keep
    OBVIOUS
  <2> HIDE DEF low
  <2>3. IsFiniteSet(low(j))
    BY <2>2, <1>1, FS_Subset
  <2> QED
    BY <2>1, <2>3, FS_Subset
<1>5. \A a, b \in 1 .. Len(Part(s, keep)) : a < b => Nth(keep, a) < Nth(keep, b)
  <2> SUFFICES ASSUME NEW a \in 1 .. Cardinality(keep), NEW b \in 1 .. Cardinality(keep),
                      a < b, ~(Nth(keep, a) < Nth(keep, b))
               PROVE  FALSE
    BY <1>3
  <2>0. keep \subseteq Nat
    OBVIOUS
  <2>1. Nth(keep, a) \in keep /\ Nth(keep, b) \in keep
    BY <1>1
  <2>2. Nth(keep, b) \in Nat /\ Nth(keep, a) \in Nat
    BY <2>0, <2>1
  <2>3. Nth(keep, b) <= Nth(keep, a)
    BY <2>2
  <2>4. a \in Nat /\ b \in Nat
    BY <1>1
  <2> HIDE DEF low
  <2>5. Cardinality(low(Nth(keep, b))) <= Cardinality(low(Nth(keep, a)))
    BY <2>1, <2>3, <1>4
  <2>6. Cardinality(low(Nth(keep, b))) = b /\ Cardinality(low(Nth(keep, a))) = a
    BY <1>1
  <2> QED
    BY <2>4, <2>5, <2>6
<1>6. \A i \in keep : \E n \in 1 .. Len(Part(s, keep)) : Nth(keep, n) = i
  <2> SUFFICES ASSUME NEW i \in keep
               PROVE  \E n \in 1 .. Cardinality(keep) : Nth(keep, n) = i
    BY <1>3
  <2>1. low(i) \subseteq keep /\ i \in low(i)
    OBVIOUS
  <2>2. Cardinality(low(i)) \in 1 .. Cardinality(keep)
    <3> HIDE DEF low
    <3>1. IsFiniteSet(low(i)) /\ Cardinality(low(i)) <= Cardinality(keep)
      BY <2>1, <1>1, FS_Subset
    <3>2. Cardinality(low(i)) \in Nat /\ Cardinality(low(i)) # 0
      BY <2>1, <3>1, FS_CardinalityType, FS_EmptySet
    <3> QED
      BY <3>1, <3>2, <1>1
  <2>3. PICK n \in 1 .. Cardinality(keep) : n = Cardinality(low(i))
    BY <2>2
  <2>4. Nth(keep, n) \in keep /\ Cardinality(low(Nth(keep, n))) = Cardinality(low(i))
    BY <1>1, <2>3
  <2>5. \A k \in keep : Cardinality(low(k)) = Cardinality(low(i)) => k = i
    <3> SUFFICES ASSUME NEW k \in keep, Cardinality(low(k)) = Cardinality(low(i)), k # i
                 PROVE  FALSE
      OBVIOUS
    <3>1. k \in low(k) /\ (i < k => k \notin low(i)) /\ (k < i => i \notin low(k))
      OBVIOUS
    <3>2. i \in Nat /\ k \in Nat /\ (i < k \/ k < i)
      OBVIOUS
    <3> HIDE DEF low
    <3>3. CASE i < k
      BY <3>1, <3>2, <3>3, <2>1, <1>4, FS_Subset
    <3>4. CASE k < i
      BY <3>1, <3>2, <3>4, <2>1, <1>4, FS_Subset
    <3> QED
      BY <3>2, <3>3, <3>4
  <2> HIDE DEF low
  <2> QED
    BY <2>4, <2>5
<1> QED
  BY <1>1, <1>2, <1>3, <1>5, <1>6

-----------------------------------------------------------------------------
(* What is in a sequence.                                                  *)

LEMMA EmptyRange ==
    ASSUME NEW S
    PROVE  <<>> \in Seq(S) /\ Range(<<>>) = {}
<1>1. <<>> \in Seq(S)
  OBVIOUS
<1>2. DOMAIN <<>> = {}
  BY <1>1
<1> QED
  BY <1>1, <1>2 DEF Range

LEMMA SingletonRange ==
    ASSUME NEW S, NEW e \in S
    PROVE  <<e>> \in Seq(S) /\ Range(<<e>>) = {e}
<1>1. <<e>> \in Seq(S) /\ Len(<<e>>) = 1 /\ <<e>>[1] = e
  OBVIOUS
<1>2. DOMAIN <<e>> = 1 .. 1
  BY <1>1
<1> QED
  BY <1>1, <1>2 DEF Range

LEMMA RangeMember ==
    ASSUME NEW S, NEW s \in Seq(S), NEW i \in 1 .. Len(s)
    PROVE  s[i] \in Range(s) /\ s[i] \in S
BY DEF Range

LEMMA SeqShape ==
    ASSUME NEW S, NEW s \in Seq(S)
    PROVE  /\ Len(s) \in Nat /\ DOMAIN s = 1 .. Len(s)
           /\ \A i \in 1 .. Len(s) : s[i] \in S
OBVIOUS

LEMMA SeqFromFunction ==
    ASSUME NEW S, NEW n \in Nat, NEW s \in [1 .. n -> S]
    PROVE  s \in Seq(S) /\ DOMAIN s = 1 .. n /\ Len(s) = n
OBVIOUS

LEMMA RangeOfAppend ==
    ASSUME NEW S, NEW s \in Seq(S), NEW e \in S
    PROVE  Append(s, e) \in Seq(S) /\ Range(Append(s, e)) = Range(s) \cup {e}
<1>1. /\ Append(s, e) \in Seq(S) /\ Len(Append(s, e)) = Len(s) + 1
      /\ \A i \in 1 .. Len(s) : Append(s, e)[i] = s[i]
      /\ Append(s, e)[Len(s) + 1] = e
  BY AppendProperties
<1>2. DOMAIN s = 1 .. Len(s) /\ DOMAIN Append(s, e) = 1 .. (Len(s) + 1) /\ Len(s) \in Nat
  BY <1>1
<1>3. Range(Append(s, e)) \subseteq Range(s) \cup {e}
  <2> SUFFICES ASSUME NEW i \in 1 .. (Len(s) + 1)
               PROVE  Append(s, e)[i] \in Range(s) \cup {e}
    BY <1>2 DEF Range
  <2>1. CASE i = Len(s) + 1
    BY <2>1, <1>1
  <2>2. CASE i \in 1 .. Len(s)
    BY <2>2, <1>1, <1>2 DEF Range
  <2> QED
    BY <2>1, <2>2, <1>2
<1>4. Range(s) \cup {e} \subseteq Range(Append(s, e))
  <2>1. e \in Range(Append(s, e))
    BY <1>1, <1>2 DEF Range
  <2>2. ASSUME NEW i \in 1 .. Len(s) PROVE s[i] \in Range(Append(s, e))
    <3>1. i \in 1 .. (Len(s) + 1) /\ Append(s, e)[i] = s[i]
      BY <1>1, <1>2
    <3> QED
      BY <3>1, <1>2 DEF Range
  <2> QED
    BY <2>1, <2>2, <1>2 DEF Range
<1> QED
  BY <1>1, <1>3, <1>4

LEMMA RangeOfConcat ==
    ASSUME NEW S, NEW s \in Seq(S), NEW t \in Seq(S)
    PROVE  s \o t \in Seq(S) /\ Range(s \o t) = Range(s) \cup Range(t)
BY ConcatProperties, RangeConcatenation

(* ... so it has the elements at the positions, and none twice if the      *)
(* sequence has none twice.                                                *)
LEMMA RangeOfPart ==
    ASSUME NEW S, NEW s \in Seq(S), NEW keep, keep \subseteq 1 .. Len(s)
    PROVE  /\ Part(s, keep) \in Seq(S)
           /\ Range(Part(s, keep)) = {s[i] : i \in keep}
           /\ IsInjective(s) => IsInjective(Part(s, keep))
<1>1. /\ Part(s, keep) \in Seq(S)
      /\ \A n \in 1 .. Len(Part(s, keep)) :
            Nth(keep, n) \in keep /\ Part(s, keep)[n] = s[Nth(keep, n)]
      /\ \A i \in keep : \E n \in 1 .. Len(Part(s, keep)) : Nth(keep, n) = i
      /\ \A a, b \in 1 .. Len(Part(s, keep)) : a < b => Nth(keep, a) < Nth(keep, b)
  BY PartOfSeq
<1>2. /\ DOMAIN s = 1 .. Len(s) /\ DOMAIN Part(s, keep) = 1 .. Len(Part(s, keep))
      /\ Len(Part(s, keep)) \in Nat /\ keep \subseteq Nat
  BY <1>1
<1>3. Range(Part(s, keep)) = {s[i] : i \in keep}
  <2>1. ASSUME NEW n \in 1 .. Len(Part(s, keep)) PROVE Part(s, keep)[n] \in {s[i] : i \in keep}
    BY <1>1
  <2>2. ASSUME NEW i \in keep PROVE s[i] \in Range(Part(s, keep))
    <3>1. PICK n \in 1 .. Len(Part(s, keep)) : Nth(keep, n) = i
      BY <1>1
    <3>2. Part(s, keep)[n] = s[i]
      BY <3>1, <1>1
    <3> QED
      BY <3>2, <1>2 DEF Range
  <2>3. Range(Part(s, keep)) \subseteq {s[i] : i \in keep}
    BY <2>1, <1>2 DEF Range
  <2>4. {s[i] : i \in keep} \subseteq Range(Part(s, keep))
    BY <2>2
  <2> QED
    BY <2>3, <2>4
<1>4. ASSUME IsInjective(s) PROVE IsInjective(Part(s, keep))
  <2> SUFFICES ASSUME NEW a \in 1 .. Len(Part(s, keep)), NEW b \in 1 .. Len(Part(s, keep)),
                      Part(s, keep)[a] = Part(s, keep)[b], a # b
               PROVE  FALSE
    BY <1>2 DEF IsInjective
  <2>1. Nth(keep, a) = Nth(keep, b)
    BY <1>1, <1>2, <1>4 DEF IsInjective
  <2>3. a \in Nat /\ b \in Nat /\ (a < b \/ b < a)
    BY <1>2
  <2>2. Nth(keep, a) \in Nat
    BY <1>1, <1>2
  <2> QED
    BY <2>1, <2>2, <2>3, <1>1
<1> QED
  BY <1>1, <1>3, <1>4

LEMMA RangeOfRemoveAt ==
    ASSUME NEW S, NEW s \in Seq(S), NEW n \in 1 .. Len(s)
    PROVE  RemoveAt(s, n) \in Seq(S) /\ Range(RemoveAt(s, n)) \subseteq Range(s)
<1>1. n \in Int /\ n - 1 \in Int /\ n + 1 \in Int /\ Len(s) \in Nat /\ 1 \in Int /\ Len(s) \in Int
  OBVIOUS
<1>2. /\ SubSeq(s, 1, n - 1) \in Seq(Range(s))
      /\ SubSeq(s, n + 1, Len(s)) \in Seq(Range(s))
  <2>1. \A i \in 1 .. (n - 1) : s[i] \in Range(s)
    BY <1>1 DEF Range
  <2>2. \A i \in (n + 1) .. Len(s) : s[i] \in Range(s)
    BY <1>1 DEF Range
  <2> QED
    BY <1>1, <2>1, <2>2, SubSeqProperties
<1>3. Range(s) \subseteq S
  BY RangeOfSeq
<1>4. RemoveAt(s, n) \in Seq(Range(s))
  BY <1>2, ConcatProperties DEF RemoveAt
<1>5. RemoveAt(s, n) \in Seq(S)
  BY <1>3, <1>4, SeqMonotonic
<1> QED
  BY <1>4, <1>5, RangeOfSeq

(* The queue when its first signal has been taken.                         *)
LEMMA FirstRemoved ==
    ASSUME NEW S, NEW s \in Seq(S), s # <<>>, NEW q, q = RemoveAt(s, 1)
    PROVE  /\ q \in Seq(S) /\ Len(q) = Len(s) - 1 /\ Len(s) \in Nat
           /\ \A i \in 1 .. (Len(s) - 1) : q[i] = s[i + 1]
           /\ Range(s) = Range(q) \cup {s[1]}
<1>1. Len(s) \in Nat /\ Len(s) >= 1 /\ 1 \in 1 .. Len(s)
  BY EmptySeq
<1>2. SubSeq(s, 1, 0) = <<>>
  OBVIOUS
<1> DEFINE r == SubSeq(s, 2, Len(s))
<1>3. /\ r \in Seq(S) /\ Len(r) = Len(s) - 1
      /\ \A i \in 1 .. (Len(s) - 1) : r[i] = s[i + 1]
  <2>1. 2 \in Int /\ Len(s) \in Int /\ \A i \in 2 .. Len(s) : s[i] \in S
    BY <1>1
  <2>2. /\ r \in Seq(S) /\ Len(r) = IF 2 <= Len(s) THEN Len(s) - 2 + 1 ELSE 0
        /\ \A i \in 1 .. Len(s) - 2 + 1 : r[i] = s[2 + i - 1]
    BY <2>1, SubSeqProperties
  <2> HIDE DEF r
  <2>3. Len(r) = IF 2 <= Len(s) THEN Len(s) - 2 + 1 ELSE 0
    BY <2>2
  <2>4. r \in Seq(S) /\ Len(r) = Len(s) - 1
    <3>1. CASE 2 <= Len(s)
      BY <1>1, <2>2, <2>3, <3>1
    <3>2. CASE ~(2 <= Len(s))
      <4>1. Len(s) = 1
        <5>1. \A n \in Nat : n >= 1 /\ ~(2 <= n) => n = 1
          OBVIOUS
        <5> QED
          BY <1>1, <3>2, <5>1
      <4>2. Len(r) = 0
        BY <2>3, <3>2
      <4> QED
        BY <2>2, <4>1, <4>2
    <3> QED
      BY <3>1, <3>2
  <2>5. \A i \in 1 .. Len(s) - 2 + 1 : r[i] = s[2 + i - 1]
    BY <2>2
  <2>6. ASSUME NEW i \in 1 .. (Len(s) - 1) PROVE r[i] = s[i + 1]
    <3>1. i \in 1 .. Len(s) - 2 + 1 /\ 2 + i - 1 = i + 1
      BY <1>1
    <3>2. r[i] = s[2 + i - 1]
      BY <2>5, <3>1
    <3> QED
      BY <3>1, <3>2
  <2> QED
    BY <2>4, <2>6
<1>4. q = SubSeq(s, 1, 0) \o r
  BY DEF RemoveAt
<1> HIDE DEF r
<1>5. q = r
  BY <1>2, <1>3, <1>4
<1>6. DOMAIN s = 1 .. Len(s) /\ DOMAIN r = 1 .. (Len(s) - 1)
  BY <1>3
<1>7. \A i \in 1 .. Len(s) : s[i] \in Range(r) \cup {s[1]}
  <2> SUFFICES ASSUME NEW i \in 1 .. Len(s), i # 1 PROVE s[i] \in Range(r)
    OBVIOUS
  <2>1. i - 1 \in 1 .. (Len(s) - 1) /\ (i - 1) + 1 = i
    BY <1>1
  <2>2. r[i - 1] = s[i]
    BY <1>3, <2>1
  <2> QED
    BY <2>1, <2>2, <1>6 DEF Range
<1>8. \A i \in 1 .. (Len(s) - 1) : r[i] \in Range(s)
  <2> SUFFICES ASSUME NEW i \in 1 .. (Len(s) - 1) PROVE r[i] \in Range(s)
    OBVIOUS
  <2>1. i + 1 \in 1 .. Len(s)
    BY <1>1
  <2> QED
    BY <2>1, <1>3, <1>6 DEF Range
<1>9. Range(r) \subseteq Range(s) /\ s[1] \in Range(s) /\ Range(s) \subseteq Range(r) \cup {s[1]}
  BY <1>1, <1>6, <1>7, <1>8 DEF Range
<1>10. /\ r \in Seq(S) /\ Len(r) = Len(s) - 1 /\ Len(s) \in Nat
       /\ \A i \in 1 .. (Len(s) - 1) : r[i] = s[i + 1]
       /\ Range(s) = Range(r) \cup {s[1]}
  BY <1>1, <1>3, <1>9
<1> QED
  BY <1>5, <1>10

LEMMA RangeOfTail ==
    ASSUME NEW S, NEW s \in Seq(S), s # <<>>
    PROVE  /\ Head(s) \in S /\ Tail(s) \in Seq(S)
           /\ Range(s) = Range(Tail(s)) \cup {Head(s)}
<1>1. /\ Head(s) \in S /\ Tail(s) \in Seq(S) /\ Len(Tail(s)) = Len(s) - 1
      /\ \A i \in 1 .. Len(Tail(s)) : Tail(s)[i] = s[i + 1]
      /\ Head(s) = s[1] /\ Len(s) \in Nat \ {0}
  BY HeadTailProperties, EmptySeq
<1>2. DOMAIN s = 1 .. Len(s) /\ DOMAIN Tail(s) = 1 .. Len(Tail(s))
  BY <1>1
<1>3. Range(Tail(s)) \cup {Head(s)} \subseteq Range(s)
  <2>1. 1 \in 1 .. Len(s) /\ \A i \in 1 .. Len(Tail(s)) : i + 1 \in 1 .. Len(s)
    BY <1>1
  <2> QED
    BY <1>1, <1>2, <2>1 DEF Range
<1>4. Range(s) \subseteq Range(Tail(s)) \cup {Head(s)}
  <2> SUFFICES ASSUME NEW i \in 1 .. Len(s)
               PROVE  s[i] \in Range(Tail(s)) \cup {Head(s)}
    BY <1>2 DEF Range
  <2>1. CASE i = 1
    BY <2>1, <1>1
  <2>2. CASE i # 1
    <3>1. i - 1 \in 1 .. Len(Tail(s)) /\ (i - 1) + 1 = i
      BY <1>1, <2>2
    <3>2. Tail(s)[i - 1] = s[i]
      BY <1>1, <3>1
    <3> QED
      BY <3>1, <3>2, <1>2 DEF Range
  <2> QED
    BY <2>1, <2>2
<1> QED
  BY <1>1, <1>3, <1>4

LEMMA BoundedSequences ==
    ASSUME NEW S, NEW n \in Nat, NEW s
    PROVE  s \in BoundedSeq(S, n) <=> s \in Seq(S) /\ Len(s) <= n
<1>1. ASSUME s \in BoundedSeq(S, n) PROVE s \in Seq(S) /\ Len(s) <= n
  <2>1. PICK m \in 0 .. n : s \in [1 .. m -> S]
    BY <1>1 DEF BoundedSeq, SeqOf
  <2>2. s \in Seq(S) /\ Len(s) = m
    BY <2>1
  <2> QED
    BY <2>1, <2>2
<1>2. ASSUME s \in Seq(S), Len(s) <= n PROVE s \in BoundedSeq(S, n)
  <2>1. Len(s) \in 0 .. n /\ s \in [1 .. Len(s) -> S]
    BY <1>2
  <2> QED
    BY <2>1 DEF BoundedSeq, SeqOf
<1> QED
  BY <1>1, <1>2

(* A finite set in some order.                                             *)
LEMMA SetToSeqOfFinite ==
    ASSUME NEW S, IsFiniteSet(S)
    PROVE  SetToSeq(S) \in Seq(S) /\ Range(SetToSeq(S)) = S
<1> DEFINE n == Cardinality(S)
<1>1. n \in Nat /\ ExistsBijection(1 .. n, S)
  BY FS_CardinalityType
<1>2. \E f \in [1 .. n -> S] : IsInjective(f)
  BY <1>1 DEF ExistsBijection, Bijection, Injection, IsInjective
<1>3. SetToSeq(S) \in [1 .. n -> S] /\ IsInjective(SetToSeq(S))
  BY <1>2 DEF SetToSeq
<1>4. SetToSeq(S) \in Injection(1 .. n, S)
  BY <1>3 DEF Injection, IsInjective
<1>5. Cardinality(1 .. n) = n
  BY <1>1, FS_Interval
<1>6. SetToSeq(S) \in Surjection(1 .. n, S)
  BY <1>4, <1>5, FS_Injection
<1> HIDE DEF n
<1>7. Range(SetToSeq(S)) = S
  BY <1>3, <1>6 DEF Surjection, Range
<1> QED
  BY <1>1, <1>3, <1>7

-----------------------------------------------------------------------------
(* Signals of which there is at most one in the queue, and signals that    *)
(* come before others.                                                     *)

(* Signals of which there is at most one in the queue, ...                 *)
OneIn(s, S) == \A i, j \in 1 .. Len(s) : s[i] \in S /\ s[j] \in S => i = j

(* ... and signals that come before others.                                *)
Before(s, S, T) == \A i, j \in 1 .. Len(s) : s[i] \in S /\ s[j] \in T => i < j

(* q is what is left of s, in the same order.                              *)
LeftOf(q, s) ==
    \E f \in [1 .. Len(q) -> 1 .. Len(s)] :
        /\ \A i, j \in 1 .. Len(q) : i < j => f[i] < f[j]
        /\ \A i \in 1 .. Len(q) : q[i] = s[f[i]]

(* What is left of a sequence has no more of any kind of element, and has  *)
(* them in the same order.                                                 *)
LEMMA LeftOfKeeps ==
    ASSUME NEW E, NEW s \in Seq(E), NEW q \in Seq(E), LeftOf(q, s), NEW S, NEW T
    PROVE  /\ OneIn(s, S) => OneIn(q, S)
           /\ Before(s, S, T) => Before(q, S, T)
           /\ Range(q) \subseteq Range(s)
<1>1. PICK f \in [1 .. Len(q) -> 1 .. Len(s)] :
        /\ \A i, j \in 1 .. Len(q) : i < j => f[i] < f[j]
        /\ \A i \in 1 .. Len(q) : q[i] = s[f[i]]
  BY DEF LeftOf
<1>2. Len(q) \in Nat /\ Len(s) \in Nat /\ \A i \in 1 .. Len(q) : f[i] \in 1 .. Len(s) /\ f[i] \in Nat
  <2>1. Len(q) \in Nat /\ Len(s) \in Nat
    BY SeqShape
  <2> QED
    BY <1>1, <2>1
<1>3. ASSUME OneIn(s, S), NEW i \in 1 .. Len(q), NEW j \in 1 .. Len(q), q[i] \in S, q[j] \in S
      PROVE  i = j
  <2>1. f[i] = f[j]
    BY <1>1, <1>2, <1>3 DEF OneIn
  <2>2. i \in Nat /\ j \in Nat
    BY <1>2
  <2>3. ~(i < j) /\ ~(j < i)
    BY <1>1, <1>2, <2>1
  <2> QED
    BY <2>2, <2>3
<1>4. ASSUME Before(s, S, T), NEW i \in 1 .. Len(q), NEW j \in 1 .. Len(q), q[i] \in S, q[j] \in T
      PROVE  i < j
  <2>1. f[i] < f[j]
    BY <1>1, <1>2, <1>4 DEF Before
  <2>2. i \in Nat /\ j \in Nat
    BY <1>2
  <2>3. ~(i = j) /\ ~(j < i)
    BY <1>1, <1>2, <2>1
  <2> QED
    BY <2>2, <2>3
<1>5. Range(q) \subseteq Range(s)
  <2>1. DOMAIN q = 1 .. Len(q) /\ DOMAIN s = 1 .. Len(s)
    BY SeqShape
  <2> QED
    BY <1>1, <1>2, <2>1 DEF Range
<1> QED
  BY <1>3, <1>4, <1>5 DEF OneIn, Before

(* The queue without the signals of a deleted object, ...                  *)
LEMMA PartIsLeft ==
    ASSUME NEW E, NEW s \in Seq(E), NEW keep, keep \subseteq 1 .. Len(s)
    PROVE  Part(s, keep) \in Seq(E) /\ LeftOf(Part(s, keep), s)
<1>1. /\ Part(s, keep) \in Seq(E)
      /\ \A n \in 1 .. Len(Part(s, keep)) :
            Nth(keep, n) \in keep /\ Part(s, keep)[n] = s[Nth(keep, n)]
      /\ \A i \in keep : \E n \in 1 .. Len(Part(s, keep)) : Nth(keep, n) = i
      /\ \A a, b \in 1 .. Len(Part(s, keep)) : a < b => Nth(keep, a) < Nth(keep, b)
  BY PartOfSeq
<1> SUFFICES ASSUME NEW q, q \in Seq(E),
                    \A n \in 1 .. Len(q) : Nth(keep, n) \in keep /\ q[n] = s[Nth(keep, n)],
                    \A a, b \in 1 .. Len(q) : a < b => Nth(keep, a) < Nth(keep, b)
             PROVE  LeftOf(q, s)
  BY <1>1
<1> DEFINE f == [n \in 1 .. Len(q) |-> Nth(keep, n)]
<1>2. f \in [1 .. Len(q) -> 1 .. Len(s)]
  OBVIOUS
<1>3. \A n \in 1 .. Len(q) : f[n] = Nth(keep, n)
  OBVIOUS
<1> HIDE DEF f
<1> QED
  BY <1>2, <1>3 DEF LeftOf

(* The size of an interval, to count what SelectSeq has kept.              *)
LEMMA SizeOfInterval ==
    ASSUME NEW m \in Nat
    PROVE  IsFiniteSet(1 .. m) /\ Cardinality(1 .. m) = m
BY FS_Interval

(* A part is not longer than the whole.                                    *)
LEMMA PartIsShorter ==
    ASSUME NEW E, NEW s \in Seq(E), NEW keep, keep \subseteq 1 .. Len(s)
    PROVE  Len(Part(s, keep)) <= Len(s)
<1>1. Len(s) \in Nat
  OBVIOUS
<1>2. IsFiniteSet(keep) /\ Cardinality(keep) \in Nat
  BY <1>1, NthIsMember
<1>3. Part(s, keep) \in Seq(E) /\ DOMAIN Part(s, keep) = 1 .. Cardinality(keep)
  BY PartOfSeq DEF Part
<1>4. Len(Part(s, keep)) = Cardinality(keep)
  BY <1>2, <1>3
<1>5. IsFiniteSet(1 .. Len(s)) /\ Cardinality(1 .. Len(s)) = Len(s)
  BY <1>1, SizeOfInterval
<1>6. Cardinality(keep) <= Cardinality(1 .. Len(s))
  BY <1>5, FS_Subset
<1> QED
  BY <1>4, <1>5, <1>6

(* ... and without the signal that is delivered.                           *)
LEMMA RemovedAt ==
    ASSUME NEW E, NEW s \in Seq(E), NEW n \in 1 .. Len(s)
    PROVE  /\ RemoveAt(s, n) \in Seq(E) /\ LeftOf(RemoveAt(s, n), s)
           /\ Range(s) = Range(RemoveAt(s, n)) \cup {s[n]}
           /\ \A e \in Range(RemoveAt(s, n)) : \E i \in 1 .. Len(s) : i # n /\ s[i] = e
<1>1. Len(s) \in Nat /\ n \in Nat /\ n - 1 \in Int /\ n + 1 \in Int /\ 1 \in Int /\ Len(s) \in Int
      /\ 1 <= n /\ n <= Len(s)
  OBVIOUS
<1> DEFINE a == SubSeq(s, 1, n - 1)
           b == SubSeq(s, n + 1, Len(s))
           q == RemoveAt(s, n)
           f == [i \in 1 .. (Len(s) - 1) |-> IF i < n THEN i ELSE i + 1]
<1>2. /\ a \in Seq(E) /\ Len(a) = n - 1
      /\ \A i \in 1 .. (n - 1) : a[i] = s[i]
  <2>1. \A i \in 1 .. (n - 1) : s[i] \in E
    BY <1>1
  <2>2. /\ a \in Seq(E) /\ Len(a) = IF 1 <= n - 1 THEN (n - 1) - 1 + 1 ELSE 0
        /\ \A i \in 1 .. (n - 1) - 1 + 1 : a[i] = s[1 + i - 1]
    BY <1>1, <2>1, SubSeqProperties
  <2> HIDE DEF a
  <2>3. Len(a) = n - 1
    <3>1. CASE 1 <= n - 1
      BY <1>1, <2>2, <3>1
    <3>2. CASE ~(1 <= n - 1)
      BY <1>1, <2>2, <3>2
    <3> QED
      BY <3>1, <3>2
  <2>4. ASSUME NEW i \in 1 .. (n - 1) PROVE a[i] = s[i]
    <3>1. i \in 1 .. (n - 1) - 1 + 1 /\ 1 + i - 1 = i
      BY <1>1
    <3> QED
      BY <2>2, <3>1
  <2> QED
    BY <2>2, <2>3, <2>4
<1>3. /\ b \in Seq(E) /\ Len(b) = Len(s) - n
      /\ \A i \in 1 .. (Len(s) - n) : b[i] = s[n + i]
  <2>1. \A i \in (n + 1) .. Len(s) : s[i] \in E
    BY <1>1
  <2>2. /\ b \in Seq(E) /\ Len(b) = IF n + 1 <= Len(s) THEN Len(s) - (n + 1) + 1 ELSE 0
        /\ \A i \in 1 .. Len(s) - (n + 1) + 1 : b[i] = s[(n + 1) + i - 1]
    BY <1>1, <2>1, SubSeqProperties
  <2> HIDE DEF b
  <2>3. Len(b) = Len(s) - n
    <3>1. CASE n + 1 <= Len(s)
      BY <1>1, <2>2, <3>1
    <3>2. CASE ~(n + 1 <= Len(s))
      BY <1>1, <2>2, <3>2
    <3> QED
      BY <3>1, <3>2
  <2>4. ASSUME NEW i \in 1 .. (Len(s) - n) PROVE b[i] = s[n + i]
    <3>1. i \in 1 .. Len(s) - (n + 1) + 1 /\ (n + 1) + i - 1 = n + i
      BY <1>1
    <3> QED
      BY <2>2, <3>1
  <2> QED
    BY <2>2, <2>3, <2>4
<1>4. q = a \o b
  BY DEF RemoveAt
<1> HIDE DEF a, b, q
<1>5. /\ q \in Seq(E) /\ Len(q) = Len(s) - 1
      /\ \A i \in 1 .. Len(a) : q[i] = a[i]
      /\ \A i \in 1 .. Len(b) : q[Len(a) + i] = b[i]
  <2>1. a \in Seq(E) /\ b \in Seq(E) /\ (n - 1) + (Len(s) - n) = Len(s) - 1
    BY <1>1, <1>2, <1>3
  <2>2. /\ a \o b \in Seq(E) /\ Len(a \o b) = Len(a) + Len(b)
        /\ \A i \in 1 .. Len(a) : (a \o b)[i] = a[i]
        /\ \A i \in 1 .. Len(b) : (a \o b)[Len(a) + i] = b[i]
    BY <2>1, ConcatProperties
  <2>3. Len(a) + Len(b) = Len(s) - 1
    BY <1>2, <1>3, <2>1
  <2> QED
    BY <1>4, <2>2, <2>3
<1>6. ASSUME NEW i \in 1 .. (Len(s) - 1)
      PROVE  f[i] \in 1 .. Len(s) /\ f[i] # n /\ q[i] = s[f[i]]
  <2>1. CASE i < n
    <3>1. i \in 1 .. (n - 1) /\ f[i] = i /\ i \in 1 .. Len(s) /\ i # n
      BY <1>1, <2>1
    <3> QED
      BY <1>2, <1>5, <3>1
  <2>2. CASE ~(i < n)
    <3>1. i - (n - 1) \in 1 .. (Len(s) - n) /\ f[i] = i + 1 /\ i + 1 \in 1 .. Len(s) /\ i + 1 # n
          /\ (n - 1) + (i - (n - 1)) = i /\ n + (i - (n - 1)) = i + 1
      BY <1>1, <2>2
    <3>2. q[(n - 1) + (i - (n - 1))] = b[i - (n - 1)]
      BY <1>2, <1>3, <1>5, <3>1
    <3>3. b[i - (n - 1)] = s[n + (i - (n - 1))]
      BY <1>3, <3>1
    <3> QED
      BY <3>1, <3>2, <3>3
  <2> QED
    BY <2>1, <2>2
<1>7. \A i, j \in 1 .. (Len(s) - 1) : i < j => f[i] < f[j]
  BY <1>1
<1>8. \A k \in 1 .. Len(s) : k # n => \E i \in 1 .. (Len(s) - 1) : f[i] = k
  <2> SUFFICES ASSUME NEW k \in 1 .. Len(s), k # n PROVE \E i \in 1 .. (Len(s) - 1) : f[i] = k
    OBVIOUS
  <2>1. CASE k < n
    <3>1. k \in 1 .. (Len(s) - 1) /\ f[k] = k
      BY <1>1, <2>1
    <3> QED
      BY <3>1
  <2>2. CASE ~(k < n)
    <3>1. k - 1 \in 1 .. (Len(s) - 1) /\ ~(k - 1 < n) /\ (k - 1) + 1 = k
      BY <1>1, <2>2
    <3>2. f[k - 1] = k
      BY <3>1
    <3> QED
      BY <3>1, <3>2
  <2> QED
    BY <2>1, <2>2
<1>9. f \in [1 .. Len(q) -> 1 .. Len(s)]
  BY <1>5, <1>6
<1> HIDE DEF f
<1>10. LeftOf(q, s)
  BY <1>5, <1>6, <1>7, <1>9 DEF LeftOf
<1>11. /\ DOMAIN q = 1 .. (Len(s) - 1) /\ DOMAIN s = 1 .. Len(s)
  BY <1>5, SeqShape
<1>12. Range(s) = Range(q) \cup {s[n]}
  <2>1. Range(q) = {q[i] : i \in 1 .. (Len(s) - 1)} /\ Range(s) = {s[i] : i \in 1 .. Len(s)}
    BY <1>11 DEF Range
  <2>2. \A k \in 1 .. Len(s) : k # n => s[k] \in Range(q)
    BY <1>6, <1>8, <2>1
  <2>3. \A i \in 1 .. (Len(s) - 1) : q[i] \in Range(s)
    BY <1>6, <2>1
  <2>4. s[n] \in Range(s)
    BY <2>1
  <2> QED
    BY <2>1, <2>2, <2>3, <2>4
<1>13. \A e \in Range(q) : \E i \in 1 .. Len(s) : i # n /\ s[i] = e
  BY <1>6, <1>11 DEF Range
<1> QED
  BY <1>5, <1>10, <1>12, <1>13 DEF q

(* The queue when signals have been posted.                                *)
LEMMA OneInConcat ==
    ASSUME NEW E, NEW s \in Seq(E), NEW u \in Seq(E), NEW S, OneIn(s, S), OneIn(u, S),
           (\A e \in Range(s) : e \notin S) \/ (\A e \in Range(u) : e \notin S)
    PROVE  OneIn(s \o u, S)
<1>1. /\ Len(s \o u) = Len(s) + Len(u) /\ Len(s) \in Nat /\ Len(u) \in Nat
      /\ \A i \in 1 .. Len(s) : (s \o u)[i] = s[i]
      /\ \A i \in 1 .. Len(u) : (s \o u)[Len(s) + i] = u[i]
  BY ConcatProperties
<1> SUFFICES ASSUME NEW i \in 1 .. (Len(s) + Len(u)), NEW j \in 1 .. (Len(s) + Len(u)),
                    (s \o u)[i] \in S, (s \o u)[j] \in S
             PROVE  i = j
  BY <1>1 DEF OneIn
<1>2. \A k \in 1 .. Len(s) : s[k] \in Range(s)
  BY RangeMember
<1>3. \A k \in 1 .. Len(u) : u[k] \in Range(u)
  BY RangeMember
<1>4. \A k \in 1 .. (Len(s) + Len(u)) : k \in 1 .. Len(s) \/ (k - Len(s) \in 1 .. Len(u) /\ Len(s) + (k - Len(s)) = k)
  BY <1>1
<1>5. CASE i \in 1 .. Len(s) /\ j \in 1 .. Len(s)
  BY <1>1, <1>5 DEF OneIn
<1>6. CASE i \in 1 .. Len(s) /\ j \notin 1 .. Len(s)
  <2>1. j - Len(s) \in 1 .. Len(u) /\ Len(s) + (j - Len(s)) = j
    BY <1>4, <1>6
  <2>2. u[j - Len(s)] \in S /\ s[i] \in S
    BY <1>1, <1>6, <2>1
  <2> QED
    BY <1>2, <1>3, <1>6, <2>1, <2>2
<1>7. CASE i \notin 1 .. Len(s) /\ j \in 1 .. Len(s)
  <2>1. i - Len(s) \in 1 .. Len(u) /\ Len(s) + (i - Len(s)) = i
    BY <1>4, <1>7
  <2>2. u[i - Len(s)] \in S /\ s[j] \in S
    BY <1>1, <1>7, <2>1
  <2> QED
    BY <1>2, <1>3, <1>7, <2>1, <2>2
<1>8. CASE i \notin 1 .. Len(s) /\ j \notin 1 .. Len(s)
  <2>1. i - Len(s) \in 1 .. Len(u) /\ Len(s) + (i - Len(s)) = i
        /\ j - Len(s) \in 1 .. Len(u) /\ Len(s) + (j - Len(s)) = j
    BY <1>4, <1>8
  <2>2. u[i - Len(s)] \in S /\ u[j - Len(s)] \in S
    BY <1>1, <2>1
  <2>3. i - Len(s) = j - Len(s)
    BY <2>1, <2>2 DEF OneIn
  <2> QED
    BY <1>1, <2>1, <2>3
<1> QED
  BY <1>5, <1>6, <1>7, <1>8

(* What comes before stays before, if the new ones are not of the earlier  *)
(* kind, or the old ones not of the later.                                 *)
LEMMA BeforeInConcat ==
    ASSUME NEW E, NEW s \in Seq(E), NEW u \in Seq(E), NEW S, NEW T, Before(s, S, T), Before(u, S, T),
           (\A e \in Range(u) : e \notin S) \/ (\A e \in Range(s) : e \notin T)
    PROVE  Before(s \o u, S, T)
<1>1. /\ Len(s \o u) = Len(s) + Len(u) /\ Len(s) \in Nat /\ Len(u) \in Nat
      /\ \A i \in 1 .. Len(s) : (s \o u)[i] = s[i]
      /\ \A i \in 1 .. Len(u) : (s \o u)[Len(s) + i] = u[i]
  BY ConcatProperties
<1> SUFFICES ASSUME NEW i \in 1 .. (Len(s) + Len(u)), NEW j \in 1 .. (Len(s) + Len(u)),
                    (s \o u)[i] \in S, (s \o u)[j] \in T
             PROVE  i < j
  BY <1>1 DEF Before
<1>2. \A k \in 1 .. Len(s) : s[k] \in Range(s)
  BY RangeMember
<1>3. \A k \in 1 .. Len(u) : u[k] \in Range(u)
  BY RangeMember
<1>4. \A k \in 1 .. (Len(s) + Len(u)) : k \in 1 .. Len(s) \/ (k - Len(s) \in 1 .. Len(u) /\ Len(s) + (k - Len(s)) = k)
  BY <1>1
<1>5. CASE i \in 1 .. Len(s) /\ j \in 1 .. Len(s)
  BY <1>1, <1>5 DEF Before
<1>6. CASE i \in 1 .. Len(s) /\ j \notin 1 .. Len(s)
  BY <1>1, <1>6
<1>7. CASE i \notin 1 .. Len(s) /\ j \in 1 .. Len(s)
  <2>1. i - Len(s) \in 1 .. Len(u) /\ Len(s) + (i - Len(s)) = i
    BY <1>4, <1>7
  <2>2. u[i - Len(s)] \in S /\ s[j] \in T
    BY <1>1, <1>7, <2>1
  <2> QED
    BY <1>2, <1>3, <1>7, <2>1, <2>2
<1>8. CASE i \notin 1 .. Len(s) /\ j \notin 1 .. Len(s)
  <2>1. i - Len(s) \in 1 .. Len(u) /\ Len(s) + (i - Len(s)) = i
        /\ j - Len(s) \in 1 .. Len(u) /\ Len(s) + (j - Len(s)) = j
    BY <1>4, <1>8
  <2>2. u[i - Len(s)] \in S /\ u[j - Len(s)] \in T
    BY <1>1, <2>1
  <2>3. i - Len(s) < j - Len(s)
    BY <2>1, <2>2 DEF Before
  <2> QED
    BY <1>1, <2>1, <2>3
<1> QED
  BY <1>5, <1>6, <1>7, <1>8

(* What a sequence without such elements, or with one element, trivially   *)
(* has.                                                                    *)
LEMMA NoneIn ==
    ASSUME NEW E, NEW s \in Seq(E), NEW S, NEW T
    PROVE  /\ (\A e \in Range(s) : e \notin S) => OneIn(s, S) /\ Before(s, S, T)
           /\ (\A e \in Range(s) : e \notin T) => Before(s, S, T)
<1>1. \A i \in 1 .. Len(s) : s[i] \in Range(s)
  BY RangeMember
<1> QED
  BY <1>1 DEF OneIn, Before

(* A sequence of one element has at most one of any kind.                  *)
LEMMA SingleIn ==
    ASSUME NEW E, NEW s \in Seq(E), Len(s) <= 1, NEW S
    PROVE  OneIn(s, S)
<1>1. Len(s) \in Nat
  BY SeqShape
<1>2. \A i, j \in 1 .. Len(s) : i = j
  BY <1>1
<1> QED
  BY <1>2 DEF OneIn

(* SetToSeq lists each element once: every thread and every dialog         *)
(* connected to a signal receives it once.                                 *)
LEMMA SetToSeqIsInjective ==
    ASSUME NEW S, IsFiniteSet(S)
    PROVE  IsInjective(SetToSeq(S))
<1> DEFINE n == Cardinality(S)
<1>1. n \in Nat /\ ExistsBijection(1 .. n, S)
  BY FS_CardinalityType
<1>2. \E f \in [1 .. n -> S] : IsInjective(f)
  BY <1>1 DEF ExistsBijection, Bijection, Injection, IsInjective
<1> QED
  BY <1>2 DEF SetToSeq

(* A sequence is as long as its domain says.                               *)
LEMMA LengthFromDomain ==
    ASSUME NEW E, NEW s \in Seq(E), NEW n \in Nat, DOMAIN s = 1 .. n
    PROVE  Len(s) = n
BY DOMAIN s = 1 .. Len(s), Len(s) \in Nat
=============================================================================
