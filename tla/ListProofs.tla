----------------------------- MODULE ListProofs -----------------------------
(***************************************************************************)
(* What the list operators of the specifications return.                   *)
(***************************************************************************)
EXTENDS Integers, ThreadLists, TLAPS, FiniteSetTheorems

\* A function on 1 .. n is a sequence.
LEMMA IsSequence ==
    ASSUME NEW S, NEW n \in Nat, NEW f \in [1 .. n -> S]
    PROVE  f \in Seq(S)
OBVIOUS

\* A non-empty set of natural numbers has a least element, the form of
\* induction the other lemmas use.
LEMMA NatMin ==
    ASSUME NEW S \in SUBSET Nat, S # {}
    PROVE  \E m \in S : \A n \in S : m <= n
<1> DEFINE R == {ss \in Nat \X Nat : ss[1] < ss[2]}
<1>1. IsWellFoundedOn(R, Nat)
  BY NatLessThanWellFounded DEF OpToRel
<1>2. PICK m \in S : \A n \in S : ~ (<<n, m>> \in R)
  <2> HIDE DEF R
  <2> QED BY <1>1, WFMin
<1>3. \A n \in S : ~(n < m)
   BY <1>2
<1> QED BY <1>3

\* Every position of a filtered sequence stems from a kept index.
LEMMA FilterIndex ==
    ASSUME NEW L \in Nat, NEW kept, kept \subseteq 1 .. L,
           NEW n \in Nat, n # 0, n <= Cardinality(kept)
    PROVE  \E i \in kept : Rank(kept, i) = n
<1> DEFINE upto(i) == {j \in kept : j <= i}
           rank(i) == Cardinality(upto(i))
           U == {i \in 0 .. L : rank(i) >= n}
<1>1. \A j \in kept : j \in Nat /\ 1 <= j /\ j <= L
  OBVIOUS
<1>2. upto(L) = kept /\ upto(0) = {}
  <2>1. \A j \in kept : j <= L /\ ~(j <= 0)
    BY <1>1
  <2> QED BY <2>1, Zenon
<1>3. ASSUME NEW i \in 1 .. L
      PROVE  /\ upto(i) = IF i \in kept THEN upto(i - 1) \cup {i}
                                       ELSE upto(i - 1)
             /\ i \notin upto(i - 1)
  <2>1. \A j \in kept : j <= i <=> j <= i - 1 \/ j = i
    BY <1>1
  <2>2. ~(i <= i - 1)
    OBVIOUS
  <2> QED BY <2>1, <2>2, Zenon
<1>4. IsFiniteSet(kept)
  <2>1. IsFiniteSet(1 .. L)
    BY FS_Interval
  <2> QED BY <2>1, FS_Subset
<1>5. \A i \in Nat : upto(i) \subseteq kept
  OBVIOUS
<1> HIDE DEF upto
<1>6. \A i \in Nat : IsFiniteSet(upto(i))
  BY <1>4, <1>5, FS_Subset
<1>7. \A i \in Nat : rank(i) \in Nat
  BY <1>6, FS_CardinalityType
<1>8. rank(0) = 0 /\ rank(L) >= n
  BY <1>2, FS_EmptySet
<1>9. \A i \in 1 .. L : rank(i) = IF i \in kept THEN rank(i - 1) + 1
                                                ELSE rank(i - 1)
  <2> TAKE i \in 1 .. L
  <2>1. IsFiniteSet(upto(i - 1)) /\ i \notin upto(i - 1)
    BY <1>3, <1>6
  <2> QED BY <1>3, <2>1, FS_AddElement
<1> HIDE DEF rank
<1>10. PICK m \in U : \A i \in U : m <= i
  <2>1. L \in U /\ U \in SUBSET Nat
    BY <1>8
  <2> HIDE DEF U
  <2> QED BY <2>1, NatMin
<1>11. m \in 1 .. L /\ m - 1 \in 0 .. L /\ m - 1 \notin U
  BY <1>10, <1>8
<1>12. rank(m - 1) < n /\ rank(m) >= n
  BY <1>11, <1>10, <1>7
<1>13. m \in kept /\ rank(m) = n
  BY <1>12, <1>11, <1>9, <1>7
<1> QED BY <1>13 DEF rank, upto, Rank

\* Keeping some elements of a sequence leaves a sequence over the same set
\* with those elements only: the loops of scheduler_global_tick(), of the
\* aging it calls and of scheduler_select_next_locked().
LEMMA FilterType ==
    ASSUME NEW S, NEW s \in Seq(S), NEW K
    PROVE  /\ Filter(s, K) \in Seq(S) /\ Len(Filter(s, K)) <= Len(s)
           /\ \A n \in 1 .. Len(Filter(s, K)) : Filter(s, K)[n] \in K
<1> DEFINE kept == {i \in DOMAIN s : s[i] \in K}
           pick(n) == CHOOSE i \in kept : Rank(kept, i) = n
<1>1. kept \subseteq 1 .. Len(s) /\ Len(s) \in Nat
  OBVIOUS
<1>2. \A i \in kept : s[i] \in S /\ s[i] \in K
  OBVIOUS
<1>3. Filter(s, K) = [n \in 1 .. Cardinality(kept) |-> s[pick(n)]]
  BY DEF Filter
<1> HIDE DEF kept
<1>4. Cardinality(kept) \in Nat /\ Cardinality(kept) <= Len(s)
  <2>1. IsFiniteSet(1 .. Len(s)) /\ Cardinality(1 .. Len(s)) = Len(s)
    <3>1. 1 \in Int /\ Len(s) \in Int /\ (1 > Len(s) => Len(s) = 0)
      BY <1>1
    <3>2. IsFiniteSet(1 .. Len(s)) /\ Cardinality(1 .. Len(s)) =
            IF 1 > Len(s) THEN 0 ELSE Len(s) - 1 + 1
      BY <3>1, FS_Interval
    <3> QED BY <3>1, <3>2
  <2> QED BY <1>1, <2>1, FS_Subset, FS_CardinalityType
<1>5. ASSUME NEW n \in 1 .. Cardinality(kept)
      PROVE  pick(n) \in kept
  <2>1. n \in Nat /\ n # 0 /\ n <= Cardinality(kept)
    BY <1>4
  <2>2. \E i \in kept : Rank(kept, i) = n
    BY <1>1, <2>1, FilterIndex
  <2> QED BY <2>2
<1> HIDE DEF pick
<1>6. \A n \in 1 .. Cardinality(kept) : s[pick(n)] \in S /\ s[pick(n)] \in K
  BY <1>2, <1>5
<1>7. Filter(s, K) \in Seq(S)
  <2>1. Filter(s, K) \in [1 .. Cardinality(kept) -> S]
    BY <1>3, <1>6
  <2> QED BY <2>1, <1>4, IsSequence
<1>8. Len(Filter(s, K)) = Cardinality(kept)
  BY <1>3, <1>4, <1>7
<1> QED BY <1>3, <1>4, <1>6, <1>7, <1>8

\* Unlinking an element leaves a sequence over the same set:
\* scheduler_remove_queued_locked() and sleeping_remove().
LEMMA WithoutType ==
    ASSUME NEW S, NEW s \in Seq(S), NEW e
    PROVE  Without(s, e) \in Seq(S) /\ Len(Without(s, e)) <= Len(s)
<1>1. CASE e \notin Range(s)
  BY <1>1 DEF Without
<1>2. CASE e \in Range(s)
  <2> DEFINE i == CHOOSE i \in DOMAIN s : s[i] = e
  <2>1. i \in DOMAIN s
    BY <1>2 DEF Range
  <2>2. Without(s, e) = [n \in 1 .. (Len(s) - 1) |-> s[IF n < i THEN n ELSE n + 1]]
    BY <1>2 DEF Without
  <2> HIDE DEF i
  <2>3. i \in 1 .. Len(s) /\ Len(s) - 1 \in Nat
    BY <2>1
  <2>4. Without(s, e) \in [1 .. (Len(s) - 1) -> S]
    BY <2>2, <2>3
  <2> QED BY <2>3, <2>4, IsSequence
<1> QED BY <1>1, <1>2

\* Pushing the elements back one by one leaves a sequence over the same set.
LEMMA BackwardsType ==
    ASSUME NEW S, NEW s \in Seq(S)
    PROVE  Backwards(s) \in Seq(S)
<1>1. \A i \in 1 .. Len(s) : s[(Len(s) - i) + 1] \in S
  OBVIOUS
<1>2. Backwards(s) \in [1 .. Len(s) -> S] /\ Len(s) \in Nat
  BY <1>1 DEF Backwards
<1> QED BY <1>2, IsSequence
=============================================================================
