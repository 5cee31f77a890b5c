----------------------------- MODULE PlacesProofs -----------------------------
(***************************************************************************)
(* Lemmas about places of a list: the n-th places come in order, and every *)
(* place has its turn; what is picked from a list that was continued is    *)
(* what was picked from its parts.                                         *)
(***************************************************************************)
EXTENDS Places, SequenceTheorems, FiniteSetTheorems, WellFoundedInduction, TLAPS

LEMMA Smallest ==
    ASSUME NEW T \in SUBSET Nat, T # {}
    PROVE  \E x \in T : \A y \in T : x <= y
<1>1. PICK x \in T : \A y \in T : ~ (<<y, x>> \in OpToRel(<, Nat))
  BY NatLessThanWellFounded, WFMin
<1>2. \A y \in T : ~ (y < x)
  BY <1>1, Zenon DEF OpToRel
<1>3. \A y \in T : x <= y
  <2> TAKE y \in T
  <2>1. x \in Nat /\ y \in Nat /\ ~ (y < x)
    BY <1>2
  <2> QED
    BY <2>1
<1> QED
  BY <1>3

LEMMA Ranks ==
    ASSUME NEW n \in Nat, NEW S \in SUBSET (1 .. n)
    PROVE  /\ IsFiniteSet(S) /\ Cardinality(S) \in 0 .. n
           /\ \A i \in 0 .. n : Rank(S, i) \in 0 .. Cardinality(S)
           /\ Rank(S, 0) = 0 /\ Rank(S, n) = Cardinality(S)
           /\ \A i \in 1 .. n :
                 Rank(S, i) = Rank(S, i - 1) + (IF i \in S THEN 1 ELSE 0)
           /\ \A i, j \in 0 .. n : i <= j => Rank(S, i) <= Rank(S, j)
           /\ \A i \in 0 .. n : \A j \in S : i < j => Rank(S, i) < Rank(S, j)
<1>1. IsFiniteSet(1 .. n) /\ Cardinality(1 .. n) = n
  BY FS_Interval
<1>2. IsFiniteSet(S) /\ Cardinality(S) <= n
  BY <1>1, FS_Subset
<1>3. Cardinality(S) \in Nat
  BY <1>2, FS_CardinalityType
<1>0. \A j \in S : j \in 1 .. n /\ j \in Int /\ 0 < j /\ j <= n
  OBVIOUS
<1> DEFINE Upto(i) == {j \in S : j <= i}
<1>4. \A i \in 0 .. n : /\ IsFiniteSet(Upto(i)) /\ Cardinality(Upto(i)) <= Cardinality(S)
                        /\ Rank(S, i) = Cardinality(Upto(i))
  <2> TAKE i \in 0 .. n
  <2>1. Upto(i) \in SUBSET S
    OBVIOUS
  <2> QED
    BY <1>2, <2>1, FS_Subset DEF Rank
<1>5. \A i \in 0 .. n : Rank(S, i) \in 0 .. Cardinality(S)
  <2> TAKE i \in 0 .. n
  <2>1. Cardinality(Upto(i)) \in Nat
    BY <1>4, FS_CardinalityType
  <2> QED
    BY <1>3, <1>4, <2>1
<1>11. \A i, j : j \in Upto(i) <=> j \in S /\ j <= i
  OBVIOUS
<1> HIDE DEF Upto
<1>6. Rank(S, 0) = 0
  <2>1. \A j \in S : ~ (j <= 0)
    BY <1>0
  <2>2. Upto(0) = {}
    BY <1>11, <2>1, Zenon
  <2>3. 0 \in 0 .. n
    OBVIOUS
  <2> QED
    BY <1>4, <2>2, <2>3, FS_EmptySet
<1>7. Rank(S, n) = Cardinality(S)
  <2>1. \A j \in S : j <= n
    BY <1>0
  <2>2. Upto(n) = S
    BY <1>11, <2>1, Zenon
  <2>3. n \in 0 .. n
    OBVIOUS
  <2> QED
    BY <1>4, <2>2, <2>3
<1>8. ASSUME NEW i \in 1 .. n
      PROVE  Rank(S, i) = Rank(S, i - 1) + (IF i \in S THEN 1 ELSE 0)
  <2>1. i - 1 \in 0 .. n /\ i \in 0 .. n
    OBVIOUS
  <2>2. CASE i \in S
    <3>1. \A j \in S : j <= i <=> j <= i - 1 \/ j = i
      BY <1>0
    <3>2. Upto(i) = Upto(i - 1) \cup {i}
      BY <1>11, <2>2, <3>1, Zenon
    <3>5. i \notin Upto(i - 1)
      BY <1>11
    <3>3. IsFiniteSet(Upto(i - 1)) /\ Rank(S, i - 1) = Cardinality(Upto(i - 1))
      BY <1>4, <2>1
    <3>4. Rank(S, i) = Cardinality(Upto(i))
      BY <1>4, <2>1
    <3> QED
      BY <2>2, <3>2, <3>3, <3>4, <3>5, FS_AddElement
  <2>3. CASE i \notin S
    <3>0. \A j \in S : j <= i <=> j <= i - 1
      BY <1>0, <2>3
    <3>5. \A j : j \in Upto(i) <=> j \in Upto(i - 1)
      BY <1>11, <3>0
    <3>1. Upto(i) = Upto(i - 1)
      BY <3>5, Zenon
    <3>4. \A k \in 0 .. n : Rank(S, k) = Cardinality(Upto(k))
      BY <1>4
    <3>2. Rank(S, i) = Rank(S, i - 1) /\ Rank(S, i - 1) \in 0 .. Cardinality(S)
      BY <1>5, <2>1, <3>1, <3>4
    <3>3. Rank(S, i - 1) \in Int
      BY <1>3, <3>2
    <3> QED
      BY <2>3, <3>2, <3>3
  <2> QED
    BY <2>2, <2>3
<1>9. ASSUME NEW i \in 0 .. n, NEW j \in 0 .. n, i <= j
      PROVE  Rank(S, i) <= Rank(S, j)
  <2>0. \A m \in S : m <= i => m <= j
    BY <1>0, <1>9
  <2>1. Upto(i) \in SUBSET Upto(j)
    BY <1>11, <2>0
  <2>2. IsFiniteSet(Upto(j)) /\ Rank(S, i) = Cardinality(Upto(i)) /\ Rank(S, j) = Cardinality(Upto(j))
    BY <1>4
  <2>3. Cardinality(Upto(i)) <= Cardinality(Upto(j))
    BY <2>1, <2>2, FS_Subset
  <2> QED
    BY <2>2, <2>3
<1>10. ASSUME NEW i \in 0 .. n, NEW j \in S, i < j
       PROVE  Rank(S, i) < Rank(S, j)
  <2>1. j \in 1 .. n /\ j - 1 \in 0 .. n /\ i <= j - 1
    BY <1>10
  <2>2. Rank(S, i) <= Rank(S, j - 1) /\ Rank(S, j) = Rank(S, j - 1) + 1
    BY <1>8, <1>9, <2>1
  <2>3. Rank(S, i) \in Nat /\ Rank(S, j - 1) \in Nat
    BY <1>3, <1>5, <2>1
  <2> QED
    BY <2>2, <2>3
<1> QED
  BY <1>2, <1>3, <1>5, <1>6, <1>7, <1>8, <1>9, <1>10

LEMMA NthIs ==
    ASSUME NEW n \in Nat, NEW S \in SUBSET (1 .. n), NEW k \in 1 .. Cardinality(S)
    PROVE  Nth(S, k) \in S /\ Rank(S, Nth(S, k)) = k
<1> DEFINE C == Cardinality(S)
           T == {i \in 0 .. n : Rank(S, i) >= k}
<1>1. C \in 0 .. n /\ \A i \in 0 .. n : Rank(S, i) \in 0 .. C
  BY Ranks
<1>2. Rank(S, 0) = 0 /\ Rank(S, n) = C
  BY Ranks
<1>3. n \in T /\ T \in SUBSET Nat
  BY <1>1, <1>2
<1>4. PICK x \in T : \A y \in T : x <= y
  BY <1>3, Smallest
<1>5. x \in 1 .. n
  BY <1>1, <1>2, <1>4
<1>6. x - 1 \in 0 .. n /\ x - 1 \notin T
  BY <1>4, <1>5
<1>7. Rank(S, x) = Rank(S, x - 1) + (IF x \in S THEN 1 ELSE 0)
  BY <1>5, Ranks
<1>8. Rank(S, x - 1) < k /\ Rank(S, x) >= k /\ Rank(S, x - 1) \in Nat /\ Rank(S, x) \in Nat
  BY <1>1, <1>4, <1>6
<1>9. x \in S /\ Rank(S, x) = k
  <2>1. CASE x \in S
    BY <1>7, <1>8, <2>1
  <2>2. CASE x \notin S
    BY <1>7, <1>8, <2>2
  <2> QED
    BY <2>1, <2>2
<1> QED
  BY <1>9 DEF Nth

(* The n-th places come in order, and every place has its turn. *)
LEMMA NthInOrder ==
    ASSUME NEW n \in Nat, NEW S \in SUBSET (1 .. n)
    PROVE  /\ \A k \in 1 .. Cardinality(S) : Nth(S, k) \in S
           /\ \A k, l \in 1 .. Cardinality(S) : k < l => Nth(S, k) < Nth(S, l)
           /\ \A k \in 1 .. Cardinality(S) : \A i \in S :
                 k <= Rank(S, i) => Nth(S, k) <= i
           /\ \A i \in S : /\ Rank(S, i) \in 1 .. Cardinality(S)
                           /\ Nth(S, Rank(S, i)) = i
<1>1. \A k \in 1 .. Cardinality(S) : Nth(S, k) \in S /\ Rank(S, Nth(S, k)) = k
  BY NthIs
<1>2. Cardinality(S) \in Nat /\ \A i \in 0 .. n : Rank(S, i) \in 0 .. Cardinality(S)
  BY Ranks
<1>3. ASSUME NEW i \in S, NEW j \in S, Rank(S, i) <= Rank(S, j)
      PROVE  i <= j
  <2>1. i \in 1 .. n /\ j \in 0 .. n /\ i \in 0 .. n
    OBVIOUS
  <2>4. \A k \in 0 .. n : \A m \in S : k < m => Rank(S, k) < Rank(S, m)
    BY Ranks
  <2>2. j < i => Rank(S, j) < Rank(S, i)
    BY <2>1, <2>4
  <2>3. Rank(S, i) \in Int /\ Rank(S, j) \in Int
    BY <1>2, <2>1
  <2> QED
    BY <1>3, <2>1, <2>2, <2>3
<1>4. ASSUME NEW i \in S, NEW j \in S, Rank(S, i) = Rank(S, j)
      PROVE  i = j
  <2>1. Rank(S, i) \in Int /\ Rank(S, j) \in Int
    BY <1>2
  <2>2. i <= j /\ j <= i
    BY <1>3, <1>4, <2>1
  <2> QED
    BY <2>2
<1>5. ASSUME NEW i \in S
      PROVE  Rank(S, i) \in 1 .. Cardinality(S) /\ Nth(S, Rank(S, i)) = i
  <2>1. 0 \in 0 .. n /\ i \in 0 .. n /\ 0 < i /\ Rank(S, 0) = 0
    BY Ranks
  <2>4. \A k \in 0 .. n : \A m \in S : k < m => Rank(S, k) < Rank(S, m)
    BY Ranks
  <2>2. Rank(S, i) > 0
    BY <2>1, <2>4
  <2>3. Rank(S, i) \in 1 .. Cardinality(S)
    BY <1>2, <2>1, <2>2
  <2> QED
    BY <1>1, <1>4, <2>3
<1>6. ASSUME NEW k \in 1 .. Cardinality(S), NEW l \in 1 .. Cardinality(S), k < l
      PROVE  Nth(S, k) < Nth(S, l)
  <2>1. /\ Nth(S, k) \in S /\ Rank(S, Nth(S, k)) = k
        /\ Nth(S, l) \in S /\ Rank(S, Nth(S, l)) = l
    BY <1>1
  <2>2. Nth(S, k) <= Nth(S, l)
    <3>1. k <= l
      BY <1>6
    <3> QED
      BY <1>3, <2>1, <3>1
  <2>3. Nth(S, k) # Nth(S, l)
    BY <1>6, <2>1
  <2>4. Nth(S, k) \in Int /\ Nth(S, l) \in Int
    <3>1. \A i \in S : i \in Int
      OBVIOUS
    <3> QED
      BY <2>1, <3>1
  <2> QED
    BY <2>2, <2>3, <2>4
<1>7. ASSUME NEW k \in 1 .. Cardinality(S), NEW i \in S, k <= Rank(S, i)
      PROVE  Nth(S, k) <= i
  <2>1. Nth(S, k) \in S /\ Rank(S, Nth(S, k)) = k
    BY <1>1
  <2>2. Rank(S, Nth(S, k)) <= Rank(S, i)
    BY <1>7, <2>1
  <2> QED
    BY <1>3, <2>1, <2>2
<1>8. \A k, l \in 1 .. Cardinality(S) : k < l => Nth(S, k) < Nth(S, l)
  BY <1>6
<1>9. \A k \in 1 .. Cardinality(S) : \A i \in S : k <= Rank(S, i) => Nth(S, k) <= i
  BY <1>7
<1>10. \A k \in 1 .. Cardinality(S) : Nth(S, k) \in S
  BY <1>1
<1> QED
  BY <1>5, <1>8, <1>9, <1>10

LEMMA PickedIs ==
    ASSUME NEW X, NEW seq \in Seq(X), NEW S \in SUBSET DOMAIN seq
    PROVE  /\ Picked(seq, S) \in Seq(X)
           /\ DOMAIN Picked(seq, S) = 1 .. Cardinality(S)
           /\ Len(Picked(seq, S)) = Cardinality(S) /\ Cardinality(S) \in 0 .. Len(seq)
           /\ \A k \in 1 .. Cardinality(S) :
                 Nth(S, k) \in S /\ Picked(seq, S)[k] = seq[Nth(S, k)]
           /\ \A k, l \in 1 .. Cardinality(S) : k < l => Nth(S, k) < Nth(S, l)
           /\ \A i \in S : \E k \in 1 .. Cardinality(S) : Picked(seq, S)[k] = seq[i]
<1>1. Len(seq) \in Nat /\ DOMAIN seq = 1 .. Len(seq) /\ \A i \in 1 .. Len(seq) : seq[i] \in X
  BY LenProperties, ElementOfSeq
<1>2. S \in SUBSET (1 .. Len(seq)) /\ Cardinality(S) \in 0 .. Len(seq)
  BY <1>1, Ranks
<1>3. /\ \A k \in 1 .. Cardinality(S) : Nth(S, k) \in S
      /\ \A k, l \in 1 .. Cardinality(S) : k < l => Nth(S, k) < Nth(S, l)
      /\ \A i \in S : Rank(S, i) \in 1 .. Cardinality(S) /\ Nth(S, Rank(S, i)) = i
  BY <1>1, <1>2, NthInOrder
<1> DEFINE C == Cardinality(S)
<1>4. C \in Nat /\ \A k \in 1 .. C : seq[Nth(S, k)] \in X
  BY <1>1, <1>2, <1>3
<1>5. /\ Picked(seq, S) = [k \in 1 .. C |-> seq[Nth(S, k)]]
  BY DEF Picked
<1> HIDE DEF C
<1>6. Picked(seq, S) \in Seq(X) /\ Len(Picked(seq, S)) = C /\ DOMAIN Picked(seq, S) = 1 .. C
  BY <1>4, <1>5
<1>7. \A k \in 1 .. C : Picked(seq, S)[k] = seq[Nth(S, k)]
  BY <1>5
<1> QED
  BY <1>2, <1>3, <1>6, <1>7 DEF C

(* The places of a list that was continued: those of its beginning, and those
   of what was added. *)
Continues(U, m, S, n, T) ==
    /\ U \subseteq 1 .. m + n
    /\ \A i \in 1 .. m : i \in U <=> i \in S
    /\ \A j \in 1 .. n : m + j \in U <=> j \in T

(* A place, so many after another. *)
After(i, m, j) == i = m + j

LEMMA RankFirst ==
    ASSUME NEW m \in Nat, NEW n \in Nat, NEW S \in SUBSET (1 .. m), NEW T \in SUBSET (1 .. n),
           NEW U, Continues(U, m, S, n, T),
           NEW i \in 0 .. m
    PROVE  Rank(U, i) = Rank(S, i)
<1>1. /\ IsFiniteSet(S) /\ Cardinality(S) \in Nat /\ IsFiniteSet(T) /\ Cardinality(T) \in Nat
  BY Ranks
<1>2. \A x \in S : x \in 1 .. m /\ x \in U
  BY DEF Continues
<1>3. \A x \in U : x \in 1 .. m + n
  BY DEF Continues
<1>11. \A x : x \in U /\ x <= i <=> x \in S /\ x <= i
  <2>1. ASSUME NEW x \in U, x <= i PROVE x \in S
    <3>1. x \in 1 .. m
      BY <1>3, <2>1
    <3> QED
      BY <3>1 DEF Continues
  <2> QED
    BY <1>2, <2>1
<1>12. {x \in U : x <= i} = {x \in S : x <= i}
  BY <1>11, Zenon
<1> QED
  BY <1>12 DEF Rank

LEMMA RankThen ==
    ASSUME NEW m \in Nat, NEW n \in Nat, NEW S \in SUBSET (1 .. m), NEW T \in SUBSET (1 .. n),
           NEW U, Continues(U, m, S, n, T),
           NEW j \in 0 .. n, NEW i, After(i, m, j)
    PROVE  After(Rank(U, i), Cardinality(S), Rank(T, j))
<1>0. i = m + j
  BY DEF After
<1>1. /\ IsFiniteSet(S) /\ Cardinality(S) \in Nat /\ IsFiniteSet(T) /\ Cardinality(T) \in Nat
  BY Ranks
<1>2. \A x \in S : x \in 1 .. m /\ x \in U
  BY DEF Continues
<1>3. \A x \in U : x \in 1 .. m + n
  BY DEF Continues
<1> DEFINE A == {t \in T : t <= j}
           B == {u \in U : m < u /\ u <= m + j}
           f == [t \in A |-> m + t]
<1>11. IsFiniteSet(A) /\ Rank(T, j) = Cardinality(A)
  BY <1>1, FS_Subset DEF Rank
<1>12. \A t \in A : t \in 1 .. n /\ t \in Int /\ m + t \in B
  BY DEF Continues
<1>13. \A u \in B : u - m \in A /\ m + (u - m) = u
  <2> TAKE u \in B
  <2>1. u \in 1 .. m + n /\ m < u /\ u <= m + j
    BY <1>3
  <2>2. u - m \in 1 .. n /\ m + (u - m) = u /\ u - m <= j
    BY <2>1
  <2> QED
    BY <2>2 DEF Continues
<1>14. f \in Bijection(A, B)
  <2> HIDE DEF A, B
  <2>1. f \in [A -> B]
    BY <1>12
  <2>2. \A s, t \in A : f[s] = f[t] => s = t
    BY <1>12
  <2>3. \A u \in B : \E t \in A : f[t] = u
    BY <1>13
  <2> QED
    BY <2>1, <2>2, <2>3 DEF Bijection, Injection, Surjection, IsInjective
<1>15. IsFiniteSet(B) /\ Cardinality(B) = Cardinality(A)
  BY <1>11, <1>14, FS_Bijection DEF ExistsBijection
<1>16. \A x : x \in U /\ x <= m + j <=> x \in S \/ x \in B
  <2>1. ASSUME NEW x \in U, x <= m + j, x \notin S PROVE x \in B
    <3>1. x \in 1 .. m + n
      BY <1>3
    <3>2. x > m
      BY <2>1, <3>1 DEF Continues
    <3> QED
      BY <2>1, <3>1, <3>2
  <2>2. \A x \in S : x \in U /\ x <= m + j
    BY <1>2
  <2> QED
    BY <2>1, <2>2
<1>17. S \cap B = {}
  <2>1. \A x \in S : ~ (m < x)
    BY <1>2
  <2> QED
    BY <2>1
<1> HIDE DEF A, B
<1>18. {x \in U : x <= m + j} = S \cup B
  BY <1>16, Zenon
<1>19. Cardinality(S \cup B) = Cardinality(S) + Cardinality(B) - Cardinality(S \cap B)
  BY <1>1, <1>15, FS_Union
<1>20. Cardinality(S \cap B) = 0 /\ Cardinality(B) \in Nat
  BY <1>15, <1>17, FS_EmptySet, FS_CardinalityType
<1>21. Rank(U, i) = Cardinality(S \cup B)
  BY <1>0, <1>18 DEF Rank
<1> QED
  BY <1>1, <1>11, <1>15, <1>19, <1>20, <1>21 DEF After

LEMMA JoinedCount ==
    ASSUME NEW m \in Nat, NEW n \in Nat, NEW S \in SUBSET (1 .. m), NEW T \in SUBSET (1 .. n),
           NEW U, Continues(U, m, S, n, T)
    PROVE  Cardinality(U) = Cardinality(S) + Cardinality(T)
<1> DEFINE l == m + n
<1>1. U \in SUBSET (1 .. l) /\ l \in Nat /\ n \in 0 .. n /\ After(l, m, n)
  BY DEF Continues, After
<1> HIDE DEF l
<1>2. After(Rank(U, l), Cardinality(S), Rank(T, n))
  BY <1>1, RankThen
<1>3. Rank(U, l) = Cardinality(U) /\ Rank(T, n) = Cardinality(T)
  BY <1>1, Ranks
<1> QED
  BY <1>2, <1>3 DEF After

LEMMA JoinedFirst ==
    ASSUME NEW m \in Nat, NEW n \in Nat, NEW S \in SUBSET (1 .. m), NEW T \in SUBSET (1 .. n),
           NEW U, Continues(U, m, S, n, T),
           NEW k \in 1 .. Cardinality(S)
    PROVE  Nth(U, k) = Nth(S, k)
<1> DEFINE i == Nth(S, k)
<1>1. i \in S /\ Rank(S, i) = k
  BY NthIs
<1> HIDE DEF i
<1>2. i \in U /\ i \in 0 .. m /\ U \in SUBSET (1 .. m + n) /\ m + n \in Nat
  BY <1>1 DEF Continues
<1>3. Rank(U, i) = k
  BY <1>1, <1>2, RankFirst
<1>4. Nth(U, Rank(U, i)) = i
  BY <1>2, NthInOrder
<1> QED
  BY <1>3, <1>4 DEF i

LEMMA JoinedThen ==
    ASSUME NEW m \in Nat, NEW n \in Nat, NEW S \in SUBSET (1 .. m), NEW T \in SUBSET (1 .. n),
           NEW U, Continues(U, m, S, n, T),
           NEW k \in 1 .. Cardinality(T), NEW l, After(l, Cardinality(S), k)
    PROVE  After(Nth(U, l), m, Nth(T, k))
<1> DEFINE j == Nth(T, k)
<1>1. j \in T /\ Rank(T, j) = k
  BY NthIs
<1> HIDE DEF j
<1> DEFINE i == m + j
<1>2. i \in U /\ j \in 0 .. n /\ After(i, m, j) /\ U \in SUBSET (1 .. m + n) /\ m + n \in Nat
  BY <1>1 DEF Continues, After
<1> HIDE DEF i
<1>3. After(Rank(U, i), Cardinality(S), Rank(T, j))
  BY <1>1, <1>2, RankThen
<1>4. Rank(U, i) = l
  BY <1>1, <1>3 DEF After
<1>5. Nth(U, Rank(U, i)) = i
  BY <1>2, NthInOrder
<1> QED
  BY <1>2, <1>4, <1>5 DEF j

Joins(U, a, S, b, T) ==
    /\ S \subseteq DOMAIN a /\ T \subseteq DOMAIN b
    /\ Continues(U, Len(a), S, Len(b), T)

LEMMA PickedJoined ==
    ASSUME NEW X, NEW a \in Seq(X), NEW b \in Seq(X), NEW S, NEW T, NEW U,
           Joins(U, a, S, b, T)
    PROVE  Picked(a \o b, U) = Picked(a, S) \o Picked(b, T)
<1>0. /\ S \in SUBSET DOMAIN a /\ T \in SUBSET DOMAIN b
      /\ Continues(U, Len(a), S, Len(b), T)
  BY DEF Joins
<1>1. /\ Len(a) \in Nat /\ DOMAIN a = 1 .. Len(a)
      /\ Len(b) \in Nat /\ DOMAIN b = 1 .. Len(b)
  BY LenProperties
<1>2. /\ a \o b \in Seq(X) /\ Len(a \o b) = Len(a) + Len(b)
      /\ \A i \in 1 .. Len(a) + Len(b) :
            (a \o b)[i] = IF i <= Len(a) THEN a[i] ELSE b[i - Len(a)]
  BY ConcatProperties
<1>3. DOMAIN (a \o b) = 1 .. Len(a) + Len(b) /\ U \in SUBSET DOMAIN (a \o b)
  BY <1>0, <1>2, LenProperties DEF Continues
<1>4. /\ Cardinality(U) = Cardinality(S) + Cardinality(T)
      /\ \A k \in 1 .. Cardinality(S) : Nth(U, k) = Nth(S, k)
      /\ \A k \in 1 .. Cardinality(T) : Nth(U, Cardinality(S) + k) = Len(a) + Nth(T, k)
  <2> DEFINE m == Len(a)
             n == Len(b)
  <2>1. /\ m \in Nat /\ n \in Nat /\ Continues(U, m, S, n, T)
        /\ S \in SUBSET (1 .. m) /\ T \in SUBSET (1 .. n)
    BY <1>0, <1>1
  <2> HIDE DEF m, n
  <2>2. Cardinality(U) = Cardinality(S) + Cardinality(T)
    BY <2>1, JoinedCount
  <2>3. ASSUME NEW k \in 1 .. Cardinality(S) PROVE Nth(U, k) = Nth(S, k)
    BY <2>1, JoinedFirst
  <2>4. ASSUME NEW k \in 1 .. Cardinality(T) PROVE Nth(U, Cardinality(S) + k) = m + Nth(T, k)
    <3> DEFINE l == Cardinality(S) + k
    <3>1. After(l, Cardinality(S), k)
      BY DEF After
    <3> HIDE DEF l
    <3>2. After(Nth(U, l), m, Nth(T, k))
      BY <2>1, <3>1, JoinedThen
    <3> QED
      BY <3>1, <3>2 DEF After
  <2> QED
    BY <2>2, <2>3, <2>4 DEF m
<1>5. /\ Picked(a \o b, U) \in Seq(X) /\ Len(Picked(a \o b, U)) = Cardinality(U)
      /\ \A k \in 1 .. Cardinality(U) : Picked(a \o b, U)[k] = (a \o b)[Nth(U, k)]
  BY <1>2, <1>3, PickedIs
<1>6. /\ Picked(a, S) \in Seq(X) /\ Len(Picked(a, S)) = Cardinality(S)
      /\ Cardinality(S) \in Nat
      /\ \A k \in 1 .. Cardinality(S) : Picked(a, S)[k] = a[Nth(S, k)] /\ Nth(S, k) \in S
  BY <1>0, <1>1, PickedIs
<1>7. /\ Picked(b, T) \in Seq(X) /\ Len(Picked(b, T)) = Cardinality(T)
      /\ Cardinality(T) \in Nat
      /\ \A k \in 1 .. Cardinality(T) : Picked(b, T)[k] = b[Nth(T, k)] /\ Nth(T, k) \in T
  BY <1>0, <1>1, PickedIs
<1> DEFINE J == Picked(a, S) \o Picked(b, T)
<1>8. /\ J \in Seq(X) /\ Len(J) = Cardinality(S) + Cardinality(T)
      /\ \A k \in 1 .. Cardinality(S) + Cardinality(T) :
            J[k] = IF k <= Cardinality(S) THEN Picked(a, S)[k]
                   ELSE Picked(b, T)[k - Cardinality(S)]
  <2>1. Picked(a, S) \in Seq(X) /\ Picked(b, T) \in Seq(X)
    BY <1>6, <1>7
  <2>2. /\ J \in Seq(X) /\ Len(J) = Len(Picked(a, S)) + Len(Picked(b, T))
        /\ \A k \in 1 .. Len(Picked(a, S)) + Len(Picked(b, T)) :
              J[k] = IF k <= Len(Picked(a, S)) THEN Picked(a, S)[k]
                     ELSE Picked(b, T)[k - Len(Picked(a, S))]
    BY <2>1, ConcatProperties
  <2>3. Len(Picked(a, S)) = Cardinality(S) /\ Len(Picked(b, T)) = Cardinality(T)
    BY <1>6, <1>7
  <2> HIDE DEF J
  <2> QED
    BY <2>2, <2>3
<1>9. ASSUME NEW k \in 1 .. Cardinality(S) + Cardinality(T)
      PROVE  Picked(a \o b, U)[k] = J[k]
  <2>1. CASE k <= Cardinality(S)
    <3>1. k \in 1 .. Cardinality(S)
      BY <1>6, <1>7, <2>1
    <3>2. Nth(S, k) \in 1 .. Len(a)
      BY <1>0, <1>1, <1>6, <3>1
    <3> QED
      BY <1>1, <1>2, <1>4, <1>5, <1>6, <1>8, <2>1, <3>1, <3>2
  <2>2. CASE k > Cardinality(S)
    <3> DEFINE l == k - Cardinality(S)
    <3>1. l \in 1 .. Cardinality(T) /\ k = Cardinality(S) + l
      BY <1>6, <1>7, <2>2
    <3>2. Nth(T, l) \in 1 .. Len(b) /\ Picked(b, T)[l] = b[Nth(T, l)]
      BY <1>0, <1>1, <1>7, <3>1
    <3>3. J[k] = Picked(b, T)[l]
      BY <1>6, <1>7, <1>8, <2>2
    <3>4. Nth(U, k) = Len(a) + Nth(T, l)
      BY <1>4, <3>1
    <3> HIDE DEF l, J
    <3>5. (a \o b)[Len(a) + Nth(T, l)] = b[Nth(T, l)]
      BY <1>1, <1>2, <3>2
    <3> QED
      BY <1>4, <1>5, <3>2, <3>3, <3>4, <3>5
  <2> QED
    BY <1>6, <1>7, <2>1, <2>2
<1> HIDE DEF J
<1>10. Picked(a \o b, U) = J
  BY <1>4, <1>5, <1>8, <1>9, SeqEqual
<1> QED
  BY <1>10 DEF J

LEMMA PickedAll ==
    ASSUME NEW X, NEW seq \in Seq(X)
    PROVE  Picked(seq, DOMAIN seq) = seq
<1> DEFINE n == Len(seq)
<1>0. n \in Nat /\ DOMAIN seq = 1 .. n
  BY LenProperties
<1> HIDE DEF n
<1>1. n \in Nat /\ DOMAIN seq = 1 .. n /\ \A k \in 0 .. n : Cardinality(1 .. k) = k
  <2> SUFFICES ASSUME NEW k \in 0 .. n PROVE Cardinality(1 .. k) = k
    BY <1>0
  <2>1. k \in Int /\ k >= 0 /\ 1 \in Int
    BY <1>0
  <2>2. Cardinality(1 .. k) = IF 1 > k THEN 0 ELSE k - 1 + 1
    BY <2>1, FS_Interval
  <2> QED
    BY <2>1, <2>2
<1>2. ASSUME NEW k \in 1 .. n PROVE Nth(1 .. n, k) = k
  <2>1. {j \in 1 .. n : j <= k} = 1 .. k
    BY <1>1
  <2>2. Rank(1 .. n, k) = k
    <3>1. Cardinality(1 .. k) = k
      BY <1>1
    <3>2. Rank(1 .. n, k) = Cardinality({j \in 1 .. n : j <= k})
      BY DEF Rank
    <3> QED
      BY <2>1, <3>1, <3>2
  <2>3. Nth(1 .. n, Rank(1 .. n, k)) = k
    <3>1. 1 .. n \in SUBSET (1 .. n)
      OBVIOUS
    <3> QED
      BY <1>1, <3>1, NthInOrder
  <2> QED
    BY <2>2, <2>3
<1>3. /\ Picked(seq, 1 .. n) \in Seq(X) /\ Len(Picked(seq, 1 .. n)) = n
      /\ \A k \in 1 .. n : Picked(seq, 1 .. n)[k] = seq[Nth(1 .. n, k)]
  <2>1. 1 .. n \in SUBSET DOMAIN seq /\ Cardinality(1 .. n) = n
    BY <1>0, <1>1
  <2> QED
    BY <2>1, PickedIs
<1>4. \A k \in 1 .. n : Picked(seq, 1 .. n)[k] = seq[k]
  BY <1>2, <1>3
<1> QED
  BY <1>1, <1>3, <1>4, SeqEqual DEF n

LEMMA PickedNone ==
    ASSUME NEW seq
    PROVE  Picked(seq, {}) = <<>>
BY FS_EmptySet DEF Picked
===============================================================================
