------------------------- MODULE SettingsEditProofs -------------------------
(***************************************************************************)
(* Theorems about SettingsEdit, for any number of processes and any        *)
(* documents. First what HookSettings' operators do to a document: a       *)
(* splice leaves text that parses, a copy of the document that keeps the   *)
(* first of every duplicate; a wire adds at most one entry per event; an   *)
(* unwire keeps what is not hookwise's. Then what a wire that dies         *)
(* half-way leaves behind, and what each process relies on between its     *)
(* reads and its writes.                                                   *)
(***************************************************************************)
EXTENDS SettingsEdit, FiniteSetTheorems, TLAPS

-----------------------------------------------------------------------------
(* Ranks, and the elements of a sequence at chosen indices.                *)

At(n, kept) == CHOOSE i \in kept : Rank(i, kept) = n

\* Ranks run from one to the size of the set, in the order of its elements.
LEMMA RankOrder ==
  ASSUME NEW L \in SUBSET Int, IsFiniteSet(L)
  PROVE  /\ \A i \in L : Rank(i, L) \in 1..Cardinality(L)
         /\ \A i, j \in L : i < j => Rank(i, L) < Rank(j, L)
<1> DEFINE Upto(i) == {u \in L : u <= i}
<1>1. \A i \in L : /\ Upto(i) \in SUBSET L /\ IsFiniteSet(Upto(i))
                   /\ Cardinality(Upto(i)) \in Nat /\ Cardinality(Upto(i)) <= Cardinality(L)
  <2> TAKE i \in L
  <2>1. Upto(i) \in SUBSET L
    OBVIOUS
  <2> HIDE DEF Upto
  <2> QED BY <2>1, FS_Subset, FS_CardinalityType
<1>2. Cardinality(L) \in Nat
  BY FS_CardinalityType
<1>3. ASSUME NEW i \in L PROVE Rank(i, L) \in 1..Cardinality(L)
  <2>1. i \in Upto(i)
    OBVIOUS
  <2>2. Cardinality(Upto(i)) # 0
    BY <1>1, <2>1, FS_EmptySet
  <2> QED BY <1>1, <1>2, <2>2 DEF Rank
<1>4. ASSUME NEW i \in L, NEW j \in L, i < j PROVE Rank(i, L) < Rank(j, L)
  <2>1. Upto(i) \in SUBSET Upto(j) /\ Upto(i) # Upto(j)
    <3>1. i \in Int /\ j \in Int /\ \A u \in L : u \in Int
      OBVIOUS
    <3>2. j \in Upto(j) /\ j \notin Upto(i)
      BY <1>4, <3>1
    <3>3. \A u \in Upto(i) : u \in Upto(j)
      BY <1>4, <3>1
    <3> QED BY <3>2, <3>3
  <2>2. Cardinality(Upto(i)) <= Cardinality(Upto(j)) /\ Cardinality(Upto(j)) # Cardinality(Upto(i))
    <3> HIDE DEF Upto
    <3> QED BY <1>1, <2>1, FS_Subset
  <2> QED BY <1>1, <2>2 DEF Rank
<1> QED BY <1>3, <1>4

\* Every rank up to the number of elements is the rank of one element.
LEMMA RankOnto ==
  ASSUME NEW L \in SUBSET Int, IsFiniteSet(L), NEW n \in 1..Cardinality(L)
  PROVE  \E i \in L : Rank(i, L) = n
<1> DEFINE T == 1..Cardinality(L)
           f == [i \in L |-> Rank(i, L)]
<1>1. f \in [L -> T]
  BY RankOrder
<1>2. \A i, j \in L : f[i] = f[j] => i = j
  <2> SUFFICES ASSUME NEW i \in L, NEW j \in L, f[i] = f[j], i # j PROVE FALSE
    OBVIOUS
  <2>1. i < j \/ j < i
    OBVIOUS
  <2>2. Rank(i, L) \in Int /\ Rank(j, L) \in Int
    BY RankOrder
  <2> QED BY <2>1, <2>2, RankOrder
<1>3. f \in Injection(L, T)
  BY <1>1, <1>2 DEF Injection, IsInjective
<1>4. IsFiniteSet(T) /\ Cardinality(T) = Cardinality(L)
  BY FS_Interval, FS_CardinalityType
<1>5. f \in Surjection(L, T)
  BY <1>3, <1>4, FS_Injection
<1> QED BY <1>5 DEF Surjection

\* At is the inverse of Rank.
LEMMA AtProps ==
  ASSUME NEW L \in SUBSET Int, IsFiniteSet(L)
  PROVE  /\ \A n \in 1..Cardinality(L) : At(n, L) \in L /\ Rank(At(n, L), L) = n
         /\ \A m, n \in 1..Cardinality(L) : m < n <=> At(m, L) < At(n, L)
         /\ \A i \in L : At(Rank(i, L), L) = i
<1>1. \A n \in 1..Cardinality(L) : At(n, L) \in L /\ Rank(At(n, L), L) = n
  BY RankOnto DEF At
<1>2. ASSUME NEW i \in L, NEW j \in L, Rank(i, L) = Rank(j, L) PROVE i = j
  <2>1. i < j \/ j < i \/ i = j
    OBVIOUS
  <2>2. Rank(i, L) \in Int /\ Rank(j, L) \in Int
    BY RankOrder
  <2> QED BY <1>2, <2>1, <2>2, RankOrder
<1>3. ASSUME NEW m \in 1..Cardinality(L), NEW n \in 1..Cardinality(L)
      PROVE  m < n <=> At(m, L) < At(n, L)
  <2>1. At(m, L) \in L /\ At(n, L) \in L /\ Rank(At(m, L), L) = m /\ Rank(At(n, L), L) = n
    BY <1>1
  <2>2. /\ At(m, L) < At(n, L) => m < n
        /\ At(n, L) < At(m, L) => n < m
    BY <2>1, RankOrder
  <2>3. \/ At(m, L) < At(n, L) \/ At(n, L) < At(m, L) \/ At(m, L) = At(n, L)
    <3>1. At(m, L) \in Int /\ At(n, L) \in Int
      BY <2>1
    <3> HIDE DEF At
    <3> QED BY <3>1
  <2>4. m \in Int /\ n \in Int
    OBVIOUS
  <2> HIDE DEF At
  <2>5. At(m, L) = At(n, L) => m = n
    BY <2>1
  <2> QED BY <2>1, <2>2, <2>3, <2>4, <2>5
<1>4. ASSUME NEW i \in L PROVE At(Rank(i, L), L) = i
  BY <1>1, <1>2, RankOrder
<1> QED BY <1>1, <1>3, <1>4

\* The kept elements are all there, in their order, and nothing else is.
LEMMA KeepProps ==
  ASSUME NEW S, NEW seq \in Seq(S), NEW kept \in SUBSET DOMAIN seq
  PROVE  /\ IsFiniteSet(kept) /\ kept \in SUBSET Int
         /\ Keep(seq, kept) \in Seq(S)
         /\ DOMAIN Keep(seq, kept) = 1..Cardinality(kept)
         /\ \A n \in 1..Cardinality(kept) : Keep(seq, kept)[n] = seq[At(n, kept)]
<1>1. DOMAIN seq = 1..Len(seq) /\ Len(seq) \in Nat /\ \A i \in DOMAIN seq : seq[i] \in S
  OBVIOUS
<1>2. IsFiniteSet(kept) /\ kept \in SUBSET Int
  <2>1. IsFiniteSet(1..Len(seq))
    BY <1>1, FS_Interval
  <2>2. kept \in SUBSET (1..Len(seq))
    BY <1>1
  <2> QED BY <1>1, <2>1, <2>2, FS_Subset
<1>3. Cardinality(kept) \in Nat
  BY <1>2, FS_CardinalityType
<1>4. \A n \in 1..Cardinality(kept) : At(n, kept) \in kept
  BY <1>2, AtProps
<1>5. Keep(seq, kept) = [n \in 1..Cardinality(kept) |-> seq[At(n, kept)]]
  BY DEF Keep, At
<1>6. \A n \in 1..Cardinality(kept) : seq[At(n, kept)] \in S
  BY <1>1, <1>4
<1> HIDE DEF At
<1>7. Keep(seq, kept) \in Seq(S)
  BY <1>3, <1>5, <1>6
<1> QED BY <1>2, <1>5, <1>7

-----------------------------------------------------------------------------
(* What is left of an array once runs of its elements are cut out.         *)

LEMMA Smallest ==
  ASSUME NEW S \in SUBSET Nat, S # {}
  PROVE  \E m \in S : \A x \in S : m <= x
<1>1. PICK m \in S : \A x \in S : <<x, m>> \notin OpToRel(<, Nat)
  BY NatLessThanWellFounded, WFMin
<1>2. \A x \in S : ~(x < m)
  BY <1>1 DEF OpToRel
<1>3. m \in Nat /\ \A x \in S : x \in Nat
  BY <1>1
<1>4. \A x \in S : m <= x
  BY <1>2, <1>3
<1> QED BY <1>1, <1>4

\* Every removed element lies in one of the runs that are cut.
LEMMA RunAround ==
  ASSUME NEW n \in Nat, NEW R \in SUBSET (1..n), NEW i \in R
  PROVE  \E r \in Runs(n, R) : r[1] <= i /\ i <= r[2]
<1> DEFINE Before == {y \in Nat : i - y \notin R}
           After == {y \in Nat : i + y \notin R}
<1>1. i \in Before /\ n \in After
  <2>1. i \in Nat /\ i - i \notin R /\ i + n \notin R
    OBVIOUS
  <2> QED BY <2>1
<1>2. PICK b \in Before : \A y \in Before : b <= y
  <2> HIDE DEF Before
  <2>1. Before \in SUBSET Nat
    BY DEF Before
  <2> QED BY <1>1, <2>1, Smallest
<1>3. PICK a \in After : \A y \in After : a <= y
  <2> HIDE DEF After
  <2>1. After \in SUBSET Nat
    BY DEF After
  <2> QED BY <1>1, <2>1, Smallest
<1>4. a \in Nat /\ b \in Nat /\ i - b \notin R /\ i + a \notin R /\ a # 0 /\ b # 0
  BY <1>2, <1>3
<1>5. ASSUME NEW x \in (i - b + 1)..(i + a - 1) PROVE x \in R
  <2>1. i \in Int /\ x \in Int
    BY <1>4
  <2>2. CASE x >= i
    <3>1. x - i \in Nat /\ ~(a <= x - i)
      BY <1>4, <2>1, <2>2
    <3>2. i + (x - i) = x
      BY <2>1
    <3> QED BY <1>3, <3>1, <3>2
  <2>3. CASE x < i
    <3>1. i - x \in Nat /\ ~(b <= i - x)
      BY <1>4, <2>1, <2>3
    <3>2. i - (i - x) = x
      BY <2>1
    <3> QED BY <1>2, <3>1, <3>2
  <2> QED BY <2>1, <2>2, <2>3
<1> DEFINE r == <<i - b + 1, i + a - 1>>
<1>6. i - b + 1 \in (i - b + 1)..(i + a - 1) /\ i + a - 1 \in (i - b + 1)..(i + a - 1)
  BY <1>4
<1>7. r \in (1..n) \X (1..n)
  BY <1>5, <1>6
<1>8. r[1] <= r[2] /\ r[1]..r[2] \subseteq R /\ r[1] - 1 \notin R /\ r[2] + 1 \notin R
  <2>1. i - b + 1 - 1 = i - b /\ i + a - 1 + 1 = i + a /\ i - b + 1 <= i + a - 1
    BY <1>4
  <2> QED BY <1>4, <1>5, <2>1
<1>9. r \in Runs(n, R)
  BY <1>7, <1>8 DEF Runs
<1>10. r[1] <= i /\ i <= r[2]
  BY <1>4
<1> QED BY <1>9, <1>10

\* Of the elements, the kept ones are left; of the commas, those of the kept
\* elements that another kept one follows.
LEMMA LeftTokens ==
  ASSUME NEW n \in Nat, NEW R \in SUBSET (1..n)
  PROVE  /\ \A i \in 1..n : 2 * i - 1 \in Left(n, R) <=> i \notin R
         /\ \A i \in 1..n : 2 * i \in Left(n, R) <=>
                              i \notin R /\ \E k \in (1..n) \ R : k > i
<1> DEFINE C(r) == Cut(n, r[1], r[2])
<1>1. ASSUME NEW r \in Runs(n, R)
      PROVE  /\ r[1] \in 1..n /\ r[2] \in 1..n /\ r[1] <= r[2]
             /\ \A x \in 1..n : r[1] <= x /\ x <= r[2] => x \in R
             /\ r[1] - 1 \notin R /\ r[2] + 1 \notin R
  BY DEF Runs
<1>2. \A t : t \in Left(n, R) <=> t \in 1..(2 * n - 1) /\ \A r \in Runs(n, R) : t \notin C(r)
  BY DEF Left
<1>3. ASSUME NEW r \in Runs(n, R), NEW t \in Int
      PROVE  /\ 2 * r[1] - 1 <= t /\ t <= 2 * r[2] - 1 => t \in C(r)
             /\ t \in C(r) => 2 * r[1] - 2 <= t /\ t <= 2 * r[2]
             /\ t = 2 * r[2] /\ r[2] < n => t \in C(r)
             /\ t = 2 * r[1] - 2 /\ t \in C(r) => r[2] = n /\ r[1] > 1
             /\ t = 2 * r[1] - 2 /\ r[2] = n /\ r[1] > 1 => t \in C(r)
  BY <1>1 DEF Cut
<1> HIDE DEF C
<1>4. ASSUME NEW i \in 1..n PROVE 2 * i - 1 \in Left(n, R) <=> i \notin R
  <2>1. 2 * i - 1 \in 1..(2 * n - 1)
    OBVIOUS
  <2>2. ASSUME i \in R PROVE \E r \in Runs(n, R) : 2 * i - 1 \in C(r)
    <3>1. PICK r \in Runs(n, R) : r[1] <= i /\ i <= r[2]
      BY <2>2, RunAround
    <3>2. 2 * r[1] - 1 <= 2 * i - 1 /\ 2 * i - 1 <= 2 * r[2] - 1
      BY <1>1, <3>1
    <3> QED BY <1>3, <3>2
  <2>3. ASSUME NEW r \in Runs(n, R), 2 * i - 1 \in C(r) PROVE i \in R
    <3>1. 2 * r[1] - 2 <= 2 * i - 1 /\ 2 * i - 1 <= 2 * r[2]
      BY <1>3, <2>3
    <3>2. r[1] <= i /\ i <= r[2]
      BY <1>1, <3>1
    <3> QED BY <1>1, <3>2
  <2> QED BY <1>2, <2>1, <2>2, <2>3
<1>5. ASSUME NEW i \in 1..n, i \in R PROVE 2 * i \notin Left(n, R)
  <2>1. PICK r \in Runs(n, R) : r[1] <= i /\ i <= r[2]
    BY <1>5, RunAround
  <2>2. i < r[2] \/ (i = r[2] /\ r[2] < n) \/ i = n
    BY <1>1, <2>1
  <2>3. CASE i < r[2]
    <3>1. 2 * r[1] - 1 <= 2 * i /\ 2 * i <= 2 * r[2] - 1
      BY <1>1, <2>1, <2>3
    <3> QED BY <1>2, <1>3, <3>1
  <2>4. CASE i = r[2] /\ r[2] < n
    BY <1>2, <1>3, <2>4
  <2>5. CASE i = n
    <3>1. 2 * i \notin 1..(2 * n - 1)
      BY <2>5
    <3> QED BY <1>2, <3>1
  <2> QED BY <2>2, <2>3, <2>4, <2>5
<1>6. ASSUME NEW i \in (1..n) \ R, NEW k \in (1..n) \ R, k > i PROVE 2 * i \in Left(n, R)
  <2>1. 2 * i \in 1..(2 * n - 1)
    BY <1>6
  <2>2. ASSUME NEW r \in Runs(n, R), 2 * i \in C(r) PROVE FALSE
    <3>1. 2 * r[1] - 2 <= 2 * i /\ 2 * i <= 2 * r[2]
      BY <1>3, <2>2
    <3>2. ~(r[1] <= i /\ i <= r[2])
      BY <1>1
    <3>3. 2 * i = 2 * r[1] - 2 /\ i = r[1] - 1
      BY <1>1, <3>1, <3>2
    <3>4. r[2] = n
      BY <1>3, <2>2, <3>3
    <3>5. r[1] <= k /\ k <= r[2]
      BY <1>1, <1>6, <3>3, <3>4
    <3> QED BY <1>1, <3>5
  <2> QED BY <1>2, <2>1, <2>2
<1>7. ASSUME NEW i \in (1..n) \ R, \A k \in (1..n) \ R : ~(k > i) PROVE 2 * i \notin Left(n, R)
  <2>1. CASE i = n
    <3>1. 2 * i \notin 1..(2 * n - 1)
      BY <2>1
    <3> QED BY <1>2, <3>1
  <2>2. CASE i < n
    <3>1. \A x \in (i + 1)..n : x \in R
      BY <1>7
    <3> DEFINE r == <<i + 1, n>>
    <3>2. r \in (1..n) \X (1..n) /\ r[1] = i + 1 /\ r[2] = n
      BY <2>2
    <3>3. r[1]..r[2] \subseteq R /\ r[1] - 1 \notin R /\ r[2] + 1 \notin R
      <4>1. i + 1 - 1 = i /\ n + 1 \notin R
        OBVIOUS
      <4> QED BY <3>1, <4>1
    <3>4. r \in Runs(n, R)
      BY <2>2, <3>2, <3>3 DEF Runs
    <3>5. 2 * i = 2 * r[1] - 2 /\ r[1] > 1
      OBVIOUS
    <3> QED BY <1>2, <1>3, <3>2, <3>4, <3>5
  <2> QED BY <2>1, <2>2
<1> QED BY <1>4, <1>5, <1>6, <1>7

\* A list of a set in increasing order gives the rank of each element.
LEMMA RankByList ==
  ASSUME NEW T \in SUBSET Int, NEW M \in Nat, NEW f \in [1..M -> T],
         \A t \in T : \E k \in 1..M : f[k] = t,
         \A j, k \in 1..M : j < k => f[j] < f[k]
  PROVE  IsFiniteSet(T) /\ Cardinality(T) = M /\ \A k \in 1..M : Rank(f[k], T) = k
<1>1. ASSUME NEW m \in 0..M, NEW U \in SUBSET T, \A k \in 1..M : f[k] \in U <=> k <= m
      PROVE  IsFiniteSet(U) /\ Cardinality(U) = m
  <2> DEFINE g == [k \in 1..m |-> f[k]]
  <2>1. g \in [1..m -> U]
    BY <1>1
  <2>2. ASSUME NEW j \in 1..m, NEW k \in 1..m, g[j] = g[k] PROVE j = k
    <3>1. f[j] = f[k] /\ j \in 1..M /\ k \in 1..M
      BY <2>2
    <3>2. j \in Int /\ k \in Int
      OBVIOUS
    <3>4. f[j] \in T
      BY <3>1
    <3>5. f[j] \in Int
      BY <3>4
    <3>3. ~(j < k) /\ ~(k < j)
      BY <3>1, <3>5
    <3> QED BY <3>2, <3>3
  <2>3. \A u \in U : \E k \in 1..m : g[k] = u
    <3> TAKE u \in U
    <3>1. PICK k \in 1..M : f[k] = u
      OBVIOUS
    <3> QED BY <1>1, <3>1
  <2> HIDE DEF g
  <2>4. g \in Bijection(1..m, U)
    BY <2>1, <2>2, <2>3 DEF Bijection, Injection, IsInjective, Surjection
  <2>5. IsFiniteSet(1..m) /\ Cardinality(1..m) = m
    BY FS_Interval
  <2> QED BY <2>4, <2>5, FS_Bijection DEF ExistsBijection
<1>2. IsFiniteSet(T) /\ Cardinality(T) = M
  <2>1. \A k \in 1..M : f[k] \in T <=> k <= M
    OBVIOUS
  <2> QED BY <1>1, <2>1
<1>3. ASSUME NEW k \in 1..M PROVE Rank(f[k], T) = k
  <2> DEFINE U == {u \in T : u <= f[k]}
  <2>1. \A j \in 1..M : f[j] \in U <=> j <= k
    <3> TAKE j \in 1..M
    <3>1. f[j] \in Int /\ f[k] \in Int
      OBVIOUS
    <3>2. j < k \/ j = k \/ k < j
      OBVIOUS
    <3> QED BY <3>1, <3>2
  <2>2. Cardinality(U) = k
    <3> HIDE DEF U
    <3>1. U \in SUBSET T
      BY DEF U
    <3> QED BY <1>1, <2>1, <3>1
  <2> QED BY <2>2 DEF Rank
<1> QED BY <1>2, <1>3

\* Whatever is removed, elements and commas alternate in what is left.
LEMMA LeftBalanced ==
  ASSUME NEW n \in Nat, NEW R \in SUBSET (1..n)
  PROVE  Balanced(Left(n, R))
<1> DEFINE K == (1..n) \ R
           T == Left(n, R)
           c == Cardinality(K)
<1>1. K \in SUBSET Int /\ IsFiniteSet(K) /\ c \in Nat
  <2>1. IsFiniteSet(1..n) /\ K \in SUBSET (1..n)
    BY FS_Interval
  <2>2. K \in SUBSET Int
    OBVIOUS
  <2> HIDE DEF K
  <2> QED BY <2>1, <2>2, FS_Subset, FS_CardinalityType
<1>2. T \in SUBSET (1..(2 * n - 1))
  BY DEF Left
<1>3. CASE c = 0
  <2>1. \A i \in 1..n : i \in R
    <3>1. K = {}
      <4> HIDE DEF K
      <4> QED BY <1>1, <1>3, FS_EmptySet
    <3> QED BY <3>1
  <2>2. T = {}
    <3> SUFFICES ASSUME NEW t \in T PROVE FALSE
      OBVIOUS
    <3>1. t \in 1..(2 * n - 1)
      BY <1>2
    <3>2. PICK i \in 1..n : t = 2 * i - 1 \/ t = 2 * i
      <4>1. t = 2 * ((t + 1) \div 2) - 1 \/ t = 2 * (t \div 2)
        BY <3>1
      <4>2. t = 2 * (t \div 2) => t \div 2 \in 1..n
        BY <3>1
      <4>3. t = 2 * ((t + 1) \div 2) - 1 => (t + 1) \div 2 \in 1..n
        BY <3>1
      <4> QED BY <4>1, <4>2, <4>3
    <3> HIDE DEF T
    <3> QED BY <2>1, <3>2, LeftTokens DEF T
  <2> QED BY <2>2 DEF Balanced
<1>4. CASE c > 0
  <2> DEFINE M == 2 * c - 1
             f == [k \in 1..M |-> IF k % 2 = 1 THEN 2 * At((k + 1) \div 2, K) - 1
                                               ELSE 2 * At(k \div 2, K)]
  <2>1. M \in Nat /\ M % 2 = 1
    BY <1>1, <1>4
  <2>2. \A k \in 1..c : At(k, K) \in 1..n /\ At(k, K) \notin R
    <3>1. \A k \in 1..c : At(k, K) \in K
      <4> HIDE DEF K
      <4> QED BY <1>1, AtProps
    <3> QED BY <3>1
  <2>3. \A j, k \in 1..c : j < k => At(j, K) < At(k, K)
    <3> HIDE DEF K
    <3> QED BY <1>1, AtProps
  <2>4. \A i \in K : Rank(i, K) \in 1..c /\ At(Rank(i, K), K) = i
    <3> HIDE DEF K
    <3> QED BY <1>1, AtProps, RankOrder
  <2>5. ASSUME NEW k \in 1..M
        PROVE  \/ k % 2 = 1 /\ k = 2 * ((k + 1) \div 2) - 1 /\ (k + 1) \div 2 \in 1..c
               \/ k % 2 = 0 /\ k = 2 * (k \div 2) /\ k \div 2 \in 1..c /\ k \div 2 + 1 \in 1..c
    BY <1>1, <1>4
  <2> HIDE DEF At, K, T, c
  <2>6. ASSUME NEW k \in 1..M PROVE f[k] \in T
    <3>1. CASE k % 2 = 1 /\ (k + 1) \div 2 \in 1..c
      <4>1. f[k] = 2 * At((k + 1) \div 2, K) - 1
        BY <3>1
      <4> QED BY <2>2, <3>1, <4>1, LeftTokens DEF T
    <3>2. CASE k % 2 = 0 /\ k \div 2 \in 1..c /\ k \div 2 + 1 \in 1..c
      <4>1. f[k] = 2 * At(k \div 2, K)
        BY <3>2
      <4> DEFINE j == k \div 2
      <4>2. j \in 1..c /\ j + 1 \in 1..c /\ j < j + 1
        BY <3>2
      <4> HIDE DEF j
      <4>3. At(j, K) < At(j + 1, K)
        BY <2>3, <4>2
      <4>4. At(j + 1, K) \in (1..n) \ R /\ At(j, K) \in 1..n /\ At(j, K) \notin R
        BY <2>2, <4>2
      <4>5. 2 * At(j, K) \in T
        BY <4>3, <4>4, LeftTokens DEF T
      <4> QED BY <4>1, <4>5 DEF j
    <3> QED BY <2>5, <3>1, <3>2
  <2>7. ASSUME NEW t \in T PROVE \E k \in 1..M : f[k] = t
    <3>1. t \in 1..(2 * n - 1)
      BY <1>2
    <3>2. CASE \E i \in 1..n : t = 2 * i - 1
      <4>1. PICK i \in 1..n : t = 2 * i - 1
        BY <3>2
      <4>2. i \in K
        BY <4>1, LeftTokens DEF T, K
      <4> DEFINE m == Rank(i, K)
                 k == 2 * m - 1
      <4>3. m \in 1..c /\ At(m, K) = i
        BY <2>4, <4>2
      <4> HIDE DEF m
      <4>4. k \in 1..M /\ k % 2 = 1 /\ (k + 1) \div 2 = m
        BY <1>1, <4>3
      <4>5. f[k] = t
        BY <4>1, <4>3, <4>4
      <4> QED BY <4>4, <4>5
    <3>3. CASE \E i \in 1..n : t = 2 * i
      <4>1. PICK i \in 1..n : t = 2 * i
        BY <3>3
      <4>2. i \in K /\ \E x \in K : x > i
        BY <4>1, LeftTokens DEF T, K
      <4>3. PICK x \in K : x > i
        BY <4>2
      <4> DEFINE m == Rank(i, K)
                 k == 2 * m
      <4>4. m \in 1..c /\ At(m, K) = i /\ Rank(x, K) \in 1..c /\ m < Rank(x, K)
        <5>1. i \in Int /\ x \in Int /\ i < x
          BY <1>1, <4>2, <4>3
        <5> QED BY <1>1, <2>4, <4>2, <4>3, <5>1, RankOrder
      <4> HIDE DEF m
      <4>5. k \in 1..M /\ k % 2 = 0 /\ k \div 2 = m
        BY <1>1, <4>4
      <4>6. f[k] = t
        BY <4>1, <4>4, <4>5
      <4> QED BY <4>5, <4>6
    <3>4. (\E i \in 1..n : t = 2 * i - 1) \/ (\E i \in 1..n : t = 2 * i)
      <4>1. t = 2 * ((t + 1) \div 2) - 1 \/ t = 2 * (t \div 2)
        BY <3>1
      <4>2. t = 2 * (t \div 2) => t \div 2 \in 1..n
        BY <3>1
      <4>3. t = 2 * ((t + 1) \div 2) - 1 => (t + 1) \div 2 \in 1..n
        BY <3>1
      <4> QED BY <4>1, <4>2, <4>3
    <3> QED BY <3>2, <3>3, <3>4
  <2>8. ASSUME NEW j \in 1..M, NEW k \in 1..M, j < k PROVE f[j] < f[k]
    <3> DEFINE x == IF j % 2 = 1 THEN (j + 1) \div 2 ELSE j \div 2
               y == IF k % 2 = 1 THEN (k + 1) \div 2 ELSE k \div 2
    <3>1. /\ x \in 1..c /\ y \in 1..c
          /\ x < y \/ (x = y /\ j % 2 = 1 /\ k % 2 = 0)
      BY <1>1, <2>5, <2>8
    <3>2. /\ f[j] = 2 * At(x, K) - (IF j % 2 = 1 THEN 1 ELSE 0)
          /\ f[k] = 2 * At(y, K) - (IF k % 2 = 1 THEN 1 ELSE 0)
      <4>1. j % 2 = 1 \/ j % 2 # 1
        OBVIOUS
      <4>2. \A z \in 1..c : At(z, K) \in Int
        BY <2>2
      <4> QED BY <2>5, <3>1, <4>2
    <3> HIDE DEF x, y
    <3>3. At(x, K) \in Int /\ At(y, K) \in Int /\ (x < y => At(x, K) < At(y, K))
      BY <2>2, <2>3, <3>1
    <3> HIDE DEF f
    <3> QED BY <3>1, <3>2, <3>3
  <2>9. f \in [1..M -> T] /\ T \in SUBSET Int
    BY <1>2, <2>6
  <2>10. \A k \in 1..M : f[k] % 2 = k % 2
    <3> TAKE k \in 1..M
    <3>1. CASE k % 2 = 1 /\ (k + 1) \div 2 \in 1..c
      <4>1. f[k] = 2 * At((k + 1) \div 2, K) - 1 /\ At((k + 1) \div 2, K) \in 1..n
        BY <2>2, <3>1
      <4> QED BY <3>1, <4>1
    <3>2. CASE k % 2 = 0 /\ k \div 2 \in 1..c
      <4>1. f[k] = 2 * At(k \div 2, K) /\ At(k \div 2, K) \in 1..n
        BY <2>2, <3>2
      <4> QED BY <3>2, <4>1
    <3> QED BY <2>5, <3>1, <3>2
  <2> HIDE DEF f, M
  <2>11. Cardinality(T) = M /\ \A k \in 1..M : Rank(f[k], T) = k
    BY <2>1, <2>7, <2>8, <2>9, RankByList
  <2>12. \A t \in T : t % 2 = Rank(t, T) % 2
    BY <2>7, <2>10, <2>11
  <2> QED BY <2>1, <2>11, <2>12 DEF Balanced, T
<1> QED BY <1>1, <1>3, <1>4

-----------------------------------------------------------------------------
(* Documents, their hook sites, and what an edit keeps of them.            *)

LEMMA DocParts ==
  ASSUME NEW doc \in Docs, NEW e \in Events
  PROVE  /\ doc.hooks[e] \in Seq(Groups) /\ DOMAIN doc.hooks[e] = 1..Len(doc.hooks[e])
         /\ Len(doc.hooks[e]) \in Nat
         /\ \A g \in DOMAIN doc.hooks[e] :
              /\ doc.hooks[e][g] \in Groups /\ doc.hooks[e][g].matcher \in Matchers
              /\ doc.hooks[e][g].hooks \in Seq(Hooks)
              /\ DOMAIN doc.hooks[e][g].hooks = 1..Len(doc.hooks[e][g].hooks)
              /\ Len(doc.hooks[e][g].hooks) \in Nat
<1>1. doc.hooks[e] \in Seq(Groups)
  BY DEF Docs
<1>2. /\ DOMAIN doc.hooks[e] = 1..Len(doc.hooks[e]) /\ Len(doc.hooks[e]) \in Nat
      /\ \A g \in DOMAIN doc.hooks[e] : doc.hooks[e][g] \in Groups
  BY <1>1
<1>3. \A x \in Groups : x.matcher \in Matchers /\ x.hooks \in Seq(Hooks)
  BY DEF Groups
<1> QED BY <1>1, <1>2, <1>3

\* What it is to be a site.
LEMMA SiteParts ==
  \A doc, s : s \in Sites(doc) <=>
    \E e \in Events : \E g \in DOMAIN doc.hooks[e] :
      \E h \in DOMAIN doc.hooks[e][g].hooks : s = <<e, g, h>>
BY DEF Sites

LEMMA SiteTypes ==
  ASSUME NEW doc \in Docs, NEW s \in Sites(doc)
  PROVE  /\ s = <<s[1], s[2], s[3]>> /\ s[1] \in Events
         /\ s[2] \in DOMAIN doc.hooks[s[1]] /\ s[2] \in Nat
         /\ s[3] \in DOMAIN doc.hooks[s[1]][s[2]].hooks /\ s[3] \in Nat
         /\ HookAt(doc, s) = doc.hooks[s[1]][s[2]].hooks[s[3]] /\ HookAt(doc, s) \in Hooks
         /\ MatcherAt(doc, s) = doc.hooks[s[1]][s[2]].matcher /\ MatcherAt(doc, s) \in Matchers
<1>1. PICK e \in Events : \E g \in DOMAIN doc.hooks[e] :
        \E h \in DOMAIN doc.hooks[e][g].hooks : s = <<e, g, h>>
  BY SiteParts
<1>2. PICK g \in DOMAIN doc.hooks[e] : \E h \in DOMAIN doc.hooks[e][g].hooks : s = <<e, g, h>>
  BY <1>1
<1>3. PICK h \in DOMAIN doc.hooks[e][g].hooks : s = <<e, g, h>>
  BY <1>2
<1>4. s = <<e, g, h>> /\ s[1] = e /\ s[2] = g /\ s[3] = h
  BY <1>3
<1>5. g \in Nat /\ h \in Nat /\ doc.hooks[e][g].hooks[h] \in Hooks
      /\ doc.hooks[e][g].matcher \in Matchers
  BY DocParts
<1> QED BY <1>4, <1>5 DEF HookAt, MatcherAt

LEMMA ImageFinite ==
  ASSUME NEW f, IsFiniteSet(DOMAIN f)
  PROVE  IsFiniteSet({f[x] : x \in DOMAIN f})
<1> DEFINE T == {f[x] : x \in DOMAIN f}
           g == [x \in DOMAIN f |-> f[x]]
<1>1. g \in Surjection(DOMAIN f, T)
  BY DEF Surjection
<1> QED BY <1>1, FS_Surjection

\* A document has finitely many hooks.
LEMMA SitesFinite ==
  ASSUME NEW doc \in Docs
  PROVE  IsFiniteSet(Sites(doc))
<1> DEFINE F(e, g) == [h \in DOMAIN doc.hooks[e][g].hooks |-> <<e, g, h>>]
           S(e, g) == {<<e, g, h>> : h \in DOMAIN doc.hooks[e][g].hooks}
           G(e) == [g \in DOMAIN doc.hooks[e] |-> S(e, g)]
           T(e) == UNION {S(e, g) : g \in DOMAIN doc.hooks[e]}
           H == [e \in Events |-> T(e)]
<1>1. ASSUME NEW e \in Events, NEW g \in DOMAIN doc.hooks[e] PROVE IsFiniteSet(S(e, g))
  <2>1. IsFiniteSet(DOMAIN F(e, g))
    <3>1. /\ DOMAIN F(e, g) = 1..Len(doc.hooks[e][g].hooks)
          /\ Len(doc.hooks[e][g].hooks) \in Nat
      BY <1>1, DocParts
    <3> HIDE DEF F
    <3> QED BY <3>1, FS_Interval
  <2>2. IsFiniteSet({F(e, g)[x] : x \in DOMAIN F(e, g)})
    <3> HIDE DEF F
    <3> QED BY <2>1, ImageFinite
  <2>3. {F(e, g)[x] : x \in DOMAIN F(e, g)} = S(e, g)
    OBVIOUS
  <2> QED BY <2>2, <2>3
<1>2. ASSUME NEW e \in Events PROVE IsFiniteSet(T(e))
  <2>1. IsFiniteSet(DOMAIN G(e))
    BY DocParts, FS_Interval
  <2>2. IsFiniteSet({G(e)[x] : x \in DOMAIN G(e)})
    <3> HIDE DEF G
    <3> QED BY <2>1, ImageFinite
  <2>3. {G(e)[x] : x \in DOMAIN G(e)} = {S(e, g) : g \in DOMAIN doc.hooks[e]}
    OBVIOUS
  <2> HIDE DEF S, G
  <2>4. \A x \in {S(e, g) : g \in DOMAIN doc.hooks[e]} : IsFiniteSet(x)
    BY <1>1
  <2> QED BY <2>2, <2>3, <2>4, FS_UNION
<1>3. IsFiniteSet({H[x] : x \in DOMAIN H})
  <2>1. IsFiniteSet(DOMAIN H)
    BY HooksAssumption
  <2> HIDE DEF H
  <2> QED BY <2>1, ImageFinite
<1>4. {H[x] : x \in DOMAIN H} = {T(e) : e \in Events}
  OBVIOUS
<1>5. Sites(doc) = UNION {T(e) : e \in Events}
  BY DEF Sites
<1> HIDE DEF T, H
<1>6. \A x \in {T(e) : e \in Events} : IsFiniteSet(x)
  BY <1>2
<1> QED BY <1>3, <1>4, <1>5, <1>6, FS_UNION

\* The sites of one document are those of another that are kept, in their
\* order, with the hooks they had.
Copies(f, new, old, kept) ==
  /\ f \in [Sites(new) -> kept] /\ kept \subseteq Sites(old)
  /\ \A t \in kept : \E s \in Sites(new) : f[s] = t
  /\ \A s \in Sites(new) : Key(new, s) = Key(old, f[s])
  /\ \A s, t \in Sites(new) : f[s] = f[t] => s = t
  /\ \A s, t \in Sites(new) : Precedes(f[s], f[t]) <=> Precedes(s, t)

Stay(doc, remove, e, g) == DOMAIN doc.hooks[e][g].hooks \ RemovedIn(remove, e, g)

\* A fix removes the sites it was told to, and nothing else; what it leaves
\* parses.
LEMMA SpliceParts ==
  ASSUME NEW doc \in Docs, NEW remove \in SUBSET Sites(doc)
  PROVE  /\ SpliceParses(doc, remove)
         /\ Splice(doc, remove) \in Docs
         /\ Splice(doc, remove).rest = doc.rest
         /\ Splice(doc, remove).form = doc.form
         /\ \A e \in Events :
              /\ DOMAIN Splice(doc, remove).hooks[e] = DOMAIN doc.hooks[e]
              /\ \A g \in DOMAIN doc.hooks[e] :
                   /\ Splice(doc, remove).hooks[e][g].matcher = doc.hooks[e][g].matcher
                   /\ Splice(doc, remove).hooks[e][g].hooks =
                        Keep(doc.hooks[e][g].hooks, Stay(doc, remove, e, g))
<1> DEFINE Left1(e, g) == {i \in DOMAIN doc.hooks[e][g].hooks :
             2 * i - 1 \in Left(Len(doc.hooks[e][g].hooks), RemovedIn(remove, e, g))}
           New(e, g) == [doc.hooks[e][g] EXCEPT !.hooks = Keep(@, Left1(e, g))]
           All == [e \in Events |-> [g \in DOMAIN doc.hooks[e] |-> New(e, g)]]
<1>1. ASSUME NEW e \in Events, NEW g \in DOMAIN doc.hooks[e]
      PROVE  RemovedIn(remove, e, g) \in SUBSET (1..Len(doc.hooks[e][g].hooks))
  <2> SUFFICES ASSUME NEW s \in remove, s[1] = e, s[2] = g
               PROVE  s[3] \in 1..Len(doc.hooks[e][g].hooks)
    BY DEF RemovedIn
  <2>1. s \in Sites(doc)
    OBVIOUS
  <2> QED BY <1>1, <2>1, SiteTypes, DocParts
<1>2. SpliceParses(doc, remove)
  <2> SUFFICES ASSUME NEW e \in Events, NEW g \in DOMAIN doc.hooks[e]
               PROVE  Balanced(Left(Len(doc.hooks[e][g].hooks), RemovedIn(remove, e, g)))
    BY DEF SpliceParses
  <2> QED BY <1>1, DocParts, LeftBalanced
<1>3. ASSUME NEW e \in Events, NEW g \in DOMAIN doc.hooks[e]
      PROVE  Left1(e, g) = Stay(doc, remove, e, g)
  <2>1. \A i \in DOMAIN doc.hooks[e][g].hooks :
          2 * i - 1 \in Left(Len(doc.hooks[e][g].hooks), RemovedIn(remove, e, g))
            <=> i \notin RemovedIn(remove, e, g)
    <3>1. /\ DOMAIN doc.hooks[e][g].hooks = 1..Len(doc.hooks[e][g].hooks)
          /\ Len(doc.hooks[e][g].hooks) \in Nat
          /\ RemovedIn(remove, e, g) \in SUBSET (1..Len(doc.hooks[e][g].hooks))
      BY <1>1, DocParts
    <3> QED BY <3>1, LeftTokens
  <2> QED BY <2>1 DEF Stay
<1>4. ASSUME NEW e \in Events, NEW g \in DOMAIN doc.hooks[e]
      PROVE  /\ New(e, g) \in Groups
             /\ New(e, g).matcher = doc.hooks[e][g].matcher
             /\ New(e, g).hooks = Keep(doc.hooks[e][g].hooks, Stay(doc, remove, e, g))
  <2>1. doc.hooks[e][g] \in [matcher : Matchers, hooks : Seq(Hooks)]
    BY DocParts DEF Groups
  <2>2. Keep(doc.hooks[e][g].hooks, Stay(doc, remove, e, g)) \in Seq(Hooks)
    <3>1. Stay(doc, remove, e, g) \in SUBSET DOMAIN doc.hooks[e][g].hooks
      BY DEF Stay
    <3>2. doc.hooks[e][g].hooks \in Seq(Hooks)
      BY DocParts
    <3> QED BY <3>1, <3>2, KeepProps
  <2> HIDE DEF Left1
  <2> QED BY <1>3, <2>1, <2>2 DEF Groups
<1>5. Splice(doc, remove) = [doc EXCEPT !.hooks = All]
  BY DEF Splice
<1> HIDE DEF New
<1>6. All \in [Events -> Seq(Groups)]
  <2> SUFFICES ASSUME NEW e \in Events
               PROVE  [g \in DOMAIN doc.hooks[e] |-> New(e, g)] \in Seq(Groups)
    OBVIOUS
  <2> DEFINE N == Len(doc.hooks[e])
  <2>1. N \in Nat /\ DOMAIN doc.hooks[e] = 1..N
    BY DocParts
  <2>2. \A g \in 1..N : New(e, g) \in Groups
    BY <1>4, <2>1
  <2> HIDE DEF N
  <2> QED BY <2>1, <2>2
<1>7. doc \in [hooks : [Events -> Seq(Groups)], statusLine : {"none", "own", "other"}, rest : Nat,
              form : {"sound", "mistyped", "torn"}]
  BY DEF Docs
<1>8. Splice(doc, remove) \in Docs /\ Splice(doc, remove).rest = doc.rest
      /\ Splice(doc, remove).form = doc.form /\ Splice(doc, remove).hooks = All
  <2> HIDE DEF All
  <2> QED BY <1>5, <1>6, <1>7 DEF Docs
<1> QED BY <1>2, <1>4, <1>8

\* A splice is a copy of the document without the removed hooks.
LEMMA SpliceCopies ==
  ASSUME NEW doc \in Docs, NEW remove \in SUBSET Sites(doc)
  PROVE  \E f : Copies(f, Splice(doc, remove), doc, Sites(doc) \ remove)
<1> DEFINE new == Splice(doc, remove)
           K(e, g) == Stay(doc, remove, e, g)
           f == [s \in Sites(new) |-> <<s[1], s[2], At(s[3], K(s[1], s[2]))>>]
<1>1. /\ new \in Docs
      /\ \A e \in Events :
           /\ DOMAIN new.hooks[e] = DOMAIN doc.hooks[e]
           /\ \A g \in DOMAIN doc.hooks[e] :
                /\ new.hooks[e][g].matcher = doc.hooks[e][g].matcher
                /\ new.hooks[e][g].hooks = Keep(doc.hooks[e][g].hooks, K(e, g))
  BY SpliceParts
<1>2. ASSUME NEW e \in Events, NEW g \in DOMAIN doc.hooks[e]
      PROVE  /\ IsFiniteSet(K(e, g)) /\ K(e, g) \in SUBSET Int
             /\ K(e, g) \in SUBSET DOMAIN doc.hooks[e][g].hooks
             /\ DOMAIN new.hooks[e][g].hooks = 1..Cardinality(K(e, g))
             /\ \A n \in 1..Cardinality(K(e, g)) :
                  new.hooks[e][g].hooks[n] = doc.hooks[e][g].hooks[At(n, K(e, g))]
  <2>1. K(e, g) \in SUBSET DOMAIN doc.hooks[e][g].hooks
    BY DEF Stay
  <2>2. doc.hooks[e][g].hooks \in Seq(Hooks)
    BY DocParts
  <2> HIDE DEF new, K
  <2> QED BY <1>1, <2>1, <2>2, KeepProps
<1> HIDE DEF new
<1>3. ASSUME NEW s \in Sites(new)
      PROVE  /\ s = <<s[1], s[2], s[3]>> /\ s[1] \in Events /\ s[2] \in DOMAIN doc.hooks[s[1]]
             /\ s[2] \in Nat /\ s[3] \in 1..Cardinality(K(s[1], s[2]))
             /\ f[s] = <<s[1], s[2], At(s[3], K(s[1], s[2]))>>
             /\ At(s[3], K(s[1], s[2])) \in K(s[1], s[2])
  <2>1. /\ s = <<s[1], s[2], s[3]>> /\ s[1] \in Events /\ s[2] \in DOMAIN doc.hooks[s[1]]
        /\ s[2] \in Nat /\ s[3] \in 1..Cardinality(K(s[1], s[2]))
    <3> HIDE DEF K
    <3> QED BY <1>1, <1>2, SiteTypes
  <2>2. At(s[3], K(s[1], s[2])) \in K(s[1], s[2])
    <3> HIDE DEF K
    <3> QED BY <1>2, <2>1, AtProps
  <2> QED BY <2>1, <2>2
<1>4. ASSUME NEW e \in Events, NEW g \in DOMAIN doc.hooks[e], NEW h \in K(e, g)
      PROVE  <<e, g, h>> \in Sites(doc) \ remove
  <2>1. h \in DOMAIN doc.hooks[e][g].hooks /\ h \notin RemovedIn(remove, e, g)
    BY DEF Stay
  <2>2. <<e, g, h>> \notin remove
    BY <2>1 DEF RemovedIn
  <2> QED BY <2>1, <2>2, SiteParts
<1>5. ASSUME NEW t \in Sites(doc) \ remove
      PROVE  /\ t = <<t[1], t[2], t[3]>> /\ t[1] \in Events /\ t[2] \in DOMAIN doc.hooks[t[1]]
             /\ t[3] \in K(t[1], t[2])
  <2>1. /\ t = <<t[1], t[2], t[3]>> /\ t[1] \in Events /\ t[2] \in DOMAIN doc.hooks[t[1]]
        /\ t[3] \in DOMAIN doc.hooks[t[1]][t[2]].hooks
    BY SiteTypes
  <2>2. t[3] \notin RemovedIn(remove, t[1], t[2])
    <3> SUFFICES ASSUME NEW s \in remove, s[1] = t[1], s[2] = t[2], s[3] = t[3] PROVE FALSE
      BY DEF RemovedIn
    <3>1. s = <<s[1], s[2], s[3]>>
      BY SiteTypes
    <3> QED BY <2>1, <3>1
  <2> QED BY <2>1, <2>2 DEF Stay
<1>6. f \in [Sites(new) -> Sites(doc) \ remove]
  <2> HIDE DEF K
  <2> QED BY <1>3, <1>4
<1>7. ASSUME NEW t \in Sites(doc) \ remove PROVE \E s \in Sites(new) : f[s] = t
  <2> DEFINE r == Rank(t[3], K(t[1], t[2]))
             s == <<t[1], t[2], r>>
  <2>1. r \in 1..Cardinality(K(t[1], t[2])) /\ At(r, K(t[1], t[2])) = t[3]
    <3> HIDE DEF K
    <3> QED BY <1>2, <1>5, RankOrder, AtProps
  <2> HIDE DEF r
  <2>2. s \in Sites(new)
    <3> HIDE DEF K
    <3> QED BY <1>1, <1>2, <1>5, <2>1, SiteParts
  <2>3. f[s] = t
    <3> HIDE DEF K
    <3> QED BY <1>5, <2>1, <2>2
  <2> QED BY <2>2, <2>3
<1>8. ASSUME NEW s \in Sites(new) PROVE Key(new, s) = Key(doc, f[s])
  <2>1. HookAt(new, s) = HookAt(doc, f[s])
    <3> HIDE DEF K, f
    <3> QED BY <1>2, <1>3 DEF HookAt
  <2>2. MatcherAt(new, s) = MatcherAt(doc, f[s])
    <3> HIDE DEF K, f
    <3> QED BY <1>1, <1>3 DEF MatcherAt
  <2>3. s[1] = f[s][1]
    <3> HIDE DEF K, f
    <3> QED BY <1>3
  <2> HIDE DEF f
  <2> QED BY <2>1, <2>2, <2>3 DEF Key
<1>9. ASSUME NEW s \in Sites(new), NEW t \in Sites(new), s[1] = t[1], s[2] = t[2]
      PROVE  f[s][3] < f[t][3] <=> s[3] < t[3]
  <2> HIDE DEF K, f
  <2>1. f[s][3] = At(s[3], K(s[1], s[2])) /\ f[t][3] = At(t[3], K(s[1], s[2]))
    BY <1>3, <1>9
  <2>2. s[3] \in 1..Cardinality(K(s[1], s[2])) /\ t[3] \in 1..Cardinality(K(s[1], s[2]))
    BY <1>3, <1>9
  <2>3. IsFiniteSet(K(s[1], s[2])) /\ K(s[1], s[2]) \in SUBSET Int
    BY <1>2, <1>3
  <2> QED BY <2>1, <2>2, <2>3, AtProps
<1>10. ASSUME NEW s \in Sites(new), NEW t \in Sites(new)
       PROVE  Precedes(f[s], f[t]) <=> Precedes(s, t)
  <2>1. f[s][1] = s[1] /\ f[t][1] = t[1] /\ f[s][2] = s[2] /\ f[t][2] = t[2]
    <3> HIDE DEF K, f
    <3> QED BY <1>3
  <2> HIDE DEF K, f
  <2> QED BY <1>9, <2>1 DEF Precedes
<1>11. ASSUME NEW s \in Sites(new), NEW t \in Sites(new), f[s] = f[t] PROVE s = t
  <2> HIDE DEF K, f
  <2>1. s[1] = t[1] /\ s[2] = t[2]
    BY <1>3, <1>11
  <2>2. f[s][3] \in Int /\ f[s][3] = f[t][3]
    BY <1>2, <1>3, <1>11
  <2>3. ~(s[3] < t[3]) /\ ~(t[3] < s[3])
    BY <1>9, <2>1, <2>2
  <2>4. s[3] \in Int /\ t[3] \in Int
    BY <1>3
  <2> QED BY <1>3, <2>1, <2>3, <2>4
<1>12. Copies(f, new, doc, Sites(doc) \ remove)
  <2> HIDE DEF f
  <2> QED BY <1>6, <1>7, <1>8, <1>10, <1>11 DEF Copies
<1> QED BY <1>12 DEF new

-----------------------------------------------------------------------------
(* Removing duplicates: what the fix promises.                             *)

LEMMA SitesAreOrdered ==
  ASSUME NEW doc \in Docs, NEW s \in Sites(doc), NEW t \in Sites(doc), s[1] = t[1], s # t
  PROVE  (Precedes(s, t) \/ Precedes(t, s)) /\ ~(Precedes(s, t) /\ Precedes(t, s))
<1>1. /\ s = <<s[1], s[2], s[3]>> /\ t = <<t[1], t[2], t[3]>>
      /\ s[2] \in Nat /\ s[3] \in Nat /\ t[2] \in Nat /\ t[3] \in Nat
  BY SiteTypes
<1>2. s[2] # t[2] \/ s[3] # t[3]
  BY <1>1
<1> QED BY <1>1, <1>2 DEF Precedes

\* The first occurrence of a hook is never offered for removal.
LEMMA FirstStays ==
  ASSUME NEW doc \in Docs, NEW s \in Sites(doc)
  PROVE  \E t \in Sites(doc) \ Removable(doc) : Key(doc, t) = Key(doc, s)
<1> DEFINE A == {t \in Sites(doc) : Key(doc, t) = Key(doc, s)}
           G == {t[2] : t \in A}
<1>1. G \in SUBSET Nat /\ G # {}
  BY SiteTypes
<1>2. PICK g \in G : \A x \in G : g <= x
  <2> HIDE DEF G
  <2> QED BY <1>1, Smallest
<1> DEFINE H == {t[3] : t \in {u \in A : u[2] = g}}
<1>3. H \in SUBSET Nat /\ H # {}
  BY SiteTypes
<1>4. PICK h \in H : \A x \in H : h <= x
  <2> HIDE DEF H
  <2> QED BY <1>3, Smallest
<1>5. PICK t \in A : t[2] = g /\ t[3] = h
  BY <1>4
<1>6. ASSUME t \in Removable(doc) PROVE FALSE
  <2>1. PICK u \in Sites(doc) : Precedes(u, t) /\ Key(doc, u) = Key(doc, t)
    BY <1>6 DEF Removable
  <2>2. u \in A /\ u[2] \in G /\ u[2] \in Nat /\ u[3] \in Nat /\ g \in Nat /\ h \in Nat
    BY <1>1, <1>2, <1>3, <1>4, <1>5, <2>1, SiteTypes
  <2>3. u[2] < g \/ (u[2] = g /\ u[3] < h)
    BY <1>5, <2>1 DEF Precedes
  <2>4. ~(u[2] < g)
    BY <1>2, <2>2
  <2>5. u[2] = g => u[3] \in H
    BY <2>2
  <2>6. ~(u[2] = g /\ u[3] < h)
    BY <1>4, <2>2, <2>5
  <2> QED BY <2>3, <2>4, <2>6
<1> QED BY <1>5, <1>6

\* When only duplicates are removed, every hook is still there ...
LEMMA CopiedKeys ==
  ASSUME NEW old \in Docs, NEW new \in Docs, NEW remove \in SUBSET Removable(old), NEW f,
         Copies(f, new, old, Sites(old) \ remove)
  PROVE  Keys(new) = Keys(old)
<1>1. \A s \in Sites(new) : Key(new, s) \in Keys(old)
  BY DEF Copies, Keys
<1>2. ASSUME NEW t \in Sites(old) PROVE Key(old, t) \in Keys(new)
  <2>1. PICK u \in Sites(old) \ Removable(old) : Key(old, u) = Key(old, t)
    BY FirstStays
  <2>2. u \in Sites(old) \ remove
    BY <2>1
  <2>3. PICK s \in Sites(new) : f[s] = u
    BY <2>2 DEF Copies
  <2>4. Key(new, s) = Key(old, u)
    BY <2>3 DEF Copies
  <2> QED BY <2>1, <2>3, <2>4 DEF Keys
<1> QED BY <1>1, <1>2 DEF Keys

\* ... and a duplicate that was declined is still one.
LEMMA CopiedRemovable ==
  ASSUME NEW old \in Docs, NEW new \in Docs, NEW remove \in SUBSET Removable(old), NEW f,
         Copies(f, new, old, Sites(old) \ remove)
  PROVE  \A s \in Sites(new) : s \in Removable(new) <=> f[s] \in Removable(old)
<1> TAKE s \in Sites(new)
<1>1. f[s] \in Sites(old) /\ Key(new, s) = Key(old, f[s])
  BY DEF Copies
<1>2. ASSUME s \in Removable(new) PROVE f[s] \in Removable(old)
  <2>1. PICK r \in Sites(new) : Precedes(r, s) /\ Key(new, r) = Key(new, s)
    BY <1>2 DEF Removable
  <2>2. f[r] \in Sites(old) /\ Precedes(f[r], f[s]) /\ Key(old, f[r]) = Key(old, f[s])
    BY <1>1, <2>1 DEF Copies
  <2> QED BY <1>1, <2>2 DEF Removable
<1>3. ASSUME f[s] \in Removable(old) PROVE s \in Removable(new)
  <2>1. PICK u \in Sites(old) \ Removable(old) : Key(old, u) = Key(old, f[s])
    BY <1>1, FirstStays
  <2>2. u # f[s] /\ u[1] = f[s][1]
    BY <1>3, <2>1 DEF Key
  <2>3. ~Precedes(f[s], u)
    BY <1>1, <2>1 DEF Removable
  <2>4. Precedes(u, f[s])
    BY <1>1, <2>1, <2>2, <2>3, SitesAreOrdered
  <2>5. PICK r \in Sites(new) : f[r] = u
    BY <2>1 DEF Copies
  <2>6. Precedes(r, s) /\ Key(new, r) = Key(new, s)
    BY <1>1, <2>1, <2>4, <2>5 DEF Copies
  <2> QED BY <2>5, <2>6 DEF Removable
<1> QED BY <1>2, <1>3

\* What a one-to-one map says of the sizes.
LEMMA OneToOne ==
  ASSUME NEW A, NEW B, NEW C, IsFiniteSet(B), C \subseteq B, NEW f,
         \A a \in A : f[a] \in B \ C,
         \A b \in B \ C : \E a \in A : f[a] = b,
         \A a, b \in A : f[a] = f[b] => a = b
  PROVE  Cardinality(A) + Cardinality(C) = Cardinality(B)
<1> DEFINE g == [a \in A |-> f[a]]
<1>1. g \in Bijection(A, B \ C)
  <2>1. g \in [A -> B \ C]
    OBVIOUS
  <2>2. \A a, b \in A : g[a] = g[b] => a = b
    OBVIOUS
  <2>3. \A b \in B \ C : \E a \in A : g[a] = b
    OBVIOUS
  <2> HIDE DEF g
  <2> QED BY <2>1, <2>2, <2>3 DEF Bijection, Injection, IsInjective, Surjection
<1>2. IsFiniteSet(B \ C) /\ Cardinality(B \ C) = Cardinality(B) - Cardinality(B \cap C)
  BY FS_Difference
<1>3. g \in Injection(A, B \ C) /\ g \in Surjection(A, B \ C)
  BY <1>1 DEF Bijection
<1>4. IsFiniteSet(A) /\ Cardinality(A) = Cardinality(B \ C)
  <2> HIDE DEF g
  <2> QED BY <1>2, <1>3, FS_Injection
<1>5. B \cap C = C
  OBVIOUS
<1>6. IsFiniteSet(C)
  BY FS_Subset
<1>7. Cardinality(B) \in Nat /\ Cardinality(C) \in Nat
  BY <1>6, FS_CardinalityType
<1>8. Cardinality(A) = Cardinality(B) - Cardinality(C)
  BY <1>2, <1>4, <1>5
<1> QED BY <1>7, <1>8

\* As many entries and as many duplicates are gone as were removed: what
\* entryCountAndEvents compares.
LEMMA CopiedCounts ==
  ASSUME NEW old \in Docs, NEW new \in Docs, NEW remove \in SUBSET Removable(old), NEW f,
         Copies(f, new, old, Sites(old) \ remove)
  PROVE  /\ EntryCount(new) + Cardinality(remove) = EntryCount(old)
         /\ Cardinality(Removable(new)) + Cardinality(remove) = Cardinality(Removable(old))
<1>1. /\ \A s \in Sites(new) : f[s] \in Sites(old) \ remove
      /\ \A t \in Sites(old) \ remove : \E s \in Sites(new) : f[s] = t
      /\ \A s, t \in Sites(new) : f[s] = f[t] => s = t
  BY DEF Copies
<1>2. /\ Removable(old) \subseteq Sites(old) /\ Removable(new) \subseteq Sites(new)
      /\ remove \subseteq Sites(old)
  BY DEF Removable
<1>3. IsFiniteSet(Sites(old))
  BY SitesFinite
<1>4. IsFiniteSet(Removable(old))
  BY <1>2, <1>3, FS_Subset
<1>5. \A s \in Sites(new) : s \in Removable(new) <=> f[s] \in Removable(old)
  BY CopiedRemovable
<1>6. Cardinality(Sites(new)) + Cardinality(remove) = Cardinality(Sites(old))
  BY <1>1, <1>2, <1>3, OneToOne
<1>7. /\ \A s \in Removable(new) : f[s] \in Removable(old) \ remove
      /\ \A t \in Removable(old) \ remove : \E s \in Removable(new) : f[s] = t
      /\ \A s, t \in Removable(new) : f[s] = f[t] => s = t
  BY <1>1, <1>2, <1>5
<1>8. Cardinality(Removable(new)) + Cardinality(remove) = Cardinality(Removable(old))
  BY <1>4, <1>7, OneToOne
<1> QED BY <1>6, <1>8 DEF EntryCount

\* Live entries are in the same events.
LEMMA KeysGiveEvents ==
  ASSUME NEW old, NEW new, Keys(new) = Keys(old)
  PROVE  LiveEvents(old) \subseteq LiveEvents(new)
<1> SUFFICES ASSUME NEW t \in Sites(old) PROVE t[1] \in LiveEvents(new)
  BY DEF LiveEvents
<1>1. PICK s \in Sites(new) : Key(new, s) = Key(old, t)
  BY DEF Keys
<1>2. s[1] = t[1]
  BY <1>1 DEF Key
<1> QED BY <1>1, <1>2 DEF LiveEvents

-----------------------------------------------------------------------------
(* The audit finds nothing new once duplicates are removed.                *)

EntryOf(doc, s) ==
  [file |-> 1, site |-> s, event |-> s[1], matcher |-> MatcherAt(doc, s),
   command |-> HookAt(doc, s).command]

\* The entries Scan lists of a single file.
LEMMA EntriesOfOne ==
  \A doc : Entries(<<doc>>) = {EntryOf(doc, s) : s \in Sites(doc)}
<1> TAKE doc
<1>1. DOMAIN <<doc>> = {1} /\ <<doc>>[1] = doc
  OBVIOUS
<1> QED BY <1>1 DEF Entries, EntryOf

Alike(x, y) == x.event = y.event /\ x.matcher = y.matcher /\ x.command = y.command

\* phi takes every entry of one document to one of its own of the other, alike.
Matches(phi, X, Y) ==
  /\ phi \in [X -> Y]
  /\ \A x, y \in X : phi[x] = phi[y] => x = y
  /\ \A x \in X : Alike(phi[x], x)
  /\ \A y \in Y : \E x \in X : Alike(x, y)

\* Every entry of the copy stands for an entry of the old document like it.
LEMMA CopiedEntries ==
  ASSUME NEW old \in Docs, NEW new \in Docs, NEW remove \in SUBSET Removable(old), NEW f,
         Copies(f, new, old, Sites(old) \ remove)
  PROVE  /\ IsFiniteSet(Entries(<<old>>))
         /\ \E phi : Matches(phi, Entries(<<new>>), Entries(<<old>>))
<1> DEFINE X == Entries(<<new>>)
           Y == Entries(<<old>>)
           phi == [x \in X |-> EntryOf(old, f[x.site])]
<1>1. X = {EntryOf(new, s) : s \in Sites(new)} /\ Y = {EntryOf(old, s) : s \in Sites(old)}
  BY EntriesOfOne
<1> HIDE DEF X, Y
<1>2. IsFiniteSet(Y)
  <2> DEFINE F == [s \in Sites(old) |-> EntryOf(old, s)]
  <2>1. IsFiniteSet(DOMAIN F)
    BY SitesFinite
  <2>2. {F[s] : s \in DOMAIN F} = Y
    BY <1>1
  <2>3. IsFiniteSet({F[s] : s \in DOMAIN F})
    <3> HIDE DEF F
    <3> QED BY <2>1, ImageFinite
  <2> QED BY <2>2, <2>3
<1>3. ASSUME NEW s \in Sites(new)
      PROVE  /\ f[s] \in Sites(old) /\ phi[EntryOf(new, s)] = EntryOf(old, f[s])
             /\ Alike(EntryOf(old, f[s]), EntryOf(new, s))
  <2>1. EntryOf(new, s) \in X /\ EntryOf(new, s).site = s
    BY <1>1 DEF EntryOf
  <2>2. f[s] \in Sites(old) /\ Key(new, s) = Key(old, f[s])
    BY DEF Copies
  <2>3. /\ s[1] = f[s][1] /\ MatcherAt(new, s) = MatcherAt(old, f[s])
        /\ HookAt(new, s) = HookAt(old, f[s])
    BY <2>2 DEF Key
  <2> QED BY <2>1, <2>2, <2>3 DEF Alike, EntryOf
<1>4. phi \in [X -> Y]
  <2> SUFFICES ASSUME NEW x \in X PROVE EntryOf(old, f[x.site]) \in Y
    OBVIOUS
  <2>1. PICK s \in Sites(new) : x = EntryOf(new, s)
    BY <1>1
  <2>2. x.site = s
    BY <2>1 DEF EntryOf
  <2> QED BY <1>1, <1>3, <2>2
<1>5. ASSUME NEW x \in X, NEW y \in X, phi[x] = phi[y] PROVE x = y
  <2>1. PICK s \in Sites(new) : x = EntryOf(new, s)
    BY <1>1
  <2>2. PICK t \in Sites(new) : y = EntryOf(new, t)
    BY <1>1
  <2>3. EntryOf(old, f[s]) = EntryOf(old, f[t])
    <3> HIDE DEF phi
    <3> QED BY <1>3, <1>5, <2>1, <2>2
  <2>4. f[s] = f[t]
    BY <2>3 DEF EntryOf
  <2> QED BY <2>1, <2>2, <2>4 DEF Copies
<1>6. ASSUME NEW x \in X PROVE Alike(phi[x], x)
  <2> HIDE DEF phi
  <2> QED BY <1>1, <1>3
<1>7. ASSUME NEW y \in Y PROVE \E x \in X : Alike(x, y)
  <2>1. PICK t \in Sites(old) : y = EntryOf(old, t)
    BY <1>1
  <2>2. PICK s \in Sites(new) : Key(new, s) = Key(old, t)
    BY CopiedKeys DEF Keys
  <2>3. Alike(EntryOf(new, s), EntryOf(old, t))
    BY <2>2 DEF Key, Alike, EntryOf
  <2> QED BY <1>1, <2>1, <2>3
<1>8. Matches(phi, X, Y)
  <2> HIDE DEF phi
  <2> QED BY <1>4, <1>5, <1>6, <1>7 DEF Matches
<1> QED BY <1>2, <1>8 DEF X, Y

\* A part of the new entries is no larger than the part they stand for.
LEMMA NoMore ==
  ASSUME NEW X, NEW Y, IsFiniteSet(Y), NEW phi, Matches(phi, X, Y),
         NEW A \in SUBSET X, NEW B \in SUBSET Y, \A x \in A : phi[x] \in B
  PROVE  Cardinality(A) \in Nat /\ Cardinality(B) \in Nat /\ Cardinality(A) <= Cardinality(B)
<1> DEFINE g == [x \in A |-> phi[x]]
<1>1. IsFiniteSet(B)
  BY FS_Subset
<1>2. g \in Injection(A, B)
  <2>1. g \in [A -> B] /\ \A x, y \in A : g[x] = g[y] => x = y
    BY DEF Matches
  <2> HIDE DEF g
  <2> QED BY <2>1 DEF Injection, IsInjective
<1>3. IsFiniteSet(A) /\ Cardinality(A) <= Cardinality(B)
  <2> HIDE DEF g
  <2> QED BY <1>1, <1>2, FS_Injection
<1> QED BY <1>1, <1>3, FS_CardinalityType

\* Removing duplicates gives the audit nothing new to report.
LEMMA NothingNewFound ==
  ASSUME NEW old, NEW new, IsFiniteSet(Entries(<<old>>)),
         NEW phi, Matches(phi, Entries(<<new>>), Entries(<<old>>))
  PROVE  \A x \in Findings(<<new>>) :
           \E y \in Findings(<<old>>) : x.code = y.code /\ x.on = y.on
<1> DEFINE X == Entries(<<new>>)
           Y == Entries(<<old>>)
<1>1. \A x \in X : phi[x] \in Y /\ Alike(phi[x], x)
  BY DEF Matches
<1>2. ASSUME NEW e \in Events, AlwaysOn(<<new>>, e) > WarnOver(e)
      PROVE  AlwaysOn(<<old>>, e) > WarnOver(e)
  <2> DEFINE A == {x \in X : x.event = e /\ x.matcher \in {"", "*"}}
             B == {x \in Y : x.event = e /\ x.matcher \in {"", "*"}}
  <2>1. A \in SUBSET X /\ B \in SUBSET Y /\ \A x \in A : phi[x] \in B
    BY <1>1 DEF Alike
  <2>2. Cardinality(A) \in Nat /\ Cardinality(B) \in Nat /\ Cardinality(A) <= Cardinality(B)
    <3> HIDE DEF A, B
    <3> QED BY <2>1, NoMore
  <2>3. AlwaysOn(<<new>>, e) = Cardinality(A) /\ AlwaysOn(<<old>>, e) = Cardinality(B)
    BY DEF AlwaysOn
  <2>4. WarnOver(e) \in Nat
    BY HooksAssumption DEF WarnOver
  <2> HIDE DEF A, B
  <2> QED BY <1>2, <2>2, <2>3, <2>4
<1>3. Duplicates(<<new>>) \subseteq Duplicates(<<old>>)
  <2> SUFFICES ASSUME NEW k \in Duplicates(<<new>>) PROVE k \in Duplicates(<<old>>)
    OBVIOUS
  <2> DEFINE A == {x \in X : <<x.event, x.matcher, x.command>> = k}
             B == {x \in Y : <<x.event, x.matcher, x.command>> = k}
  <2>1. A \in SUBSET X /\ B \in SUBSET Y /\ \A x \in A : phi[x] \in B
    BY <1>1 DEF Alike
  <2>2. Cardinality(A) \in Nat /\ Cardinality(B) \in Nat /\ Cardinality(A) <= Cardinality(B)
    <3> HIDE DEF A, B
    <3> QED BY <2>1, NoMore
  <2>3. Cardinality(A) > 1 /\ \E x \in X : k = <<x.event, x.matcher, x.command>>
    BY DEF Duplicates
  <2>4. PICK x \in X : k = <<x.event, x.matcher, x.command>>
    BY <2>3
  <2>5. phi[x] \in Y /\ k = <<phi[x].event, phi[x].matcher, phi[x].command>>
    BY <1>1, <2>4 DEF Alike
  <2>6. Cardinality(B) > 1
    <3> HIDE DEF A, B
    <3> QED BY <2>2, <2>3
  <2> QED BY <2>5, <2>6 DEF Duplicates
<1>4. Overlaps(<<new>>) = Overlaps(<<old>>)
  <2> DEFINE Prog(Z, e) == {x.command[1] : x \in {y \in Z :
               y.event = e /\ y.command[1] \in OtherGuards \cup {"hookwise dispatch"}}}
  <2>1. ASSUME NEW e \in Events PROVE Prog(X, e) = Prog(Y, e)
    <3>1. ASSUME NEW c \in Prog(X, e) PROVE c \in Prog(Y, e)
      <4>1. PICK x \in X : /\ x.event = e /\ c = x.command[1]
                           /\ x.command[1] \in OtherGuards \cup {"hookwise dispatch"}
        OBVIOUS
      <4>2. phi[x] \in Y /\ phi[x].event = e /\ phi[x].command = x.command
        BY <1>1, <4>1 DEF Alike
      <4> QED BY <4>1, <4>2
    <3>2. ASSUME NEW c \in Prog(Y, e) PROVE c \in Prog(X, e)
      <4>1. PICK y \in Y : /\ y.event = e /\ c = y.command[1]
                           /\ y.command[1] \in OtherGuards \cup {"hookwise dispatch"}
        OBVIOUS
      <4>2. PICK x \in X : Alike(x, y)
        BY <4>1 DEF Matches
      <4> QED BY <4>1, <4>2 DEF Alike
    <3> QED BY <3>1, <3>2
  <2>2. /\ Overlaps(<<new>>) = {e \in Events : Cardinality(Prog(X, e)) > 1}
        /\ Overlaps(<<old>>) = {e \in Events : Cardinality(Prog(Y, e)) > 1}
    BY DEF Overlaps
  <2> HIDE DEF Prog, X, Y
  <2> QED BY <2>1, <2>2
<1> SUFFICES ASSUME NEW x \in Findings(<<new>>)
             PROVE  \E y \in Findings(<<old>>) : x.code = y.code /\ x.on = y.on
  OBVIOUS
<1>5. CASE \E e \in Events : /\ AlwaysOn(<<new>>, e) > WarnOver(e)
                             /\ x.code = "hook-sprawl" /\ x.on = <<e>>
  <2>1. PICK e \in Events : /\ AlwaysOn(<<new>>, e) > WarnOver(e)
                            /\ x.code = "hook-sprawl" /\ x.on = <<e>>
    BY <1>5
  <2> DEFINE y == Finding(IF AlwaysOn(<<old>>, e) > FailOver(e) THEN "FAIL" ELSE "WARN",
                          "hook-sprawl", <<e>>)
  <2>2. y \in Findings(<<old>>)
    BY <1>2, <2>1 DEF Findings
  <2>3. y.code = "hook-sprawl" /\ y.on = <<e>>
    BY DEF Finding
  <2> HIDE DEF y
  <2> QED BY <2>1, <2>2, <2>3
<1>6. CASE \E z \in X : /\ z.command[1] \in OffPath
                        /\ x = Finding("FAIL", "hook-binary", <<z.command[1]>>)
  <2>1. PICK z \in X : /\ z.command[1] \in OffPath
                       /\ x = Finding("FAIL", "hook-binary", <<z.command[1]>>)
    BY <1>6
  <2>2. phi[z] \in Y /\ phi[z].command = z.command
    BY <1>1 DEF Alike
  <2>3. x \in Findings(<<old>>)
    BY <2>1, <2>2 DEF Findings
  <2> QED BY <2>3
<1>7. CASE \E z \in X : /\ z.event \in HotPath /\ z.command[1] \in OnNetwork
                        /\ x = Finding("WARN", "hook-network", <<z.event, z.command>>)
  <2>1. PICK z \in X : /\ z.event \in HotPath /\ z.command[1] \in OnNetwork
                       /\ x = Finding("WARN", "hook-network", <<z.event, z.command>>)
    BY <1>7
  <2>2. phi[z] \in Y /\ phi[z].command = z.command /\ phi[z].event = z.event
    BY <1>1 DEF Alike
  <2>3. x \in Findings(<<old>>)
    BY <2>1, <2>2 DEF Findings
  <2> QED BY <2>3
<1>8. CASE \E k \in Duplicates(<<new>>) : x = Finding("WARN", "hook-duplicate", k)
  <2>1. x \in Findings(<<old>>)
    BY <1>3, <1>8 DEF Findings
  <2> QED BY <2>1
<1>9. CASE \E e \in Overlaps(<<new>>) : x = Finding("INFO", "hook-overlap", <<e>>)
  <2>1. x \in Findings(<<old>>)
    BY <1>4, <1>9 DEF Findings
  <2> QED BY <2>1
<1> QED BY <1>5, <1>6, <1>7, <1>8, <1>9 DEF Findings, Finding

-----------------------------------------------------------------------------
(* Wiring and unwiring, and Claude Code's edit.                            *)

\* An unconditional entry that runs hookwise.
IsDispatch(doc, s) == MatcherAt(doc, s) = "" /\ HookAt(doc, s).command = Dispatch(s[1])

OneEach(doc) ==
  \A s, t \in Sites(doc) :
    s[1] = t[1] /\ IsDispatch(doc, s) /\ IsDispatch(doc, t) => s = t

LEMMA SameKey ==
  ASSUME NEW old, NEW new, NEW s, NEW t, Key(new, s) = Key(old, t)
  PROVE  s[1] = t[1] /\ (IsDispatch(new, s) <=> IsDispatch(old, t))
BY DEF Key, IsDispatch

\* A copy without some of the hooks has no entry twice that had it once.
LEMMA CopiedOneEach ==
  ASSUME NEW old, NEW new, NEW f, NEW kept, Copies(f, new, old, kept), OneEach(old)
  PROVE  OneEach(new)
<1> SUFFICES ASSUME NEW s \in Sites(new), NEW t \in Sites(new), s[1] = t[1],
                    IsDispatch(new, s), IsDispatch(new, t)
             PROVE  s = t
  BY DEF OneEach
<1>1. f[s] \in Sites(old) /\ f[t] \in Sites(old)
  BY DEF Copies
<1>2. Key(new, s) = Key(old, f[s]) /\ Key(new, t) = Key(old, f[t])
  BY DEF Copies
<1>3. f[s][1] = f[t][1] /\ IsDispatch(old, f[s]) /\ IsDispatch(old, f[t])
  BY <1>2, SameKey
<1>4. f[s] = f[t]
  BY <1>1, <1>3 DEF OneEach
<1> QED BY <1>4 DEF Copies

\* A document that gains a group at the end of some of its events.
Grows(old, new, add, G) ==
  \A e \in Events :
    /\ e \in add => G[e] \in Groups /\ new.hooks[e] = Append(old.hooks[e], G[e])
    /\ e \notin add => new.hooks[e] = old.hooks[e]

\* Appending groups leaves every hook where it was.
LEMMA Grown ==
  ASSUME NEW old \in Docs, NEW new, NEW add, NEW G, Grows(old, new, add, G)
  PROVE  /\ \A s \in Sites(old) : s \in Sites(new) /\ Key(new, s) = Key(old, s)
         /\ \A s \in Sites(new) : s \in Sites(old) \/
              /\ s = <<s[1], s[2], s[3]>> /\ s[1] \in Events /\ s[1] \in add
              /\ s[2] = Len(old.hooks[s[1]]) + 1
              /\ s[3] \in DOMAIN G[s[1]].hooks
              /\ MatcherAt(new, s) = G[s[1]].matcher
              /\ HookAt(new, s) = G[s[1]].hooks[s[3]]
<1>1. ASSUME NEW e \in Events
      PROVE  /\ \A g \in DOMAIN old.hooks[e] :
                  g \in DOMAIN new.hooks[e] /\ new.hooks[e][g] = old.hooks[e][g]
             /\ \A g \in DOMAIN new.hooks[e] :
                  \/ g \in DOMAIN old.hooks[e]
                  \/ e \in add /\ g = Len(old.hooks[e]) + 1 /\ new.hooks[e][g] = G[e]
  <2>1. old.hooks[e] \in Seq(Groups)
    BY DocParts
  <2>2. CASE e \in add
    <3>1. G[e] \in Groups /\ new.hooks[e] = Append(old.hooks[e], G[e])
      BY <2>2 DEF Grows
    <3>2. /\ DOMAIN old.hooks[e] = 1..Len(old.hooks[e]) /\ Len(old.hooks[e]) \in Nat
          /\ DOMAIN new.hooks[e] = 1..(Len(old.hooks[e]) + 1)
      BY <2>1, <3>1
    <3>3. /\ \A g \in 1..Len(old.hooks[e]) : new.hooks[e][g] = old.hooks[e][g]
          /\ new.hooks[e][Len(old.hooks[e]) + 1] = G[e]
      BY <2>1, <3>1
    <3> QED BY <2>2, <3>2, <3>3
  <2>3. CASE e \notin add
    <3>1. new.hooks[e] = old.hooks[e]
      BY <2>3 DEF Grows
    <3> QED BY <3>1
  <2> QED BY <2>2, <2>3
<1>2. ASSUME NEW s \in Sites(old) PROVE s \in Sites(new) /\ Key(new, s) = Key(old, s)
  <2>1. /\ s = <<s[1], s[2], s[3]>> /\ s[1] \in Events
        /\ s[2] \in DOMAIN old.hooks[s[1]] /\ s[3] \in DOMAIN old.hooks[s[1]][s[2]].hooks
    BY SiteTypes
  <2>2. s[2] \in DOMAIN new.hooks[s[1]] /\ new.hooks[s[1]][s[2]] = old.hooks[s[1]][s[2]]
    BY <1>1, <2>1
  <2> QED BY <2>1, <2>2, SiteParts DEF Key, HookAt, MatcherAt
<1>3. ASSUME NEW s \in Sites(new)
      PROVE  s \in Sites(old) \/
              /\ s = <<s[1], s[2], s[3]>> /\ s[1] \in Events /\ s[1] \in add
              /\ s[2] = Len(old.hooks[s[1]]) + 1
              /\ s[3] \in DOMAIN G[s[1]].hooks
              /\ MatcherAt(new, s) = G[s[1]].matcher
              /\ HookAt(new, s) = G[s[1]].hooks[s[3]]
  <2>1. PICK e \in Events : \E g \in DOMAIN new.hooks[e] :
          \E h \in DOMAIN new.hooks[e][g].hooks : s = <<e, g, h>>
    BY SiteParts
  <2>2. PICK g \in DOMAIN new.hooks[e] : \E h \in DOMAIN new.hooks[e][g].hooks : s = <<e, g, h>>
    BY <2>1
  <2>3. PICK h \in DOMAIN new.hooks[e][g].hooks : s = <<e, g, h>>
    BY <2>2
  <2>4. CASE g \in DOMAIN old.hooks[e]
    <3>1. new.hooks[e][g] = old.hooks[e][g]
      BY <1>1, <2>4
    <3> QED BY <2>3, <2>4, <3>1, SiteParts
  <2>5. CASE e \in add /\ g = Len(old.hooks[e]) + 1 /\ new.hooks[e][g] = G[e]
    BY <2>3, <2>5 DEF MatcherAt, HookAt
  <2> QED BY <1>1, <2>4, <2>5
<1> QED BY <1>1, <1>2, <1>3

WiredGroup == [e \in Events |-> DispatchGroup(e)]
Unwired(doc, events) == {e \in Events : e \in events /\ ~HasDispatch(doc, e)}

\* A wire appends its group to the asked events that lack it.
LEMMA WireGrows ==
  ASSUME NEW doc \in Docs, NEW events, NEW statusLine \in BOOLEAN
  PROVE  /\ Wire(doc, events, statusLine) \in Docs
         /\ Wire(doc, events, statusLine).rest = doc.rest
         /\ Grows(doc, Wire(doc, events, statusLine), Unwired(doc, events), WiredGroup)
<1> DEFINE new == Wire(doc, events, statusLine)
           H == [e \in Events |-> IF e \in events /\ ~HasDispatch(doc, e)
                                    THEN Append(doc.hooks[e], DispatchGroup(e))
                                    ELSE doc.hooks[e]]
<1>1. doc \in [hooks : [Events -> Seq(Groups)], statusLine : {"none", "own", "other"}, rest : Nat,
              form : {"sound", "mistyped", "torn"}]
  BY DEF Docs
<1>2. \A e \in Events : DispatchGroup(e) \in Groups
  <2> TAKE e \in Events
  <2>1. [command |-> Dispatch(e), fields |-> "plain"] \in Hooks /\ "" \in Matchers
    BY HooksAssumption DEF Dispatch
  <2>2. <<[command |-> Dispatch(e), fields |-> "plain"]>> \in Seq(Hooks)
    <3> DEFINE h == [command |-> Dispatch(e), fields |-> "plain"]
    <3>1. h \in Hooks
      BY <2>1
    <3> HIDE DEF h
    <3>2. <<h>> \in Seq(Hooks)
      BY <3>1
    <3> QED BY <3>2 DEF h
  <2> QED BY <2>1, <2>2 DEF DispatchGroup, Groups
<1>3. ASSUME NEW e \in Events PROVE H[e] \in Seq(Groups)
  <2>1. doc.hooks[e] \in Seq(Groups) /\ DispatchGroup(e) \in Groups
    BY <1>2, DocParts
  <2>2. Append(doc.hooks[e], DispatchGroup(e)) \in Seq(Groups)
    BY <2>1
  <2> QED BY <2>1, <2>2
<1>4. H \in [Events -> Seq(Groups)]
  BY <1>3
<1>5. new.hooks = H /\ new.rest = doc.rest /\ new \in Docs
  <2> HIDE DEF H
  <2>1. new = [doc EXCEPT !.hooks = H, !.statusLine = IF statusLine THEN "own" ELSE @]
    BY DEF Wire, H
  <2> QED BY <1>1, <1>4, <2>1 DEF Docs
<1>6. Grows(doc, new, Unwired(doc, events), WiredGroup)
  <2> HIDE DEF new
  <2> QED BY <1>2, <1>5 DEF Unwired, WiredGroup, Grows
<1> QED BY <1>5, <1>6

\* A wire keeps every hook there is ...
LEMMA WireKeepsHooks ==
  ASSUME NEW doc \in Docs, NEW events, NEW statusLine \in BOOLEAN
  PROVE  \A s \in Sites(doc) : Key(doc, s) \in Keys(Wire(doc, events, statusLine))
<1>1. \A s \in Sites(doc) : /\ s \in Sites(Wire(doc, events, statusLine))
                            /\ Key(Wire(doc, events, statusLine), s) = Key(doc, s)
  <2> DEFINE new == Wire(doc, events, statusLine)
             add == Unwired(doc, events)
  <2>1. Grows(doc, new, add, WiredGroup)
    BY WireGrows
  <2> HIDE DEF new, add
  <2>2. \A s \in Sites(doc) : s \in Sites(new) /\ Key(new, s) = Key(doc, s)
    BY <2>1, Grown
  <2> QED BY <2>2 DEF new
<1> QED BY <1>1 DEF Keys

\* ... and adds an entry only where there is none.
LEMMA WireOneEach ==
  ASSUME NEW doc \in Docs, NEW events, NEW statusLine \in BOOLEAN, OneEach(doc)
  PROVE  OneEach(Wire(doc, events, statusLine))
<1> DEFINE new == Wire(doc, events, statusLine)
           add == Unwired(doc, events)
<1>1. Grows(doc, new, add, WiredGroup)
  BY WireGrows
<1>2. \A e \in Events : DOMAIN WiredGroup[e].hooks = {1}
  <2> TAKE e \in Events
  <2>1. WiredGroup[e].hooks = <<[command |-> Dispatch(e), fields |-> "plain"]>>
    BY DEF WiredGroup, DispatchGroup
  <2>2. \A x : DOMAIN <<x>> = {1}
    OBVIOUS
  <2> QED BY <2>1, <2>2
<1>3. \A e \in add : ~HasDispatch(doc, e)
  BY DEF Unwired
<1> HIDE DEF new, add
<1>4. \A s \in Sites(doc) : s \in Sites(new) /\ Key(new, s) = Key(doc, s)
  BY <1>1, Grown
<1>5. \A s \in Sites(new) : s \in Sites(doc) \/
              /\ s = <<s[1], s[2], s[3]>> /\ s[1] \in Events /\ s[1] \in add
              /\ s[2] = Len(doc.hooks[s[1]]) + 1
              /\ s[3] \in DOMAIN WiredGroup[s[1]].hooks
  BY <1>1, Grown
<1>6. ASSUME NEW s \in Sites(doc), IsDispatch(new, s) PROVE s[1] \notin add /\ IsDispatch(doc, s)
  <2>1. IsDispatch(doc, s)
    BY <1>4, <1>6, SameKey
  <2>2. HasDispatch(doc, s[1])
    BY <2>1 DEF IsDispatch, HasDispatch
  <2> QED BY <1>3, <2>1, <2>2
<1>7. ASSUME NEW s \in Sites(new), NEW t \in Sites(new), s[1] = t[1],
             IsDispatch(new, s), IsDispatch(new, t)
      PROVE  s = t
  <2>1. CASE s \in Sites(doc) /\ t \in Sites(doc)
    BY <1>6, <1>7, <2>1 DEF OneEach
  <2>2. CASE s \notin Sites(doc) /\ t \notin Sites(doc)
    <3>1. s = <<s[1], Len(doc.hooks[s[1]]) + 1, 1>>
      BY <1>2, <1>5, <2>2
    <3>2. t = <<t[1], Len(doc.hooks[t[1]]) + 1, 1>>
      BY <1>2, <1>5, <2>2
    <3> QED BY <1>7, <3>1, <3>2
  <2>3. CASE s \in Sites(doc) /\ t \notin Sites(doc)
    BY <1>5, <1>6, <1>7, <2>3
  <2>4. CASE t \in Sites(doc) /\ s \notin Sites(doc)
    BY <1>5, <1>6, <1>7, <2>4
  <2> QED BY <2>1, <2>2, <2>3, <2>4
<1> QED BY <1>7 DEF OneEach, new

Foreign(doc, e) == {g \in DOMAIN doc.hooks[e] : ~HasOwn(doc.hooks[e][g])}
ForeignSites(doc) == {s \in Sites(doc) : ~HasOwn(doc.hooks[s[1]][s[2]])}

\* An unwire keeps the groups without a hook of hookwise's.
LEMMA UnwireParts ==
  ASSUME NEW doc \in Docs
  PROVE  /\ Unwire(doc) \in Docs /\ Unwire(doc).rest = doc.rest
         /\ \A e \in Events : Unwire(doc).hooks[e] = Keep(doc.hooks[e], Foreign(doc, e))
<1> DEFINE H == [e \in Events |-> Keep(doc.hooks[e], Foreign(doc, e))]
<1>1. doc \in [hooks : [Events -> Seq(Groups)], statusLine : {"none", "own", "other"}, rest : Nat,
              form : {"sound", "mistyped", "torn"}]
  BY DEF Docs
<1>2. H \in [Events -> Seq(Groups)]
  <2> SUFFICES ASSUME NEW e \in Events PROVE Keep(doc.hooks[e], Foreign(doc, e)) \in Seq(Groups)
    OBVIOUS
  <2>1. doc.hooks[e] \in Seq(Groups) /\ Foreign(doc, e) \in SUBSET DOMAIN doc.hooks[e]
    BY DocParts DEF Foreign
  <2> QED BY <2>1, KeepProps
<1>3. Unwire(doc) = [doc EXCEPT !.hooks = H, !.statusLine = IF @ = "own" THEN "none" ELSE @]
  BY DEF Unwire, Foreign
<1> HIDE DEF H
<1>4. Unwire(doc) \in Docs /\ Unwire(doc).rest = doc.rest /\ Unwire(doc).hooks = H
  BY <1>1, <1>2, <1>3 DEF Docs
<1> QED BY <1>4 DEF H

\* An unwire drops hookwise's own groups and nothing else.
LEMMA UnwireCopies ==
  ASSUME NEW doc \in Docs
  PROVE  \E f : Copies(f, Unwire(doc), doc, ForeignSites(doc))
<1> DEFINE new == Unwire(doc)
           K(e) == Foreign(doc, e)
           f == [s \in Sites(new) |-> <<s[1], At(s[2], K(s[1])), s[3]>>]
<1>1. new \in Docs /\ \A e \in Events : new.hooks[e] = Keep(doc.hooks[e], K(e))
  BY UnwireParts
<1>2. ASSUME NEW e \in Events
      PROVE  /\ IsFiniteSet(K(e)) /\ K(e) \in SUBSET Int /\ K(e) \in SUBSET DOMAIN doc.hooks[e]
             /\ DOMAIN new.hooks[e] = 1..Cardinality(K(e))
             /\ \A n \in 1..Cardinality(K(e)) : new.hooks[e][n] = doc.hooks[e][At(n, K(e))]
  <2>1. doc.hooks[e] \in Seq(Groups) /\ K(e) \in SUBSET DOMAIN doc.hooks[e]
    BY DocParts DEF Foreign
  <2> HIDE DEF new, K
  <2> QED BY <1>1, <2>1, KeepProps
<1> HIDE DEF new
<1>3. ASSUME NEW s \in Sites(new)
      PROVE  /\ s = <<s[1], s[2], s[3]>> /\ s[1] \in Events
             /\ s[2] \in 1..Cardinality(K(s[1])) /\ At(s[2], K(s[1])) \in K(s[1])
             /\ f[s] = <<s[1], At(s[2], K(s[1])), s[3]>>
             /\ new.hooks[s[1]][s[2]] = doc.hooks[s[1]][At(s[2], K(s[1]))]
             /\ s[3] \in DOMAIN doc.hooks[s[1]][At(s[2], K(s[1]))].hooks
  <2>1. /\ s = <<s[1], s[2], s[3]>> /\ s[1] \in Events /\ s[2] \in DOMAIN new.hooks[s[1]]
        /\ s[3] \in DOMAIN new.hooks[s[1]][s[2]].hooks
    BY <1>1, SiteTypes
  <2> HIDE DEF K
  <2>2. /\ s[2] \in 1..Cardinality(K(s[1]))
        /\ new.hooks[s[1]][s[2]] = doc.hooks[s[1]][At(s[2], K(s[1]))]
    BY <1>2, <2>1
  <2>3. At(s[2], K(s[1])) \in K(s[1])
    BY <1>2, <2>1, <2>2, AtProps
  <2> QED BY <2>1, <2>2, <2>3
<1>4. ASSUME NEW s \in Sites(new) PROVE f[s] \in ForeignSites(doc)
  <2>1. At(s[2], K(s[1])) \in DOMAIN doc.hooks[s[1]]
        /\ ~HasOwn(doc.hooks[s[1]][At(s[2], K(s[1]))])
    BY <1>3 DEF Foreign
  <2> DEFINE t == <<s[1], At(s[2], K(s[1])), s[3]>>
  <2>2. t[1] = s[1] /\ t[2] = At(s[2], K(s[1])) /\ t[3] = s[3]
    OBVIOUS
  <2> HIDE DEF K
  <2>3. t \in Sites(doc)
    BY <1>3, <2>1, SiteParts
  <2>4. t \in ForeignSites(doc)
    <3> HIDE DEF t
    <3> QED BY <2>1, <2>2, <2>3 DEF ForeignSites
  <2> HIDE DEF f
  <2> QED BY <1>3, <2>4
<1>5. f \in [Sites(new) -> ForeignSites(doc)]
  BY <1>4
<1>6. ASSUME NEW t \in ForeignSites(doc) PROVE \E s \in Sites(new) : f[s] = t
  <2>1. /\ t = <<t[1], t[2], t[3]>> /\ t[1] \in Events /\ t[2] \in DOMAIN doc.hooks[t[1]]
        /\ t[3] \in DOMAIN doc.hooks[t[1]][t[2]].hooks /\ ~HasOwn(doc.hooks[t[1]][t[2]])
    BY SiteTypes DEF ForeignSites
  <2>2. t[2] \in K(t[1])
    BY <2>1 DEF Foreign
  <2> DEFINE r == Rank(t[2], K(t[1]))
             s == <<t[1], r, t[3]>>
  <2>3. r \in 1..Cardinality(K(t[1])) /\ At(r, K(t[1])) = t[2]
    <3> HIDE DEF K
    <3> QED BY <1>2, <2>1, <2>2, RankOrder, AtProps
  <2> HIDE DEF r, K
  <2>4. r \in DOMAIN new.hooks[t[1]] /\ new.hooks[t[1]][r] = doc.hooks[t[1]][t[2]]
    BY <1>2, <2>1, <2>3
  <2>5. s \in Sites(new)
    BY <2>1, <2>4, SiteParts
  <2>6. f[s] = t
    BY <2>1, <2>3, <2>5
  <2> QED BY <2>5, <2>6
<1>7. ASSUME NEW s \in Sites(new) PROVE Key(new, s) = Key(doc, f[s])
  <2> HIDE DEF K, f
  <2>1. /\ f[s][1] = s[1] /\ f[s][3] = s[3]
        /\ doc.hooks[f[s][1]][f[s][2]] = new.hooks[s[1]][s[2]]
    BY <1>3
  <2> QED BY <2>1 DEF Key, HookAt, MatcherAt
<1>8. ASSUME NEW s \in Sites(new), NEW t \in Sites(new), s[1] = t[1]
      PROVE  /\ f[s][2] < f[t][2] <=> s[2] < t[2]
             /\ f[s][2] = f[t][2] <=> s[2] = t[2]
  <2> HIDE DEF K, f
  <2>1. f[s][2] = At(s[2], K(s[1])) /\ f[t][2] = At(t[2], K(s[1]))
    BY <1>3, <1>8
  <2>2. s[2] \in 1..Cardinality(K(s[1])) /\ t[2] \in 1..Cardinality(K(s[1]))
    BY <1>3, <1>8
  <2>3. IsFiniteSet(K(s[1])) /\ K(s[1]) \in SUBSET Int
    BY <1>2, <1>3
  <2>4. At(s[2], K(s[1])) < At(t[2], K(s[1])) <=> s[2] < t[2]
    BY <2>2, <2>3, AtProps
  <2>5. At(s[2], K(s[1])) = At(t[2], K(s[1])) => s[2] = t[2]
    BY <2>2, <2>3, AtProps
  <2> QED BY <2>1, <2>4, <2>5
<1>9. ASSUME NEW s \in Sites(new), NEW t \in Sites(new)
      PROVE  /\ Precedes(f[s], f[t]) <=> Precedes(s, t)
             /\ f[s] = f[t] => s = t
  <2> HIDE DEF K, f
  <2>1. f[s][1] = s[1] /\ f[t][1] = t[1] /\ f[s][3] = s[3] /\ f[t][3] = t[3]
    BY <1>3
  <2>2. Precedes(f[s], f[t]) <=> Precedes(s, t)
    BY <1>8, <2>1 DEF Precedes
  <2>3. f[s] = f[t] => s[1] = t[1] /\ s[2] = t[2] /\ s[3] = t[3]
    BY <1>8, <2>1
  <2> QED BY <1>3, <2>2, <2>3
<1>10. Copies(f, new, doc, ForeignSites(doc))
  <2> HIDE DEF f
  <2>1. ForeignSites(doc) \subseteq Sites(doc)
    BY DEF ForeignSites
  <2> QED BY <1>5, <1>6, <1>7, <1>9, <2>1 DEF Copies
<1> QED BY <1>10 DEF new

\* Every hook in a group without hookwise's is still there.
LEMMA UnwireKeepsForeign ==
  ASSUME NEW doc \in Docs, NEW s \in ForeignSites(doc)
  PROVE  Key(doc, s) \in Keys(Unwire(doc))
<1>1. PICK f : Copies(f, Unwire(doc), doc, ForeignSites(doc))
  BY UnwireCopies
<1>2. PICK t \in Sites(Unwire(doc)) : f[t] = s
  BY <1>1 DEF Copies
<1>3. Key(Unwire(doc), t) = Key(doc, s)
  BY <1>1, <1>2 DEF Copies
<1> QED BY <1>3 DEF Keys

-----------------------------------------------------------------------------
(* The labels of a process, and those before it has saved a backup.        *)

Labels ==
  Idle \cup {"plan", "fingerprint", "ask", "stat", "verify", "backup", "rename",
             "scan", "count", "restore", "preflight", "read", "reread", "save",
             "truncate", "write", "validate", "putback"}

Unsaved ==
  {"plan", "fingerprint", "ask", "stat", "verify", "backup", "rename", "scan",
   "count", "restore", "preflight", "read", "reread", "save"}

USE ConstantsAssumption DEF Nothing

-----------------------------------------------------------------------------
(* The inductive invariant.                                                *)

\* Text that is no JSON but that the planner takes.
Ripped(doc) == [state |-> "torn", doc |-> doc]
Content(x) == x = Broken \/ x = Absent \/ x = Good(x.doc) \/ x = Ripped(x.doc)

Types ==
  /\ Content(file) /\ (file.state = "good" => file = Good(good))
  /\ clock \in 0..MaxClock
  /\ stamped = [t \in 0..MaxClock |-> stamped[t]]
  /\ \A t \in 0..MaxClock : \A x \in stamped[t] : Content(x)
  /\ pc \in [Procs -> Labels]
  /\ saved \in [Procs -> 0..MaxClock \cup {Nothing}]
  /\ stale \in [Procs -> SUBSET {"stat", "contents", "inode"}]
  /\ \A p \in Procs : pc[p] \in Unsaved => saved[p] = Nothing
  /\ \A p \in Procs : pc[p] = "putback" => saved[p] # Nothing

\* The backup p has made holds what was there, or somebody has since written
\* over it and has not gone on to truncate the file.
Kept(p) ==
  \/ stamped[saved[p]] = {Good(good)}
  \/ \E q \in Procs \ {p} : saved[q] = saved[p] /\ pc[q] \in {"truncate", "killed"}

\* What a process relies on that nobody has overtaken.
Relies(p) ==
  "contents" \notin stale[p] =>
    /\ pc[p] = "save" => ~NoJSON(file)
    /\ pc[p] = "truncate" /\ saved[p] # Nothing => file = Good(good) /\ Kept(p)
    /\ pc[p] = "write" => /\ file = Broken /\ "inode" \notin stale[p]
                          /\ saved[p] # Nothing => Kept(p)
    /\ pc[p] = "validate" => ~NoJSON(file)
    /\ pc[p] # "putback"
    /\ pc[p] \in {"killed", "failed"} /\ saved[p] # Nothing /\ NoJSON(file)
         => Kept(p)

IInv == Types /\ \A p \in Procs : Relies(p)

LEMMA Moves ==
  ASSUME pc \in [Procs -> Labels], NEW q \in Procs, NEW l \in Labels, Goto(q, l)
  PROVE  /\ pc' \in [Procs -> Labels] /\ pc'[q] = l
         /\ \A r \in Procs \ {q} : pc'[r] = pc[r]
BY DEF Goto

LEMMA States ==
  /\ Broken.state = "broken" /\ Absent.state = "missing"
  /\ \A x : Good(x).state = "good" /\ Good(x).doc = x
  /\ \A x : Ripped(x).state = "torn" /\ Ripped(x).doc = x
  /\ \A x : Text(x).doc = x /\ Text(x) = IF x.form = "torn" THEN Ripped(x) ELSE Good(x)
  /\ \A x : /\ Torn(x).state = "torn" /\ Torn(x) = Ripped(Torn(x).doc)
            /\ Torn(x).doc = [x EXCEPT !.form = "torn"]
BY DEF Broken, Absent, Good, Ripped, Text, Torn

LEMMA Contents == \A x : Content(Good(x)) /\ Content(Text(x)) /\ Content(Torn(x))
BY States DEF Content

LEMMA BadJSON ==
  ASSUME NEW x, Content(x)
  PROVE  /\ NoJSON(x) <=> x.state \in {"broken", "torn"}
         /\ ~NoJSON(x) <=> x = Absent \/ x.state = "good"
         /\ x.state = "good" => x = Good(x.doc)
         /\ x.state \in {"good", "torn", "broken", "missing"}
BY States DEF Content, NoJSON

-----------------------------------------------------------------------------
(* Writing the file.                                                       *)

LEMMA BecomesStep ==
  ASSUME Types, NEW x, Content(x), NEW w, NEW b \in BOOLEAN, Becomes(x, w, b)
  PROVE  /\ file' = x /\ Content(file') /\ (file'.state = "good" => file' = Good(good'))
         /\ stale' \in [Procs -> SUBSET {"stat", "contents", "inode"}]
         /\ w \in Procs => stale'[w] = stale[w] \ {"inode"}
         /\ \A p \in Procs : p # w /\ pc[p] \notin Done => "contents" \in stale'[p]
         /\ x.state # "good" => good' = good
<1>1. file' = x /\ (x.state = "good" => x = Good(x.doc) /\ good' = x.doc)
       /\ (x.state # "good" => good' = good)
  BY BadJSON DEF Becomes
<1>2. \A p \in Procs :
        stale'[p] = IF p = w THEN stale[p] \ {"inode"} ELSE IF pc[p] \in Done THEN stale[p]
                    ELSE stale[p] \cup {"stat", "contents"} \cup (IF b THEN {"inode"} ELSE {})
  BY DEF Becomes
<1>3. DOMAIN stale' = Procs /\ stale' = [p \in Procs |-> stale'[p]]
  BY DEF Becomes
<1>4. \A p \in Procs : stale[p] \subseteq {"stat", "contents", "inode"}
  BY DEF Types
<1>5. \A p \in Procs : stale'[p] \in SUBSET {"stat", "contents", "inode"}
  BY <1>2, <1>4
<1>6. stale' \in [Procs -> SUBSET {"stat", "contents", "inode"}]
  BY <1>3, <1>5
<1> QED BY <1>1, <1>2, <1>6

\* A step of q does not disturb what p relies on, unless q writes the file.
LEMMA OthersKeep ==
  ASSUME NEW p \in Procs, NEW q, p # q, Relies(p), saved \in [Procs -> 0..MaxClock \cup {Nothing}],
         \A r \in Procs \ {q} : pc'[r] = pc[r] /\ saved'[r] = saved[r],
         \/ pc[p] \in Done \/ "contents" \in stale'[p]
         \/ /\ stale'[p] = stale[p] /\ file' = file /\ good' = good
            /\ \A t \in 0..MaxClock : \/ stamped'[t] = stamped[t]
                                      \/ q \in Procs /\ saved'[q] = t /\ pc'[q] = "truncate"
            /\ q \in Procs /\ pc[q] \in {"truncate", "killed"}
                 => pc'[q] \in {"truncate", "killed"} /\ saved'[q] = saved[q]
  PROVE  Relies(p)'
<1>1. pc'[p] = pc[p] /\ saved'[p] = saved[p]
  OBVIOUS
<1>2. CASE pc[p] \in Done \/ "contents" \in stale'[p]
  BY <1>1, <1>2 DEF Relies, Done
<1>3. CASE /\ stale'[p] = stale[p] /\ file' = file /\ good' = good
           /\ \A t \in 0..MaxClock : \/ stamped'[t] = stamped[t]
                                     \/ q \in Procs /\ saved'[q] = t /\ pc'[q] = "truncate"
           /\ q \in Procs /\ pc[q] \in {"truncate", "killed"}
                => pc'[q] \in {"truncate", "killed"} /\ saved'[q] = saved[q]
  <2>1. saved[p] # Nothing /\ Kept(p) => Kept(p)'
    <3> SUFFICES ASSUME saved[p] # Nothing, Kept(p) PROVE Kept(p)'
      OBVIOUS
    <3>1. saved[p] \in 0..MaxClock
      OBVIOUS
    <3>2. CASE stamped[saved[p]] = {Good(good)}
      BY <1>1, <1>3, <3>1, <3>2 DEF Kept
    <3>3. ASSUME NEW r \in Procs \ {p}, saved[r] = saved[p], pc[r] \in {"truncate", "killed"}
          PROVE  Kept(p)'
      <4>1. saved'[r] = saved[r] /\ pc'[r] \in {"truncate", "killed"}
        BY <1>3, <3>3
      <4> QED
        BY <1>1, <3>3, <4>1 DEF Kept
    <3> QED
      BY <3>2, <3>3 DEF Kept
  <2> QED
    BY <1>1, <1>3, <2>1 DEF Relies
<1> QED
  BY <1>2, <1>3

-----------------------------------------------------------------------------
LEMMA Initially == Init => IInv
<1> SUFFICES ASSUME Init PROVE IInv
  OBVIOUS
<1>1. Content(file) /\ (file.state = "good" => file = Good(good))
  <2>1. file = Absent \/ \E d \in InitDocs : file = Text(d)
    BY DEF Init
  <2>2. Content(file)
    BY <2>1, Contents DEF Content
  <2>3. file.state = "good" => file = Good(file.doc) /\ good = file.doc
    BY <2>2, BadJSON DEF Init
  <2> QED BY <2>2, <2>3
<1>2. \A p \in Procs : pc[p] = "start" /\ saved[p] = Nothing /\ stale[p] = {}
  BY DEF Init
<1>3. "start" \in Labels
  BY DEF Labels, Idle, Done
<1>4. pc \in [Procs -> Labels]
  BY <1>3 DEF Init
<1>5. Types
  BY <1>1, <1>2, <1>4 DEF Init, Types
<1> QED
  BY <1>2, <1>5 DEF IInv, Relies

\* A process dies: its backup is all that remains of what it did.
LEMMA KillStep == ASSUME IInv, NEW q \in Procs, Kill(q) PROVE IInv'
<1>1. /\ Types /\ Relies(q) /\ pc[q] \notin Idle /\ Goto(q, "killed")
      /\ UNCHANGED <<file, good, stale, clock, stamped, saved>>
  BY DEF IInv, Kill, Forget, Untouched, shared, stores
<1>2. "killed" \in Labels /\ "killed" \notin Unsaved
  BY DEF Labels, Idle, Unsaved
<1>3. /\ pc' \in [Procs -> Labels] /\ pc'[q] = "killed"
      /\ \A r \in Procs \ {q} : pc'[r] = pc[r]
  BY <1>1, <1>2, Moves DEF Types
<1>4. Types'
  BY <1>1, <1>2, <1>3 DEF Types
<1>5. ASSUME NEW p \in Procs \ {q} PROVE Relies(p)'
  BY <1>1, <1>3, <1>5, OthersKeep DEF Types, IInv
<1>6. Relies(q)'
  <2> SUFFICES ASSUME "contents" \notin stale[q], saved[q] # Nothing, NoJSON(file)
               PROVE  Kept(q)'
    BY <1>1, <1>3 DEF Relies
  <2>1. pc[q] \in Labels \ Idle /\ pc[q] \notin Unsaved
    BY <1>1 DEF Types
  <2>2. pc[q] \in {"truncate", "write", "validate", "putback"}
    BY <2>1 DEF Labels, Unsaved
  <2>3. Kept(q)
    BY <1>1, <2>2, States DEF Relies, NoJSON
  <2> QED
    BY <1>1, <1>3, <2>3 DEF Kept
<1> QED
  BY <1>4, <1>5, <1>6 DEF IInv

\* A step in which q writes nothing, and relies on nothing or on the same.
LEMMA ReadStep ==
  ASSUME IInv, NEW q \in Procs, NEW l \in Labels, Goto(q, l),
         UNCHANGED <<file, good, clock, stamped, saved>>,
         stale' = stale \/ stale' = [stale EXCEPT ![q] = @ \ {"contents"}]
           \/ stale' = [stale EXCEPT ![q] = @ \ {"stat"}],
         pc[q] \notin {"truncate", "killed"},
         l \in Unsaved => saved[q] = Nothing,
         l = "putback" => saved[q] # Nothing,
         Relies(q)'
  PROVE  IInv'
<1>1. /\ pc' \in [Procs -> Labels] /\ pc'[q] = l
      /\ \A r \in Procs \ {q} : pc'[r] = pc[r]
  BY Moves DEF IInv, Types
<1>2. /\ stale' \in [Procs -> SUBSET {"stat", "contents", "inode"}]
      /\ \A r \in Procs \ {q} : stale'[r] = stale[r]
  BY DEF IInv, Types
<1>3. Types'
  BY <1>1, <1>2 DEF IInv, Types
<1>4. ASSUME NEW p \in Procs \ {q} PROVE Relies(p)'
  BY <1>1, <1>2, <1>4, OthersKeep DEF IInv, Types
<1> QED
  BY <1>3, <1>4 DEF IInv

LEMMA StartStep == ASSUME IInv, NEW q \in Procs, Start(q) PROVE IInv'
<1>1. /\ Types /\ pc[q] \in Idle \ {"killed"} /\ UNCHANGED <<file, good, clock, stamped>>
      /\ saved' = [saved EXCEPT ![q] = Nothing] /\ stale' = [stale EXCEPT ![q] = {}]
  BY DEF IInv, Start, shared, stores
<1>2. PICK l \in {"plan", "read", "preflight"} : Goto(q, l)
  BY DEF Start
<1>3. l \in Labels /\ pc[q] \notin {"truncate", "killed"}
  BY <1>1 DEF Labels, Idle, Done
<1>4. /\ pc' \in [Procs -> Labels] /\ pc'[q] = l
      /\ \A r \in Procs \ {q} : pc'[r] = pc[r]
  BY <1>1, <1>2, <1>3, Moves DEF Types
<1>5. /\ saved' \in [Procs -> 0..MaxClock \cup {Nothing}] /\ saved'[q] = Nothing
      /\ \A r \in Procs \ {q} : saved'[r] = saved[r]
  BY <1>1 DEF Types
<1>6. /\ stale' \in [Procs -> SUBSET {"stat", "contents", "inode"}]
      /\ \A r \in Procs \ {q} : stale'[r] = stale[r]
  BY <1>1 DEF Types
<1>7. Types'
  BY <1>1, <1>2, <1>4, <1>5, <1>6 DEF Types
<1>8. ASSUME NEW p \in Procs \ {q} PROVE Relies(p)'
  BY <1>1, <1>3, <1>4, <1>5, <1>6, <1>8, OthersKeep DEF IInv, Types
<1>9. Relies(q)'
  BY <1>2, <1>4 DEF Relies
<1> QED
  BY <1>7, <1>8, <1>9 DEF IInv

FixSteps ==
  {"stopped", "fingerprint", "ask", "stat", "verify", "backup", "rename", "count",
   "restore", "applied"}

LEMMA FixReads ==
  ASSUME IInv, NEW q \in Procs,
         \/ PlanRead(q) \/ Fingerprint(q) \/ Confirm(q) \/ CheckStat(q) \/ Verify(q)
         \/ WriteBackup(q) \/ GateScan(q) \/ GateCount(q)
  PROVE  IInv'
<1> USE DEF PlanRead, Fingerprint, Confirm, CheckStat, Verify, WriteBackup, GateScan,
            GateCount
<1>1. UNCHANGED <<file, good, clock, stamped, saved>>
  BY DEF Stop, Forget, Untouched, shared, stores, locals
<1>2. \/ stale' = stale \/ stale' = [stale EXCEPT ![q] = @ \ {"contents"}]
      \/ stale' = [stale EXCEPT ![q] = @ \ {"stat"}]
  BY DEF Untouched, Refresh
<1>3. pc[q] \in {"plan", "fingerprint", "ask", "stat", "verify", "backup", "scan", "count"}
  OBVIOUS
<1>4. PICK l \in FixSteps : Goto(q, l)
  BY DEF Stop, FixSteps
<1> HIDE DEF PlanRead, Fingerprint, Confirm, CheckStat, Verify, WriteBackup, GateScan,
             GateCount
<1>5. /\ l \in Labels
      /\ l \notin {"save", "truncate", "write", "validate", "putback", "killed", "failed"}
  BY <1>4 DEF Labels, Idle, Done, FixSteps
<1>6. pc[q] \in Unsaved
  BY <1>3 DEF Unsaved
<1>7. saved[q] = Nothing
  BY <1>6 DEF IInv, Types
<1>8. pc'[q] = l
  BY <1>4, <1>5, Moves DEF IInv, Types
<1>9. Relies(q)'
  BY <1>5, <1>8 DEF Relies
<1> QED
  BY <1>1, <1>2, <1>3, <1>4, <1>5, <1>7, <1>9, ReadStep

LEMMA WireReads ==
  ASSUME IInv, NEW q \in Procs, Preflight(q) \/ ReadOld(q) \/ ReadNew(q)
  PROVE  IInv'
<1>1. UNCHANGED <<file, good, clock, stamped, saved>>
  BY DEF Preflight, ReadOld, ReadNew, Stop, Forget, Untouched, shared, stores, locals
<1>2. stale' = stale \/ stale' = [stale EXCEPT ![q] = @ \ {"contents"}]
  BY DEF Preflight, ReadOld, ReadNew, Untouched, Refresh
<1>3. pc[q] \in {"preflight", "read", "reread"}
  BY DEF Preflight, ReadOld, ReadNew
<1>4. PICK l \in {"stopped", "read", "reread", "unchanged", "save"} :
        Goto(q, l) /\ (l = "save" => ~NoJSON(file))
  BY DEF Preflight, ReadOld, ReadNew, Stop
<1>5. l \in Labels
  BY <1>4 DEF Labels, Idle, Done
<1>6. pc[q] \in Unsaved
  BY <1>3 DEF Unsaved
<1>7. saved[q] = Nothing
  BY <1>6 DEF IInv, Types
<1>8. pc'[q] = l
  BY <1>4, <1>5, Moves DEF IInv, Types
<1>9. Relies(q)'
  BY <1>1, <1>4, <1>8 DEF Relies
<1> QED
  BY <1>1, <1>2, <1>3, <1>4, <1>5, <1>7, <1>9, ReadStep

LEMMA ValidateStep == ASSUME IInv, NEW q \in Procs, Validate(q) PROVE IInv'
<1>1. /\ UNCHANGED <<file, good, clock, stamped, saved>> /\ stale' = stale
      /\ pc[q] = "validate"
  BY DEF Validate, Forget, Untouched, shared, stores, locals
<1>2. PICK l \in {"wired", "putback", "invalid"} :
        /\ Goto(q, l)
        /\ l = "putback" => NoJSON(file) /\ saved[q] # Nothing
  BY DEF Validate
<1>3. l \in Labels /\ l \notin Unsaved
  BY <1>2 DEF Labels, Idle, Done, Unsaved
<1>4. pc'[q] = l
  BY <1>2, <1>3, Moves DEF IInv, Types
<1>5. l = "putback" => "contents" \in stale[q]
  BY <1>1, <1>2 DEF IInv, Relies
<1>6. Relies(q)'
  BY <1>1, <1>2, <1>4, <1>5 DEF Relies
<1> QED
  BY <1>1, <1>2, <1>3, <1>6, ReadStep

-----------------------------------------------------------------------------
(* The steps of a wire that write.                                         *)

LEMMA SaveStep == ASSUME IInv, NEW q \in Procs, SaveStamped(q) PROVE IInv'
<1>1. /\ Types /\ Relies(q) /\ pc[q] = "save"
      /\ UNCHANGED <<file, good, clock, stale>>
  BY DEF IInv, SaveStamped, Untouched, shared
<1>2. "save" \in Unsaved /\ "stopped" \in Labels /\ "stopped" \notin Unsaved
      /\ "truncate" \in Labels /\ "truncate" \notin Unsaved
  BY DEF Unsaved, Labels, Idle, Done
<1>3. saved[q] = Nothing
  BY <1>1, <1>2 DEF Types
<1>4. CASE Goto(q, "stopped") /\ UNCHANGED <<stamped, saved>>
  <2>1. pc'[q] = "stopped"
    BY <1>1, <1>2, <1>4, Moves DEF Types
  <2>2. Relies(q)'
    BY <2>1 DEF Relies
  <2> QED
    BY <1>1, <1>2, <1>4, <2>2, ReadStep
<1>5. CASE Goto(q, "truncate") /\ UNCHANGED <<stamped, saved>>
  <2>1. pc'[q] = "truncate"
    BY <1>1, <1>2, <1>5, Moves DEF Types
  <2>2. Relies(q)'
    BY <1>3, <1>5, <2>1 DEF Relies
  <2> QED
    BY <1>1, <1>2, <1>5, <2>2, ReadStep
<1>6. CASE /\ Goto(q, "truncate") /\ file # Absent
           /\ saved' = [saved EXCEPT ![q] = clock]
           /\ stamped' = [stamped EXCEPT ![clock] = {file}]
  <2>1. /\ pc' \in [Procs -> Labels] /\ pc'[q] = "truncate"
        /\ \A r \in Procs \ {q} : pc'[r] = pc[r]
    BY <1>1, <1>2, <1>6, Moves DEF Types
  <2>2. /\ saved' \in [Procs -> 0..MaxClock \cup {Nothing}] /\ saved'[q] = clock
        /\ \A r \in Procs \ {q} : saved'[r] = saved[r]
    BY <1>1, <1>6 DEF Types
  <2>3. /\ stamped'[clock] = {file} /\ clock \in 0..MaxClock
        /\ \A t \in 0..MaxClock : t # clock => stamped'[t] = stamped[t]
    BY <1>1, <1>6 DEF Types
  <2>4. stamped' = [t \in 0..MaxClock |-> stamped'[t]]
    BY <1>1, <1>6 DEF Types
  <2>5. Content(file) /\ (file.state = "good" => file = Good(good))
    BY <1>1 DEF Types
  <2>6. \A t \in 0..MaxClock : \A x \in stamped'[t] : Content(x)
    <3> SUFFICES ASSUME NEW t \in 0..MaxClock, NEW x \in stamped'[t] PROVE Content(x)
      OBVIOUS
    <3>1. CASE t = clock
      BY <2>3, <2>5, <3>1
    <3>2. CASE t # clock
      BY <1>1, <2>3, <3>2 DEF Types
    <3> QED
      BY <3>1, <3>2
  <2>7. Content(file)' /\ (file'.state = "good" => file' = Good(good'))
    BY <1>1, <2>5
  <2>8. /\ \A p \in Procs : pc'[p] \in Unsaved => saved'[p] = Nothing
        /\ \A p \in Procs : pc'[p] = "putback" => saved'[p] # Nothing
    BY <1>1, <1>2, <2>1, <2>2 DEF Types
  <2>9. Types'
    BY <1>1, <2>1, <2>2, <2>3, <2>4, <2>6, <2>7, <2>8 DEF Types
  <2>10. ASSUME NEW p \in Procs \ {q} PROVE Relies(p)'
    BY <1>1, <2>1, <2>2, <2>3, <2>10, OthersKeep DEF IInv, Types
  <2>11. Relies(q)'
    <3> SUFFICES ASSUME "contents" \notin stale[q] PROVE file = Good(good) /\ Kept(q)'
      BY <1>1, <2>1 DEF Relies
    <3>1. file = Good(good)
      BY <1>1, <1>6, <2>5, BadJSON DEF Relies
    <3> QED
      BY <1>1, <2>2, <2>3, <3>1 DEF Kept
  <2> QED
    BY <2>9, <2>10, <2>11 DEF IInv
<1> QED
  BY <1>4, <1>5, <1>6 DEF SaveStamped, Stop, Forget

\* A step in which q writes the file: nobody else relies on it any longer.
LEMMA OverwriteStep ==
  ASSUME IInv, NEW q \in Procs, NEW x, Content(x), NEW b \in BOOLEAN, Becomes(x, q, b),
         UNCHANGED <<clock, stamped, saved>>, NEW l \in Labels, Goto(q, l),
         l \in Unsaved => saved[q] = Nothing, l # "putback",
         Relies(q)'
  PROVE  IInv'
<1>1. /\ Content(file') /\ (file'.state = "good" => file' = Good(good'))
      /\ stale' \in [Procs -> SUBSET {"stat", "contents", "inode"}]
      /\ \A p \in Procs : p # q /\ pc[p] \notin Done => "contents" \in stale'[p]
  BY BecomesStep DEF IInv
<1>2. /\ pc' \in [Procs -> Labels] /\ pc'[q] = l
      /\ \A r \in Procs \ {q} : pc'[r] = pc[r]
  BY Moves DEF IInv, Types
<1>3. Types'
  BY <1>1, <1>2 DEF IInv, Types
<1>4. ASSUME NEW p \in Procs \ {q} PROVE Relies(p)'
  BY <1>1, <1>2, OthersKeep DEF IInv, Types
<1> QED
  BY <1>3, <1>4 DEF IInv

LEMMA TruncateStep == ASSUME IInv, NEW q \in Procs, Truncate(q) PROVE IInv'
<1>1. /\ Types /\ Relies(q) /\ pc[q] = "truncate" /\ Becomes(Broken, q, FALSE)
      /\ Content(Broken) /\ Goto(q, "write") /\ UNCHANGED <<clock, stamped, saved>>
  BY DEF IInv, Truncate, Content, locals, stores
<1>2. "write" \in Labels /\ "write" \notin Unsaved
  BY DEF Labels, Unsaved
<1>3. pc'[q] = "write" /\ \A r \in Procs \ {q} : pc'[r] = pc[r]
  BY <1>1, <1>2, Moves DEF Types
<1>4. file' = Broken /\ good' = good /\ stale'[q] = stale[q] \ {"inode"}
  BY <1>1, BecomesStep, States
<1>5. Relies(q)'
  <2> SUFFICES ASSUME "contents" \notin stale[q], saved[q] # Nothing PROVE Kept(q)'
    BY <1>1, <1>3, <1>4 DEF Relies
  <2>1. Kept(q)
    BY <1>1 DEF Relies
  <2> QED
    BY <1>1, <1>3, <1>4, <2>1 DEF Kept
<1> QED
  BY <1>1, <1>2, <1>5, OverwriteStep

LEMMA WriteStep == ASSUME IInv, NEW q \in Procs, Write(q) PROVE IInv'
<1>1. /\ Types /\ Relies(q) /\ pc[q] = "write" /\ UNCHANGED <<clock, stamped, saved>>
  BY DEF IInv, Write, Forget, locals, stores
<1>2. /\ "validate" \in Labels /\ "validate" \notin Unsaved
      /\ "failed" \in Labels /\ "failed" \notin Unsaved
  BY DEF Labels, Idle, Done, Unsaved
<1>3. \A l \in Labels : Goto(q, l) => pc'[q] = l /\ \A r \in Procs \ {q} : pc'[r] = pc[r]
  BY <1>1, Moves DEF Types
<1>4. CASE Untouched /\ "inode" \in stale[q] /\ Goto(q, "validate")
  <2>1. UNCHANGED <<file, good, stale>> /\ "contents" \in stale[q]
    BY <1>1, <1>4 DEF Untouched, shared, Relies
  <2>2. Relies(q)'
    BY <2>1 DEF Relies
  <2> QED
    BY <1>1, <1>2, <1>4, <2>1, <2>2, ReadStep
<1>5. CASE Becomes(Good(work[q]), q, FALSE) /\ Goto(q, "validate")
  <2>1. Content(Good(work[q])) /\ pc'[q] = "validate"
    BY <1>2, <1>3, <1>5, Contents
  <2>2. file' = Good(work[q])
    BY <1>1, <1>5, <2>1, BecomesStep
  <2>3. Relies(q)'
    BY <2>1, <2>2, States DEF Relies, NoJSON
  <2> QED
    BY <1>1, <1>2, <1>5, <2>1, <2>3, OverwriteStep
<1>6. CASE /\ file.state \in {"good", "torn"} /\ Becomes(Torn(work[q]), q, FALSE)
           /\ Goto(q, "validate")
  <2>1. Content(Torn(work[q]))
    BY Contents
  <2>2. "contents" \in stale[q]
    BY <1>1, <1>6, States DEF Relies
  <2>3. "contents" \in stale'[q]
    BY <1>1, <1>6, <2>1, <2>2, BecomesStep
  <2>4. Relies(q)'
    BY <2>3 DEF Relies
  <2> QED
    BY <1>1, <1>2, <1>6, <2>1, <2>4, OverwriteStep
<1>7. ASSUME Goto(q, "failed"), good' = good, "contents" \notin stale'[q] => "contents" \notin stale[q]
      PROVE  Relies(q)'
  <2>1. pc'[q] = "failed" /\ \A r \in Procs \ {q} : pc'[r] = pc[r]
    BY <1>2, <1>3, <1>7
  <2> SUFFICES ASSUME "contents" \notin stale'[q], saved[q] # Nothing PROVE Kept(q)'
    BY <1>1, <2>1 DEF Relies
  <2>2. Kept(q)
    BY <1>1, <1>7 DEF Relies
  <2> QED
    BY <1>1, <1>7, <2>1, <2>2 DEF Kept
<1>8. CASE Untouched /\ Goto(q, "failed")
  <2>1. UNCHANGED <<file, good, stale>>
    BY <1>8 DEF Untouched, shared
  <2>2. Relies(q)'
    BY <1>7, <1>8, <2>1
  <2> QED
    BY <1>1, <1>2, <1>8, <2>1, <2>2, ReadStep
<1>9. CASE Becomes(Torn(work[q]), q, FALSE) /\ Goto(q, "failed")
  <2>1. Content(Torn(work[q]))
    BY Contents
  <2>2. good' = good /\ stale'[q] = stale[q] \ {"inode"}
    BY <1>1, <1>9, <2>1, BecomesStep, States
  <2>3. Relies(q)'
    BY <1>7, <1>9, <2>2
  <2> QED
    BY <1>1, <1>2, <1>9, <2>1, <2>3, OverwriteStep
<1> QED
  BY <1>4, <1>5, <1>6, <1>8, <1>9 DEF Write

\* The other writers: the rename of a fix, its restore, and a wire's rollback.
LEMMA OtherWrites ==
  ASSUME IInv, NEW q \in Procs, Rename(q) \/ Restore(q) \/ PutBack(q)
  PROVE  IInv'
<1>1. Types /\ UNCHANGED <<clock, stamped, saved>>
  BY DEF IInv, Rename, Restore, PutBack, Stop, Forget, locals, stores
<1>2. pc[q] \in {"rename", "restore", "putback"}
  BY DEF Rename, Restore, PutBack
<1>3. PICK l \in {"scan", "stopped", "restored", "unrestored", "invalid"} :
        Goto(q, l) /\ (l = "scan" => pc[q] = "rename")
  BY DEF Rename, Restore, PutBack, Stop
<1>4. l \in Labels /\ (l \in Unsaved => pc[q] \in Unsaved)
  BY <1>3 DEF Labels, Idle, Done, Unsaved
<1>5. (l \in Unsaved => saved[q] = Nothing) /\ l # "putback"
  BY <1>1, <1>3, <1>4 DEF Types
<1>6. pc'[q] = l
  BY <1>1, <1>3, <1>4, Moves DEF Types
<1>7. Relies(q)'
  BY <1>3, <1>6 DEF Relies
<1>8. CASE Untouched
  <2>1. UNCHANGED <<file, good, stale>>
    BY <1>8 DEF Untouched, shared
  <2> QED
    BY <1>1, <1>2, <1>3, <1>4, <1>5, <1>7, <2>1, ReadStep
<1>9. ASSUME NEW x, Content(x), NEW b \in BOOLEAN, Becomes(x, q, b) PROVE IInv'
  BY <1>1, <1>3, <1>4, <1>5, <1>7, <1>9, OverwriteStep
<1>10. Untouched \/ \E x : Content(x) /\ \E b \in BOOLEAN : Becomes(x, q, b)
  <2>1. \A d : Content(Text(d))
    BY Contents
  <2>2. Content(Broken)
    BY DEF Content
  <2>3. CASE Rename(q)
    BY <2>1, <2>2, <2>3 DEF Rename
  <2>4. CASE Restore(q)
    BY <2>1, <2>4 DEF Restore
  <2>5. CASE PutBack(q)
    <3>1. PICK old \in stamped[saved[q]] : Becomes(old, q, FALSE)
      BY <2>5 DEF PutBack
    <3>2. saved[q] \in 0..MaxClock
      BY <1>1, <2>5 DEF Types, PutBack
    <3>3. Content(old)
      BY <1>1, <3>1, <3>2 DEF Types
    <3> QED
      BY <3>1, <3>3
  <2> QED
    BY <2>3, <2>4, <2>5
<1> QED
  BY <1>8, <1>9, <1>10

-----------------------------------------------------------------------------
LEMMA EditStep == ASSUME IInv, Edit PROVE IInv'
<1>1. PICK d : Becomes(Good(d), Nothing, TRUE)
  BY DEF Edit
<1>2. Content(Good(d)) /\ Types
  BY Contents DEF IInv
<1>3. pc' = pc /\ saved' = saved /\ clock' = clock /\ stamped' = stamped
  BY DEF Edit, locals, stores
<1>4. /\ Content(file') /\ (file'.state = "good" => file' = Good(good'))
      /\ stale' \in [Procs -> SUBSET {"stat", "contents", "inode"}]
      /\ \A p \in Procs : p # Nothing /\ pc[p] \notin Done => "contents" \in stale'[p]
  BY <1>1, <1>2, BecomesStep
<1>5. Types'
  BY <1>2, <1>3, <1>4 DEF Types
<1>6. ASSUME NEW p \in Procs PROVE Relies(p)'
  <2>1. pc[p] \in Done \/ "contents" \in stale'[p]
    BY <1>4
  <2> QED
    BY <1>3, <2>1 DEF Relies, Done
<1> QED
  BY <1>5, <1>6 DEF IInv

LEMMA Inductive == IInv /\ [Next]_vars => IInv'
<1> SUFFICES ASSUME IInv, [Next]_vars PROVE IInv'
  OBVIOUS
<1>1. CASE Edit
  BY <1>1, EditStep
<1>2. CASE Tick \/ UNCHANGED vars
  <2>1. UNCHANGED <<file, good, stamped, pc, saved, stale>> /\ clock' \in 0..MaxClock
    BY <1>2 DEF IInv, Types, Tick, Untouched, shared, stores, locals, vars
  <2>2. Types'
    BY <2>1 DEF IInv, Types
  <2>3. \A p \in Procs : Relies(p)'
    BY <2>1 DEF IInv, Relies, Kept
  <2> QED
    BY <2>2, <2>3 DEF IInv
<1>3. ASSUME NEW q \in Procs, Start(q) \/ Kill(q) PROVE IInv'
  BY <1>3, StartStep, KillStep
<1>4. ASSUME NEW q \in Procs, Fix(q) PROVE IInv'
  BY <1>4, FixReads, OtherWrites DEF Fix
<1>5. ASSUME NEW q \in Procs, WireOrUnwire(q) PROVE IInv'
  BY <1>5, WireReads, ValidateStep, SaveStep, TruncateStep, WriteStep, OtherWrites
     DEF WireOrUnwire
<1> QED
  BY <1>1, <1>2, <1>3, <1>4, <1>5 DEF Next

\* For any number of processes: when a wire is killed, or its write fails,
\* between the truncation and the last byte, the backup it made still holds
\* what was there, unless somebody else wrote the file since it was read, or
\* wired in the same second.
THEOREM WrecksAreRecoverable == Spec => []WreckRecoverable
<1>1. IInv => WreckRecoverable
  BY DEF IInv, Relies, Kept, WreckRecoverable
<1> QED
  BY <1>1, Initially, Inductive, PTL DEF Spec

-----------------------------------------------------------------------------
(* The documents the processes hold, and what each relies on.              *)

Asks == [unwire : BOOLEAN, events : SUBSET Events, statusLine : BOOLEAN]

FileOK ==
  /\ file.doc \in Docs /\ good \in Docs
  /\ file.state = "missing" => good = EmptyDoc

StampsOK ==
  \A t \in 0..MaxClock :
    /\ \A x \in stamped[t] : x.doc \in Docs /\ x.state # "missing"
    /\ \A x, y \in stamped[t] : x = y

LocalsOK ==
  /\ seen \in [Procs -> Docs] /\ work \in [Procs -> Docs] /\ flags \in [Procs -> Asks]
  /\ chosen = [p \in Procs |-> chosen[p]]

\* A fix that nobody overtook works on the document it planned from, has written
\* exactly its splice, and passes its gate if and only if that one is sound.
FixHolds(p) ==
  /\ chosen[p] \subseteq Removable(seen[p])
  /\ pc[p] \in {"plan", "preflight", "read"} => chosen[p] = {}
  /\ pc[p] \in {"backup", "rename", "scan", "count", "applied", "restore"} => work[p] = seen[p]
  /\ "contents" \notin stale[p] =>
       /\ pc[p] \in {"backup", "rename"} => file = Text(seen[p])
       /\ pc[p] \in {"scan", "count", "applied", "restore"} =>
            file = Text(Splice(seen[p], chosen[p]))
       /\ pc[p] \in {"count", "applied"} => seen[p].form = "sound"
       /\ pc[p] \in {"restore", "restored", "unrestored"} => seen[p].form # "sound"
       /\ pc[p] = "restored" => file = Text(seen[p])

Asked(p, doc) ==
  IF flags[p].unwire THEN Unwire(doc) ELSE Wire(doc, flags[p].events, flags[p].statusLine)

\* A wire that nobody overtook writes the last good document with its change.
WireHolds(p) ==
  "contents" \notin stale[p] /\ pc[p] \in {"save", "truncate", "write"} =>
    work[p] = Asked(p, good)

Holds(p) == FixHolds(p) /\ WireHolds(p)

DocsInv ==
  /\ FileOK /\ StampsOK /\ LocalsOK /\ backups \subseteq Docs
  /\ \A p \in Procs : Holds(p)

LEMMA EmptyDocs == EmptyDoc \in Docs /\ NoDoc \in Docs /\ NoFlags \in Asks
<1>1. <<>> \in Seq(Groups)
  OBVIOUS
<1>2. [e \in Events |-> <<>>] \in [Events -> Seq(Groups)]
  BY <1>1
<1>3. EmptyDoc \in [hooks : [Events -> Seq(Groups)], statusLine : {"none", "own", "other"},
                    rest : Nat, form : {"sound", "mistyped", "torn"}]
  BY <1>2 DEF EmptyDoc
<1>4. EmptyDoc \in Docs
  BY <1>3 DEF Docs
<1>5. NoDoc \in Docs
  <2> HIDE DEF EmptyDoc
  <2>1. 99 \in Nat
    OBVIOUS
  <2>2. [EmptyDoc EXCEPT !.rest = 99] \in Docs
    BY <1>3, <2>1 DEF Docs
  <2> QED BY <2>2 DEF NoDoc
<1>6. NoFlags \in Asks
  BY DEF NoFlags, Asks
<1> QED BY <1>4, <1>5, <1>6

LEMMA AskedDocs ==
  ASSUME NEW doc \in Docs, NEW p, flags[p] \in Asks
  PROVE  Asked(p, doc) \in Docs /\ Asked(p, doc).rest = doc.rest
<1>1. flags[p].unwire \in BOOLEAN /\ flags[p].statusLine \in BOOLEAN
  BY DEF Asks
<1> QED BY <1>1, UnwireParts, WireGrows DEF Asked

\* A step of q leaves alone what the others hold.
Frame(q) ==
  \A p \in Procs \ {q} :
    /\ pc'[p] = pc[p] /\ seen'[p] = seen[p] /\ work'[p] = work[p]
    /\ chosen'[p] = chosen[p] /\ flags'[p] = flags[p]

Seen(q) ==
  \A p \in Procs \ {q} :
    \/ pc[p] \in Done
    \/ "contents" \in stale'[p]
    \/ stale'[p] = stale[p] /\ file' = file /\ good' = good

\* What a process relies on is not disturbed by the step of another, when it is
\* overtaken or nothing it looks at changes.
LEMMA OthersHold ==
  ASSUME NEW q, Frame(q), Seen(q), NEW p \in Procs \ {q}, Holds(p)
  PROVE  Holds(p)'
<1>1. /\ pc'[p] = pc[p] /\ seen'[p] = seen[p] /\ work'[p] = work[p]
      /\ chosen'[p] = chosen[p] /\ flags'[p] = flags[p]
  BY DEF Frame
<1>2. CASE pc[p] \in Done \/ "contents" \in stale'[p]
  BY <1>1, <1>2 DEF Holds, FixHolds, WireHolds, Done
<1>3. CASE stale'[p] = stale[p] /\ file' = file /\ good' = good
  BY <1>1, <1>3 DEF Holds, FixHolds, WireHolds, Asked
<1> QED BY <1>2, <1>3 DEF Seen

\* A process that ends holds nothing any more.
LEMMA Forgets ==
  ASSUME LocalsOK, NEW q \in Procs, Forget(q)
  PROVE  /\ LocalsOK'
         /\ seen'[q] = EmptyDoc /\ work'[q] = EmptyDoc /\ chosen'[q] = {}
         /\ \A p \in Procs \ {q} : /\ seen'[p] = seen[p] /\ work'[p] = work[p]
                                   /\ chosen'[p] = chosen[p] /\ flags'[p] = flags[p]
BY EmptyDocs DEF Forget, LocalsOK

\* The part of a step that concerns the processes' labels, and the file when
\* it is not written.
Step(q, l) ==
  /\ Goto(q, l) /\ l \in Labels
  /\ UNCHANGED <<file, good>>
  /\ stale' \in [Procs -> SUBSET {"stat", "contents", "inode"}]
  /\ \A p \in Procs \ {q} : stale'[p] = stale[p]

\* A step that gives up.
LEMMA StopStep ==
  ASSUME IInv, DocsInv, NEW q \in Procs, NEW l \in {"stopped", "killed", "failed", "unchanged", "wired", "invalid"},
         Step(q, l), Forget(q), UNCHANGED <<stamped, backups>>
  PROVE  DocsInv'
<1>1. LocalsOK' /\ Frame(q) /\ pc'[q] = l /\ chosen'[q] = {}
  BY Forgets, Moves DEF Step, Frame, DocsInv, IInv, Types
<1>2. Holds(q)'
  BY <1>1 DEF Holds, FixHolds, WireHolds
<1>3. Seen(q)
  BY DEF Step, Seen
<1>4. \A p \in Procs : Holds(p)'
  BY <1>1, <1>2, <1>3, OthersHold DEF DocsInv
<1> QED BY <1>1, <1>4 DEF DocsInv, Step, FileOK, StampsOK

\* A step that changes at most what q holds.
LEMMA HeldStep ==
  ASSUME IInv, DocsInv, NEW q \in Procs, NEW l, Step(q, l), UNCHANGED stamped,
         backups' \subseteq Docs, LocalsOK',
         \A p \in Procs \ {q} : /\ seen'[p] = seen[p] /\ work'[p] = work[p]
                                /\ chosen'[p] = chosen[p] /\ flags'[p] = flags[p],
         pc'[q] = l => Holds(q)'
  PROVE  DocsInv'
<1>1. Frame(q) /\ pc'[q] = l
  BY Moves DEF Step, Frame, IInv, Types
<1>2. Seen(q)
  BY DEF Step, Seen
<1>3. \A p \in Procs : Holds(p)'
  BY <1>1, <1>2, OthersHold DEF DocsInv
<1> QED BY <1>3 DEF DocsInv, Step, FileOK, StampsOK

\* A step that writes the file.
LEMMA WrittenStep ==
  ASSUME IInv, DocsInv, NEW q \in Procs, NEW l \in Labels, Goto(q, l),
         NEW x, Content(x), x.doc \in Docs, x.state # "missing",
         NEW b \in BOOLEAN, Becomes(x, q, b),
         UNCHANGED <<stamped, backups>>, LocalsOK',
         \A p \in Procs \ {q} : /\ seen'[p] = seen[p] /\ work'[p] = work[p]
                                /\ chosen'[p] = chosen[p] /\ flags'[p] = flags[p],
         pc'[q] = l => Holds(q)'
  PROVE  DocsInv'
<1>1. Frame(q) /\ pc'[q] = l
  BY Moves DEF Frame, IInv, Types
<1>2. /\ file' = x /\ good' \in Docs
      /\ \A p \in Procs \ {q} : pc[p] \in Done \/ "contents" \in stale'[p]
  <2>1. /\ file' = x /\ (x.state = "good" => good' = x.doc)
        /\ \A p \in Procs \ {q} : pc[p] \notin Done => "contents" \in stale'[p]
    BY BecomesStep, States DEF IInv
  <2>2. x.state # "good" => good' = good
    BY BecomesStep DEF IInv
  <2> QED BY <2>1, <2>2 DEF DocsInv, FileOK
<1>3. Seen(q)
  BY <1>2 DEF Seen
<1>4. \A p \in Procs : Holds(p)'
  BY <1>1, <1>3, OthersHold DEF DocsInv
<1> QED BY <1>2, <1>4 DEF DocsInv, FileOK, StampsOK

-----------------------------------------------------------------------------
LEMMA DocsInitially == Init => DocsInv
<1> SUFFICES ASSUME Init PROVE DocsInv
  OBVIOUS
<1>1. PICK x \in {Text(d) : d \in InitDocs} \cup {Absent} : file = x
  BY DEF Init
<1>2. FileOK
  <2>1. CASE file = Absent
    BY <2>1, EmptyDocs DEF Init, FileOK, Absent
  <2>2. ASSUME NEW d \in InitDocs, file = Text(d) PROVE FileOK
    <3>1. file.state \in {"good", "torn"} /\ file.doc = d /\ d \in Docs
      BY <2>2, States
    <3>2. good \in Docs
      BY <3>1, EmptyDocs DEF Init
    <3> QED BY <3>1, <3>2 DEF FileOK
  <2> QED BY <1>1, <2>1, <2>2
<1>3. StampsOK
  BY DEF Init, StampsOK
<1>4. LocalsOK
  BY EmptyDocs DEF Init, LocalsOK
<1>5. \A p \in Procs : pc[p] = "start" /\ chosen[p] = {}
  BY DEF Init
<1>6. \A p \in Procs : Holds(p)
  BY <1>5 DEF Holds, FixHolds, WireHolds
<1>7. backups = {}
  BY DEF Init
<1> QED BY <1>2, <1>3, <1>4, <1>6, <1>7 DEF DocsInv

LEMMA DocsStart == ASSUME IInv, DocsInv, NEW q \in Procs, Start(q) PROVE DocsInv'
<1>1. PICK l \in {"plan", "read", "preflight"} : /\ Goto(q, l)
        /\ \E f \in Asks : flags' = [flags EXCEPT ![q] = f]
  <2>1. CASE Goto(q, "plan") /\ flags' = [flags EXCEPT ![q] = NoFlags]
    BY <2>1, EmptyDocs
  <2>2. ASSUME NEW request \in Requests, NEW force \in BOOLEAN,
               Goto(q, IF force \/ request.unwire THEN "read" ELSE "preflight"),
               flags' = [flags EXCEPT ![q] = request]
        PROVE  \E l \in {"plan", "read", "preflight"} : /\ Goto(q, l)
                 /\ \E f \in Asks : flags' = [flags EXCEPT ![q] = f]
    <3>1. request \in Asks
      BY DEF Asks
    <3> DEFINE l == IF force \/ request.unwire THEN "read" ELSE "preflight"
    <3>2. l \in {"plan", "read", "preflight"} /\ Goto(q, l)
      BY <2>2
    <3> QED BY <2>2, <3>1, <3>2
  <2> QED BY <2>1, <2>2 DEF Start
<1>2. l \in Labels
  BY DEF Labels
<1>3. Step(q, l)
  BY <1>1, <1>2 DEF Start, Step, shared, IInv, Types
<1>4. LocalsOK' /\ chosen'[q] = {}
  <2>1. PICK f \in Asks : flags' = [flags EXCEPT ![q] = f]
    BY <1>1
  <2>2. flags' \in [Procs -> Asks]
    BY <2>1 DEF LocalsOK, DocsInv
  <2>3. /\ seen' = [seen EXCEPT ![q] = EmptyDoc] /\ work' = [work EXCEPT ![q] = EmptyDoc]
        /\ chosen' = [chosen EXCEPT ![q] = {}]
    BY DEF Start
  <2> QED BY <2>2, <2>3, EmptyDocs DEF LocalsOK, DocsInv
<1>5. \A p \in Procs \ {q} : /\ seen'[p] = seen[p] /\ work'[p] = work[p]
                             /\ chosen'[p] = chosen[p] /\ flags'[p] = flags[p]
  BY <1>1 DEF Start, LocalsOK, DocsInv
<1>6. pc'[q] = l => Holds(q)'
  BY <1>4 DEF Holds, FixHolds, WireHolds
<1>7. UNCHANGED <<stamped, backups>>
  BY DEF Start, stores
<1> QED BY <1>3, <1>4, <1>5, <1>6, <1>7, HeldStep DEF DocsInv

LEMMA DocsKill == ASSUME IInv, DocsInv, NEW q \in Procs, Kill(q) PROVE DocsInv'
<1>1. Step(q, "killed") /\ Forget(q) /\ UNCHANGED <<stamped, backups>>
  BY DEF Kill, Step, Untouched, shared, stores, IInv, Types, Labels, Idle
<1> QED BY <1>1, StopStep

LEMMA DocsStop ==
  ASSUME IInv, DocsInv, NEW q \in Procs, Stop(q), UNCHANGED <<file, good, stale, stamped, backups>>
  PROVE  DocsInv'
<1>1. Step(q, "stopped") /\ Forget(q)
  BY DEF Stop, Step, IInv, Types, Labels, Idle, Done
<1> QED BY <1>1, StopStep

-----------------------------------------------------------------------------
(* The steps of a fix.                                                     *)

LEMMA DocsPlan == ASSUME IInv, DocsInv, NEW q \in Procs, PlanRead(q) PROVE DocsInv'
<1>1. /\ pc[q] = "plan" /\ UNCHANGED <<file, good, stale, stamped, backups>>
  BY DEF PlanRead, Untouched, shared, stores
<1>2. CASE Stop(q)
  BY <1>1, <1>2, DocsStop
<1>3. CASE /\ seen' = [seen EXCEPT ![q] = file.doc] /\ Goto(q, "fingerprint")
           /\ UNCHANGED <<work, chosen, flags, saved>>
  <2>1. Step(q, "fingerprint")
    BY <1>1, <1>3 DEF Step, Labels, IInv, Types
  <2>2. LocalsOK'
    BY <1>3 DEF LocalsOK, DocsInv, FileOK
  <2>3. chosen'[q] = {}
    BY <1>1, <1>3 DEF DocsInv, Holds, FixHolds
  <2>4. pc'[q] = "fingerprint" => Holds(q)'
    BY <2>3 DEF Holds, FixHolds, WireHolds
  <2>5. \A p \in Procs \ {q} : /\ seen'[p] = seen[p] /\ work'[p] = work[p]
                               /\ chosen'[p] = chosen[p] /\ flags'[p] = flags[p]
    BY <1>3 DEF LocalsOK, DocsInv
  <2> QED BY <1>1, <2>1, <2>2, <2>4, <2>5, HeldStep DEF DocsInv
<1> QED BY <1>2, <1>3 DEF PlanRead

LEMMA DocsFingerprint == ASSUME IInv, DocsInv, NEW q \in Procs, Fingerprint(q) PROVE DocsInv'
<1>1. /\ UNCHANGED <<file, good, stamped, backups, seen, work, chosen, flags>>
      /\ Goto(q, "ask") /\ stale' = [stale EXCEPT ![q] = @ \ {"stat"}]
  BY DEF Fingerprint, Refresh, shared, stores, locals
<1>2. Step(q, "ask")
  BY <1>1 DEF Step, Labels, IInv, Types
<1>3. LocalsOK'
  BY <1>1 DEF LocalsOK, DocsInv
<1>4. pc'[q] = "ask" => Holds(q)'
  BY <1>1 DEF DocsInv, Holds, FixHolds, WireHolds
<1> QED BY <1>1, <1>2, <1>3, <1>4, HeldStep DEF DocsInv

LEMMA DocsConfirm == ASSUME IInv, DocsInv, NEW q \in Procs, Confirm(q) PROVE DocsInv'
<1>1. UNCHANGED <<file, good, stale, stamped, backups>>
  BY DEF Confirm, Untouched, shared, stores
<1>2. PICK accepted \in SUBSET Removable(seen[q]) :
        IF accepted = {}
         THEN Stop(q)
         ELSE /\ chosen' = [chosen EXCEPT ![q] = accepted]
              /\ Goto(q, "stat")
              /\ UNCHANGED <<seen, work, flags, saved>>
  BY DEF Confirm
<1>3. CASE Stop(q)
  BY <1>1, <1>3, DocsStop
<1>4. CASE /\ chosen' = [chosen EXCEPT ![q] = accepted] /\ Goto(q, "stat")
           /\ UNCHANGED <<seen, work, flags, saved>>
  <2>1. Step(q, "stat")
    BY <1>1, <1>4 DEF Step, Labels, IInv, Types
  <2>2. LocalsOK' /\ chosen'[q] = accepted
    BY <1>4 DEF LocalsOK, DocsInv
  <2>3. pc'[q] = "stat" => Holds(q)'
    BY <1>4, <2>2 DEF Holds, FixHolds, WireHolds
  <2>4. \A p \in Procs \ {q} : /\ seen'[p] = seen[p] /\ work'[p] = work[p]
                               /\ chosen'[p] = chosen[p] /\ flags'[p] = flags[p]
    BY <1>4 DEF LocalsOK, DocsInv
  <2> QED BY <1>1, <2>1, <2>2, <2>3, <2>4, HeldStep DEF DocsInv
<1> QED BY <1>2, <1>3, <1>4

LEMMA DocsCheckStat == ASSUME IInv, DocsInv, NEW q \in Procs, CheckStat(q) PROVE DocsInv'
<1>1. UNCHANGED <<file, good, stale, stamped, backups>>
  BY DEF CheckStat, Untouched, shared, stores
<1>2. CASE Stop(q)
  BY <1>1, <1>2, DocsStop
<1>3. CASE Goto(q, "verify") /\ UNCHANGED <<seen, work, chosen, flags>>
  <2>1. Step(q, "verify")
    BY <1>1, <1>3 DEF Step, Labels, IInv, Types
  <2>2. LocalsOK'
    BY <1>3 DEF LocalsOK, DocsInv
  <2>3. pc'[q] = "verify" => Holds(q)'
    BY <1>3 DEF DocsInv, Holds, FixHolds, WireHolds
  <2> QED BY <1>1, <1>3, <2>1, <2>2, <2>3, HeldStep DEF DocsInv
<1> QED BY <1>2, <1>3 DEF CheckStat, locals

LEMMA DocsVerify == ASSUME IInv, DocsInv, NEW q \in Procs, Verify(q) PROVE DocsInv'
<1>1. UNCHANGED <<file, good, stamped, backups>>
  BY DEF Verify, shared, stores
<1>2. CASE Stop(q) /\ UNCHANGED stale
  BY <1>1, <1>2, DocsStop
<1>3. CASE /\ file = Text(seen[q]) /\ work' = [work EXCEPT ![q] = file.doc]
           /\ Refresh(q, "contents") /\ Goto(q, "backup")
           /\ UNCHANGED <<seen, chosen, flags, saved>>
  <2>1. Step(q, "backup")
    BY <1>1, <1>3 DEF Step, Labels, IInv, Types, Refresh
  <2>2. LocalsOK' /\ work'[q] = seen[q]
    BY <1>3, States DEF LocalsOK, DocsInv, FileOK
  <2>3. pc'[q] = "backup" => Holds(q)'
    BY <1>1, <1>3, <2>2 DEF DocsInv, Holds, FixHolds, WireHolds
  <2>4. \A p \in Procs \ {q} : /\ seen'[p] = seen[p] /\ work'[p] = work[p]
                               /\ chosen'[p] = chosen[p] /\ flags'[p] = flags[p]
    BY <1>3 DEF LocalsOK, DocsInv
  <2> QED BY <1>1, <2>1, <2>2, <2>3, <2>4, HeldStep DEF DocsInv
<1> QED BY <1>2, <1>3 DEF Verify

LEMMA DocsBackup == ASSUME IInv, DocsInv, NEW q \in Procs, WriteBackup(q) PROVE DocsInv'
<1>1. pc[q] = "backup" /\ UNCHANGED <<file, good, stale, stamped>>
  BY DEF WriteBackup, Untouched, shared
<1>2. CASE Stop(q) /\ UNCHANGED backups
  BY <1>1, <1>2, DocsStop
<1>3. CASE /\ backups' = backups \cup {work[q]} /\ Goto(q, "rename")
           /\ UNCHANGED <<seen, work, chosen, flags>>
  <2>1. Step(q, "rename")
    BY <1>1, <1>3 DEF Step, Labels, IInv, Types
  <2>2. LocalsOK' /\ backups' \subseteq Docs
    BY <1>3 DEF LocalsOK, DocsInv
  <2>3. pc'[q] = "rename" => Holds(q)'
    BY <1>1, <1>3 DEF DocsInv, Holds, FixHolds, WireHolds
  <2> QED BY <1>1, <1>3, <2>1, <2>2, <2>3, HeldStep
<1> QED BY <1>2, <1>3 DEF WriteBackup, locals

\* The text of a document that is not torn is the last one that was JSON.
LEMMA TextIsGood ==
  ASSUME IInv, NEW d, file = Text(d), d.form # "torn"
  PROVE  good = d /\ file.doc = d /\ file.state = "good"
<1>1. file = Good(d) /\ file.state = "good"
  BY States
<1>2. file = Good(good)
  BY <1>1 DEF IInv, Types
<1>3. Good(good).doc = good /\ Good(d).doc = d
  BY States
<1> QED BY <1>1, <1>2, <1>3

\* What a fix that nobody overtook replaces, and by what.
LEMMA RenameWrites ==
  ASSUME IInv, DocsInv, NEW q \in Procs, pc[q] = "rename"
  PROVE  /\ work[q] = seen[q] /\ seen[q] \in Docs /\ chosen[q] \in SUBSET Removable(seen[q])
         /\ chosen[q] \in SUBSET Sites(seen[q])
         /\ SpliceParses(work[q], chosen[q]) /\ Splice(work[q], chosen[q]) \in Docs
         /\ "contents" \notin stale[q] /\ seen[q].form # "torn" => good = seen[q]
<1>1. /\ work[q] = seen[q] /\ seen[q] \in Docs /\ chosen[q] \in SUBSET Removable(seen[q])
      /\ "contents" \notin stale[q] => file = Text(seen[q])
  BY DEF DocsInv, Holds, FixHolds, LocalsOK
<1>2. chosen[q] \in SUBSET Sites(seen[q])
  BY <1>1 DEF Removable
<1>3. SpliceParses(work[q], chosen[q]) /\ Splice(work[q], chosen[q]) \in Docs
  BY <1>1, <1>2, SpliceParts
<1>4. file = Text(seen[q]) /\ seen[q].form # "torn" => good = seen[q]
  BY TextIsGood
<1> QED BY <1>1, <1>2, <1>3, <1>4

LEMMA DocsRename == ASSUME IInv, DocsInv, NEW q \in Procs, Rename(q) PROVE DocsInv'
<1>1. pc[q] = "rename" /\ UNCHANGED <<stamped, backups>>
  BY DEF Rename, stores
<1>2. CASE Stop(q) /\ Untouched
  BY <1>1, <1>2, DocsStop DEF Untouched, shared
<1>3. CASE /\ Becomes(Text(Splice(work[q], chosen[q])), q, TRUE)
           /\ Goto(q, "scan") /\ UNCHANGED <<seen, work, chosen, flags>>
  <2> DEFINE x == Text(Splice(work[q], chosen[q]))
  <2>1. x.doc \in Docs /\ x.state # "missing" /\ Content(x) /\ work[q] = seen[q]
    BY <1>1, RenameWrites, States, Contents
  <2>2. file' = x /\ stale'[q] = stale[q] \ {"inode"}
    <3> HIDE DEF x
    <3> QED BY <1>3, <2>1, BecomesStep DEF IInv, x
  <2>3. LocalsOK' /\ "scan" \in Labels
    BY <1>3 DEF LocalsOK, DocsInv, Labels
  <2>4. pc'[q] = "scan" => Holds(q)'
    <3>1. file' = Text(Splice(seen'[q], chosen'[q])) /\ work'[q] = seen'[q]
      BY <1>3, <2>1, <2>2
    <3> QED BY <1>1, <1>3, <3>1 DEF DocsInv, Holds, FixHolds, WireHolds
  <2> HIDE DEF x
  <2>5. Becomes(x, q, TRUE)
    BY <1>3 DEF x
  <2> QED BY <1>1, <1>3, <2>1, <2>3, <2>4, <2>5, WrittenStep
<1> QED BY <1>1, <1>2, <1>3, RenameWrites DEF Rename, locals

LEMMA DocsGateScan == ASSUME IInv, DocsInv, NEW q \in Procs, GateScan(q) PROVE DocsInv'
<1>1. /\ pc[q] = "scan" /\ UNCHANGED <<file, good, stale, stamped, backups>>
      /\ UNCHANGED <<seen, work, chosen, flags>>
  BY DEF GateScan, Untouched, shared, stores, locals
<1>2. PICK l \in {"restore", "count"} : Goto(q, l) /\ (l = "count" <=> Scans(file))
  BY DEF GateScan
<1>3. Step(q, l)
  BY <1>1, <1>2 DEF Step, Labels, IInv, Types
<1>4. LocalsOK'
  BY <1>1 DEF LocalsOK, DocsInv
<1>5. "contents" \notin stale[q] =>
         /\ file = Text(Splice(seen[q], chosen[q]))
         /\ Scans(file) <=> seen[q].form = "sound"
  <2>1. "contents" \notin stale[q] => file = Text(Splice(seen[q], chosen[q]))
    BY <1>1 DEF DocsInv, Holds, FixHolds
  <2>2. Splice(seen[q], chosen[q]).form = seen[q].form
    <3>1. seen[q] \in Docs /\ chosen[q] \in SUBSET Sites(seen[q])
      BY DEF DocsInv, Holds, FixHolds, LocalsOK, Removable
    <3> QED BY <3>1, SpliceParts
  <2> QED BY <2>1, <2>2, States DEF Scans
<1>6. pc'[q] = l => Holds(q)'
  BY <1>1, <1>2, <1>5 DEF DocsInv, Holds, FixHolds, WireHolds
<1> QED BY <1>1, <1>3, <1>4, <1>6, HeldStep DEF DocsInv

\* The fix of a sound document passes its own gate.
LEMMA GatePasses ==
  ASSUME NEW old \in Docs, NEW remove \in SUBSET Removable(old)
  PROVE  /\ EntryCount(Splice(old, remove)) + Cardinality(remove) = EntryCount(old)
         /\ LiveEvents(old) \subseteq LiveEvents(Splice(old, remove))
         /\ Keys(Splice(old, remove)) = Keys(old)
         /\ Cardinality(Removable(Splice(old, remove))) + Cardinality(remove)
              = Cardinality(Removable(old))
         /\ \A x \in Findings(<<Splice(old, remove)>>) :
              \E y \in Findings(<<old>>) : x.code = y.code /\ x.on = y.on
<1> DEFINE new == Splice(old, remove)
<1>1. remove \in SUBSET Sites(old)
  BY DEF Removable
<1>2. new \in Docs
  BY <1>1, SpliceParts
<1>3. PICK f : Copies(f, new, old, Sites(old) \ remove)
  BY <1>1, SpliceCopies
<1> HIDE DEF new
<1>4. Keys(new) = Keys(old)
  BY <1>2, <1>3, CopiedKeys
<1>5. LiveEvents(old) \subseteq LiveEvents(new)
  BY <1>4, KeysGiveEvents
<1>6. /\ EntryCount(new) + Cardinality(remove) = EntryCount(old)
      /\ Cardinality(Removable(new)) + Cardinality(remove) = Cardinality(Removable(old))
  BY <1>2, <1>3, CopiedCounts
<1>7. \A x \in Findings(<<new>>) : \E y \in Findings(<<old>>) : x.code = y.code /\ x.on = y.on
  <2>1. IsFiniteSet(Entries(<<old>>))
    BY <1>2, <1>3, CopiedEntries
  <2>2. PICK phi : Matches(phi, Entries(<<new>>), Entries(<<old>>))
    BY <1>2, <1>3, CopiedEntries
  <2> QED BY <2>1, <2>2, NothingNewFound
<1> QED BY <1>4, <1>5, <1>6, <1>7 DEF new

LEMMA DocsGateCount == ASSUME IInv, DocsInv, NEW q \in Procs, GateCount(q) PROVE DocsInv'
<1>1. /\ pc[q] = "count" /\ UNCHANGED <<file, good, stale, stamped, backups>>
      /\ UNCHANGED <<seen, work, chosen, flags>>
  BY DEF GateCount, Untouched, shared, stores, locals
<1>2. PICK l \in {"applied", "restore"} :
        /\ Goto(q, l)
        /\ l = "restore" =>
             ~ /\ Scans(file) /\ Scans(Text(work[q]))
               /\ EntryCount(file.doc) + Cardinality(chosen[q]) = EntryCount(work[q])
               /\ LiveEvents(work[q]) \subseteq LiveEvents(file.doc)
  BY DEF GateCount
<1>3. Step(q, l)
  BY <1>1, <1>2 DEF Step, Labels, Idle, IInv, Types
<1>4. LocalsOK'
  BY <1>1 DEF LocalsOK, DocsInv
<1>5. /\ work[q] = seen[q] /\ seen[q] \in Docs /\ chosen[q] \in SUBSET Removable(seen[q])
      /\ "contents" \notin stale[q] =>
           file = Text(Splice(seen[q], chosen[q])) /\ seen[q].form = "sound"
  BY <1>1 DEF DocsInv, Holds, FixHolds, LocalsOK
<1>6. l = "restore" => "contents" \in stale[q]
  <2> SUFFICES ASSUME l = "restore", "contents" \notin stale[q] PROVE FALSE
    OBVIOUS
  <2> DEFINE new == Splice(seen[q], chosen[q])
  <2>1. new.form = "sound"
    <3>1. chosen[q] \in SUBSET Sites(seen[q])
      BY <1>5 DEF Removable
    <3> QED BY <1>5, <3>1, SpliceParts
  <2>2. /\ EntryCount(new) + Cardinality(chosen[q]) = EntryCount(work[q])
        /\ LiveEvents(work[q]) \subseteq LiveEvents(new)
    BY <1>5, GatePasses
  <2> HIDE DEF new
  <2>3. file = Text(new)
    BY <1>5 DEF new
  <2>4. Scans(file) /\ file.doc = new /\ Scans(Text(work[q]))
    BY <1>5, <2>1, <2>3, States DEF Scans
  <2> QED BY <1>2, <2>2, <2>4
<1>7. pc'[q] = l => Holds(q)'
  BY <1>1, <1>2, <1>5, <1>6 DEF DocsInv, Holds, FixHolds, WireHolds
<1> QED BY <1>1, <1>3, <1>4, <1>7, HeldStep DEF DocsInv

LEMMA DocsRestore == ASSUME IInv, DocsInv, NEW q \in Procs, Restore(q) PROVE DocsInv'
<1>1. /\ pc[q] = "restore" /\ "restored" \in Labels /\ "unrestored" \in Labels
      /\ UNCHANGED <<stamped, backups, seen, work, chosen, flags>>
  BY DEF Restore, stores, locals, Labels, Idle
<1>2. work[q] = seen[q] /\ ("contents" \notin stale[q] => seen[q].form # "sound")
  BY <1>1 DEF DocsInv, Holds, FixHolds
<1>3. LocalsOK'
  BY <1>1 DEF LocalsOK, DocsInv
<1>4. CASE Untouched /\ Goto(q, "unrestored")
  <2>1. Step(q, "unrestored") /\ UNCHANGED <<file, good, stale>>
    BY <1>1, <1>4 DEF Step, Untouched, shared, IInv, Types
  <2>2. pc'[q] = "unrestored" => Holds(q)'
    BY <1>1, <1>2, <2>1 DEF DocsInv, Holds, FixHolds, WireHolds
  <2> QED BY <1>1, <1>3, <2>1, <2>2, HeldStep DEF DocsInv
<1>5. CASE Becomes(Text(work[q]), q, TRUE) /\ Goto(q, "restored")
  <2> DEFINE x == Text(work[q])
  <2>1. Content(x) /\ x.doc \in Docs /\ x.state # "missing"
    BY States, Contents DEF DocsInv, LocalsOK
  <2> HIDE DEF x
  <2>2. Becomes(x, q, TRUE)
    BY <1>5 DEF x
  <2>3. file' = x /\ stale'[q] = stale[q] \ {"inode"}
    BY <2>1, <2>2, BecomesStep DEF IInv
  <2>4. x = Text(seen[q])
    BY <1>2 DEF x
  <2>5. pc'[q] = "restored" => Holds(q)'
    BY <1>1, <1>2, <2>3, <2>4 DEF DocsInv, Holds, FixHolds, WireHolds
  <2> QED BY <1>1, <1>3, <1>5, <2>1, <2>2, <2>5, WrittenStep
<1> QED BY <1>4, <1>5 DEF Restore

-----------------------------------------------------------------------------
(* The steps of a wire.                                                    *)

LEMMA DocsPreflight == ASSUME IInv, DocsInv, NEW q \in Procs, Preflight(q) PROVE DocsInv'
<1>1. pc[q] = "preflight" /\ UNCHANGED <<file, good, stale, stamped, backups>>
  BY DEF Preflight, Untouched, shared, stores
<1>2. CASE Stop(q)
  BY <1>1, <1>2, DocsStop
<1>3. CASE Goto(q, "read") /\ UNCHANGED <<seen, work, chosen, flags>>
  <2>1. Step(q, "read")
    BY <1>1, <1>3 DEF Step, Labels, IInv, Types
  <2>2. LocalsOK'
    BY <1>3 DEF LocalsOK, DocsInv
  <2>3. pc'[q] = "read" => Holds(q)'
    BY <1>1, <1>3 DEF DocsInv, Holds, FixHolds, WireHolds
  <2> QED BY <1>1, <1>3, <2>1, <2>2, <2>3, HeldStep DEF DocsInv
<1> QED BY <1>2, <1>3 DEF Preflight, locals

LEMMA DocsReadOld == ASSUME IInv, DocsInv, NEW q \in Procs, ReadOld(q) PROVE DocsInv'
<1>1. pc[q] = "read" /\ UNCHANGED <<file, good, stale, stamped, backups>>
  BY DEF ReadOld, Untouched, shared, stores
<1>2. CASE Stop(q)
  BY <1>1, <1>2, DocsStop
<1>3. CASE /\ seen' = [seen EXCEPT ![q] = file.doc] /\ Goto(q, "reread")
           /\ UNCHANGED <<work, chosen, flags, saved>>
  <2>1. Step(q, "reread")
    BY <1>1, <1>3 DEF Step, Labels, IInv, Types
  <2>2. LocalsOK'
    BY <1>3 DEF LocalsOK, DocsInv, FileOK
  <2>3. chosen'[q] = {}
    BY <1>1, <1>3 DEF DocsInv, Holds, FixHolds
  <2>4. pc'[q] = "reread" => Holds(q)'
    BY <2>3 DEF Holds, FixHolds, WireHolds
  <2>5. \A p \in Procs \ {q} : /\ seen'[p] = seen[p] /\ work'[p] = work[p]
                               /\ chosen'[p] = chosen[p] /\ flags'[p] = flags[p]
    BY <1>3 DEF LocalsOK, DocsInv
  <2> QED BY <1>1, <2>1, <2>2, <2>4, <2>5, HeldStep DEF DocsInv
<1> QED BY <1>2, <1>3 DEF ReadOld

\* What a wire reads is the last document that parsed, or none.
LEMMA ChangedIsAsked ==
  ASSUME IInv, DocsInv, NEW q \in Procs, ~NoJSON(file)
  PROVE  Changed(q) = Asked(q, good) /\ Changed(q) \in Docs
<1>1. (IF file = Absent THEN EmptyDoc ELSE file.doc) = good
  <2>1. CASE file = Absent
    BY <2>1, States DEF DocsInv, FileOK
  <2>2. CASE file # Absent
    <3>1. file.state = "good"
      BY <2>2, BadJSON DEF IInv, Types
    <3>2. file = Good(good)
      BY <3>1 DEF IInv, Types
    <3>3. file.doc = good
      BY <3>2, States
    <3> QED BY <2>2, <3>3
  <2> QED BY <2>1, <2>2
<1>2. Changed(q) = Asked(q, good)
  BY <1>1 DEF Changed, Asked
<1>3. good \in Docs /\ flags[q] \in Asks
  BY DEF DocsInv, FileOK, LocalsOK
<1> QED BY <1>2, <1>3, AskedDocs

LEMMA DocsReadNew == ASSUME IInv, DocsInv, NEW q \in Procs, ReadNew(q) PROVE DocsInv'
<1>1. pc[q] = "reread" /\ UNCHANGED <<file, good, stamped, backups>>
  BY DEF ReadNew, shared, stores
<1>2. CASE Stop(q) /\ UNCHANGED stale
  BY <1>1, <1>2, DocsStop
<1>3. CASE Goto(q, "unchanged") /\ Forget(q) /\ UNCHANGED stale
  <2>1. Step(q, "unchanged")
    BY <1>1, <1>3 DEF Step, Labels, Idle, Done, IInv, Types
  <2> QED BY <1>1, <1>3, <2>1, StopStep
<1>4. CASE /\ ~NoJSON(file)
           /\ work' = [work EXCEPT ![q] = Changed(q)] /\ Refresh(q, "contents")
           /\ Goto(q, "save") /\ UNCHANGED <<seen, chosen, flags, saved>>
  <2>1. Step(q, "save")
    BY <1>1, <1>4 DEF Step, Labels, Refresh, IInv, Types
  <2>2. Changed(q) = Asked(q, good) /\ Changed(q) \in Docs
    BY <1>4, ChangedIsAsked
  <2>3. LocalsOK' /\ work'[q] = Asked(q, good)
    BY <1>4, <2>2 DEF LocalsOK, DocsInv
  <2>4. Asked(q, good)' = Asked(q, good)
    BY <1>1, <1>4 DEF Asked
  <2>5. pc'[q] = "save" => Holds(q)'
    BY <1>1, <1>4, <2>3, <2>4 DEF DocsInv, Holds, FixHolds, WireHolds
  <2>6. \A p \in Procs \ {q} : /\ seen'[p] = seen[p] /\ work'[p] = work[p]
                               /\ chosen'[p] = chosen[p] /\ flags'[p] = flags[p]
    BY <1>4 DEF LocalsOK, DocsInv
  <2> QED BY <1>1, <2>1, <2>3, <2>5, <2>6, HeldStep DEF DocsInv
<1> QED BY <1>2, <1>3, <1>4 DEF ReadNew

LEMMA DocsSave == ASSUME IInv, DocsInv, NEW q \in Procs, SaveStamped(q) PROVE DocsInv'
<1>1. pc[q] = "save" /\ UNCHANGED <<file, good, stale, backups>>
  BY DEF SaveStamped, Untouched, shared
<1>2. CASE Stop(q) /\ UNCHANGED stamped
  BY <1>1, <1>2, DocsStop
<1>3. ASSUME Goto(q, "truncate"), UNCHANGED <<seen, work, chosen, flags>>
      PROVE  LocalsOK' /\ \A p \in Procs : Holds(p)'
  <2>1. Step(q, "truncate")
    BY <1>1, <1>3 DEF Step, Labels, IInv, Types
  <2>2. LocalsOK'
    BY <1>3 DEF LocalsOK, DocsInv
  <2>3. Frame(q) /\ pc'[q] = "truncate" /\ Seen(q)
    BY <1>3, <2>1, Moves DEF Step, Frame, Seen, IInv, Types
  <2>4. Asked(q, good)' = Asked(q, good)
    BY <1>1, <1>3 DEF Asked
  <2>5. Holds(q)'
    BY <1>1, <1>3, <2>3, <2>4 DEF DocsInv, Holds, FixHolds, WireHolds
  <2> QED BY <2>2, <2>3, <2>5, OthersHold DEF DocsInv
<1>4. CASE /\ Goto(q, "truncate") /\ UNCHANGED <<seen, work, chosen, flags>>
           /\ UNCHANGED stamped
  BY <1>1, <1>3, <1>4 DEF DocsInv, FileOK, StampsOK
<1>5. CASE /\ Goto(q, "truncate") /\ UNCHANGED <<seen, work, chosen, flags>>
           /\ file # Absent /\ stamped' = [stamped EXCEPT ![clock] = {file}]
  <2>1. file.doc \in Docs /\ file.state # "missing"
    BY <1>5, States DEF DocsInv, FileOK, IInv, Types, Content
  <2>2. ASSUME NEW t \in 0..MaxClock
        PROVE  /\ \A x \in stamped'[t] : x.doc \in Docs /\ x.state # "missing"
               /\ \A x, y \in stamped'[t] : x = y
    <3>1. t = clock => stamped'[t] = {file}
      BY <1>5 DEF IInv, Types
    <3>2. t # clock => stamped'[t] = stamped[t]
      BY <1>5 DEF IInv, Types
    <3> QED BY <2>1, <3>1, <3>2 DEF DocsInv, StampsOK
  <2>3. StampsOK'
    BY <2>2 DEF StampsOK
  <2> QED BY <1>1, <1>3, <1>5, <2>3 DEF DocsInv, FileOK
<1> QED BY <1>2, <1>4, <1>5 DEF SaveStamped

LEMMA DocsTruncate == ASSUME IInv, DocsInv, NEW q \in Procs, Truncate(q) PROVE DocsInv'
<1>1. /\ pc[q] = "truncate" /\ Becomes(Broken, q, FALSE) /\ Goto(q, "write")
      /\ UNCHANGED <<stamped, backups, seen, work, chosen, flags>> /\ "write" \in Labels
  BY DEF Truncate, stores, locals, Labels
<1>2. Content(Broken) /\ Broken.doc \in Docs /\ Broken.state = "broken"
  BY EmptyDocs, States DEF Content, Broken
<1>3. LocalsOK'
  BY <1>1 DEF LocalsOK, DocsInv
<1>4. good' = good /\ stale'[q] = stale[q] \ {"inode"}
  BY <1>1, <1>2, BecomesStep DEF IInv
<1>5. Asked(q, good)' = Asked(q, good)
  BY <1>1, <1>4 DEF Asked
<1>6. pc'[q] = "write" => Holds(q)'
  BY <1>1, <1>4, <1>5 DEF DocsInv, Holds, FixHolds, WireHolds
<1> QED BY <1>1, <1>2, <1>3, <1>6, WrittenStep

LEMMA DocsWrite == ASSUME IInv, DocsInv, NEW q \in Procs, Write(q) PROVE DocsInv'
<1>1. pc[q] = "write" /\ UNCHANGED <<stamped, backups>>
  BY DEF Write, stores
<1>2. "validate" \in Labels /\ "failed" \in Labels
  BY DEF Labels, Idle
<1>3. CASE Goto(q, "failed") /\ Forget(q) /\ Untouched
  <2>1. Step(q, "failed")
    BY <1>2, <1>3 DEF Step, Untouched, shared, IInv, Types
  <2> QED BY <1>1, <1>3, <2>1, StopStep
<1>4. ASSUME Goto(q, "validate"), UNCHANGED <<seen, work, chosen, flags>>
      PROVE  /\ LocalsOK'
             /\ pc'[q] = "validate" => Holds(q)'
  BY <1>4 DEF LocalsOK, DocsInv, Holds, FixHolds, WireHolds
<1>5. CASE Untouched /\ Goto(q, "validate") /\ UNCHANGED <<seen, work, chosen, flags>>
  <2>1. Step(q, "validate")
    BY <1>2, <1>5 DEF Step, Untouched, shared, IInv, Types
  <2> QED BY <1>1, <1>4, <1>5, <2>1, HeldStep DEF DocsInv
<1>6. CASE /\ Becomes(Good(work[q]), q, FALSE)
           /\ Goto(q, "validate") /\ UNCHANGED <<seen, work, chosen, flags>>
  <2> DEFINE x == Good(work[q])
  <2>1. Content(x) /\ x.doc \in Docs /\ x.state = "good"
    BY States, Contents DEF DocsInv, LocalsOK
  <2> HIDE DEF x
  <2>2. Becomes(x, q, FALSE)
    BY <1>6 DEF x
  <2> QED BY <1>1, <1>2, <1>4, <1>6, <2>1, <2>2, WrittenStep
<1>7. Content(Torn(work[q])) /\ Torn(work[q]).doc \in Docs /\ Torn(work[q]).state = "torn"
  <2>1. work[q] \in Docs
    BY DEF DocsInv, LocalsOK
  <2>2. [work[q] EXCEPT !.form = "torn"] \in Docs
    BY <2>1 DEF Docs
  <2> QED BY <2>2, States, Contents
<1>8. CASE /\ Becomes(Torn(work[q]), q, FALSE)
           /\ Goto(q, "validate") /\ UNCHANGED <<seen, work, chosen, flags>>
  <2> DEFINE x == Torn(work[q])
  <2> HIDE DEF x
  <2>1. Content(x) /\ x.doc \in Docs /\ x.state = "torn" /\ Becomes(x, q, FALSE)
    BY <1>7, <1>8 DEF x
  <2> QED BY <1>1, <1>2, <1>4, <1>8, <2>1, WrittenStep
<1>9. CASE Becomes(Torn(work[q]), q, FALSE) /\ Goto(q, "failed") /\ Forget(q)
  <2> DEFINE x == Torn(work[q])
  <2> HIDE DEF x
  <2>1. Content(x) /\ x.doc \in Docs /\ x.state = "torn" /\ Becomes(x, q, FALSE)
    BY <1>7, <1>9 DEF x
  <2>2. /\ LocalsOK' /\ chosen'[q] = {}
        /\ \A p \in Procs \ {q} : /\ seen'[p] = seen[p] /\ work'[p] = work[p]
                                  /\ chosen'[p] = chosen[p] /\ flags'[p] = flags[p]
    BY <1>9, Forgets DEF DocsInv
  <2>3. pc'[q] = "failed" => Holds(q)'
    BY <2>2 DEF Holds, FixHolds, WireHolds
  <2> QED BY <1>1, <1>2, <1>9, <2>1, <2>2, <2>3, WrittenStep
<1> QED BY <1>3, <1>5, <1>6, <1>8, <1>9 DEF Write, locals

LEMMA DocsValidate == ASSUME IInv, DocsInv, NEW q \in Procs, Validate(q) PROVE DocsInv'
<1>1. pc[q] = "validate" /\ UNCHANGED <<file, good, stale, stamped, backups>>
  BY DEF Validate, Untouched, shared, stores
<1>2. \A l \in {"wired", "invalid", "putback"} : Goto(q, l) => Step(q, l)
  BY <1>1 DEF Step, Labels, Idle, Done, IInv, Types
<1>3. CASE (Goto(q, "wired") \/ Goto(q, "invalid")) /\ Forget(q)
  BY <1>1, <1>2, <1>3, StopStep
<1>4. CASE Goto(q, "putback") /\ UNCHANGED <<seen, work, chosen, flags>>
  <2>1. LocalsOK'
    BY <1>4 DEF LocalsOK, DocsInv
  <2>2. pc'[q] = "putback" => Holds(q)'
    BY <1>4 DEF DocsInv, Holds, FixHolds, WireHolds
  <2> QED BY <1>1, <1>2, <1>4, <2>1, <2>2, HeldStep DEF DocsInv
<1> QED BY <1>3, <1>4 DEF Validate, locals

LEMMA DocsPutBack == ASSUME IInv, DocsInv, NEW q \in Procs, PutBack(q) PROVE DocsInv'
<1>1. /\ pc[q] = "putback" /\ Goto(q, "invalid") /\ Forget(q) /\ "invalid" \in Labels
      /\ UNCHANGED <<stamped, backups>>
  BY DEF PutBack, stores, Labels, Idle, Done
<1>2. PICK old \in stamped[saved[q]] : Becomes(old, q, FALSE)
  BY DEF PutBack
<1>3. saved[q] \in 0..MaxClock
  BY <1>1 DEF IInv, Types
<1>4. Content(old) /\ old.doc \in Docs /\ old.state # "missing"
  BY <1>2, <1>3 DEF IInv, Types, DocsInv, StampsOK
<1>5. /\ LocalsOK' /\ chosen'[q] = {}
      /\ \A p \in Procs \ {q} : /\ seen'[p] = seen[p] /\ work'[p] = work[p]
                                /\ chosen'[p] = chosen[p] /\ flags'[p] = flags[p]
  BY <1>1, Forgets DEF DocsInv
<1>6. pc'[q] = "invalid" => Holds(q)'
  BY <1>5 DEF Holds, FixHolds, WireHolds
<1> QED BY <1>1, <1>2, <1>4, <1>5, <1>6, WrittenStep

-----------------------------------------------------------------------------
\* Claude Code's edit.
Edited(doc, n, add) ==
  [doc EXCEPT !.rest = n, !.hooks["PreToolUse"] = IF add THEN Append(@, AddedGroup) ELSE @]

\* Claude Code's edit keeps every hook that is there.
LEMMA EditedDoc ==
  ASSUME NEW doc \in Docs, NEW n \in Nat, NEW add \in BOOLEAN
  PROVE  /\ Edited(doc, n, add) \in Docs
         /\ \A e \in Events : Edited(doc, n, add).hooks[e] =
              IF e = "PreToolUse" /\ add THEN Append(doc.hooks[e], AddedGroup) ELSE doc.hooks[e]
<1>1. doc \in [hooks : [Events -> Seq(Groups)], statusLine : {"none", "own", "other"}, rest : Nat,
              form : {"sound", "mistyped", "torn"}]
  BY DEF Docs
<1>2. "PreToolUse" \in Events
  BY HooksAssumption
<1> DEFINE groups == IF add THEN Append(doc.hooks["PreToolUse"], AddedGroup)
                            ELSE doc.hooks["PreToolUse"]
           H == [doc.hooks EXCEPT !["PreToolUse"] = groups]
<1>3. groups \in Seq(Groups)
  <2>1. doc.hooks["PreToolUse"] \in Seq(Groups) /\ AddedGroup \in Groups
    BY <1>2, DocParts
  <2> QED BY <2>1
<1>4. Edited(doc, n, add) = [hooks |-> H, statusLine |-> doc.statusLine, rest |-> n,
                              form |-> doc.form]
  <2>1. doc = [hooks |-> doc.hooks, statusLine |-> doc.statusLine, rest |-> doc.rest,
               form |-> doc.form]
    BY <1>1
  <2>2. Edited(doc, n, add) = [doc EXCEPT !.rest = n, !.hooks = H]
    BY <1>1, <1>2 DEF Edited
  <2> HIDE DEF H
  <2> QED BY <1>1, <2>2
<1> HIDE DEF groups
<1>5. H \in [Events -> Seq(Groups)]
  BY <1>1, <1>3
<1>6. \A e \in Events : H[e] = IF e = "PreToolUse" THEN groups ELSE doc.hooks[e]
  BY <1>1
<1> HIDE DEF H
<1>7. Edited(doc, n, add) \in Docs
  BY <1>1, <1>4, <1>5 DEF Docs
<1> QED BY <1>4, <1>6, <1>7 DEF groups

LEMMA DocsEdit == ASSUME IInv, DocsInv, Edit, edits \in Nat PROVE DocsInv'
<1>1. PICK add \in BOOLEAN : Becomes(Good(Edited(file.doc, edits + 1, add)), Nothing, TRUE)
  BY DEF Edit, Edited
<1> DEFINE d == Edited(file.doc, edits + 1, add)
<1>2. d \in Docs
  <2>1. file.doc \in Docs /\ edits + 1 \in Nat
    BY DEF DocsInv, FileOK
  <2> QED BY <2>1, EditedDoc
<1> HIDE DEF d
<1>3. /\ Becomes(Good(d), Nothing, TRUE) /\ Content(Good(d)) /\ Good(d).doc \in Docs
      /\ Good(d).state = "good"
  BY <1>1, <1>2, States, Contents DEF d
<1>4. UNCHANGED <<stamped, backups, pc, seen, work, chosen, flags>>
  BY DEF Edit, stores, locals
<1>5. /\ file' = Good(d) /\ good' = d
      /\ \A p \in Procs : pc[p] \in Done \/ "contents" \in stale'[p]
  <2>1. /\ file' = Good(d) /\ (file'.state = "good" => file' = Good(good'))
        /\ \A p \in Procs : p # Nothing /\ pc[p] \notin Done => "contents" \in stale'[p]
    BY <1>3, BecomesStep DEF IInv
  <2>2. Good(good').doc = good' /\ Good(d).doc = d
    BY States
  <2> QED BY <1>3, <2>1, <2>2
<1>6. Frame(Nothing) /\ Seen(Nothing)
  BY <1>4, <1>5 DEF Frame, Seen
<1>7. \A p \in Procs : Holds(p)'
  BY <1>6, OthersHold DEF DocsInv
<1>8. LocalsOK'
  BY <1>4 DEF LocalsOK, DocsInv
<1>9. FileOK'
  BY <1>2, <1>3, <1>5 DEF FileOK
<1> QED BY <1>4, <1>7, <1>8, <1>9 DEF DocsInv, StampsOK

LEMMA DocsInductive == IInv /\ DocsInv /\ edits \in Nat /\ [Next]_vars => DocsInv' /\ edits' \in Nat
<1> SUFFICES ASSUME IInv, DocsInv, edits \in Nat, [Next]_vars PROVE DocsInv' /\ edits' \in Nat
  OBVIOUS
<1>1. edits' \in Nat
  <2>1. CASE Edit
    BY <2>1 DEF Edit
  <2>2. CASE Tick \/ UNCHANGED vars
    BY <2>2 DEF Tick, vars
  <2>3. ASSUME NEW q \in Procs, Start(q) \/ Kill(q) PROVE edits' = edits
    BY <2>3 DEF Start, Kill
  <2>4. ASSUME NEW q \in Procs, Fix(q) PROVE edits' = edits
    BY <2>4 DEF Fix, PlanRead, Fingerprint, Confirm, CheckStat, Verify, WriteBackup, Rename,
                GateScan, GateCount, Restore
  <2>5. ASSUME NEW q \in Procs, WireOrUnwire(q) PROVE edits' = edits
    BY <2>5 DEF WireOrUnwire, Preflight, ReadOld, ReadNew, SaveStamped, Truncate, Write,
                Validate, PutBack
  <2> QED BY <2>1, <2>2, <2>3, <2>4, <2>5 DEF Next
<1>2. CASE Edit
  BY <1>1, <1>2, DocsEdit
<1>3. CASE Tick \/ UNCHANGED vars
  <2>1. UNCHANGED <<file, good, stamped, backups, pc, stale, seen, work, chosen, flags>>
    BY <1>3 DEF Tick, Untouched, shared, stores, locals, vars
  <2>2. \A p \in Procs : Holds(p)'
    BY <2>1 DEF DocsInv, Holds, FixHolds, WireHolds, Asked
  <2>3. FileOK' /\ StampsOK' /\ LocalsOK' /\ backups' \subseteq Docs
    BY <2>1 DEF DocsInv, FileOK, StampsOK, LocalsOK
  <2> QED BY <1>1, <2>2, <2>3 DEF DocsInv
<1>4. ASSUME NEW q \in Procs, Start(q) \/ Kill(q) PROVE DocsInv'
  BY <1>4, DocsStart, DocsKill
<1>5. ASSUME NEW q \in Procs, Fix(q) PROVE DocsInv'
  BY <1>5, DocsPlan, DocsFingerprint, DocsConfirm, DocsCheckStat, DocsVerify, DocsBackup,
     DocsRename, DocsGateScan, DocsGateCount, DocsRestore DEF Fix
<1>6. ASSUME NEW q \in Procs, WireOrUnwire(q) PROVE DocsInv'
  BY <1>6, DocsPreflight, DocsReadOld, DocsReadNew, DocsSave, DocsTruncate, DocsWrite,
     DocsValidate, DocsPutBack DEF WireOrUnwire
<1> QED BY <1>1, <1>2, <1>3, <1>4, <1>5, <1>6 DEF Next

-----------------------------------------------------------------------------
(* What follows for every reachable state.                                 *)

LEMMA AlwaysDocs == Spec => [](IInv /\ DocsInv /\ edits \in Nat)
<1>1. Init => IInv /\ DocsInv /\ edits \in Nat
  BY Initially, DocsInitially DEF Init
<1>2. (IInv /\ DocsInv /\ edits \in Nat) /\ [Next]_vars => (IInv /\ DocsInv /\ edits \in Nat)'
  BY Inductive, DocsInductive
<1> QED BY <1>1, <1>2, PTL DEF Spec

\* Every variable has its type, for any number of processes and any documents:
\* a backup slot holds at most one content, and what a fix has accepted can be
\* cut out of the document it planned from so that the rest still parses.
THEOREM SettingsTypeCorrect == Spec => []TypeOK
<1>1. IInv /\ DocsInv => TypeOK
  <2> SUFFICES ASSUME IInv, DocsInv PROVE TypeOK
    OBVIOUS
  <2>1. file.state \in {"good", "torn", "broken", "missing"}
    BY BadJSON DEF IInv, Types
  <2>2. file.state = "good" => file.doc = good
    BY States DEF IInv, Types
  <2>3. ASSUME NEW t \in 0..MaxClock PROVE Cardinality(stamped[t]) <= 1
    <3>1. stamped[t] = {} \/ \E x : stamped[t] = {x}
      <4>1. \A x, y \in stamped[t] : x = y
        BY DEF DocsInv, StampsOK
      <4>2. ASSUME NEW x \in stamped[t] PROVE stamped[t] = {x}
        BY <4>1
      <4> QED BY <4>2
    <3>2. Cardinality(stamped[t]) = 0 \/ Cardinality(stamped[t]) = 1
      BY <3>1, FS_EmptySet, FS_Singleton
    <3> QED BY <3>2
  <2>4. ASSUME NEW p \in Procs
        PROVE  /\ seen[p] \in Docs /\ work[p] \in Docs
               /\ chosen[p] \subseteq Sites(seen[p])
               /\ saved[p] \in 0..MaxClock \cup {Nothing}
               /\ SpliceParses(seen[p], chosen[p])
    <3>1. seen[p] \in Docs /\ work[p] \in Docs /\ chosen[p] \in SUBSET Sites(seen[p])
      BY DEF DocsInv, LocalsOK, Holds, FixHolds, Removable
    <3>2. saved[p] \in 0..MaxClock \cup {Nothing}
      BY DEF IInv, Types
    <3> QED BY <3>1, <3>2, SpliceParts
  <2>5. file.doc \in Docs /\ good \in Docs /\ backups \subseteq Docs
    BY DEF DocsInv, FileOK
  <2> QED BY <2>1, <2>2, <2>3, <2>4, <2>5 DEF TypeOK
<1> QED BY <1>1, AlwaysDocs, PTL

LEMMA HooksAreKeys == \A doc : HooksOf(doc) = Keys(doc)
BY DEF HooksOf, HookOf, Keys, Key

\* For every document, every choice of candidates and every number of processes:
\* a fix that nobody raced is passed by its gate if and only if the gate can read
\* the document it was planned from. Then it removes exactly the accepted
\* candidates: all the hooks that were there are still there, the declined
\* candidates are what is offered next time, and the audit has no new finding.
\* Of a document that its planner reads and its gate does not, torn or mistyped,
\* it puts back the text it planned from.
THEOREM FixesAreFaithful == Spec => []FixIsFaithful
<1>1. IInv /\ DocsInv => FixIsFaithful
  <2> SUFFICES ASSUME IInv, DocsInv PROVE FixIsFaithful
    OBVIOUS
  <2>1. GateTellsSound
    BY States DEF DocsInv, Holds, FixHolds, GateTellsSound, Scans
  <2>2. RestoreUndoes
    BY DEF DocsInv, Holds, FixHolds, RestoreUndoes
  <2>3. ASSUME NEW p \in Procs, pc[p] = "applied", "contents" \notin stale[p]
        PROVE  /\ HooksOf(good) = HooksOf(seen[p]) /\ good.rest = seen[p].rest
               /\ Cardinality(Removable(good)) + Cardinality(chosen[p])
                    = Cardinality(Removable(seen[p]))
               /\ \A f \in Findings(<<good>>) :
                    \E old \in Findings(<<seen[p]>>) : f.code = old.code /\ f.on = old.on
    <3>1. /\ seen[p] \in Docs /\ chosen[p] \in SUBSET Removable(seen[p])
          /\ file = Text(Splice(seen[p], chosen[p])) /\ seen[p].form = "sound"
      BY <2>3 DEF DocsInv, LocalsOK, Holds, FixHolds
    <3>2. chosen[p] \in SUBSET Sites(seen[p])
      BY <3>1 DEF Removable
    <3>3. /\ Splice(seen[p], chosen[p]).form = "sound"
          /\ Splice(seen[p], chosen[p]).rest = seen[p].rest
      BY <3>1, <3>2, SpliceParts
    <3>4. good = Splice(seen[p], chosen[p])
      BY <3>1, <3>3, TextIsGood
    <3> QED BY <3>1, <3>3, <3>4, GatePasses, HooksAreKeys
  <2> QED BY <2>1, <2>2, <2>3 DEF FixIsFaithful, FixDoesWhatWasConfirmed
<1> QED BY <1>1, AlwaysDocs, PTL

\* Every hook of the last JSON document is still there, but for what an unwire drops.
Survives(p) ==
  /\ good'.rest = good.rest
  /\ \A s \in Sites(good) :
       \/ HookOf(good, s) \in HooksOf(good')
       \/ flags[p].unwire /\ HasOwn(good.hooks[s[1]][s[2]])

LEMMA SameSurvives == ASSUME NEW p, good' = good PROVE Survives(p)
BY DEF Survives, HooksOf

\* A fix renames every hook of the last good document into place.
LEMMA RenameSurvives ==
  ASSUME IInv, DocsInv, NEW q \in Procs, Rename(q), "contents" \notin stale[q]
  PROVE  Survives(q)
<1>1. /\ work[q] = seen[q] /\ seen[q] \in Docs /\ chosen[q] \in SUBSET Removable(seen[q])
      /\ chosen[q] \in SUBSET Sites(seen[q]) /\ SpliceParses(work[q], chosen[q])
      /\ seen[q].form # "torn" => good = seen[q]
  BY RenameWrites DEF Rename
<1>2. CASE Untouched
  BY <1>2, SameSurvives DEF Untouched, shared
<1>3. CASE Becomes(Text(Splice(work[q], chosen[q])), q, TRUE)
  <2>1. Splice(work[q], chosen[q]).form = seen[q].form
    BY <1>1, SpliceParts
  <2>2. CASE seen[q].form = "torn"
    <3>1. good' = good
      BY <1>3, <2>1, <2>2, States DEF Becomes
    <3> QED BY <3>1, SameSurvives
  <2>3. CASE seen[q].form # "torn"
    <3>1. good' = Splice(good, chosen[q])
      BY <1>1, <1>3, <2>1, <2>3, States DEF Becomes
    <3>2. Keys(good') = Keys(good) /\ good'.rest = good.rest
      BY <1>1, <2>3, <3>1, GatePasses, SpliceParts
    <3> QED BY <3>2, HooksAreKeys DEF Survives, HooksOf
  <2> QED BY <2>2, <2>3
<1> QED BY <1>1, <1>2, <1>3 DEF Rename

\* A fix that its gate rejected puts back the same hooks, some of them twice.
LEMMA RestoreSurvives ==
  ASSUME IInv, DocsInv, NEW q \in Procs, Restore(q), "contents" \notin stale[q]
  PROVE  Survives(q)
<1>1. /\ work[q] = seen[q] /\ seen[q] \in Docs /\ chosen[q] \in SUBSET Removable(seen[q])
      /\ file = Text(Splice(seen[q], chosen[q]))
  BY DEF Restore, DocsInv, Holds, FixHolds, LocalsOK
<1>2. CASE Untouched
  BY <1>2, SameSurvives DEF Untouched, shared
<1>3. CASE Becomes(Text(work[q]), q, TRUE)
  <2> DEFINE new == Splice(seen[q], chosen[q])
  <2>1. new.form = seen[q].form /\ new.rest = seen[q].rest /\ Keys(new) = Keys(seen[q])
    <3>1. chosen[q] \in SUBSET Sites(seen[q])
      BY <1>1 DEF Removable
    <3> QED BY <1>1, <3>1, GatePasses, SpliceParts
  <2> HIDE DEF new
  <2>2. CASE seen[q].form = "torn"
    <3>1. good' = good
      BY <1>1, <1>3, <2>2, States DEF Becomes
    <3> QED BY <3>1, SameSurvives
  <2>3. CASE seen[q].form # "torn"
    <3>1. good = new
      <4>1. file = Text(new)
        BY <1>1 DEF new
      <4> QED BY <2>1, <2>3, <4>1, TextIsGood
    <3>2. good' = seen[q]
      BY <1>1, <1>3, <2>3, States DEF Becomes
    <3> QED BY <2>1, <3>1, <3>2, HooksAreKeys DEF Survives, HooksOf
  <2> QED BY <2>2, <2>3
<1> QED BY <1>2, <1>3 DEF Restore

\* A wire writes every hook of the last good document, but for what an unwire
\* drops.
LEMMA WriteSurvives ==
  ASSUME IInv, DocsInv, NEW q \in Procs, Write(q), "contents" \notin stale[q]
  PROVE  Survives(q)
<1>1. pc[q] = "write" /\ work[q] = Asked(q, good) /\ good \in Docs /\ flags[q] \in Asks
  BY DEF Write, DocsInv, Holds, WireHolds, FileOK, LocalsOK
<1>2. CASE Untouched
  BY <1>2, SameSurvives DEF Untouched, shared
<1>3. CASE Becomes(Torn(work[q]), q, FALSE)
  BY <1>3, States, SameSurvives DEF Becomes
<1>4. CASE Becomes(Good(work[q]), q, FALSE)
  <2>1. good' = Asked(q, good)
    BY <1>1, <1>4, States DEF Becomes
  <2>2. good'.rest = good.rest
    BY <1>1, <2>1, AskedDocs
  <2>3. CASE ~flags[q].unwire
    <3>1. flags[q].statusLine \in BOOLEAN
      BY <1>1 DEF Asks
    <3>2. \A s \in Sites(good) : Key(good, s) \in Keys(good')
      BY <1>1, <2>1, <2>3, <3>1, WireKeepsHooks DEF Asked
    <3> QED BY <2>2, <3>2, HooksAreKeys DEF Survives, HookOf, Key
  <2>4. CASE flags[q].unwire
    <3>1. \A s \in Sites(good) : HasOwn(good.hooks[s[1]][s[2]]) \/ Key(good, s) \in Keys(good')
      BY <1>1, <2>1, <2>4, UnwireKeepsForeign DEF Asked, ForeignSites
    <3> QED BY <2>2, <2>4, <3>1, HooksAreKeys DEF Survives, HookOf, Key
  <2> QED BY <2>3, <2>4
<1> QED BY <1>2, <1>3, <1>4 DEF Write

LEMMA StepSurvives ==
  ASSUME IInv, DocsInv, NEW q \in Procs, Start(q) \/ Kill(q) \/ Fix(q) \/ WireOrUnwire(q),
         "contents" \notin stale[q]
  PROVE  Survives(q)
<1>1. CASE Rename(q) \/ Write(q)
  BY <1>1, RenameSurvives, WriteSurvives
<1>2. CASE Restore(q)
  BY <1>2, RestoreSurvives
<1>3. CASE PutBack(q)
  BY <1>3 DEF PutBack, IInv, Relies
<1>4. CASE Truncate(q)
  BY <1>4, States, SameSurvives DEF Truncate, Becomes
<1>5. CASE Start(q) \/ Kill(q)
  BY <1>5, SameSurvives DEF Start, Kill, Untouched, shared
<1>6. CASE \/ PlanRead(q) \/ Fingerprint(q) \/ Confirm(q) \/ CheckStat(q) \/ Verify(q)
           \/ WriteBackup(q) \/ GateScan(q) \/ GateCount(q)
  BY <1>6, SameSurvives DEF PlanRead, Fingerprint, Confirm, CheckStat, Verify, WriteBackup,
     GateScan, GateCount, Untouched, shared
<1>7. CASE Preflight(q) \/ ReadOld(q) \/ ReadNew(q) \/ SaveStamped(q) \/ Validate(q)
  BY <1>7, SameSurvives DEF Preflight, ReadOld, ReadNew, SaveStamped, Validate, Untouched, shared
<1> QED BY <1>1, <1>2, <1>3, <1>4, <1>5, <1>6, <1>7 DEF Fix, WireOrUnwire

LEMMA OneMoves ==
  ASSUME IInv, NEW q \in Procs, Start(q) \/ Kill(q) \/ Fix(q) \/ WireOrUnwire(q),
         NEW p \in Procs, p # q
  PROVE  pc'[p] = pc[p]
<1>1. \E l : Goto(q, l)
  <2>1. CASE Start(q) \/ Kill(q)
    BY <2>1 DEF Start, Kill
  <2>2. CASE Fix(q)
    BY <2>2 DEF Fix, PlanRead, Fingerprint, Confirm, CheckStat, Verify, WriteBackup, Rename,
       GateScan, GateCount, Restore, Stop
  <2>3. CASE WireOrUnwire(q)
    BY <2>3 DEF WireOrUnwire, Preflight, ReadOld, ReadNew, SaveStamped, Truncate, Write,
       Validate, PutBack, Stop
  <2> QED BY <2>1, <2>2, <2>3
<1> QED BY <1>1 DEF Goto, IInv, Types

\* For any documents and any number of processes: no hook disappears and no
\* edit of Claude Code is undone except by a process that somebody else has
\* overtaken since it read the file, or by an unwire, with the group it drops.
THEOREM HooksAreNotLost == Spec => HooksSurvive
<1>1. IInv /\ DocsInv /\ [Next]_vars =>
        [\A p \in Procs : pc'[p] # pc[p] /\ "contents" \notin stale[p] => Survives(p)]_vars
  <2> SUFFICES ASSUME IInv, DocsInv, Next, NEW p \in Procs,
                      pc'[p] # pc[p], "contents" \notin stale[p]
               PROVE  Survives(p)
    OBVIOUS
  <2>1. ~Edit /\ ~Tick
    BY DEF Edit, Tick
  <2>2. PICK q \in Procs : Start(q) \/ Kill(q) \/ Fix(q) \/ WireOrUnwire(q)
    BY <2>1 DEF Next
  <2>3. q = p
    BY <2>2, OneMoves
  <2> QED BY <2>2, <2>3, StepSurvives
<1>2. [\A p \in Procs : pc'[p] # pc[p] /\ "contents" \notin stale[p] => Survives(p)]_vars =>
        [\A p \in Procs :
           pc'[p] # pc[p] /\ "contents" \notin stale[p] =>
             /\ good'.rest = good.rest
             /\ \A s \in Sites(good) :
                  \/ HookOf(good, s) \in HooksOf(good')
                  \/ flags[p].unwire /\ HasOwn(good.hooks[s[1]][s[2]])]_vars
  BY DEF Survives
<1> QED BY <1>1, <1>2, AlwaysDocs, PTL DEF Spec, HooksSurvive

-----------------------------------------------------------------------------
(* One unconditional dispatch entry per event.                             *)

\* Nobody but a wire makes a second one: the settings do not start with two,
\* and the group that Claude Code adds is not one.
OnlyWiresAdd ==
  /\ \A d \in InitDocs : OneEach(d)
  /\ AddedGroup.matcher = "" =>
       \A h \in DOMAIN AddedGroup.hooks :
         AddedGroup.hooks[h].command # Dispatch("PreToolUse")

\* Every document that can become the file again has at most one of each.
CleanInv ==
  /\ OneEach(file.doc) /\ OneEach(good)
  /\ \A t \in 0..MaxClock : \A x \in stamped[t] : OneEach(x.doc)
  /\ \A p \in Procs : OneEach(work[p])

LEMMA EmptyClean == OneEach(EmptyDoc) /\ OneEach(NoDoc)
<1>1. \A e \in Events : EmptyDoc.hooks[e] = <<>> /\ NoDoc.hooks[e] = <<>>
  BY DEF EmptyDoc, NoDoc
<1>2. DOMAIN <<>> = {}
  OBVIOUS
<1>3. Sites(EmptyDoc) = {} /\ Sites(NoDoc) = {}
  BY <1>1, <1>2, SiteParts
<1> QED BY <1>3 DEF OneEach

LEMMA EditClean ==
  ASSUME OnlyWiresAdd, NEW doc \in Docs, NEW n \in Nat, NEW add \in BOOLEAN, OneEach(doc)
  PROVE  OneEach(Edited(doc, n, add))
<1> DEFINE new == Edited(doc, n, add)
           G == [e \in Events |-> AddedGroup]
           where == {e \in Events : e = "PreToolUse" /\ add}
<1>1. Grows(doc, new, where, G)
  <2>1. \A e \in Events : new.hooks[e] =
          IF e = "PreToolUse" /\ add THEN Append(doc.hooks[e], AddedGroup) ELSE doc.hooks[e]
    BY EditedDoc
  <2> HIDE DEF new
  <2> QED BY <2>1 DEF Grows
<1>2. \A e \in Events : G[e] = AddedGroup
  OBVIOUS
<1>3. \A e \in where : e = "PreToolUse"
  OBVIOUS
<1> HIDE DEF new, G, where
<1>4. \A s \in Sites(doc) : s \in Sites(new) /\ Key(new, s) = Key(doc, s)
  BY <1>1, Grown
<1>5. \A s \in Sites(new) : s \in Sites(doc) \/
              /\ s[1] \in Events /\ s[1] \in where /\ s[3] \in DOMAIN G[s[1]].hooks
              /\ MatcherAt(new, s) = G[s[1]].matcher
              /\ HookAt(new, s) = G[s[1]].hooks[s[3]]
  BY <1>1, Grown
<1>6. ASSUME NEW s \in Sites(new), IsDispatch(new, s) PROVE s \in Sites(doc) /\ IsDispatch(doc, s)
  <2>1. CASE s \in Sites(doc)
    BY <1>4, <1>6, <2>1, SameKey
  <2>2. CASE s \notin Sites(doc)
    <3>1. /\ s[1] = "PreToolUse" /\ s[3] \in DOMAIN AddedGroup.hooks
          /\ MatcherAt(new, s) = AddedGroup.matcher
          /\ HookAt(new, s) = AddedGroup.hooks[s[3]]
      BY <1>2, <1>3, <1>5, <2>2
    <3> QED BY <1>6, <3>1 DEF IsDispatch, OnlyWiresAdd
  <2> QED BY <2>1, <2>2
<1> QED BY <1>6 DEF OneEach, new

\* Neither a wire nor an unwire puts a second entry there.
LEMMA AskedClean ==
  ASSUME NEW doc \in Docs, NEW p, flags[p] \in Asks, OneEach(doc)
  PROVE  OneEach(Asked(p, doc))
<1>1. flags[p].statusLine \in BOOLEAN
  BY DEF Asks
<1>2. OneEach(Wire(doc, flags[p].events, flags[p].statusLine))
  BY <1>1, WireOneEach
<1>3. OneEach(Unwire(doc))
  BY UnwireCopies, CopiedOneEach
<1> QED BY <1>2, <1>3 DEF Asked

LEMMA CleanInitially == ASSUME OnlyWiresAdd, Init PROVE CleanInv
<1>1. OneEach(file.doc) /\ OneEach(good)
  <2>1. CASE file = Absent
    BY <2>1, EmptyClean DEF Init, Absent
  <2>2. ASSUME NEW d \in InitDocs, file = Text(d) PROVE OneEach(file.doc) /\ OneEach(good)
    <3>1. file.doc = d /\ good \in {d, EmptyDoc}
      BY <2>2, States DEF Init
    <3> QED BY <3>1, EmptyClean DEF OnlyWiresAdd
  <2> QED BY <2>1, <2>2 DEF Init
<1> QED BY <1>1, EmptyClean DEF Init, CleanInv

\* What a process holds.
LEMMA WorkClean ==
  ASSUME IInv, DocsInv, CleanInv, NEW q \in Procs,
         Start(q) \/ Kill(q) \/ Fix(q) \/ WireOrUnwire(q)
  PROVE  \A p \in Procs : OneEach(work'[p])
<1>1. work \in [Procs -> Docs]
  BY DEF DocsInv, LocalsOK
<1>2. ASSUME work' = work \/ \E d : work' = [work EXCEPT ![q] = d] /\ OneEach(d)
      PROVE  \A p \in Procs : OneEach(work'[p])
  BY <1>1, <1>2 DEF CleanInv
<1>3. CASE Forget(q) \/ UNCHANGED work
  BY <1>2, <1>3, EmptyClean DEF Forget
<1>4. CASE Verify(q)
  <2>1. Stop(q) \/ work' = [work EXCEPT ![q] = file.doc]
    BY <1>4 DEF Verify
  <2> QED BY <1>2, <1>3, <2>1 DEF CleanInv, Stop
<1>5. CASE ReadNew(q)
  <2>1. CASE ~NoJSON(file) /\ work' = [work EXCEPT ![q] = Changed(q)]
    <3>1. Changed(q) = Asked(q, good) /\ good \in Docs /\ flags[q] \in Asks
      BY <2>1, ChangedIsAsked DEF DocsInv, FileOK, LocalsOK
    <3>2. OneEach(Changed(q))
      BY <3>1, AskedClean DEF CleanInv
    <3> QED BY <1>2, <2>1, <3>2
  <2>2. CASE Forget(q)
    BY <1>3, <2>2
  <2> QED BY <1>5, <2>1, <2>2 DEF ReadNew, Stop
<1>6. CASE Start(q)
  BY <1>2, <1>6, EmptyClean DEF Start
<1>7. CASE \/ Kill(q) \/ PlanRead(q) \/ Fingerprint(q) \/ Confirm(q) \/ CheckStat(q)
           \/ WriteBackup(q) \/ Rename(q) \/ GateScan(q) \/ GateCount(q) \/ Restore(q)
  BY <1>3, <1>7 DEF Kill, PlanRead, Fingerprint, Confirm, CheckStat, WriteBackup, Rename,
     GateScan, GateCount, Restore, Stop, locals
<1>8. CASE \/ Preflight(q) \/ ReadOld(q) \/ SaveStamped(q) \/ Truncate(q) \/ Write(q)
           \/ Validate(q) \/ PutBack(q)
  BY <1>3, <1>8 DEF Preflight, ReadOld, SaveStamped, Truncate, Write, Validate, PutBack,
     Stop, locals
<1> QED BY <1>4, <1>5, <1>6, <1>7, <1>8 DEF Fix, WireOrUnwire

\* A text that loses its end keeps its entries.
LEMMA TornClean ==
  ASSUME NEW doc \in Docs, OneEach(doc)
  PROVE  OneEach([doc EXCEPT !.form = "torn"])
<1> DEFINE new == [doc EXCEPT !.form = "torn"]
<1>1. new.hooks = doc.hooks
  BY DEF Docs
<1> HIDE DEF new
<1>2. Sites(new) = Sites(doc) /\ \A s \in Sites(doc) : IsDispatch(new, s) <=> IsDispatch(doc, s)
  BY <1>1 DEF Sites, IsDispatch, MatcherAt, HookAt
<1>3. OneEach(new)
  BY <1>2 DEF OneEach
<1> QED BY <1>3 DEF new

\* What the file becomes.
LEMMA FileClean ==
  ASSUME IInv, DocsInv, CleanInv, NEW q \in Procs,
         Start(q) \/ Kill(q) \/ Fix(q) \/ WireOrUnwire(q)
  PROVE  OneEach(file'.doc) /\ OneEach(good')
<1>1. CASE UNCHANGED <<file, good>>
  BY <1>1 DEF CleanInv
<1>2. ASSUME NEW x, NEW b, Becomes(x, q, b), OneEach(x.doc)
      PROVE  OneEach(file'.doc) /\ OneEach(good')
  BY <1>2 DEF Becomes, CleanInv
<1>3. OneEach(Broken.doc)
  BY EmptyClean DEF Broken
<1>4. /\ OneEach(Good(work[q]).doc) /\ OneEach(Text(work[q]).doc)
      /\ OneEach(Torn(work[q]).doc)
  <2>1. OneEach(work[q])
    BY DEF CleanInv
  <2>2. OneEach([work[q] EXCEPT !.form = "torn"])
    BY <2>1, TornClean DEF DocsInv, LocalsOK
  <2> QED BY <2>1, <2>2, States
<1>5. CASE Rename(q)
  <2>1. /\ work[q] \in Docs /\ chosen[q] \in SUBSET Sites(work[q])
        /\ SpliceParses(work[q], chosen[q])
    BY <1>5, RenameWrites DEF Rename
  <2>2. OneEach(Splice(work[q], chosen[q]))
    <3>1. PICK f : Copies(f, Splice(work[q], chosen[q]), work[q], Sites(work[q]) \ chosen[q])
      BY <2>1, SpliceCopies
    <3> QED BY <3>1, CopiedOneEach DEF CleanInv
  <2>3. OneEach(Text(Splice(work[q], chosen[q])).doc)
    BY <2>2, States
  <2>4. Untouched \/ Becomes(Text(Splice(work[q], chosen[q])), q, TRUE)
    BY <1>5, <2>1 DEF Rename
  <2> QED BY <1>1, <1>2, <2>3, <2>4 DEF Untouched, shared
<1>6. CASE Restore(q)
  BY <1>1, <1>2, <1>4, <1>6 DEF Restore, Untouched, shared
<1>7. CASE Truncate(q)
  BY <1>2, <1>3, <1>7 DEF Truncate
<1>8. CASE Write(q)
  BY <1>1, <1>2, <1>3, <1>4, <1>8 DEF Write, Untouched, shared
<1>9. CASE PutBack(q)
  <2>1. PICK old \in stamped[saved[q]] : Becomes(old, q, FALSE)
    BY <1>9 DEF PutBack
  <2>2. saved[q] \in 0..MaxClock
    BY <1>9 DEF PutBack, IInv, Types
  <2>3. OneEach(old.doc)
    BY <2>1, <2>2 DEF CleanInv
  <2> QED BY <1>2, <2>1, <2>3
<1>10. CASE Start(q) \/ Kill(q)
  BY <1>1, <1>10 DEF Start, Kill, Untouched, shared
<1>11. CASE \/ PlanRead(q) \/ Fingerprint(q) \/ Confirm(q) \/ CheckStat(q) \/ Verify(q)
            \/ WriteBackup(q) \/ GateScan(q) \/ GateCount(q)
  BY <1>1, <1>11 DEF PlanRead, Fingerprint, Confirm, CheckStat, Verify, WriteBackup,
     GateScan, GateCount, Untouched, shared
<1>12. CASE Preflight(q) \/ ReadOld(q) \/ ReadNew(q) \/ SaveStamped(q) \/ Validate(q)
  BY <1>1, <1>12 DEF Preflight, ReadOld, ReadNew, SaveStamped, Validate, Untouched, shared
<1> QED BY <1>5, <1>6, <1>7, <1>8, <1>9, <1>10, <1>11, <1>12 DEF Fix, WireOrUnwire

\* What the backups hold.
LEMMA StampsClean ==
  ASSUME IInv, DocsInv, CleanInv, NEW q \in Procs,
         Start(q) \/ Kill(q) \/ Fix(q) \/ WireOrUnwire(q)
  PROVE  \A t \in 0..MaxClock : \A x \in stamped'[t] : OneEach(x.doc)
<1>1. CASE UNCHANGED stamped
  BY <1>1 DEF CleanInv
<1>2. CASE stamped' = [stamped EXCEPT ![clock] = {file}]
  <2> SUFFICES ASSUME NEW t \in 0..MaxClock, NEW x \in stamped'[t] PROVE OneEach(x.doc)
    OBVIOUS
  <2>1. t = clock => x = file
    BY <1>2 DEF IInv, Types
  <2>2. t # clock => x \in stamped[t]
    BY <1>2 DEF IInv, Types
  <2> QED BY <2>1, <2>2 DEF CleanInv
<1>3. CASE SaveStamped(q)
  BY <1>1, <1>2, <1>3 DEF SaveStamped
<1>4. CASE Start(q) \/ Kill(q)
  BY <1>1, <1>4 DEF Start, Kill, stores
<1>5. CASE Fix(q)
  BY <1>1, <1>5 DEF Fix, PlanRead, Fingerprint, Confirm, CheckStat, Verify, WriteBackup,
     Rename, GateScan, GateCount, Restore, stores
<1>6. CASE Preflight(q) \/ ReadOld(q) \/ ReadNew(q) \/ Truncate(q) \/ Write(q)
           \/ Validate(q) \/ PutBack(q)
  BY <1>1, <1>6 DEF Preflight, ReadOld, ReadNew, Truncate, Write, Validate, PutBack, stores
<1> QED BY <1>3, <1>4, <1>5, <1>6 DEF WireOrUnwire

LEMMA CleanInductive ==
  ASSUME OnlyWiresAdd, IInv, DocsInv, edits \in Nat, CleanInv, [Next]_vars
  PROVE  CleanInv'
<1>1. CASE Edit
  <2>1. PICK add \in BOOLEAN : Becomes(Good(Edited(file.doc, edits + 1, add)), Nothing, TRUE)
    BY <1>1 DEF Edit, Edited
  <2>2. OneEach(Edited(file.doc, edits + 1, add))
    <3>1. file.doc \in Docs /\ edits + 1 \in Nat
      BY DEF DocsInv, FileOK
    <3> QED BY <3>1, EditClean DEF CleanInv
  <2>3. OneEach(file'.doc) /\ OneEach(good')
    <3> DEFINE d == Edited(file.doc, edits + 1, add)
    <3> HIDE DEF d
    <3>1. Becomes(Good(d), Nothing, TRUE) /\ OneEach(d)
      BY <2>1, <2>2 DEF d
    <3> QED BY <3>1, States DEF Becomes
  <2>4. UNCHANGED <<stamped, work>>
    BY <1>1 DEF Edit, stores, locals
  <2> QED BY <2>3, <2>4 DEF CleanInv
<1>2. CASE Tick \/ UNCHANGED vars
  <2>1. UNCHANGED <<file, good, stamped, work>>
    BY <1>2 DEF Tick, Untouched, shared, stores, locals, vars
  <2> QED BY <2>1 DEF CleanInv
<1>3. ASSUME NEW q \in Procs, Start(q) \/ Kill(q) \/ Fix(q) \/ WireOrUnwire(q) PROVE CleanInv'
  <2>1. \A p \in Procs : OneEach(work'[p])
    BY <1>3, WorkClean
  <2>2. OneEach(file'.doc) /\ OneEach(good')
    BY <1>3, FileClean
  <2>3. \A t \in 0..MaxClock : \A x \in stamped'[t] : OneEach(x.doc)
    BY <1>3, StampsClean
  <2> QED BY <2>1, <2>2, <2>3 DEF CleanInv
<1> QED BY <1>1, <1>2, <1>3 DEF Next

\* "No duplicates on re-run", for any number of wires, unwires and fixes at
\* once, killed or not, and any documents: as long as nobody but a wire puts a
\* second one there, every event has at most one unconditional entry that runs
\* hookwise. Backups written back late do not bring one back either.
THEOREM WiresAreIdempotent ==
  ASSUME OnlyWiresAdd
  PROVE  Spec => []WireIdempotent
<1>1. DocsInv /\ CleanInv => WireIdempotent
  <2> SUFFICES ASSUME DocsInv, CleanInv, NEW e \in Events
               PROVE  Cardinality({s \in Sites(good) :
                         /\ s[1] = e /\ MatcherAt(good, s) = ""
                         /\ HookAt(good, s).command = Dispatch(e)}) <= 1
    BY DEF WireIdempotent
  <2> DEFINE D == {s \in Sites(good) : /\ s[1] = e /\ MatcherAt(good, s) = ""
                                       /\ HookAt(good, s).command = Dispatch(e)}
  <2>1. \A s, t \in D : s = t
    BY DEF CleanInv, OneEach, IsDispatch
  <2>2. D = {} \/ \E s : D = {s}
    <3> HIDE DEF D
    <3>1. ASSUME NEW s \in D PROVE D = {s}
      BY <2>1
    <3> QED BY <3>1
  <2>3. Cardinality(D) = 0 \/ Cardinality(D) = 1
    <3> HIDE DEF D
    <3> QED BY <2>2, FS_EmptySet, FS_Singleton
  <2>4. Cardinality(D) <= 1
    <3> HIDE DEF D
    <3> QED BY <2>3
  <2> QED BY <2>4
<1>2. Init => CleanInv
  BY CleanInitially
<1>3. (IInv /\ DocsInv /\ edits \in Nat) /\ CleanInv /\ [Next]_vars => CleanInv'
  BY CleanInductive
<1>4. Init => IInv /\ DocsInv /\ edits \in Nat
  BY Initially, DocsInitially DEF Init
<1> QED BY <1>1, <1>2, <1>3, AlwaysDocs, PTL DEF Spec
=============================================================================
