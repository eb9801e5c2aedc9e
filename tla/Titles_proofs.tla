---------------------------- MODULE Titles_proofs ----------------------------
(***************************************************************************)
(* What a job puts into the library, for every disc, every list of picks,  *)
(* every mapping of episodes and any number of retries: titles selected,   *)
(* each under a name of its own (Paired), whatever fails on the way and    *)
(* whatever other jobs put there.                                          *)
(*                                                                         *)
(* What is selected is known by positions: loops append the elements that  *)
(* pass a test, so what they leave is in the order of the disc and no      *)
(* title is there twice (Selectable, SelectionIs).  The files in rip/ are  *)
(* those titles in that order, so while none has left, the n-th file is    *)
(* the n-th pick or the n-th title (FullSpool) and the paths rendered are  *)
(* right (RipsNamed, EncodesNamed).  A retry finds a spool from which      *)
(* files have left, where positions say nothing any more.  The invariant   *)
(* therefore keeps that the first path is then taken (Spooled, SpoolNamed) *)
(* and that a move comes to a taken path before it comes to a file that is *)
(* not named well (WellNamed).                                             *)
(***************************************************************************)
EXTENDS Titles, FiniteSetTheorems, SequenceTheorems, TLAPS

----------------------------------------------------------------------------
(* Orders by rank.  D gives each element of K the elements up to it; of    *)
(* two elements, one is not up to the other.                               *)
Nested(K, D) ==
    /\ D \in [K -> SUBSET K]
    /\ \A i \in K : i \in D[i]
    /\ \A i, j \in K : i # j =>
          \/ D[i] \subseteq D[j] /\ j \notin D[i]
          \/ D[j] \subseteq D[i] /\ i \notin D[j]
(* They then have each rank from one to their number.                      *)
Ranked(K, D) ==
    /\ Cardinality(K) \in Nat
    /\ \A i \in K : /\ IsFiniteSet(D[i])
                    /\ Cardinality(D[i]) \in 1..Cardinality(K)
    /\ \A i, j \in K : Cardinality(D[i]) = Cardinality(D[j]) => i = j
    /\ \A k \in 1..Cardinality(K) : \E i \in K : Cardinality(D[i]) = k

(* Elements that are told apart by the sets of those up to them have each  *)
(* rank from one to their number.                                          *)
LEMMA Ranks ==
    ASSUME NEW K, IsFiniteSet(K), NEW D, Nested(K, D)
    PROVE  Ranked(K, D)
<1> DEFINE c == Cardinality(K)
           rank == [i \in K |-> Cardinality(D[i])]
<1> USE DEF Nested
<1>1. c \in Nat
  BY FS_CardinalityType
<1>2. \A i \in K : IsFiniteSet(D[i]) /\ Cardinality(D[i]) \in 1..c
  <2> SUFFICES ASSUME NEW i \in K
               PROVE  IsFiniteSet(D[i]) /\ Cardinality(D[i]) \in 1..c
    OBVIOUS
  <2>1. IsFiniteSet(D[i]) /\ Cardinality(D[i]) <= c
    BY FS_Subset
  <2>2. Cardinality(D[i]) \in Nat
    BY <2>1, FS_CardinalityType
  <2>3. Cardinality(D[i]) # 0
    BY <2>1, FS_EmptySet
  <2> QED  BY <1>1, <2>1, <2>2, <2>3
<1>3. \A i, j \in K : Cardinality(D[i]) = Cardinality(D[j]) => i = j
  <2> SUFFICES ASSUME NEW i \in K, NEW j \in K, i # j,
                      Cardinality(D[i]) = Cardinality(D[j])
               PROVE  FALSE
    OBVIOUS
  <2>1. i \in D[i] /\ j \in D[j] /\ IsFiniteSet(D[i]) /\ IsFiniteSet(D[j])
    BY <1>2
  <2>2. CASE D[i] \subseteq D[j] /\ j \notin D[i]
    <3>1. D[j] = D[i]
      BY <2>1, <2>2, FS_Subset
    <3> QED  BY <2>1, <2>2, <3>1
  <2>3. CASE D[j] \subseteq D[i] /\ i \notin D[j]
    <3>1. D[j] = D[i]
      BY <2>1, <2>3, FS_Subset
    <3> QED  BY <2>1, <2>3, <3>1
  <2> QED  BY <2>2, <2>3
<1>4. IsFiniteSet(1..c) /\ Cardinality(1..c) = c
  <2>1. 1 \in Int /\ c \in Int /\ (1 > c => c = 0) /\ c - 1 + 1 = c
    BY <1>1
  <2> QED  BY <2>1, FS_Interval
<1>5. rank \in Injection(K, 1..c)
  BY <1>2, <1>3 DEF Injection, IsInjective
<1>6. rank \in Surjection(K, 1..c)
  BY <1>4, <1>5, FS_Injection
<1>7. \A k \in 1..c : \E i \in K : Cardinality(D[i]) = k
  BY <1>6 DEF Surjection
<1> QED  BY <1>1, <1>2, <1>3, <1>7 DEF Ranked

(* The positions of a set of positions: each number up to its size names   *)
(* one, in their order, and none is left out.                              *)
LEMMA NthIs ==
    ASSUME NEW K \in SUBSET Nat, IsFiniteSet(K)
    PROVE  /\ Cardinality(K) \in Nat
           /\ \A k \in 1..Cardinality(K) :
                 /\ Nth(K, k) \in K
                 /\ Cardinality(UpTo(K, Nth(K, k))) = k
           /\ \A i \in K : \E k \in 1..Cardinality(K) :
                 /\ Nth(K, k) = i
                 /\ k = Cardinality(UpTo(K, i))
           /\ \A k, l \in 1..Cardinality(K) :
                 k < l => Nth(K, k) < Nth(K, l)
<1> DEFINE D == [i \in K |-> UpTo(K, i)]
           c == Cardinality(K)
<1>1. D \in [K -> SUBSET K] /\ \A i \in K : i \in D[i]
  BY DEF UpTo
<1>2. \A i, j \in K : i # j => \/ D[i] \subseteq D[j] /\ j \notin D[i]
                               \/ D[j] \subseteq D[i] /\ i \notin D[j]
  <2> SUFFICES ASSUME NEW i \in K, NEW j \in K, i # j
               PROVE  \/ D[i] \subseteq D[j] /\ j \notin D[i]
                      \/ D[j] \subseteq D[i] /\ i \notin D[j]
    OBVIOUS
  <2>1. i \in Nat /\ j \in Nat
    OBVIOUS
  <2>2. i < j \/ j < i
    BY <2>1
  <2>3. \A n \in Nat, x, y \in Nat : n <= x /\ x < y => n <= y /\ ~(y <= x)
    OBVIOUS
  <2>4. D[i] = {n \in K : n <= i} /\ D[j] = {n \in K : n <= j}
    BY DEF UpTo
  <2> QED  BY <2>1, <2>2, <2>3, <2>4
<1> HIDE DEF D
<1>3. /\ c \in Nat
      /\ \A i \in K : IsFiniteSet(D[i]) /\ Cardinality(D[i]) \in 1..c
      /\ \A i, j \in K : Cardinality(D[i]) = Cardinality(D[j]) => i = j
      /\ \A k \in 1..c : \E i \in K : Cardinality(D[i]) = k
  <2>1. Nested(K, D)
    BY <1>1, <1>2 DEF Nested
  <2>2. Ranked(K, D)
    BY <2>1, Ranks
  <2> QED  BY <2>2 DEF Ranked
<1>4. \A i \in K : D[i] = UpTo(K, i)
  BY DEF D
<1>5. \A k \in 1..c : Nth(K, k) \in K /\ Cardinality(D[Nth(K, k)]) = k
  <2> SUFFICES ASSUME NEW k \in 1..c
               PROVE  Nth(K, k) \in K /\ Cardinality(D[Nth(K, k)]) = k
    OBVIOUS
  <2>1. \E i \in K : Cardinality(UpTo(K, i)) = k
    BY <1>3, <1>4
  <2>2. Nth(K, k) \in K /\ Cardinality(UpTo(K, Nth(K, k))) = k
    BY <2>1 DEF Nth
  <2> QED  BY <1>4, <2>2
<1>6. \A i \in K : \E k \in 1..c : Nth(K, k) = i /\ k = Cardinality(D[i])
  BY <1>3, <1>5
<1>7. \A k, l \in 1..c : k < l => Nth(K, k) < Nth(K, l)
  <2> SUFFICES ASSUME NEW k \in 1..c, NEW l \in 1..c, k < l,
                      ~(Nth(K, k) < Nth(K, l))
               PROVE  FALSE
    OBVIOUS
  <2>1. PICK i \in K : i = Nth(K, k) /\ Cardinality(D[i]) = k
    BY <1>5
  <2>2. PICK j \in K : j = Nth(K, l) /\ Cardinality(D[j]) = l
    BY <1>5
  <2>3. D[j] \subseteq D[i]
    <3>1. i \in Nat /\ j \in Nat /\ ~(i < j)
      BY <2>1, <2>2
    <3>2. \A n \in Nat : n <= j => n <= i
      BY <3>1
    <3>3. D[i] = {n \in K : n <= i} /\ D[j] = {n \in K : n <= j}
      BY <1>4 DEF UpTo
    <3> QED  BY <3>2, <3>3
  <2>4. Cardinality(D[j]) <= Cardinality(D[i])
    BY <1>3, <2>3, FS_Subset
  <2> QED  BY <1>3, <2>1, <2>2, <2>4
<1> QED  BY <1>3, <1>4, <1>5, <1>6, <1>7

(* A slice of what passed a test: the elements at its positions, each once *)
(* and in their order.                                                     *)
LEMMA AppendedIs ==
    ASSUME NEW s, NEW K \in SUBSET Nat, IsFiniteSet(K)
    PROVE  /\ Cardinality(K) \in Nat
           /\ DOMAIN Appended(s, K) = 1..Cardinality(K)
           /\ \A k \in 1..Cardinality(K) :
                 Nth(K, k) \in K /\ Appended(s, K)[k] = s[Nth(K, k)]
           /\ \A i \in K : \E k \in 1..Cardinality(K) : Nth(K, k) = i
           /\ \A k, l \in 1..Cardinality(K) :
                 k < l => Nth(K, k) < Nth(K, l)
BY NthIs DEF Appended

(* The positions of a slice.                                               *)
LEMMA SomePositions ==
    ASSUME NEW S, NEW s \in Seq(S), NEW K \in SUBSET DOMAIN s
    PROVE  /\ K \in SUBSET Nat /\ IsFiniteSet(K)
           /\ Cardinality(K) \in Nat /\ Cardinality(K) <= Len(s)
           /\ Len(s) \in Nat /\ DOMAIN s = 1..Len(s)
           /\ IsFiniteSet(DOMAIN s) /\ Cardinality(DOMAIN s) = Len(s)
<1> DEFINE n == Len(s)
<1>1. n \in Nat /\ DOMAIN s = 1..n
  OBVIOUS
<1>2. IsFiniteSet(1..n) /\ Cardinality(1..n) = n
  <2>1. 1 \in Int /\ n \in Int /\ (1 > n => n = 0) /\ n - 1 + 1 = n
    BY <1>1
  <2> QED  BY <2>1, FS_Interval
<1>3. IsFiniteSet(K) /\ Cardinality(K) <= n
  BY <1>1, <1>2, FS_Subset
<1>4. Cardinality(K) \in Nat
  BY <1>3, FS_CardinalityType
<1> QED  BY <1>1, <1>2, <1>3, <1>4

----------------------------------------------------------------------------
(* Numbers and their order.                                                *)

(* One of finitely many numbers is the largest, and the first of those.    *)
LEMMA Largest ==
    ASSUME NEW n \in Nat \ {0}, NEW f \in [1..n -> Nat]
    PROVE  \E k \in 1..n : \A j \in 1..n :
              f[j] < f[k] \/ (f[j] = f[k] /\ k <= j)
<1> DEFINE K == 1..n
           D == [i \in K |-> {j \in K : f[j] > f[i]
                                          \/ (f[j] = f[i] /\ j <= i)}]
<1>1. IsFiniteSet(K) /\ Cardinality(K) = n
  <2>1. 1 \in Int /\ n \in Int /\ (1 > n => n = 0) /\ n - 1 + 1 = n
    OBVIOUS
  <2> QED  BY <2>1, FS_Interval
<1>2. D \in [K -> SUBSET K] /\ \A i \in K : i \in D[i]
  OBVIOUS
<1>3. \A i, j \in K : i # j => \/ D[i] \subseteq D[j] /\ j \notin D[i]
                               \/ D[j] \subseteq D[i] /\ i \notin D[j]
  <2> SUFFICES ASSUME NEW i \in K, NEW j \in K, i # j
               PROVE  \/ D[i] \subseteq D[j] /\ j \notin D[i]
                      \/ D[j] \subseteq D[i] /\ i \notin D[j]
    OBVIOUS
  <2>1. D[i] = {l \in K : f[l] > f[i] \/ (f[l] = f[i] /\ l <= i)}
    OBVIOUS
  <2>2. D[j] = {l \in K : f[l] > f[j] \/ (f[l] = f[j] /\ l <= j)}
    OBVIOUS
  <2>3. f[i] \in Nat /\ f[j] \in Nat /\ i \in Nat /\ j \in Nat
        /\ \A l \in K : f[l] \in Nat /\ l \in Nat
    OBVIOUS
  <2> HIDE DEF D, K
  <2>4. CASE f[i] > f[j] \/ (f[i] = f[j] /\ i < j)
    <3>1. D[i] \subseteq D[j]
      <4> SUFFICES ASSUME NEW l \in D[i]
                   PROVE  l \in D[j]
        OBVIOUS
      <4>1. l \in K /\ (f[l] > f[i] \/ (f[l] = f[i] /\ l <= i))
        BY <2>1
      <4>2. f[l] \in Nat /\ l \in Nat
        BY <2>3, <4>1
      <4>3. f[l] > f[j] \/ (f[l] = f[j] /\ l <= j)
        BY <2>3, <2>4, <4>1, <4>2
      <4> QED  BY <2>2, <4>1, <4>3
    <3>2. ~(f[j] > f[i] \/ (f[j] = f[i] /\ j <= i))
      BY <2>3, <2>4
    <3> QED  BY <2>1, <3>1, <3>2
  <2>5. CASE f[j] > f[i] \/ (f[j] = f[i] /\ j < i)
    <3>1. D[j] \subseteq D[i]
      <4> SUFFICES ASSUME NEW l \in D[j]
                   PROVE  l \in D[i]
        OBVIOUS
      <4>1. l \in K /\ (f[l] > f[j] \/ (f[l] = f[j] /\ l <= j))
        BY <2>2
      <4>2. f[l] \in Nat /\ l \in Nat
        BY <2>3, <4>1
      <4>3. f[l] > f[i] \/ (f[l] = f[i] /\ l <= i)
        BY <2>3, <2>5, <4>1, <4>2
      <4> QED  BY <2>1, <4>1, <4>3
    <3>2. ~(f[i] > f[j] \/ (f[i] = f[j] /\ i <= j))
      BY <2>3, <2>5
    <3> QED  BY <2>2, <3>1, <3>2
  <2>6. \A x, y, a, b \in Nat : a # b =>
           \/ x > y \/ (x = y /\ a < b)
           \/ y > x \/ (y = x /\ b < a)
    OBVIOUS
  <2> QED  BY <2>3, <2>4, <2>5, <2>6
<1>4. \E k \in K : Cardinality(D[k]) = 1
  <2> HIDE DEF D, K
  <2>1. \A k \in 1..Cardinality(K) : \E i \in K : Cardinality(D[i]) = k
    <3>1. Nested(K, D)
      BY <1>2, <1>3 DEF Nested
    <3>2. Ranked(K, D)
      BY <1>1, <3>1, Ranks
    <3> QED  BY <3>2 DEF Ranked
  <2> QED  BY <1>1, <2>1
<1>5. PICK k \in K : Cardinality(D[k]) = 1
  BY <1>4
<1>6. D[k] = {k}
  <2> HIDE DEF D, K
  <2>1. D[k] \in SUBSET K /\ k \in D[k]
    BY <1>2
  <2>2. IsFiniteSet(D[k])
    BY <1>1, <2>1, FS_Subset
  <2>3. {k} \subseteq D[k] /\ IsFiniteSet({k}) /\ Cardinality({k}) = 1
    BY <2>1, FS_Singleton
  <2> QED  BY <1>5, <2>2, <2>3, FS_Subset
<1>7. \A j \in K : f[j] < f[k] \/ (f[j] = f[k] /\ k <= j)
  <2> SUFFICES ASSUME NEW j \in K
               PROVE  f[j] < f[k] \/ (f[j] = f[k] /\ k <= j)
    OBVIOUS
  <2>1. j = k \/ ~(f[j] > f[k] \/ (f[j] = f[k] /\ j <= k))
    BY <1>6
  <2>2. f[j] \in Nat /\ f[k] \in Nat /\ j \in Nat /\ k \in Nat
    OBVIOUS
  <2> QED  BY <2>1, <2>2
<1> QED  BY <1>7

(* Numbers that ascend are their own ranks.                                *)
Ascends(f, n, K) ==
    /\ n \in Nat /\ f \in [1..n -> Nat]
    /\ \A i, j \in 1..n : i < j => f[i] < f[j]
    /\ \A i \in 1..n : f[i] \in K
    /\ \A x \in K : \E i \in 1..n : x = f[i]

(* A set that is listed in ascending order is numbered by that list.       *)
LEMMA Ascending ==
    ASSUME NEW n, NEW f, NEW K, Ascends(f, n, K)
    PROVE  /\ IsFiniteSet(K) /\ Cardinality(K) = n /\ K \in SUBSET Nat
           /\ \A k \in 1..n : f[k] = Nth(K, k)
<1> USE DEF Ascends
<1>0. \A m \in Nat : IsFiniteSet(1..m) /\ Cardinality(1..m) = m
  <2> SUFFICES ASSUME NEW m \in Nat
               PROVE  IsFiniteSet(1..m) /\ Cardinality(1..m) = m
    OBVIOUS
  <2>1. 1 \in Int /\ m \in Int /\ (1 > m => m = 0) /\ m - 1 + 1 = m
    OBVIOUS
  <2> QED  BY <2>1, FS_Interval
<1>1. \A i, j \in 1..n : f[i] <= f[j] <=> i <= j
  <2> SUFFICES ASSUME NEW i \in 1..n, NEW j \in 1..n
               PROVE  f[i] <= f[j] <=> i <= j
    OBVIOUS
  <2>1. f[i] \in Nat /\ f[j] \in Nat /\ i \in Nat /\ j \in Nat
    OBVIOUS
  <2>2. (i < j => f[i] < f[j]) /\ (j < i => f[j] < f[i])
    OBVIOUS
  <2> QED  BY <2>1, <2>2
<1>2. \A m \in 0..n, L \in SUBSET Nat :
         L = {f[i] : i \in 1..m} => IsFiniteSet(L) /\ Cardinality(L) = m
  <2> SUFFICES ASSUME NEW m \in 0..n, NEW L \in SUBSET Nat,
                      L = {f[i] : i \in 1..m}
               PROVE  IsFiniteSet(L) /\ Cardinality(L) = m
    OBVIOUS
  <2> DEFINE g == [i \in 1..m |-> f[i]]
  <2>1. \A i, j \in 1..m : f[i] = f[j] => i = j
    <3> SUFFICES ASSUME NEW i \in 1..m, NEW j \in 1..m, f[i] = f[j]
                 PROVE  i = j
      OBVIOUS
    <3>1. i \in 1..n /\ j \in 1..n /\ f[i] \in Nat
      OBVIOUS
    <3> QED  BY <1>1, <3>1
  <2>2. g \in Surjection(1..m, L) /\ g \in Injection(1..m, L)
    BY <2>1 DEF Injection, Surjection, IsInjective
  <2>3. m \in Nat
    OBVIOUS
  <2> QED  BY <1>0, <2>2, <2>3, FS_Surjection
<1>3. K \in SUBSET Nat
  OBVIOUS
<1>4. IsFiniteSet(K) /\ Cardinality(K) = n
  <2>1. n \in 0..n /\ K = {f[i] : i \in 1..n}
    OBVIOUS
  <2> QED  BY <1>2, <1>3, <2>1
<1>5. ASSUME NEW k \in 1..n
      PROVE  f[k] = Nth(K, k)
  <2>1. UpTo(K, f[k]) = {f[i] : i \in 1..k}
    <3>1. \A x \in K : x <= f[k] => x \in {f[i] : i \in 1..k}
      <4> SUFFICES ASSUME NEW i \in 1..n, f[i] <= f[k]
                   PROVE  f[i] \in {f[j] : j \in 1..k}
        OBVIOUS
      <4>1. i <= k
        BY <1>1
      <4> QED  BY <4>1
    <3>2. \A i \in 1..k : f[i] \in K /\ f[i] <= f[k]
      <4> SUFFICES ASSUME NEW i \in 1..k
                   PROVE  f[i] \in K /\ f[i] <= f[k]
        OBVIOUS
      <4>1. i \in 1..n /\ i <= k
        OBVIOUS
      <4> QED  BY <1>1, <4>1
    <3> QED  BY <3>1, <3>2 DEF UpTo
  <2>2. k \in 0..n /\ UpTo(K, f[k]) \in SUBSET Nat
    <3>1. k \in 0..n
      OBVIOUS
    <3>2. UpTo(K, f[k]) \subseteq K
      BY DEF UpTo
    <3> QED  BY <1>3, <3>1, <3>2
  <2>3. Cardinality(UpTo(K, f[k])) = k
    BY <1>2, <2>1, <2>2
  <2>4. f[k] \in K
    OBVIOUS
  <2>5. \E l \in 1..Cardinality(K) :
           Nth(K, l) = f[k] /\ l = Cardinality(UpTo(K, f[k]))
    BY <1>3, <1>4, <2>4, NthIs
  <2> QED  BY <2>3, <2>5
<1> QED  BY <1>3, <1>4, <1>5

----------------------------------------------------------------------------
TitleRecords == [id : Nat \ {0}, secs : Nat, size : Nat]

(* The record of a job.                                                    *)
LEMMA JobIs ==
    ASSUME rip \in Jobs(Engines)
    PROVE  /\ rip.engine \in Engines /\ rip.series \in BOOLEAN
           /\ rip.extras \in BOOLEAN
           /\ rip.scan \in Scans /\ rip.scan \in Seq(TitleRecords)
           /\ rip.picks \in Picks /\ rip.picks \in Seq(Nat \ {0})
           /\ rip.map \in Maps /\ DOMAIN rip.map \subseteq Nat \ {0}
           /\ rip.picks = <<>> => DOMAIN rip.map = {}
           /\ \A i, j \in DOMAIN rip.scan :
                 i < j => rip.scan[i].id < rip.scan[j].id
           /\ \A i, j \in DOMAIN rip.picks :
                 rip.picks[i] = rip.picks[j] => i = j
           /\ rip.engine = "HandBrake" /\ ~rip.series =>
                 rip.feature \in IdsOf(rip.scan)
<1>1. rip \in [engine : Engines, series : BOOLEAN, extras : BOOLEAN,
               scan : Scans, feature : 1..Marks, picks : Picks, map : Maps,
               named : SUBSET UNION {Mapped(m) : m \in Maps}]
      /\ (rip.picks = <<>> => DOMAIN rip.map = {})
      /\ (IF rip.engine = "HandBrake" /\ ~rip.series
          THEN rip.feature \in IdsOf(rip.scan) ELSE rip.feature = 1)
  BY DEF Jobs
<1>2. rip.scan \in Scans /\ rip.picks \in Picks /\ rip.map \in Maps
  BY <1>1
<1>3. /\ rip.scan \in Seq(TitleRecords)
      /\ \A i, j \in DOMAIN rip.scan :
            i < j => rip.scan[i].id < rip.scan[j].id
  BY <1>2, ScansAssumption DEF TitleRecords
<1>4. /\ rip.picks \in Seq(Nat \ {0}) /\ DOMAIN rip.map \subseteq Nat \ {0}
      /\ \A i, j \in DOMAIN rip.picks : rip.picks[i] = rip.picks[j] => i = j
  BY <1>2, PicksAssumption
<1>5. rip.engine \in Engines /\ rip.series \in BOOLEAN
      /\ rip.extras \in BOOLEAN
  BY <1>1
<1> QED  BY <1>1, <1>2, <1>3, <1>4, <1>5

(* A title of the scan is told by its id.                                  *)
LEMMA TitleIs ==
    ASSUME rip \in Jobs(Engines)
    PROVE  /\ Len(rip.scan) \in Nat /\ DOMAIN rip.scan = 1..Len(rip.scan)
           /\ \A i \in DOMAIN rip.scan :
                 /\ i \in Nat /\ rip.scan[i] \in TitleRecords
                 /\ rip.scan[i].id \in Nat \ {0} /\ rip.scan[i].secs \in Nat
                 /\ rip.scan[i].size \in Nat
           /\ \A i, j \in DOMAIN rip.scan :
                 rip.scan[i].id = rip.scan[j].id => i = j
<1>1. rip.scan \in Seq(TitleRecords) /\ \A i, j \in DOMAIN rip.scan :
                                     i < j => rip.scan[i].id < rip.scan[j].id
  BY JobIs
<1>2. Len(rip.scan) \in Nat /\ DOMAIN rip.scan = 1..Len(rip.scan)
  BY <1>1
<1>3. \A i \in DOMAIN rip.scan : i \in Nat /\ rip.scan[i] \in TitleRecords
  BY <1>1
<1>4. \A t \in TitleRecords :
         t.id \in Nat \ {0} /\ t.secs \in Nat /\ t.size \in Nat
  BY DEF TitleRecords
<1>5. \A i, j \in DOMAIN rip.scan : rip.scan[i].id = rip.scan[j].id => i = j
  <2> SUFFICES ASSUME NEW i \in DOMAIN rip.scan, NEW j \in DOMAIN rip.scan,
                      rip.scan[i].id = rip.scan[j].id
               PROVE  i = j
    OBVIOUS
  <2>1. i \in Nat /\ j \in Nat /\ rip.scan[i].id \in Nat
    BY <1>3, <1>4
  <2>2. ~(i < j) /\ ~(j < i)
    <3>1. i < j => rip.scan[i].id < rip.scan[j].id
      BY <1>1
    <3>2. j < i => rip.scan[j].id < rip.scan[i].id
      BY <1>1
    <3> QED  BY <2>1, <3>1, <3>2
  <2> QED  BY <2>1, <2>2
<1> QED  BY <1>2, <1>3, <1>4, <1>5

(* Titles selected from the scan by their positions.                       *)
LEMMA ScannedIs ==
    ASSUME rip \in Jobs(Engines), NEW K \in SUBSET DOMAIN rip.scan
    PROVE  /\ Len(Scanned(K)) = Cardinality(K) /\ Cardinality(K) \in Nat
           /\ Scanned(K) \in Seq(TitleRecords)
           /\ DOMAIN Scanned(K) = 1..Cardinality(K)
           /\ \A k \in DOMAIN Scanned(K) :
                 \E i \in K : Scanned(K)[k] = rip.scan[i]
           /\ \A i \in K :
                 \E k \in DOMAIN Scanned(K) : Scanned(K)[k] = rip.scan[i]
           /\ \A k, l \in DOMAIN Scanned(K) :
                 k < l => Scanned(K)[k].id < Scanned(K)[l].id
<1> DEFINE c == Cardinality(K)
<1>1. K \in SUBSET Nat /\ IsFiniteSet(K) /\ c \in Nat
  <2>1. rip.scan \in Seq(TitleRecords)
    BY JobIs
  <2> QED  BY <2>1, SomePositions
<1>2. /\ DOMAIN Scanned(K) = 1..c
      /\ \A k \in 1..c : Nth(K, k) \in K
                           /\ Scanned(K)[k] = rip.scan[Nth(K, k)]
      /\ \A i \in K : \E k \in 1..c : Nth(K, k) = i
      /\ \A k, l \in 1..c : k < l => Nth(K, k) < Nth(K, l)
  BY <1>1, AppendedIs DEF Scanned
<1>3. Scanned(K) = [k \in 1..c |-> rip.scan[Nth(K, k)]]
  BY DEF Scanned, Appended
<1>4. \A k \in 1..c : rip.scan[Nth(K, k)] \in TitleRecords
  BY <1>2, TitleIs
<1>5. Scanned(K) \in Seq(TitleRecords) /\ Len(Scanned(K)) = c
  BY <1>1, <1>3, <1>4
<1>6. \A k, l \in 1..c : k < l => Scanned(K)[k].id < Scanned(K)[l].id
  <2>1. \A i, j \in DOMAIN rip.scan :
           i < j => rip.scan[i].id < rip.scan[j].id
    BY JobIs
  <2> QED  BY <1>2, <2>1
<1> HIDE DEF c
<1>7. \A k \in 1..c : \E i \in K : Scanned(K)[k] = rip.scan[i]
  BY <1>2
<1>8. \A i \in K : \E k \in 1..c : Scanned(K)[k] = rip.scan[i]
  BY <1>2
<1> QED  BY <1>1, <1>2, <1>5, <1>6, <1>7, <1>8 DEF c

(* The titles with given ids.                                              *)
LEMMA WithIdsIs ==
    ASSUME rip \in Jobs(Engines), NEW ids
    PROVE  /\ WithIds(ids) \in Seq(TitleRecords)
           /\ DOMAIN WithIds(ids) = 1..Len(WithIds(ids))
           /\ \A k \in DOMAIN WithIds(ids) : WithIds(ids)[k].id \in ids
                 /\ \E i \in DOMAIN rip.scan : WithIds(ids)[k] = rip.scan[i]
           /\ \A i \in DOMAIN rip.scan : rip.scan[i].id \in ids =>
                 \E k \in DOMAIN WithIds(ids) : WithIds(ids)[k] = rip.scan[i]
           /\ \A k, l \in DOMAIN WithIds(ids) :
                 k < l => WithIds(ids)[k].id < WithIds(ids)[l].id
<1> DEFINE K == Holding(ids)
<1>1. K \in SUBSET DOMAIN rip.scan
      /\ \A i \in DOMAIN rip.scan : i \in K <=> rip.scan[i].id \in ids
  BY DEF Holding
<1>2. WithIds(ids) = Scanned(K)
  BY DEF WithIds
<1> HIDE DEF K
<1>3. /\ Len(Scanned(K)) = Cardinality(K) /\ Cardinality(K) \in Nat
      /\ Scanned(K) \in Seq(TitleRecords)
      /\ DOMAIN Scanned(K) = 1..Cardinality(K)
      /\ \A k \in DOMAIN Scanned(K) : \E i \in K : Scanned(K)[k] = rip.scan[i]
      /\ \A i \in K :
            \E k \in DOMAIN Scanned(K) : Scanned(K)[k] = rip.scan[i]
      /\ \A k, l \in DOMAIN Scanned(K) :
            k < l => Scanned(K)[k].id < Scanned(K)[l].id
  BY <1>1, ScannedIs
<1> QED  BY <1>1, <1>2, <1>3

----------------------------------------------------------------------------
(* The selection.                                                          *)

(* Titles of the scan, none of them twice.                                 *)
Selectable(s) ==
    /\ s \in Seq(TitleRecords)
    /\ \A k \in DOMAIN s : \E i \in DOMAIN rip.scan : s[k] = rip.scan[i]
    /\ \A k, l \in DOMAIN s : s[k].id = s[l].id => k = l

(* What ascends is there once.                                             *)
LEMMA AscendsOnce ==
    ASSUME NEW s \in Seq(TitleRecords),
           \A k, l \in DOMAIN s : k < l => s[k].id < s[l].id
    PROVE  \A k, l \in DOMAIN s : s[k].id = s[l].id => k = l
<1> SUFFICES ASSUME NEW k \in DOMAIN s, NEW l \in DOMAIN s,
                    s[k].id = s[l].id
             PROVE  k = l
  OBVIOUS
<1>1. k \in Nat /\ l \in Nat /\ s[k] \in TitleRecords /\ s[l] \in TitleRecords
  OBVIOUS
<1>2. s[k].id \in Nat /\ s[l].id \in Nat
  BY <1>1 DEF TitleRecords
<1>3. ~(k < l) /\ ~(l < k)
  BY <1>2
<1> QED  BY <1>1, <1>3

(* Titles selected by position, and titles selected by id, are selectable. *)
LEMMA ScannedSelects ==
    ASSUME rip \in Jobs(Engines), NEW K \in SUBSET DOMAIN rip.scan
    PROVE  Selectable(Scanned(K))
<1>1. /\ Scanned(K) \in Seq(TitleRecords)
      /\ \A k \in DOMAIN Scanned(K) :
            \E i \in K : Scanned(K)[k] = rip.scan[i]
      /\ \A k, l \in DOMAIN Scanned(K) :
            k < l => Scanned(K)[k].id < Scanned(K)[l].id
  BY ScannedIs
<1>2. \A k, l \in DOMAIN Scanned(K) :
         Scanned(K)[k].id = Scanned(K)[l].id => k = l
  BY <1>1, AscendsOnce
<1>3. \A k \in DOMAIN Scanned(K) :
         \E i \in DOMAIN rip.scan : Scanned(K)[k] = rip.scan[i]
  BY <1>1
<1> QED  BY <1>1, <1>2, <1>3 DEF Selectable

(* The titles with certain ids are told apart by their ids.                *)
LEMMA WithIdsSelects ==
    ASSUME rip \in Jobs(Engines), NEW ids
    PROVE  Selectable(WithIds(ids))
<1>1. Holding(ids) \in SUBSET DOMAIN rip.scan
  BY DEF Holding
<1> QED  BY <1>1, ScannedSelects DEF WithIds

(* The user's picks: each the title of its id; if all are in the scan, the *)
(* n-th title is the n-th pick.                                            *)
LEMMA PickedIs ==
    ASSUME rip \in Jobs(Engines)
    PROVE  /\ Selectable(SelectedTitles)
           /\ PicksInOrder =>
                 /\ DOMAIN SelectedTitles = DOMAIN rip.picks
                 /\ \A k \in DOMAIN rip.picks :
                       SelectedTitles[k].id = rip.picks[k]
<1> DEFINE P == rip.picks
           K == {k \in DOMAIN P : P[k] \in IdsOf(rip.scan)}
           known == Appended(P, K)
           n == Cardinality(K)
<1>1. /\ P \in Seq(Nat \ {0}) /\ K \in SUBSET DOMAIN P
      /\ \A i, j \in DOMAIN P : P[i] = P[j] => i = j
  BY JobIs
<1>2. K \in SUBSET Nat /\ IsFiniteSet(K)
      /\ Len(P) \in Nat /\ DOMAIN P = 1..Len(P)
  BY <1>1, SomePositions
<1>3. /\ n \in Nat /\ DOMAIN known = 1..n
      /\ \A k \in 1..n : Nth(K, k) \in K /\ known[k] = P[Nth(K, k)]
      /\ \A k, l \in 1..n : k < l => Nth(K, k) < Nth(K, l)
  BY <1>2, AppendedIs
<1>4. SelectedTitles = [k \in DOMAIN known |-> WithIds({known[k]})[1]]
  BY DEF SelectedTitles
<1>5. \A k \in 1..n :
         /\ SelectedTitles[k] \in TitleRecords
         /\ SelectedTitles[k].id = known[k]
         /\ \E i \in DOMAIN rip.scan : SelectedTitles[k] = rip.scan[i]
  <2> SUFFICES ASSUME NEW k \in 1..n
               PROVE  /\ SelectedTitles[k] \in TitleRecords
                      /\ SelectedTitles[k].id = known[k]
                      /\ \E i \in DOMAIN rip.scan :
                            SelectedTitles[k] = rip.scan[i]
    OBVIOUS
  <2> DEFINE W == WithIds({known[k]})
  <2>1. known[k] \in IdsOf(rip.scan)
    BY <1>3
  <2>2. PICK i \in DOMAIN rip.scan : rip.scan[i].id = known[k]
    BY <2>1 DEF IdsOf
  <2>3. SelectedTitles[k] = W[1]
    BY <1>3, <1>4
  <2> HIDE DEF W, known, K
  <2>4. /\ W \in Seq(TitleRecords) /\ DOMAIN W = 1..Len(W)
        /\ \A l \in DOMAIN W : W[l].id \in {known[k]}
              /\ \E j \in DOMAIN rip.scan : W[l] = rip.scan[j]
        /\ \A j \in DOMAIN rip.scan : rip.scan[j].id \in {known[k]} =>
              \E l \in DOMAIN W : W[l] = rip.scan[j]
    BY WithIdsIs DEF W
  <2>5. 1 \in DOMAIN W
    <3>1. PICK l \in DOMAIN W : W[l] = rip.scan[i]
      BY <2>2, <2>4
    <3>2. Len(W) \in Nat
      BY <2>4
    <3> QED  BY <2>4, <3>1, <3>2
  <2>6. W[1] \in TitleRecords
    BY <2>4, <2>5
  <2> QED  BY <2>3, <2>4, <2>5, <2>6
<1>6. DOMAIN SelectedTitles = 1..n
  BY <1>3, <1>4
<1>7. SelectedTitles \in Seq(TitleRecords)
  <2> HIDE DEF known, K
  <2>1. SelectedTitles = [k \in 1..n |-> SelectedTitles[k]]
    BY <1>3, <1>4
  <2> QED  BY <1>3, <1>5, <2>1
<1>8. \A k, l \in 1..n : known[k] = known[l] => k = l
  <2> SUFFICES ASSUME NEW k \in 1..n, NEW l \in 1..n, known[k] = known[l]
               PROVE  k = l
    OBVIOUS
  <2>1. Nth(K, k) \in K /\ Nth(K, l) \in K /\ P[Nth(K, k)] = P[Nth(K, l)]
    BY <1>3
  <2>2. Nth(K, k) = Nth(K, l)
    BY <1>1, <2>1
  <2>3. Nth(K, k) \in Nat
    BY <1>2, <2>1
  <2>4. k \in Nat /\ l \in Nat
    BY <1>3
  <2>5. ~(k < l) /\ ~(l < k)
    BY <1>3, <2>2, <2>3
  <2> QED  BY <2>4, <2>5
<1>9. Selectable(SelectedTitles)
  <2> HIDE DEF known, K
  <2> QED  BY <1>5, <1>6, <1>7, <1>8 DEF Selectable
<1>10. ASSUME PicksInOrder
       PROVE  /\ DOMAIN SelectedTitles = DOMAIN P
              /\ \A k \in DOMAIN P : SelectedTitles[k].id = P[k]
  <2>1. K = DOMAIN P
    BY <1>10 DEF PicksInOrder
  <2> DEFINE m == Len(P)
             f == [k \in 1..m |-> k]
  <2>2. m \in Nat /\ DOMAIN P = 1..m
    BY <1>2
  <2>3. /\ f \in [1..m -> Nat] /\ \A i \in 1..m : f[i] \in K
        /\ \A x \in K : \E i \in 1..m : x = f[i]
        /\ \A i, j \in 1..m : i < j => f[i] < f[j]
    <3>1. K = 1..m
      BY <2>1, <2>2
    <3> HIDE DEF K
    <3>2. \A i \in 1..m : f[i] = i /\ i \in Nat
      BY <2>2
    <3> QED  BY <3>1, <3>2
  <2> HIDE DEF f, K, m
  <2>4. Cardinality(K) = m /\ \A k \in 1..m : f[k] = Nth(K, k)
    <3>1. Ascends(f, m, K)
      BY <2>2, <2>3 DEF Ascends
    <3> QED  BY <3>1, Ascending
  <2>5. \A k \in 1..m : Nth(K, k) = k
    BY <2>4 DEF f
  <2>6. \A k \in 1..m : known[k] = P[k]
    BY <1>3, <2>4, <2>5
  <2> HIDE DEF known
  <2> QED  BY <1>5, <1>6, <2>2, <2>4, <2>6
<1> QED  BY <1>9, <1>10

(* The longest title.                                                      *)
LEMMA LongestIs ==
    ASSUME NEW s \in Seq(TitleRecords), s # <<>>
    PROVE  \E k \in DOMAIN s : /\ Longest(s) = s[k]
                               /\ \A j \in DOMAIN s : s[j].secs <= s[k].secs
<1> DEFINE n == Len(s)
           f == [k \in 1..n |-> s[k].secs]
           Fits(k) == \A j \in DOMAIN s : \/ s[j].secs < s[k].secs
                                          \/ s[j].secs = s[k].secs /\ k <= j
<1>1. n \in Nat \ {0} /\ DOMAIN s = 1..n
  BY EmptySeq
<1>2. \A k \in DOMAIN s : s[k].secs \in Nat
  <2>1. \A k \in DOMAIN s : s[k] \in TitleRecords
    OBVIOUS
  <2> QED  BY <2>1 DEF TitleRecords
<1>3. f \in [1..n -> Nat] /\ \A k \in 1..n : f[k] = s[k].secs
  BY <1>1, <1>2
<1>4. \E k \in 1..n : \A j \in 1..n :
         f[j] < f[k] \/ (f[j] = f[k] /\ k <= j)
  <2> HIDE DEF f, n
  <2> QED  BY <1>1, <1>3, Largest
<1>5. \E k \in DOMAIN s : Fits(k)
  <2> HIDE DEF f, n
  <2> QED  BY <1>1, <1>3, <1>4
<1> DEFINE m == CHOOSE k \in DOMAIN s : Fits(k)
<1>6. Longest(s) = s[m]
  BY DEF Longest
<1>7. m \in DOMAIN s /\ Fits(m)
  <2> HIDE DEF Fits
  <2> QED  BY <1>5
<1> HIDE DEF m
<1>8. \A j \in DOMAIN s : s[j].secs <= s[m].secs
  BY <1>2, <1>7
<1> QED  BY <1>6, <1>7, <1>8

(* The main feature and its extras: the feature is the longest of the      *)
(* titles that are long enough, and far longer than any of the extras.     *)
LEMMA FeatureIs ==
    ASSUME rip \in Jobs(Engines), NEW min \in Nat, AtLeast(min) # <<>>,
           NEW main, main = Longest(AtLeast(min)),
           NEW s, s = <<main>> \o SelectExtras(main)
    PROVE  /\ Selectable(s)
           /\ \A k \in DOMAIN s : s[k].secs <= s[1].secs
           /\ ~(rip.extras /\ rip.engine # "uhd") => Len(s) = 1
<1> DEFINE K == LongEnough(min)
           B == InBand(main)
           X == SelectExtras(main)
<1>1. K \in SUBSET DOMAIN rip.scan /\ AtLeast(min) = Scanned(K)
  BY DEF LongEnough, AtLeast
<1>2. Selectable(AtLeast(min))
  <2> HIDE DEF K
  <2> QED  BY <1>1, ScannedSelects
<1>3. \E i \in DOMAIN rip.scan : main = rip.scan[i]
  <2>1. \E k \in DOMAIN AtLeast(min) : main = AtLeast(min)[k]
    BY <1>2, LongestIs DEF Selectable
  <2> QED  BY <1>2, <2>1 DEF Selectable
<1>4. main \in TitleRecords /\ main.secs \in Nat
  BY <1>3, TitleIs
<1>5. B \in SUBSET DOMAIN rip.scan
      /\ \A i \in B : rip.scan[i].id # main.id
                        /\ rip.scan[i].secs * 10 <= main.secs * 9
  BY DEF InBand
<1>6. X = IF rip.extras /\ rip.engine # "uhd" THEN Scanned(B) ELSE <<>>
  BY DEF SelectExtras
<1> HIDE DEF B, X, K
<1>7. /\ X \in Seq(TitleRecords)
      /\ \A k \in DOMAIN X : \E i \in B : X[k] = rip.scan[i]
      /\ \A k, l \in DOMAIN X : X[k].id = X[l].id => k = l
  <2>1. CASE ~(rip.extras /\ rip.engine # "uhd")
    <3>1. X = <<>>
      BY <1>6, <2>1
    <3>2. DOMAIN X = {} /\ X \in Seq(TitleRecords)
      BY <3>1
    <3> QED  BY <3>2
  <2>2. CASE rip.extras /\ rip.engine # "uhd"
    <3>1. X = Scanned(B)
      BY <1>6, <2>2
    <3>2. Selectable(X)
      BY <1>5, <3>1, ScannedSelects
    <3>3. \A k \in DOMAIN X : \E i \in B : X[k] = rip.scan[i]
      BY <1>5, <3>1, ScannedIs
    <3> QED  BY <3>2, <3>3 DEF Selectable
  <2> QED  BY <2>1, <2>2
<1>8. \A k \in DOMAIN X : /\ X[k] \in TitleRecords /\ X[k].id # main.id
                          /\ X[k].secs <= main.secs
  <2> SUFFICES ASSUME NEW k \in DOMAIN X
               PROVE  /\ X[k] \in TitleRecords /\ X[k].id # main.id
                      /\ X[k].secs <= main.secs
    OBVIOUS
  <2>1. PICK i \in B : X[k] = rip.scan[i]
    BY <1>7
  <2>2. rip.scan[i].secs \in Nat /\ rip.scan[i] \in TitleRecords
    BY <1>5, <2>1, TitleIs
  <2>3. rip.scan[i].secs * 10 <= main.secs * 9 /\ rip.scan[i].id # main.id
    BY <1>5, <2>1
  <2>4. rip.scan[i].secs <= main.secs
    BY <1>4, <2>2, <2>3
  <2> QED  BY <2>1, <2>2, <2>3, <2>4
<1>9. /\ s \in Seq(TitleRecords) /\ Len(s) = 1 + Len(X) /\ Len(X) \in Nat
      /\ DOMAIN s = 1..Len(s) /\ DOMAIN X = 1..Len(X)
      /\ s[1] = main
      /\ \A k \in DOMAIN s \ {1} : k - 1 \in DOMAIN X /\ s[k] = X[k - 1]
  <2> DEFINE y == <<main>>
  <2>1. s = y \o X
    BY DEF X
  <2>2. y \in Seq(TitleRecords) /\ Len(y) = 1 /\ y[1] = main
    BY <1>4
  <2> HIDE DEF y
  <2>3. X \in Seq(TitleRecords) /\ Len(X) \in Nat
    BY <1>7
  <2>4. /\ y \o X \in Seq(TitleRecords)
        /\ Len(y \o X) = Len(y) + Len(X)
        /\ \A i \in 1..Len(y) + Len(X) :
              (y \o X)[i] = IF i <= Len(y) THEN y[i] ELSE X[i - Len(y)]
    BY <2>2, <2>3, ConcatProperties
  <2>5. s \in Seq(TitleRecords) /\ Len(s) = 1 + Len(X)
    BY <2>1, <2>2, <2>4
  <2>6. DOMAIN s = 1..Len(s) /\ DOMAIN X = 1..Len(X)
    BY <2>3, <2>5
  <2>7. \A k \in 1..Len(s) : s[k] = IF k <= 1 THEN y[k] ELSE X[k - 1]
    BY <2>1, <2>2, <2>4, <2>5
  <2>8. s[1] = main
    BY <2>2, <2>3, <2>7, <2>5
  <2>9. \A k \in DOMAIN s \ {1} : k - 1 \in DOMAIN X /\ s[k] = X[k - 1]
    BY <2>3, <2>6, <2>7, <2>5
  <2> QED  BY <2>3, <2>6, <2>8, <2>9, <2>5
<1>10. \A k \in DOMAIN s : s[k].secs <= s[1].secs
  <2> SUFFICES ASSUME NEW k \in DOMAIN s
               PROVE  s[k].secs <= s[1].secs
    OBVIOUS
  <2>1. CASE k = 1
    BY <1>4, <1>9, <2>1
  <2>2. CASE k # 1
    BY <1>8, <1>9, <2>2
  <2> QED  BY <2>1, <2>2
<1>11. \A k \in DOMAIN s : \E i \in DOMAIN rip.scan : s[k] = rip.scan[i]
  <2> SUFFICES ASSUME NEW k \in DOMAIN s
               PROVE  \E i \in DOMAIN rip.scan : s[k] = rip.scan[i]
    OBVIOUS
  <2>1. CASE k = 1
    BY <1>3, <1>9, <2>1
  <2>2. CASE k # 1
    BY <1>5, <1>7, <1>9, <2>2
  <2> QED  BY <2>1, <2>2
<1>12. \A k, l \in DOMAIN s : s[k].id = s[l].id => k = l
  <2> SUFFICES ASSUME NEW k \in DOMAIN s, NEW l \in DOMAIN s,
                      s[k].id = s[l].id
               PROVE  k = l
    OBVIOUS
  <2>1. CASE k # 1 /\ l # 1
    <3>1. k - 1 = l - 1
      BY <1>7, <1>9, <2>1, SMTT(30)
    <3>2. k \in Nat /\ l \in Nat
      BY <1>9
    <3> QED  BY <3>1, <3>2
  <2>2. CASE k = 1 /\ l # 1
    BY <1>8, <1>9, <2>2
  <2>3. CASE k # 1 /\ l = 1
    BY <1>8, <1>9, <2>3
  <2> QED  BY <2>1, <2>2, <2>3
<1>13. ~(rip.extras /\ rip.engine # "uhd") => Len(s) = 1
  <2> SUFFICES ASSUME ~(rip.extras /\ rip.engine # "uhd")
               PROVE  Len(s) = 1
    OBVIOUS
  <2>1. X = <<>>
    BY <1>6
  <2> QED  BY <1>9, <2>1
<1> QED  BY <1>9, <1>10, <1>11, <1>12, <1>13 DEF Selectable

(* What is selected: titles of the scan, none twice; the picks in their    *)
(* order if the scan has them all; every title of a disc of episodes that  *)
(* is long enough; or the main feature, which no extra is longer than.     *)
LEMMA SelectionIs ==
    ASSUME rip \in Jobs(Engines), NEW s, s = SelectTitles
    PROVE  /\ Selectable(s)
           /\ rip.picks # <<>> /\ PicksInOrder =>
                 /\ DOMAIN s = DOMAIN rip.picks
                 /\ \A k \in DOMAIN rip.picks : s[k].id = rip.picks[k]
           /\ rip.picks = <<>> /\ PerTitle =>
                 \A k, l \in DOMAIN s : k < l => s[k].id < s[l].id
           /\ rip.picks = <<>> /\ ~PerTitle /\ Len(s) > 1 =>
                 \A k \in DOMAIN s : s[k].secs <= s[1].secs
<1>1. Floor \in Nat
  <2>1. 5 \in Nat /\ 20 \in Nat /\ 10 \in Nat /\ 60 \in Nat /\ 0 \in Nat
    OBVIOUS
  <2>2. CASE PerTitle
    BY <2>1, <2>2 DEF Floor
  <2>3. CASE ~PerTitle /\ rip.engine = "HandBrake" /\ ~rip.series
    BY <2>1, <2>3 DEF Floor
  <2>4. CASE /\ ~PerTitle /\ ~(rip.engine = "HandBrake" /\ ~rip.series)
             /\ rip.engine \in {"bdmv", "uhd"}
    BY <2>1, <2>4 DEF Floor
  <2>5. CASE /\ ~PerTitle /\ ~(rip.engine = "HandBrake" /\ ~rip.series)
             /\ rip.engine \notin {"bdmv", "uhd"}
    BY <2>1, <2>5 DEF Floor
  <2> QED  BY <2>2, <2>3, <2>4, <2>5
<1>2. CASE rip.picks # <<>>
  <2>1. s = SelectedTitles
    BY <1>2 DEF SelectTitles
  <2> QED  BY <1>2, <2>1, PickedIs
<1>3. CASE rip.picks = <<>> /\ (PerTitle \/ AtLeast(Floor) = <<>>)
  <2>1. s = AtLeast(Floor)
    BY <1>3 DEF SelectTitles
  <2> DEFINE K == LongEnough(Floor)
  <2>2. K \in SUBSET DOMAIN rip.scan /\ s = Scanned(K)
    BY <2>1 DEF LongEnough, AtLeast
  <2> HIDE DEF K
  <2>3. Selectable(s)
    BY <2>2, ScannedSelects
  <2>4. \A k, l \in DOMAIN s : k < l => s[k].id < s[l].id
    BY <2>2, ScannedIs
  <2>5. ~PerTitle => Len(s) = 0
    BY <1>3, <2>1
  <2> QED  BY <1>3, <2>3, <2>4, <2>5
<1>4. CASE rip.picks = <<>> /\ ~(PerTitle \/ AtLeast(Floor) = <<>>)
  <2> DEFINE main == Longest(AtLeast(Floor))
  <2>1. s = <<main>> \o SelectExtras(main)
    BY <1>4 DEF SelectTitles
  <2>2. Selectable(s) /\ \A k \in DOMAIN s : s[k].secs <= s[1].secs
    BY <1>1, <1>4, <2>1, FeatureIs
  <2> QED  BY <1>4, <2>2
<1> QED  BY <1>2, <1>3, <1>4

(* As many ids as titles, when none is there twice.                        *)
LEMMA IdsCount ==
    ASSUME NEW s \in Seq(TitleRecords),
           \A k, l \in DOMAIN s : s[k].id = s[l].id => k = l
    PROVE  /\ IsFiniteSet(IdsOf(s)) /\ Cardinality(IdsOf(s)) = Len(s)
           /\ Len(s) \in Nat /\ DOMAIN s = 1..Len(s)
<1> DEFINE n == Len(s)
           g == [k \in 1..n |-> s[k].id]
<1>1. n \in Nat /\ DOMAIN s = 1..n
  OBVIOUS
<1>2. IsFiniteSet(1..n) /\ Cardinality(1..n) = n
  <2>1. 1 \in Int /\ n \in Int /\ (1 > n => n = 0) /\ n - 1 + 1 = n
    BY <1>1
  <2> QED  BY <2>1, FS_Interval
<1>3. g \in Surjection(1..n, IdsOf(s)) /\ g \in Injection(1..n, IdsOf(s))
  <2>1. IdsOf(s) = {s[k].id : k \in 1..n}
    BY <1>1 DEF IdsOf
  <2>2. \A k, l \in 1..n : g[k] = g[l] => k = l
    BY <1>1
  <2>3. g \in [1..n -> IdsOf(s)]
    BY <2>1
  <2>4. \A x \in IdsOf(s) : \E k \in 1..n : g[k] = x
    BY <2>1
  <2> QED  BY <2>2, <2>3, <2>4 DEF Injection, Surjection, IsInjective
<1> QED  BY <1>1, <1>2, <1>3, FS_Surjection

(* Two ways to list the same numbers in their order are one.               *)
LEMMA SameAscent ==
    ASSUME NEW m, NEW f, NEW n, NEW g, NEW K,
           Ascends(f, m, K), Ascends(g, n, K)
    PROVE  m = n /\ \A k \in 1..n : f[k] = g[k]
<1>1. Cardinality(K) = m /\ \A k \in 1..m : f[k] = Nth(K, k)
  BY Ascending
<1>2. Cardinality(K) = n /\ \A k \in 1..n : g[k] = Nth(K, k)
  BY Ascending
<1> QED  BY <1>1, <1>2

(* The files left in rip/: the titles chosen whose ids are left, in the    *)
(* order of the disc.                                                      *)
LEMMA SpoolIs ==
    ASSUME rip \in Jobs(Engines), NEW s, Selectable(s),
           NEW ids \in SUBSET IdsOf(s), NEW w, w = WithIds(ids)
    PROVE  /\ Selectable(w) /\ IdsOf(w) = ids
           /\ \A k, l \in DOMAIN w : k < l => w[k].id < w[l].id
           /\ \A k \in DOMAIN w : \E l \in DOMAIN s : w[k] = s[l]
           /\ \A l \in DOMAIN s : s[l].id \in ids =>
                 \E k \in DOMAIN w : w[k] = s[l]
           /\ Len(w) <= Len(s)
           /\ ids = IdsOf(s) => Len(w) = Len(s)
<1>1. Selectable(w)
  BY WithIdsSelects
<1>2. /\ \A k \in DOMAIN w : w[k].id \in ids
            /\ \E i \in DOMAIN rip.scan : w[k] = rip.scan[i]
      /\ \A i \in DOMAIN rip.scan : rip.scan[i].id \in ids =>
            \E k \in DOMAIN w : w[k] = rip.scan[i]
      /\ \A k, l \in DOMAIN w : k < l => w[k].id < w[l].id
  BY WithIdsIs
<1>3. \A l \in DOMAIN s : \E i \in DOMAIN rip.scan : s[l] = rip.scan[i]
  BY DEF Selectable
<1>4. \A l \in DOMAIN s : s[l].id \in ids => \E k \in DOMAIN w : w[k] = s[l]
  BY <1>2, <1>3
<1>5. \A k \in DOMAIN w : \E l \in DOMAIN s : w[k] = s[l]
  <2> SUFFICES ASSUME NEW k \in DOMAIN w
               PROVE  \E l \in DOMAIN s : w[k] = s[l]
    OBVIOUS
  <2>1. PICK l \in DOMAIN s : s[l].id = w[k].id
    BY <1>2 DEF IdsOf
  <2>2. PICK i \in DOMAIN rip.scan : w[k] = rip.scan[i]
    BY <1>2
  <2>3. PICK j \in DOMAIN rip.scan : s[l] = rip.scan[j]
    BY <1>3
  <2>4. i = j
    BY <2>1, <2>2, <2>3, TitleIs
  <2> QED  BY <2>2, <2>3, <2>4
<1>6. IdsOf(w) = ids
  <2>1. IdsOf(w) \subseteq ids
    BY <1>2 DEF IdsOf
  <2>2. \A x \in ids : x \in IdsOf(w)
    <3> SUFFICES ASSUME NEW x \in ids
                 PROVE  x \in IdsOf(w)
      OBVIOUS
    <3>1. PICK l \in DOMAIN s : s[l].id = x
      BY DEF IdsOf
    <3>2. PICK k \in DOMAIN w : w[k] = s[l]
      BY <1>4, <3>1
    <3> QED  BY <3>1, <3>2 DEF IdsOf
  <2> QED  BY <2>1, <2>2
<1>7. ASSUME ids = IdsOf(s)
      PROVE  Len(w) = Len(s)
  <2>1. Cardinality(IdsOf(w)) = Len(w)
    BY <1>1, IdsCount DEF Selectable
  <2>2. Cardinality(IdsOf(s)) = Len(s)
    BY IdsCount DEF Selectable
  <2> QED  BY <1>6, <1>7, <2>1, <2>2
<1>8. Len(w) <= Len(s)
  <2>1. /\ Cardinality(IdsOf(w)) = Len(w) /\ Cardinality(IdsOf(s)) = Len(s)
        /\ IsFiniteSet(IdsOf(s))
    BY <1>1, IdsCount DEF Selectable
  <2> QED  BY <1>6, <2>1, FS_Subset
<1> QED  BY <1>1, <1>2, <1>4, <1>5, <1>6, <1>7, <1>8

(* With all its files there, the n-th is the n-th pick, or the n-th of the *)
(* titles chosen.                                                          *)
LEMMA FullSpool ==
    ASSUME rip \in Jobs(Engines), NEW s, s = SelectTitles,
           NEW w, w = WithIds(IdsOf(s))
    PROVE  /\ rip.picks # <<>> /\ PicksInOrder =>
                 \A k \in DOMAIN w : /\ k \in DOMAIN rip.picks
                                     /\ w[k].id = rip.picks[k]
           /\ rip.picks = <<>> /\ PerTitle =>
                 \A k \in DOMAIN w : k \in DOMAIN s /\ w[k] = s[k]
<1>1. Selectable(s)
  BY SelectionIs
<1>2. /\ Selectable(w) /\ IdsOf(w) = IdsOf(s)
      /\ \A k, l \in DOMAIN w : k < l => w[k].id < w[l].id
      /\ \A k \in DOMAIN w : \E l \in DOMAIN s : w[k] = s[l]
  BY <1>1, SpoolIs
<1> DEFINE m == Len(w)
           f == [k \in 1..m |-> w[k].id]
<1>3. m \in Nat /\ DOMAIN w = 1..m /\ Len(s) \in Nat /\ DOMAIN s = 1..Len(s)
  BY <1>1, <1>2 DEF Selectable
<1>4. \A r \in TitleRecords : r.id \in Nat
  BY DEF TitleRecords
<1>5. \A k \in DOMAIN w : w[k].id \in Nat
  BY <1>2, <1>4 DEF Selectable
<1>6. f \in [1..m -> Nat] /\ \A i, j \in 1..m : i < j => f[i] < f[j]
  BY <1>2, <1>3, <1>5
<1>7. /\ \A i \in 1..m : f[i] \in IdsOf(s)
      /\ \A x \in IdsOf(s) : \E i \in 1..m : x = f[i]
  <2>1. IdsOf(s) = {w[k].id : k \in 1..m}
    BY <1>2, <1>3 DEF IdsOf
  <2> QED  BY <2>1
<1>8. \A k \in 1..m : f[k] = w[k].id
  OBVIOUS
<1> HIDE DEF f, m
<1>9. Ascends(f, m, IdsOf(s))
  BY <1>3, <1>6, <1>7 DEF Ascends
<1>10. ASSUME rip.picks # <<>>, PicksInOrder
      PROVE  \A k \in DOMAIN w : /\ k \in DOMAIN rip.picks
                                 /\ w[k].id = rip.picks[k]
  <2> DEFINE P == rip.picks
             n == Len(P)
  <2>1. P \in Seq(Nat \ {0})
    BY JobIs
  <2>2. n \in Nat /\ DOMAIN P = 1..n /\ P \in [1..n -> Nat]
    BY <2>1
  <2>3. DOMAIN s = DOMAIN P /\ \A k \in DOMAIN P : s[k].id = P[k]
    BY <1>10, SelectionIs
  <2>4. \A i, j \in 1..n : i < j => P[i] < P[j]
    BY <1>10, <2>2 DEF PicksInOrder
  <2>5. /\ \A i \in 1..n : P[i] \in IdsOf(s)
        /\ \A x \in IdsOf(s) : \E i \in 1..n : x = P[i]
    BY <2>2, <2>3 DEF IdsOf
  <2> HIDE DEF P, n
  <2>6. m = n /\ \A k \in 1..n : f[k] = P[k]
    <3>1. Ascends(P, n, IdsOf(s))
      BY <2>2, <2>4, <2>5 DEF Ascends
    <3> QED  BY <1>9, <3>1, SameAscent
  <2>7. \A k \in DOMAIN w : k \in DOMAIN P /\ w[k].id = P[k]
    BY <1>3, <1>8, <2>2, <2>6
  <2> QED  BY <2>7 DEF P
<1>11. ASSUME rip.picks = <<>>, PerTitle
       PROVE  \A k \in DOMAIN w : k \in DOMAIN s /\ w[k] = s[k]
  <2> DEFINE n == Len(s)
             g == [k \in 1..n |-> s[k].id]
  <2>1. \A k, l \in DOMAIN s : k < l => s[k].id < s[l].id
    BY <1>11, SelectionIs
  <2>2. \A k \in DOMAIN s : s[k].id \in Nat
    BY <1>1, <1>4 DEF Selectable
  <2>3. n \in Nat /\ DOMAIN s = 1..n
    BY <1>3
  <2>4. g \in [1..n -> Nat] /\ \A i, j \in 1..n : i < j => g[i] < g[j]
    BY <2>1, <2>2, <2>3
  <2>5. /\ \A i \in 1..n : g[i] \in IdsOf(s)
        /\ \A x \in IdsOf(s) : \E i \in 1..n : x = g[i]
    BY <2>3 DEF IdsOf
  <2>6. \A k \in 1..n : g[k] = s[k].id
    OBVIOUS
  <2> HIDE DEF g, n
  <2>7. m = n /\ \A k \in 1..n : f[k] = g[k]
    <3>1. Ascends(g, n, IdsOf(s))
      BY <2>3, <2>4, <2>5 DEF Ascends
    <3> QED  BY <1>9, <3>1, SameAscent
  <2>8. \A k \in DOMAIN w : k \in DOMAIN s /\ w[k].id = s[k].id
    BY <1>3, <1>8, <2>3, <2>6, <2>7
  <2>9. ASSUME NEW k \in DOMAIN w
        PROVE  w[k] = s[k]
    <3>1. PICK l \in DOMAIN s : w[k] = s[l]
      BY <1>2
    <3>2. k = l
      BY <1>1, <2>8, <3>1 DEF Selectable
    <3> QED  BY <3>1, <3>2
  <2> QED  BY <2>8, <2>9
<1> QED  BY <1>10, <1>11

----------------------------------------------------------------------------
(* The paths.                                                              *)

FirstPath == RenderMain(<<>>, 1)

(* The extras are in folders of their own.                                 *)
LEMMA BucketIs ==
    ASSUME NEW t, NEW main
    PROVE  ClassifyExtra(t, main) # "main"
BY DEF ClassifyExtra, Bucket

(* Telling paths apart by their suffix leaves the rest of them as it was.  *)
LEMMA SuffixIs ==
    ASSUME NEW srcs, NEW i
    PROVE  /\ OutputPath(srcs, i).folder = Rendered(srcs, i).folder
           /\ OutputPath(srcs, i).number = Rendered(srcs, i).number
           /\ OutputPath(srcs, i).titled = Rendered(srcs, i).titled
           /\ (\A j \in DOMAIN srcs \ {i} :
                   Rendered(srcs, j) # Rendered(srcs, i)) =>
                 OutputPath(srcs, i) = Rendered(srcs, i)
<1>1. \E r : r = Rendered(srcs, i) /\ \E f, n, t, x :
         r = [folder |-> f, number |-> n, titled |-> t, suffix |-> x]
  BY DEF Rendered, RenderMain, Path
<1>2. PICK r, f, n, t, x :
         /\ r = Rendered(srcs, i)
         /\ r = [folder |-> f, number |-> n, titled |-> t, suffix |-> x]
  BY <1>1
<1>3. OutputPath(srcs, i) = r \/ OutputPath(srcs, i) = [r EXCEPT !.suffix = i]
  BY <1>2 DEF OutputPath
<1>4. (\A j \in DOMAIN srcs \ {i} :
          Rendered(srcs, j) # Rendered(srcs, i)) => OutputPath(srcs, i) = r
  BY <1>2 DEF OutputPath
<1> QED  BY <1>2, <1>3, <1>4

(* The path of a main file: it has the number of the episode that the user *)
(* has mapped its title to, or that of its position.                       *)
LEMMA RenderMainIs ==
    ASSUME rip \in Jobs(Engines), NEW srcs, NEW i
    PROVE  /\ RenderMain(srcs, i).folder = "main"
           /\ ~rip.series => RenderMain(srcs, i) = Path("main", 0, FALSE)
           /\ rip.engine # "HandBrake" =>
                 RenderMain(srcs, i) = RenderMain(<<>>, i)
           /\ RenderMain(srcs, i).titled =>
                 /\ rip.series /\ rip.picks # <<>>
                 /\ rip.engine = "HandBrake" =>
                       srcs[i].id \in DOMAIN rip.map
                 /\ rip.engine # "HandBrake" =>
                       /\ i <= Len(rip.picks)
                       /\ rip.picks[i] \in DOMAIN rip.map
           /\ rip.series /\ rip.engine = "HandBrake"
                /\ srcs[i].id \in DOMAIN rip.map =>
                 RenderMain(srcs, i).number = rip.map[srcs[i].id]
           /\ rip.series /\ rip.engine # "HandBrake"
                /\ i <= Len(rip.picks) /\ rip.picks[i] \in DOMAIN rip.map =>
                 RenderMain(srcs, i).number = rip.map[rip.picks[i]]
           /\ rip.series /\ rip.picks = <<>> =>
                 RenderMain(srcs, i).number = i
<1> DEFINE id == IF rip.engine = "HandBrake" THEN srcs[i].id
                 ELSE IF i <= Len(rip.picks) THEN rip.picks[i] ELSE 0
           mapped == id \in DOMAIN rip.map
           known == rip.map[id] \in rip.named
<1>1. RenderMain(srcs, i) =
         IF ~rip.series THEN Path("main", 0, FALSE)
         ELSE IF mapped THEN Path("main", rip.map[id], known)
         ELSE Path("main", i, FALSE)
  BY DEF RenderMain, id
<1>2. DOMAIN rip.map \subseteq Nat \ {0}
      /\ (rip.picks = <<>> => DOMAIN rip.map = {})
  BY JobIs
<1>3. mapped \in BOOLEAN /\ (mapped => rip.picks # <<>>)
  BY <1>2
<1>4. rip.engine # "HandBrake" =>
         RenderMain(srcs, i) = RenderMain(<<>>, i)
  BY DEF RenderMain
<1>5. mapped /\ rip.engine # "HandBrake" => i <= Len(rip.picks)
                                            /\ id = rip.picks[i]
  BY <1>2 DEF id
<1>6. /\ \A n, x : /\ Path("main", n, x).folder = "main"
                   /\ Path("main", n, x).number = n
      /\ \A n : /\ Path("main", n, FALSE).folder = "main"
                /\ Path("main", n, FALSE).number = n
                /\ Path("main", n, FALSE).titled = FALSE
  BY DEF Path
<1>7. rip.engine # "HandBrake" /\ i <= Len(rip.picks) => id = rip.picks[i]
  BY DEF id
<1>8. rip.engine = "HandBrake" => id = srcs[i].id
  BY DEF id
<1> HIDE DEF id, known
<1>9. ASSUME ~rip.series
      PROVE  /\ RenderMain(srcs, i) = Path("main", 0, FALSE)
             /\ RenderMain(srcs, i).folder = "main"
             /\ RenderMain(srcs, i).titled = FALSE
  BY <1>1, <1>6, <1>9
<1>10. ASSUME rip.series, mapped
       PROVE  /\ RenderMain(srcs, i).folder = "main"
              /\ RenderMain(srcs, i).number = rip.map[id]
  <2>1. RenderMain(srcs, i) = Path("main", rip.map[id], known)
    BY <1>1, <1>10
  <2> QED  BY <1>6, <2>1
<1>11. ASSUME rip.series, ~mapped
       PROVE  /\ RenderMain(srcs, i) = Path("main", i, FALSE)
              /\ RenderMain(srcs, i).folder = "main"
              /\ RenderMain(srcs, i).number = i
              /\ RenderMain(srcs, i).titled = FALSE
  <2>1. RenderMain(srcs, i) = Path("main", i, FALSE)
    BY <1>1, <1>11
  <2> QED  BY <1>6, <2>1
<1>12. rip.series \in BOOLEAN
  BY JobIs
<1>13. CASE ~rip.series
  BY <1>4, <1>9, <1>13
<1>14. CASE rip.series /\ mapped
  BY <1>3, <1>4, <1>5, <1>7, <1>8, <1>10, <1>14
<1>15. CASE rip.series /\ ~mapped
  BY <1>4, <1>7, <1>8, <1>11, <1>15
<1> QED  BY <1>12, <1>13, <1>14, <1>15

(* Next to its extras only the main feature is not in a bucket.            *)
LEMMA RenderedIs ==
    ASSUME NEW srcs, NEW i
    PROVE  /\ ~ExtrasMode(srcs) \/ i = MainIndex(srcs) =>
                 Rendered(srcs, i) = RenderMain(srcs, i)
           /\ ExtrasMode(srcs) /\ i # MainIndex(srcs) =>
                 /\ Rendered(srcs, i).folder # "main"
                 /\ Rendered(srcs, i).titled = FALSE
<1>1. CASE ~ExtrasMode(srcs) \/ i = MainIndex(srcs)
  BY <1>1 DEF Rendered
<1>2. CASE ExtrasMode(srcs) /\ i # MainIndex(srcs)
  <2> DEFINE f == ClassifyExtra(srcs[i], srcs[MainIndex(srcs)])
  <2>1. \E n : Rendered(srcs, i) = Path(f, n, FALSE)
    BY <1>2 DEF Rendered
  <2>2. f # "main"
    BY BucketIs
  <2> HIDE DEF f
  <2>3. Rendered(srcs, i).folder = f /\ Rendered(srcs, i).titled = FALSE
    BY <2>1 DEF Path
  <2> QED  BY <1>2, <2>2, <2>3
<1> QED  BY <1>1, <1>2

(* The largest of the files, and the first of those.                       *)
LEMMA MainIndexIs ==
    ASSUME NEW w \in Seq(TitleRecords), w # <<>>, rip.engine # "HandBrake"
    PROVE  /\ MainIndex(w) \in DOMAIN w
           /\ \A j \in DOMAIN w :
                 \/ w[j].size < w[MainIndex(w)].size
                 \/ w[j].size = w[MainIndex(w)].size /\ MainIndex(w) <= j
<1> DEFINE n == Len(w)
           f == [k \in 1..n |-> w[k].size]
           Fits(k) == \A j \in DOMAIN w :
                         w[j].size < w[k].size
                           \/ (w[j].size = w[k].size /\ k <= j)
<1>1. n \in Nat \ {0} /\ DOMAIN w = 1..n
  BY EmptySeq
<1>2. \A k \in DOMAIN w : w[k].size \in Nat
  <2>1. \A k \in DOMAIN w : w[k] \in TitleRecords
    OBVIOUS
  <2> QED  BY <2>1 DEF TitleRecords
<1>3. f \in [1..n -> Nat] /\ \A k \in 1..n : f[k] = w[k].size
  BY <1>1, <1>2
<1>4. \E k \in 1..n : \A j \in 1..n :
         f[j] < f[k] \/ (f[j] = f[k] /\ k <= j)
  <2> HIDE DEF f, n
  <2> QED  BY <1>1, <1>3, Largest
<1>5. \E k \in DOMAIN w : Fits(k)
  <2> HIDE DEF f, n
  <2>1. PICK k \in 1..n : \A j \in 1..n :
           f[j] < f[k] \/ (f[j] = f[k] /\ k <= j)
    BY <1>4
  <2>2. \A j \in DOMAIN w : w[j].size < w[k].size
                                \/ (w[j].size = w[k].size /\ k <= j)
    BY <1>1, <1>3, <2>1
  <2> QED  BY <1>1, <2>2
<1>6. MainIndex(w) = CHOOSE k \in DOMAIN w : Fits(k)
  BY DEF MainIndex
<1> HIDE DEF Fits
<1>7. MainIndex(w) \in DOMAIN w /\ Fits(MainIndex(w))
  BY <1>5, <1>6
<1> QED  BY <1>7 DEF Fits

----------------------------------------------------------------------------
(* The names.                                                              *)

(* What is known of a file and its path.                                   *)
Named(p, t) ==
    /\ /\ rip.series /\ (rip.engine = "HandBrake" \/ PicksInOrder)
       /\ p.titled \/ t.id \in DOMAIN rip.map
       => IsMapped(t, p.number)
    /\ PerTitle /\ rip.picks = <<>> /\ ~rip.extras => t = chosen[p.number]
    /\ ~PerTitle /\ p.folder = "main" /\ ExtrasMode(chosen) =>
          \A k \in DOMAIN chosen : IF rip.engine = "HandBrake"
                                   THEN chosen[k].secs <= t.secs
                                   ELSE chosen[k].size <= t.size

(* The largest title chosen, the first of them.                            *)
Biggest(t) == \A k \in DOMAIN chosen :
    \/ chosen[k].size < t.size
    \/ chosen[k].size = t.size /\ t.id <= chosen[k].id
(* Jobs whose files are named by their position.                           *)
ByPosition ==
    /\ rip.series
    /\ \/ rip.picks # <<>> /\ PicksInOrder
       \/ rip.picks = <<>> /\ PerTitle /\ ~rip.extras
ByBiggest == ~PerTitle /\ ExtrasMode(chosen)

(* A suffix says nothing.                                                  *)
LEMMA NamedAnyway ==
    ASSUME NEW srcs, NEW i, NEW t, Named(Rendered(srcs, i), t)
    PROVE  Named(OutputPath(srcs, i), t)
BY SuffixIs DEF Named

(* What HandBrake is given to encode.                                      *)
LEMMA EncodedIs ==
    ASSUME rip \in Jobs(Engines), chosen = SelectTitles,
           rip.engine = "HandBrake"
    PROVE  /\ Selectable(Sources)
           /\ rip.series \/ rip.picks # <<>> \/ Len(chosen) > 1 =>
                 Sources = chosen
           /\ PerTitle <=> rip.series
<1>1. Selectable(chosen)
  BY SelectionIs
<1>2. Selectable(WithIds({rip.feature}))
  BY WithIdsSelects
<1>3. Sources = IF ~rip.series /\ rip.picks = <<>> /\ Len(chosen) = 1
                THEN WithIds({rip.feature}) ELSE chosen
  BY DEF Sources
<1>4. Len(chosen) > 1 => Len(chosen) # 1
  BY <1>1 DEF Selectable
<1>5. PerTitle <=> rip.series
  BY DEF PerTitle, OnDVD
<1> QED  BY <1>1, <1>2, <1>3, <1>4, <1>5

(* The path of each of HandBrake's encodes is a good name for it.          *)
LEMMA EncodesNamed ==
    ASSUME rip \in Jobs(Engines), chosen = SelectTitles,
           rip.engine = "HandBrake", NEW i \in DOMAIN Sources
    PROVE  Named(OutputPath(Sources, i), Sources[i])
<1>1. PICK srcs : srcs = Sources
  OBVIOUS
<1>2. /\ rip.series \/ rip.picks # <<>> \/ Len(chosen) > 1 => srcs = chosen
      /\ PerTitle <=> rip.series
  BY <1>1, EncodedIs
<1>3. PICK r : r = Rendered(srcs, i)
  OBVIOUS
<1>4. MainIndex(srcs) = 1
  BY DEF MainIndex
<1>5. ExtrasMode(srcs) => ~PerTitle
  BY <1>2 DEF ExtrasMode
<1>6. ExtrasMode(chosen) => /\ srcs = chosen /\ ExtrasMode(srcs)
                            /\ rip.picks = <<>> /\ Len(chosen) > 1
  BY <1>2 DEF ExtrasMode
<1>7. CASE ~ExtrasMode(srcs) \/ i = MainIndex(srcs)
  <2>1. r = RenderMain(srcs, i)
    BY <1>3, <1>7, RenderedIs
  <2>2. rip.series /\ (r.titled \/ srcs[i].id \in DOMAIN rip.map) =>
           IsMapped(srcs[i], r.number)
    BY <2>1, RenderMainIs DEF IsMapped
  <2>3. PerTitle /\ rip.picks = <<>> => srcs[i] = chosen[r.number]
    <3>1. rip.series /\ rip.picks = <<>> => r.number = i
      BY <2>1, RenderMainIs
    <3> QED  BY <1>2, <3>1
  <2>4. ASSUME ~PerTitle, ExtrasMode(chosen), NEW k \in DOMAIN chosen
        PROVE  chosen[k].secs <= srcs[i].secs
    <3>1. i = 1
      BY <1>4, <1>6, <1>7, <2>4
    <3>2. chosen[k].secs <= chosen[1].secs
      BY <1>6, <2>4, SelectionIs
    <3> QED  BY <1>6, <2>4, <3>1, <3>2
  <2>5. Named(r, srcs[i])
    BY <2>2, <2>3, <2>4 DEF Named
  <2> QED  BY <1>1, <1>3, <2>5, NamedAnyway
<1>8. CASE ExtrasMode(srcs) /\ i # MainIndex(srcs)
  <2>1. r.folder # "main" /\ r.titled = FALSE
    BY <1>3, <1>8, RenderedIs
  <2>2. DOMAIN rip.map = {}
    BY <1>8, JobIs DEF ExtrasMode
  <2>3. Named(r, srcs[i])
    BY <1>5, <1>8, <2>1, <2>2 DEF Named
  <2> QED  BY <1>1, <1>3, <2>3, NamedAnyway
<1> QED  BY <1>7, <1>8

(* MakeMKV's files while none has left rip/.                               *)
LEMMA RipsNamed ==
    ASSUME rip \in Jobs(Engines), chosen = SelectTitles,
           rip.engine # "HandBrake", ripped = IdsOf(chosen),
           NEW i \in DOMAIN Sources
    PROVE  Named(OutputPath(Sources, i), Sources[i])
<1>1. PICK srcs : srcs = Sources /\ srcs = WithIds(IdsOf(chosen))
  BY DEF Sources
<1>2. Selectable(chosen)
  BY SelectionIs
<1>3. /\ Selectable(srcs) /\ Len(srcs) = Len(chosen)
      /\ \A l \in DOMAIN chosen : \E k \in DOMAIN srcs : srcs[k] = chosen[l]
  <2>1. IdsOf(chosen) \in SUBSET IdsOf(chosen)
    OBVIOUS
  <2>2. /\ Selectable(srcs) /\ Len(srcs) = Len(chosen)
        /\ \A l \in DOMAIN chosen : chosen[l].id \in IdsOf(chosen) =>
              \E k \in DOMAIN srcs : srcs[k] = chosen[l]
    BY <1>1, <1>2, <2>1, SpoolIs
  <2>3. \A l \in DOMAIN chosen : chosen[l].id \in IdsOf(chosen)
    BY DEF IdsOf
  <2> QED  BY <2>2, <2>3
<1>4. /\ rip.picks # <<>> /\ PicksInOrder =>
            i \in DOMAIN rip.picks /\ srcs[i].id = rip.picks[i]
      /\ rip.picks = <<>> /\ PerTitle => srcs[i] = chosen[i]
  BY <1>1, FullSpool
<1>5. PICK r : r = Rendered(srcs, i)
  OBVIOUS
<1>6. ExtrasMode(chosen) => ExtrasMode(srcs)
  BY <1>3 DEF ExtrasMode
<1>7. ExtrasMode(srcs) => rip.extras
  BY DEF ExtrasMode
<1>8. CASE ~ExtrasMode(srcs) \/ i = MainIndex(srcs)
  <2>1. r = RenderMain(srcs, i)
    BY <1>5, <1>8, RenderedIs
  <2>2. ASSUME rip.series, PicksInOrder,
               r.titled \/ srcs[i].id \in DOMAIN rip.map
        PROVE  IsMapped(srcs[i], r.number)
    <3>1. rip.picks # <<>>
      BY <2>1, <2>2, JobIs, RenderMainIs
    <3>2. i \in DOMAIN rip.picks /\ srcs[i].id = rip.picks[i]
      BY <1>4, <2>2, <3>1
    <3>3. i <= Len(rip.picks)
      BY <3>2, JobIs
    <3>4. srcs[i].id \in DOMAIN rip.map
      BY <2>1, <2>2, <3>2, RenderMainIs
    <3> QED  BY <2>1, <2>2, <3>2, <3>3, <3>4, RenderMainIs DEF IsMapped
  <2>3. PerTitle /\ rip.picks = <<>> => srcs[i] = chosen[r.number]
    <3>1. PerTitle => rip.series
      BY DEF PerTitle
    <3>2. rip.series /\ rip.picks = <<>> => RenderMain(srcs, i).number = i
      BY RenderMainIs
    <3> QED  BY <1>4, <2>1, <3>1, <3>2
  <2>4. ASSUME ExtrasMode(chosen), NEW k \in DOMAIN chosen
        PROVE  chosen[k].size <= srcs[i].size
    <3>1. i = MainIndex(srcs)
      BY <1>6, <1>8, <2>4
    <3>2. PICK j \in DOMAIN srcs : srcs[j] = chosen[k]
      BY <1>3
    <3>3. srcs \in Seq(TitleRecords) /\ srcs # <<>>
      BY <1>3, <3>2 DEF Selectable
    <3>4. srcs[j].size < srcs[i].size \/ srcs[j].size = srcs[i].size
      BY <3>1, <3>3, MainIndexIs
    <3>5. srcs[j] \in TitleRecords /\ srcs[i] \in TitleRecords
      BY <1>1, <3>3
    <3>6. srcs[j].size \in Nat /\ srcs[i].size \in Nat
      BY <3>5 DEF TitleRecords
    <3> QED  BY <3>2, <3>4, <3>6
  <2>5. Named(r, srcs[i])
    BY <2>2, <2>3, <2>4 DEF Named
  <2> QED  BY <1>1, <1>5, <2>5, NamedAnyway
<1>9. CASE ExtrasMode(srcs) /\ i # MainIndex(srcs)
  <2>1. r.folder # "main" /\ r.titled = FALSE
    BY <1>5, <1>9, RenderedIs
  <2>2. DOMAIN rip.map = {}
    BY <1>9, JobIs DEF ExtrasMode
  <2>3. Named(r, srcs[i])
    BY <1>7, <1>9, <2>1, <2>2 DEF Named
  <2> QED  BY <1>1, <1>5, <2>3, NamedAnyway
<1> QED  BY <1>8, <1>9

(* The first of the files that are named by position has the first path.   *)
LEMMA FirstByPosition ==
    ASSUME rip \in Jobs(Engines), rip.engine # "HandBrake", ByPosition,
           NEW srcs \in Seq(TitleRecords),
           rip.picks # <<>> => Len(srcs) <= Len(rip.picks)
    PROVE  OutputPath(srcs, 1) = FirstPath
<1>1. ~ExtrasMode(srcs)
  BY DEF ExtrasMode, ByPosition
<1>2. \A j : Rendered(srcs, j) = RenderMain(srcs, j)
  BY <1>1, RenderedIs
<1>3. ASSUME NEW j \in DOMAIN srcs, j # 1
      PROVE  RenderMain(srcs, j) # RenderMain(srcs, 1)
  <2> SUFFICES ASSUME RenderMain(srcs, j) = RenderMain(srcs, 1)
               PROVE  FALSE
    OBVIOUS
  <2>1. rip.series /\ DOMAIN srcs = 1..Len(srcs) /\ Len(srcs) \in Nat
    BY DEF ByPosition
  <2>2. CASE rip.picks # <<>>
    <3>1. DOMAIN rip.picks = 1..Len(rip.picks) /\ Len(rip.picks) \in Nat
      BY JobIs
    <3>2. j \in DOMAIN rip.picks /\ 1 \in DOMAIN rip.picks
      BY <2>1, <2>2, <3>1
    <3>3. RenderMain(<<>>, j) = RenderMain(<<>>, 1)
      BY RenderMainIs
    <3>4. PicksInOrder
      BY <2>2 DEF ByPosition
    <3> QED  BY <1>3, <3>2, <3>3, <3>4 DEF PicksInOrder
  <2>3. CASE rip.picks = <<>>
    <3>1. RenderMain(srcs, 1).number = 1
      BY <2>1, <2>3, RenderMainIs
    <3>2. RenderMain(srcs, j).number = j
      BY <2>1, <2>3, RenderMainIs
    <3> QED  BY <1>3, <3>1, <3>2
  <2> QED  BY <2>2, <2>3
<1>4. OutputPath(srcs, 1) = RenderMain(srcs, 1)
  BY <1>2, <1>3, SuffixIs
<1>5. RenderMain(srcs, 1) = FirstPath
  BY RenderMainIs DEF FirstPath
<1> QED  BY <1>4, <1>5

(* So has the largest of the files, next to extras.                        *)
LEMMA FirstByBiggest ==
    ASSUME rip \in Jobs(Engines), rip.engine \in MovesRips, ByBiggest,
           NEW srcs, Selectable(srcs), NEW i \in DOMAIN srcs,
           \A k, l \in DOMAIN srcs : k < l => srcs[k].id < srcs[l].id,
           \A k \in DOMAIN srcs : \E l \in DOMAIN chosen : srcs[k] = chosen[l]
    PROVE  /\ ~rip.series
           /\ Rendered(srcs, i).titled = FALSE
           /\ Rendered(srcs, i).folder = "main" =>
                 /\ OutputPath(srcs, i) = FirstPath
                 /\ \A j \in DOMAIN srcs : srcs[j].size <= srcs[i].size
           /\ Biggest(srcs[i]) => Rendered(srcs, i).folder = "main"
<1>1. rip.engine = "MakeMKV" /\ ~rip.series
  <2>1. rip.engine # "uhd"
    BY DEF ByBiggest, ExtrasMode
  <2>2. rip.engine = "MakeMKV"
    BY <2>1 DEF MovesRips
  <2> QED  BY <2>2 DEF ByBiggest, PerTitle, OnDVD
<1>2. ExtrasMode(srcs) <=> Len(srcs) > 1
  BY <1>1 DEF ByBiggest, ExtrasMode
<1>3. /\ srcs \in Seq(TitleRecords) /\ srcs # <<>>
      /\ Len(srcs) \in Nat /\ DOMAIN srcs = 1..Len(srcs)
  BY DEF Selectable
<1>4. \A k \in DOMAIN srcs : srcs[k].size \in Nat /\ srcs[k].id \in Nat
  <2>1. \A k \in DOMAIN srcs : srcs[k] \in TitleRecords
    BY <1>3
  <2> QED  BY <2>1 DEF TitleRecords
<1>5. PICK m \in DOMAIN srcs :
         /\ m = MainIndex(srcs)
         /\ \A j \in DOMAIN srcs :
               \/ srcs[j].size < srcs[m].size
               \/ srcs[j].size = srcs[m].size /\ m <= j
  BY <1>1, <1>3, MainIndexIs
<1>6. \A k : /\ RenderMain(srcs, k) = Path("main", 0, FALSE)
             /\ RenderMain(srcs, k).folder = "main"
  BY <1>1, RenderMainIs
<1>7. FirstPath = Path("main", 0, FALSE)
  BY <1>1, RenderMainIs DEF FirstPath
<1>8. Path("main", 0, FALSE).titled = FALSE
  BY DEF Path
<1>9. Len(srcs) <= 1 => DOMAIN srcs = {m}
  BY <1>3
<1>10. /\ Rendered(srcs, m) = RenderMain(srcs, m)
       /\ \A j \in DOMAIN srcs \ {m} : Rendered(srcs, j).folder # "main"
                                         /\ Rendered(srcs, j).titled = FALSE
  <2>1. CASE Len(srcs) > 1
    <3>1. ExtrasMode(srcs)
      BY <1>2, <2>1
    <3> QED  BY <1>5, <3>1, RenderedIs
  <2>2. CASE ~(Len(srcs) > 1)
    <3>1. ~ExtrasMode(srcs)
      BY <1>2, <2>2
    <3>2. Len(srcs) <= 1
      BY <1>3, <2>2
    <3> QED  BY <1>9, <3>1, <3>2, RenderedIs
  <2> QED  BY <2>1, <2>2
<1>11. Rendered(srcs, i).titled = FALSE
  BY <1>6, <1>8, <1>10
<1>12. ASSUME Rendered(srcs, i).folder = "main"
       PROVE  /\ OutputPath(srcs, i) = FirstPath
              /\ \A j \in DOMAIN srcs : srcs[j].size <= srcs[i].size
  <2>1. i = m
    BY <1>10, <1>12
  <2>2. \A j \in DOMAIN srcs \ {i} : Rendered(srcs, j) # Rendered(srcs, i)
    BY <1>10, <1>12, <2>1
  <2>3. OutputPath(srcs, i) = FirstPath
    BY <1>6, <1>7, <1>10, <2>1, <2>2, SuffixIs
  <2> QED  BY <1>4, <1>5, <2>1, <2>3
<1>13. ASSUME Biggest(srcs[i])
       PROVE  Rendered(srcs, i).folder = "main"
  <2>1. PICK l \in DOMAIN chosen : srcs[m] = chosen[l]
    BY <1>5
  <2>2. \/ srcs[m].size < srcs[i].size
        \/ srcs[m].size = srcs[i].size /\ srcs[i].id <= srcs[m].id
    BY <1>13, <2>1 DEF Biggest
  <2>3. \/ srcs[i].size < srcs[m].size
        \/ srcs[i].size = srcs[m].size /\ m <= i
    BY <1>5
  <2>4. srcs[i].id <= srcs[m].id /\ m <= i
    BY <1>4, <2>2, <2>3
  <2>5. m < i => srcs[m].id < srcs[i].id
    OBVIOUS
  <2>6. m = i
    BY <1>3, <1>4, <2>4, <2>5
  <2> QED  BY <1>6, <1>10, <2>6
<1> QED  BY <1>1, <1>11, <1>12, <1>13

(* There is a largest title.                                               *)
LEMMA SomeBiggest ==
    ASSUME rip \in Jobs(Engines), chosen = SelectTitles,
           rip.engine # "HandBrake", chosen # <<>>
    PROVE  \E k \in DOMAIN chosen : Biggest(chosen[k])
<1>1. Selectable(chosen)
  BY SelectionIs
<1> DEFINE w == WithIds(IdsOf(chosen))
<1>2. IdsOf(chosen) \in SUBSET IdsOf(chosen)
  OBVIOUS
<1>3. /\ Selectable(w) /\ Len(w) = Len(chosen)
      /\ \A k, l \in DOMAIN w : k < l => w[k].id < w[l].id
      /\ \A k \in DOMAIN w : \E l \in DOMAIN chosen : w[k] = chosen[l]
      /\ \A l \in DOMAIN chosen : chosen[l].id \in IdsOf(chosen) =>
            \E k \in DOMAIN w : w[k] = chosen[l]
  BY <1>1, <1>2, SpoolIs
<1> HIDE DEF w
<1>4. w \in Seq(TitleRecords) /\ w # <<>> /\ DOMAIN w \subseteq Nat
  BY <1>1, <1>3 DEF Selectable
<1>5. \A k \in DOMAIN w : w[k].size \in Nat /\ w[k].id \in Nat
  <2>1. \A k \in DOMAIN w : w[k] \in TitleRecords
    BY <1>4
  <2> QED  BY <2>1 DEF TitleRecords
<1>6. PICK m \in DOMAIN w :
         \A j \in DOMAIN w : \/ w[j].size < w[m].size
                             \/ w[j].size = w[m].size /\ m <= j
  BY <1>4, MainIndexIs
<1>7. PICK b \in DOMAIN chosen : w[m] = chosen[b]
  BY <1>3
<1>8. ASSUME NEW k \in DOMAIN chosen
      PROVE  \/ chosen[k].size < chosen[b].size
             \/ chosen[k].size = chosen[b].size
                  /\ chosen[b].id <= chosen[k].id
  <2>1. chosen[k].id \in IdsOf(chosen)
    BY DEF IdsOf
  <2>2. PICK j \in DOMAIN w : w[j] = chosen[k]
    BY <1>3, <2>1
  <2>3. m < j => w[m].id < w[j].id
    BY <1>3
  <2>4. m <= j => w[m].id <= w[j].id
    <3>1. m \in Nat /\ j \in Nat /\ w[m].id \in Nat /\ w[j].id \in Nat
      BY <1>4, <1>5
    <3> QED  BY <2>3, <3>1
  <2> QED  BY <1>6, <1>7, <2>2, <2>4
<1> QED  BY <1>8 DEF Biggest

(* What is left in rip/ when the moves are planned: the first path is that *)
(* of the first file or of the largest title, and a file that would be     *)
(* misnamed, now that others have left, would go there.                    *)
LEMMA SpoolNamed ==
    ASSUME rip \in Jobs(Engines), chosen = SelectTitles,
           rip.engine \in MovesRips, ripped \in SUBSET IdsOf(chosen),
           NEW i \in DOMAIN Sources
    PROVE  /\ \E l \in DOMAIN chosen : Sources[i] = chosen[l]
           /\ ByPosition => OutputPath(Sources, 1) = FirstPath
           /\ ByBiggest /\ Biggest(Sources[i]) =>
                 OutputPath(Sources, i) = FirstPath
           /\ \/ Named(OutputPath(Sources, i), Sources[i])
              \/ ByPosition /\ ripped # IdsOf(chosen)
              \/ /\ ByBiggest /\ OutputPath(Sources, i) = FirstPath
                 /\ \E k \in DOMAIN chosen : /\ Biggest(chosen[k])
                                             /\ chosen[k].id \notin ripped
<1>1. rip.engine # "HandBrake"
  BY DEF MovesRips
<1>2. PICK srcs : srcs = Sources /\ srcs = WithIds(ripped)
  BY <1>1 DEF Sources
<1>3. Selectable(chosen)
  BY SelectionIs
<1>4. /\ Selectable(srcs)
      /\ \A k, l \in DOMAIN srcs : k < l => srcs[k].id < srcs[l].id
      /\ \A k \in DOMAIN srcs : \E l \in DOMAIN chosen : srcs[k] = chosen[l]
      /\ \A l \in DOMAIN chosen : chosen[l].id \in ripped =>
            \E k \in DOMAIN srcs : srcs[k] = chosen[l]
      /\ Len(srcs) <= Len(chosen)
  BY <1>2, <1>3, SpoolIs
<1>5. PICK r : r = Rendered(srcs, i)
  OBVIOUS
<1>6. ByPosition => OutputPath(srcs, 1) = FirstPath
  <2>1. ASSUME PicksInOrder, rip.picks # <<>>
        PROVE  Len(srcs) <= Len(rip.picks)
    <3>1. DOMAIN chosen = DOMAIN rip.picks
      BY <2>1, SelectionIs
    <3>2. Len(chosen) = Len(rip.picks)
      BY <1>3, <3>1, JobIs DEF Selectable
    <3> QED  BY <1>4, <3>2
  <2>2. ByPosition /\ rip.picks # <<>> => PicksInOrder
    BY DEF ByPosition
  <2> QED  BY <1>1, <1>4, <2>1, <2>2, FirstByPosition DEF Selectable
<1>7. CASE ByBiggest
  <2>1. /\ ~rip.series /\ r.titled = FALSE
        /\ r.folder = "main" =>
              /\ OutputPath(srcs, i) = FirstPath
              /\ \A j \in DOMAIN srcs : srcs[j].size <= srcs[i].size
        /\ Biggest(srcs[i]) => r.folder = "main"
    BY <1>2, <1>4, <1>5, <1>7, FirstByBiggest, ZenonT(60)
  <2>2. chosen # <<>>
    BY <1>2, <1>4
  <2>3. PICK b \in DOMAIN chosen : Biggest(chosen[b])
    BY <1>1, <2>2, SomeBiggest
  <2>4. CASE r.folder = "main" /\ chosen[b].id \in ripped
    <3>1. PICK j \in DOMAIN srcs : srcs[j] = chosen[b]
      BY <1>4, <2>4
    <3>2. chosen[b].size <= srcs[i].size
      BY <2>1, <2>4, <3>1
    <3>3. \A k \in DOMAIN chosen : chosen[k].size \in Nat
      <4>1. \A k \in DOMAIN chosen : chosen[k] \in TitleRecords
        BY <1>3 DEF Selectable
      <4> QED  BY <4>1 DEF TitleRecords
    <3>4. srcs[i].size \in Nat
      BY <1>2, <1>4, <3>3
    <3>5. \A k \in DOMAIN chosen : chosen[k].size <= srcs[i].size
      BY <2>3, <3>2, <3>3, <3>4 DEF Biggest
    <3>6. Named(r, srcs[i])
      BY <1>1, <2>1, <3>5 DEF Named, PerTitle
    <3>7. Named(OutputPath(srcs, i), srcs[i])
      BY <1>5, <3>6, NamedAnyway
    <3> QED  BY <1>2, <1>4, <1>6, <2>1, <2>4, <3>7
  <2>5. CASE r.folder # "main"
    <3>1. Named(r, srcs[i])
      BY <2>1, <2>5 DEF Named, PerTitle
    <3>2. Named(OutputPath(srcs, i), srcs[i])
      BY <1>5, <3>1, NamedAnyway
    <3> QED  BY <1>2, <1>4, <1>6, <2>1, <2>5, <3>2
  <2>6. CASE r.folder = "main" /\ chosen[b].id \notin ripped
    BY <1>2, <1>4, <1>6, <1>7, <2>1, <2>3, <2>6
  <2> QED  BY <2>4, <2>5, <2>6
<1>8. CASE ByPosition /\ ~ByBiggest
  <2>1. CASE ripped = IdsOf(chosen)
    <3>1. Named(OutputPath(Sources, i), Sources[i])
      BY <1>1, <2>1, RipsNamed
    <3> QED  BY <1>2, <1>4, <1>6, <1>8, <3>1
  <2>2. CASE ripped # IdsOf(chosen)
    BY <1>2, <1>4, <1>6, <1>8, <2>2
  <2> QED  BY <2>1, <2>2
<1>9. CASE ~ByPosition /\ ~ByBiggest
  <2>1. rip.series /\ (r.titled \/ srcs[i].id \in DOMAIN rip.map) =>
           ~PicksInOrder
    <3> SUFFICES ASSUME rip.series,
                        r.titled \/ srcs[i].id \in DOMAIN rip.map
                 PROVE  ~PicksInOrder
      OBVIOUS
    <3>1. r = RenderMain(srcs, i) \/ r.titled = FALSE
      BY <1>5, RenderedIs
    <3>2. r.titled => rip.picks # <<>>
      BY <3>1, RenderMainIs
    <3>3. srcs[i].id \in DOMAIN rip.map => rip.picks # <<>>
      BY JobIs
    <3> QED  BY <1>9, <3>2, <3>3 DEF ByPosition
  <2>2. Named(r, srcs[i])
    BY <1>1, <1>9, <2>1 DEF Named, ByPosition, ByBiggest, PerTitle
  <2>3. Named(OutputPath(srcs, i), srcs[i])
    BY <1>5, <2>2, NamedAnyway
  <2> QED  BY <1>2, <1>4, <1>9, <2>3
<1> QED  BY <1>7, <1>8, <1>9

----------------------------------------------------------------------------
(* The invariant.                                                          *)

Landed == {library[p].id : p \in Ours}
Whole == {[file |-> Sources[i], path |-> OutputPath(Sources, i)] :
            i \in DOMAIN Sources}
Consumes == rip.engine \in MovesRips
Untouched == library = [p \in {} |-> Others] /\ theirs = {}

(* Nothing is in the library before the first move.                        *)
Unmoved ==
    /\ phase \in {"select", "rip", "lost"} => tries = 0 /\ Untouched
    /\ phase = "encode" /\ tries = 0 => Untouched

Selected ==
    /\ IF phase = "select" THEN chosen = <<>> /\ ripped = {}
       ELSE chosen = SelectTitles
    /\ ripped \in SUBSET IdsOf(chosen)

(* What the spool has lost is in the library; when that is a title the     *)
(* others are named by, its path is taken.                                 *)
Spooled ==
    /\ Consumes =>
          /\ \A x \in IdsOf(chosen) \ ripped : x \in Landed
          /\ ByPosition /\ ripped # IdsOf(chosen) => Occupied(FirstPath)
          /\ ByBiggest => \A k \in DOMAIN chosen :
                Biggest(chosen[k]) /\ chosen[k].id \notin ripped =>
                    Occupied(FirstPath)
    /\ ~Consumes /\ rip.engine # "HandBrake" => ripped = IdsOf(chosen)

(* The moves to do: of titles wanted, and with what is in the library of   *)
(* all of them.                                                            *)
ToMove ==
    /\ plan \in Seq({plan[k] : k \in DOMAIN plan})
    /\ \A k \in DOMAIN plan : /\ plan[k].file.id \in Wants
                              /\ plan[k].file # Others
                              /\ IF Consumes
                                 THEN \E l \in DOMAIN chosen :
                                         plan[k].file = chosen[l]
                                 ELSE plan[k] \in Whole
    /\ \A x \in Wants : x \in Landed \/ \E k \in DOMAIN plan :
                                            x = plan[k].file.id
(* Which file has the first path.                                          *)
FirstMoves ==
    Consumes =>
        /\ ByPosition /\ ripped = IdsOf(chosen) /\ plan # <<>> =>
              plan[1].path = FirstPath
        /\ ByBiggest => \A k \in DOMAIN plan :
              Biggest(plan[k].file) => plan[k].path = FirstPath
(* The first time no file is moved twice.                                  *)
MovesOnce ==
    Consumes /\ tries = 0 =>
        /\ \A i, j \in DOMAIN plan : plan[i].file = plan[j].file => i = j
        /\ \A p \in Ours, k \in DOMAIN plan : library[p] # plan[k].file
(* Every file is well named, or a path before it is taken.                 *)
WellNamed(from) ==
    \A k \in DOMAIN plan :
        \/ Named(plan[k].path, plan[k].file)
        \/ \E j \in DOMAIN plan : /\ from <= j /\ j <= k
                                  /\ Occupied(plan[j].path)

(* What is in the library.                                                 *)
Stored ==
    /\ \A p \in theirs : Occupied(p) /\ library[p] = Others
    /\ \A p \in Ours : library[p].id \in Wants /\ Named(p, library[p])
    /\ Consumes /\ tries = 0 =>
          \A p, q \in Ours : library[p] = library[q] => p = q
    /\ ~Consumes =>
          \A p \in Ours : [file |-> library[p], path |-> p] \in Whole

(* Nothing of this job is where the next file will go.                     *)
Vacant ==
    /\ plan # <<>> /\ plan[1].path \notin theirs
    /\ Occupied(plan[1].path) => library[plan[1].path] = Others

TitlesInv ==
    /\ rip \in Jobs(Engines)
    /\ phase \in {"select", "rip", "lost", "encode", "move", "rename",
                  "failed", "finished"}
    /\ tries \in Nat
    /\ Unmoved /\ Selected /\ Stored
    /\ phase \notin {"select", "rip", "lost"} => Spooled
    /\ phase \in {"move", "rename"} => ToMove /\ FirstMoves /\ MovesOnce
    /\ phase = "move" => WellNamed(1)
    /\ phase = "rename" => WellNamed(2) /\ Vacant
    /\ phase = "finished" => \A x \in Wants : x \in Landed

----------------------------------------------------------------------------
(* A sequence is one over what is in it.                                   *)
LEMMA RangeSeq ==
    ASSUME NEW M, NEW s \in Seq(M)
    PROVE  s \in Seq({s[k] : k \in DOMAIN s})
<1>1. Len(s) \in Nat /\ DOMAIN s = 1..Len(s)
  OBVIOUS
<1>2. s = [k \in 1..Len(s) |-> s[k]]
  OBVIOUS
<1>3. \A k \in 1..Len(s) : s[k] \in {s[i] : i \in DOMAIN s}
  BY <1>1
<1> DEFINE R == {s[i] : i \in DOMAIN s}
<1> HIDE DEF R
<1>4. \A k \in 1..Len(s) : s[k] \in R
  BY <1>3 DEF R
<1>5. s \in Seq(R)
  BY <1>1, <1>2, <1>4
<1> QED  BY <1>5 DEF R

(* What is selected follows from the job.                                  *)
LEMMA SelectSame ==
    ASSUME rip' = rip
    PROVE  /\ SelectTitles' = SelectTitles
           /\ PerTitle' <=> PerTitle
           /\ Consumes' <=> Consumes
           /\ \A ids : WithIds(ids)' = WithIds(ids)
<1>1. PerTitle' <=> PerTitle
  BY DEF PerTitle
<1>2. \A ids : WithIds(ids)' = WithIds(ids)
  BY DEF WithIds, Holding, Scanned
<1>3. \A m : AtLeast(m)' = AtLeast(m)
  BY DEF AtLeast, LongEnough, Scanned
<1>4. \A m : SelectExtras(m)' = SelectExtras(m)
  BY DEF SelectExtras, InBand, Scanned
<1>5. SelectedTitles' = SelectedTitles
  BY <1>2 DEF SelectedTitles
<1>6. Floor' = Floor
  BY <1>1 DEF Floor
<1>7. SelectTitles' = SelectTitles
  BY <1>1, <1>3, <1>4, <1>5, <1>6 DEF SelectTitles
<1> QED  BY <1>1, <1>2, <1>7 DEF Consumes

(* What a job is named by does not change once its titles are chosen.      *)
LEMMA TitlesFrame ==
    ASSUME rip' = rip, chosen' = chosen
    PROVE  /\ Consumes' <=> Consumes
           /\ \A p, t : Named(p, t)' <=> Named(p, t)
           /\ \A t : Biggest(t)' <=> Biggest(t)
           /\ ByPosition' <=> ByPosition
           /\ ByBiggest' <=> ByBiggest
           /\ FirstPath' = FirstPath
           /\ SelectTitles' = SelectTitles
           /\ Wants' = Wants
           /\ ripped' = ripped => Sources' = Sources
           /\ rip.engine = "HandBrake" => Sources' = Sources
           /\ Sources' = Sources => Whole' = Whole
<1>1. PerTitle' <=> PerTitle
  BY DEF PerTitle
<1>2. PicksInOrder' <=> PicksInOrder
  BY DEF PicksInOrder, RenderMain, Path
<1>3. \A s : ExtrasMode(s)' <=> ExtrasMode(s)
  BY DEF ExtrasMode
<1>4. \A p, t : Named(p, t)' <=> Named(p, t)
  BY <1>1, <1>2, <1>3 DEF Named, IsMapped
<1>5. \A t : Biggest(t)' <=> Biggest(t)
  BY DEF Biggest
<1>6. (ByPosition' <=> ByPosition) /\ (ByBiggest' <=> ByBiggest)
  BY <1>1, <1>2, <1>3 DEF ByPosition, ByBiggest
<1>7. \A s, i : RenderMain(s, i)' = RenderMain(s, i)
  BY DEF RenderMain
<1>8. FirstPath' = FirstPath
  BY <1>7 DEF FirstPath
<1>9. \A ids : WithIds(ids)' = WithIds(ids)
  BY DEF WithIds, Holding, Scanned
<1>10. (ripped' = ripped => Sources' = Sources)
       /\ (rip.engine = "HandBrake" => Sources' = Sources)
  BY <1>9 DEF Sources
<1>11. Wants' = Wants
  BY <1>10 DEF Wants
<1>12. Consumes' <=> Consumes
  BY DEF Consumes
<1>13. SelectTitles' = SelectTitles
  BY SelectSame
<1>14. \A s, i : OutputPath(s, i)' = OutputPath(s, i)
  <2>1. \A s : MainIndex(s)' = MainIndex(s)
    BY DEF MainIndex
  <2>2. \A t, m : ClassifyExtra(t, m)' = ClassifyExtra(t, m)
    BY DEF ClassifyExtra
  <2>3. \A s, i : Rendered(s, i)' = Rendered(s, i)
    BY <1>3, <1>7, <2>1, <2>2 DEF Rendered
  <2> QED  BY <2>3 DEF OutputPath
<1>15. Sources' = Sources => Whole' = Whole
  BY <1>14 DEF Whole
<1> QED  BY <1>4, <1>5, <1>6, <1>8, <1>10, <1>11, <1>12, <1>13, <1>15

(* Nothing is changed in the spool or the library.                         *)
LEMMA SameFiles ==
    ASSUME UNCHANGED <<rip, chosen, ripped, library, theirs>>
    PROVE  /\ Spooled' <=> Spooled
           /\ Ours' = Ours /\ Landed' = Landed
           /\ Untouched' <=> Untouched
           /\ \A q : Occupied(q)' <=> Occupied(q)
           /\ Stored /\ (tries' = 0 => tries = 0) => Stored'
<1>1. Ours' = Ours
  BY DEF Ours
<1>2. Landed' = Landed
  BY <1>1 DEF Landed
<1>3. \A q : Occupied(q)' <=> Occupied(q)
  BY DEF Occupied
<1>4. Untouched' <=> Untouched
  BY DEF Untouched
<1>5. /\ Consumes' <=> Consumes
      /\ \A p, t : Named(p, t)' <=> Named(p, t)
      /\ \A t : Biggest(t)' <=> Biggest(t)
      /\ ByPosition' <=> ByPosition
      /\ ByBiggest' <=> ByBiggest
      /\ FirstPath' = FirstPath
      /\ Wants' = Wants
      /\ Whole' = Whole
  BY TitlesFrame
<1>6. Spooled' <=> Spooled
  BY <1>2, <1>3, <1>5 DEF Spooled
<1>7. Stored /\ (tries' = 0 => tries = 0) => Stored'
  BY <1>1, <1>3, <1>5 DEF Stored
<1> QED  BY <1>1, <1>2, <1>3, <1>4, <1>6, <1>7

(* A file of this job lands on a free path, or on a file of another job    *)
(* that has come since.                                                    *)
LEMMA LandsOurs ==
    ASSUME NEW p, NEW t, Lands(p, t), t # Others,
           Occupied(p) => library[p] = Others
    PROVE  /\ Ours' = Ours \cup {p} /\ library'[p] = t
           /\ \A q \in Ours : q # p /\ library'[q] = library[q]
           /\ \A q : Occupied(q)' <=> Occupied(q) \/ q = p
           /\ \A q : Occupied(q) /\ q # p => library'[q] = library[q]
           /\ Landed' = Landed \cup {t.id}
<1>1. /\ DOMAIN library' = DOMAIN library \cup {p}
      /\ library'[p] = t
      /\ \A q \in DOMAIN library : q # p => library'[q] = library[q]
  BY DEF Lands
<1>2. \A q \in Ours : q \in DOMAIN library /\ library[q] # Others /\ q # p
  BY DEF Ours, Occupied
<1>3. Ours' = Ours \cup {p}
  BY <1>1, <1>2 DEF Ours
<1>4. \A q \in Ours : q # p /\ library'[q] = library[q]
  BY <1>1, <1>2
<1>5. Landed' = Landed \cup {t.id}
  BY <1>1, <1>3, <1>4 DEF Landed
<1> QED  BY <1>1, <1>3, <1>4, <1>5 DEF Occupied

(* A file of another job lands on a free path.                             *)
LEMMA LandsTheirs ==
    ASSUME NEW p, Lands(p, Others), ~Occupied(p)
    PROVE  /\ Ours' = Ours /\ library'[p] = Others
           /\ \A q \in Ours : library'[q] = library[q]
           /\ \A q : Occupied(q)' <=> Occupied(q) \/ q = p
           /\ \A q : Occupied(q) => q # p /\ library'[q] = library[q]
           /\ Landed' = Landed
<1>1. /\ DOMAIN library' = DOMAIN library \cup {p}
      /\ library'[p] = Others
      /\ \A q \in DOMAIN library : q # p /\ library'[q] = library[q]
  BY DEF Lands, Occupied
<1>2. Ours' = Ours
  BY <1>1 DEF Ours
<1>3. \A q \in Ours : library'[q] = library[q]
  BY <1>1 DEF Ours
<1>4. Landed' = Landed
  BY <1>2, <1>3 DEF Landed
<1> QED  BY <1>1, <1>2, <1>3, <1>4 DEF Occupied

----------------------------------------------------------------------------
(* The steps.                                                              *)

(* With an empty library there is nothing to show of it.                   *)
LEMMA UntouchedStored == Untouched => Stored /\ Ours = {}
<1> SUFFICES ASSUME Untouched
             PROVE  Stored /\ Ours = {}
  OBVIOUS
<1>1. DOMAIN library = {} /\ theirs = {}
  BY DEF Untouched
<1>2. Ours = {}
  BY <1>1 DEF Ours
<1> QED  BY <1>1, <1>2 DEF Stored

(* A job that has done nothing satisfies the invariant.                    *)
LEMMA TitlesStart ==
    ASSUME rip \in Jobs(Engines), phase = "select", chosen = <<>>,
           ripped = {}, library = [p \in {} |-> Others], theirs = {},
           tries = 0
    PROVE  TitlesInv
<1>1. Untouched /\ Stored
  BY UntouchedStored DEF Untouched
<1>2. Unmoved /\ Selected
  BY <1>1 DEF Unmoved, Selected
<1> QED  BY <1>1, <1>2 DEF TitlesInv

(* The selection of titles keeps the invariant.                            *)
LEMMA SelectKeeps ==
    ASSUME TitlesInv, Select
    PROVE  TitlesInv'
<1>1. /\ phase = "select" /\ rip' = rip /\ ripped' = {} /\ tries' = 0
      /\ chosen' = SelectTitles /\ library' = library /\ theirs' = theirs
      /\ Untouched /\ rip \in Jobs(Engines)
      /\ phase' \in {"lost", "encode", "rip"}
      /\ (phase' = "encode" => rip.engine = "HandBrake")
  BY DEF TitlesInv, Select, Selected, Unmoved
<1>2. Untouched' /\ Untouched
  BY <1>1 DEF Untouched
<1>3. Stored'
  <2>1. DOMAIN library = {} /\ theirs' = {} /\ library' = library
    BY <1>1 DEF Untouched
  <2>2. Ours' = {}
    BY <2>1 DEF Ours
  <2> QED  BY <2>1, <2>2 DEF Stored
<1>4. Unmoved' /\ Selected'
  <2>1. SelectTitles' = SelectTitles
    BY <1>1, SelectSame
  <2> QED  BY <1>1, <1>2, <2>1 DEF Unmoved, Selected
<1>5. phase' \notin {"select", "rip", "lost"} => Spooled'
  BY <1>1 DEF Spooled, Consumes, MovesRips
<1> QED  BY <1>1, <1>3, <1>4, <1>5 DEF TitlesInv

(* A rip of a title, or its failure, keeps the invariant.                  *)
LEMMA RipTitleKeeps ==
    ASSUME TitlesInv, RipTitle
    PROVE  TitlesInv'
<1>1. /\ phase = "rip" /\ rip' = rip /\ chosen' = chosen /\ tries' = tries
      /\ library' = library /\ theirs' = theirs /\ tries = 0
      /\ Untouched /\ rip \in Jobs(Engines)
      /\ chosen = SelectTitles /\ ripped \in SUBSET IdsOf(chosen)
      /\ phase' \in {"lost", "encode", "rip"}
  BY DEF TitlesInv, RipTitle, Selected, Unmoved
<1>2. Untouched'
  BY <1>1 DEF Untouched
<1>3. Stored'
  <2>1. DOMAIN library = {} /\ theirs' = {} /\ library' = library
    BY <1>1 DEF Untouched
  <2>2. Ours' = {}
    BY <2>1 DEF Ours
  <2> QED  BY <2>1, <2>2 DEF Stored
<1>4. /\ IsFiniteSet(IdsOf(chosen))
      /\ Cardinality(IdsOf(chosen)) = Len(chosen)
      /\ Len(chosen) \in Nat /\ DOMAIN chosen = 1..Len(chosen)
  BY <1>1, SelectionIs, IdsCount DEF Selectable
<1>5. /\ ripped' \in SUBSET IdsOf(chosen)
      /\ phase' = "encode" => ripped' = IdsOf(chosen)
  <2>1. CASE ripped' = ripped /\ phase' = "lost"
    BY <1>1, <2>1
  <2>2. CASE /\ ripped' = ripped \cup {chosen[Cardinality(ripped) + 1].id}
             /\ phase' = IF Cardinality(ripped') = Len(chosen)
                         THEN "encode" ELSE phase
    <3>1. Cardinality(ripped) \in Nat /\ Cardinality(ripped) < Len(chosen)
      <4>1. IsFiniteSet(ripped)
        BY <1>1, <1>4, FS_Subset
      <4> QED  BY <4>1, FS_CardinalityType DEF RipTitle
    <3>2. Cardinality(ripped) + 1 \in DOMAIN chosen
      BY <1>4, <3>1
    <3>3. chosen[Cardinality(ripped) + 1].id \in IdsOf(chosen)
      BY <3>2 DEF IdsOf
    <3>4. ripped' \in SUBSET IdsOf(chosen)
      BY <1>1, <2>2, <3>3
    <3>5. phase' = "encode" => Cardinality(ripped') = Len(chosen)
      BY <1>1, <2>2
    <3>6. Cardinality(ripped') = Len(chosen) => ripped' = IdsOf(chosen)
      BY <1>4, <3>4, FS_Subset
    <3> QED  BY <3>4, <3>5, <3>6
  <2> QED  BY <2>1, <2>2 DEF RipTitle
<1>6. Unmoved' /\ Selected'
  <2>1. SelectTitles' = SelectTitles
    BY <1>1, SelectSame
  <2>2. IdsOf(chosen)' = IdsOf(chosen)
    BY <1>1
  <2> QED  BY <1>1, <1>2, <1>5, <2>1, <2>2 DEF Unmoved, Selected
<1>7. phase' = "encode" => Spooled'
  <2> SUFFICES ASSUME phase' = "encode"
               PROVE  Spooled'
    OBVIOUS
  <2>1. ripped' = IdsOf(chosen) /\ IdsOf(chosen)' = IdsOf(chosen)
    BY <1>1, <1>5
  <2>2. \A k \in DOMAIN chosen' : chosen'[k].id \in ripped'
    BY <1>1, <2>1 DEF IdsOf
  <2> QED  BY <2>1, <2>2 DEF Spooled
<1> QED  BY <1>1, <1>3, <1>6, <1>7 DEF TitlesInv

(* Unmoved and Selected when only the phase and the tries change.          *)
LEMMA StageKeeps ==
    ASSUME Selected, phase \notin {"select", "rip", "lost"},
           phase' \notin {"select", "rip", "lost"},
           rip' = rip, chosen' = chosen, ripped' \in SUBSET ripped,
           phase' = "encode" => tries' # 0
    PROVE  Unmoved' /\ Selected'
<1>1. SelectTitles' = SelectTitles
  BY SelectSame
<1>2. IdsOf(chosen)' = IdsOf(chosen)
  OBVIOUS
<1> QED  BY <1>1, <1>2 DEF Unmoved, Selected

(* What holds between two steps that leave the files alone.                *)
LEMMA QuietKeeps ==
    ASSUME TitlesInv, phase \notin {"select", "rip", "lost"},
           phase' \in {"encode", "failed", "finished"},
           UNCHANGED <<rip, chosen, ripped, library, theirs>>,
           tries' = tries \/ tries' = tries + 1,
           phase' = "encode" => tries' = tries + 1,
           phase' = "finished" => \A x \in Wants : x \in Landed
    PROVE  TitlesInv'
<1>1. /\ rip \in Jobs(Engines) /\ Selected /\ Stored /\ Spooled
      /\ tries \in Nat
  BY DEF TitlesInv
<1>2. tries' \in Nat /\ (tries' = 0 => tries = 0)
      /\ (phase' = "encode" => tries' # 0)
  BY <1>1
<1>3. Unmoved' /\ Selected'
  BY <1>1, <1>2, StageKeeps
<1>4. /\ Spooled' <=> Spooled
      /\ Landed' = Landed
      /\ Stored'
  BY <1>1, <1>2, SameFiles
<1>5. Wants' = Wants
  BY TitlesFrame
<1> QED  BY <1>1, <1>2, <1>3, <1>4, <1>5 DEF TitlesInv

(* The end of the moves keeps the invariant.                               *)
LEMMA FinishKeeps ==
    ASSUME TitlesInv, Finish
    PROVE  TitlesInv'
<1>1. /\ phase = "move" /\ phase' = "finished" /\ plan = <<>>
      /\ UNCHANGED <<rip, chosen, ripped, library, theirs>>
      /\ tries' = tries /\ ToMove
  BY DEF TitlesInv, Finish
<1>2. \A x \in Wants : x \in Landed
  BY <1>1 DEF ToMove
<1> QED  BY <1>1, <1>2, QuietKeeps

(* A retry of the transcode half keeps the invariant.                      *)
LEMMA RetryKeeps ==
    ASSUME TitlesInv, Retry
    PROVE  TitlesInv'
<1>1. /\ phase = "failed" /\ phase' = "encode"
      /\ UNCHANGED <<rip, chosen, ripped, library, theirs>>
      /\ tries' = tries + 1
  BY DEF Retry
<1> QED  BY <1>1, QuietKeeps

(* The moves to do when neither they nor the files change.                 *)
LEMMA SamePlan ==
    ASSUME UNCHANGED <<rip, chosen, ripped, plan, library, theirs, tries>>
    PROVE  /\ ToMove' <=> ToMove
           /\ FirstMoves' <=> FirstMoves
           /\ MovesOnce' <=> MovesOnce
           /\ \A n : WellNamed(n)' <=> WellNamed(n)
<1>1. /\ Consumes' <=> Consumes
      /\ \A p, t : Named(p, t)' <=> Named(p, t)
      /\ \A t : Biggest(t)' <=> Biggest(t)
      /\ ByPosition' <=> ByPosition
      /\ ByBiggest' <=> ByBiggest
      /\ FirstPath' = FirstPath
      /\ Wants' = Wants
      /\ Whole' = Whole
  BY TitlesFrame
<1>2. Ours' = Ours /\ Landed' = Landed
      /\ \A q : Occupied(q)' <=> Occupied(q)
  BY SameFiles
<1>3. ToMove' <=> ToMove
  BY <1>1, <1>2 DEF ToMove
<1>4. FirstMoves' <=> FirstMoves
  BY <1>1 DEF FirstMoves
<1>5. MovesOnce' <=> MovesOnce
  BY <1>1, <1>2 DEF MovesOnce
<1>6. \A n : WellNamed(n)' <=> WellNamed(n)
  BY <1>1, <1>2 DEF WellNamed
<1> QED  BY <1>3, <1>4, <1>5, <1>6

(* The look at the destination keeps the invariant.                        *)
LEMMA StatPathKeeps ==
    ASSUME TitlesInv, StatPath
    PROVE  TitlesInv'
<1>1. /\ phase = "move" /\ plan # <<>>
      /\ UNCHANGED <<rip, chosen, ripped, plan, library, theirs, tries>>
      /\ phase' = IF Occupied(plan[1].path) THEN "failed" ELSE "rename"
  BY DEF StatPath
<1>2. CASE Occupied(plan[1].path)
  <2>1. phase' = "failed"
    BY <1>1, <1>2
  <2> QED  BY <1>1, <2>1, QuietKeeps
<1>3. CASE ~Occupied(plan[1].path)
  <2>1. phase' = "rename"
    BY <1>1, <1>3
  <2>2. /\ rip \in Jobs(Engines) /\ tries \in Nat /\ Selected /\ Stored
        /\ Spooled /\ ToMove /\ FirstMoves /\ MovesOnce /\ WellNamed(1)
    BY <1>1 DEF TitlesInv
  <2>3. WellNamed(2)
    <3>1. DOMAIN plan \subseteq Nat
      BY <2>2 DEF ToMove
    <3>2. \A j \in DOMAIN plan : 1 <= j /\ Occupied(plan[j].path) => 2 <= j
      BY <1>3, <3>1
    <3> QED  BY <2>2, <3>2 DEF WellNamed
  <2>4. /\ ToMove' /\ FirstMoves' /\ MovesOnce' /\ WellNamed(2)'
    BY <1>1, <2>2, <2>3, SamePlan
  <2>5. Spooled' /\ Stored'
    BY <1>1, <2>2, SameFiles
  <2>6. Unmoved' /\ Selected'
    BY <1>1, <2>1, <2>2, StageKeeps
  <2>7. Vacant'
    BY <1>1, <1>3, <2>2 DEF Vacant, Stored, Occupied
  <2> QED  BY <1>1, <2>1, <2>2, <2>4, <2>5, <2>6, <2>7 DEF TitlesInv
<1> QED  BY <1>2, <1>3

(* A file that another job moves into the library keeps the invariant.     *)
LEMMA OtherMovesKeeps ==
    ASSUME TitlesInv, OtherMoves
    PROVE  TitlesInv'
<1>1. /\ phase \in {"move", "rename"}
      /\ UNCHANGED <<rip, phase, chosen, ripped, plan, tries>>
  BY DEF OtherMoves
<1>2. PICK k \in DOMAIN plan :
         /\ ~Occupied(plan[k].path) /\ Lands(plan[k].path, Others)
         /\ theirs' = IF phase = "rename" /\ plan[k].path = plan[1].path
                      THEN theirs ELSE theirs \cup {plan[k].path}
  BY DEF OtherMoves
<1>3. PICK p : p = plan[k].path
  OBVIOUS
<1>4. /\ Ours' = Ours /\ library'[p] = Others
      /\ \A q \in Ours : library'[q] = library[q]
      /\ \A q : Occupied(q)' <=> Occupied(q) \/ q = p
      /\ \A q : Occupied(q) => q # p /\ library'[q] = library[q]
      /\ Landed' = Landed
  BY <1>2, <1>3, LandsTheirs
<1>5. /\ Consumes' <=> Consumes
      /\ \A q, t : Named(q, t)' <=> Named(q, t)
      /\ \A t : Biggest(t)' <=> Biggest(t)
      /\ ByPosition' <=> ByPosition
      /\ ByBiggest' <=> ByBiggest
      /\ FirstPath' = FirstPath
      /\ Wants' = Wants
      /\ Whole' = Whole
  BY <1>1, TitlesFrame
<1>6. /\ rip \in Jobs(Engines) /\ tries \in Nat /\ Selected /\ Stored
      /\ Spooled /\ ToMove /\ FirstMoves /\ MovesOnce
      /\ phase = "move" => WellNamed(1)
      /\ phase = "rename" => WellNamed(2) /\ Vacant
  BY <1>1 DEF TitlesInv
<1>7. Unmoved' /\ Selected'
  BY <1>1, <1>6, StageKeeps
<1>8. Spooled'
  BY <1>1, <1>4, <1>5, <1>6 DEF Spooled
<1>9. ToMove'
  BY <1>1, <1>4, <1>5, <1>6 DEF ToMove
<1>10. FirstMoves'
  BY <1>1, <1>5, <1>6 DEF FirstMoves
<1>11. MovesOnce'
  BY <1>1, <1>4, <1>5, <1>6 DEF MovesOnce
<1>12. \A n : WellNamed(n) => WellNamed(n)'
  BY <1>1, <1>4, <1>5 DEF WellNamed
<1>13. Stored'
  <2>1. \A q \in theirs' : Occupied(q)' /\ library'[q] = Others
    BY <1>2, <1>3, <1>4, <1>6 DEF Stored
  <2>2. (\A q \in Ours : library[q].id \in Wants /\ Named(q, library[q]))'
    BY <1>4, <1>5, <1>6 DEF Stored
  <2>4. Consumes' /\ tries' = 0 =>
              \A q, r \in Ours' : library'[q] = library'[r] => q = r
    BY <1>1, <1>4, <1>5, <1>6 DEF Stored
  <2>3. ~Consumes' => \A q \in Ours' :
                         [file |-> library'[q], path |-> q] \in Whole'
    BY <1>4, <1>5, <1>6 DEF Stored
  <2> QED  BY <2>1, <2>2, <2>3, <2>4 DEF Stored
<1>14. phase = "rename" => Vacant'
  <2> SUFFICES ASSUME phase = "rename"
               PROVE  Vacant'
    OBVIOUS
  <2>1. plan # <<>> /\ plan[1].path \notin theirs
        /\ (Occupied(plan[1].path) => library[plan[1].path] = Others)
    BY <1>6 DEF Vacant
  <2>2. plan'[1].path \notin theirs'
    BY <1>1, <1>2, <2>1
  <2>3. PICK q : q = plan[1].path
    OBVIOUS
  <2>4. Occupied(q)' => library'[q] = Others
    BY <1>4, <2>1, <2>3
  <2>5. plan'[1].path = q
    BY <1>1, <2>3
  <2> QED  BY <1>1, <2>1, <2>2, <2>4, <2>5 DEF Vacant, Occupied
<1> QED  BY <1>1, <1>6, <1>7, <1>8, <1>9, <1>10, <1>11, <1>12, <1>13, <1>14
            DEF TitlesInv

(* A move that puts its file in place, whether or not the source leaves.   *)
LEMMA LandingStores ==
    ASSUME TitlesInv, phase = "rename", NEW p, p = plan[1].path,
           NEW t, t = plan[1].file, Lands(p, t),
           UNCHANGED <<rip, chosen, theirs, tries>>,
           ~Consumes => ripped' = ripped
    PROVE  /\ Stored' /\ t.id \in Wants /\ t # Others /\ 1 \in DOMAIN plan
           /\ Ours' = Ours \cup {p} /\ library'[p] = t
           /\ \A q \in Ours : q # p /\ library'[q] = library[q]
           /\ \A q : Occupied(q)' <=> Occupied(q) \/ q = p
           /\ Landed' = Landed \cup {t.id}
<1>1. /\ rip \in Jobs(Engines) /\ tries \in Nat /\ Stored
      /\ ToMove /\ MovesOnce /\ WellNamed(2) /\ Vacant
  BY DEF TitlesInv
<1>2. 1 \in DOMAIN plan
  BY <1>1 DEF ToMove, Vacant
<1>3. t.id \in Wants /\ t # Others /\ (~Consumes => plan[1] \in Whole)
  BY <1>1, <1>2 DEF ToMove
<1>4. p \notin theirs /\ (Occupied(p) => library[p] = Others)
  BY <1>1 DEF Vacant
<1>5. Named(p, t)
  <2>1. DOMAIN plan \subseteq Nat
    BY <1>1 DEF ToMove
  <2>2. \/ Named(plan[1].path, plan[1].file)
        \/ \E j \in DOMAIN plan : 2 <= j /\ j <= 1
    BY <1>1, <1>2 DEF WellNamed
  <2> QED  BY <2>1, <2>2
<1>6. /\ Ours' = Ours \cup {p} /\ library'[p] = t
      /\ \A q \in Ours : q # p /\ library'[q] = library[q]
      /\ \A q : Occupied(q)' <=> Occupied(q) \/ q = p
      /\ \A q : Occupied(q) /\ q # p => library'[q] = library[q]
      /\ Landed' = Landed \cup {t.id}
  BY <1>3, <1>4, LandsOurs
<1>7. /\ Consumes' <=> Consumes
      /\ \A q, s : Named(q, s)' <=> Named(q, s)
      /\ Wants' = Wants
      /\ ripped' = ripped => Whole' = Whole
  BY TitlesFrame
<1>8. (\A q \in theirs : Occupied(q) /\ library[q] = Others)'
  BY <1>1, <1>4, <1>6 DEF Stored
<1>9. (\A q \in Ours : library[q].id \in Wants /\ Named(q, library[q]))'
  BY <1>1, <1>3, <1>5, <1>6, <1>7 DEF Stored
<1>10. Consumes' /\ tries' = 0 =>
          \A q, r \in Ours' : library'[q] = library'[r] => q = r
  <2> SUFFICES ASSUME Consumes, tries = 0, NEW q \in Ours', NEW r \in Ours',
                      library'[q] = library'[r]
               PROVE  q = r
    BY <1>7
  <2>1. \A o \in Ours : library[o] # t
    BY <1>1, <1>2 DEF MovesOnce
  <2>2. \A o, n \in Ours : library[o] = library[n] => o = n
    BY <1>1 DEF Stored
  <2>3. CASE q \in Ours /\ r \in Ours
    BY <1>6, <2>2, <2>3
  <2>4. CASE q = p \/ r = p
    BY <1>6, <2>1, <2>4
  <2> QED  BY <1>6, <2>3, <2>4
<1>11. ~Consumes' => \A q \in Ours' :
                        [file |-> library'[q], path |-> q] \in Whole'
  <2> SUFFICES ASSUME ~Consumes, NEW q \in Ours'
               PROVE  [file |-> library'[q], path |-> q] \in Whole
    BY <1>7
  <2>1. CASE q \in Ours
    BY <1>1, <1>6, <2>1 DEF Stored
  <2>2. CASE q = p
    <3>1. plan[1] \in Whole
      BY <1>3
    <3>2. plan[1] = [file |-> plan[1].file, path |-> plan[1].path]
      BY <3>1 DEF Whole
    <3> QED  BY <1>6, <2>2, <3>1, <3>2
  <2> QED  BY <1>6, <2>1, <2>2
<1>12. Stored'
  BY <1>8, <1>9, <1>10, <1>11 DEF Stored
<1> QED  BY <1>2, <1>3, <1>6, <1>12

(* With its title in the library, the spool may lose a file; the paths of  *)
(* the others then count on the first one.                                 *)
LEMMA LandingSpools ==
    ASSUME TitlesInv, phase = "rename", NEW p, p = plan[1].path,
           NEW t, t = plan[1].file, Lands(p, t),
           UNCHANGED <<rip, chosen, theirs, tries>>,
           Leaves(t) \/ ripped' = ripped
    PROVE  Spooled'
<1>1. /\ rip \in Jobs(Engines) /\ Spooled /\ ToMove /\ FirstMoves /\ Vacant
      /\ chosen = SelectTitles
  BY DEF TitlesInv, Selected
<1>2. ~Consumes => ripped' = ripped
  BY DEF Leaves, Consumes
<1>3. /\ t.id \in Wants /\ 1 \in DOMAIN plan
      /\ \A q : Occupied(q)' <=> Occupied(q) \/ q = p
      /\ Landed' = Landed \cup {t.id}
  BY <1>2, LandingStores
<1>4. /\ Consumes' <=> Consumes
      /\ \A s : Biggest(s)' <=> Biggest(s)
      /\ ByPosition' <=> ByPosition
      /\ ByBiggest' <=> ByBiggest
      /\ FirstPath' = FirstPath
      /\ IdsOf(chosen)' = IdsOf(chosen)
  BY TitlesFrame
<1>5. CASE ~Consumes
  <2>1. ripped' = ripped
    BY <1>2, <1>5
  <2> QED  BY <1>1, <1>4, <1>5, <2>1 DEF Spooled
<1>6. CASE Consumes
  <2>1. ripped' = ripped \/ ripped' = ripped \ {t.id}
    BY <1>6 DEF Leaves, Consumes
  <2>2. PICK l \in DOMAIN chosen : t = chosen[l]
    BY <1>1, <1>3, <1>6 DEF ToMove
  <2>3. \A x \in IdsOf(chosen) \ ripped' : x \in Landed'
    BY <1>1, <1>3, <1>6, <2>1 DEF Spooled
  <2>4. ASSUME ByPosition, ripped' # IdsOf(chosen)
        PROVE  Occupied(FirstPath)'
    <3>1. CASE ripped # IdsOf(chosen)
      BY <1>1, <1>3, <1>4, <1>6, <2>4, <3>1 DEF Spooled
    <3>2. CASE ripped = IdsOf(chosen)
      <4>1. p = FirstPath
        BY <1>1, <1>6, <2>4, <3>2 DEF FirstMoves, Vacant
      <4> QED  BY <1>3, <1>4, <4>1
    <3> QED  BY <3>1, <3>2
  <2>5. ASSUME ByBiggest, NEW k \in DOMAIN chosen, Biggest(chosen[k]),
               chosen[k].id \notin ripped'
        PROVE  Occupied(FirstPath)'
    <3>1. CASE chosen[k].id \notin ripped
      BY <1>1, <1>3, <1>4, <1>6, <2>5, <3>1 DEF Spooled
    <3>2. CASE chosen[k].id = t.id
      <4>1. k = l
        BY <1>1, <2>2, <3>2, SelectionIs DEF Selectable
      <4>2. p = FirstPath
        BY <1>1, <1>3, <1>6, <2>2, <2>5, <4>1 DEF FirstMoves
      <4> QED  BY <1>3, <1>4, <4>2
    <3> QED  BY <2>1, <2>5, <3>1, <3>2
  <2> QED  BY <1>4, <1>6, <2>3, <2>4, <2>5 DEF Spooled
<1> QED  BY <1>5, <1>6

(* The moves that are left after the first.                                *)
LEMMA TailIs ==
    ASSUME ToMove, plan # <<>>
    PROVE  /\ \E M : Tail(plan) \in Seq(M)
           /\ \A k \in DOMAIN Tail(plan) : /\ k \in Nat \ {0}
                                           /\ k + 1 \in DOMAIN plan
                                           /\ Tail(plan)[k] = plan[k + 1]
           /\ \A k \in DOMAIN plan \ {1} : /\ k \in Nat /\ k >= 2
                                           /\ k - 1 \in DOMAIN Tail(plan)
                                           /\ k - 1 + 1 = k
<1>1. PICK M : plan \in Seq(M)
  BY DEF ToMove
<1>2. /\ Len(plan) \in Nat \ {0} /\ DOMAIN plan = 1..Len(plan)
      /\ Tail(plan) \in Seq(M) /\ Len(Tail(plan)) = Len(plan) - 1
      /\ DOMAIN Tail(plan) = 1..Len(plan) - 1
  BY <1>1, EmptySeq
<1>3. \A k \in 1..Len(plan) - 1 : Tail(plan)[k] = plan[k + 1]
  BY <1>1, <1>2
<1> QED  BY <1>2, <1>3

(* A rename, a copy or a failure of either keeps the invariant.            *)
LEMMA MoveKeeps ==
    ASSUME TitlesInv, Move
    PROVE  TitlesInv'
<1>1. /\ phase = "rename" /\ UNCHANGED <<rip, chosen, theirs, tries>>
      /\ rip \in Jobs(Engines) /\ tries \in Nat /\ Selected
      /\ ToMove /\ FirstMoves /\ MovesOnce /\ WellNamed(2) /\ Vacant
  BY DEF Move, TitlesInv
<1>2. PICK p, t : p = plan[1].path /\ t = plan[1].file
  OBVIOUS
<1>3. CASE phase' = "failed" /\ UNCHANGED <<ripped, plan, library>>
  BY <1>1, <1>3, QuietKeeps
<1>4. CASE /\ ~Occupied(p) /\ Lands(p, t) /\ phase' = "failed"
           /\ UNCHANGED <<ripped, plan>>
  <2>1. Stored' /\ Spooled'
    BY <1>1, <1>2, <1>4, LandingStores, LandingSpools
  <2>2. Unmoved' /\ Selected'
    BY <1>1, <1>4, StageKeeps
  <2> QED  BY <1>1, <1>4, <2>1, <2>2 DEF TitlesInv
<1>5. CASE /\ Lands(p, t) /\ Leaves(t)
           /\ phase' = "move" /\ plan' = Tail(plan)
  <2>1. ~Consumes => ripped' = ripped
    BY <1>5 DEF Leaves, Consumes
  <2>2. Spooled'
    BY <1>1, <1>2, <1>5, LandingSpools
  <2>3. /\ Stored' /\ t.id \in Wants /\ t # Others /\ 1 \in DOMAIN plan
        /\ Ours' = Ours \cup {p} /\ library'[p] = t
        /\ \A q \in Ours : q # p /\ library'[q] = library[q]
        /\ \A q : Occupied(q)' <=> Occupied(q) \/ q = p
        /\ Landed' = Landed \cup {t.id}
    BY <1>1, <1>2, <1>5, <2>1, LandingStores
  <2>4. ripped' \in SUBSET ripped /\ Unmoved' /\ Selected'
    <3>1. ripped' \in SUBSET ripped
      BY <1>5 DEF Leaves
    <3> QED  BY <1>1, <1>5, <3>1, StageKeeps
  <2>5. /\ Consumes' <=> Consumes
        /\ \A q, s : Named(q, s)' <=> Named(q, s)
        /\ \A s : Biggest(s)' <=> Biggest(s)
        /\ ByPosition' <=> ByPosition
        /\ ByBiggest' <=> ByBiggest
        /\ FirstPath' = FirstPath
        /\ Wants' = Wants
        /\ IdsOf(chosen)' = IdsOf(chosen)
        /\ ripped' = ripped => Whole' = Whole
    BY <1>1, TitlesFrame
  <2>6. /\ \E M : plan' \in Seq(M)
        /\ \A k \in DOMAIN plan' : /\ k \in Nat \ {0} /\ k + 1 \in DOMAIN plan
                                   /\ plan'[k] = plan[k + 1]
        /\ \A k \in DOMAIN plan \ {1} : /\ k \in Nat /\ k >= 2
                                        /\ k - 1 \in DOMAIN plan'
                                        /\ k - 1 + 1 = k
    BY <1>1, <1>5, TailIs DEF Vacant
  <2>7. ToMove'
    <3>1. (plan \in Seq({plan[k] : k \in DOMAIN plan}))'
      BY <2>6, RangeSeq
    <3>2. \A k \in DOMAIN plan' :
             /\ plan'[k].file.id \in Wants' /\ plan'[k].file # Others
             /\ Consumes' => \E l \in DOMAIN chosen' :
                               plan'[k].file = chosen'[l]
             /\ ~Consumes' => plan'[k] \in Whole'
      BY <1>1, <2>1, <2>5, <2>6 DEF ToMove
    <3>3. \A x \in Wants' : x \in Landed' \/ \E k \in DOMAIN plan' :
                                                x = plan'[k].file.id
      <4> SUFFICES ASSUME NEW x \in Wants, x \notin Landed'
                   PROVE  \E k \in DOMAIN plan' : x = plan'[k].file.id
        BY <2>5
      <4>1. PICK k \in DOMAIN plan : x = plan[k].file.id
        BY <1>1, <2>3 DEF ToMove
      <4>2. k # 1
        BY <1>2, <2>3, <4>1
      <4>3. k - 1 \in DOMAIN plan' /\ plan'[k - 1] = plan[k]
        BY <2>6, <4>2
      <4> QED  BY <4>1, <4>3
    <3> QED  BY <3>1, <3>2, <3>3 DEF ToMove
  <2>8. FirstMoves'
    <3> SUFFICES ASSUME Consumes
                 PROVE  /\ ripped' # IdsOf(chosen)
                        /\ ByBiggest => \A k \in DOMAIN plan' :
                              Biggest(plan'[k].file) =>
                                  plan'[k].path = FirstPath
      BY <2>5 DEF FirstMoves
    <3>1. t.id \notin ripped'
      BY <1>5 DEF Leaves, Consumes
    <3>2. t.id \in IdsOf(chosen)
      <4>1. rip.engine # "HandBrake"
        BY DEF Consumes, MovesRips
      <4> QED  BY <2>3, <4>1 DEF Wants
    <3> QED  BY <1>1, <2>6, <3>1, <3>2 DEF FirstMoves
  <2>9. MovesOnce'
    <3> SUFFICES ASSUME Consumes, tries = 0
                 PROVE  /\ \A i, j \in DOMAIN plan' :
                              plan'[i].file = plan'[j].file => i = j
                        /\ \A q \in Ours', k \in DOMAIN plan' :
                              library'[q] # plan'[k].file
      BY <1>1, <2>5 DEF MovesOnce
    <3>1. /\ \A i, j \in DOMAIN plan : plan[i].file = plan[j].file => i = j
          /\ \A q \in Ours, k \in DOMAIN plan : library[q] # plan[k].file
      BY <1>1 DEF MovesOnce
    <3>2. ASSUME NEW i \in DOMAIN plan', NEW j \in DOMAIN plan',
                 plan'[i].file = plan'[j].file
          PROVE  i = j
      <4>1. i + 1 = j + 1
        BY <2>6, <3>1, <3>2
      <4> QED  BY <2>6, <4>1
    <3>3. ASSUME NEW q \in Ours', NEW k \in DOMAIN plan'
          PROVE  library'[q] # plan'[k].file
      <4>1. CASE q \in Ours
        BY <2>3, <2>6, <3>1, <4>1
      <4>2. CASE q = p
        <5>1. k + 1 \in DOMAIN plan /\ k + 1 # 1 /\ plan'[k] = plan[k + 1]
          BY <2>6
        <5> QED  BY <1>2, <2>3, <3>1, <4>2, <5>1
      <4> QED  BY <2>3, <4>1, <4>2
    <3> QED  BY <3>2, <3>3
  <2>10. WellNamed(1)'
    <3> SUFFICES ASSUME NEW k \in DOMAIN plan',
                        ~(Named(plan[k].path, plan[k].file)')
                 PROVE  \E j \in DOMAIN plan' :
                           /\ 1 <= j /\ j <= k
                           /\ Occupied(plan[j].path)'
      BY DEF WellNamed
    <3>1. ~Named(plan'[k].path, plan'[k].file)
      BY <2>5
    <3>2. PICK j \in DOMAIN plan : /\ 2 <= j /\ j <= k + 1
                                   /\ Occupied(plan[j].path)
      BY <1>1, <2>6, <3>1 DEF WellNamed
    <3>3. j # 1 /\ j - 1 \in DOMAIN plan' /\ plan'[j - 1] = plan[j]
      BY <2>6, <3>2
    <3>4. 1 <= j - 1 /\ j - 1 <= k
      BY <2>6, <3>2, <3>3
    <3>5. Occupied(plan[j - 1].path)'
      BY <2>3, <3>2, <3>3 DEF Occupied
    <3> QED  BY <3>3, <3>4, <3>5
  <2> QED  BY <1>1, <1>5, <2>2, <2>3, <2>4, <2>7, <2>8, <2>9, <2>10
              DEF TitlesInv
<1> QED  BY <1>2, <1>3, <1>4, <1>5 DEF Move

(* The files there are to move: titles wanted, all of them but for those   *)
(* that have left rip/.                                                    *)
LEMMA SourcesAre ==
    ASSUME TitlesInv, phase = "encode"
    PROVE  /\ Selectable(Sources)
           /\ \A i \in DOMAIN Sources : /\ Sources[i].id \in Wants
                                        /\ Sources[i] # Others
           /\ \A x \in Wants : x \in Landed \/ \E i \in DOMAIN Sources :
                                                   x = Sources[i].id
<1>1. /\ rip \in Jobs(Engines) /\ Spooled /\ chosen = SelectTitles
      /\ ripped \in SUBSET IdsOf(chosen)
  BY DEF TitlesInv, Selected
<1>2. Selectable(chosen)
  BY <1>1, SelectionIs
<1>3. Selectable(Sources)
  <2>1. CASE rip.engine = "HandBrake"
    BY <1>1, <2>1, EncodedIs
  <2>2. CASE rip.engine # "HandBrake"
    BY <1>1, <2>2, WithIdsSelects DEF Sources
  <2> QED  BY <2>1, <2>2
<1>4. \A i \in DOMAIN Sources : Sources[i] # Others
  <2>1. \A i \in DOMAIN Sources : Sources[i] \in TitleRecords
    BY <1>3 DEF Selectable
  <2>2. \A s \in TitleRecords : s.id # 0
    BY DEF TitleRecords
  <2>3. Others.id = 0
    BY DEF Others, Title
  <2> QED  BY <2>1, <2>2, <2>3
<1>5. CASE rip.engine = "HandBrake"
  <2>1. Wants = {Sources[i].id : i \in DOMAIN Sources}
    BY <1>5 DEF Wants, IdsOf
  <2> QED  BY <1>3, <1>4, <2>1
<1>6. CASE rip.engine # "HandBrake"
  <2>1. Wants = IdsOf(chosen)
    BY <1>6 DEF Wants
  <2>2. Sources = WithIds(ripped)
    BY <1>6 DEF Sources
  <2>3. IdsOf(Sources) = ripped
    BY <1>1, <1>2, <2>2, SpoolIs
  <2>4. {Sources[i].id : i \in DOMAIN Sources} = ripped
    BY <2>3 DEF IdsOf
  <2>5. \A x \in IdsOf(chosen) \ ripped : x \in Landed
    BY <1>1, <1>6 DEF Spooled
  <2> QED  BY <1>1, <1>3, <1>4, <2>1, <2>4, <2>5
<1> QED  BY <1>5, <1>6

(* The transcode step with its plan of the moves keeps the invariant.      *)
LEMMA EncodeKeeps ==
    ASSUME TitlesInv, Encode
    PROVE  TitlesInv'
<1>1. /\ phase = "encode"
      /\ UNCHANGED <<rip, chosen, ripped, library, theirs, tries>>
      /\ rip \in Jobs(Engines) /\ tries \in Nat /\ Selected /\ Spooled
      /\ Stored /\ chosen = SelectTitles /\ ripped \in SUBSET IdsOf(chosen)
      /\ (tries = 0 => Untouched)
  BY DEF Encode, TitlesInv, Selected, Unmoved
<1>2. PICK srcs : srcs = Sources
  OBVIOUS
<1>3. phase' \in {"move", "failed"}
  BY DEF Encode
<1>4. Unmoved' /\ Selected'
  BY <1>1, <1>3, StageKeeps
<1>5. /\ Spooled' /\ Stored' /\ Ours' = Ours /\ Landed' = Landed
      /\ \A q : Occupied(q)' <=> Occupied(q)
  BY <1>1, SameFiles
<1>6. CASE phase' = "failed"
  BY <1>1, <1>4, <1>5, <1>6 DEF TitlesInv
<1>7. CASE phase' = "move"
  <2>1. plan' = [i \in DOMAIN srcs |->
                    [file |-> srcs[i], path |-> OutputPath(srcs, i)]]
    BY <1>2, <1>7 DEF Encode
  <2>2. /\ DOMAIN plan' = DOMAIN srcs
        /\ \A i \in DOMAIN srcs : /\ plan'[i].file = srcs[i]
                                  /\ plan'[i].path = OutputPath(srcs, i)
                                  /\ plan'[i] \in Whole
    BY <1>2, <2>1 DEF Whole
  <2>3. /\ Selectable(srcs)
        /\ \A i \in DOMAIN srcs : srcs[i].id \in Wants /\ srcs[i] # Others
        /\ \A x \in Wants : x \in Landed \/ \E i \in DOMAIN srcs :
                                                x = srcs[i].id
    BY <1>1, <1>2, SourcesAre
  <2>4. /\ Consumes' <=> Consumes
        /\ \A q, s : Named(q, s)' <=> Named(q, s)
        /\ \A s : Biggest(s)' <=> Biggest(s)
        /\ ByPosition' <=> ByPosition
        /\ ByBiggest' <=> ByBiggest
        /\ FirstPath' = FirstPath
        /\ Wants' = Wants
        /\ Whole' = Whole
    BY <1>1, TitlesFrame
  <2>5. DOMAIN srcs = 1..Len(srcs) /\ Len(srcs) \in Nat
    BY <2>3 DEF Selectable
  <2>6. ASSUME Consumes, NEW i \in DOMAIN srcs
        PROVE  /\ \E l \in DOMAIN chosen : srcs[i] = chosen[l]
               /\ ByPosition => OutputPath(srcs, 1) = FirstPath
               /\ ByBiggest /\ Biggest(srcs[i]) =>
                     OutputPath(srcs, i) = FirstPath
               /\ \/ Named(OutputPath(srcs, i), srcs[i])
                  \/ ByPosition /\ ripped # IdsOf(chosen)
                  \/ /\ ByBiggest /\ OutputPath(srcs, i) = FirstPath
                     /\ \E k \in DOMAIN chosen :
                           /\ Biggest(chosen[k])
                           /\ chosen[k].id \notin ripped
    BY <1>1, <1>2, <2>6, SpoolNamed DEF Consumes
  <2>7. ToMove'
    <3>1. (plan \in Seq({plan[k] : k \in DOMAIN plan}))'
      <4>1. \E M : plan' \in Seq(M)
        <5>1. \A i \in 1..Len(srcs) : plan'[i] \in Whole
          BY <2>2, <2>5
        <5>2. plan' = [i \in 1..Len(srcs) |-> plan'[i]]
          BY <2>1, <2>5
        <5>3. plan' \in Seq(Whole)
          BY <2>5, <5>1, <5>2
        <5> QED  BY <5>3
      <4> QED  BY <4>1, RangeSeq
    <3>2. \A k \in DOMAIN plan' :
             /\ plan'[k].file.id \in Wants' /\ plan'[k].file # Others
             /\ Consumes' => \E l \in DOMAIN chosen' :
                               plan'[k].file = chosen'[l]
             /\ ~Consumes' => plan'[k] \in Whole'
      BY <1>1, <2>2, <2>3, <2>4, <2>6
    <3>3. \A x \in Wants' : x \in Landed' \/ \E k \in DOMAIN plan' :
                                                x = plan'[k].file.id
      BY <1>5, <2>2, <2>3, <2>4
    <3> QED  BY <3>1, <3>2, <3>3 DEF ToMove
  <2>8. FirstMoves'
    <3> SUFFICES ASSUME Consumes
                 PROVE  /\ ByPosition /\ plan' # <<>> =>
                              plan'[1].path = FirstPath
                        /\ ByBiggest => \A k \in DOMAIN plan' :
                              Biggest(plan'[k].file) =>
                                  plan'[k].path = FirstPath
      BY <1>1, <2>4 DEF FirstMoves
    <3>1. plan' # <<>> => 1 \in DOMAIN srcs
      BY <2>1, <2>5
    <3> QED  BY <2>2, <2>6, <3>1
  <2>9. MovesOnce'
    <3> SUFFICES ASSUME tries = 0
                 PROVE  /\ \A i, j \in DOMAIN plan' :
                              plan'[i].file = plan'[j].file => i = j
                        /\ Ours' = {}
      BY <1>1, <2>4 DEF MovesOnce
    <3>1. Ours' = {}
      BY <1>1, <1>5, UntouchedStored
    <3>2. \A i, j \in DOMAIN srcs : srcs[i] = srcs[j] => i = j
      BY <2>3 DEF Selectable
    <3> QED  BY <2>2, <3>1, <3>2
  <2>10. WellNamed(1)'
    <3> SUFFICES ASSUME NEW k \in DOMAIN plan',
                        ~(Named(plan[k].path, plan[k].file)')
                 PROVE  \E j \in DOMAIN plan' :
                           /\ 1 <= j /\ j <= k
                           /\ Occupied(plan[j].path)'
      BY DEF WellNamed
    <3>1. k \in DOMAIN srcs /\ 1 \in DOMAIN srcs /\ 1 <= k
      BY <2>2, <2>5
    <3>2. ~Named(OutputPath(srcs, k), srcs[k])
      BY <2>2, <2>4, <3>1
    <3>3. Consumes
      <4> SUFFICES ASSUME ~Consumes
                   PROVE  FALSE
        OBVIOUS
      <4>1. CASE rip.engine = "HandBrake"
        BY <1>1, <1>2, <3>1, <3>2, <4>1, EncodesNamed
      <4>2. CASE rip.engine # "HandBrake"
        <5>1. ripped = IdsOf(chosen)
          BY <1>1, <4>2 DEF Spooled
        <5> QED  BY <1>1, <1>2, <3>1, <3>2, <4>2, <5>1, RipsNamed
      <4> QED  BY <4>1, <4>2
    <3>4. CASE ByPosition /\ ripped # IdsOf(chosen)
      <4>1. Occupied(FirstPath)
        BY <1>1, <3>3, <3>4 DEF Spooled
      <4>2. plan'[1].path = FirstPath
        BY <2>2, <2>6, <3>1, <3>3, <3>4
      <4>3. Occupied(plan[1].path)'
        BY <1>1, <4>1, <4>2 DEF Occupied
      <4> QED  BY <2>2, <3>1, <4>3
    <3>5. CASE /\ ByBiggest /\ OutputPath(srcs, k) = FirstPath
               /\ \E l \in DOMAIN chosen : /\ Biggest(chosen[l])
                                           /\ chosen[l].id \notin ripped
      <4>1. Occupied(FirstPath)
        BY <1>1, <3>3, <3>5 DEF Spooled
      <4>2. plan'[k].path = FirstPath
        BY <2>2, <3>1, <3>5
      <4>3. Occupied(plan[k].path)'
        BY <1>1, <4>1, <4>2 DEF Occupied
      <4>4. k <= k
        BY <2>5, <3>1
      <4> QED  BY <2>2, <3>1, <4>3, <4>4
    <3> QED  BY <2>6, <3>1, <3>2, <3>3, <3>4, <3>5
  <2> QED  BY <1>1, <1>4, <1>5, <1>7, <2>7, <2>8, <2>9, <2>10
              DEF TitlesInv
<1> QED  BY <1>3, <1>6, <1>7

(* Nothing happens to the titles.                                          *)
LEMMA TitlesSame ==
    ASSUME TitlesInv, UNCHANGED titlesVars
    PROVE  TitlesInv'
<1>1. UNCHANGED <<rip, phase, chosen, ripped, plan, library, theirs, tries>>
  BY DEF titlesVars
<1>2. /\ Spooled' <=> Spooled
      /\ Landed' = Landed
      /\ Untouched' <=> Untouched
      /\ Stored => Stored'
  BY <1>1, SameFiles
<1>3. SelectTitles' = SelectTitles /\ IdsOf(chosen)' = IdsOf(chosen)
      /\ Wants' = Wants
  BY <1>1, SelectSame, TitlesFrame
<1>4. /\ ToMove' <=> ToMove
      /\ FirstMoves' <=> FirstMoves
      /\ MovesOnce' <=> MovesOnce
      /\ \A n : WellNamed(n)' <=> WellNamed(n)
  BY <1>1, SamePlan
<1>5. Vacant' <=> Vacant
  BY <1>1 DEF Vacant, Occupied
<1>6. (Unmoved' <=> Unmoved) /\ (Selected' <=> Selected)
  BY <1>1, <1>2, <1>3 DEF Unmoved, Selected
<1> QED  BY <1>1, <1>2, <1>3, <1>4, <1>5, <1>6 DEF TitlesInv

(* Every step keeps the invariant.                                         *)
LEMMA TitlesKeeps ==
    ASSUME TitlesInv, TitlesNext \/ UNCHANGED titlesVars
    PROVE  TitlesInv'
BY SelectKeeps, RipTitleKeeps, EncodeKeeps, StatPathKeeps, MoveKeeps,
   FinishKeeps, RetryKeeps, OtherMovesKeeps, TitlesSame DEF TitlesNext

(* What the invariant says of the library.                                 *)
LEMMA TitlesInvHolds == TitlesInv => Paired
<1> SUFFICES ASSUME TitlesInv
             PROVE  Paired
  OBVIOUS
<1>1. /\ rip \in Jobs(Engines) /\ Stored /\ tries \in Nat
      /\ phase = "finished" => \A x \in Wants : x \in Landed
  BY DEF TitlesInv
<1>2. NothingReplaced
  BY <1>1 DEF NothingReplaced, Stored
<1>3. AllOnce
  <2>1. \A p \in Ours : library[p].id \in Wants
    BY <1>1 DEF Stored
  <2>2. \/ rip.engine \in MovesRips /\ tries > 0
        \/ \A p, q \in Ours : library[p] = library[q] => p = q
    <3>1. CASE Consumes
      <4>1. tries = 0 \/ tries > 0
        BY <1>1
      <4> QED  BY <1>1, <3>1, <4>1 DEF Stored, Consumes
    <3>2. CASE ~Consumes
      <4> SUFFICES ASSUME NEW p \in Ours, NEW q \in Ours,
                          library[p] = library[q], p # q
                   PROVE  FALSE
        OBVIOUS
      <4>1. phase \notin {"select", "rip", "lost"}
        BY UntouchedStored DEF TitlesInv, Unmoved
      <4>2. Selectable(Sources)
        <5>1. chosen = SelectTitles
          BY <4>1 DEF TitlesInv, Selected
        <5>2. CASE rip.engine = "HandBrake"
          BY <1>1, <5>1, <5>2, EncodedIs
        <5>3. CASE rip.engine # "HandBrake"
          BY <1>1, <5>3, WithIdsSelects DEF Sources
        <5> QED  BY <5>2, <5>3
      <4>3. PICK i \in DOMAIN Sources :
               [file |-> library[p], path |-> p]
               = [file |-> Sources[i], path |-> OutputPath(Sources, i)]
        BY <1>1, <3>2 DEF Stored, Whole
      <4>4. PICK j \in DOMAIN Sources :
               [file |-> library[q], path |-> q]
               = [file |-> Sources[j], path |-> OutputPath(Sources, j)]
        BY <1>1, <3>2 DEF Stored, Whole
      <4>5. library[p] = Sources[i] /\ p = OutputPath(Sources, i)
        BY <4>3
      <4>6. library[q] = Sources[j] /\ q = OutputPath(Sources, j)
        BY <4>4
      <4>7. i = j
        BY <4>2, <4>5, <4>6 DEF Selectable
      <4> QED  BY <4>5, <4>6, <4>7
    <3> QED  BY <3>1, <3>2
  <2>3. phase = "finished" => Wants \subseteq {library[p].id : p \in Ours}
    BY <1>1 DEF Landed
  <2> QED  BY <2>1, <2>2, <2>3 DEF AllOnce
<1>4. RightNames
  <2>1. \A p \in Ours : Named(p, library[p])
    BY <1>1 DEF Stored
  <2> QED  BY <2>1 DEF Named, RightNames
<1> QED  BY <1>2, <1>3, <1>4 DEF Paired

(* What the user has chosen is in the library under its own name, whatever *)
(* failed on the way (movie_move.go, move.go, extras.go, dvdvideo.go).     *)
THEOREM TitlesPaired == TitlesSpec => []Paired
<1>1. TitlesInit => TitlesInv
  BY TitlesStart DEF TitlesInit
<1> QED  BY <1>1, TitlesKeeps, TitlesInvHolds, PTL DEF TitlesSpec

=============================================================================
