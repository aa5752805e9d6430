---------------------------- MODULE LanesTheorems ----------------------------
(***************************************************************************)
(* Facts about masks, ranks and packing, for vectors of any width.         *)
(***************************************************************************)
EXTENDS Lanes, FiniteSetTheorems, WellFoundedInduction, TLAPS

(***************************************************************************)
(* A nonempty set of natural numbers has a least element.                  *)
(***************************************************************************)
LEMMA LeastNatural ==
  ASSUME NEW T \in SUBSET Nat, T # {}
  PROVE  \E m \in T : \A k \in T : m <= k
<1> DEFINE Less == OpToRel(<, Nat)
<1>1. IsWellFoundedOn(Less, Nat)
  BY NatLessThanWellFounded
<1>2. \A k, m \in Nat : k < m => <<k, m>> \in Less
  BY DEF OpToRel
<1> HIDE DEF Less
<1>3. PICK m \in T : \A k \in T : ~(<<k, m>> \in Less)
  BY <1>1, WFMin
<1>4. \A k \in T : k \in Nat /\ m \in Nat /\ ~(k < m)
  BY <1>2, <1>3
<1>5. QED
  BY <1>4

(***************************************************************************)
(* A mask of a w-lane register is finite and has at most w lanes.          *)
(***************************************************************************)
LEMMA MaskFinite ==
  ASSUME NEW w \in Nat, NEW m \in SUBSET LaneIds(w)
  PROVE  /\ IsFiniteSet(m)
         /\ PopCount(m) \in Nat
         /\ PopCount(m) <= w
<1>1. IsFiniteSet(LaneIds(w)) /\ Cardinality(LaneIds(w)) = w
  <2>1. /\ IsFiniteSet(0 .. w - 1)
        /\ Cardinality(0 .. w - 1) = IF 0 > w - 1 THEN 0 ELSE w - 1 - 0 + 1
    BY FS_Interval
  <2>2. QED
    BY <2>1 DEF LaneIds
<1>2. IsFiniteSet(m) /\ Cardinality(m) <= Cardinality(LaneIds(w))
  BY <1>1, FS_Subset
<1>3. QED
  BY <1>1, <1>2, FS_CardinalityType DEF PopCount

(***************************************************************************)
(* The mask of the n lowest lanes has n lanes.                             *)
(***************************************************************************)
LEMMA PopCountLaneIds ==
  ASSUME NEW n \in Nat
  PROVE  PopCount(LaneIds(n)) = n
<1>1. Cardinality(0 .. n - 1) = IF 0 > n - 1 THEN 0 ELSE n - 1 - 0 + 1
  BY FS_Interval
<1>2. QED
  BY <1>1 DEF PopCount, LaneIds

(***************************************************************************)
(* The rank of a set lane is a place below the population count.           *)
(***************************************************************************)
LEMMA RankType ==
  ASSUME NEW w \in Nat, NEW m \in SUBSET LaneIds(w), NEW l \in m
  PROVE  Rank(m, l) \in 0 .. PopCount(m) - 1
<1> DEFINE low == {k \in m : k < l}
<1>1. IsFiniteSet(m) /\ PopCount(m) \in Nat
  BY MaskFinite
<1>2. low \in SUBSET m /\ l \notin low
  BY DEF LaneIds
<1>3. IsFiniteSet(low) /\ Cardinality(low) <= Cardinality(m)
      /\ (Cardinality(m) = Cardinality(low) => m = low)
  BY <1>1, <1>2, FS_Subset
<1>4. Cardinality(low) \in Nat
  BY <1>3, FS_CardinalityType
<1>5. Cardinality(low) # Cardinality(m)
  BY <1>2, <1>3
<1>6. QED
  BY <1>1, <1>3, <1>4, <1>5 DEF Rank, PopCount

(***************************************************************************)
(* Ranks grow strictly along the set lanes of a mask.                      *)
(***************************************************************************)
LEMMA RankMonotonic ==
  ASSUME NEW w \in Nat, NEW m \in SUBSET LaneIds(w),
         NEW k \in m, NEW l \in m, k < l
  PROVE  Rank(m, k) < Rank(m, l)
<1> DEFINE A == {x \in m : x < k}
           B == {x \in m : x < l}
<1>1. IsFiniteSet(m)
  BY MaskFinite
<1>2. IsFiniteSet(B)
  BY <1>1, FS_Subset
<1>3. A \in SUBSET B /\ k \in B /\ k \notin A
  <2>1. \A x \in m : x \in Int
    BY DEF LaneIds
  <2>2. \A x \in m : x < k => x < l
    BY <2>1
  <2>3. ~(k < k)
    BY <2>1
  <2>4. QED
    BY <2>2, <2>3
<1>4. IsFiniteSet(A) /\ Cardinality(A) <= Cardinality(B)
      /\ (Cardinality(B) = Cardinality(A) => B = A)
  BY <1>2, <1>3, FS_Subset
<1>5. Cardinality(A) \in Nat /\ Cardinality(B) \in Nat
  BY <1>2, <1>4, FS_CardinalityType
<1>6. Cardinality(A) # Cardinality(B)
  BY <1>3, <1>4
<1>7. QED
  BY <1>4, <1>5, <1>6 DEF Rank

(***************************************************************************)
(* Every place below the population count is the rank of a set lane, so    *)
(* Nth (the lane vpcompressd packs there) is well defined.                 *)
(***************************************************************************)
LEMMA NthRank ==
  ASSUME NEW w \in Nat, NEW m \in SUBSET LaneIds(w),
         NEW j \in 0 .. PopCount(m) - 1
  PROVE  Nth(m, j) \in m /\ Rank(m, Nth(m, j)) = j
<1> DEFINE n == PopCount(m)
           T == 0 .. n - 1
           f == [k \in m |-> Rank(m, k)]
<1>1. IsFiniteSet(m) /\ n \in Nat
  BY MaskFinite
<1>2. IsFiniteSet(T) /\ Cardinality(T) = n
  <2> HIDE DEF n
  <2>1. 0 \in Int /\ n - 1 \in Int
    BY <1>1
  <2>2. /\ IsFiniteSet(0 .. n - 1)
        /\ Cardinality(0 .. n - 1) = IF 0 > n - 1 THEN 0 ELSE n - 1 - 0 + 1
    BY <2>1, FS_Interval
  <2>3. QED
    BY <1>1, <2>2
<1>3. f \in [m -> T]
  BY RankType
<1>4. \A a, b \in m : f[a] = f[b] => a = b
  <2> SUFFICES ASSUME NEW a \in m, NEW b \in m, a # b
               PROVE  f[a] # f[b]
    OBVIOUS
  <2>1. a < b \/ b < a
    BY DEF LaneIds
  <2>2. f[a] \in Int /\ f[b] \in Int
    BY <1>3
  <2>3. CASE a < b
    BY <2>2, <2>3, RankMonotonic
  <2>4. CASE b < a
    BY <2>2, <2>4, RankMonotonic
  <2>5. QED
    BY <2>1, <2>3, <2>4
<1>5. f \in Injection(m, T)
  BY <1>3, <1>4 DEF Injection, IsInjective
<1>6. f \in Surjection(m, T)
  <2>1. Cardinality(m) = Cardinality(T) <=> f \in Surjection(m, T)
    BY <1>2, <1>5, FS_Injection
  <2>2. QED
    BY <1>2, <2>1 DEF PopCount
<1>7. \E k \in m : Rank(m, k) = j
  BY <1>6 DEF Surjection
<1>8. QED
  BY <1>7 DEF Nth

(***************************************************************************)
(* Packing keeps the order of the lanes.                                   *)
(***************************************************************************)
LEMMA NthMonotonic ==
  ASSUME NEW w \in Nat, NEW m \in SUBSET LaneIds(w),
         NEW j \in 0 .. PopCount(m) - 1, NEW k \in 0 .. PopCount(m) - 1, j < k
  PROVE  Nth(m, j) < Nth(m, k)
<1> DEFINE a == Nth(m, j)
           b == Nth(m, k)
<1>1. a \in m /\ b \in m /\ Rank(m, a) = j /\ Rank(m, b) = k
  BY NthRank
<1>2. PopCount(m) \in Nat
  BY MaskFinite
<1>3. ~(b < a)
  <2>1. b < a => k < j
    BY <1>1, RankMonotonic
  <2>2. QED
    BY <1>2, <2>1
<1>4. a # b
  BY <1>1, <1>2
<1>5. a \in Int /\ b \in Int
  <2>1. \A x \in m : x \in Int
    BY DEF LaneIds
  <2>2. QED
    BY <1>1, <2>1
<1> HIDE DEF a, b
<1>6. a < b
  BY <1>3, <1>4, <1>5
<1>7. QED
  BY <1>6 DEF a, b

(***************************************************************************)
(* A mask and its complement share out the lanes.                          *)
(***************************************************************************)
LEMMA PopCountComplement ==
  ASSUME NEW w \in Nat, NEW m \in SUBSET LaneIds(w)
  PROVE  PopCount(LaneIds(w) \ m) = w - PopCount(m)
<1>1. IsFiniteSet(LaneIds(w)) /\ Cardinality(LaneIds(w)) = w
  BY MaskFinite, PopCountLaneIds DEF PopCount
<1>2. Cardinality(LaneIds(w) \ m)
        = Cardinality(LaneIds(w)) - Cardinality(LaneIds(w) \cap m)
  BY <1>1, FS_Difference
<1>3. LaneIds(w) \cap m = m
  OBVIOUS
<1>4. QED
  BY <1>1, <1>2, <1>3 DEF PopCount

(***************************************************************************)
(* Above the n lowest lanes, lane l is the (l - n)-th: vpexpandd under     *)
(* that mask appends its source to the n lanes below.                      *)
(***************************************************************************)
LEMMA RankAbove ==
  ASSUME NEW w \in Nat, NEW n \in 0 .. w, NEW l \in n .. w - 1
  PROVE  Rank(LaneIds(w) \ LaneIds(n), l) = l - n
<1>1. {k \in LaneIds(w) \ LaneIds(n) : k < l} = n .. l - 1
  BY DEF LaneIds
<1>2. Cardinality(n .. l - 1) = l - n
  <2>1. n \in Int /\ l - 1 \in Int
    OBVIOUS
  <2>2. Cardinality(n .. l - 1) = IF n > l - 1 THEN 0 ELSE l - 1 - n + 1
    BY <2>1, FS_Interval
  <2>3. QED
    BY <2>2
<1>3. QED
  BY <1>1, <1>2 DEF Rank

(***************************************************************************)
(* When m lies in the e lowest lanes, the first e - PopCount(m) lanes of   *)
(* its complement lie there too: packing the complement brings the         *)
(* remaining loaded lanes before any lane that was not loaded.             *)
(***************************************************************************)
LEMMA ComplementLow ==
  ASSUME NEW w \in Nat, NEW e \in 0 .. w, NEW m \in SUBSET LaneIds(e),
         NEW j \in 0 .. e - PopCount(m) - 1
  PROVE  Nth(LaneIds(w) \ m, j) \in LaneIds(e) \ m
<1> DEFINE U == LaneIds(w) \ m
           L == LaneIds(e) \ m
           a == Nth(U, j)
<1>1. m \in SUBSET LaneIds(w) /\ U \in SUBSET LaneIds(w) /\ L \in SUBSET LaneIds(w)
  BY DEF LaneIds
<1>2. PopCount(m) \in Nat /\ PopCount(m) <= e
  BY MaskFinite
<1>3. PopCount(U) = w - PopCount(m) /\ PopCount(L) = e - PopCount(m)
  BY <1>1, PopCountComplement
<1>4. a \in U /\ Rank(U, a) = j
  <2>1. j \in 0 .. PopCount(U) - 1
    BY <1>2, <1>3
  <2>2. QED
    BY <1>1, <2>1, NthRank
<1>5. a < e
  <2> SUFFICES ASSUME ~(a < e) PROVE FALSE
    OBVIOUS
  <2> DEFINE below == {k \in U : k < a}
  <2>1. a \in Int
    BY <1>1, <1>4 DEF LaneIds
  <2>2. L \in SUBSET below
    BY <2>1 DEF LaneIds
  <2>3. IsFiniteSet(below)
    BY <1>1, MaskFinite
  <2>4. Cardinality(L) <= Cardinality(below)
    BY <2>2, <2>3, FS_Subset
  <2>5. e - PopCount(m) <= j
    BY <1>3, <1>4, <2>4 DEF Rank, PopCount
  <2>6. QED
    BY <1>2, <2>5
<1>6. QED
  BY <1>4, <1>5 DEF LaneIds
==============================================================================
