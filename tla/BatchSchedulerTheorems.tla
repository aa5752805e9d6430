----------------------- MODULE BatchSchedulerTheorems ------------------------
(***************************************************************************)
(* Proofs about BatchScheduler, for every queue length, lookahead, batch   *)
(* width and initial queue.                                                *)
(***************************************************************************)
EXTENDS BatchScheduler, LanesTheorems

USE QLenAssumption, LookaheadAssumption, BatchMaxAssumption

(***************************************************************************)
(* What the swizzle map is: the winners in order, then the other lanes in  *)
(* order.                                                                  *)
(***************************************************************************)
LEMMA SwizzleLanes ==
  ASSUME NEW m \in SUBSET LaneIds(Lookahead), NEW l \in LaneIds(Lookahead)
  PROVE  Swizzle(m)[l] = IF l < PopCount(m)
                         THEN Nth(m, l)
                         ELSE Nth(LaneIds(Lookahead) \ m, l - PopCount(m))
<1> DEFINE W == LaneIds(Lookahead)
           n == PopCount(m)
           U == W \ m
           id == [x \in W |-> x]
           head == Compress(m, id)
           tail == Compress(U, id)
           xm == W \ LaneIds(n)
<1>1. n \in Nat /\ n <= Lookahead
  BY MaskFinite
<1>2. Swizzle(m)[l] = IF l \in xm THEN tail[Rank(xm, l)] ELSE head[l]
  BY DEF Swizzle, IdxVec, Expand, Compress
<1>3. l \in Nat /\ l < Lookahead
  BY DEF LaneIds
<1>4. CASE l < n
  <2>1. l \notin xm
    BY <1>1, <1>3, <1>4 DEF LaneIds
  <2>2. Nth(m, l) \in m
    <3>1. l \in 0 .. PopCount(m) - 1
      BY <1>1, <1>3, <1>4
    <3>2. QED
      BY <3>1, NthRank
  <2>3. head[l] = Nth(m, l)
    BY <1>4, <2>2 DEF Compress
  <2>4. QED
    BY <1>2, <1>4, <2>1, <2>3
<1>5. CASE ~(l < n)
  <2>1. l \in xm
    BY <1>1, <1>3, <1>5 DEF LaneIds
  <2>2. Rank(xm, l) = l - n
    <3>1. l \in n .. Lookahead - 1 /\ n \in 0 .. Lookahead /\ Lookahead \in Nat
      BY <1>1, <1>3, <1>5
    <3> HIDE DEF n
    <3>2. QED
      BY <3>1, RankAbove
  <2>3. PopCount(U) = Lookahead - n
    BY PopCountComplement
  <2>4. l - n \in 0 .. PopCount(U) - 1 /\ l - n \in W
    BY <1>1, <1>3, <1>5, <2>3 DEF LaneIds
  <2>5. Nth(U, l - n) \in U
    BY <2>4, NthRank
  <2>6. tail[l - n] = Nth(U, l - n)
    <3>1. l - n < PopCount(U)
      BY <1>1, <1>3, <2>3, <2>4
    <3>2. tail[l - n] = IF l - n < PopCount(U) THEN id[Nth(U, l - n)] ELSE 0
      BY <2>4 DEF Compress
    <3>3. QED
      BY <2>5, <3>1, <3>2
  <2>7. QED
    BY <1>2, <1>5, <2>1, <2>2, <2>6
<1>6. QED
  BY <1>4, <1>5

(***************************************************************************)
(* The same facts as a reader of the call uses them: where the lanes of an *)
(* extent of e lanes come from when m of them are winners.                 *)
(***************************************************************************)
LEMMA SwizzleOrder ==
  ASSUME NEW e \in 0 .. Lookahead, NEW m \in SUBSET LaneIds(e)
  PROVE  LET sw == Swizzle(m)
             n  == PopCount(m)
         IN  /\ n \in 0 .. e
             /\ \A l \in LaneIds(e) : sw[l] \in LaneIds(e)
             /\ \A l \in LaneIds(e) : sw[l] \in m <=> l < n
             /\ \A a, b \in LaneIds(e) :
                  a < b /\ (b < n \/ n <= a) => sw[a] < sw[b]
<1> DEFINE sw == Swizzle(m)
           n == PopCount(m)
           W == LaneIds(Lookahead)
           U == W \ m
<1>1. /\ m \in SUBSET W /\ U \in SUBSET W /\ LaneIds(e) \in SUBSET W
      /\ LaneIds(e) \in SUBSET Nat
      /\ Lookahead \in Nat /\ e \in Nat
  BY DEF LaneIds
<1>2. n \in Nat /\ n <= e
  BY <1>1, MaskFinite
<1>3. PopCount(U) = Lookahead - n
  BY <1>1, PopCountComplement
<1>4. ASSUME NEW l \in LaneIds(e), l < n
      PROVE  l \in 0 .. PopCount(m) - 1 /\ sw[l] = Nth(m, l) /\ sw[l] \in m
  <2>1. l \in 0 .. PopCount(m) - 1
    BY <1>1, <1>2, <1>4
  <2>2. sw[l] = Nth(m, l)
    BY <1>1, <1>4, SwizzleLanes
  <2>3. QED
    BY <1>1, <2>1, <2>2, NthRank
<1>5. ASSUME NEW l \in LaneIds(e), ~(l < n)
      PROVE  /\ l - n \in 0 .. PopCount(U) - 1
             /\ sw[l] = Nth(U, l - n)
             /\ sw[l] \in LaneIds(e) \ m
  <2>1. l - n \in 0 .. e - n - 1
    BY <1>1, <1>2, <1>5 DEF LaneIds
  <2>2. l - n \in 0 .. PopCount(U) - 1
    BY <1>1, <1>2, <1>3, <2>1
  <2>3. sw[l] = Nth(U, l - n)
    BY <1>1, <1>5, SwizzleLanes
  <2>4. Nth(U, l - n) \in LaneIds(e) \ m
    BY <1>1, <2>1, ComplementLow
  <2>5. QED
    BY <2>2, <2>3, <2>4
<1>6. ASSUME NEW a \in LaneIds(e), NEW b \in LaneIds(e), a < b, b < n \/ n <= a
      PROVE  sw[a] < sw[b]
  <2>1. CASE b < n
    <3>1. a < n
      BY <1>1, <1>2, <1>6, <2>1
    <3>2. QED
      BY <1>1, <1>4, <1>6, <2>1, <3>1, NthMonotonic
  <2>2. CASE n <= a
    <3>1. ~(a < n) /\ ~(b < n)
      BY <1>1, <1>2, <1>6, <2>2
    <3>2. a - n < b - n
      BY <1>1, <1>2, <1>6
    <3>3. Nth(U, a - n) < Nth(U, b - n)
      BY <1>1, <1>5, <3>1, <3>2, NthMonotonic
    <3>4. QED
      BY <1>5, <3>1, <3>3
  <2>3. QED
    BY <1>6, <2>1, <2>2
<1>7. n \in 0 .. e
  BY <1>1, <1>2
<1> HIDE DEF n, sw
<1>8. QED
  BY <1>4, <1>5, <1>6, <1>7 DEF n, sw

------------------------------------------------------------------------------
(* What one call does to the queue.                                         *)

(***************************************************************************)
(* One call moves the entries of its window by a permutation Src that      *)
(* keeps the order of equal hashes, and advances i over entries which are  *)
(* the first of their hash in the window.                                  *)
(***************************************************************************)
IsCall(Src, e, r) ==
  /\ e = Extent(i) /\ e \in 1 .. Lookahead /\ i + e <= QLen
  /\ r \in 1 .. BatchMax /\ r <= e /\ i' = i + r
  /\ Src \in [Slots -> Slots]
  /\ hash' = [a \in Slots |-> hash[Src[a]]]
  /\ posn' = [a \in Slots |-> posn[Src[a]]]
  /\ \A a \in Slots : a \in i .. i + e - 1 => Src[a] \in i .. i + e - 1
  /\ \A a \in Slots : a \notin i .. i + e - 1 => Src[a] = a
  /\ \A a, b \in Slots : Src[a] = Src[b] => a = b
  /\ \A a, b \in Slots : a < b /\ hash[Src[a]] = hash[Src[b]] => Src[a] < Src[b]
  /\ \A a \in i .. i + r - 1, b \in i .. i + e - 1 :
       b < Src[a] => hash[b] # hash[Src[a]]

(***************************************************************************)
(* The call packs the window: the n entries that are the first of their    *)
(* hash come before the others, both in their order, and as many of them   *)
(* are returned as the batch has room for.                                 *)
(***************************************************************************)
IsPacked(Src, e, r, n) ==
  /\ n \in 1 .. e
  /\ r = IF n < BatchMax THEN n ELSE BatchMax
  /\ n = Cardinality({a \in i .. i + e - 1 : FirstOfHash(a)})
  /\ \A a \in i .. i + e - 1 : FirstOfHash(Src[a]) <=> a < i + n
  /\ \A a, b \in i .. i + e - 1 : a < b /\ (b < i + n \/ i + n <= a) => Src[a] < Src[b]

(***************************************************************************)
(* The lanes of the window that win: those no earlier lane equals.         *)
(***************************************************************************)
LEMMA WinnerLanes ==
  ASSUME TypeOK, i < QLen
  PROVE  LET e == Extent(i)
             m == Winners(LaneIds(e), Window(hash, i))
         IN  /\ e \in 1 .. Lookahead /\ i + e <= QLen
             /\ m \in SUBSET LaneIds(e)
             /\ 0 \in m
             /\ \A l \in LaneIds(e) :
                  l \in m <=> \A k \in LaneIds(e) : k < l => hash[i + k] # hash[i + l]
<1> DEFINE e == Extent(i)
           h0 == Window(hash, i)
           m == Winners(LaneIds(e), h0)
<1>1. i \in Nat /\ QLen \in Nat /\ hash \in [Slots -> Nat]
  BY DEF TypeOK
<1>2. e \in 1 .. Lookahead /\ i + e <= QLen
  BY <1>1 DEF Extent
<1> HIDE DEF e
<1>3. /\ LaneIds(e) \in SUBSET LaneIds(Lookahead)
      /\ \A l \in LaneIds(e) : l \in Nat /\ l < e
      /\ \A l \in LaneIds(Lookahead) : l \in Nat
      /\ 0 \in LaneIds(e)
  BY <1>2 DEF LaneIds
<1>4. DOMAIN h0 = LaneIds(Lookahead) /\ \A l \in LaneIds(e) : h0[l] = hash[i + l]
  BY <1>3 DEF Window, MaskzLoad, e
<1>5. \A l \in LaneIds(e) : l \in m <=>
        {k \in LaneIds(Lookahead) : k < l /\ h0[k] = h0[l]} = {}
  BY <1>3, <1>4 DEF Winners, Conflict
<1>6. \A l \in LaneIds(e), k \in LaneIds(Lookahead) : k < l => k \in LaneIds(e)
  BY <1>2 DEF LaneIds
<1>7. ASSUME NEW l \in LaneIds(e)
      PROVE  l \in m <=> \A k \in LaneIds(e) : k < l => hash[i + k] # hash[i + l]
  BY <1>3, <1>4, <1>5, <1>6
<1>8. 0 \in m
  BY <1>3, <1>7
<1>9. m \in SUBSET LaneIds(e)
  BY DEF Winners
<1>10. QED
  BY <1>2, <1>7, <1>8, <1>9 DEF e

(***************************************************************************)
(* ScheduleBatch is such a call.                                           *)
(***************************************************************************)
LEMMA CallShape ==
  ASSUME TypeOK, ScheduleBatch
  PROVE  \E Src, e, r : IsCall(Src, e, r) /\ \E n : IsPacked(Src, e, r, n)
<1> DEFINE e == Extent(i)
           m == Winners(LaneIds(e), Window(hash, i))
           sw == Swizzle(m)
           n == PopCount(m)
           r == BatchSize(m)
           Src == [a \in Slots |-> IF a - i \in LaneIds(e) THEN i + sw[a - i] ELSE a]
<1>1. /\ i \in Nat /\ i < QLen /\ QLen \in Nat
      /\ hash \in [Slots -> Nat] /\ posn \in [Slots -> Slots]
      /\ hash' = MaskStore(hash, i, LaneIds(e), Permute(sw, Window(hash, i)))
      /\ posn' = MaskStore(posn, i, LaneIds(e), Permute(sw, Window(posn, i)))
      /\ i' = i + r
  BY DEF TypeOK, ScheduleBatch
<1>2. /\ e \in 1 .. Lookahead /\ i + e <= QLen
      /\ m \in SUBSET LaneIds(e) /\ 0 \in m
      /\ \A l \in LaneIds(e) :
           l \in m <=> \A k \in LaneIds(e) : k < l => hash[i + k] # hash[i + l]
  BY <1>1, WinnerLanes
<1> HIDE DEF e, m
<1>3. /\ n \in 0 .. e
      /\ \A l \in LaneIds(e) : sw[l] \in LaneIds(e)
      /\ \A l \in LaneIds(e) : sw[l] \in m <=> l < n
      /\ \A a, b \in LaneIds(e) :
           a < b /\ (b < n \/ n <= a) => sw[a] < sw[b]
  <2>1. e \in 0 .. Lookahead
    BY <1>2
  <2>2. QED
    BY <1>2, <2>1, SwizzleOrder
<1>4. /\ LaneIds(e) \in SUBSET LaneIds(Lookahead)
      /\ e \in Nat
      /\ \A l : l \in LaneIds(e) <=> l \in Nat /\ l < e
  BY <1>2 DEF LaneIds
<1>5. n >= 1
  <2>1. Rank(m, 0) \in 0 .. n - 1
    BY <1>2, <1>4, RankType
  <2>2. QED
    BY <1>3, <2>1
<1>6. r \in 1 .. BatchMax /\ r <= n /\ r <= e
  BY <1>2, <1>3, <1>5 DEF BatchSize
<1>7. DOMAIN sw = LaneIds(Lookahead)
  BY DEF Swizzle, IdxVec, Expand, Compress
<1> HIDE DEF sw, n, r
<1>8. \A a \in Slots : a \in Nat /\ a < QLen
  BY DEF Slots
<1>9. \A a \in Slots : a \in i .. i + e - 1 <=> a - i \in LaneIds(e)
  BY <1>1, <1>4, <1>8
<1>10. \A a \in Slots : a \in i .. i + e - 1 =>
          Src[a] = i + sw[a - i] /\ Src[a] \in i .. i + e - 1
  BY <1>1, <1>3, <1>4, <1>9
<1>11. \A a \in Slots : a \notin i .. i + e - 1 => Src[a] = a
  BY <1>9
<1>12. Src \in [Slots -> Slots]
  <2>1. i .. i + e - 1 \in SUBSET Slots
    BY <1>1, <1>2 DEF Slots
  <2>2. \A a \in Slots : Src[a] \in Slots
    BY <1>10, <1>11, <2>1
  <2>3. QED
    BY <2>2
<1>13. ASSUME NEW mem, DOMAIN mem = Slots
       PROVE  MaskStore(mem, i, LaneIds(e), Permute(sw, Window(mem, i)))
                = [a \in Slots |-> mem[Src[a]]]
  <2>1. \A l \in LaneIds(e) : Permute(sw, Window(mem, i))[l] = mem[i + sw[l]]
    <3>1. \A l \in LaneIds(e) : Window(mem, i)[l] = mem[i + l]
      BY <1>4 DEF Window, MaskzLoad, e
    <3>2. QED
      BY <1>3, <1>4, <1>7, <3>1 DEF Permute
  <2>2. \A a \in Slots :
          (IF a - i \in LaneIds(e) THEN Permute(sw, Window(mem, i))[a - i] ELSE mem[a])
            = mem[Src[a]]
    BY <1>9, <1>10, <1>11, <2>1
  <2>3. QED
    BY <1>13, <2>2 DEF MaskStore
<1>14. /\ hash' = [a \in Slots |-> hash[Src[a]]]
       /\ posn' = [a \in Slots |-> posn[Src[a]]]
  BY <1>1, <1>13
<1>15. \A a, b \in Slots : a < b /\ hash[Src[a]] = hash[Src[b]] => Src[a] < Src[b]
  <2> SUFFICES ASSUME NEW a \in Slots, NEW b \in Slots, a < b,
                      hash[Src[a]] = hash[Src[b]]
               PROVE  Src[a] < Src[b]
    OBVIOUS
  <2> HIDE DEF Src
  <2>1. Src[a] \in Nat /\ Src[b] \in Nat
    BY <1>8, <1>12
  <2>2. CASE a \in i .. i + e - 1 /\ b \in i .. i + e - 1
    <3> DEFINE x == a - i
               y == b - i
    <3>1. x \in LaneIds(e) /\ y \in LaneIds(e) /\ x < y
      BY <1>1, <1>8, <1>9, <2>2
    <3>2. /\ Src[a] = i + sw[x] /\ Src[b] = i + sw[y]
          /\ sw[x] \in LaneIds(e) /\ sw[y] \in LaneIds(e)
          /\ sw[x] \in Nat /\ sw[y] \in Nat
      BY <1>3, <1>4, <1>10, <2>2, <3>1
    <3> HIDE DEF x, y
    <3>3. CASE y < n \/ n <= x
      <4>1. sw[x] < sw[y]
        BY <1>3, <3>1, <3>3
      <4>2. QED
        BY <1>1, <3>2, <4>1
    <3>4. CASE x < n /\ n <= y
      <4>1. sw[x] \in m /\ sw[y] \notin m
        BY <1>3, <1>4, <3>1, <3>4
      <4>2. sw[x] # sw[y]
        BY <4>1
      <4>3. ~(sw[y] < sw[x])
        BY <1>2, <3>2, <4>1
      <4>4. QED
        BY <1>1, <3>2, <4>2, <4>3
    <3>5. n \in Nat /\ x \in Nat /\ y \in Nat
      BY <1>3, <1>4, <3>1
    <3>6. QED
      BY <3>3, <3>4, <3>5
  <2>3. CASE a \notin i .. i + e - 1 \/ b \notin i .. i + e - 1
    BY <1>1, <1>4, <1>8, <1>10, <1>11, <2>1, <2>3
  <2>4. QED
    BY <2>2, <2>3
<1>16. \A a, b \in Slots : Src[a] = Src[b] => a = b
  <2> HIDE DEF Src
  <2>1. \A a \in Slots : Src[a] \in Nat
    BY <1>8, <1>12
  <2>2. QED
    BY <1>8, <1>15, <2>1
<1>17. \A a \in i .. i + r - 1, b \in i .. i + e - 1 :
         b < Src[a] => hash[b] # hash[Src[a]]
  <2> SUFFICES ASSUME NEW a \in i .. i + r - 1, NEW b \in i .. i + e - 1, b < Src[a]
               PROVE  hash[b] # hash[Src[a]]
    OBVIOUS
  <2> HIDE DEF Src
  <2>1. a \in Slots /\ a \in i .. i + e - 1 /\ a - i < n /\ b \in Slots
    <3>1. /\ a \in Int /\ i <= a /\ a <= i + r - 1
          /\ b \in Int /\ i <= b /\ b <= i + e - 1
          /\ r \in Int /\ e \in Int /\ n \in Int
      BY <1>1, <1>2, <1>3, <1>6
    <3>2. a < i + r /\ a < i + e /\ a - i < n /\ a < QLen /\ b < QLen
      BY <1>1, <1>2, <1>6, <3>1
    <3>3. QED
      BY <1>1, <3>1, <3>2 DEF Slots
  <2>2. a - i \in LaneIds(e) /\ b - i \in LaneIds(e)
    BY <1>9, <2>1
  <2>3. Src[a] = i + sw[a - i]
    BY <1>10, <2>1
  <2>4. sw[a - i] \in m /\ sw[a - i] \in LaneIds(e)
    BY <1>3, <2>1, <2>2
  <2>5. b - i < sw[a - i] /\ b = i + (b - i)
    BY <1>1, <1>4, <2>2, <2>3, <2>4
  <2>6. QED
    BY <1>2, <2>2, <2>3, <2>4, <2>5
<1> HIDE DEF Src
<1>18. IsCall(Src, e, r)
  BY <1>1, <1>2, <1>6, <1>10, <1>11, <1>12, <1>14, <1>15, <1>16, <1>17 DEF IsCall, e
<1>19. \A l \in LaneIds(e) : l \in m <=> FirstOfHash(i + l)
  <2>1. \A l \in LaneIds(e) : i + l \in i .. i + e - 1
    BY <1>1, <1>4
  <2>2. \A b \in i .. i + e - 1 : b - i \in LaneIds(e) /\ i + (b - i) = b
    BY <1>1, <1>4
  <2>3. \A l \in LaneIds(e) : FirstOfHash(i + l)
          <=> \A b \in i .. i + e - 1 : b < i + l => hash[b] # hash[i + l]
    BY DEF FirstOfHash, WindowSlots, e
  <2>4. \A k, l \in LaneIds(e) : k < l <=> i + k < i + l
    BY <1>1, <1>4
  <2>5. QED
    BY <1>2, <2>1, <2>2, <2>3, <2>4
<1>20. n = Cardinality({a \in i .. i + e - 1 : FirstOfHash(a)})
  <2> DEFINE F == {a \in i .. i + e - 1 : FirstOfHash(a)}
             g == [l \in m |-> i + l]
  <2>1. \A l \in m : l \in Nat /\ i + l \in i .. i + e - 1 /\ FirstOfHash(i + l)
    BY <1>1, <1>2, <1>4, <1>19
  <2>2. \A a \in F : a - i \in m /\ i + (a - i) = a
    <3>1. \A a \in F : a - i \in LaneIds(e) /\ i + (a - i) = a
      BY <1>1, <1>4
    <3>2. QED
      BY <1>19, <3>1
  <2>3. g \in Bijection(m, F)
    <3>1. g \in [m -> F] /\ \A k, l \in m : g[k] = g[l] => k = l
      BY <1>1, <2>1
    <3>2. \A a \in F : \E l \in m : g[l] = a
      BY <2>2
    <3>3. g \in Injection(m, F)
      BY <3>1 DEF Injection, IsInjective
    <3>4. g \in Surjection(m, F)
      BY <3>1, <3>2 DEF Surjection
    <3>5. QED
      BY <3>3, <3>4 DEF Bijection
  <2>4. IsFiniteSet(m) /\ n = Cardinality(m)
    <3>1. IsFiniteSet(m)
      BY <1>2, <1>4, MaskFinite
    <3>2. QED
      BY <3>1 DEF n, PopCount
  <2> HIDE DEF F, g
  <2>5. Cardinality(F) = Cardinality(m)
    BY <2>3, <2>4, FS_Bijection DEF ExistsBijection
  <2>6. QED
    BY <2>4, <2>5 DEF F
<1>21. n \in 1 .. e /\ r = IF n < BatchMax THEN n ELSE BatchMax
  <2>1. n \in 1 .. e
    BY <1>3, <1>4, <1>5
  <2>2. QED
    BY <2>1 DEF r, n, BatchSize
<1>22. /\ \A a \in i .. i + e - 1 : FirstOfHash(Src[a]) <=> a < i + n
       /\ \A a, b \in i .. i + e - 1 : a < b /\ (b < i + n \/ i + n <= a) => Src[a] < Src[b]
  <2>1. ASSUME NEW a \in i .. i + e - 1
        PROVE  a \in Slots /\ a - i \in LaneIds(e) /\ a \in Nat
    <3>1. a \in Nat /\ i <= a /\ a < i + e /\ a < QLen
      BY <1>1, <1>2, <1>4
    <3>2. a \in Slots
      BY <1>1, <3>1 DEF Slots
    <3>3. a - i \in LaneIds(e)
      BY <1>1, <1>4, <3>1
    <3>4. QED
      BY <3>1, <3>2, <3>3
  <2>2. \A a \in i .. i + e - 1 : Src[a] = i + sw[a - i]
    BY <1>10, <2>1
  <2>3. \A a \in i .. i + e - 1 : a - i < n <=> a < i + n
    BY <1>1, <1>3, <1>4, <2>1
  <2>4. \A a \in i .. i + e - 1 : sw[a - i] \in LaneIds(e) /\ (sw[a - i] \in m <=> a - i < n)
    BY <1>3, <2>1
  <2>5. \A a \in i .. i + e - 1 : FirstOfHash(Src[a]) <=> a < i + n
    BY <1>19, <2>2, <2>3, <2>4
  <2>6. ASSUME NEW a \in i .. i + e - 1, NEW b \in i .. i + e - 1, a < b, b < i + n \/ i + n <= a
        PROVE  Src[a] < Src[b]
    <3>1. PICK x \in LaneIds(e), y \in LaneIds(e) : x = a - i /\ y = b - i
      BY <2>1
    <3>2. x < y /\ (y < n \/ n <= x) /\ x \in Nat /\ y \in Nat
      BY <1>1, <1>3, <1>4, <2>1, <2>6, <3>1
    <3>3. sw[x] < sw[y] /\ sw[x] \in Nat /\ sw[y] \in Nat
      BY <1>3, <1>4, <3>1, <3>2
    <3>4. QED
      BY <1>1, <2>2, <3>1, <3>3
  <2>7. QED
    BY <2>5, <2>6
<1>23. IsPacked(Src, e, r, n)
  BY <1>20, <1>21, <1>22 DEF IsPacked
<1>24. QED
  BY <1>18, <1>23

------------------------------------------------------------------------------
(* The inductive invariant.                                                 *)

\* The entries no window has read yet still hold the events numbered from
\* i + Lookahead - 1, so the entries below hold the others.  It follows from
\* LookaheadBound and Accounted, by counting; stated by itself it makes their
\* conjunction inductive without a count.
WindowClosed == \A a \in Slots :
                  a < i + Lookahead - 1 => posn[a] < i + Lookahead - 1

IInv == TypeOK /\ Accounted /\ HashOrder /\ LookaheadBound /\ WindowClosed

(***************************************************************************)
(* IInv holds at the start.                                                *)
(***************************************************************************)
LEMMA InitInvariant == Init => IInv
<1> SUFFICES ASSUME Init PROVE IInv
  OBVIOUS
<1>1. key \in [Slots -> Nat] /\ hash = key /\ posn = [k \in Slots |-> k] /\ i = 0
  BY QueuesAssumption DEF Init, Slots
<1>2. \A a \in Slots : a \in Nat
  BY DEF Slots
<1>3. TypeOK
  BY <1>1 DEF TypeOK
<1>4. Accounted /\ HashOrder
  BY <1>1 DEF Accounted, HashOrder
<1>5. LookaheadBound /\ WindowClosed
  BY <1>1, <1>2 DEF LookaheadBound, WindowClosed
<1>6. QED
  BY <1>3, <1>4, <1>5 DEF IInv

(***************************************************************************)
(* A call keeps IInv.                                                      *)
(***************************************************************************)
LEMMA CallInvariant ==
  ASSUME IInv, ScheduleBatch
  PROVE  IInv'
<1>1. PICK Src, e, r : IsCall(Src, e, r)
  BY CallShape DEF IInv
<1>2. /\ i \in Nat /\ QLen \in Nat /\ Lookahead \in Nat /\ i < QLen
      /\ hash \in [Slots -> Nat] /\ posn \in [Slots -> Slots]
      /\ key \in [Slots -> Nat] /\ key' = key
  BY DEF IInv, TypeOK, ScheduleBatch
<1>3. /\ e \in Nat /\ 1 <= e /\ e <= Lookahead /\ i + e <= QLen
      /\ r \in Nat /\ 1 <= r /\ r <= e /\ i' = i + r
  BY <1>1 DEF IsCall
<1>4. /\ Src \in [Slots -> Slots]
      /\ hash' = [a \in Slots |-> hash[Src[a]]]
      /\ posn' = [a \in Slots |-> posn[Src[a]]]
      /\ \A a, b \in Slots : Src[a] = Src[b] => a = b
      /\ \A a, b \in Slots : a < b /\ hash[Src[a]] = hash[Src[b]] => Src[a] < Src[b]
  BY <1>1 DEF IsCall
<1>5. /\ \A a \in Slots : a \in i .. i + e - 1 => Src[a] \in i .. i + e - 1
      /\ \A a \in Slots : a \notin i .. i + e - 1 => Src[a] = a
  BY <1>1 DEF IsCall
<1>6. \A a \in Slots : a \in Nat
  BY DEF Slots
<1>7. TypeOK'
  <2>1. hash' \in [Slots -> Nat] /\ posn' \in [Slots -> Slots]
    BY <1>2, <1>4
  <2>2. i' \in 0 .. QLen
    BY <1>2, <1>3
  <2>3. QED
    BY <1>2, <2>1, <2>2 DEF TypeOK
<1>8. Accounted'
  <2>1. \A a, b \in Slots : posn[a] = posn[b] => a = b
    BY DEF IInv, Accounted
  <2>2. \A a \in Slots : hash[a] = key[posn[a]]
    BY DEF IInv, Accounted
  <2>3. \A a, b \in Slots : posn'[a] = posn'[b] => a = b
    BY <1>4, <2>1
  <2>4. \A a \in Slots : hash'[a] = key'[posn'[a]]
    BY <1>2, <1>4, <2>2
  <2>5. QED
    BY <2>3, <2>4 DEF Accounted
<1>9. HashOrder'
  <2>1. \A a, b \in Slots : a < b /\ hash[a] = hash[b] => posn[a] < posn[b]
    BY DEF IInv, HashOrder
  <2>2. \A a, b \in Slots : a < b /\ hash'[a] = hash'[b] => posn'[a] < posn'[b]
    BY <1>4, <2>1
  <2>3. QED
    BY <2>2 DEF HashOrder
<1>10. /\ \A a \in Slots : posn[a] < a + Lookahead
       /\ \A a \in Slots : a >= i + Lookahead - 1 => posn[a] = a
       /\ \A a \in Slots : a < i + Lookahead - 1 => posn[a] < i + Lookahead - 1
  BY DEF IInv, LookaheadBound, WindowClosed
<1>11. \A a \in Slots : a \in i .. i + e - 1 => posn'[a] < i + Lookahead
  <2> SUFFICES ASSUME NEW a \in Slots, a \in i .. i + e - 1
               PROVE  posn[Src[a]] < i + Lookahead
    BY <1>4
  <2>1. Src[a] \in Slots /\ Src[a] \in Nat /\ Src[a] < i + e /\ posn[Src[a]] \in Nat
    <3>1. Src[a] \in Slots /\ Src[a] \in i .. i + e - 1
      BY <1>4, <1>5
    <3>2. posn[Src[a]] \in Slots
      BY <1>2, <3>1
    <3>3. \A x \in i .. i + e - 1 : x < i + e
      BY <1>2, <1>3
    <3>4. posn[Src[a]] \in Nat /\ Src[a] \in Nat
      BY <1>6, <3>1, <3>2
    <3>5. QED
      BY <3>1, <3>3, <3>4
  <2>2. CASE Src[a] < i + Lookahead - 1
    BY <1>2, <1>10, <2>1, <2>2
  <2>3. CASE ~(Src[a] < i + Lookahead - 1)
    <3>1. posn[Src[a]] = Src[a]
      BY <1>2, <1>10, <2>1, <2>3
    <3>2. QED
      BY <1>2, <1>3, <2>1, <3>1
  <2>4. QED
    BY <2>2, <2>3
<1>12. \A a \in Slots : a \notin i .. i + e - 1 => posn'[a] = posn[a]
  BY <1>4, <1>5
<1>13. LookaheadBound'
  <2> SUFFICES ASSUME NEW a \in Slots
               PROVE  /\ posn'[a] < a + Lookahead
                      /\ a >= i' + Lookahead - 1 => posn'[a] = a
    BY DEF LookaheadBound
  <2>1. a \in Nat /\ posn'[a] \in Nat
    BY <1>6, <1>7 DEF TypeOK
  <2>2. CASE a \in i .. i + e - 1
    BY <1>2, <1>3, <1>11, <2>1, <2>2
  <2>3. CASE a \notin i .. i + e - 1
    BY <1>2, <1>3, <1>10, <1>12, <2>1, <2>3
  <2>4. QED
    BY <2>2, <2>3
<1>14. WindowClosed'
  <2> SUFFICES ASSUME NEW a \in Slots, a < i' + Lookahead - 1
               PROVE  posn'[a] < i' + Lookahead - 1
    BY DEF WindowClosed
  <2>1. a \in Nat /\ posn'[a] \in Nat
    BY <1>6, <1>7 DEF TypeOK
  <2>2. CASE a \in i .. i + e - 1
    BY <1>2, <1>3, <1>11, <2>1, <2>2
  <2>3. CASE a \notin i .. i + e - 1
    BY <1>2, <1>3, <1>10, <1>12, <2>1, <2>3
  <2>4. QED
    BY <2>2, <2>3
<1>15. QED
  BY <1>7, <1>8, <1>9, <1>13, <1>14 DEF IInv

(***************************************************************************)
(* Every step keeps IInv.                                                  *)
(***************************************************************************)
LEMMA StepInvariant == IInv /\ [Next]_vars => IInv'
<1> SUFFICES ASSUME IInv, [Next]_vars PROVE IInv'
  OBVIOUS
<1>1. CASE ScheduleBatch
  BY <1>1, CallInvariant
<1>2. CASE Finished \/ UNCHANGED vars
  BY <1>2 DEF Finished, vars, IInv, TypeOK, Accounted, HashOrder, LookaheadBound,
              WindowClosed
<1>3. QED
  BY <1>1, <1>2 DEF Next

(***************************************************************************)
(* The conjunction of the invariants below, with the closure of the window *)
(* that makes it inductive, holds of every reachable state.                *)
(***************************************************************************)
LEMMA SchedulerInvariant == Spec => []IInv
<1>1. QED
  BY InitInvariant, StepInvariant, PTL DEF Spec

(***************************************************************************)
(* schedule_batch and its loop stay inside the arrays: the arrays keep     *)
(* their type and the driver's index never passes the end of the queue.    *)
(***************************************************************************)
THEOREM TypeCorrect == Spec => []TypeOK
<1>1. IInv => TypeOK
  BY DEF IInv
<1>2. QED
  BY <1>1, SchedulerInvariant, PTL

(***************************************************************************)
(* No call loses, duplicates or mislabels an event.                        *)
(***************************************************************************)
THEOREM EveryEventAccounted == Spec => []Accounted
<1>1. IInv => Accounted
  BY DEF IInv
<1>2. QED
  BY <1>1, SchedulerInvariant, PTL

(***************************************************************************)
(* Events with the same hash are processed in their order of arrival.      *)
(***************************************************************************)
THEOREM HashOrderKept == Spec => []HashOrder
<1>1. IInv => HashOrder
  BY DEF IInv
<1>2. QED
  BY <1>1, SchedulerInvariant, PTL

(***************************************************************************)
(* No event is processed more than Lookahead - 1 places early.             *)
(***************************************************************************)
THEOREM LookaheadBounded == Spec => []LookaheadBound
<1>1. IInv => LookaheadBound
  BY DEF IInv
<1>2. QED
  BY <1>1, SchedulerInvariant, PTL

------------------------------------------------------------------------------
(* Refinement: every call is one batch of the abstract dispatcher.          *)

(***************************************************************************)
(* posn is onto: a pending event is in some entry at or above i.           *)
(***************************************************************************)
LEMMA PendingHasSlot ==
  ASSUME TypeOK, Accounted, NEW f \in Slots \ Dispatched
  PROVE  \E c \in Slots : c >= i /\ posn[c] = f
<1>1. IsFiniteSet(Slots)
  <2>1. 0 \in Int /\ QLen - 1 \in Int
    OBVIOUS
  <2>2. QED
    BY <2>1, FS_Interval DEF Slots
<1>2. posn \in Injection(Slots, Slots)
  BY DEF TypeOK, Accounted, Injection, IsInjective
<1>3. posn \in Surjection(Slots, Slots)
  BY <1>1, <1>2, FS_Injection
<1>4. PICK c \in Slots : posn[c] = f
  BY <1>3 DEF Surjection
<1>5. c \notin 0 .. i - 1
  BY <1>4 DEF Dispatched
<1>6. QED
  BY <1>4, <1>5 DEF Slots, TypeOK

(***************************************************************************)
(* A call is a batch of the abstract dispatcher.                           *)
(***************************************************************************)
LEMMA CallRefines ==
  ASSUME IInv, ScheduleBatch
  PROVE  K!KNext
<1>1. PICK Src, e, r : IsCall(Src, e, r)
  BY CallShape DEF IInv
<1>2. /\ i \in Nat /\ QLen \in Nat /\ i < QLen
      /\ hash \in [Slots -> Nat] /\ posn \in [Slots -> Slots] /\ key' = key
  BY DEF IInv, TypeOK, ScheduleBatch
<1>3. /\ e \in Nat /\ 1 <= e /\ i + e <= QLen
      /\ r \in Nat /\ 1 <= r /\ r <= e /\ r <= BatchMax /\ i' = i + r
  BY <1>1 DEF IsCall
<1>4. /\ Src \in [Slots -> Slots]
      /\ hash' = [a \in Slots |-> hash[Src[a]]]
      /\ posn' = [a \in Slots |-> posn[Src[a]]]
      /\ \A a, b \in Slots : a < b /\ hash[Src[a]] = hash[Src[b]] => Src[a] < Src[b]
  BY <1>1 DEF IsCall
<1>5. /\ \A a \in Slots : a \in i .. i + e - 1 => Src[a] \in i .. i + e - 1
      /\ \A a \in Slots : a \notin i .. i + e - 1 => Src[a] = a
      /\ \A a \in i .. i + r - 1, b \in i .. i + e - 1 :
           b < Src[a] => hash[b] # hash[Src[a]]
  BY <1>1 DEF IsCall
<1>6. /\ TypeOK' /\ Accounted'
      /\ Accounted /\ TypeOK /\ HashOrder
  BY CallInvariant DEF IInv
<1> DEFINE heads == i .. i + r - 1
           batch == {posn'[a] : a \in heads}
<1>7. /\ heads \in SUBSET Slots
      /\ \A a \in heads : a \in i .. i + e - 1
      /\ i \in heads
  <2>1. \A a \in heads : a \in Int /\ 0 <= a /\ i <= a /\ a < i + e /\ a < QLen
    BY <1>2, <1>3
  <2>2. i \in heads
    BY <1>2, <1>3
  <2>3. QED
    BY <1>2, <1>3, <2>1, <2>2 DEF Slots
<1>8. \A a, b \in Slots : posn'[a] = posn'[b] => a = b
  BY <1>6 DEF Accounted
<1>9. \A a \in 0 .. i - 1 : a \in Slots /\ a \notin heads /\ posn'[a] = posn[a]
  <2>1. \A a \in 0 .. i - 1 : a \in Slots /\ a \notin heads /\ a \notin i .. i + e - 1
    BY <1>2, <1>3 DEF Slots
  <2>2. QED
    BY <1>4, <1>5, <2>1
<1>10. batch # {} /\ batch \in SUBSET (Slots \ Dispatched)
  <2>1. batch # {}
    BY <1>7
  <2>2. \A a \in heads : posn'[a] \in Slots
    BY <1>6, <1>7 DEF TypeOK
  <2>3. \A a \in heads : posn'[a] \notin Dispatched
    <3> SUFFICES ASSUME NEW a \in heads, NEW b \in 0 .. i - 1, posn'[a] = posn[b]
                 PROVE  FALSE
      BY DEF Dispatched
    <3>1. posn'[a] = posn'[b]
      BY <1>9
    <3>2. QED
      BY <1>7, <1>8, <1>9, <3>1
  <2>4. QED
    BY <2>1, <2>2, <2>3
<1>11. Cardinality(batch) <= BatchMax
  <2> DEFINE g == [a \in heads |-> posn'[a]]
  <2>1. IsFiniteSet(heads) /\ Cardinality(heads) = r
    <3> DEFINE last == i + r - 1
    <3>1. last \in Int /\ i \in Int
      BY <1>2, <1>3
    <3>2. ~(i > last) /\ last - i + 1 = r
      BY <1>2, <1>3
    <3> HIDE DEF last
    <3>3. IsFiniteSet(i .. last) /\ Cardinality(i .. last) = r
      BY <3>1, <3>2, FS_Interval
    <3>4. QED
      BY <3>3 DEF last
  <2>2. g \in Surjection(heads, batch)
    BY DEF Surjection
  <2>3. IsFiniteSet(batch) /\ Cardinality(batch) <= Cardinality(heads)
    BY <2>1, <2>2, FS_Surjection
  <2>4. Cardinality(batch) \in Nat
    BY <2>3, FS_CardinalityType
  <2>5. QED
    BY <1>3, <2>1, <2>3, <2>4
<1>12. \A a \in heads : key[posn'[a]] = hash[Src[a]]
  <2>1. \A a \in Slots : hash'[a] = key'[posn'[a]]
    BY <1>6 DEF Accounted
  <2>2. QED
    BY <1>2, <1>4, <1>7, <2>1
<1>13. \A c, d \in batch : key[c] = key[d] => c = d
  <2>1. \A a, b \in heads : hash[Src[a]] = hash[Src[b]] => ~(a < b)
    <3> SUFFICES ASSUME NEW a \in heads, NEW b \in heads,
                        hash[Src[a]] = hash[Src[b]], a < b
                 PROVE  FALSE
      OBVIOUS
    <3>1. Src[a] < Src[b]
      BY <1>4, <1>7
    <3>2. Src[a] \in i .. i + e - 1
      BY <1>5, <1>7
    <3>3. QED
      BY <1>5, <3>1, <3>2
  <2>2. \A a, b \in heads : a # b => a < b \/ b < a
    BY <1>2, <1>3
  <2>3. \A a, b \in heads : key[posn'[a]] = key[posn'[b]] => a = b
    BY <1>12, <2>1, <2>2
  <2> HIDE DEF heads
  <2>4. QED
    BY <2>3
<1>14. \A d \in batch : K!Oldest(d)
  <2> SUFFICES ASSUME NEW a \in heads,
                      NEW f \in Slots \ Dispatched, key[f] = key[posn'[a]]
               PROVE  posn'[a] <= f
    BY DEF K!Oldest, K!Pending
  <2>1. PICK c \in Slots : c >= i /\ posn[c] = f
    BY <1>6, PendingHasSlot
  <2>2. hash[c] = hash[Src[a]]
    <3>1. hash[c] = key[f]
      BY <1>6, <2>1 DEF Accounted
    <3>2. QED
      BY <1>12, <3>1
  <2>3. Src[a] \in Slots /\ Src[a] \in i .. i + e - 1 /\ posn'[a] = posn[Src[a]]
    BY <1>4, <1>5, <1>7
  <2>4. ~(c < Src[a])
    <3> SUFFICES ASSUME c < Src[a] PROVE FALSE
      OBVIOUS
    <3>1. c \in i .. i + e - 1
      <4>1. Src[a] \in Int /\ Src[a] <= i + e - 1
        BY <1>2, <1>3, <2>3
      <4>2. c \in Int
        BY DEF Slots
      <4>3. QED
        BY <1>2, <1>3, <2>1, <4>1, <4>2
    <3>2. QED
      BY <1>5, <2>2, <3>1
  <2>5. CASE c = Src[a]
    <3>1. posn[c] \in Slots
      BY <1>2
    <3>2. QED
      BY <2>1, <2>3, <2>5, <3>1 DEF Slots
  <2>6. CASE Src[a] < c
    <3>1. posn[Src[a]] < posn[c]
      BY <1>6, <2>2, <2>3, <2>6 DEF HashOrder
    <3>2. posn[c] \in Slots /\ posn[Src[a]] \in Slots
      BY <1>2, <2>3
    <3>3. QED
      BY <2>1, <2>3, <3>1, <3>2 DEF Slots
  <2>7. QED
    BY <2>3, <2>4, <2>5, <2>6 DEF Slots
<1>15. Dispatched' = Dispatched \cup batch
  <2>1. 0 .. i' - 1 = (0 .. i - 1) \cup heads
    BY <1>2, <1>3
  <2>2. Dispatched' = {posn'[a] : a \in 0 .. i' - 1}
    BY DEF Dispatched
  <2>3. Dispatched = {posn'[a] : a \in 0 .. i - 1}
    BY <1>9 DEF Dispatched
  <2> HIDE DEF heads
  <2>4. QED
    BY <2>1, <2>2, <2>3
<1> HIDE DEF batch
<1>16. K!DispatchBatch(batch)
  <2>1. K!Cardinality(batch) = Cardinality(batch)
    BY DEF K!Cardinality, Cardinality
  <2>2. QED
    BY <1>2, <1>10, <1>11, <1>13, <1>14, <1>15, <2>1 DEF K!DispatchBatch
<1>17. QED
  BY <1>10, <1>16 DEF K!KNext, K!Pending

(***************************************************************************)
(* schedule_batch implements the abstract dispatcher: every batch is       *)
(* collision free, not empty, at most BatchMax long, holds only the oldest *)
(* pending event of each of its hashes, and stays dispatched.              *)
(***************************************************************************)
THEOREM Refinement == Spec => ImplementsKeyedDispatch
<1>1. Init => K!KInit
  <2> SUFFICES ASSUME Init PROVE K!KInit
    OBVIOUS
  <2>1. key \in [Slots -> Nat]
    BY QueuesAssumption DEF Init, Slots
  <2>2. Dispatched = {}
    BY DEF Init, Dispatched
  <2>3. QED
    BY <2>1, <2>2 DEF K!KInit
<1>2. IInv /\ [Next]_vars => [K!KNext]_(K!kdVars)
  <2> SUFFICES ASSUME IInv, [Next]_vars PROVE [K!KNext]_(K!kdVars)
    OBVIOUS
  <2>1. CASE ScheduleBatch
    BY <2>1, CallRefines
  <2>2. CASE Finished \/ UNCHANGED vars
    BY <2>2 DEF Finished, vars, K!kdVars, Dispatched
  <2>3. QED
    BY <2>1, <2>2 DEF Next
<1>3. QED
  BY <1>1, <1>2, SchedulerInvariant, PTL DEF Spec, K!KSpec, ImplementsKeyedDispatch

------------------------------------------------------------------------------
(* The action properties.                                                   *)

(***************************************************************************)
(* A window has as many different hashes as it has entries that are the    *)
(* first of their hash.                                                    *)
(***************************************************************************)
LEMMA DistinctFirsts ==
  ASSUME TypeOK, i < QLen
  PROVE  Cardinality(Distinct(hash, WindowSlots))
           = Cardinality({a \in WindowSlots : FirstOfHash(a)})
<1> DEFINE F == {a \in WindowSlots : FirstOfHash(a)}
           D == Distinct(hash, WindowSlots)
           g == [a \in F |-> hash[a]]
<1>1. /\ i \in Nat /\ QLen \in Nat
      /\ WindowSlots \in SUBSET Nat
      /\ IsFiniteSet(WindowSlots)
  <2>1. i \in Nat /\ QLen \in Nat /\ Extent(i) \in Nat
    BY DEF TypeOK, Extent
  <2>2. i \in Int /\ i + Extent(i) - 1 \in Int
    BY <2>1
  <2>3. IsFiniteSet(i .. i + Extent(i) - 1)
    BY <2>2, FS_Interval
  <2>4. i .. i + Extent(i) - 1 \in SUBSET Nat
    BY <2>1
  <2>5. QED
    BY <2>1, <2>3, <2>4 DEF WindowSlots
<1>2. IsFiniteSet(F)
  BY <1>1, FS_Subset
<1>3. \A a \in F : hash[a] \in D
  BY DEF Distinct
<1>4. \A a, b \in F : hash[a] = hash[b] => a = b
  <2>1. \A a, b \in F : b < a => hash[b] # hash[a]
    BY DEF FirstOfHash
  <2>2. \A a, b \in F : a \in Nat /\ b \in Nat
    BY <1>1
  <2>3. QED
    BY <2>1, <2>2
<1>5. \A v \in D : \E a \in F : hash[a] = v
  <2> SUFFICES ASSUME NEW v \in D PROVE \E a \in F : hash[a] = v
    OBVIOUS
  <2> DEFINE T == {a \in WindowSlots : hash[a] = v}
  <2>1. T # {} /\ T \in SUBSET Nat
    BY <1>1 DEF Distinct
  <2>2. PICK a \in T : \A b \in T : a <= b
    BY <2>1, LeastNatural
  <2>3. \A b \in WindowSlots : b < a => hash[b] # hash[a]
    BY <1>1, <2>2
  <2>4. QED
    BY <2>2, <2>3 DEF FirstOfHash
<1>6. g \in Bijection(F, D)
  <2> HIDE DEF F, D
  <2>1. g \in Injection(F, D)
    BY <1>3, <1>4 DEF Injection, IsInjective
  <2>2. g \in Surjection(F, D)
    BY <1>3, <1>5 DEF Surjection
  <2>3. QED
    BY <2>1, <2>2 DEF Bijection
<1> HIDE DEF F, D, g
<1>7. Cardinality(D) = Cardinality(F)
  BY <1>2, <1>6, FS_Bijection DEF ExistsBijection
<1>8. QED
  BY <1>7 DEF F, D

(***************************************************************************)
(* What a step that is not a stutter does while there is work: one call,   *)
(* of the shape above.                                                     *)
(***************************************************************************)
LEMMA CallStep ==
  ASSUME IInv, [Next]_vars, vars' # vars
  PROVE  ScheduleBatch
BY DEF Next, Finished, vars

(***************************************************************************)
(* A call returns as many events as the window has different hashes, up to *)
(* the batch width: greed.                                                 *)
(***************************************************************************)
THEOREM GreedyBatches == Spec => Greedy
<1>1. IInv /\ [Next]_vars => [i < QLen => GreedyStep]_vars
  <2> SUFFICES ASSUME IInv, [Next]_vars, vars' # vars, i < QLen PROVE GreedyStep
    BY DEF vars
  <2>1. TypeOK /\ ScheduleBatch
    BY CallStep DEF IInv
  <2>2. PICK Src, e, r : IsCall(Src, e, r) /\ \E n : IsPacked(Src, e, r, n)
    BY <2>1, CallShape
  <2>3. PICK n : IsPacked(Src, e, r, n)
    BY <2>2
  <2>4. n = Cardinality({a \in WindowSlots : FirstOfHash(a)})
    BY <2>2, <2>3 DEF IsCall, IsPacked, WindowSlots
  <2>5. n = Cardinality(Distinct(hash, WindowSlots))
    BY <2>1, <2>4, DistinctFirsts
  <2>6. i' = i + r /\ i \in Nat /\ r \in Nat
    BY <2>1, <2>2 DEF IsCall, TypeOK
  <2>7. r = IF n < BatchMax THEN n ELSE BatchMax
    BY <2>3 DEF IsPacked
  <2>8. QED
    BY <2>5, <2>6, <2>7 DEF GreedyStep
<1>2. QED
  BY <1>1, SchedulerInvariant, PTL DEF Spec, Greedy

(***************************************************************************)
(* Every event is still in the queue after a call, in exactly the entry    *)
(* MovedTo names, and an event of the window stays in the window.          *)
(***************************************************************************)
LEMMA MovedFrom ==
  ASSUME TypeOK, Accounted, NEW Src, NEW e, NEW r, IsCall(Src, e, r), NEW a \in Slots
  PROVE  /\ MovedTo(a) \in Slots
         /\ posn'[MovedTo(a)] = posn[a]
         /\ Src[MovedTo(a)] = a
         /\ a \in WindowSlots => MovedTo(a) \in WindowSlots
<1>1. /\ Src \in [Slots -> Slots]
      /\ posn' = [b \in Slots |-> posn[Src[b]]]
      /\ \A b \in Slots : b \notin WindowSlots => Src[b] = b
      /\ \A b, c \in Slots : Src[b] = Src[c] => b = c
  BY DEF IsCall, WindowSlots
<1>2. \A b, c \in Slots : posn[b] = posn[c] => b = c
  BY DEF Accounted
<1>3. Src \in Surjection(Slots, Slots)
  <2>1. IsFiniteSet(Slots)
    <3>1. 0 \in Int /\ QLen - 1 \in Int
      OBVIOUS
    <3>2. QED
      BY <3>1, FS_Interval DEF Slots
  <2>2. Src \in Injection(Slots, Slots)
    BY <1>1 DEF Injection, IsInjective
  <2>3. QED
    BY <2>1, <2>2, FS_Injection
<1>4. PICK c \in Slots : Src[c] = a
  BY <1>3 DEF Surjection
<1>5. posn'[c] = posn[a]
  BY <1>1, <1>4
<1>6. MovedTo(a) \in Slots /\ posn'[MovedTo(a)] = posn[a]
  BY <1>4, <1>5 DEF MovedTo
<1>7. Src[MovedTo(a)] = a
  BY <1>1, <1>2, <1>6
<1>8. QED
  BY <1>1, <1>6, <1>7

(***************************************************************************)
(* A call is a stable partition of its window, the first event of each     *)
(* hash before the others, and leaves the rest of the queue alone.         *)
(***************************************************************************)
THEOREM StablePartition == Spec => Packing
<1>1. IInv /\ [Next]_vars => [i < QLen => PackingStep]_vars
  <2> SUFFICES ASSUME IInv, [Next]_vars, vars' # vars, i < QLen PROVE PackingStep
    BY DEF vars
  <2>1. TypeOK /\ Accounted /\ ScheduleBatch
    BY CallStep DEF IInv
  <2>2. PICK Src, e, r : IsCall(Src, e, r) /\ \E n : IsPacked(Src, e, r, n)
    BY <2>1, CallShape
  <2>3. PICK n : IsPacked(Src, e, r, n)
    BY <2>2
  <2>4. /\ i \in Nat /\ n \in Nat
        /\ WindowSlots \in SUBSET Slots /\ Slots \in SUBSET Nat
    <3>1. i \in Nat /\ e \in Nat /\ i + e <= QLen /\ QLen \in Nat
      BY <2>1, <2>2 DEF TypeOK, IsCall
    <3>2. i .. i + e - 1 \in SUBSET (0 .. QLen - 1)
      BY <3>1
    <3>3. QED
      BY <2>2, <2>3, <3>1, <3>2 DEF IsCall, IsPacked, WindowSlots, Slots
  <2>5. /\ \A a \in WindowSlots : FirstOfHash(Src[a]) <=> a < i + n
        /\ \A a, b \in WindowSlots :
             a < b /\ (b < i + n \/ i + n <= a) => Src[a] < Src[b]
    BY <2>2, <2>3 DEF IsCall, IsPacked, WindowSlots
  <2>6. ASSUME NEW a \in WindowSlots, NEW b \in WindowSlots
        PROVE  MovedTo(a) < MovedTo(b) <=>
                 \/ FirstOfHash(a) /\ ~FirstOfHash(b)
                 \/ (FirstOfHash(a) <=> FirstOfHash(b)) /\ a < b
    <3>1. PICK x \in WindowSlots, y \in WindowSlots :
            /\ x = MovedTo(a) /\ y = MovedTo(b)
            /\ Src[x] = a /\ Src[y] = b
      <4>1. a \in Slots /\ b \in Slots
        BY <2>4
      <4>2. MovedTo(a) \in WindowSlots /\ Src[MovedTo(a)] = a
        BY <2>1, <2>2, <4>1, MovedFrom
      <4>3. MovedTo(b) \in WindowSlots /\ Src[MovedTo(b)] = b
        BY <2>1, <2>2, <4>1, MovedFrom
      <4>4. QED
        BY <4>2, <4>3
    <3>2. (FirstOfHash(a) <=> x < i + n) /\ (FirstOfHash(b) <=> y < i + n)
      BY <2>5, <3>1
    <3>3. x \in Nat /\ y \in Nat /\ a \in Nat /\ b \in Nat /\ i + n \in Nat
      BY <2>4
    <3>4. /\ x < y /\ (y < i + n \/ i + n <= x) => a < b
          /\ y < x /\ (x < i + n \/ i + n <= y) => b < a
      BY <2>5, <3>1
    <3>5. x = y => a = b
      BY <3>1
    <3>6. x < y <=> \/ x < i + n /\ ~(y < i + n)
                    \/ (x < i + n <=> y < i + n) /\ a < b
      BY <3>3, <3>4, <3>5
    <3>7. QED
      BY <3>1, <3>2, <3>6
  <2>7. \A a \in Slots \ WindowSlots : posn'[a] = posn[a]
    BY <2>2 DEF IsCall, WindowSlots
  <2>8. QED
    BY <2>6, <2>7 DEF PackingStep
<1>2. QED
  BY <1>1, SchedulerInvariant, PTL DEF Spec, Packing

(***************************************************************************)
(* While there is work, OldestSlot is an entry at or above i and no other  *)
(* such entry holds an older event.                                        *)
(***************************************************************************)
LEMMA OldestExists ==
  ASSUME TypeOK, i < QLen
  PROVE  /\ OldestSlot \in i .. QLen - 1
         /\ \A b \in i .. QLen - 1 : posn[OldestSlot] <= posn[b]
<1> DEFINE R == i .. QLen - 1
           T == {posn[c] : c \in R}
<1>1. i \in R /\ R \in SUBSET Slots
  BY DEF TypeOK, Slots
<1>2. T \in SUBSET Nat /\ T # {}
  <2>1. \A c \in Slots : posn[c] \in Nat
    BY DEF TypeOK, Slots
  <2>2. QED
    BY <1>1, <2>1
<1>3. PICK p \in T : \A q \in T : p <= q
  BY <1>2, LeastNatural
<1>4. PICK c \in R : \A b \in R : posn[c] <= posn[b]
  BY <1>3
<1>5. QED
  BY <1>4 DEF OldestSlot

(***************************************************************************)
(* The oldest pending event is in the window; among its first BatchMax     *)
(* entries it is dispatched at once, and otherwise by the next call.       *)
(***************************************************************************)
THEOREM OldestNotStarved == Spec => OldestPromptly
<1>1. IInv /\ [Next]_vars => [i < QLen => OldestStep]_vars
  <2> SUFFICES ASSUME IInv, [Next]_vars, vars' # vars, i < QLen PROVE OldestStep
    BY DEF vars
  <2>1. TypeOK /\ Accounted /\ HashOrder /\ LookaheadBound /\ ScheduleBatch
    BY CallStep DEF IInv
  <2>2. PICK Src, e, r : IsCall(Src, e, r) /\ \E n : IsPacked(Src, e, r, n)
    BY <2>1, CallShape
  <2>3. PICK n : IsPacked(Src, e, r, n)
    BY <2>2
  <2>4. /\ i \in Nat /\ QLen \in Nat /\ Lookahead \in Nat /\ BatchMax \in Nat
        /\ e \in Nat /\ e <= Lookahead /\ e = Extent(i) /\ i + e <= QLen
        /\ n \in Nat /\ 1 <= n /\ n <= e
        /\ r = (IF n < BatchMax THEN n ELSE BatchMax) /\ i' = i + r
    BY <2>1, <2>2, <2>3 DEF TypeOK, IsCall, IsPacked
  <2>5. WindowSlots = i .. i + e - 1 /\ WindowSlots \in SUBSET (i .. QLen - 1)
        /\ (i .. QLen - 1) \in SUBSET Slots /\ Slots \in SUBSET Nat
    <3>1. i .. i + e - 1 \in SUBSET (i .. QLen - 1)
      BY <2>4
    <3>2. QED
      BY <2>4, <3>1 DEF WindowSlots, Slots
  <2>6. PICK s \in i .. QLen - 1 :
          s = OldestSlot /\ \A b \in i .. QLen - 1 : posn[s] <= posn[b]
    BY <2>1, OldestExists
  <2>7. \A b \in i .. QLen - 1 : b \in Slots /\ b \in Nat /\ posn[b] \in Nat
    BY <2>1, <2>5 DEF TypeOK
  <2>8. s \in WindowSlots
    <3>1. CASE e = QLen - i
      BY <2>4, <2>5, <2>6, <3>1
    <3>2. CASE e = Lookahead
      <4>1. posn[s] <= posn[i] /\ posn[i] < i + Lookahead
            /\ (s >= i + Lookahead - 1 => posn[s] = s)
        <5>1. i \in i .. QLen - 1
          BY <2>4
        <5>2. QED
          BY <2>1, <2>6, <2>7, <5>1 DEF LookaheadBound
      <4>2. s < i + Lookahead
        <5>1. i \in i .. QLen - 1 /\ s \in Nat /\ posn[s] \in Nat
          BY <2>4, <2>6, <2>7
        <5>2. posn[i] \in Nat
          BY <2>7, <5>1
        <5>3. QED
          BY <2>4, <4>1, <5>1, <5>2
      <4>3. QED
        BY <2>4, <2>5, <2>6, <3>2, <4>2
    <3>3. QED
      BY <2>4, <3>1, <3>2 DEF Extent
  <2>9. FirstOfHash(s)
    <3> SUFFICES ASSUME NEW b \in WindowSlots, b < s, hash[b] = hash[s] PROVE FALSE
      BY DEF FirstOfHash
    <3>1. b \in i .. QLen - 1 /\ s \in i .. QLen - 1
      BY <2>5, <2>6
    <3>2. posn[b] < posn[s]
      BY <2>1, <2>7, <3>1 DEF HashOrder
    <3>3. QED
      BY <2>6, <2>7, <3>1, <3>2
  <2>10. PICK x \in WindowSlots : Src[x] = s /\ posn'[x] = posn[s]
    BY <2>1, <2>2, <2>7, <2>8, MovedFrom
  <2>11. x < i + n
    BY <2>2, <2>3, <2>5, <2>9, <2>10 DEF IsPacked
  <2>12. \A k \in i .. i + n - 1 : k <= Src[k]
    <3> DEFINE B == {k \in i .. i + n - 1 : Src[k] < k}
    <3>1. \A k \in i .. i + n - 1 : k \in WindowSlots /\ k \in Nat
      BY <2>4, <2>5
    <3>2. \A k \in WindowSlots : Src[k] \in WindowSlots /\ Src[k] \in Nat /\ i <= Src[k]
      <4>1. \A k \in WindowSlots : Src[k] \in WindowSlots
        BY <2>2, <2>5 DEF IsCall
      <4>2. \A k \in WindowSlots : k \in Nat /\ i <= k
        BY <2>4, <2>5
      <4>3. QED
        BY <4>1, <4>2
    <3>3. ASSUME B # {} PROVE FALSE
      <4>1. PICK k \in B : \A c \in B : k <= c
        BY <3>1, <3>3, LeastNatural
      <4>2. k \in Nat /\ i < k /\ k < i + n /\ Src[k] < k /\ Src[k] \in Nat
        BY <2>4, <3>1, <3>2, <4>1
      <4>3. PICK c \in i .. i + n - 1 : c = k - 1
        BY <2>4, <4>2
      <4>4. c \notin B
        BY <4>1, <4>2, <4>3
      <4>5. c < k /\ c \in Nat /\ k \in WindowSlots /\ c \in WindowSlots
        BY <3>1, <4>1, <4>2, <4>3
      <4>6. Src[c] < Src[k]
        BY <2>3, <2>5, <4>2, <4>5 DEF IsPacked
      <4>7. c <= Src[c] /\ Src[c] \in Nat
        BY <3>2, <4>4, <4>5
      <4>8. QED
        BY <4>2, <4>3, <4>5, <4>6, <4>7
    <3>4. \A k \in i .. i + n - 1 : ~(Src[k] < k)
      BY <3>3
    <3>5. QED
      BY <3>1, <3>2, <3>4
  <2>13. x \in Nat /\ s \in Nat /\ i <= x /\ x <= s /\ x \in Slots
    <3>1. x \in Nat /\ s \in Nat /\ i <= x /\ x \in Slots
      BY <2>4, <2>5, <2>6, <2>7, <2>10
    <3>2. x \in i .. i + n - 1
      BY <2>4, <2>11, <3>1
    <3>3. QED
      BY <2>10, <2>12, <3>1, <3>2
  <2>14. s < i + BatchMax => x < i'
    BY <2>4, <2>11, <2>13
  <2>15. Lookahead <= 2 * BatchMax => x < i' + BatchMax
    BY <2>4, <2>11, <2>13
  <2>16. QED
    BY <2>6, <2>8, <2>10, <2>13, <2>14, <2>15 DEF OldestStep
<1>2. QED
  BY <1>1, SchedulerInvariant, PTL DEF Spec, OldestPromptly
==============================================================================
