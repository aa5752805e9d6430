---------------------------- MODULE LookupsTheorems ---------------------------
(***************************************************************************)
(* Proofs about Lookups, for every number of lanes and bits, every table   *)
(* and every vector of indices.                                            *)
(***************************************************************************)
EXTENDS Lookups, LanesTheorems

------------------------------------------------------------------------------
(* Powers of two                                                            *)

\* The function g is Pow2 up to n.
UpTo(n, g) ==
  /\ g \in [0 .. n -> Nat]
  /\ \A k \in 0 .. n : g[k] = IF k = 0 THEN 1 ELSE 2 * g[k - 1]

(***************************************************************************)
(* Two functions that are Pow2 up to some number agree there.              *)
(***************************************************************************)
LEMMA UpToUnique ==
  ASSUME NEW n \in Nat, NEW m \in Nat, n <= m, NEW g, NEW h, UpTo(n, g), UpTo(m, h)
  PROVE  \A k \in 0 .. n : g[k] = h[k]
<1> DEFINE T == {k \in 0 .. n : g[k] # h[k]}
<1>1. SUFFICES ASSUME T # {} PROVE FALSE
  OBVIOUS
<1>2. PICK k \in T : \A c \in T : k <= c
  <2>1. T \in SUBSET Nat
    OBVIOUS
  <2>2. QED
    BY <1>1, <2>1, LeastNatural
<1>3. k \in Nat /\ k <= n /\ k \in 0 .. n /\ k \in 0 .. m
  OBVIOUS
<1>4. /\ g[k] = IF k = 0 THEN 1 ELSE 2 * g[k - 1]
      /\ h[k] = IF k = 0 THEN 1 ELSE 2 * h[k - 1]
  BY <1>3 DEF UpTo
<1>5. k # 0
  BY <1>2, <1>4
<1>6. k - 1 \in 0 .. n /\ k - 1 < k /\ k - 1 \in Nat
  BY <1>3, <1>5
<1>7. g[k - 1] = h[k - 1]
  BY <1>2, <1>3, <1>6
<1>8. QED
  BY <1>2, <1>4, <1>5, <1>7

(***************************************************************************)
(* There is a function that is Pow2 up to n.                               *)
(***************************************************************************)
LEMMA UpToExists == \A n \in Nat : \E g : UpTo(n, g)
<1> DEFINE T == {n \in Nat : ~\E g : UpTo(n, g)}
<1>1. SUFFICES ASSUME T # {} PROVE FALSE
  OBVIOUS
<1>2. PICK n \in T : \A c \in T : n <= c
  BY <1>1, LeastNatural
<1>3. n # 0
  <2>1. UpTo(0, [k \in 0 .. 0 |-> 1])
    BY DEF UpTo
  <2>2. QED
    BY <1>2, <2>1
<1>4. PICK m \in Nat : n = m + 1
  BY <1>2, <1>3
<1>5. PICK g : UpTo(m, g)
  BY <1>2, <1>4
<1> DEFINE f == [k \in 0 .. n |-> IF k = n THEN 2 * g[m] ELSE g[k]]
<1>6. g \in [0 .. m -> Nat] /\ \A k \in 0 .. m : g[k] = IF k = 0 THEN 1 ELSE 2 * g[k - 1]
  BY <1>5 DEF UpTo
<1>7. f \in [0 .. n -> Nat]
  BY <1>4, <1>6
<1>8. ASSUME NEW k \in 0 .. n
      PROVE  f[k] = IF k = 0 THEN 1 ELSE 2 * f[k - 1]
  <2>1. CASE k = n
    <3>1. f[k] = 2 * g[m] /\ m \in 0 .. n /\ m # n /\ k - 1 = m
      BY <1>4, <2>1
    <3>2. f[m] = g[m]
      BY <3>1
    <3>3. QED
      BY <1>3, <2>1, <3>1, <3>2
  <2>2. CASE k # n
    <3>1. k \in 0 .. m /\ f[k] = g[k]
      BY <1>4, <2>2
    <3>2. k # 0 => f[k - 1] = g[k - 1]
      BY <1>4, <3>1
    <3>3. QED
      BY <1>6, <3>1, <3>2
  <2>3. QED
    BY <2>1, <2>2
<1>9. UpTo(n, f)
  BY <1>7, <1>8 DEF UpTo
<1>10. QED
  BY <1>2, <1>9

(***************************************************************************)
(* The recursive definition of Pow2 defines a function with its equation.  *)
(***************************************************************************)
LEMMA Pow2Def ==
  /\ Pow2 = [k \in Nat |-> IF k = 0 THEN 1 ELSE 2 * Pow2[k - 1]]
  /\ \A k \in Nat : Pow2[k] \in Nat /\ Pow2[k] >= 1
<1> DEFINE G(n) == CHOOSE g : UpTo(n, g)
           F == [n \in Nat |-> G(n)[n]]
<1>1. \A n \in Nat : UpTo(n, G(n))
  BY UpToExists
<1> HIDE DEF G
<1>2. ASSUME NEW n \in Nat
      PROVE  F[n] = IF n = 0 THEN 1 ELSE 2 * F[n - 1]
  <2>1. n \in 0 .. n /\ F[n] = G(n)[n]
    OBVIOUS
  <2>2. F[n] = IF n = 0 THEN 1 ELSE 2 * G(n)[n - 1]
    BY <1>1, <2>1 DEF UpTo
  <2>3. n # 0 => G(n)[n - 1] = F[n - 1]
    <3> SUFFICES ASSUME n # 0 PROVE G(n)[n - 1] = F[n - 1]
      OBVIOUS
    <3>1. PICK m \in Nat : n = m + 1
      OBVIOUS
    <3>2. m \in 0 .. m /\ m <= n /\ m = n - 1
      BY <3>1
    <3>3. G(m)[m] = G(n)[m]
      BY <1>1, <3>2, UpToUnique
    <3>4. QED
      BY <3>2, <3>3
  <2>4. QED
    BY <2>2, <2>3
<1>3. F = [n \in Nat |-> IF n = 0 THEN 1 ELSE 2 * F[n - 1]]
  BY <1>2
<1> HIDE DEF F
<1>4. Pow2 = [n \in Nat |-> IF n = 0 THEN 1 ELSE 2 * Pow2[n - 1]]
  BY <1>3 DEF Pow2
<1>5. \A k \in Nat : Pow2[k] = IF k = 0 THEN 1 ELSE 2 * Pow2[k - 1]
  BY <1>4
<1> DEFINE T == {k \in Nat : ~(Pow2[k] \in Nat /\ Pow2[k] >= 1)}
<1>6. ASSUME T # {} PROVE FALSE
  <2>1. PICK k \in T : \A c \in T : k <= c
    BY <1>6, LeastNatural
  <2>2. k # 0
    BY <1>5, <2>1
  <2>3. PICK m \in Nat : k = m + 1
    BY <2>1, <2>2
  <2>4. Pow2[m] \in Nat /\ Pow2[m] >= 1
    BY <2>1, <2>3
  <2>5. Pow2[k] = 2 * Pow2[m]
    BY <1>5, <2>3
  <2>6. QED
    BY <2>1, <2>4, <2>5
<1>7. QED
  BY <1>4, <1>6

(***************************************************************************)
(* The first powers, and the law of the exponents.                         *)
(***************************************************************************)
LEMMA Pow2Law ==
  /\ Pow2[0] = 1
  /\ \A k \in Nat : Pow2[k + 1] = 2 * Pow2[k]
  /\ \A a, b \in Nat : Pow2[a + b] = Pow2[a] * Pow2[b]
<1>1. \A k \in Nat : Pow2[k] = IF k = 0 THEN 1 ELSE 2 * Pow2[k - 1]
  BY Pow2Def
<1>2. Pow2[0] = 1
  BY <1>1
<1>3. ASSUME NEW k \in Nat PROVE Pow2[k + 1] = 2 * Pow2[k]
  <2>1. PICK n \in Nat : n = k + 1
    OBVIOUS
  <2>2. n # 0 /\ n - 1 = k
    BY <2>1
  <2>3. Pow2[n] = 2 * Pow2[k]
    BY <1>1, <2>2
  <2>4. QED
    BY <2>1, <2>3
<1>4. ASSUME NEW a \in Nat PROVE \A b \in Nat : Pow2[a + b] = Pow2[a] * Pow2[b]
  <2> DEFINE T == {b \in Nat : Pow2[a + b] # Pow2[a] * Pow2[b]}
  <2>1. SUFFICES ASSUME T # {} PROVE FALSE
    OBVIOUS
  <2>2. PICK b \in T : \A c \in T : b <= c
    BY <2>1, LeastNatural
  <2>3. PICK x \in Nat : x = Pow2[a]
    BY Pow2Def
  <2>4. b # 0
    <3>1. Pow2[a + 0] = x * 1
      BY <2>3
    <3>2. QED
      BY <1>2, <2>2, <2>3, <3>1
  <2>5. PICK m \in Nat : b = m + 1
    BY <2>2, <2>4
  <2>6. PICK y \in Nat : y = Pow2[m]
    BY Pow2Def
  <2>7. PICK s \in Nat : s = a + m
    OBVIOUS
  <2>8. Pow2[s] = x * y
    BY <2>2, <2>3, <2>5, <2>6, <2>7
  <2>9. Pow2[s + 1] = 2 * (x * y) /\ Pow2[m + 1] = 2 * y
    BY <1>3, <2>6, <2>7, <2>8
  <2>10. 2 * (x * y) = x * (2 * y)
    OBVIOUS
  <2>11. Pow2[a + b] = x * Pow2[b]
    BY <2>5, <2>7, <2>9, <2>10
  <2>12. QED
    BY <2>2, <2>3, <2>11
<1>5. QED
  BY <1>2, <1>3, <1>4

------------------------------------------------------------------------------
(* Division                                                                 *)

(***************************************************************************)
(* A number is its quotient times the divisor plus its remainder.          *)
(***************************************************************************)
LEMMA DivMod ==
  ASSUME NEW x \in Nat, NEW q \in Nat \ {0}
  PROVE  /\ x \div q \in Nat /\ x % q \in 0 .. q - 1
         /\ x = q * (x \div q) + (x % q)
OBVIOUS

(***************************************************************************)
(* There is one such pair.                                                 *)
(***************************************************************************)
LEMMA DivModUnique ==
  ASSUME NEW x \in Nat, NEW q \in Nat \ {0}, NEW a \in Nat, NEW r \in Nat,
         r < q, x = q * a + r
  PROVE  x \div q = a /\ x % q = r
<1>1. PICK d \in Nat, m \in Nat : d = x \div q /\ m = x % q /\ m < q /\ x = q * d + m
  BY DivMod
<1>2. ASSUME NEW c \in Nat, NEW e \in Nat, NEW t \in Nat, NEW u \in Nat,
             c < e, t < q, u < q
      PROVE  q * c + t # q * e + u
  <2>1. PICK k \in Nat : e = c + 1 + k
    <3>1. e - c - 1 \in Nat /\ e = c + 1 + (e - c - 1)
      BY <1>2
    <3>2. QED
      BY <3>1
  <2>2. q * e = q * c + q + q * k /\ q * k \in Nat /\ q * c \in Nat
    BY <2>1
  <2>3. QED
    BY <1>2, <2>2
<1>3. d = a
  BY <1>1, <1>2
<1>4. QED
  BY <1>1, <1>3

(***************************************************************************)
(* A number below the divisor is its own remainder.                        *)
(***************************************************************************)
LEMMA SmallRemainder ==
  ASSUME NEW x \in Nat, NEW q \in Nat \ {0}, x < q
  PROVE  x % q = x
<1>1. x = q * 0 + x
  OBVIOUS
<1>2. QED
  BY <1>1, DivModUnique

(***************************************************************************)
(* The quotient is below n exactly when the number is below n divisors.    *)
(***************************************************************************)
LEMMA QuotientBelow ==
  ASSUME NEW x \in Nat, NEW q \in Nat \ {0}, NEW n \in Nat
  PROVE  x \div q < n <=> x < n * q
<1>1. PICK d \in Nat, m \in Nat : d = x \div q /\ m = x % q /\ m < q /\ x = q * d + m
  BY DivMod
<1>2. CASE d < n
  <2>1. PICK k \in Nat : n = d + 1 + k
    <3>1. n - d - 1 \in Nat /\ n = d + 1 + (n - d - 1)
      BY <1>2
    <3>2. QED
      BY <3>1
  <2>2. n * q = q * d + q + q * k /\ q * k \in Nat /\ q * d \in Nat
    BY <2>1
  <2>3. QED
    BY <1>1, <1>2, <2>2
<1>3. CASE ~(d < n)
  <2>1. PICK k \in Nat : d = n + k
    <3>1. d - n \in Nat /\ d = n + (d - n)
      BY <1>3
    <3>2. QED
      BY <3>1
  <2>2. q * d = n * q + q * k /\ q * k \in Nat /\ n * q \in Nat
    BY <2>1
  <2>3. QED
    BY <1>1, <1>3, <2>2
<1>4. QED
  BY <1>2, <1>3

(***************************************************************************)
(* Moving a word left until one of its bits is the sign bit.               *)
(***************************************************************************)
LEMMA BitToTop ==
  ASSUME NEW p \in Nat \ {0}, NEW q \in Nat \ {0}, NEW w \in Nat
  PROVE  (w * q) % (2 * (p * q)) >= p * q <=> (w \div p) % 2 = 1
<1>1. PICK d \in Nat, c \in Nat : d = w \div p /\ c < p /\ w = p * d + c
  BY DivMod
<1>2. PICK a \in Nat, b \in {0, 1} : b = d % 2 /\ d = 2 * a + b
  <2>1. d \div 2 \in Nat /\ d % 2 \in {0, 1} /\ d = 2 * (d \div 2) + (d % 2)
    OBVIOUS
  <2>2. QED
    BY <2>1
<1>3. PICK t \in Nat : t = p * q /\ t > 0
  <2>1. p * q \in Nat /\ p * q > 0
    OBVIOUS
  <2>2. QED
    BY <2>1
<1>4. PICK u \in Nat : u = c * q /\ u < t
  <2>1. PICK k \in Nat : p = c + 1 + k
    <3>1. p - c - 1 \in Nat /\ p = c + 1 + (p - c - 1)
      BY <1>1
    <3>2. QED
      BY <3>1
  <2>2. p * q = c * q + q + k * q /\ k * q \in Nat /\ c * q \in Nat
    BY <2>1
  <2>3. QED
    BY <1>3, <2>2
<1>5. w * q = (2 * t) * a + (b * t + u)
  <2>1. w * q = (p * d) * q + c * q
    <3>1. PICK z \in Nat : z = p * d
      OBVIOUS
    <3>2. w = z + c
      BY <1>1, <3>1
    <3>3. (z + c) * q = z * q + c * q
      OBVIOUS
    <3>4. QED
      BY <3>1, <3>2, <3>3
  <2>2. (p * d) * q = t * d
    BY <1>3
  <2>3. t * d = (2 * t) * a + b * t
    <3>1. t * d = t * (2 * a + b)
      BY <1>2
    <3>2. t * (2 * a + b) = (2 * t) * a + b * t
      OBVIOUS
    <3>3. QED
      BY <3>1, <3>2
  <2>4. QED
    BY <1>4, <2>1, <2>2, <2>3
<1>6. PICK r \in Nat : r = b * t + u /\ r < 2 * t /\ (r >= t <=> b = 1)
  BY <1>2, <1>3, <1>4
<1>7. PICK s \in Nat \ {0}, x \in Nat : s = 2 * t /\ x = w * q
  BY <1>3
<1>8. x = s * a + r /\ r < s
  BY <1>5, <1>6, <1>7
<1>9. x % s = r
  BY <1>8, DivModUnique
<1>10. QED
  BY <1>1, <1>2, <1>3, <1>6, <1>7, <1>9

------------------------------------------------------------------------------
(* The arguments of a call                                                  *)

(***************************************************************************)
(* The widths, and the value of a sign bit.                                *)
(***************************************************************************)
LEMMA Widths ==
  /\ N \in Nat \ {0} /\ W \in Nat /\ W >= 2 /\ IdxBits \in Nat \ {0}
  /\ Msb(W) \in Nat /\ Msb(W) > 0 /\ Pow2[W] = 2 * Msb(W)
  /\ Msb(IdxBits) \in Nat /\ Pow2[IdxBits] = 2 * Msb(IdxBits)
<1>1. \A p \in PowersOfTwo : p \in Nat /\ p >= 1
  BY Pow2Def DEF PowersOfTwo
<1>2. N \in Nat \ {0} /\ W \in Nat /\ W >= 2 /\ IdxBits \in Nat \ {0}
  BY <1>1, WidthAssumption
<1>3. ASSUME NEW b \in Nat \ {0}
      PROVE  Msb(b) \in Nat /\ Msb(b) > 0 /\ Pow2[b] = 2 * Msb(b)
  <2>1. PICK k \in Nat : b = k + 1 /\ k = b - 1
    <3>1. b - 1 \in Nat /\ b = (b - 1) + 1
      OBVIOUS
    <3>2. QED
      BY <3>1
  <2>2. QED
    BY <2>1, Pow2Def, Pow2Law DEF Msb
<1>4. QED
  BY <1>2, <1>3

(***************************************************************************)
(* A table is one of words, an index vector one of indices.                *)
(***************************************************************************)
LEMMA Arguments ==
  ASSUME table \in Tables, idx \in Indices
  PROVE  /\ Size \in Nat
         /\ DOMAIN table = 0 .. Size - 1
         /\ \A a \in 0 .. Size - 1 : table[a] \in Nat
         /\ DOMAIN idx = LaneIds(N)
         /\ \A l \in LaneIds(N) : idx[l] \in Nat /\ idx[l] < 2 * Msb(IdxBits)
<1>1. IsFiniteSet(DOMAIN table) /\ table \in [0 .. Size - 1 -> 0 .. Pow2[W] - 1]
  BY InputAssumption DEF Size
<1>2. Size \in Nat
  BY <1>1, FS_CardinalityType DEF Size
<1>3. idx \in [LaneIds(N) -> 0 .. Pow2[IdxBits] - 1]
  BY InputAssumption
<1>4. \A l \in LaneIds(N) : idx[l] \in Nat /\ idx[l] < 2 * Msb(IdxBits)
  BY <1>3, Widths
<1>5. QED
  BY <1>1, <1>2, <1>3, <1>4

(***************************************************************************)
(* SelectBits answers with the lanes whose word has a one at the bit their *)
(* index names.                                                            *)
(***************************************************************************)
LEMMA SelectedBits ==
  ASSUME NEW words, NEW i, DOMAIN words = LaneIds(N),
         \A l \in LaneIds(N) : words[l] \in Nat /\ i[l] \in Nat
  PROVE  SelectBits(words, i) = {l \in LaneIds(N) : (words[l] \div Pow2[i[l] % W]) % 2 = 1}
<1>1. SelectBits(words, i)
        = {l \in LaneIds(N) : (words[l] * Pow2[BitShift(i[l])]) % Pow2[W] >= Msb(W)}
  BY DEF SelectBits, VecToMask
<1>2. ASSUME NEW l \in LaneIds(N)
      PROVE  (words[l] * Pow2[BitShift(i[l])]) % Pow2[W] >= Msb(W)
               <=> (words[l] \div Pow2[i[l] % W]) % 2 = 1
  <2>1. PICK j \in Nat : j = i[l] % W /\ j < W
    <3>1. PICK x \in Nat, v \in Nat \ {0} : x = i[l] /\ v = W
      BY Widths
    <3>2. x % v \in 0 .. v - 1
      BY DivMod
    <3>3. QED
      BY <3>1, <3>2
  <2>2. PICK k \in Nat : k = BitShift(i[l]) /\ j + k = W - 1
    <3>1. BitShift(i[l]) = (W - 1) - j
      BY <2>1 DEF BitShift
    <3>2. (W - 1) - j \in Nat /\ j + ((W - 1) - j) = W - 1
      BY <2>1, Widths
    <3>3. QED
      BY <3>1, <3>2
  <2>3. PICK p \in Nat \ {0}, q \in Nat \ {0} : p = Pow2[j] /\ q = Pow2[k]
    BY Pow2Def
  <2>4. p * q = Msb(W)
    <3>1. Pow2[j + k] = p * q
      BY <2>3, Pow2Law
    <3>2. QED
      BY <2>2, <3>1 DEF Msb
  <2>5. Pow2[W] = 2 * (p * q)
    BY <2>4, Widths
  <2>6. PICK w \in Nat : w = words[l]
    OBVIOUS
  <2>7. (w * q) % (2 * (p * q)) >= p * q <=> (w \div p) % 2 = 1
    BY BitToTop
  <2>8. QED
    BY <2>1, <2>2, <2>3, <2>4, <2>5, <2>6, <2>7
<1>3. QED
  BY <1>1, <1>2

------------------------------------------------------------------------------
(* What the calls answer                                                    *)

(***************************************************************************)
(* An index cut to n words names one of them.                              *)
(***************************************************************************)
LEMMA CutIndex ==
  ASSUME NEW x \in Nat, NEW n \in Nat \ {0}
  PROVE  x % (n * W) \in Nat /\ (x % (n * W)) \div W \in 0 .. n - 1
<1>1. PICK q \in Nat \ {0}, v \in Nat \ {0} : v = W /\ q = n * v
  BY Widths
<1>2. PICK y \in Nat : y = x % q /\ y < q
  <2>1. x % q \in 0 .. q - 1
    BY DivMod
  <2>2. QED
    BY <2>1
<1>3. y \div v \in Nat /\ y \div v < n
  BY <1>1, <1>2, DivMod, QuotientBelow
<1>4. QED
  BY <1>1, <1>2, <1>3

(***************************************************************************)
(* The lookup in one register.                                             *)
(***************************************************************************)
LEMMA RegisterAnswer ==
  ASSUME table \in Tables, idx \in Indices, LookupRegister
  PROVE  /\ out' = Ones([l \in LaneIds(N) |-> idx[l] % (N * W)], [l \in LaneIds(N) |-> TRUE])
         /\ reads' = {} /\ table' = table /\ idx' = idx /\ call' = "register"
<1> DEFINE i == [l \in LaneIds(N) |-> idx[l] % (N * W)]
           words == Permute(WordOf(i), table)
<1>1. Size = N /\ Returns("register", SelectBits(words, i), {})
  BY DEF LookupRegister
<1>2. ASSUME NEW l \in LaneIds(N)
      PROVE  i[l] \in Nat /\ i[l] \div W \in 0 .. N - 1
  <2>1. idx[l] \in Nat /\ i[l] = idx[l] % (N * W)
    BY Arguments
  <2>2. QED
    BY <2>1, CutIndex, Widths
<1>3. /\ DOMAIN words = LaneIds(N)
      /\ \A l \in LaneIds(N) : words[l] = table[i[l] \div W]
  BY DEF Permute, WordOf
<1>4. \A l \in LaneIds(N) : words[l] \in Nat /\ i[l] \in Nat
  BY <1>1, <1>2, <1>3, Arguments
<1> HIDE DEF i, words
<1>5. SelectBits(words, i) = {l \in LaneIds(N) : (words[l] \div Pow2[i[l] % W]) % 2 = 1}
  BY <1>3, <1>4, SelectedBits
<1>6. SelectBits(words, i) = Ones(i, [l \in LaneIds(N) |-> TRUE])
  BY <1>3, <1>5 DEF Ones, TableBit
<1>7. QED
  BY <1>1, <1>6 DEF Returns, i

(***************************************************************************)
(* The lookup in a pair of registers.                                      *)
(***************************************************************************)
LEMMA PairAnswer ==
  ASSUME table \in Tables, idx \in Indices, LookupPair
  PROVE  /\ out' = Ones([l \in LaneIds(N) |-> idx[l] % (2 * N * W)], [l \in LaneIds(N) |-> TRUE])
         /\ reads' = {} /\ table' = table /\ idx' = idx /\ call' = "pair"
<1> DEFINE i == [l \in LaneIds(N) |-> idx[l] % (2 * N * W)]
           lo == [l \in LaneIds(N) |-> table[l]]
           hi == [l \in LaneIds(N) |-> table[N + l]]
           words == Permute2(N, lo, WordOf(i), hi)
<1>1. Size = 2 * N /\ Returns("pair", SelectBits(words, i), {})
  BY DEF LookupPair
<1>2. ASSUME NEW l \in LaneIds(N)
      PROVE  i[l] \in Nat /\ i[l] \div W \in 0 .. 2 * N - 1
  <2>1. idx[l] \in Nat /\ i[l] = idx[l] % (2 * N * W)
    BY Arguments
  <2>2. PICK n \in Nat \ {0} : n = 2 * N
    BY Widths
  <2>3. idx[l] % (n * W) \in Nat /\ (idx[l] % (n * W)) \div W \in 0 .. n - 1
    BY <2>1, CutIndex
  <2>4. QED
    BY <2>1, <2>2, <2>3
<1>3. ASSUME NEW l \in LaneIds(N) PROVE words[l] = table[i[l] \div W]
  <2>1. PICK s \in 0 .. 2 * N - 1 : s = i[l] \div W
    BY <1>2
  <2>2. s % (2 * N) = s
    <3>1. s \in Nat /\ 2 * N \in Nat \ {0} /\ s < 2 * N
      BY Widths
    <3>2. QED
      BY <3>1, SmallRemainder
  <2>3. words[l] = IF s < N THEN lo[s] ELSE hi[s - N]
    BY <2>1, <2>2 DEF Permute2, WordOf
  <2>4. CASE s < N
    <3>1. s \in LaneIds(N)
      BY <2>4, Widths DEF LaneIds
    <3>2. QED
      BY <2>1, <2>3, <2>4, <3>1
  <2>5. CASE ~(s < N)
    <3>1. s - N \in LaneIds(N) /\ N + (s - N) = s
      BY <2>5, Widths DEF LaneIds
    <3>2. QED
      BY <2>1, <2>3, <2>5, <3>1
  <2>6. QED
    BY <2>4, <2>5
<1>4. DOMAIN words = LaneIds(N)
  BY DEF Permute2, WordOf
<1>5. \A l \in LaneIds(N) : words[l] \in Nat /\ i[l] \in Nat
  BY <1>1, <1>2, <1>3, Arguments
<1> HIDE DEF i, words
<1>6. SelectBits(words, i) = {l \in LaneIds(N) : (words[l] \div Pow2[i[l] % W]) % 2 = 1}
  BY <1>4, <1>5, SelectedBits
<1>7. SelectBits(words, i) = Ones(i, [l \in LaneIds(N) |-> TRUE])
  BY <1>3, <1>6 DEF Ones, TableBit
<1>8. QED
  BY <1>1, <1>7 DEF Returns, i

(***************************************************************************)
(* The lookup in memory, and that it reads inside the table.               *)
(***************************************************************************)
LEMMA MemoryAnswer ==
  ASSUME table \in Tables, idx \in Indices, LookupMemory
  PROVE  /\ out' = Ones(idx, [l \in LaneIds(N) |-> idx[l] < Size * W])
         /\ reads' \subseteq DOMAIN table
         /\ table' = table /\ idx' = idx /\ call' = "memory"
<1> DEFINE t == WordOf(idx)
           gm == {l \in LaneIds(N) : t[l] < Size}
           words == GatherMem(gm, t)
           in == [l \in LaneIds(N) |-> idx[l] < Size * W]
<1>1. Returns("memory", SelectBits(words, idx), Touched(gm, t))
  BY DEF LookupMemory
<1>2. DOMAIN t = LaneIds(N) /\ \A l \in LaneIds(N) : t[l] = idx[l] \div W
  BY Arguments DEF WordOf
<1>3. ASSUME NEW l \in LaneIds(N)
      PROVE  /\ t[l] \in Nat /\ Signed(t[l]) = t[l]
             /\ l \in gm => t[l] \in 0 .. Size - 1
             /\ l \in gm <=> idx[l] < Size * W
  <2>1. PICK x \in Nat, v \in Nat \ {0}, h \in Nat, z \in Nat :
          /\ x = idx[l] /\ v = W /\ h = Msb(IdxBits) /\ z = Size
          /\ x < 2 * h /\ v >= 2
    <3>1. W \in Nat \ {0} /\ W >= 2 /\ Msb(IdxBits) \in Nat
      BY Widths
    <3>2. idx[l] \in Nat /\ Size \in Nat /\ idx[l] < 2 * Msb(IdxBits)
      BY Arguments
    <3>3. QED
      BY <3>1, <3>2
  <2>2. x \div v \in Nat
    BY DivMod
  <2>3. x < h * v
    <3>1. PICK k \in Nat : v = 2 + k
      <4>1. v - 2 \in Nat /\ v = 2 + (v - 2)
        BY <2>1
      <4>2. QED
        BY <4>1
    <3>2. h * v = 2 * h + h * k /\ h * k \in Nat
      BY <3>1
    <3>3. QED
      BY <2>1, <3>2
  <2>4. x \div v < h
    BY <2>3, QuotientBelow
  <2>5. x \div v < z <=> x < z * v
    BY QuotientBelow
  <2>6. t[l] = x \div v
    BY <1>2, <2>1
  <2>7. Signed(t[l]) = t[l]
    BY <2>1, <2>4, <2>6 DEF Signed
  <2>8. l \in gm <=> t[l] < z
    BY <2>1
  <2>9. QED
    BY <2>1, <2>2, <2>5, <2>6, <2>7, <2>8
<1>4. ASSUME NEW l \in LaneIds(N)
      PROVE  words[l] = IF l \in gm THEN table[t[l]] ELSE 0
  <2>1. words[l] = IF l \in gm /\ Signed(t[l]) \in DOMAIN table
                   THEN table[Signed(t[l])] ELSE 0
    BY <1>2 DEF GatherMem
  <2>2. QED
    BY <1>3, <2>1, Arguments
<1>5. DOMAIN words = LaneIds(N)
  BY <1>2 DEF GatherMem
<1>6. \A l \in LaneIds(N) : words[l] \in Nat /\ idx[l] \in Nat
  BY <1>3, <1>4, Arguments
<1>7. Touched(gm, t) \subseteq DOMAIN table
  BY <1>3, Arguments DEF Touched
<1>8. \A l \in LaneIds(N) : in[l] <=> l \in gm
  BY <1>3
<1> HIDE DEF words, gm, in
<1>9. SelectBits(words, idx)
        = {l \in LaneIds(N) : (words[l] \div Pow2[idx[l] % W]) % 2 = 1}
  BY <1>5, <1>6, SelectedBits
<1>10. ASSUME NEW l \in LaneIds(N)
       PROVE  (words[l] \div Pow2[idx[l] % W]) % 2 = 1
                <=> in[l] /\ TableBit(idx[l]) = 1
  <2>1. CASE l \in gm
    BY <1>2, <1>4, <1>8, <2>1 DEF TableBit
  <2>2. CASE l \notin gm
    <3>1. PICK p \in Nat \ {0} : p = Pow2[idx[l] % W]
      <4>1. PICK x \in Nat, v \in Nat \ {0} : x = idx[l] /\ v = W
        BY Arguments, Widths
      <4>2. x % v \in Nat
        BY DivMod
      <4>3. QED
        BY <4>1, <4>2, Pow2Def
    <3>2. 0 \div p = 0
      <4>1. 0 = p * 0 + 0
        OBVIOUS
      <4>2. QED
        BY <4>1, DivModUnique
    <3>3. words[l] = 0
      BY <1>4, <2>2
    <3>4. QED
      BY <1>8, <2>2, <3>1, <3>2, <3>3
  <2>3. QED
    BY <2>1, <2>2
<1>11. SelectBits(words, idx) = Ones(idx, in)
  BY <1>9, <1>10 DEF Ones
<1>12. QED
  BY <1>1, <1>7, <1>11 DEF Returns, in

(***************************************************************************)
(* The gather of words, and that it reads inside the table.                *)
(***************************************************************************)
LEMMA GatherAnswer ==
  ASSUME table \in Tables, idx \in Indices, GatherWords
  PROVE  /\ \A l \in LaneIds(N) :
              idx[l] < Msb(IdxBits) \/ idx[l] >= Size =>
                out'[l] = IF idx[l] < Size THEN table[idx[l]] ELSE 0
         /\ reads' \subseteq DOMAIN table
         /\ table' = table /\ idx' = idx /\ call' = "gather"
<1> DEFINE lanes == {l \in LaneIds(N) : idx[l] < MinMax}
<1>1. Returns("gather", GatherMem(lanes, idx), Touched(lanes, idx))
  BY DEF GatherWords
<1>2. ASSUME NEW l \in LaneIds(N)
      PROVE  /\ l \in lanes <=> idx[l] < Size /\ idx[l] < Msb(IdxBits)
             /\ idx[l] >= Size <=> ~(idx[l] < Size)
             /\ l \in lanes => Signed(idx[l]) = idx[l] /\ idx[l] \in DOMAIN table
  <2>1. PICK x \in Nat, h \in Nat, z \in Nat : x = idx[l] /\ h = Msb(IdxBits) /\ z = Size
    BY Arguments, Widths
  <2>2. x < MinMax <=> x < z /\ x < h
    BY <2>1 DEF MinMax
  <2>3. x < h => Signed(x) = x
    BY <2>1 DEF Signed
  <2>4. x < z => x \in DOMAIN table
    BY <2>1, Arguments
  <2>5. QED
    BY <2>1, <2>2, <2>3, <2>4
<1>3. \A l \in LaneIds(N) : GatherMem(lanes, idx)[l] = IF l \in lanes THEN table[idx[l]] ELSE 0
  BY <1>2, Arguments DEF GatherMem
<1>4. Touched(lanes, idx) \subseteq DOMAIN table
  BY <1>2 DEF Touched
<1> HIDE DEF lanes
<1>5. QED
  BY <1>1, <1>2, <1>3, <1>4 DEF Returns

(***************************************************************************)
(* The translation of bytes.                                               *)
(***************************************************************************)
LEMMA BytesAnswer ==
  ASSUME table \in Tables, idx \in Indices, TranslateBytes
  PROVE  /\ out' = [l \in LaneIds(N) |-> table[idx[l]]]
         /\ reads' = {} /\ table' = table /\ idx' = idx /\ call' = "bytes"
<1> DEFINE b7 == VecToMask(2 * N, idx)
           v0 == Permute2(N, Reg(0), idx, Reg(1))
           v1 == Permute2(N, Reg(2), idx, Reg(3))
           t0 == MaskZero(LaneIds(N) \ b7, v0)
           t1 == MaskZero(b7, v1)
<1>1. /\ Size = 4 * N
      /\ \A l \in LaneIds(N) : idx[l] < 4 * N
      /\ Returns("bytes", Either(t0, t1), {})
  BY DEF TranslateBytes
<1>2. DOMAIN v0 = LaneIds(N) /\ DOMAIN v1 = LaneIds(N)
  BY Arguments DEF Permute2
<1>3. /\ Either(t0, t1) = [l \in LaneIds(N) |-> t0[l] + t1[l]]
      /\ \A l \in LaneIds(N) : /\ t0[l] = IF l \in b7 THEN 0 ELSE v0[l]
                              /\ t1[l] = IF l \in b7 THEN v1[l] ELSE 0
  BY <1>2 DEF Either, MaskZero
<1>4. \A l \in LaneIds(N) : l \in b7 <=> idx[l] >= 2 * N
  BY Arguments DEF VecToMask
<1> HIDE DEF t0, t1, b7
<1>5. ASSUME NEW l \in LaneIds(N) PROVE t0[l] + t1[l] = table[idx[l]]
  <2>1. PICK x \in Nat, n \in Nat \ {0} : x = idx[l] /\ n = N /\ x < 4 * n
    BY <1>1, Arguments, Widths
  <2>2. PICK s \in Nat : s = x % (2 * n) /\ s < 2 * n /\ (IF x < 2 * n THEN s = x ELSE x = s + 2 * n)
    <3>1. PICK w \in Nat \ {0} : w = 2 * n
      OBVIOUS
    <3>2. CASE x < w
      BY <3>1, <3>2, SmallRemainder
    <3>3. CASE ~(x < w)
      <4>1. PICK r \in Nat : r = x - w
        BY <3>3
      <4>2. r < w /\ x = w * 1 + r
        BY <2>1, <3>1, <4>1
      <4>3. x % w = r
        BY <4>2, DivModUnique
      <4>4. QED
        BY <3>1, <3>3, <4>1, <4>2, <4>3
    <3>4. QED
      BY <3>2, <3>3
  <2>3. /\ v0[l] = IF s < n THEN Reg(0)[s] ELSE Reg(1)[s - n]
        /\ v1[l] = IF s < n THEN Reg(2)[s] ELSE Reg(3)[s - n]
    BY <2>1, <2>2, Arguments DEF Permute2
  <2>4. \A k \in LaneIds(N) : /\ Reg(0)[k] = table[k] /\ Reg(1)[k] = table[n + k]
                             /\ Reg(2)[k] = table[2 * n + k] /\ Reg(3)[k] = table[3 * n + k]
    <3>1. \A k \in LaneIds(N) : k \in Int
      BY DEF LaneIds
    <3>2. \A k \in LaneIds(N) :
            /\ Reg(0)[k] = table[0 * n + k] /\ Reg(1)[k] = table[1 * n + k]
            /\ Reg(2)[k] = table[2 * n + k] /\ Reg(3)[k] = table[3 * n + k]
      BY <2>1 DEF Reg
    <3>3. \A k \in LaneIds(N) : 0 * n + k = k /\ 1 * n + k = n + k
      BY <3>1
    <3>4. QED
      BY <3>2, <3>3
  <2>5. /\ s < n => s \in LaneIds(N)
        /\ ~(s < n) => s - n \in LaneIds(N) /\ n + (s - n) = s /\ 3 * n + (s - n) = 2 * n + s
    BY <2>1, <2>2 DEF LaneIds
  <2>6. v0[l] = table[s] /\ v1[l] = table[2 * n + s]
    BY <2>3, <2>4, <2>5
  <2>7. table[x] \in Nat
    BY <1>1, <2>1, Arguments
  <2>8. CASE x < 2 * n
    <3>1. t0[l] = table[x] /\ t1[l] = 0
      BY <1>3, <1>4, <2>1, <2>2, <2>6, <2>8
    <3>2. QED
      BY <2>1, <2>7, <3>1
  <2>9. CASE ~(x < 2 * n)
    <3>1. 2 * n + s = x
      BY <2>2, <2>9
    <3>2. t0[l] = 0 /\ t1[l] = table[x]
      BY <1>3, <1>4, <2>1, <2>6, <2>9, <3>1
    <3>3. QED
      BY <2>1, <2>7, <3>2
  <2>10. QED
    BY <2>8, <2>9
<1>6. Either(t0, t1) = [l \in LaneIds(N) |-> table[idx[l]]]
  BY <1>3, <1>5
<1>7. QED
  BY <1>1, <1>6 DEF Returns

------------------------------------------------------------------------------
(* The transposition                                                        *)

(***************************************************************************)
(* A permute of two vectors of 16 lanes through an index that names lanes. *)
(***************************************************************************)
LEMMA Permuted ==
  ASSUME NEW u, NEW v, NEW sw, DOMAIN sw = LaneIds(16),
         NEW l \in LaneIds(16), sw[l] \in 0 .. 31
  PROVE  Permute2(16, u, sw, v)[l] = IF sw[l] < 16 THEN u[sw[l]] ELSE v[sw[l] - 16]
<1>1. sw[l] % 32 = sw[l] /\ 2 * 16 = 32
  OBVIOUS
<1>2. QED
  BY <1>1 DEF Permute2

(***************************************************************************)
(* The index vectors: the low or the high halves of two vectors taken by   *)
(* turns, one lane or four at a time.                                      *)
(***************************************************************************)
LEMMA Indexes ==
  /\ DOMAIN Idx0a = LaneIds(16) /\ DOMAIN Idx0b = LaneIds(16)
  /\ DOMAIN Idx1a = LaneIds(16) /\ DOMAIN Idx1b = LaneIds(16)
  /\ \A l \in LaneIds(16) :
       /\ Idx0a[l] = (l \div 2) + 16 * (l % 2)
       /\ Idx0b[l] = (l \div 2) + 16 * (l % 2) + 8
       /\ Idx1a[l] = 4 * (l \div 8) + (l % 4) + 16 * ((l \div 4) % 2)
       /\ Idx1b[l] = 4 * (l \div 8) + (l % 4) + 16 * ((l \div 4) % 2) + 8
BY DEF Idx0a, Idx0b, Idx1a, Idx1b

(***************************************************************************)
(* The low or the high halves of two vectors, one lane of each by turns.   *)
(***************************************************************************)
LEMMA Alternate ==
  ASSUME NEW u, NEW v, NEW l \in LaneIds(16)
  PROVE  /\ Permute2(16, u, Idx0a, v)[l] = IF l % 2 = 0 THEN u[l \div 2] ELSE v[l \div 2]
         /\ Permute2(16, u, Idx0b, v)[l]
              = IF l % 2 = 0 THEN u[(l \div 2) + 8] ELSE v[(l \div 2) + 8]
<1>1. PICK k \in 0 .. 7, h \in 0 .. 1 : k = l \div 2 /\ h = l % 2
  BY DEF LaneIds
<1>2. Idx0a[l] = k + 16 * h /\ Idx0b[l] = k + 16 * h + 8
  BY <1>1, Indexes
<1>3. Idx0a[l] \in 0 .. 31 /\ Idx0b[l] \in 0 .. 31
  BY <1>2
<1>4. /\ Permute2(16, u, Idx0a, v)[l]
           = IF Idx0a[l] < 16 THEN u[Idx0a[l]] ELSE v[Idx0a[l] - 16]
      /\ Permute2(16, u, Idx0b, v)[l]
           = IF Idx0b[l] < 16 THEN u[Idx0b[l]] ELSE v[Idx0b[l] - 16]
  BY <1>3, Indexes, Permuted
<1>5. CASE h = 0
  <2>1. Idx0a[l] = k /\ Idx0b[l] = k + 8 /\ Idx0a[l] < 16 /\ Idx0b[l] < 16
    BY <1>2, <1>5
  <2>2. QED
    BY <1>1, <1>4, <1>5, <2>1
<1>6. CASE h = 1
  <2>1. /\ ~(Idx0a[l] < 16) /\ ~(Idx0b[l] < 16)
        /\ Idx0a[l] - 16 = k /\ Idx0b[l] - 16 = k + 8
    BY <1>2, <1>6
  <2>2. QED
    BY <1>1, <1>4, <1>6, <2>1
<1>7. QED
  BY <1>5, <1>6

(***************************************************************************)
(* The same by groups of four lanes.                                       *)
(***************************************************************************)
LEMMA AlternateFours ==
  ASSUME NEW u, NEW v, NEW g \in 0 .. 1, NEW h \in 0 .. 1, NEW c \in 0 .. 3
  PROVE  /\ Permute2(16, u, Idx1a, v)[8 * g + 4 * h + c]
              = IF h = 0 THEN u[4 * g + c] ELSE v[4 * g + c]
         /\ Permute2(16, u, Idx1b, v)[8 * g + 4 * h + c]
              = IF h = 0 THEN u[4 * g + c + 8] ELSE v[4 * g + c + 8]
<1>1. PICK l \in LaneIds(16) : l = 8 * g + 4 * h + c
  <2>1. 8 * g + 4 * h + c \in 0 .. 16 - 1
    OBVIOUS
  <2>2. QED
    BY <2>1 DEF LaneIds
<1>2. l \div 8 = g /\ l % 4 = c /\ (l \div 4) % 2 = h
  BY <1>1
<1>3. Idx1a[l] = 4 * g + c + 16 * h /\ Idx1b[l] = 4 * g + c + 16 * h + 8
  BY <1>2, Indexes
<1>4. Idx1a[l] \in 0 .. 31 /\ Idx1b[l] \in 0 .. 31
  BY <1>3
<1>5. /\ Permute2(16, u, Idx1a, v)[l]
           = IF Idx1a[l] < 16 THEN u[Idx1a[l]] ELSE v[Idx1a[l] - 16]
      /\ Permute2(16, u, Idx1b, v)[l]
           = IF Idx1b[l] < 16 THEN u[Idx1b[l]] ELSE v[Idx1b[l] - 16]
  BY <1>4, Indexes, Permuted
<1>6. CASE h = 0
  <2>1. Idx1a[l] = 4 * g + c /\ Idx1b[l] = 4 * g + c + 8 /\ Idx1a[l] < 16 /\ Idx1b[l] < 16
    BY <1>3, <1>6
  <2>2. QED
    BY <1>1, <1>5, <1>6, <2>1
<1>7. CASE h = 1
  <2>1. /\ ~(Idx1a[l] < 16) /\ ~(Idx1b[l] < 16)
        /\ Idx1a[l] - 16 = 4 * g + c /\ Idx1b[l] - 16 = 4 * g + c + 8
    BY <1>3, <1>7
  <2>2. QED
    BY <1>1, <1>5, <1>7, <2>1
<1>8. QED
  BY <1>6, <1>7

(***************************************************************************)
(* The first two rounds: vector q of a quarter holds, four lanes at a      *)
(* time, the words 4q - 4 .. 4q - 1 of its four structs.                   *)
(***************************************************************************)
LEMMA QuarterWords ==
  ASSUME NEW in, NEW r \in {0, 4}, NEW q \in 1 .. 4, NEW k \in 0 .. 3, NEW c \in 0 .. 3
  PROVE  Quarter(in, r)[q][4 * k + c] = in[r + c][k + 4 * (q - 1)]
<1> DEFINE a02 == Permute2(16, in[r], Idx0a, in[r + 2])
           b02 == Permute2(16, in[r], Idx0b, in[r + 2])
           a13 == Permute2(16, in[r + 1], Idx0a, in[r + 3])
           b13 == Permute2(16, in[r + 1], Idx0b, in[r + 3])
           s == IF q <= 2 THEN a02 ELSE b02
           t == IF q <= 2 THEN a13 ELSE b13
<1>1. PICK l \in LaneIds(16) : l = 4 * k + c
  <2>1. 4 * k + c \in 0 .. 16 - 1
    OBVIOUS
  <2>2. QED
    BY <2>1 DEF LaneIds
<1>2. PICK e \in 0 .. 1, f \in 0 .. 1 : c = 2 * e + f /\ l \div 2 = 2 * k + e /\ l % 2 = f
  <2>1. c \div 2 \in 0 .. 1 /\ c % 2 \in 0 .. 1 /\ c = 2 * (c \div 2) + (c % 2)
    OBVIOUS
  <2>2. l \div 2 = 2 * k + (c \div 2) /\ l % 2 = c % 2
    BY <1>1
  <2>3. QED
    BY <2>1, <2>2
<1>3. PICK o \in {0, 8} : o = (IF q \in {1, 3} THEN 0 ELSE 8)
  OBVIOUS
<1>4. PICK p \in {0, 8} : p = (IF q <= 2 THEN 0 ELSE 8)
  OBVIOUS
<1>5. Quarter(in, r)[q][l] = IF f = 0 THEN s[2 * k + e + o] ELSE t[2 * k + e + o]
  <2>1. /\ Quarter(in, r)[1] = Permute2(16, a02, Idx0a, a13)
        /\ Quarter(in, r)[2] = Permute2(16, a02, Idx0b, a13)
        /\ Quarter(in, r)[3] = Permute2(16, b02, Idx0a, b13)
        /\ Quarter(in, r)[4] = Permute2(16, b02, Idx0b, b13)
    BY DEF Quarter
  <2> HIDE DEF a02, b02, a13, b13
  <2>2. Quarter(in, r)[q] = IF q \in {1, 3} THEN Permute2(16, s, Idx0a, t)
                                            ELSE Permute2(16, s, Idx0b, t)
    <3>1. q \in {1, 2, 3, 4}
      OBVIOUS
    <3>2. QED
      BY <2>1, <3>1
  <2> HIDE DEF s, t
  <2>3. f = 0 <=> l % 2 = 0
    BY <1>2
  <2>4. 2 * k + e + 0 = 2 * k + e
    OBVIOUS
  <2>5. QED
    BY <1>2, <1>3, <2>2, <2>3, <2>4, Alternate
<1>6. PICK x \in LaneIds(16) : x = 2 * k + e + o /\ x \div 2 = k + (o \div 2) /\ x % 2 = e
  <2>1. 2 * k + e + o \in 0 .. 16 - 1
    OBVIOUS
  <2>2. (2 * k + e + o) \div 2 = k + (o \div 2) /\ (2 * k + e + o) % 2 = e
    OBVIOUS
  <2>3. QED
    BY <2>1, <2>2 DEF LaneIds
<1>7. PICK y \in 0 .. 15 : y = k + (o \div 2) + p /\ y = k + 4 * (q - 1)
                        /\ (p = 0 => y = x \div 2) /\ (p = 8 => y = (x \div 2) + 8)
  <2>1. q \in {1, 2, 3, 4}
    OBVIOUS
  <2>2. QED
    BY <1>3, <1>4, <1>6, <2>1
<1>8. /\ s[x] = IF e = 0 THEN in[r][y] ELSE in[r + 2][y]
      /\ t[x] = IF e = 0 THEN in[r + 1][y] ELSE in[r + 3][y]
  BY <1>4, <1>6, <1>7, Alternate
<1>9. r + 0 = r /\ c \in 0 .. 3
  OBVIOUS
<1>10. QED
  <2>1. Quarter(in, r)[q][l] = IF f = 0 THEN s[x] ELSE t[x]
    BY <1>5, <1>6
  <2> HIDE DEF s, t
  <2>2. CASE f = 0
    BY <1>1, <1>2, <1>7, <1>8, <1>9, <2>1, <2>2
  <2>3. CASE f = 1
    BY <1>1, <1>2, <1>7, <1>8, <1>9, <2>1, <2>3
  <2>4. QED
    BY <2>2, <2>3

(***************************************************************************)
(* The third round: vector z of the result holds the words 2z and 2z + 1   *)
(* of the eight structs.                                                   *)
(***************************************************************************)
LEMMA TransposedWords ==
  ASSUME NEW in, NEW z \in 0 .. 7, NEW g \in 0 .. 1, NEW s \in 0 .. 7
  PROVE  TransposeFunc(in)[z][8 * g + s] = in[s][2 * z + g]
<1>1. PICK h \in 0 .. 1, c \in 0 .. 3 : s = 4 * h + c
  <2>1. s \div 4 \in 0 .. 1 /\ s % 4 \in 0 .. 3 /\ s = 4 * (s \div 4) + (s % 4)
    OBVIOUS
  <2>2. QED
    BY <2>1
<1>2. PICK k \in 0 .. 3, o \in 0 .. 1 : k = z \div 2 /\ o = z % 2 /\ z = 2 * k + o
  <2>1. z \div 2 \in 0 .. 3 /\ z % 2 \in 0 .. 1 /\ z = 2 * (z \div 2) + (z % 2)
    OBVIOUS
  <2>2. QED
    BY <2>1
<1>3. PICK q \in 1 .. 4 : q = k + 1 /\ q - 1 = k
  OBVIOUS
<1> DEFINE u == Quarter(in, 0)[q]
           v == Quarter(in, 4)[q]
<1>4. TransposeFunc(in)[z] = Permute2(16, u, IF o = 0 THEN Idx1a ELSE Idx1b, v)
  BY <1>2, <1>3 DEF TransposeFunc
<1>5. PICK b \in 0 .. 3 : b = g + 2 * o
  OBVIOUS
<1>6. 4 * b + c = IF o = 0 THEN 4 * g + c ELSE 4 * g + c + 8
  BY <1>5
<1>7. 8 * g + s = 8 * g + 4 * h + c
  BY <1>1
<1>8. TransposeFunc(in)[z][8 * g + s] = IF h = 0 THEN u[4 * b + c] ELSE v[4 * b + c]
  <2> HIDE DEF u, v
  <2>1. CASE o = 0
    BY <1>4, <1>6, <1>7, <2>1, AlternateFours
  <2>2. CASE o # 0
    BY <1>4, <1>6, <1>7, <2>2, AlternateFours
  <2>3. QED
    BY <2>1, <2>2
<1>9. b + 4 * (q - 1) = 2 * z + g
  BY <1>2, <1>3, <1>5
<1>10. u[4 * b + c] = in[c][2 * z + g] /\ v[4 * b + c] = in[4 + c][2 * z + g]
  <2>1. u[4 * b + c] = in[0 + c][b + 4 * (q - 1)]
    BY QuarterWords
  <2>2. v[4 * b + c] = in[4 + c][b + 4 * (q - 1)]
    BY QuarterWords
  <2>3. 0 + c = c
    OBVIOUS
  <2>4. QED
    BY <1>9, <2>1, <2>2, <2>3
<1> HIDE DEF u, v
<1>11. QED
  <2>1. CASE h = 0
    <3>1. s = c
      BY <1>1, <2>1
    <3>2. QED
      BY <1>8, <1>10, <2>1, <3>1
  <2>2. CASE h = 1
    <3>1. s = 4 + c
      BY <1>1, <2>2
    <3>2. QED
      BY <1>8, <1>10, <2>2, <3>1
  <2>3. QED
    BY <2>1, <2>2

(***************************************************************************)
(* The words of the structs, one array after the other.                    *)
(***************************************************************************)
LEMMA TransposeAnswer ==
  ASSUME TransposeBlock
  PROVE  /\ \A r \in 0 .. 15, s \in 0 .. 7 : out'[8 * r + s] = table[16 * s + r]
         /\ reads' = {} /\ table' = table /\ idx' = idx /\ call' = "transpose"
<1>1. Returns("transpose", Flat(TransposeFunc(Block)), {})
  BY DEF TransposeBlock
<1>2. ASSUME NEW r \in 0 .. 15, NEW s \in 0 .. 7
      PROVE  Flat(TransposeFunc(Block))[8 * r + s] = table[16 * s + r]
  <2>1. PICK z \in 0 .. 7, g \in 0 .. 1 : r = 2 * z + g
    <3>1. r \div 2 \in 0 .. 7 /\ r % 2 \in 0 .. 1 /\ r = 2 * (r \div 2) + (r % 2)
      OBVIOUS
    <3>2. QED
      BY <3>1
  <2>2. PICK a \in 0 .. 127 : a = 8 * r + s /\ a \div 16 = z /\ a % 16 = 8 * g + s
    <3>1. 8 * r + s \in 0 .. 127 /\ 8 * r + s = 16 * z + (8 * g + s) /\ 8 * g + s \in 0 .. 15
      BY <2>1
    <3>2. PICK y \in 0 .. 15 : y = 8 * g + s
      BY <3>1
    <3>3. (16 * z + y) \div 16 = z /\ (16 * z + y) % 16 = y
      OBVIOUS
    <3>4. QED
      BY <3>1, <3>2, <3>3
  <2>3. Flat(TransposeFunc(Block))[a] = TransposeFunc(Block)[z][8 * g + s]
    BY <2>2 DEF Flat
  <2>4. TransposeFunc(Block)[z][8 * g + s] = Block[s][r]
    BY <2>1, TransposedWords
  <2>5. Block[s][r] = table[16 * s + r]
    BY DEF Block, LaneIds
  <2>6. QED
    BY <2>2, <2>3, <2>4, <2>5
<1>3. QED
  BY <1>1, <1>2 DEF Returns

(***************************************************************************)
(* The 64-bit fields of the structs, the two words of each side by side.   *)
(***************************************************************************)
LEMMA FieldsAnswer ==
  ASSUME TransposeFields
  PROVE  /\ \A r, s \in 0 .. 7 : \A h \in {0, 1} :
              out'[16 * r + 2 * s + h] = table[16 * s + 2 * r + h]
         /\ reads' = {} /\ table' = table /\ idx' = idx /\ call' = "fields"
<1> DEFINE rows == [z \in 0 .. 7 |-> Deinterleave(TransposeFunc(Block)[z])]
<1>1. Returns("fields", Flat(rows), {})
  BY DEF TransposeFields
<1>2. ASSUME NEW r \in 0 .. 7, NEW s \in 0 .. 7, NEW h \in {0, 1}
      PROVE  Flat(rows)[16 * r + 2 * s + h] = table[16 * s + 2 * r + h]
  <2>1. PICK y \in 0 .. 15 : y = 2 * s + h /\ y \div 2 = s /\ y % 2 = h
    OBVIOUS
  <2>2. PICK a \in 0 .. 127 : a = 16 * r + y /\ a \div 16 = r /\ a % 16 = y
    OBVIOUS
  <2>3. Flat(rows)[a] = rows[r][y]
    BY <2>2 DEF Flat
  <2>4. rows[r][y] = TransposeFunc(Block)[r][8 * h + s]
    <3>1. y \in LaneIds(16) /\ (y \div 2) + 8 * (y % 2) = 8 * h + s
      BY <2>1 DEF LaneIds
    <3>2. QED
      BY <3>1 DEF Deinterleave, Permute
  <2>5. TransposeFunc(Block)[r][8 * h + s] = Block[s][2 * r + h]
    BY TransposedWords
  <2>6. Block[s][2 * r + h] = table[16 * s + (2 * r + h)]
    <3>1. 2 * r + h \in LaneIds(16)
      BY DEF LaneIds
    <3>2. QED
      BY <3>1 DEF Block
  <2>7. 16 * r + 2 * s + h = a /\ 16 * s + 2 * r + h = 16 * s + (2 * r + h)
    BY <2>1, <2>2
  <2>8. QED
    BY <2>3, <2>4, <2>5, <2>6, <2>7
<1> HIDE DEF rows
<1>3. QED
  BY <1>1, <1>2 DEF Returns

------------------------------------------------------------------------------
(* The invariants                                                           *)

\* The arguments stay what they were, and a call that has not returned has
\* read nothing.
Asked == /\ table \in Tables /\ idx \in Indices
         /\ call = "none" => reads = {}

IInv == Asked /\ BitLookupsExact /\ GathersInBounds /\ ElementsExact /\ Transposed

(***************************************************************************)
(* Nothing has been answered at first.                                     *)
(***************************************************************************)
LEMMA InitIInv == Init => IInv
BY DEF Init, IInv, Asked, BitLookupsExact, GathersInBounds, ElementsExact, Transposed

(***************************************************************************)
(* Each function answers as it should.                                     *)
(***************************************************************************)
LEMMA NextIInv == IInv /\ [Next]_vars => IInv'
<1> SUFFICES ASSUME IInv, [Next]_vars PROVE IInv'
  OBVIOUS
<1>1. table \in Tables /\ idx \in Indices
  BY DEF IInv, Asked
<1>2. CASE LookupRegister
  BY <1>1, <1>2, RegisterAnswer
     DEF IInv, Asked, BitLookupsExact, GathersInBounds, ElementsExact, Transposed, Ones, TableBit
<1>3. CASE LookupPair
  BY <1>1, <1>3, PairAnswer
     DEF IInv, Asked, BitLookupsExact, GathersInBounds, ElementsExact, Transposed, Ones, TableBit
<1>4. CASE LookupMemory
  <2>1. /\ out' = Ones(idx, [l \in LaneIds(N) |-> idx[l] < Size * W])
        /\ reads' \subseteq DOMAIN table
        /\ table' = table /\ idx' = idx /\ call' = "memory"
    BY <1>1, <1>4, MemoryAnswer
  <2>2. Size' = Size
    BY <2>1 DEF Size
  <2>3. BitLookupsExact'
    BY <2>1, <2>2 DEF BitLookupsExact, Ones, TableBit
  <2>4. QED
    BY <1>1, <2>1, <2>3 DEF IInv, Asked, GathersInBounds, ElementsExact, Transposed
<1>5. CASE GatherWords
  BY <1>1, <1>5, GatherAnswer
     DEF IInv, Asked, BitLookupsExact, GathersInBounds, ElementsExact, Transposed, Size
<1>6. CASE TranslateBytes
  BY <1>1, <1>6, BytesAnswer
     DEF IInv, Asked, BitLookupsExact, GathersInBounds, ElementsExact, Transposed
<1>7. CASE TransposeBlock
  BY <1>1, <1>7, TransposeAnswer
     DEF IInv, Asked, BitLookupsExact, GathersInBounds, ElementsExact, Transposed
<1>8. CASE TransposeFields
  BY <1>1, <1>8, FieldsAnswer
     DEF IInv, Asked, BitLookupsExact, GathersInBounds, ElementsExact, Transposed
<1>9. CASE Stopped \/ UNCHANGED vars
  <2>1. UNCHANGED <<table, idx, call, out, reads>>
    BY <1>9 DEF Stopped, vars
  <2>2. Asked' /\ GathersInBounds' /\ Transposed'
    BY <2>1 DEF IInv, Asked, GathersInBounds, Transposed
  <2>3. Size' = Size
    BY <2>1 DEF Size
  <2>4. BitLookupsExact'
    BY <2>1, <2>3 DEF IInv, BitLookupsExact, Ones, TableBit
  <2>5. ElementsExact'
    BY <2>1, <2>3 DEF IInv, ElementsExact
  <2>6. QED
    BY <2>2, <2>4, <2>5 DEF IInv
<1>10. QED
  BY <1>2, <1>3, <1>4, <1>5, <1>6, <1>7, <1>8, <1>9 DEF Next

(***************************************************************************)
(* What the four theorems below are parts of.                              *)
(***************************************************************************)
THEOREM LookupInvariant == Spec => []IInv
<1>1. QED
  BY InitIInv, NextIInv, PTL DEF Spec

(***************************************************************************)
(* The bit lookups of mask_util.h find the bits the scalar loop finds, for *)
(* every width of vector and word.                                         *)
(***************************************************************************)
THEOREM BitsFound == Spec => []BitLookupsExact
<1>1. IInv => BitLookupsExact
  BY DEF IInv
<1>2. QED
  BY <1>1, LookupInvariant, PTL

(***************************************************************************)
(* No gather of mask_util.h or sg_util.h reads outside its table.          *)
(***************************************************************************)
THEOREM GathersInside == Spec => []GathersInBounds
<1>1. IInv => GathersInBounds
  BY DEF IInv
<1>2. QED
  BY <1>1, LookupInvariant, PTL

(***************************************************************************)
(* The gathers of words and the translation of bytes of sg_util.h give     *)
(* each lane its own element, but for indices beyond the signed range.     *)
(***************************************************************************)
THEOREM ElementsFound == Spec => []ElementsExact
<1>1. IInv => ElementsExact
  BY DEF IInv
<1>2. QED
  BY <1>1, LookupInvariant, PTL

(***************************************************************************)
(* The permutes of transpose_util.h transpose every block of words.        *)
(***************************************************************************)
THEOREM BlocksTransposed == Spec => []Transposed
<1>1. IInv => Transposed
  BY DEF IInv
<1>2. QED
  BY <1>1, LookupInvariant, PTL
==============================================================================
