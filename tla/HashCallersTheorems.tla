------------------------- MODULE HashCallersTheorems -------------------------
(***************************************************************************)
(* Proofs about HashCallers, for every number of lanes, every length of a  *)
(* block, all keys and all lengths: each lane of the parallel hash does    *)
(* what the scalar function does with its key, and reads no other bytes.   *)
(***************************************************************************)
EXTENDS HashCallers, SequenceTheorems, TLAPS

USE LaneAssumption

------------------------------------------------------------------------------
(* Hashes as sequences                                                      *)

Words == [0 .. WordLen - 1 -> Nat]

\* What may be mixed into an accumulator.
Symbols == ({"seed"} \X Nat) \cup ({"block"} \X Words) \cup ({"tail"} \X Words)
             \cup ({"len"} \X Nat)

\* Block number b, from 0, of the key at k.
BlockOf(k, b) == <<"block", Word(k + b * WordLen, WordLen)>>

\* What is mixed in at place j, and an accumulator after the first m blocks of
\* the key at k.
Place(k, s, j)  == IF j = 1 THEN <<"seed", s>> ELSE BlockOf(k, j - 2)
Prefix(k, s, m) == [j \in 1 .. m + 1 |-> Place(k, s, j)]

\* The same with the tail of a key of length len, if it has one.
WithTail(k, s, len) ==
  IF len % WordLen > 0
  THEN Append(Prefix(k, s, len \div WordLen),
              <<"tail", Word(k + (len \div WordLen) * WordLen, len % WordLen)>>)
  ELSE Prefix(k, s, len \div WordLen)

(***************************************************************************)
(* What is mixed in are symbols.                                           *)
(***************************************************************************)
LEMMA SymbolTypes ==
  /\ \A a \in Nat : <<"seed", a>> \in Symbols
  /\ \A a \in Nat : <<"len", a>> \in Symbols
  /\ \A a, x \in Nat : <<"tail", Word(a, x)>> \in Symbols
  /\ \A a, b \in Nat : BlockOf(a, b) \in Symbols
<1>1. \A c, y \in Nat : Word(c, y) \in Words
  BY DEF Word, Words
<1>2. \A a, b \in Nat : a + b * WordLen \in Nat
  OBVIOUS
<1>3. WordLen \in Nat
  OBVIOUS
<1>4. \A a, b \in Nat : BlockOf(a, b) \in Symbols
  BY <1>1, <1>2, <1>3 DEF Symbols, BlockOf
<1>5. QED
  BY <1>1, <1>4 DEF Symbols

(***************************************************************************)
(* A prefix is a sequence of symbols.                                      *)
(***************************************************************************)
LEMMA PrefixType ==
  ASSUME NEW k \in Nat, NEW s \in Nat, NEW m \in Nat
  PROVE  /\ Prefix(k, s, m) \in Seq(Symbols)
         /\ Len(Prefix(k, s, m)) = m + 1
         /\ \A j \in 1 .. m + 1 : Prefix(k, s, m)[j] = Place(k, s, j)
<1>1. \A j \in 1 .. m + 1 : Place(k, s, j) \in Symbols
  <2>1. \A j \in 1 .. m + 1 : j = 1 \/ j - 2 \in Nat
    OBVIOUS
  <2>2. QED
    BY <2>1, SymbolTypes DEF Place
<1>2. Prefix(k, s, m) \in [1 .. m + 1 -> Symbols]
  BY <1>1 DEF Prefix
<1>3. Prefix(k, s, m) \in Seq(Symbols) /\ Len(Prefix(k, s, m)) = m + 1
  BY <1>2
<1>4. QED
  BY <1>3 DEF Prefix

(***************************************************************************)
(* One more block makes the prefix one longer.                             *)
(***************************************************************************)
LEMMA PrefixGrows ==
  ASSUME NEW k \in Nat, NEW s \in Nat, NEW m \in Nat
  PROVE  Append(Prefix(k, s, m), BlockOf(k, m)) = Prefix(k, s, m + 1)
<1>1. PICK p : p = Prefix(k, s, m)
  OBVIOUS
<1>2. PICK q : q = Prefix(k, s, m + 1)
  OBVIOUS
<1>3. PICK e : e = BlockOf(k, m)
  OBVIOUS
<1>4. p \in Seq(Symbols) /\ Len(p) = m + 1
  BY <1>1, PrefixType
<1>5. \A j \in 1 .. m + 1 : p[j] = Place(k, s, j)
  BY <1>1, PrefixType
<1>6. q \in Seq(Symbols) /\ Len(q) = (m + 1) + 1
  BY <1>2, PrefixType
<1>7. \A j \in 1 .. (m + 1) + 1 : q[j] = Place(k, s, j)
  <2>1. PICK n1 \in Nat : n1 = m + 1
    OBVIOUS
  <2>2. \A j \in 1 .. n1 + 1 : Prefix(k, s, n1)[j] = Place(k, s, j)
    BY PrefixType
  <2>3. QED
    BY <1>2, <2>1, <2>2
<1>8. e \in Symbols
  BY <1>3, SymbolTypes
<1>9. e = Place(k, s, m + 2)
  <2>1. m + 2 # 1 /\ (m + 2) - 2 = m
    OBVIOUS
  <2>2. QED
    BY <1>3, <2>1 DEF Place
<1>10. PICK a : a = Append(p, e)
  OBVIOUS
<1>11. a \in Seq(Symbols) /\ Len(a) = (m + 1) + 1 /\ a[(m + 1) + 1] = e
  BY <1>4, <1>8, <1>10, AppendProperties
<1>12. \A j \in 1 .. m + 1 : a[j] = p[j]
  BY <1>4, <1>8, <1>10, AppendProperties
<1>13. \A j \in 1 .. (m + 1) + 1 : a[j] = q[j]
  <2>1. SUFFICES ASSUME NEW j \in 1 .. (m + 1) + 1 PROVE a[j] = q[j]
    OBVIOUS
  <2>2. j \in 1 .. m + 1 \/ j = m + 2
    OBVIOUS
  <2>3. CASE j \in 1 .. m + 1
    BY <1>5, <1>7, <1>12, <2>3
  <2>4. CASE j = m + 2
    BY <1>7, <1>9, <1>11, <2>4
  <2>5. QED
    BY <2>2, <2>3, <2>4
<1>14. a = q
  BY <1>6, <1>11, <1>13, SeqEqual
<1>15. QED
  BY <1>1, <1>2, <1>3, <1>10, <1>14

(***************************************************************************)
(* The prefix of no block is the seed alone.                               *)
(***************************************************************************)
LEMMA PrefixStart ==
  ASSUME NEW k \in Nat, NEW s \in Nat
  PROVE  <<<<"seed", s>>>> = Prefix(k, s, 0)
<1>1. PICK p : p = Prefix(k, s, 0)
  OBVIOUS
<1>2. PICK e : e = <<"seed", s>>
  OBVIOUS
<1>3. p \in Seq(Symbols) /\ Len(p) = 1
  <2>1. Len(p) = 0 + 1 /\ p \in Seq(Symbols)
    BY <1>1, PrefixType
  <2>2. QED
    BY <2>1
<1>4. p[1] = e
  <2>1. PICK n1 \in Nat : n1 = 0
    OBVIOUS
  <2>2. \A j \in 1 .. n1 + 1 : Prefix(k, s, n1)[j] = Place(k, s, j)
    BY PrefixType
  <2>3. 1 \in 1 .. n1 + 1
    BY <2>1
  <2>4. QED
    BY <1>1, <1>2, <2>1, <2>2, <2>3 DEF Place
<1>5. e \in Symbols
  BY <1>2, SymbolTypes
<1>6. PICK a : a = <<e>>
  OBVIOUS
<1>7. a \in Seq(Symbols) /\ Len(a) = 1 /\ a[1] = e
  BY <1>5, <1>6
<1>8. \A j \in 1 .. Len(a) : a[j] = p[j]
  BY <1>4, <1>7
<1>9. a = p
  BY <1>3, <1>7, <1>8, SeqEqual
<1>10. QED
  BY <1>1, <1>2, <1>6, <1>9

(***************************************************************************)
(* The scalar hash is the prefix of all its blocks, the tail and the       *)
(* length.                                                                 *)
(***************************************************************************)
LEMMA ScalarForm ==
  ASSUME NEW k \in Nat, NEW s \in Nat, NEW len \in Nat
  PROVE  /\ Scalar(k, len, s) = Append(WithTail(k, s, len), <<"len", len>>)
         /\ WithTail(k, s, len) \in Seq(Symbols)
<1> DEFINE m == len \div WordLen
           r == len % WordLen
           first == <<<<"seed", s>>>>
           mid == [b \in 1 .. m |-> <<"block", Word(k + (b - 1) * WordLen, WordLen)>>]
           t == <<"tail", Word(k + m * WordLen, r)>>
           z == <<"len", len>>
           pre == Prefix(k, s, m)
<1>1. m \in Nat /\ r \in Nat /\ k + m * WordLen \in Nat
  <2>1. m \in Nat /\ r \in Nat
    OBVIOUS
  <2> HIDE DEF m, r
  <2>2. QED
    BY <2>1
<1>2. first \in Seq(Symbols) /\ Len(first) = 1 /\ first[1] = <<"seed", s>>
  BY SymbolTypes
<1>3. t \in Symbols /\ z \in Symbols
  <2> HIDE DEF m, r
  <2>1. QED
    BY <1>1, SymbolTypes
<1>4. mid \in Seq(Symbols) /\ Len(mid) = m /\ \A b \in 1 .. m : mid[b] = BlockOf(k, b - 1)
  <2> HIDE DEF m
  <2>1. \A b \in 1 .. m : b - 1 \in Nat
    BY <1>1
  <2>2. \A b \in 1 .. m : BlockOf(k, b - 1) \in Symbols
    BY <2>1, SymbolTypes
  <2>3. mid = [b \in 1 .. m |-> BlockOf(k, b - 1)]
    BY DEF BlockOf
  <2> HIDE DEF mid
  <2>4. mid \in [1 .. m -> Symbols]
    BY <2>2, <2>3
  <2>5. mid \in Seq(Symbols) /\ Len(mid) = m
    BY <1>1, <2>4
  <2>6. QED
    BY <2>3, <2>5
<1>5. pre \in Seq(Symbols) /\ Len(pre) = m + 1 /\ \A j \in 1 .. m + 1 : pre[j] = Place(k, s, j)
  <2> HIDE DEF m
  <2>1. pre \in Seq(Symbols) /\ Len(pre) = m + 1
    BY <1>1, PrefixType
  <2>2. \A j \in 1 .. m + 1 : pre[j] = Place(k, s, j)
    BY <1>1, PrefixType
  <2>3. QED
    BY <2>1, <2>2
<1>6. Scalar(k, len, s) = ((first \o mid) \o (IF r > 0 THEN <<t>> ELSE <<>>)) \o <<z>>
  BY DEF Scalar
<1>7. WithTail(k, s, len) = IF r > 0 THEN Append(pre, t) ELSE pre
  BY DEF WithTail
<1> HIDE DEF m, r, first, mid, t, z, pre
<1>8. first \o mid = pre
  <2>1. PICK c : c = first \o mid
    OBVIOUS
  <2>2. c \in Seq(Symbols) /\ Len(c) = Len(first) + Len(mid)
    BY <1>2, <1>4, <2>1, ConcatProperties
  <2>3. \A j \in 1 .. Len(first) + Len(mid) :
          c[j] = IF j <= Len(first) THEN first[j] ELSE mid[j - Len(first)]
    BY <1>2, <1>4, <2>1, ConcatProperties
  <2>4. Len(c) = m + 1
    BY <1>1, <1>2, <1>4, <2>2
  <2>5. \A j \in 1 .. m + 1 : c[j] = IF j <= 1 THEN first[j] ELSE mid[j - 1]
    BY <1>1, <1>2, <1>4, <2>3
  <2>6. \A j \in 1 .. m + 1 : c[j] = pre[j]
    <3>1. SUFFICES ASSUME NEW j \in 1 .. m + 1 PROVE c[j] = Place(k, s, j)
      BY <1>5
    <3>2. CASE j = 1
      BY <1>2, <2>5, <3>2 DEF Place
    <3>3. CASE j # 1
      <4>1. j - 1 \in 1 .. m /\ (j - 1) - 1 = j - 2 /\ ~(j <= 1)
        BY <1>1, <3>3
      <4>2. c[j] = BlockOf(k, (j - 1) - 1)
        BY <1>4, <2>5, <4>1
      <4>3. QED
        BY <3>3, <4>1, <4>2 DEF Place
    <3>4. QED
      BY <3>2, <3>3
  <2>7. QED
    BY <1>5, <2>1, <2>2, <2>4, <2>6, SeqEqual
<1>9. (first \o mid) \o (IF r > 0 THEN <<t>> ELSE <<>>) = WithTail(k, s, len)
      /\ WithTail(k, s, len) \in Seq(Symbols)
  <2>1. CASE r > 0
    <3>1. Append(pre, t) = pre \o <<t>>
      BY <1>3, <1>5, AppendIsConcat
    <3>2. Append(pre, t) \in Seq(Symbols)
      BY <1>3, <1>5, AppendProperties
    <3>3. QED
      BY <1>7, <1>8, <2>1, <3>1, <3>2
  <2>2. CASE ~(r > 0)
    <3>1. pre \o <<>> = pre
      BY <1>5, ConcatEmptySeq
    <3>2. QED
      BY <1>5, <1>7, <1>8, <2>2, <3>1
  <2>3. QED
    BY <2>1, <2>2
<1>10. Append(WithTail(k, s, len), z) = WithTail(k, s, len) \o <<z>>
  BY <1>3, <1>9, AppendIsConcat
<1>11. QED
  BY <1>6, <1>9, <1>10 DEF z

------------------------------------------------------------------------------
(* One call                                                                 *)

CallTypes ==
  /\ fn \in {"full", "notail"}
  /\ stage \in {"idle", "blocks", "tail", "end", "done"}
  /\ key \in [AllLanes -> Nat] /\ size \in [AllLanes -> Nat] /\ seed \in [AllLanes -> Nat]
  /\ i \in Nat
  /\ lanes \subseteq Valid(key)

\* What a lane has read.
Reads ==
  \A l \in AllLanes : \A x \in got[l] :
     l \in Valid(key) /\ x \in key[l] .. key[l] + KeyLen(l) - 1

\* How many blocks lane l has mixed in when i iterations are over.
Mixed_in(l) == IF i < NBlk(l) THEN i ELSE NBlk(l)

\* The accumulators, and the lanes that went out of the loop.
Mixes ==
  /\ stage = "blocks" =>
       \A l \in Valid(key) : /\ accum[l] = Prefix(key[l], seed[l], Mixed_in(l))
                             /\ l \notin lanes => NBlk(l) <= i
  /\ stage = "tail" =>
       /\ fn = "full"
       /\ lanes = {l \in Valid(key) : Rem(l) > 0}
       /\ \A l \in Valid(key) : accum[l] = Prefix(key[l], seed[l], NBlk(l))
  /\ stage = "end" =>
       \A l \in Valid(key) : accum[l] = WithTail(key[l], seed[l], KeyLen(l))
  /\ stage = "done" =>
       \A l \in Valid(key) : accum[l] = Scalar(key[l], KeyLen(l), seed[l])

CallInv == CallTypes /\ Reads /\ Mixes

(***************************************************************************)
(* The addresses a list of reads covers are an interval.                   *)
(***************************************************************************)
LEMMA Interval ==
  ASSUME NEW l \in AllLanes, key[l] \in Nat, NEW from \in Nat, NEW c \in Nat
  PROVE  Bytes(l, from, c) = key[l] + from .. key[l] + from + c - 1
<1>1. \A x \in key[l] + from .. key[l] + from + c - 1 :
        x - (key[l] + from) \in 0 .. c - 1 /\ x = key[l] + from + (x - (key[l] + from))
  OBVIOUS
<1>2. \A b \in 0 .. c - 1 : key[l] + from + b \in key[l] + from .. key[l] + from + c - 1
  OBVIOUS
<1>3. QED
  BY <1>1, <1>2 DEF Bytes

(***************************************************************************)
(* Lengths in blocks and in bytes.                                         *)
(***************************************************************************)
LEMMA Lengths ==
  ASSUME CallTypes, NEW l \in AllLanes
  PROVE  /\ NBlk(l) \in Nat /\ KeyLen(l) \in Nat /\ Rem(l) \in 0 .. WordLen - 1
         /\ NBlk(l) = KeyLen(l) \div WordLen
         /\ fn = "full" => Rem(l) = KeyLen(l) % WordLen
         /\ fn = "notail" => KeyLen(l) % WordLen = 0
         /\ NBlk(l) * WordLen <= KeyLen(l)
         /\ fn = "full" => NBlk(l) * WordLen + Rem(l) = KeyLen(l)
<1>1. PICK s \in Nat : s = size[l]
  BY DEF CallTypes
<1>2. PICK w \in Nat : w = WordLen /\ w > 1
  OBVIOUS
<1>3. /\ s \div w \in Nat /\ s % w \in 0 .. w - 1
      /\ (s \div w) * w + (s % w) = s /\ (s \div w) * w <= s
      /\ s * w \in Nat
  BY <1>2
<1>4. (s * w) \div w = s /\ (s * w) % w = 0
  BY <1>2
<1>5. Rem(l) = s % w
  BY <1>1, <1>2 DEF Rem
<1>6. CASE fn = "full"
  <2>1. NBlk(l) = s \div w /\ KeyLen(l) = s
    BY <1>1, <1>2, <1>6 DEF NBlk, KeyLen
  <2>2. QED
    BY <1>2, <1>3, <1>5, <1>6, <2>1
<1>7. CASE fn = "notail"
  <2>1. NBlk(l) = s /\ KeyLen(l) = s * w
    BY <1>1, <1>2, <1>7 DEF NBlk, KeyLen
  <2>2. QED
    BY <1>2, <1>3, <1>4, <1>5, <1>7, <2>1
<1>8. QED
  BY <1>6, <1>7 DEF CallTypes

(***************************************************************************)
(* A call starts well.                                                     *)
(***************************************************************************)
LEMMA CallStarts ==
  ASSUME NEW f \in {"full", "notail"}, NEW k \in [AllLanes -> Nat],
         NEW z \in [AllLanes -> Nat], NEW d \in [AllLanes -> Nat], Call(f, k, z, d)
  PROVE  CallInv'
<1>1. CallTypes'
  BY DEF Call, CallTypes
<1>2. Reads'
  BY DEF Call, Reads, Each
<1>3. \A l \in AllLanes : NBlk(l)' \in Nat
  <2>1. \A l \in AllLanes : z[l] \in Nat /\ z[l] \div WordLen \in Nat
    OBVIOUS
  <2>2. QED
    BY <2>1 DEF Call, NBlk
<1>4. Mixes'
  <2>1. \A l \in AllLanes : accum'[l] = Prefix(key'[l], seed'[l], 0)
    BY PrefixStart DEF Call
  <2>2. \A l \in AllLanes : Mixed_in(l)' = 0
    BY <1>3 DEF Call, Mixed_in
  <2>3. stage' = "blocks" /\ lanes' = Valid(key')
    BY DEF Call
  <2>4. Valid(key') \subseteq AllLanes
    BY DEF Valid
  <2>5. QED
    BY <2>1, <2>2, <2>3, <2>4 DEF Mixes
<1>5. QED
  BY <1>1, <1>2, <1>4 DEF CallInv

(***************************************************************************)
(* What a step that leaves the parameters of the call alone keeps of the   *)
(* lengths and of the lanes with a key.                                    *)
(***************************************************************************)
LEMMA SameCall ==
  ASSUME UNCHANGED <<fn, key, size, seed>>
  PROVE  /\ Valid(key') = Valid(key) /\ Valid(key)' = Valid(key)
         /\ \A l \in AllLanes : NBlk(l)' = NBlk(l) /\ KeyLen(l)' = KeyLen(l) /\ Rem(l)' = Rem(l)
BY DEF Valid, NBlk, KeyLen, Rem

(***************************************************************************)
(* One iteration of the block loop.                                        *)
(***************************************************************************)
LEMMA BlockKept ==
  ASSUME CallInv, Block
  PROVE  CallInv'
<1>1. CallTypes /\ Reads /\ Mixes /\ UNCHANGED <<fn, key, size, seed>>
  BY DEF CallInv, Block
<1>2. /\ Valid(key') = Valid(key) /\ Valid(key)' = Valid(key)
      /\ \A l \in AllLanes : NBlk(l)' = NBlk(l) /\ KeyLen(l)' = KeyLen(l)
  BY <1>1, SameCall
<1>3. /\ StillIn \subseteq Valid(key) /\ Valid(key) \subseteq AllLanes /\ i \in Nat
      /\ \A l \in AllLanes : l \in StillIn <=> (i < NBlk(l) /\ l \in lanes)
      /\ \A l \in AllLanes : key[l] \in Nat /\ seed[l] \in Nat
  BY <1>1 DEF StillIn, CallTypes, Valid
<1>4. \A l \in AllLanes : NBlk(l) \in Nat /\ KeyLen(l) \in Nat /\ NBlk(l) * WordLen <= KeyLen(l)
  BY <1>1, Lengths
<1>5. CallTypes'
  BY <1>1, <1>2, <1>3 DEF CallTypes, Block
<1>6. Reads'
  <2>1. SUFFICES ASSUME NEW l \in AllLanes, NEW x \in got'[l]
                 PROVE  l \in Valid(key) /\ x \in key[l] .. key[l] + KeyLen(l) - 1
    BY <1>1, <1>2 DEF Reads
  <2>2. CASE x \in got[l]
    BY <1>1, <2>2 DEF Reads
  <2>3. CASE x \notin got[l]
    <3>1. l \in StillIn /\ x \in Bytes(l, i * WordLen, WordLen)
      BY <2>1, <2>3 DEF Block
    <3>2. i * WordLen \in Nat /\ WordLen \in Nat
      BY <1>3
    <3>3. x \in key[l] + i * WordLen .. key[l] + i * WordLen + WordLen - 1
      BY <1>3, <3>1, <3>2, Interval
    <3>4. i < NBlk(l)
      BY <1>3, <3>1
    <3>5. i * WordLen + WordLen <= NBlk(l) * WordLen
      <4>1. PICK w \in Nat, b \in Nat : w = WordLen /\ b = NBlk(l)
        BY <1>4
      <4>2. i + 1 <= b /\ i \in Nat
        BY <1>3, <3>4, <4>1
      <4>3. (i + 1) * w <= b * w /\ (i + 1) * w = i * w + w
        BY <4>2
      <4>4. QED
        BY <4>1, <4>3
    <3>6. NBlk(l) * WordLen \in Nat /\ KeyLen(l) \in Nat /\ NBlk(l) * WordLen <= KeyLen(l)
      BY <1>4
    <3>7. key[l] \in Nat
      BY <1>3
    <3>8. x \in key[l] .. key[l] + KeyLen(l) - 1
      BY <3>2, <3>3, <3>5, <3>6, <3>7
    <3>9. QED
      BY <1>3, <3>1, <3>8
  <2>4. QED
    BY <2>2, <2>3
<1>7. \A l \in Valid(key) : /\ accum'[l] = Prefix(key[l], seed[l], Mixed_in(l)')
                            /\ l \notin lanes' => NBlk(l) <= i'
  <2>1. SUFFICES ASSUME NEW l \in Valid(key)
                 PROVE  /\ accum'[l] = Prefix(key[l], seed[l], Mixed_in(l)')
                        /\ l \notin lanes' => NBlk(l) <= i'
    OBVIOUS
  <2>2. l \in AllLanes /\ i' = i + 1 /\ lanes' = StillIn /\ stage = "blocks"
    BY <1>3 DEF Block
  <2>3. accum[l] = Prefix(key[l], seed[l], Mixed_in(l)) /\ (l \notin lanes => NBlk(l) <= i)
    BY <1>1, <2>2 DEF Mixes
  <2>4. Mixed_in(l)' = IF i + 1 < NBlk(l) THEN i + 1 ELSE NBlk(l)
    BY <1>2, <2>2 DEF Mixed_in
  <2>5. CASE l \in StillIn
    <3>1. accum'[l] = Append(accum[l], <<"block", Word(key[l] + i * WordLen, WordLen)>>)
      BY <2>2, <2>5 DEF Block, Mixed, Mux, Gathered
    <3>2. i < NBlk(l) /\ NBlk(l) \in Nat
      BY <1>3, <1>4, <2>2, <2>5
    <3>3. Mixed_in(l) = i /\ Mixed_in(l)' = i + 1
      BY <1>3, <2>4, <3>2 DEF Mixed_in
    <3>4. Append(Prefix(key[l], seed[l], i), BlockOf(key[l], i)) = Prefix(key[l], seed[l], i + 1)
      BY <1>3, <2>2, PrefixGrows
    <3>5. QED
      BY <2>2, <2>3, <2>5, <3>1, <3>3, <3>4 DEF BlockOf
  <2>6. CASE l \notin StillIn
    <3>1. accum'[l] = accum[l]
      BY <2>2, <2>6 DEF Block, Mixed, Mux
    <3>2. ~(i < NBlk(l)) \/ l \notin lanes
      BY <1>3, <2>2, <2>6
    <3>3. i \in Nat /\ NBlk(l) \in Nat
      BY <1>3, <1>4, <2>2
    <3>4. NBlk(l) <= i
      BY <2>3, <3>2, <3>3
    <3>5. Mixed_in(l) = NBlk(l) /\ Mixed_in(l)' = NBlk(l) /\ NBlk(l) <= i + 1
      BY <2>4, <3>3, <3>4 DEF Mixed_in
    <3>6. QED
      BY <2>2, <2>3, <3>1, <3>5
  <2>7. QED
    BY <2>5, <2>6
<1>8. Mixes'
  <2>1. stage' = "blocks" /\ key' = key /\ seed' = seed
    BY DEF Block
  <2>2. QED
    BY <1>2, <1>3, <1>7, <2>1 DEF Mixes
<1>9. QED
  BY <1>5, <1>6, <1>8 DEF CallInv

(***************************************************************************)
(* The end of the block loop: no lane with a key is short of its blocks.   *)
(***************************************************************************)
LEMMA EndBlocksKept ==
  ASSUME CallInv, EndBlocks
  PROVE  CallInv'
<1>1. CallTypes /\ Reads /\ Mixes /\ UNCHANGED <<fn, key, size, seed, got, accum, i>>
  BY DEF CallInv, EndBlocks
<1>2. /\ Valid(key') = Valid(key) /\ Valid(key)' = Valid(key)
      /\ \A l \in AllLanes : NBlk(l)' = NBlk(l) /\ KeyLen(l)' = KeyLen(l) /\ Rem(l)' = Rem(l)
  BY <1>1, SameCall
<1>3. Valid(key) \subseteq AllLanes /\ i \in Nat
  BY <1>1 DEF CallTypes, Valid
<1>4. \A l \in AllLanes : /\ NBlk(l) \in Nat /\ NBlk(l) = KeyLen(l) \div WordLen
                          /\ fn = "notail" => KeyLen(l) % WordLen = 0
  BY <1>1, Lengths
<1>5. CallTypes'
  BY <1>1, <1>2 DEF CallTypes, EndBlocks, StillIn
<1>6. Reads'
  BY <1>1, <1>2 DEF Reads
<1>7. \A l \in Valid(key) : accum[l] = Prefix(key[l], seed[l], NBlk(l))
  <2>1. SUFFICES ASSUME NEW l \in Valid(key)
                 PROVE  accum[l] = Prefix(key[l], seed[l], NBlk(l))
    OBVIOUS
  <2>2. accum[l] = Prefix(key[l], seed[l], Mixed_in(l)) /\ (l \notin lanes => NBlk(l) <= i)
    BY <1>1 DEF Mixes, EndBlocks
  <2>3. l \in AllLanes /\ l \notin StillIn
    BY <1>3 DEF EndBlocks
  <2>4. i \in Nat /\ NBlk(l) \in Nat
    BY <1>3, <1>4, <2>3
  <2>5. NBlk(l) <= i
    BY <2>2, <2>3, <2>4 DEF StillIn
  <2>6. Mixed_in(l) = NBlk(l)
    BY <2>4, <2>5 DEF Mixed_in
  <2>7. QED
    BY <2>2, <2>6
<1>8. CASE fn = "full"
  <2>1. stage' = "tail" /\ lanes' = {l \in Valid(key) : Rem(l) > 0}
    BY <1>3, <1>8 DEF EndBlocks
  <2>2. Mixes'
    BY <1>1, <1>2, <1>3, <1>7, <1>8, <2>1 DEF Mixes
  <2>3. QED
    BY <1>5, <1>6, <2>2 DEF CallInv
<1>9. CASE fn = "notail"
  <2>1. stage' = "end"
    BY <1>9 DEF EndBlocks
  <2>2. \A l \in Valid(key) : accum[l] = WithTail(key[l], seed[l], KeyLen(l))
    BY <1>3, <1>4, <1>7, <1>9 DEF WithTail
  <2>3. Mixes'
    BY <1>1, <1>2, <1>3, <2>1, <2>2 DEF Mixes
  <2>4. QED
    BY <1>5, <1>6, <2>3 DEF CallInv
<1>10. QED
  BY <1>1, <1>8, <1>9 DEF CallTypes

(***************************************************************************)
(* The tail, mixed into the lanes that have one.                           *)
(***************************************************************************)
LEMMA MixTailKept ==
  ASSUME CallInv, MixTail
  PROVE  CallInv'
<1>1. CallTypes /\ Reads /\ Mixes /\ UNCHANGED <<fn, key, size, seed, i, lanes>>
  BY DEF CallInv, MixTail
<1>2. /\ Valid(key') = Valid(key) /\ Valid(key)' = Valid(key)
      /\ \A l \in AllLanes : NBlk(l)' = NBlk(l) /\ KeyLen(l)' = KeyLen(l) /\ Rem(l)' = Rem(l)
  BY <1>1, SameCall
<1>3. Valid(key) \subseteq AllLanes /\ \A l \in AllLanes : key[l] \in Nat /\ seed[l] \in Nat
  BY <1>1 DEF CallTypes, Valid
<1>4. /\ fn = "full" /\ lanes = {l \in Valid(key) : Rem(l) > 0}
      /\ \A l \in Valid(key) : accum[l] = Prefix(key[l], seed[l], NBlk(l))
  BY <1>1 DEF Mixes, MixTail
<1>5. \A l \in AllLanes : /\ NBlk(l) \in Nat /\ Rem(l) \in Nat
                          /\ NBlk(l) = KeyLen(l) \div WordLen
                          /\ Rem(l) = KeyLen(l) % WordLen
                          /\ NBlk(l) * WordLen + Rem(l) = KeyLen(l)
  BY <1>1, <1>4, Lengths
<1>6. CallTypes'
  BY <1>1, <1>2 DEF CallTypes, MixTail
<1>7. Reads'
  <2>1. SUFFICES ASSUME NEW l \in AllLanes, NEW x \in got'[l]
                 PROVE  l \in Valid(key) /\ x \in key[l] .. key[l] + KeyLen(l) - 1
    BY <1>1, <1>2 DEF Reads
  <2>2. CASE x \in got[l]
    BY <1>1, <2>2 DEF Reads
  <2>3. CASE x \notin got[l]
    <3>1. l \in lanes /\ x \in Bytes(l, NBlk(l) * WordLen, Rem(l))
      BY <2>1, <2>3 DEF MixTail
    <3>2. NBlk(l) * WordLen \in Nat /\ Rem(l) \in Nat /\ key[l] \in Nat
      BY <1>3, <1>5
    <3>3. x \in key[l] + NBlk(l) * WordLen .. key[l] + NBlk(l) * WordLen + Rem(l) - 1
      BY <3>1, <3>2, Interval
    <3>4. x \in key[l] .. key[l] + KeyLen(l) - 1
      <4>1. NBlk(l) * WordLen + Rem(l) = KeyLen(l)
        BY <1>5
      <4>2. QED
        BY <3>2, <3>3, <4>1
    <3>5. QED
      BY <1>4, <3>1, <3>4
  <2>4. QED
    BY <2>2, <2>3
<1>8. \A l \in Valid(key) : accum'[l] = WithTail(key[l], seed[l], KeyLen(l))
  <2>1. SUFFICES ASSUME NEW l \in Valid(key)
                 PROVE  accum'[l] = WithTail(key[l], seed[l], KeyLen(l))
    OBVIOUS
  <2>2. l \in AllLanes
    BY <1>3
  <2>3. PICK t : t = <<"tail", Word(key[l] + NBlk(l) * WordLen, Rem(l))>>
    OBVIOUS
  <2>4. t # <<>>
    BY <2>3
  <2>5. accum'[l] = IF l \in lanes THEN Append(accum[l], t) ELSE accum[l]
    BY <2>2, <2>3, <2>4 DEF MixTail, Mux, Each
  <2>6. l \in lanes <=> KeyLen(l) % WordLen > 0
    BY <1>4, <1>5, <2>2
  <2>7. t = <<"tail", Word(key[l] + (KeyLen(l) \div WordLen) * WordLen, KeyLen(l) % WordLen)>>
    BY <1>5, <2>2, <2>3
  <2>8. accum[l] = Prefix(key[l], seed[l], KeyLen(l) \div WordLen)
    BY <1>4, <1>5, <2>2
  <2>9. QED
    BY <2>5, <2>6, <2>7, <2>8 DEF WithTail
<1>9. Mixes'
  <2>1. stage' = "end" /\ key' = key /\ seed' = seed
    BY DEF MixTail
  <2>2. QED
    BY <1>2, <1>3, <1>8, <2>1 DEF Mixes
<1>10. QED
  BY <1>6, <1>7, <1>9 DEF CallInv

(***************************************************************************)
(* The end of a call: each lane with a key has the scalar hash of it.      *)
(***************************************************************************)
LEMMA EndKept ==
  ASSUME CallInv, End
  PROVE  CallInv' /\ \A l \in Valid(key) : accum'[l] = Scalar(key[l], KeyLen(l), seed[l])
<1>1. CallTypes /\ Reads /\ Mixes /\ UNCHANGED <<fn, key, size, seed, i, lanes, got>>
  BY DEF CallInv, End
<1>2. /\ Valid(key') = Valid(key) /\ Valid(key)' = Valid(key)
      /\ \A l \in AllLanes : KeyLen(l)' = KeyLen(l)
  BY <1>1, SameCall
<1>3. Valid(key) \subseteq AllLanes /\ \A l \in AllLanes : key[l] \in Nat /\ seed[l] \in Nat
  BY <1>1 DEF CallTypes, Valid
<1>4. \A l \in AllLanes : KeyLen(l) \in Nat
  BY <1>1, Lengths
<1>5. \A l \in Valid(key) : accum'[l] = Scalar(key[l], KeyLen(l), seed[l])
  <2>1. SUFFICES ASSUME NEW l \in Valid(key)
                 PROVE  accum'[l] = Scalar(key[l], KeyLen(l), seed[l])
    OBVIOUS
  <2>2. accum'[l] = Append(accum[l], <<"len", KeyLen(l)>>)
    BY <1>3 DEF End
  <2>3. accum[l] = WithTail(key[l], seed[l], KeyLen(l))
    BY <1>1 DEF Mixes, End
  <2>4. l \in AllLanes /\ key[l] \in Nat /\ seed[l] \in Nat /\ KeyLen(l) \in Nat
    BY <1>3, <1>4
  <2>5. Scalar(key[l], KeyLen(l), seed[l])
          = Append(WithTail(key[l], seed[l], KeyLen(l)), <<"len", KeyLen(l)>>)
    BY <2>4, ScalarForm
  <2>6. QED
    BY <2>2, <2>3, <2>5
<1>6. CallTypes' /\ Reads'
  BY <1>1, <1>2 DEF CallTypes, Reads, End
<1>7. Mixes'
  <2>1. stage' = "done" /\ key' = key /\ seed' = seed
    BY DEF End
  <2>2. QED
    BY <1>2, <1>3, <1>5, <2>1 DEF Mixes
<1>8. QED
  BY <1>5, <1>6, <1>7 DEF CallInv

------------------------------------------------------------------------------
(* The callers                                                              *)

\* The parameters and the keys of the benchmark.
Params ==
  /\ par \in Nat \X Nat \X Nat /\ 0 < Min(par) /\ Min(par) <= Max(par)
  /\ klen \in [Keys(par) -> Min(par) .. Max(par)]

\* The lanes hold the keys of call number c.
HeldBy(c) ==
  \A l \in AllLanes : /\ key[l] = Dseg + (c * NL + l) * WordLen * Max(par)
                      /\ size[l] = klen[c * NL + l]
                      /\ seed[l] = l * 42

Testing == who = "test" => tp \in Tests /\ res = <<>>

Running ==
  who = "bench" =>
    /\ Params /\ n <= par[3] /\ DOMAIN res = Keys(par)
    /\ stage \in {"idle", "blocks", "end", "done"}
    /\ stage = "idle" => n = 0 /\ got = Each({})
    /\ stage # "idle" => fn = "notail"
    /\ stage \in {"blocks", "end"} => n < par[3] /\ HeldBy(n)
    /\ stage = "done" => 0 < n /\ HeldBy(n - 1)

Results ==
  res # <<>> =>
    /\ Params /\ n <= par[3]
    /\ \A k \in 0 .. n * NL - 1 :
         res[k] = Scalar(Dseg + k * WordLen * Max(par), klen[k] * WordLen, (k % NL) * 42)

CallerInv == who \in {"test", "bench", "done"} /\ n \in Nat /\ Testing /\ Running /\ Results

IInv == CallInv /\ CallerInv

(***************************************************************************)
(* From the keys of one call to those of the next.                         *)
(***************************************************************************)
LEMMA NextKeys ==
  ASSUME NEW d \in Nat, NEW c \in Nat, NEW l \in Nat, NEW w \in Nat, NEW x \in Nat,
         NEW nl \in Nat
  PROVE  /\ d + (c * nl + l) * w * x + w * x * nl = d + ((c + 1) * nl + l) * w * x
         /\ d + l * w * x = d + (0 * nl + l) * w * x
         /\ d + (c * nl + l) * w * x \in Nat
<1>1. (c * nl + l) * w * x + w * x * nl = ((c + 1) * nl + l) * w * x
  OBVIOUS
<1>2. (c * nl + l) * w * x \in Nat /\ w * x * nl \in Nat
  <2>1. c * nl + l \in Nat
    OBVIOUS
  <2>2. (c * nl + l) * w \in Nat
    BY <2>1
  <2>3. w * x \in Nat
    OBVIOUS
  <2>4. QED
    BY <2>2, <2>3
<1>3. 0 * nl + l = l
  OBVIOUS
<1>4. QED
  BY <1>1, <1>2, <1>3

(***************************************************************************)
(* A key of a benchmark ends inside its segment.                           *)
(***************************************************************************)
LEMMA KeyFits ==
  ASSUME NEW k \in Nat, NEW z \in Nat, NEW w \in Nat, NEW x \in Nat, NEW y \in Nat,
         z <= x, k < y
  PROVE  k * w * x + z * w <= y * x * w
<1>1. z * w <= x * w
  OBVIOUS
<1>2. (k + 1) * (x * w) <= y * (x * w)
  <2>1. PICK u \in Nat : u = x * w
    OBVIOUS
  <2>2. (k + 1) * u <= y * u
    OBVIOUS
  <2>3. QED
    BY <2>1, <2>2
<1>3. k * w * x + x * w = (k + 1) * (x * w) /\ y * x * w = y * (x * w)
  OBVIOUS
<1>4. k * w * x \in Nat /\ z * w \in Nat /\ x * w \in Nat
  <2>1. k * w \in Nat
    OBVIOUS
  <2>2. QED
    BY <2>1
<1>5. QED
  BY <1>1, <1>2, <1>3, <1>4

(***************************************************************************)
(* The numbers of the keys of a call.                                      *)
(***************************************************************************)
LEMMA KeyNumbers ==
  ASSUME Params, NEW c \in Nat, c < par[3], NEW l \in AllLanes
  PROVE  /\ c * NL + l \in Keys(par) /\ c * NL + l < par[3] * NL
         /\ klen[c * NL + l] \in Nat /\ klen[c * NL + l] <= Max(par)
         /\ Max(par) \in Nat /\ par[3] \in Nat
<1>1. par[3] \in Nat /\ Max(par) \in Nat /\ Min(par) \in Nat
  BY DEF Params, Max, Min
<1>2. l \in Nat /\ l < NL
  BY DEF AllLanes, LaneIds
<1>3. (c + 1) * NL <= par[3] * NL /\ (c + 1) * NL = c * NL + NL /\ c * NL \in Nat
  <2>1. PICK p \in Nat, m \in Nat : p = par[3] /\ m = NL
    BY <1>1
  <2>2. (c + 1) * m <= p * m /\ (c + 1) * m = c * m + m /\ c * m \in Nat
    BY <2>1
  <2>3. QED
    BY <2>1, <2>2
<1>4. par[3] * NL \in Nat
  BY <1>1
<1>5. c * NL + l \in Nat /\ c * NL + l < par[3] * NL
  BY <1>2, <1>3, <1>4
<1>6. c * NL + l \in Keys(par)
  BY <1>4, <1>5 DEF Keys
<1>7. klen[c * NL + l] \in Min(par) .. Max(par)
  BY <1>6 DEF Params
<1>8. QED
  BY <1>1, <1>5, <1>6, <1>7

(***************************************************************************)
(* IInv holds at the start.                                                *)
(***************************************************************************)
LEMMA InitIInv == Init => IInv
<1> SUFFICES ASSUME Init PROVE IInv
  OBVIOUS
<1>1. CallInit /\ n = 0
  BY DEF Init
<1>2. CallInv
  BY <1>1 DEF CallInit, CallInv, CallTypes, Reads, Mixes, Each
<1>3. ASSUME who = "test" /\ tp \in Tests /\ res = <<>> PROVE CallerInv
  BY <1>1, <1>3 DEF CallerInv, Testing, Running, Results
<1>4. ASSUME who = "bench" /\ par \in Sizes /\ klen \in [Keys(par) -> Min(par) .. Max(par)]
             /\ res = [k \in Keys(par) |-> <<>>]
      PROVE  CallerInv
  <2>1. Params
    BY <1>4, CallerAssumption DEF Params, Min, Max
  <2>2. n <= par[3] /\ 0 .. n * NL - 1 = {}
    BY <1>1, <2>1 DEF Params
  <2>3. stage = "idle" /\ got = Each({}) /\ DOMAIN res = Keys(par)
    BY <1>1, <1>4 DEF CallInit
  <2>4. QED
    BY <1>1, <1>4, <2>1, <2>2, <2>3 DEF CallerInv, Testing, Running, Results
<1>5. QED
  <2>1. CallerInv
    BY <1>3, <1>4 DEF Init
  <2>2. QED
    BY <1>2, <2>1 DEF IInv

(***************************************************************************)
(* A step outside a call leaves what is known of it.                       *)
(***************************************************************************)
LEMMA CallKept ==
  ASSUME CallInv, UNCHANGED call
  PROVE  CallInv'
BY DEF call, CallInv, CallTypes, Reads, Mixes, Mixed_in, Valid, NBlk, KeyLen, Rem

(***************************************************************************)
(* The results are kept while nothing of the benchmark changes.            *)
(***************************************************************************)
LEMMA ResultsKept ==
  ASSUME Results, UNCHANGED <<par, klen, res, n>>
  PROVE  Results'
BY DEF Results, Params, Max, Min, Keys

(***************************************************************************)
(* The steps of the unit test.                                             *)
(***************************************************************************)
LEMMA TestKept ==
  ASSUME IInv, TestFull \/ TestNoTail \/ TestEnds
  PROVE  IInv'
<1>1. /\ CallInv /\ CallTypes /\ who = "test" /\ tp \in Tests /\ res = <<>> /\ n \in Nat
      /\ Results
  BY DEF IInv, CallInv, CallerInv, Testing, TestFull, TestNoTail, TestEnds
<1>2. \A l \in AllLanes : tp[l].ptr \in Nat /\ tp[l].len \in Nat /\ tp[l].len \div WordLen \in Nat
  <2>1. tp \in [AllLanes -> [ptr : Nat, len : Nat]]
    BY <1>1, CallerAssumption
  <2>2. QED
    BY <2>1, LaneAssumption
<1>3. TestSeed \in [AllLanes -> Nat]
  <2>1. \A l \in AllLanes : 42 + l \in Nat
    BY DEF AllLanes, LaneIds
  <2>2. QED
    BY <2>1 DEF TestSeed
<1>4. CASE TestFull
  <2>1. PICK k \in [AllLanes -> Nat] : k = [l \in AllLanes |-> tp[l].ptr]
    BY <1>2
  <2>2. TestLen \in [AllLanes -> Nat]
    BY <1>2 DEF TestLen
  <2>3. Call("full", k, TestLen, TestSeed)
    BY <1>4, <2>1 DEF TestFull
  <2>4. CallInv'
    BY <1>3, <2>2, <2>3, CallStarts
  <2>5. CallerInv'
    BY <1>1, <1>4, ResultsKept DEF TestFull, CallerInv, Testing, Running
  <2>6. QED
    BY <2>4, <2>5 DEF IInv
<1>5. CASE TestNoTail
  <2> DEFINE m2 == Valid(key) \cap {l \in AllLanes : tp[l].len % WordLen = 0}
  <2>1. PICK k \in [AllLanes -> Nat] : k = Retain(key, m2)
    <3>1. key \in [AllLanes -> Nat]
      BY <1>1 DEF CallTypes
    <3>2. Retain(key, m2) \in [AllLanes -> Nat]
      BY <3>1 DEF Retain, MaskToVec
    <3>3. QED
      BY <3>2
  <2>2. PICK z \in [AllLanes -> Nat] : z = [l \in AllLanes |-> tp[l].len \div WordLen]
    BY <1>2
  <2>3. Call("notail", k, z, TestSeed)
    BY <1>5, <2>1, <2>2 DEF TestNoTail
  <2>4. CallInv'
    BY <1>3, <2>3, CallStarts
  <2>5. CallerInv'
    BY <1>1, <1>5 DEF TestNoTail, CallerInv, Testing, Running, Results
  <2>6. QED
    BY <2>4, <2>5 DEF IInv
<1>6. CASE TestEnds
  <2>1. CallInv'
    BY <1>1, <1>6, CallKept DEF TestEnds
  <2>2. CallerInv'
    BY <1>1, <1>6, ResultsKept DEF TestEnds, CallerInv, Testing, Running
  <2>3. QED
    BY <2>1, <2>2 DEF IInv
<1>7. QED
  BY <1>4, <1>5, <1>6

(***************************************************************************)
(* The benchmark starts a call.                                            *)
(***************************************************************************)
LEMMA BenchCallKept ==
  ASSUME IInv, BenchCall
  PROVE  IInv'
<1> DEFINE ptrs == IF n = 0 THEN [l \in AllLanes |-> Dseg + l * WordLen * Max(par)]
                            ELSE [l \in AllLanes |-> key[l] + Inc]
           lens == [l \in AllLanes |-> klen[n * NL + l]]
<1>1. /\ CallInv /\ Results /\ Params /\ n \in Nat /\ n < par[3] /\ who = "bench"
      /\ stage = "idle" => n = 0
      /\ stage = "done" => 0 < n /\ HeldBy(n - 1)
      /\ stage \in {"idle", "done"} /\ DOMAIN res = Keys(par)
  BY DEF IInv, CallerInv, Running, BenchCall
<1>2. Call("notail", ptrs, lens, BenchSeed) /\ UNCHANGED <<who, tp, par, klen, res, n>>
  BY DEF BenchCall
<1>3. Max(par) \in Nat /\ Dseg \in Nat /\ WordLen \in Nat /\ NL \in Nat
  BY <1>1, CallerAssumption DEF Params, Max, Min
<1>4. \A l \in AllLanes : ptrs[l] = Dseg + (n * NL + l) * WordLen * Max(par) /\ ptrs[l] \in Nat
  <2>1. SUFFICES ASSUME NEW l \in AllLanes
                 PROVE  /\ ptrs[l] = Dseg + (n * NL + l) * WordLen * Max(par)
                        /\ ptrs[l] \in Nat
    OBVIOUS
  <2>2. l \in Nat
    BY DEF AllLanes, LaneIds
  <2>3. Dseg + (n * NL + l) * WordLen * Max(par) \in Nat
    BY <1>1, <1>3, <2>2, NextKeys
  <2>4. CASE n = 0
    <3>1. Dseg + l * WordLen * Max(par) = Dseg + (0 * NL + l) * WordLen * Max(par)
      BY <1>3, <2>2, NextKeys
    <3>2. QED
      BY <2>3, <2>4, <3>1
  <2>5. CASE n # 0
    <3>1. key[l] = Dseg + ((n - 1) * NL + l) * WordLen * Max(par)
      BY <1>1, <2>5 DEF HeldBy
    <3>2. PICK c \in Nat : c = n - 1 /\ c + 1 = n
      BY <1>1, <2>5
    <3>3. Dseg + (c * NL + l) * WordLen * Max(par) + WordLen * Max(par) * NL
            = Dseg + ((c + 1) * NL + l) * WordLen * Max(par)
      BY <1>3, <2>2, NextKeys
    <3>4. ptrs[l] = key[l] + WordLen * Max(par) * NL
      BY <2>5 DEF Inc
    <3>5. QED
      BY <2>3, <3>1, <3>2, <3>3, <3>4
  <2>6. QED
    BY <2>4, <2>5
<1>5. \A l \in AllLanes : klen[n * NL + l] \in Nat
  BY <1>1, KeyNumbers
<1>6. \A l \in AllLanes : l * 42 \in Nat
  BY DEF AllLanes, LaneIds
<1>7. /\ ptrs \in [AllLanes -> Nat] /\ lens \in [AllLanes -> Nat]
      /\ BenchSeed \in [AllLanes -> Nat]
  <2>1. ptrs = [l \in AllLanes |-> ptrs[l]]
    OBVIOUS
  <2>2. lens \in [AllLanes -> Nat] /\ BenchSeed \in [AllLanes -> Nat]
    BY <1>5, <1>6 DEF BenchSeed
  <2> HIDE DEF ptrs
  <2>3. QED
    BY <1>4, <2>1, <2>2
<1>8. HeldBy(n)'
  <2> HIDE DEF ptrs
  <2>1. key' = ptrs /\ size' = lens /\ seed' = BenchSeed
    BY <1>2 DEF Call
  <2>2. Max(par)' = Max(par)
    BY <1>2 DEF Max
  <2>3. QED
    BY <1>2, <1>4, <2>1, <2>2 DEF HeldBy, BenchSeed
<1> HIDE DEF ptrs, lens
<1>9. CallInv'
  BY <1>2, <1>7, CallStarts
<1>10. Results'
  BY <1>1, <1>2, ResultsKept
<1>11. Running'
  <2>1. stage' = "blocks" /\ fn' = "notail"
    BY <1>2 DEF Call
  <2>2. Params' /\ Keys(par)' = Keys(par)
    BY <1>1, <1>2 DEF Params, Min, Max, Keys
  <2>3. QED
    BY <1>1, <1>2, <1>8, <2>1, <2>2 DEF Running, Params
<1>12. QED
  BY <1>1, <1>2, <1>9, <1>10, <1>11 DEF IInv, CallerInv, Testing

(***************************************************************************)
(* A call of the benchmark returns, and its hashes go to their places.     *)
(***************************************************************************)
LEMMA BenchReturnKept ==
  ASSUME IInv, BenchReturn
  PROVE  IInv'
<1>1. /\ CallInv /\ Results /\ Params /\ n \in Nat /\ n < par[3] /\ who = "bench"
      /\ fn = "notail" /\ HeldBy(n) /\ End /\ DOMAIN res = Keys(par)
  BY DEF IInv, CallerInv, Running, BenchReturn, End
<1>2. /\ UNCHANGED <<who, tp, par, klen, fn, key, size, seed, got>> /\ stage' = "done"
      /\ n' = n + 1
      /\ res' = [k \in Keys(par) |-> IF k \div NL = n THEN accum'[k % NL] ELSE res[k]]
  BY DEF BenchReturn, End
<1>3. CallInv' /\ \A l \in Valid(key) : accum'[l] = Scalar(key[l], KeyLen(l), seed[l])
  BY <1>1, EndKept
<1>4. /\ Max(par) \in Nat /\ Dseg \in Nat /\ Dseg > 0 /\ WordLen \in Nat /\ NL \in Nat \ {0}
      /\ par[3] \in Nat
  BY <1>1, CallerAssumption DEF Params, Max, Min
<1>5. Params' /\ Max(par)' = Max(par) /\ DOMAIN res' = Keys(par)'
  BY <1>1, <1>2 DEF Params, Min, Max, Keys
<1>6. n' - 1 = n /\ n' \in Nat /\ 0 < n' /\ n' <= par'[3]
  <2>1. par'[3] = par[3]
    BY <1>2
  <2>2. QED
    BY <1>1, <1>2, <1>4, <2>1
<1>7. \A l \in AllLanes : /\ key'[l] = Dseg + ((n' - 1) * NL + l) * WordLen * Max(par)'
                          /\ size'[l] = klen'[(n' - 1) * NL + l]
                          /\ seed'[l] = l * 42
  BY <1>1, <1>2, <1>5, <1>6 DEF HeldBy
<1>8. Running'
  <2>1. HeldBy(n - 1)'
    BY <1>7 DEF HeldBy
  <2>2. QED
    BY <1>1, <1>2, <1>5, <1>6, <2>1 DEF Running
<1>9. ASSUME NEW k \in 0 .. (n + 1) * NL - 1
      PROVE  res'[k] = Scalar(Dseg + k * WordLen * Max(par), klen[k] * WordLen, (k % NL) * 42)
  <2>1. PICK m \in Nat : m = NL /\ m > 0
    BY <1>4
  <2>2. (n + 1) * m = n * m + m /\ n * m \in Nat /\ (n + 1) * m <= par[3] * m
    <3>1. PICK p \in Nat : p = par[3]
      BY <1>4
    <3>2. n + 1 <= p
      BY <1>1, <3>1
    <3>3. (n + 1) * m <= p * m
      BY <1>1, <3>2
    <3>4. QED
      BY <1>1, <3>1, <3>3
  <2>3. k \in Nat /\ k < n * m + m
    BY <1>9, <2>1, <2>2
  <2>4. k \in Keys(par)
    <3>1. par[3] * m \in Nat
      BY <1>4
    <3>2. QED
      BY <2>1, <2>2, <2>3, <3>1 DEF Keys
  <2>5. res'[k] = IF k \div NL = n THEN accum'[k % NL] ELSE res[k]
    BY <1>2, <2>4
  <2>6. k \div m \in Nat /\ k % m \in 0 .. m - 1 /\ k = (k \div m) * m + (k % m)
    BY <2>1, <2>3
  <2>7. CASE k \div m = n
    <3>1. PICK l \in AllLanes : l = k % m
      BY <2>1, <2>6 DEF AllLanes, LaneIds
    <3>2. k = n * NL + l
      BY <2>1, <2>6, <2>7, <3>1
    <3>3. key[l] = Dseg + k * WordLen * Max(par) /\ size[l] = klen[k] /\ seed[l] = l * 42
      BY <1>1, <3>2 DEF HeldBy
    <3>4. k * WordLen * Max(par) \in Nat
      <4>1. k * WordLen \in Nat
        BY <1>4, <2>3
      <4>2. QED
        BY <1>4, <4>1
    <3>5. l \in Valid(key)
      BY <1>4, <3>3, <3>4 DEF Valid, ValidPtr
    <3>6. KeyLen(l) = klen[k] * WordLen
      BY <1>1, <3>3 DEF KeyLen
    <3>7. accum'[l] = Scalar(key[l], KeyLen(l), seed[l])
      BY <1>3, <3>5
    <3>8. QED
      BY <2>1, <2>5, <2>7, <3>1, <3>3, <3>6, <3>7
  <2>8. CASE k \div m # n
    <3>1. k < n * m
      <4>1. PICK q \in Nat : q = k \div m
        BY <2>6
      <4>2. q * m <= k /\ k < q * m + m
        BY <2>1, <2>3, <2>6, <4>1
      <4>3. ~(q > n)
        <5>1. SUFFICES ASSUME q > n PROVE FALSE
          OBVIOUS
        <5>2. (n + 1) * m <= q * m
          BY <1>1, <5>1
        <5>3. QED
          BY <2>1, <2>2, <2>3, <4>2, <5>2
      <4>4. q + 1 <= n
        BY <1>1, <2>8, <4>1, <4>3
      <4>5. (q + 1) * m <= n * m /\ (q + 1) * m = q * m + m
        BY <1>1, <4>4
      <4>6. QED
        BY <2>2, <2>3, <4>2, <4>5
    <3>2. res # <<>>
      <4>1. DOMAIN res # {}
        BY <1>1, <2>4
      <4>2. QED
        BY <4>1
    <3>3. k \in 0 .. n * NL - 1
      BY <2>1, <2>2, <2>3, <3>1
    <3>4. res[k] = Scalar(Dseg + k * WordLen * Max(par), klen[k] * WordLen, (k % NL) * 42)
      BY <1>1, <3>2, <3>3 DEF Results
    <3>5. QED
      BY <2>1, <2>5, <2>8, <3>4
  <2>9. QED
    BY <2>7, <2>8
<1>10. Results'
  BY <1>2, <1>5, <1>6, <1>9 DEF Results
<1>11. QED
  BY <1>1, <1>2, <1>3, <1>6, <1>8, <1>10 DEF IInv, CallerInv, Testing

(***************************************************************************)
(* A step inside a call.                                                   *)
(***************************************************************************)
LEMMA InsideKept ==
  ASSUME IInv, Inside
  PROVE  IInv'
<1>1. /\ CallInv /\ CallerInv /\ Testing /\ Running /\ Results
      /\ UNCHANGED <<who, tp, par, klen, res, n>>
  BY DEF IInv, CallerInv, Inside
<1>2. Results' /\ Testing'
  BY <1>1, ResultsKept DEF Testing
<1>3. CASE Block
  <2>1. CallInv'
    BY <1>1, <1>3, BlockKept
  <2>2. Running'
    BY <1>1, <1>3 DEF Block, Running, HeldBy, Params, Min, Max, Keys
  <2>3. QED
    BY <1>1, <1>2, <2>1, <2>2 DEF IInv, CallerInv
<1>4. CASE EndBlocks
  <2>1. CallInv'
    BY <1>1, <1>4, EndBlocksKept
  <2>2. Running'
    BY <1>1, <1>4 DEF EndBlocks, Running, HeldBy, Params, Min, Max, Keys
  <2>3. QED
    BY <1>1, <1>2, <2>1, <2>2 DEF IInv, CallerInv
<1>5. CASE MixTail
  <2>1. CallInv'
    BY <1>1, <1>5, MixTailKept
  <2>2. Running'
    BY <1>1, <1>5 DEF MixTail, Running
  <2>3. QED
    BY <1>1, <1>2, <2>1, <2>2 DEF IInv, CallerInv
<1>6. CASE who = "test" /\ End
  <2>1. CallInv'
    BY <1>1, <1>6, EndKept
  <2>2. Running'
    BY <1>1, <1>6 DEF Running
  <2>3. QED
    BY <1>1, <1>2, <2>1, <2>2 DEF IInv, CallerInv
<1>7. QED
  BY <1>3, <1>4, <1>5, <1>6 DEF Inside

(***************************************************************************)
(* Every step keeps IInv.                                                  *)
(***************************************************************************)
LEMMA NextIInv == IInv /\ [Next]_vars => IInv'
<1> SUFFICES ASSUME IInv, [Next]_vars PROVE IInv'
  OBVIOUS
<1>1. CallInv /\ CallerInv /\ Testing /\ Running /\ Results
  BY DEF IInv, CallerInv
<1>2. CASE TestFull \/ TestNoTail \/ TestEnds
  BY <1>2, TestKept
<1>3. CASE BenchCall
  BY <1>3, BenchCallKept
<1>4. CASE BenchReturn
  BY <1>4, BenchReturnKept
<1>5. CASE BenchEnds
  <2>1. CallInv'
    BY <1>1, <1>5, CallKept DEF BenchEnds
  <2>2. CallerInv'
    BY <1>1, <1>5, ResultsKept DEF BenchEnds, CallerInv, Testing, Running
  <2>3. QED
    BY <2>1, <2>2 DEF IInv
<1>6. CASE Inside
  BY <1>6, InsideKept
<1>7. CASE UNCHANGED vars
  <2>1. CallInv'
    BY <1>1, <1>7, CallKept DEF vars
  <2>2. Running'
    BY <1>1, <1>7 DEF vars, call, Running, HeldBy, Params, Min, Max, Keys
  <2>3. Results' /\ Testing'
    BY <1>1, <1>7, ResultsKept DEF vars, Testing
  <2>4. QED
    BY <1>1, <1>7, <2>1, <2>2, <2>3 DEF IInv, CallerInv, vars
<1>8. QED
  BY <1>2, <1>3, <1>4, <1>5, <1>6, <1>7 DEF Next, Finished

(***************************************************************************)
(* Every lane that holds a key ends with the hash the scalar function      *)
(* gives that key, and the benchmark has the hash of each key in its       *)
(* place: hash_util.h, hashes.c.                                           *)
(***************************************************************************)
THEOREM ScalarHashes == Spec => []HashesAgree
<1>1. IInv => HashesAgree
  BY DEF IInv, CallInv, CallerInv, Mixes, Results, HashesAgree
<1>2. QED
  BY <1>1, InitIInv, NextIInv, PTL DEF Spec

(***************************************************************************)
(* Each lane reads bytes of its own key only, and the benchmark reads      *)
(* nothing outside its segment: the gathers of hash_util.h.                *)
(***************************************************************************)
THEOREM KeyBytesOnly == Spec => []HashReadsInside
<1>1. ASSUME IInv PROVE HashReadsInside
  <2>1. CallInv /\ CallTypes /\ Reads /\ Running
    BY <1>1 DEF IInv, CallInv, CallerInv
  <2>2. \A l \in AllLanes : /\ KeyLen(l) \in Nat /\ key[l] \in Nat
                            /\ Bytes(l, 0, KeyLen(l)) = key[l] .. key[l] + KeyLen(l) - 1
    <3>1. SUFFICES ASSUME NEW l \in AllLanes
                   PROVE  /\ KeyLen(l) \in Nat /\ key[l] \in Nat
                          /\ Bytes(l, 0, KeyLen(l)) = key[l] .. key[l] + KeyLen(l) - 1
      OBVIOUS
    <3>2. KeyLen(l) \in Nat /\ key[l] \in Nat
      BY <2>1, Lengths DEF CallTypes
    <3>3. Bytes(l, 0, KeyLen(l)) = key[l] + 0 .. key[l] + 0 + KeyLen(l) - 1
      BY <3>2, Interval
    <3>4. QED
      BY <3>2, <3>3
  <2>3. \A l \in AllLanes :
          got[l] \subseteq (IF ValidPtr(key[l]) THEN Bytes(l, 0, KeyLen(l)) ELSE {})
    BY <2>1, <2>2 DEF Reads, Valid
  <2>4. ASSUME who = "bench", NEW l \in AllLanes, NEW x \in got[l]
        PROVE  x \in Dseg .. Dseg + par[3] * NL * Max(par) * WordLen - 1
    <3>1. stage # "idle" /\ fn = "notail"
      BY <2>1, <2>4 DEF Running, Each
    <3>2. PICK c \in Nat : c < par[3] /\ HeldBy(c)
      <4>1. n \in Nat /\ par[3] \in Nat
        BY <1>1, <2>1, <2>4 DEF IInv, CallerInv, Running, Params
      <4>2. CASE stage = "done"
        <5>1. n - 1 \in Nat /\ n - 1 < par[3] /\ HeldBy(n - 1)
          BY <2>1, <2>4, <4>1, <4>2 DEF Running
        <5>2. QED
          BY <5>1
      <4>3. CASE stage \in {"blocks", "end"}
        BY <2>1, <2>4, <4>1, <4>3 DEF Running
      <4>4. QED
        BY <2>1, <2>4, <3>1, <4>2, <4>3 DEF Running
    <3>3. Params
      BY <2>1, <2>4 DEF Running
    <3>4. PICK k \in Nat : k = c * NL + l
      BY <3>2, <3>3, KeyNumbers DEF Keys
    <3>5. /\ k < par[3] * NL /\ klen[k] \in Nat /\ klen[k] <= Max(par)
          /\ Max(par) \in Nat /\ par[3] \in Nat
      BY <3>2, <3>3, <3>4, KeyNumbers
    <3>6. key[l] = Dseg + k * WordLen * Max(par) /\ KeyLen(l) = klen[k] * WordLen
      BY <3>1, <3>2, <3>4 DEF HeldBy, KeyLen
    <3>7. PICK y \in Nat : y = par[3] * NL
      BY <3>5
    <3>8. k * WordLen * Max(par) + klen[k] * WordLen <= y * Max(par) * WordLen
      BY <3>5, <3>7, KeyFits
    <3>9. x \in key[l] .. key[l] + KeyLen(l) - 1
      BY <2>1, <2>4 DEF Reads
    <3>10. /\ k * WordLen * Max(par) \in Nat /\ klen[k] * WordLen \in Nat
           /\ y * Max(par) * WordLen \in Nat /\ Dseg \in Nat
      <4>1. k * WordLen \in Nat /\ y * Max(par) \in Nat
        BY <3>5
      <4>2. QED
        BY <3>5, <4>1, CallerAssumption
    <3>11. QED
      BY <3>6, <3>7, <3>8, <3>9, <3>10
  <2>5. QED
    BY <2>3, <2>4 DEF HashReadsInside
<1>2. QED
  BY <1>1, InitIInv, NextIInv, PTL DEF Spec
==============================================================================
