----------------------------- MODULE MurmurLanes -----------------------------
(***************************************************************************)
(* murmur3_u32_8() and murmur3_u32_8_notail() of include/hash_util.h: one  *)
(* key per lane, lengths that differ, lanes that hold no key at all.       *)
(*                                                                         *)
(* The arithmetic of the hash is not modelled: an accumulator is the       *)
(* sequence of what has been mixed into it, and the byte at an address is  *)
(* the address itself.  Two hashes are equal when the same bytes went into *)
(* them in the same order.  A step is one iteration of the block loop, the *)
(* tail, or the end.                                                       *)
(***************************************************************************)
EXTENDS MaskedPtrs, Sequences

CONSTANTS NL,       \* lanes, 8 in the code
          WordLen   \* bytes of a block, 4 in the code

ASSUME LaneAssumption == NL \in Nat \ {0} /\ WordLen \in Nat \ {0, 1}

VARIABLES fn,      \* "full" or "notail"
          stage,   \* "idle", "blocks", "tail", "end", "done"
          key,     \* the masked pointers to the keys
          size,    \* the second parameter: len in bytes, or nblk
          seed,    \* the third
          i,       \* the number of the next block
          lanes,   \* the lanes the loop, or the tail, is for
          accum,   \* the accumulators, then the hashes
          got      \* history: got[l] is the set of addresses lane l has read

call == <<fn, stage, key, size, seed, i, lanes, accum, got>>

AllLanes == LaneIds(NL)
Each(x)  == [l \in AllLanes |-> x]

CallInit == /\ fn = "full" /\ stage = "idle"
            /\ key = Each(0) /\ size = Each(0) /\ seed = Each(0)
            /\ i = 0 /\ lanes = {} /\ accum = Each(<<>>) /\ got = Each({})

\* initial_lanes: VEC_TO_MASK(key->vec > 0)
Valid(k) == {l \in AllLanes : ValidPtr(k[l])}

Call(f, k, n, s) ==
  /\ fn' = f
  /\ stage' = "blocks"
  /\ key' = k /\ size' = n /\ seed' = s
  /\ i' = 0
  /\ lanes' = Valid(k)
  /\ accum' = [l \in AllLanes |-> <<<<"seed", s[l]>>>>]
  /\ got' = Each({})

NBlk(l) == IF fn = "full" THEN size[l] \div WordLen ELSE size[l]
Rem(l)  == size[l] % WordLen

\* The bytes of a word from a on, of which only the first n are there.
Word(a, n) == [b \in 0 .. WordLen - 1 |-> IF b < n THEN a + b ELSE 0]

(* ---- The block loop -------------------------------------------------- *)

\* Mutants of the next definition.
StillIn_Rejoin == {l \in AllLanes : i < NBlk(l)}

\* lanes = VEC_TO_MASK(i < nblk) & lanes
StillIn == {l \in AllLanes : i < NBlk(l)} \cap lanes

\* The masked gather leaves what was in the accumulator in the other lanes.
Gathered(m) == [l \in AllLanes |-> IF l \in m THEN Word(key[l] + i * WordLen, WordLen)
                                              ELSE accum[l]]

\* Mutants of the next definition.
Mixed_AllLanes(m) == [l \in AllLanes |-> Append(accum[l], <<"block", Gathered(m)[l]>>)]

\* Every lane computes, the lanes of m keep the result.
Mixed(m) ==
  Mux(m, [l \in AllLanes |-> Append(accum[l], <<"block", Gathered(m)[l]>>)], accum)

Bytes(l, from, n) == {key[l] + from + b : b \in 0 .. n - 1}

Block ==
  /\ stage = "blocks" /\ StillIn # {}
  /\ lanes' = StillIn
  /\ accum' = Mixed(StillIn)
  /\ got' = [l \in AllLanes |-> IF l \in StillIn THEN got[l] \cup Bytes(l, i * WordLen, WordLen)
                                                 ELSE got[l]]
  /\ i' = i + 1
  /\ UNCHANGED <<fn, stage, key, size, seed>>

\* Out of the loop; the lanes for the tail are found from the start again.
EndBlocks ==
  /\ stage = "blocks" /\ StillIn = {}
  /\ IF fn = "full"
     THEN stage' = "tail" /\ lanes' = Valid(key) \cap {l \in AllLanes : Rem(l) > 0}
     ELSE stage' = "end" /\ lanes' = StillIn
  /\ UNCHANGED <<fn, key, size, seed, i, accum, got>>

(* ---- The tail and the end -------------------------------------------- *)

\* The last bytes of each lane, read one by one; zero is no contribution.
MixTail ==
  /\ stage = "tail"
  /\ LET start(l) == NBlk(l) * WordLen
         t3 == [l \in AllLanes |-> <<"tail", Word(key[l] + start(l), Rem(l))>>]
         z  == Each(<<>>)
         in == Mux(lanes, t3, z)
     IN  /\ accum' = [l \in AllLanes |-> IF in[l] = <<>> THEN accum[l] ELSE Append(accum[l], in[l])]
         /\ got' = [l \in AllLanes |->
                      IF l \in lanes THEN got[l] \cup Bytes(l, start(l), Rem(l)) ELSE got[l]]
  /\ stage' = "end"
  /\ UNCHANGED <<fn, key, size, seed, i, lanes>>

\* The number of bytes of the key of lane l.
KeyLen(l) == IF fn = "full" THEN size[l] ELSE size[l] * WordLen

End ==
  /\ stage = "end"
  /\ stage' = "done"
  /\ accum' = [l \in AllLanes |-> Append(accum[l], <<"len", KeyLen(l)>>)]
  /\ UNCHANGED <<fn, key, size, seed, i, lanes, got>>

\* One step of a call.
Step == Block \/ EndBlocks \/ MixTail \/ End

------------------------------------------------------------------------------
(* murmur3_u32(), one key at a time                                         *)

Scalar(k, n, s) ==
  LET nblk == n \div WordLen
      rem  == n % WordLen
  IN  <<<<"seed", s>>>>
      \o [b \in 1 .. nblk |-> <<"block", Word(k + (b - 1) * WordLen, WordLen)>>]
      \o (IF rem > 0 THEN <<<<"tail", Word(k + nblk * WordLen, rem)>>>> ELSE <<>>)
      \o <<<<"len", n>>>>
==============================================================================
