------------------------------ MODULE HashCallers -----------------------------
(***************************************************************************)
(* The callers of the parallel hashes: the unit test, which hashes keys of *)
(* any length and then, of the same keys, those without a tail once more   *)
(* (test/test_hash_util.c), and the benchmark, which hashes an array of    *)
(* keys NL at a time (perf_jig/hashes.c).                                  *)
(***************************************************************************)
EXTENDS MurmurLanes

CONSTANTS Tests,    \* the test vectors: functions from lanes to [ptr, len]
          Sizes,    \* the parameters <<min_dw, max_dw, n>> of the benchmark;
                    \* with no keys it would get no segment
          Dseg      \* dseg.ptr

ASSUME CallerAssumption ==
  /\ Tests \subseteq [AllLanes -> [ptr : Nat, len : Nat]]
  /\ \A p \in Sizes : p \in Nat \X Nat \X Nat /\ 0 < p[1] /\ p[1] <= p[2] /\ 0 < p[3]
  /\ Dseg \in Nat \ {0}

VARIABLES who,    \* "test", "bench", or "done"
          tp,     \* the test vectors
          par,    \* the parameters of the benchmark
          klen,   \* the lengths of its keys, in words
          res,    \* the hashes of its keys
          n       \* how many calls have returned

vars == <<call, who, tp, par, klen, res, n>>

Min(p) == p[1]
Max(p) == p[2]
Keys(p) == 0 .. p[3] * NL - 1

Init ==
  /\ CallInit
  /\ n = 0
  /\ \/ who = "test" /\ tp \in Tests /\ par = <<>> /\ klen = <<>> /\ res = <<>>
     \/ /\ who = "bench" /\ tp = <<>> /\ par \in Sizes
        /\ klen \in [Keys(par) -> Min(par) .. Max(par)]
        /\ res = [k \in Keys(par) |-> <<>>]

(* ---- test_murmur3() -------------------------------------------------- *)

TestSeed == [l \in AllLanes |-> 42 + l]
TestLen  == [l \in AllLanes |-> tp[l].len]

TestFull ==
  /\ who = "test" /\ stage = "idle"
  /\ Call("full", [l \in AllLanes |-> tp[l].ptr], TestLen, TestSeed)
  /\ UNCHANGED <<who, tp, par, klen, res, n>>

\* The lanes with a tail lose their pointer but keep their length.
TestNoTail ==
  /\ who = "test" /\ stage = "done" /\ n = 0
  /\ LET m2 == Valid(key) \cap {l \in AllLanes : tp[l].len % WordLen = 0}
     IN  Call("notail", Retain(key, m2), [l \in AllLanes |-> tp[l].len \div WordLen], TestSeed)
  /\ n' = n + 1
  /\ UNCHANGED <<who, tp, par, klen, res>>

TestEnds ==
  /\ who = "test" /\ stage = "done" /\ n = 1
  /\ who' = "done"
  /\ UNCHANGED <<call, tp, par, klen, res, n>>

(* ---- perf_test_murmur3_notail() -------------------------------------- *)

\* Mutants of the next definition.
Inc_OneKey == WordLen * Max(par)

\* From the keys of one call to those of the next.
Inc == WordLen * Max(par) * NL

BenchSeed == [l \in AllLanes |-> l * 42]

BenchCall ==
  /\ who = "bench" /\ stage \in {"idle", "done"} /\ n < par[3]
  /\ LET first == [l \in AllLanes |-> Dseg + l * WordLen * Max(par)]
         ptrs  == IF n = 0 THEN first ELSE [l \in AllLanes |-> key[l] + Inc]
     IN  Call("notail", ptrs, [l \in AllLanes |-> klen[n * NL + l]], BenchSeed)
  /\ UNCHANGED <<who, tp, par, klen, res, n>>

\* The last step of a call, and res[i] = ... of the caller.
BenchReturn ==
  /\ who = "bench" /\ End
  /\ res' = [k \in Keys(par) |-> IF k \div NL = n THEN accum'[k % NL] ELSE res[k]]
  /\ n' = n + 1
  /\ UNCHANGED <<who, tp, par, klen>>

BenchEnds ==
  /\ who = "bench" /\ stage \in {"idle", "done"} /\ n = par[3]
  /\ who' = "done"
  /\ UNCHANGED <<call, tp, par, klen, res, n>>

Inside ==
  /\ \/ Block \/ EndBlocks \/ MixTail
     \/ who = "test" /\ End
  /\ UNCHANGED <<who, tp, par, klen, res, n>>

Finished == who = "done" /\ UNCHANGED vars

Next == \/ TestFull \/ TestNoTail \/ TestEnds \/ BenchCall \/ BenchReturn \/ BenchEnds
        \/ Inside \/ Finished

Spec == Init /\ [][Next]_vars

------------------------------------------------------------------------------
(* Properties                                                               *)

\* Every lane that holds a key ends with the hash the scalar function gives the
\* key alone, though its neighbours run shorter or longer or hold no key, and
\* the benchmark has the hash of each of its keys in its place.
HashesAgree ==
  /\ stage = "done" =>
       \A l \in Valid(key) : accum[l] = Scalar(key[l], KeyLen(l), seed[l])
  /\ res # <<>> =>
       \A k \in 0 .. n * NL - 1 :
         res[k] = Scalar(Dseg + k * WordLen * Max(par), klen[k] * WordLen, (k % NL) * 42)

\* Each lane reads bytes of its own key only, a lane without one nothing: not
\* the rest of the word a key ends in, nor with the length of a key it no
\* longer has.  What the benchmark reads is inside its segment.
HashReadsInside ==
  /\ \A l \in AllLanes : got[l] \subseteq (IF ValidPtr(key[l]) THEN Bytes(l, 0, KeyLen(l)) ELSE {})
  /\ who = "bench" =>
       \A l \in AllLanes : got[l] \subseteq Dseg .. Dseg + par[3] * NL * Max(par) * WordLen - 1
==============================================================================
