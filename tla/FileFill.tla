------------------------------ MODULE FileFill -------------------------------
(***************************************************************************)
(* randomize_data() and load_data() of src/base_util.c: the two functions  *)
(* have the same body and differ in the file they open.  A buffer of Len   *)
(* bytes is filled from a file by read() calls of at most MaxChunk bytes.  *)
(*                                                                         *)
(* read() is the kernel's: it may transfer fewer bytes than asked for, be  *)
(* interrupted, meet the end of the file or fail.  Each byte of the buffer *)
(* holds the file offset it was read from, or Unset.                       *)
(***************************************************************************)
EXTENDS Integers, FiniteSets

CONSTANTS Len,        \* the len argument
          MaxChunk,   \* most bytes asked of one read (1 << 21 in the code)
          FileLens    \* the file sizes considered (the device is endless:
                      \* any size of at least Len)

ASSUME LenAssumption   == Len \in Nat
ASSUME ChunkAssumption == MaxChunk \in Nat \ {0}
ASSUME FilesAssumption == FileLens \subseteq Nat

VARIABLES pc,       \* "open", "loop", "done"
          data,     \* the caller's buffer
          trav,     \* where the next read goes
          left,     \* bytes still wanted
          fds,      \* descriptors the function holds open
          ret,      \* "none", "ok" (0) or "fail" (-1)
          errno,    \* the thread's errno
          fpos,     \* the kernel's file offset
          flen,     \* the size of the file
          skipped   \* history: buffer bytes a short read left behind

vars == <<pc, data, trav, left, fds, ret, errno, fpos, flen, skipped>>

Unset == -1
Bytes == 0 .. Len - 1

Init == /\ pc = "open"
        /\ data = [b \in Bytes |-> Unset]
        /\ trav = 0
        /\ left = Len
        /\ fds = 0
        /\ ret = "none"
        /\ errno = "none"
        /\ fpos = 0
        /\ flen \in FileLens
        /\ skipped = {}

Open ==
  /\ pc = "open"
  /\ fds' = fds + 1
  /\ pc' = "loop"
  /\ UNCHANGED <<data, trav, left, ret, errno, fpos, flen, skipped>>

OpenFails ==
  /\ pc = "open"
  /\ ret' = "fail"
  /\ errno' = "ENOENT"
  /\ pc' = "done"
  /\ UNCHANGED <<data, trav, left, fds, fpos, flen, skipped>>

\* Mutants of the next definition.
Chunk_Unclamped == MaxChunk

\* The bytes asked of the next read.
Chunk == IF left <= MaxChunk THEN left ELSE MaxChunk

\* Mutants of the next definition.
Deposit_WholeChunk(n) == [b \in Bytes |-> IF b \in trav .. trav + Chunk - 1
                                          THEN fpos + b - trav ELSE data[b]]

\* The buffer after a read of n bytes to trav.
Deposit(n) == [b \in Bytes |-> IF b \in trav .. trav + n - 1
                               THEN fpos + b - trav ELSE data[b]]

\* read() transfers n > 0 bytes; whatever n is, the loop moves on by the
\* chunk it asked for.
ReadSome(n) ==
  /\ pc = "loop"
  /\ left > 0
  /\ n <= Chunk /\ n <= flen - fpos
  /\ data' = Deposit(n)
  /\ fpos' = fpos + n
  /\ trav' = trav + Chunk
  /\ left' = left - Chunk
  /\ skipped' = skipped \cup (trav + n .. trav + Chunk - 1)
  /\ UNCHANGED <<pc, fds, ret, errno, flen>>

Read == \E n \in 1 .. MaxChunk : ReadSome(n)

\* Mutants of the next definition.
Retried_AnyEintr(r, e) == e = "EINTR"

\* (errno == EINTR) & (ret < 0): only then is the same read tried again.
Retried(r, e) == e = "EINTR" /\ r < 0

\* Mutants of the next definition.
Leave_KeepOnError(r) ==
  pc' = "done" /\ ret' = r /\ fds' = IF r = "ok" THEN fds - 1 ELSE fds

\* Every path out of the loop closes the descriptor.
Leave(r) == pc' = "done" /\ ret' = r /\ fds' = fds - 1

\* read() returns r <= 0 and leaves e in errno.
ReadStops(r, e) ==
  /\ pc = "loop"
  /\ left > 0
  /\ errno' = e
  /\ \/ Retried(r, e) /\ UNCHANGED <<pc, fds, ret>>
     \/ ~Retried(r, e) /\ Leave("fail")
  /\ UNCHANGED <<data, trav, left, fpos, flen, skipped>>

\* The end of the file is not an error: errno keeps an older value.
AtEof == fpos = flen /\ ReadStops(0, errno)

ReadError == \E e \in {"EINTR", "EIO"} : ReadStops(-1, e)

Filled ==
  /\ pc = "loop"
  /\ left = 0
  /\ Leave("ok")
  /\ UNCHANGED <<data, trav, left, errno, fpos, flen, skipped>>

Returned == pc = "done" /\ UNCHANGED vars

Next == Open \/ OpenFails \/ Read \/ AtEof \/ ReadError \/ Filled \/ Returned

\* The calling thread runs, and a read that is tried again and again is in
\* the end answered by data or by the end of the file: signals do not
\* interrupt every one of them.
FairSpec == /\ Init /\ [][Next]_vars
            /\ WF_vars(Open \/ OpenFails)
            /\ WF_vars(Read \/ AtEof)
            /\ WF_vars(Filled)

------------------------------------------------------------------------------
(* Properties                                                               *)

TypeOK == /\ pc \in {"open", "loop", "done"}
          /\ data \in [Bytes -> Nat \cup {Unset}]
          /\ trav \in 0 .. Len
          /\ left \in 0 .. Len
          /\ trav + left = Len
          /\ fds \in 0 .. 1
          /\ ret \in {"none", "ok", "fail"}
          /\ errno \in {"none", "ENOENT", "EINTR", "EIO"}
          /\ fpos \in 0 .. flen
          /\ flen \in FileLens
          /\ skipped \subseteq Bytes

\* On every path out, EINTR loops included, the descriptor is closed once.
NoDescriptorLeak == /\ pc = "done" => fds = 0
                    /\ pc = "loop" => fds = 1

\* Success means: each byte was written, except exactly those that short
\* reads left behind; the bytes written are the first fpos bytes of the file,
\* in order.  Without a short read the buffer is the file, however often a
\* read was retried.
SuccessIsExact ==
  ret = "ok" =>
    /\ \A b \in Bytes : data[b] = Unset <=> b \in skipped
    /\ \A b \in Bytes \ skipped : data[b] \in 0 .. fpos - 1
    /\ \A a, b \in Bytes \ skipped : a < b => data[a] < data[b]
    /\ Cardinality(Bytes \ skipped) = fpos

\* The function returns, whatever mix of answers the kernel gives.
Returns == <>(pc = "done")
==============================================================================
