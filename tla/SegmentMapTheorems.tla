------------------------- MODULE SegmentMapTheorems --------------------------
(***************************************************************************)
(* Proofs about SegmentMap, for every set of page sizes, every descriptor  *)
(* the caller may fill in, any number of calls with it and any number of   *)
(* interferences between their system calls.                               *)
(***************************************************************************)
EXTENDS SegmentMap, SequenceTheorems, TLAPS

USE LengthAssumption, FilesAssumption, ArgsAssumption, BoundsAssumption, GivenAssumption

------------------------------------------------------------------------------
(* The parts of the inductive invariant.                                    *)

File == [size : 0 .. MaxLen, r : BOOLEAN, w : BOOLEAN, page : PageLens]
Desc == [flags : SUBSET Flags, maplen : 0 .. MaxLen, ptr : Nat]

\* The places of map_segment() where it holds a descriptor for the file; at
\* "mmap" it may hold one.
WithFile == {"allocate", "fstat", "unlink"}
Creating == {"stat", "unlink_old", "stat_dir", "create", "allocate"}
Opening  == {"access_r", "access_w", "open"}
Running  == Creating \cup Opening \cup {"fstat", "unlink", "mmap"}
Outside  == {"done", "unmapped", "fault"}

Types ==
  /\ pc \in Running \cup Outside \cup {"entry"}
  /\ args \in Args
  /\ seg \in Desc /\ want \in Desc
  /\ inode \in Seq(File) /\ name \in 0 .. Len(inode)
  /\ calls \in 1 .. MaxCalls
  /\ open \subseteq [id : 1 .. calls, ino : 1 .. Len(inode)]
  /\ fd = NoFd \/ fd \in open
  /\ pc \in WithFile => fd # NoFd
  /\ fd # NoFd => pc \in WithFile \cup {"mmap"}
  /\ st \in PageLens \cup {0}
  /\ maps \subseteq [at : Nat, len : 0 .. MaxLen, ino : 0 .. Len(inode)]
  /\ ret \in {"none", "ok", "fail"}

\* An open descriptor is that of this call, that of an earlier one or one that
\* a failed fstat() has left.
Descriptors == \A d \in open : d = fd \/ d.id < calls \/ "fstat failed" \in log

\* Beside mappings at address 0, which only a descriptor that fixes the address
\* there can have made, there is one only between a successful call and the
\* unmapping.
Mapped == pc = "done" /\ ret = "ok"
Mappings ==
  /\ IF Mapped THEN /\ seg.ptr # Null /\ seg.maplen > 0
                    /\ \E m \in Held : Held = {m} /\ m.at = seg.ptr /\ m.len = seg.maplen
               ELSE Held = {}
  /\ maps # Held => {"INITD", "ADDR_FIXED"} \subseteq want.flags

\* A descriptor the caller has initialised keeps its flags; inside a call an
\* uninitialised one has those the call sets in it.
Asked ==
  /\ pc = "entry" => seg = want
  /\ "INITD" \in want.flags => seg.flags \ {"ANON"} = want.flags \ {"ANON"}
  /\ pc \in Running /\ "INITD" \notin want.flags => seg.flags \subseteq {"INITD", "RO"}
  /\ pc \in Creating => {"INITD", "CREATE"} \subseteq want.flags
  /\ pc \in {"access_r", "access_w"} => "INITD" \notin want.flags
  /\ pc = "open" => ~({"INITD", "CREATE"} \subseteq want.flags)
  /\ pc = "unlink" => "UNLINK" \in seg.flags

\* Unless somebody else resizes it, the file of this call has the size that
\* maplen says, and the file of the mapping has the size it had then.
Within(len, ino) == len <= inode[ino].size
Fits(len, ino) == Within(len, ino) /\ len + inode[ino].page > inode[ino].size
Lengths ==
  "resize" \notin meddled =>
    /\ pc \in {"unlink", "mmap"} /\ fd # NoFd => Fits(seg.maplen, fd.ino)
    /\ \A m \in maps : m.ino # 0 => Within(m.len, m.ino)
    /\ \A m \in Held : m.ino # 0 => Fits(m.len, m.ino)

\* How long the segment of a call that creates one will be at least, by the
\* place the call has reached.
Disturbed == "allocation failed" \in log \/ "resize" \in meddled
Created ==
  args.path /\ {"INITD", "CREATE"} \subseteq want.flags =>
    /\ pc \in {"stat", "unlink_old", "stat_dir"} => seg.maplen = want.maplen
    /\ pc \in {"create", "allocate", "fstat"} => st \in PageLens
    /\ pc \in {"create", "allocate"} => seg.maplen = RoundedUp(want.maplen, st)
    /\ pc = "fstat" => Disturbed \/ inode[fd.ino].size >= RoundedUp(want.maplen, st)
    /\ pc \in {"unlink", "mmap"} \/ Mapped =>
         \/ Disturbed \/ seg.maplen >= want.maplen
         \/ "larger pages" \in log /\ seg.maplen + st > want.maplen

IInv == Types /\ Descriptors /\ Mappings /\ Asked /\ Lengths /\ Created

------------------------------------------------------------------------------
(* Whole pages.                                                             *)

(***************************************************************************)
(* The number of whole pages in n bytes.                                   *)
(***************************************************************************)
LEMMA PageNumber ==
  ASSUME NEW page \in PageLens, NEW n \in Nat
  PROVE  /\ n \div page \in Nat
         /\ (n \div page) * page \in Nat
         /\ (n \div page) * page <= n
         /\ n < (n \div page) * page + page
<1>1. page \in Nat /\ page > 0
  OBVIOUS
<1>2. QED
  BY <1>1

(***************************************************************************)
(* A number of whole pages that fits into n bytes is not greater than the  *)
(* number of whole pages in n bytes.                                       *)
(***************************************************************************)
LEMMA PagesFit ==
  ASSUME NEW page \in PageLens, NEW n \in Nat, NEW k \in Nat, k * page <= n
  PROVE  k * page <= (n \div page) * page
<1> DEFINE q == n \div page
<1>1. q \in Nat /\ n < q * page + page
  BY PageNumber
<1> HIDE DEF q
<1>2. page \in Nat /\ page >= 1
  OBVIOUS
<1>3. k <= q
  <2> SUFFICES ASSUME q + 1 <= k PROVE FALSE
    BY <1>1
  <2>1. (q + 1) * page <= k * page
    BY <1>1, <1>2
  <2>2. (q + 1) * page = q * page + page
    BY <1>1, <1>2
  <2>3. QED
    BY <1>1, <1>2, <2>1, <2>2
<1>4. k * page <= q * page
  BY <1>1, <1>2, <1>3
<1>5. QED
  BY <1>4 DEF q

(***************************************************************************)
(* n & ~pmask loses less than a page of n.                                 *)
(***************************************************************************)
LEMMA WholePagesBounds ==
  ASSUME NEW page \in PageLens, NEW n \in Nat
  PROVE  /\ WholePages(n, page) \in Nat
         /\ WholePages(n, page) <= n
         /\ n < WholePages(n, page) + page
BY PageNumber DEF WholePages

(***************************************************************************)
(* (n + pmask) & ~pmask is a number of whole pages, not less than n, and   *)
(* not more than MaxLen, which is one.                                     *)
(***************************************************************************)
LEMMA RoundedUpBounds ==
  ASSUME NEW page \in PageLens, NEW n \in 0 .. MaxLen
  PROVE  /\ RoundedUp(n, page) \in 0 .. MaxLen
         /\ n <= RoundedUp(n, page)
         /\ \E k \in Nat : RoundedUp(n, page) = k * page
<1> DEFINE k == (n + page - 1) \div page
<1>0. page \in Nat /\ page >= 1
  OBVIOUS
<1>1. n + page - 1 \in Nat
  BY <1>0
<1>2. /\ k \in Nat /\ k * page \in Nat
      /\ k * page <= n + page - 1
      /\ n + page - 1 < k * page + page
  BY <1>1, PageNumber
<1> HIDE DEF k
<1>3. n <= k * page
  BY <1>0, <1>2
<1>4. PICK z \in Nat : MaxLen = z * page
  <2>1. MaxLen = (MaxLen \div page) * page
    BY <1>0
  <2>2. QED
    BY <2>1, PageNumber
<1>5. k <= z
  <2> SUFFICES ASSUME z + 1 <= k PROVE FALSE
    BY <1>2, <1>4
  <2>1. (z + 1) * page <= k * page
    BY <1>0, <1>2, <1>4
  <2>2. (z + 1) * page = z * page + page
    BY <1>0, <1>4
  <2>3. QED
    BY <1>0, <1>2, <1>4, <2>1, <2>2
<1>6. k * page <= MaxLen
  BY <1>0, <1>2, <1>4, <1>5
<1>7. RoundedUp(n, page) = k * page
  BY DEF RoundedUp, k
<1>8. QED
  BY <1>2, <1>3, <1>6, <1>7

(***************************************************************************)
(* A file that is at least as long as the request, rounded up to the pages *)
(* of the directory, has whole pages for all of it, if its own pages are   *)
(* not larger, and lacks less than one of them otherwise.                  *)
(***************************************************************************)
LEMMA RequestFits ==
  ASSUME NEW dir \in PageLens, NEW page \in PageLens, NEW n \in 0 .. MaxLen,
         NEW size \in Nat, size >= RoundedUp(n, dir)
  PROVE  /\ page <= dir => WholePages(size, page) >= n
         /\ WholePages(size, page) + page > n
<1>1. /\ RoundedUp(n, dir) \in Nat /\ n <= RoundedUp(n, dir)
      /\ page \in Nat /\ page >= 1 /\ dir \in Nat /\ dir >= 1
  BY RoundedUpBounds
<1>2. ASSUME page <= dir PROVE WholePages(size, page) >= n
  <2>1. PICK k \in Nat : RoundedUp(n, dir) = k * dir
    BY RoundedUpBounds
  <2>2. PICK c \in Nat : dir = c * page
    <3>1. dir % page = 0
      BY <1>2
    <3>2. dir = (dir \div page) * page
      BY <1>1, <3>1
    <3>3. QED
      BY <1>1, <3>2, PageNumber
  <2>3. k * c \in Nat /\ k * dir = (k * c) * page
    BY <1>1, <2>2
  <2>4. (k * c) * page <= size
    BY <1>1, <2>1, <2>3
  <2>5. (k * c) * page <= (size \div page) * page
    BY <2>3, <2>4, PagesFit
  <2>6. n <= WholePages(size, page)
    BY <1>1, <2>1, <2>3, <2>5, WholePagesBounds DEF WholePages
  <2>7. QED
    BY <2>6, WholePagesBounds
<1>3. WholePages(size, page) + page > n
  BY <1>1, WholePagesBounds
<1>4. QED
  BY <1>2, <1>3

------------------------------------------------------------------------------
(* What a step does to the files.                                           *)

\* How a step that may change file n, from f to g, changes it.
Keeps(f, g, n) ==
  /\ g.page = f.page
  /\ \/ g.size = f.size
     \/ pc = "allocate" /\ n = fd.ino /\ f.size <= g.size
     \/ "resize" \in meddled'

(***************************************************************************)
(* The files there have been stay, with the page size they have, and keep  *)
(* their size but in allocate, which grows it, and when somebody else      *)
(* resizes them; a new file is put behind them.                            *)
(***************************************************************************)
LEMMA FilesStep ==
  ASSUME Types, [Next]_vars
  PROVE  /\ inode' \in Seq(File) /\ Len(inode) <= Len(inode')
         /\ name' \in 0 .. Len(inode')
         /\ \A n \in 1 .. Len(inode) : Keeps(inode[n], inode'[n], n)
         /\ meddled \subseteq meddled'
<1> DEFINE Goal == /\ inode' \in Seq(File) /\ Len(inode) <= Len(inode')
                   /\ name' \in 0 .. Len(inode')
                   /\ \A n \in 1 .. Len(inode) : Keeps(inode[n], inode'[n], n)
                   /\ meddled \subseteq meddled'
<1>1. inode \in Seq(File) /\ Len(inode) \in Nat /\ name \in 0 .. Len(inode)
  BY DEF Types
<1>2. CASE inode' = inode /\ name' \in {name, 0} /\ meddled \subseteq meddled'
  BY <1>1, <1>2 DEF Keeps
<1>3. ASSUME NEW f \in File, inode' = Append(inode, f), name' = Len(inode'),
             meddled \subseteq meddled'
      PROVE  Goal
  BY <1>1, <1>3, AppendProperties DEF Keeps
<1>4. ASSUME NEW n \in 1 .. Len(inode), NEW f \in File, inode' = [inode EXCEPT ![n] = f],
             name' = name, meddled \subseteq meddled', Keeps(inode[n], f, n)
      PROVE  Goal
  BY <1>1, <1>4, ExceptSeq DEF Keeps
<1>5. CASE Call
  <2>1. meddled' = meddled
    BY <1>5 DEF Call
  <2>2. CASE CreateFile
    <3>1. CASE inode' = inode /\ name' = name
      BY <1>2, <2>1, <3>1
    <3>2. ASSUME NEW page \in PageLens, inode' = Append(inode, EmptyFile(page)), name' = Len(inode')
          PROVE  Goal
      <4>1. EmptyFile(page) \in File
        BY DEF EmptyFile, File
      <4>2. QED
        BY <1>3, <2>1, <3>2, <4>1
    <3>3. QED
      BY <2>2, <3>1, <3>2 DEF CreateFile, Fails, files
  <2>3. CASE Allocate
    <3>1. fd \in open /\ fd.ino \in 1 .. Len(inode)
      BY <2>3 DEF Allocate, Types, WithFile
    <3>2. PICK n \in inode[fd.ino].size .. MaxLen : inode' = [inode EXCEPT ![fd.ino].size = n]
      BY <2>3 DEF Allocate
    <3>3. inode[fd.ino] \in File
      BY <1>1, <3>1, ElementOfSeq
    <3> DEFINE f == [inode[fd.ino] EXCEPT !.size = n]
    <3>4. f \in File /\ f.size = n /\ f.page = inode[fd.ino].page
      BY <3>2, <3>3 DEF File
    <3>5. inode' = [inode EXCEPT ![fd.ino] = f]
      BY <3>2
    <3>6. inode[fd.ino].size <= n
      BY <3>2
    <3> HIDE DEF f
    <3>7. pc = "allocate" /\ name' = name
      BY <2>3 DEF Allocate
    <3>8. Keeps(inode[fd.ino], f, fd.ino)
      BY <3>4, <3>6, <3>7 DEF Keeps
    <3>9. QED
      BY <1>4, <2>1, <3>1, <3>4, <3>5, <3>7, <3>8
  <2>4. CASE UnlinkOld \/ Unlink
    BY <1>2, <2>1, <2>4 DEF UnlinkOld, Unlink
  <2>5. CASE UNCHANGED files
    BY <1>2, <2>1, <2>5 DEF files
  <2>6. QED
    BY <1>5, <2>2, <2>3, <2>4, <2>5
       DEF Call, RejectArgs, Initialised, Uninitialised, AccessRead, AccessWrite, StatPath,
           StatDirFails, StatDir, OpenFile, FStat, FStatFails, Mmap, Fails, Proceed
<1>6. CASE UnmapSegment \/ CallAgain \/ Stopped \/ UNCHANGED vars
  BY <1>2, <1>6 DEF UnmapSegment, CallAgain, Stopped, vars, files
<1>7. CASE Replace
  <2>1. meddled \subseteq meddled'
    BY <1>7 DEF Replace, Meddles
  <2>2. CASE name' = 0 /\ inode' = inode
    BY <1>2, <2>1, <2>2
  <2>3. ASSUME NEW f \in Files, inode' = Append(inode, f), name' = Len(inode')
        PROVE  Goal
    <3>1. f \in File
      BY DEF File
    <3>2. QED
      BY <1>3, <2>1, <2>3, <3>1
  <2>4. QED
    BY <1>7, <2>2, <2>3 DEF Replace
<1>8. CASE Resize
  <2>1. /\ meddled \subseteq meddled' /\ "resize" \in meddled'
        /\ name \in 1 .. Len(inode) /\ name' = name
    BY <1>1, <1>8 DEF Resize, Meddles
  <2>2. PICK size \in 0 .. MaxLen : inode' = [inode EXCEPT ![name].size = size]
    BY <1>8 DEF Resize
  <2>3. inode[name] \in File
    BY <1>1, <2>1, ElementOfSeq
  <2>4. LET f == [inode[name] EXCEPT !.size = size]
        IN  f \in File /\ f.page = inode[name].page
    BY <2>2, <2>3 DEF File
  <2>5. inode' = [inode EXCEPT ![name] = [inode[name] EXCEPT !.size = size]]
    BY <2>2
  <2>6. QED
    BY <1>4, <2>1, <2>4, <2>5 DEF Keeps
<1>9. CASE Chmod
  <2>1. meddled \subseteq meddled' /\ name \in 1 .. Len(inode) /\ name' = name
    BY <1>1, <1>9 DEF Chmod, Meddles
  <2>2. PICK r \in BOOLEAN, w \in BOOLEAN :
          inode' = [inode EXCEPT ![name].r = r, ![name].w = w]
    BY <1>9 DEF Chmod
  <2>3. inode[name] \in File
    BY <1>1, <2>1, ElementOfSeq
  <2> DEFINE f == [inode[name] EXCEPT !.r = r, !.w = w]
  <2>4. f \in File /\ f.size = inode[name].size /\ f.page = inode[name].page
    BY <2>2, <2>3 DEF File
  <2>5. inode' = [inode EXCEPT ![name] = f]
    BY <1>1, <2>1, <2>2, <2>3
  <2>6. QED
    BY <1>4, <2>1, <2>4, <2>5 DEF Keeps
<1>10. QED
  BY <1>5, <1>6, <1>7, <1>8, <1>9 DEF Next

------------------------------------------------------------------------------
(* What a step does to the parts of the invariant: one case per action.     *)

(***************************************************************************)
(* A descriptor that has been opened by this call, or closed by it, leaves *)
(* the others as they are, and every file they are for is still there.     *)
(***************************************************************************)
LEMMA CallTypes ==
  ASSUME Types, Call
  PROVE  Types'
<1>1. /\ inode' \in Seq(File) /\ Len(inode) \in Nat /\ Len(inode') \in Nat
      /\ Len(inode) <= Len(inode') /\ name' \in 0 .. Len(inode')
  BY FilesStep DEF Next, Types
<1>2. args' = args /\ want' = want /\ calls' = calls
  BY DEF Call
<1>3. /\ open \subseteq [id : 1 .. calls', ino : 1 .. Len(inode')]
      /\ maps \subseteq [at : Nat, len : 0 .. MaxLen, ino : 0 .. Len(inode')]
  <2>1. 1 .. Len(inode) \subseteq 1 .. Len(inode') /\ 0 .. Len(inode) \subseteq 0 .. Len(inode')
    BY <1>1
  <2>2. /\ open \subseteq [id : 1 .. calls, ino : 1 .. Len(inode)]
        /\ maps \subseteq [at : Nat, len : 0 .. MaxLen, ino : 0 .. Len(inode)]
    BY DEF Types
  <2>3. QED
    BY <1>2, <2>1, <2>2
<1>4. ASSUME pc' \in Running \cup Outside, seg' \in Desc, open' = open, maps' = maps, ret' \in {"none", "ok", "fail"},
             fd' = fd, st' \in PageLens \cup {0}, pc' \in WithFile => fd # NoFd, fd # NoFd => pc' \in WithFile \cup {"mmap"}
      PROVE  Types'
  BY <1>1, <1>2, <1>3, <1>4 DEF Types
<1>5. ASSUME ~(pc \in WithFile \cup {"mmap"}), open' = open, fd' = fd, maps' = maps,
             pc' \in Creating \cup Opening \cup Outside, pc' # "allocate",
             seg' \in Desc, ret' \in {"none", "ok", "fail"}, st' \in PageLens \cup {0}
      PROVE  Types'
  <2>1. fd = NoFd
    BY <1>5 DEF Types
  <2>2. QED
    BY <1>4, <1>5, <2>1 DEF WithFile, Creating, Opening, Outside, Running
<1>6. /\ seg \in Desc /\ ret \in {"none", "ok", "fail"} /\ st \in PageLens \cup {0}
      /\ fd = NoFd \/ fd \in open
  BY DEF Types
<1>7. CASE RejectArgs
  BY <1>5, <1>6, <1>7 DEF RejectArgs, Fails, Return, WithFile, Outside
<1>8. CASE Initialised
  <2>1. seg' \in Desc
    BY <1>6, <1>8 DEF Initialised, Desc, Flags
  <2>2. fd = NoFd
    BY <1>8 DEF Initialised, Types, WithFile
  <2>3. QED
    BY <1>4, <1>6, <1>8, <2>1, <2>2 DEF Initialised, WithFile, Running, Creating, Opening
<1>9. CASE Uninitialised
  <2>1. seg' \in Desc
    BY <1>9 DEF Uninitialised, Desc, Flags, Cleared, Null
  <2>2. QED
    BY <1>5, <1>6, <1>9, <2>1 DEF Uninitialised, Return, WithFile, Opening, Outside
<1>10. CASE AccessRead
  <2>1. seg' \in Desc
    BY <1>6, <1>10 DEF AccessRead, Fails, Desc, Flags
  <2>2. QED
    BY <1>5, <1>6, <1>10, <2>1 DEF AccessRead, Fails, Return, WithFile, Opening, Outside
<1>11. CASE AccessWrite
  <2>1. seg' \in Desc
    BY <1>6, <1>11 DEF AccessWrite, Desc, Flags
  <2>2. QED
    BY <1>5, <1>6, <1>11, <2>1 DEF AccessWrite, WithFile, Opening
<1>12. CASE StatPath \/ StatDirFails \/ UnlinkOld
  BY <1>5, <1>6, <1>12
     DEF StatPath, StatDirFails, UnlinkOld, Proceed, Fails, Return, WithFile, Creating, Outside
<1>13. CASE StatDir
  <2>1. seg' \in Desc /\ st' \in PageLens
    BY <1>6, <1>13, RoundedUpBounds DEF StatDir, Desc
  <2>2. QED
    BY <1>5, <1>6, <1>13, <2>1 DEF StatDir, WithFile, Creating
<1>14. ASSUME NEW ino \in 1 .. Len(inode'), Opened(ino), pc' \in {"allocate", "fstat"},
              seg' = seg, maps' = maps, ret' = ret, st' = st
       PROVE  Types'
  <2>1. fd' = [id |-> calls, ino |-> ino] /\ open' = open \cup {fd'}
    BY <1>14 DEF Opened
  <2>2. fd' # NoFd /\ fd' \in [id : 1 .. calls', ino : 1 .. Len(inode')]
    BY <1>2, <1>14, <2>1 DEF NoFd, Types
  <2>3. QED
    BY <1>1, <1>2, <1>3, <1>6, <1>14, <2>1, <2>2 DEF Types, WithFile, Running, Creating
<1>15. CASE CreateFile
  <2>1. CASE Fails
    BY <1>5, <1>6, <1>15, <2>1 DEF CreateFile, Fails, Return, WithFile, Outside
  <2>2. CASE name # 0 /\ Opened(name) /\ pc' = "allocate" /\ UNCHANGED <<seg, files, st, maps, ret, log>>
    BY <1>1, <1>14, <2>2 DEF Types, files
  <2>3. CASE /\ \E page \in PageLens : inode' = Append(inode, EmptyFile(page))
             /\ name = 0 /\ name' = Len(inode') /\ Opened(name') /\ pc' = "allocate"
             /\ UNCHANGED <<seg, st, maps, ret, log>>
    <3>1. Len(inode') = Len(inode) + 1
      <4>1. PICK page \in PageLens : inode' = Append(inode, EmptyFile(page))
        BY <2>3
      <4>2. EmptyFile(page) \in File /\ inode \in Seq(File)
        BY DEF EmptyFile, File, Types
      <4>3. QED
        BY <4>1, <4>2, AppendProperties
    <3>2. name' \in 1 .. Len(inode')
      BY <1>1, <2>3, <3>1
    <3>3. QED
      BY <1>14, <2>3, <3>2
  <2>4. QED
    BY <1>15, <2>1, <2>2, <2>3 DEF CreateFile
<1>16. CASE OpenFile
  <2>1. CASE Fails
    BY <1>5, <1>6, <1>16, <2>1 DEF OpenFile, Fails, Return, WithFile, Outside
  <2>2. CASE name # 0 /\ Opened(name) /\ pc' = "fstat" /\ UNCHANGED <<seg, files, st, maps, ret, log>>
    BY <1>1, <1>14, <2>2 DEF Types, files
  <2>3. QED
    BY <1>16, <2>1, <2>2 DEF OpenFile
<1>17. CASE Allocate
  BY <1>4, <1>6, <1>17 DEF Allocate, Types, WithFile, Running
<1>18. ASSUME NEW page \in PageLens, NEW size \in 0 .. MaxLen,
              seg' = [seg EXCEPT !.maplen = WholePages(size, page)]
       PROVE  seg' \in Desc
  <2>1. WholePages(size, page) \in 0 .. MaxLen
    BY WholePagesBounds
  <2>2. QED
    BY <1>6, <1>18, <2>1 DEF Desc
<1>19. CASE FStat
  <2>1. inode[fd.ino] \in File
    BY <1>19, ElementOfSeq DEF FStat, Types, WithFile
  <2>2. seg' \in Desc /\ st' \in PageLens
    BY <1>18, <1>19, <2>1 DEF FStat, File
  <2>3. QED
    BY <1>4, <1>6, <1>19, <2>2 DEF FStat, Types, WithFile, Running
<1>20. ASSUME fd' = NoFd, pc' = "done", seg' \in Desc, maps' = maps, ret' \in {"none", "ok", "fail"},
              open' \subseteq open, st' = st
       PROVE  Types'
  BY <1>1, <1>2, <1>3, <1>6, <1>20 DEF Types, WithFile, Outside
<1>21. CASE FStatFails
  <2>1. seg' \in Desc
    <3>1. PICK stale \in {0, MaxLen} : seg' = [seg EXCEPT !.maplen = stale]
      BY <1>21 DEF FStatFails
    <3>2. QED
      BY <1>6, <3>1 DEF Desc
  <2>2. QED
    BY <1>20, <1>21, <2>1 DEF FStatFails, Return
<1>22. CASE Unlink
  BY <1>4, <1>6, <1>22 DEF Unlink, WithFile, Running
<1>23. CASE Mmap
  <2>1. PICK ptr \in MmapResults :
          /\ maps' = IF ptr = MapFailed THEN maps
                     ELSE Kept(ptr, seg.maplen) \cup {[at |-> ptr, len |-> seg.maplen, ino |-> fd.ino]}
          /\ seg' = [seg EXCEPT !.ptr = NullIfFailed(ptr)]
          /\ open' = Closed(ptr)
    BY <1>23 DEF Mmap
  <2>2. ptr = MapFailed \/ ptr \in Nat
    BY <1>6 DEF MmapResults, Addrs, Desc
  <2>3. seg' \in Desc
    BY <1>6, <2>1, <2>2 DEF Desc, NullIfFailed, Null
  <2>4. fd.ino \in 0 .. Len(inode')
    BY <1>1, <1>3, <1>6 DEF NoFd
  <2>5. maps' \subseteq [at : Nat, len : 0 .. MaxLen, ino : 0 .. Len(inode')]
    BY <1>3, <1>6, <2>1, <2>2, <2>4 DEF Desc, Kept
  <2>6. open' \subseteq open /\ fd' = NoFd /\ pc' = "done" /\ ret' \in {"none", "ok", "fail"}
    BY <1>23, <2>1 DEF Mmap, Return, Closed
  <2>7. QED
    BY <1>1, <1>2, <1>3, <1>6, <1>23, <2>3, <2>5, <2>6 DEF Mmap, Types, WithFile, Outside
<1>24. QED
  BY <1>7, <1>8, <1>9, <1>10, <1>11, <1>12, <1>13, <1>15, <1>16, <1>17, <1>19, <1>21, <1>22, <1>23
     DEF Call

(***************************************************************************)
(* The caller and the other process keep the types as well.                *)
(***************************************************************************)
LEMMA OtherTypes ==
  ASSUME Types, UnmapSegment \/ CallAgain \/ Stopped \/ Replace \/ Resize \/ Chmod \/ UNCHANGED vars
  PROVE  Types'
<1>1. CASE UnmapSegment
  BY <1>1 DEF UnmapSegment, Types, files, WithFile, Outside
<1>2. CASE CallAgain
  <2>1. calls' \in 1 .. MaxCalls /\ 1 .. calls \subseteq 1 .. calls'
    BY <1>2 DEF CallAgain, Types
  <2>2. open' \subseteq [id : 1 .. calls', ino : 1 .. Len(inode')]
    BY <1>2, <2>1 DEF CallAgain, Types, files
  <2>3. QED
    BY <1>2, <2>1, <2>2 DEF CallAgain, Types, files, WithFile
<1>3. CASE Replace \/ Resize \/ Chmod
  <2>1. UNCHANGED <<pc, args, seg, want, open, fd, st, maps, ret, calls>>
    BY <1>3 DEF Replace, Resize, Chmod, Meddles
  <2>2. /\ inode' \in Seq(File) /\ Len(inode) \in Nat /\ Len(inode') \in Nat
        /\ Len(inode) <= Len(inode') /\ name' \in 0 .. Len(inode')
    BY <1>3, FilesStep DEF Next, Types
  <2>3. 1 .. Len(inode) \subseteq 1 .. Len(inode') /\ 0 .. Len(inode) \subseteq 0 .. Len(inode')
    BY <2>2
  <2>4. /\ open \subseteq [id : 1 .. calls, ino : 1 .. Len(inode')]
        /\ maps \subseteq [at : Nat, len : 0 .. MaxLen, ino : 0 .. Len(inode')]
    BY <2>3 DEF Types
  <2>5. QED
    BY <2>1, <2>2, <2>4 DEF Types
<1>4. CASE Stopped \/ UNCHANGED vars
  BY <1>4 DEF Stopped, vars, Types
<1>5. QED
  BY <1>1, <1>2, <1>3, <1>4

(***************************************************************************)
(* A call only loses track of its descriptor when fstat() has failed.      *)
(***************************************************************************)
LEMMA DescriptorsStep ==
  ASSUME Types, Descriptors, [Next]_vars
  PROVE  Descriptors'
<1>1. \A d \in open : d.id \in 1 .. calls
  BY DEF Types
<1>2. calls \in Nat
  BY DEF Types
<1>3. CASE fd' = fd /\ open' = open /\ calls' = calls /\ log \subseteq log'
  BY <1>3 DEF Descriptors
<1>4. CASE Call
  <2>1. calls' = calls
    BY <1>4 DEF Call
  <2>2. ASSUME NEW ino, Opened(ino), ~(pc \in WithFile \cup {"mmap"}), log' = log
        PROVE  Descriptors'
    <3>1. fd = NoFd
      BY <2>2 DEF Types
    <3>2. \A d \in open : d # fd
      <4>1. fd.id = 0
        BY <3>1 DEF NoFd
      <4>2. \A d \in open : d.id # 0
        BY <1>1
      <4>3. QED
        BY <4>1, <4>2
    <3>3. \A d \in open : d.id < calls' \/ "fstat failed" \in log'
      BY <2>1, <2>2, <3>2 DEF Descriptors
    <3>4. QED
      BY <2>2, <3>3 DEF Opened, Descriptors
  <2>3. CASE CreateFile
    BY <1>3, <2>1, <2>2, <2>3 DEF CreateFile, Fails, WithFile
  <2>4. CASE OpenFile
    BY <1>3, <2>1, <2>2, <2>4 DEF OpenFile, Fails, WithFile
  <2>5. CASE FStatFails
    BY <2>5 DEF FStatFails, Descriptors
  <2>6. CASE Mmap
    <3>1. fd' = NoFd /\ open' = open \ {fd} /\ log' = log
      BY <2>6 DEF Mmap, Closed
    <3>2. QED
      BY <2>1, <3>1 DEF Descriptors
  <2>7. CASE Allocate \/ Unlink
    BY <1>3, <2>1, <2>7 DEF Allocate, Unlink
  <2>8. QED
    BY <1>3, <1>4, <2>1, <2>3, <2>4, <2>5, <2>6, <2>7
       DEF Call, RejectArgs, Initialised, Uninitialised, AccessRead, AccessWrite, StatPath,
           UnlinkOld, StatDirFails, StatDir, FStat, Fails, Proceed
<1>5. CASE CallAgain
  <2>1. calls' = calls + 1 /\ open' = open
    BY <1>5 DEF CallAgain
  <2>2. \A d \in open : d.id < calls + 1
    BY <1>1, <1>2
  <2>3. QED
    BY <2>1, <2>2 DEF Descriptors
<1>6. CASE UnmapSegment \/ Stopped \/ Replace \/ Resize \/ Chmod \/ UNCHANGED vars
  BY <1>3, <1>6 DEF UnmapSegment, Stopped, Replace, Resize, Chmod, Meddles, vars
<1>7. QED
  BY <1>4, <1>5, <1>6 DEF Next

(***************************************************************************)
(* Only mmap() makes a mapping, and then the call succeeds, but for one at *)
(* address 0; only unmapping takes one away.                               *)
(***************************************************************************)
LEMMA MappingsStep ==
  ASSUME Types, Mappings, Asked, [Next]_vars
  PROVE  Mappings'
<1>1. CASE Call
  <2>1. ~Mapped /\ Held = {} /\ want' = want
    <3>1. pc # "done"
      BY <1>1 DEF Call, RejectArgs, Initialised, Uninitialised, AccessRead, AccessWrite, StatPath,
                  UnlinkOld, StatDirFails, StatDir, CreateFile, Allocate, OpenFile, FStat,
                  FStatFails, Unlink, Mmap
    <3>2. QED
      BY <1>1, <3>1 DEF Mapped, Mappings, Call
  <2>2. CASE maps' = maps /\ ~Mapped'
    BY <2>1, <2>2 DEF Mappings, Held
  <2>3. CASE Mmap
    <3>1. PICK ptr \in MmapResults :
            /\ maps' = IF ptr = MapFailed THEN maps
                       ELSE Kept(ptr, seg.maplen) \cup {[at |-> ptr, len |-> seg.maplen, ino |-> fd.ino]}
            /\ seg' = [seg EXCEPT !.ptr = NullIfFailed(ptr)]
      BY <2>3 DEF Mmap
    <3>2. seg \in Desc /\ ret' = IF seg'.ptr = Null THEN "fail" ELSE "ok"
      BY <2>3 DEF Mmap, Return, Types
    <3>3. seg'.ptr = NullIfFailed(ptr) /\ seg'.maplen = seg.maplen
      BY <3>1, <3>2 DEF Desc
    <3>4. CASE ptr = MapFailed
      <4>1. maps' = maps /\ ret' = "fail"
        BY <3>1, <3>2, <3>3, <3>4 DEF NullIfFailed
      <4>2. QED
        BY <2>2, <4>1 DEF Mapped
    <3>5. CASE ptr = Null
      <4>1. Held' = {}
        BY <2>1, <3>1, <3>5 DEF Held, Kept, Null, MapFailed
      <4>2. ret' = "fail"
        BY <3>2, <3>3, <3>5 DEF NullIfFailed, Null, MapFailed
      <4>3. "ADDR_FIXED" \in seg.flags
        BY <3>1, <3>5 DEF MmapResults, Addrs, Null, MapFailed, Has
      <4>4. pc = "mmap"
        BY <2>3 DEF Mmap
      <4>5. "INITD" \in want.flags
        BY <4>3, <4>4 DEF Asked, Running
      <4>6. {"INITD", "ADDR_FIXED"} \subseteq want'.flags
        BY <2>1, <4>3, <4>5 DEF Asked
      <4>7. QED
        BY <4>1, <4>2, <4>6 DEF Mapped, Mappings
    <3>6. CASE ptr # MapFailed /\ ptr # Null
      <4>1. seg.maplen # 0 /\ seg.maplen \in Nat
        BY <3>1, <3>2, <3>6 DEF MmapResults, Desc
      <4>2. seg'.ptr = ptr
        BY <3>3, <3>6 DEF NullIfFailed
      <4> DEFINE new == [at |-> ptr, len |-> seg.maplen, ino |-> fd.ino]
      <4>3. Held' = {new} /\ new.at = ptr /\ new.len = seg.maplen
        BY <2>1, <3>1, <3>6 DEF Held, Kept
      <4>4. maps' # Held' => maps # Held
        BY <2>1, <3>1, <3>6, <4>3 DEF Held, Kept
      <4>5. pc' = "done" /\ ret' = "ok"
        BY <2>3, <3>2, <3>6, <4>2 DEF Mmap, Return
      <4>6. QED
        BY <2>1, <3>3, <3>6, <4>1, <4>2, <4>3, <4>4, <4>5 DEF Mapped, Mappings
    <3>7. QED
      BY <3>4, <3>5, <3>6
  <2>4. QED
    BY <1>1, <2>2, <2>3
       DEF Call, RejectArgs, Initialised, Uninitialised, AccessRead, AccessWrite, StatPath,
           UnlinkOld, StatDirFails, StatDir, CreateFile, Allocate, OpenFile, FStat,
           FStatFails, Unlink, Fails, Proceed, Return, Mapped
<1>2. CASE UnmapSegment
  <2>1. ~Mapped' /\ want' = want
    BY <1>2 DEF UnmapSegment, Mapped
  <2>2. \E m \in Held : Held = {m} /\ m.at = seg.ptr /\ m.len = seg.maplen
    BY <1>2 DEF UnmapSegment, Mapped, Mappings
  <2>3. Held' = {}
    BY <1>2, <2>2 DEF UnmapSegment, Held
  <2>4. maps' # Held' => maps # Held
    BY <1>2, <2>3 DEF UnmapSegment, Held
  <2>5. QED
    BY <2>1, <2>3, <2>4 DEF Mappings
<1>3. CASE CallAgain
  <2>1. Held' = Held /\ maps' = maps /\ want' = seg /\ ~Mapped /\ ~Mapped'
    BY <1>3 DEF CallAgain, Mapped, Held
  <2>2. maps # Held => {"INITD", "ADDR_FIXED"} \subseteq seg.flags
    BY DEF Mappings, Asked
  <2>3. QED
    BY <2>1, <2>2 DEF Mappings
<1>4. CASE UNCHANGED <<pc, seg, want, maps, ret>>
  BY <1>4 DEF Mappings, Mapped, Held
<1>5. QED
  BY <1>1, <1>2, <1>3, <1>4 DEF Next, Stopped, Replace, Resize, Chmod, Meddles, vars

(***************************************************************************)
(* The flags steer the call as they were given; those of an uninitialised  *)
(* descriptor are gone before anything looks at them.                      *)
(***************************************************************************)
LEMMA AskedStep ==
  ASSUME Types, Asked, [Next]_vars
  PROVE  Asked'
<1> USE DEF Running, Creating, Opening, Outside
<1>1. seg \in Desc /\ want \in Desc
  BY DEF Types
<1>2. CASE Call
  <2>1. want' = want
    BY <1>2 DEF Call
  <2>2. CASE pc' \in {"done", "fault"} /\ seg'.flags = seg.flags
    BY <2>1, <2>2 DEF Asked
  <2>3. CASE Initialised
    <3>1. seg = want /\ "INITD" \in want.flags
      BY <2>3 DEF Initialised, Asked, PreInitialised, Has
    <3>2. CASE args.path
      BY <2>1, <2>3, <3>1, <3>2 DEF Initialised, Asked, Has
    <3>3. CASE ~args.path
      <4>1. pc' = "mmap" /\ seg'.flags = seg.flags \cup {"ANON"}
        BY <1>1, <2>3, <3>3 DEF Initialised, Desc
      <4>2. seg'.flags \ {"ANON"} = want'.flags \ {"ANON"} /\ "INITD" \in want'.flags
        BY <2>1, <3>1, <4>1
      <4>3. QED
        BY <4>1, <4>2 DEF Asked
    <3>4. QED
      BY <3>2, <3>3
  <2>4. CASE Uninitialised
    <3>1. "INITD" \notin want'.flags /\ seg'.flags = {}
      BY <2>1, <2>4 DEF Uninitialised, Asked, PreInitialised, Has, Cleared
    <3>2. pc' \in {"access_r", "done"}
      BY <2>4 DEF Uninitialised, Return
    <3>3. QED
      BY <3>1, <3>2 DEF Asked
  <2>5. CASE AccessRead /\ pc' # "done"
    <3>1. pc = "access_r" /\ pc' = "access_w" /\ seg'.flags = {"INITD"}
      BY <1>1, <2>5 DEF AccessRead, Fails, Return, Desc
    <3>2. QED
      BY <2>1, <3>1 DEF Asked
  <2>6. CASE AccessWrite
    <3>1. /\ pc = "access_w" /\ pc' = "open"
          /\ seg'.flags = seg.flags \/ seg'.flags = seg.flags \cup {"RO"}
      BY <1>1, <2>6 DEF AccessWrite, Desc
    <3>2. QED
      BY <2>1, <3>1 DEF Asked
  <2>7. CASE StatPath \/ UnlinkOld \/ StatDirFails \/ CreateFile \/ Allocate \/ OpenFile \/ Unlink
    <3>1. seg' = seg
      BY <2>7 DEF StatPath, UnlinkOld, StatDirFails, CreateFile, Allocate, OpenFile, Unlink, Proceed, Fails
    <3>2. CASE pc' = "done"
      BY <2>2, <3>1, <3>2
    <3>3. CASE pc' # "done"
      BY <2>1, <2>7, <3>1, <3>3
         DEF StatPath, UnlinkOld, StatDirFails, CreateFile, Allocate, OpenFile, Unlink, Proceed,
             Fails, Return, Asked
    <3>4. QED
      BY <3>2, <3>3
  <2>8. CASE StatDir \/ FStat
    <3>1. seg'.flags = seg.flags
      BY <1>1, <2>8 DEF StatDir, FStat, Desc
    <3>2. QED
      BY <2>1, <2>8, <3>1 DEF StatDir, FStat, Asked, Has
  <2>9. CASE RejectArgs \/ (AccessRead /\ pc' = "done") \/ FStatFails \/ Mmap
    <3>1. pc' = "done" /\ seg'.flags = seg.flags
      BY <1>1, <2>9 DEF RejectArgs, AccessRead, FStatFails, Mmap, Fails, Return, Desc
    <3>2. QED
      BY <2>2, <3>1
  <2>10. QED
    BY <1>2, <2>3, <2>4, <2>5, <2>6, <2>7, <2>8, <2>9 DEF Call
<1>3. CASE UnmapSegment \/ CallAgain
  BY <1>3 DEF UnmapSegment, CallAgain, Asked
<1>4. CASE UNCHANGED <<pc, seg, want>>
  BY <1>4 DEF Asked
<1>5. QED
  BY <1>2, <1>3, <1>4 DEF Next, Stopped, Replace, Resize, Chmod, Meddles, vars

(***************************************************************************)
(* What fstat() has said of the file stays true of the mapping.            *)
(***************************************************************************)
LEMMA LengthsStep ==
  ASSUME Types, Mappings, Asked, Lengths, [Next]_vars
  PROVE  Lengths'
<1> SUFFICES ASSUME "resize" \notin meddled' PROVE Lengths'
  BY DEF Lengths
<1>1. "resize" \notin meddled /\ \A n \in 1 .. Len(inode) : Keeps(inode[n], inode'[n], n)
  BY FilesStep
<1>2. /\ pc \in {"unlink", "mmap"} /\ fd # NoFd => Fits(seg.maplen, fd.ino)
      /\ \A m \in maps : m.ino # 0 => Within(m.len, m.ino)
      /\ \A m \in Held : m.ino # 0 => Fits(m.len, m.ino)
  BY <1>1 DEF Lengths
<1>3. /\ \A n \in 1 .. Len(inode) : inode[n] \in File
      /\ fd = NoFd \/ fd.ino \in 1 .. Len(inode)
      /\ \A m \in maps : m.len \in Nat /\ (m.ino # 0 => m.ino \in 1 .. Len(inode))
      /\ Len(inode) \in Nat
  BY ElementOfSeq DEF Types
<1>4. ASSUME NEW len \in Nat, NEW ino \in 1 .. Len(inode), Within(len, ino)
      PROVE  Within(len, ino)'
  <2>1. inode[ino].size \in Nat /\ inode'[ino].size \in Nat
    <3>1. inode[ino] \in File /\ inode'[ino] \in File
      <4>1. ino \in 1 .. Len(inode')
        BY <1>3, FilesStep
      <4>2. QED
        BY <1>3, <4>1, FilesStep, ElementOfSeq
    <3>2. QED
      BY <3>1 DEF File
  <2>2. inode[ino].size <= inode'[ino].size
    BY <1>1, <2>1 DEF Keeps
  <2>3. QED
    BY <1>4, <2>1, <2>2 DEF Within
<1>5. ASSUME pc # "allocate", NEW len, NEW ino \in 1 .. Len(inode), Fits(len, ino)
      PROVE  Fits(len, ino)'
  BY <1>1, <1>5 DEF Fits, Within, Keeps
<1>6. \A m \in maps : m.ino # 0 => Within(m.len, m.ino)'
  BY <1>2, <1>3, <1>4
<1>7. CASE Call
  <2>1. Mappings' /\ meddled' = meddled
    BY <1>7, MappingsStep DEF Next, Call
  <2>2. pc # "done" /\ Held = {}
    BY <1>7 DEF Call, RejectArgs, Initialised, Uninitialised, AccessRead, AccessWrite, StatPath,
                UnlinkOld, StatDirFails, StatDir, CreateFile, Allocate, OpenFile, FStat,
                FStatFails, Unlink, Mmap, Mappings, Mapped
  <2>3. CASE maps' = maps /\ ~(pc' \in {"unlink", "mmap"} /\ fd' # NoFd)
    BY <1>6, <2>2, <2>3 DEF Lengths, Held
  <2>4. CASE Initialised
    <3>1. fd = NoFd
      BY <2>4 DEF Initialised, Types, WithFile
    <3>2. QED
      BY <2>3, <2>4, <3>1 DEF Initialised
  <2>5. CASE FStat
    <3>1. inode' = inode /\ fd' = fd /\ maps' = maps /\ fd.ino \in 1 .. Len(inode)
      BY <1>3, <2>5 DEF FStat, files, Types, WithFile
    <3>2. seg'.maplen = WholePages(inode[fd.ino].size, inode[fd.ino].page)
      BY <2>5 DEF FStat, Types, Desc
    <3>3. inode[fd.ino].size \in Nat /\ inode[fd.ino].page \in PageLens
      BY <1>3, <3>1 DEF File
    <3>4. Fits(seg.maplen, fd.ino)'
      BY <3>1, <3>2, <3>3, WholePagesBounds DEF Fits, Within
    <3>5. QED
      BY <1>6, <2>2, <3>1, <3>4 DEF Lengths, Held
  <2>6. CASE Unlink
    <3>1. pc = "unlink" /\ seg' = seg /\ fd' = fd /\ maps' = maps /\ inode' = inode
      BY <2>6 DEF Unlink
    <3>2. fd' # NoFd => Fits(seg.maplen, fd.ino)'
      BY <1>2, <3>1 DEF Fits, Within
    <3>3. QED
      BY <1>6, <2>2, <3>1, <3>2 DEF Lengths, Held
  <2>7. CASE Mmap
    <3>1. pc = "mmap" /\ pc' = "done" /\ inode' = inode
      BY <2>7 DEF Mmap, Return, files
    <3> DEFINE new(ptr) == [at |-> ptr, len |-> seg.maplen, ino |-> fd.ino]
    <3>2. PICK ptr : maps' = IF ptr = MapFailed THEN maps
                             ELSE Kept(ptr, seg.maplen) \cup {new(ptr)}
      BY <2>7 DEF Mmap
    <3>3. fd.ino # 0 => Fits(seg.maplen, fd.ino)
      BY <1>2, <3>1 DEF NoFd
    <3>4. \A m \in maps' : m \in maps \/ m = new(ptr)
      BY <3>2 DEF Kept
    <3>5. \A m \in maps' : m.ino # 0 => Within(m.len, m.ino)'
      BY <1>6, <3>1, <3>3, <3>4 DEF Fits, Within
    <3>6. \A m \in Held' : m = new(ptr)
      BY <2>2, <3>4 DEF Held
    <3>7. \A m \in Held' : m.ino # 0 => Fits(m.len, m.ino)'
      BY <3>1, <3>3, <3>6 DEF Fits, Within
    <3>8. QED
      BY <3>1, <3>5, <3>7 DEF Lengths
  <2>8. QED
    BY <1>7, <2>3, <2>4, <2>5, <2>6, <2>7
       DEF Call, RejectArgs, Uninitialised, AccessRead, AccessWrite, StatPath, UnlinkOld,
           StatDirFails, StatDir, CreateFile, Allocate, OpenFile, FStatFails, Fails, Proceed, Return
<1>8. CASE ~Call
  <2>1. /\ maps' \subseteq maps /\ fd' = fd /\ seg' = seg
        /\ pc' = pc \/ pc' \in {"entry", "unmapped"}
    BY <1>8 DEF Next, UnmapSegment, CallAgain, Stopped, Replace, Resize, Chmod, Meddles, vars
  <2>2. Held' \subseteq Held
    BY <2>1 DEF Held
  <2>3. \A m \in maps' : m.ino # 0 => Within(m.len, m.ino)'
    BY <1>6, <2>1
  <2>4. CASE pc # "allocate"
    <3>1. pc' \in {"unlink", "mmap"} /\ fd' # NoFd => Fits(seg.maplen, fd.ino)'
      BY <1>2, <1>3, <1>5, <2>1, <2>4
    <3>2. \A m \in Held' : m.ino # 0 => Fits(m.len, m.ino)'
      BY <1>2, <1>3, <1>5, <2>2, <2>4 DEF Held
    <3>3. QED
      BY <2>3, <3>1, <3>2 DEF Lengths
  <2>5. CASE pc = "allocate"
    <3>1. Held = {}
      BY <2>5 DEF Mappings, Mapped
    <3>2. QED
      BY <2>1, <2>2, <2>3, <2>5, <3>1 DEF Lengths
  <2>6. QED
    BY <2>4, <2>5
<1>9. QED
  BY <1>7, <1>8

(***************************************************************************)
(* The length asked for is rounded up to the pages of the directory,       *)
(* allocated, read back in the pages of the file and mapped.               *)
(***************************************************************************)
LEMMA CreatedStep ==
  ASSUME Types, Asked, Created, [Next]_vars
  PROVE  Created'
<1> DEFINE Wanted == args.path /\ {"INITD", "CREATE"} \subseteq want.flags
<1>1. seg \in Desc /\ want \in Desc
  BY DEF Types
<1>2. CASE Call
  <2> SUFFICES ASSUME Wanted' PROVE Created'
    BY DEF Created
  <2>1. /\ args' = args /\ want' = want /\ meddled' = meddled
        /\ Wanted
    BY <1>2 DEF Call
  <2>2. CASE pc' = "done" /\ ret' # "ok"
    BY <2>2 DEF Created, Mapped
  <2>3. CASE RejectArgs \/ FStatFails
    BY <2>2, <2>3 DEF RejectArgs, FStatFails, Fails, Return
  <2>4. CASE Initialised
    <3>1. seg = want /\ Has("CREATE")
      BY <2>1, <2>4 DEF Initialised, Asked, Has
    <3>2. pc' = "stat" /\ seg' = want'
      BY <2>1, <2>4, <3>1 DEF Initialised
    <3>3. QED
      BY <3>2 DEF Created, Mapped
  <2>5. CASE Uninitialised
    <3>1. "INITD" \notin want.flags
      BY <2>5 DEF Uninitialised, Asked, PreInitialised, Has
    <3>2. QED
      BY <2>1, <3>1
  <2>6. CASE AccessRead \/ AccessWrite \/ OpenFile
    <3>1. pc \in {"access_r", "access_w", "open"}
      BY <2>6 DEF AccessRead, AccessWrite, OpenFile
    <3>2. QED
      BY <2>1, <3>1 DEF Asked
  <2>7. CASE StatPath \/ UnlinkOld
    <3>1. /\ seg' = seg /\ st' = st /\ pc \in {"stat", "unlink_old"}
          /\ pc' \in {"unlink_old", "stat_dir"}
      BY <2>7 DEF StatPath, UnlinkOld, Proceed
    <3>2. QED
      BY <2>1, <3>1 DEF Created, Mapped
  <2>8. CASE StatDirFails
    BY <2>2, <2>8 DEF StatDirFails, Fails, Proceed, Return, Created, Mapped
  <2>9. CASE StatDir
    <3>1. pc = "stat_dir" /\ pc' = "create" /\ st' \in PageLens /\ seg'.maplen = RoundedUp(seg.maplen, st')
      BY <1>1, <2>9 DEF StatDir, Desc
    <3>2. seg.maplen = want.maplen
      BY <2>1, <3>1 DEF Created
    <3>3. QED
      BY <2>1, <3>1, <3>2 DEF Created, Mapped
  <2>10. CASE CreateFile
    <3>1. CASE Fails
      BY <2>2, <3>1 DEF Fails, Return
    <3>2. CASE pc = "create" /\ pc' = "allocate" /\ seg' = seg /\ st' = st
      BY <2>1, <2>10, <3>2 DEF CreateFile, Created, Mapped
    <3>3. QED
      BY <2>10, <3>1, <3>2 DEF CreateFile
  <2>11. CASE Allocate
    <3>1. pc = "allocate" /\ pc' = "fstat" /\ fd' = fd /\ st' = st
      BY <2>11 DEF Allocate
    <3>2. PICK n \in inode[fd.ino].size .. MaxLen, failed \in BOOLEAN :
            /\ ~failed => n >= seg.maplen
            /\ inode' = [inode EXCEPT ![fd.ino].size = n]
            /\ log' = IF failed THEN log \cup {"allocation failed"} ELSE log
      BY <2>11 DEF Allocate
    <3>3. CASE failed
      BY <2>1, <3>1, <3>2, <3>3 DEF Created, Mapped, Disturbed
    <3>4. CASE ~failed
      <4>1. fd.ino \in 1 .. Len(inode) /\ inode \in Seq(File)
        BY <3>1 DEF Types, WithFile
      <4>2. inode[fd.ino] \in File
        BY <4>1, ElementOfSeq
      <4>3. inode'[fd.ino].size = n
        <5> DEFINE f == [inode[fd.ino] EXCEPT !.size = n]
        <5>1. f \in File
          <6>1. inode[fd.ino].size \in 0 .. MaxLen
            BY <4>2 DEF File
          <6>2. n \in 0 .. MaxLen
            BY <6>1
          <6>3. QED
            BY <4>2, <6>2 DEF File
        <5>2. f.size = n
          BY <4>2 DEF File
        <5>3. inode' = [inode EXCEPT ![fd.ino] = f]
          BY <3>2
        <5> HIDE DEF f
        <5>4. inode'[fd.ino] = f
          BY <4>1, <5>1, <5>3, ExceptSeq
        <5>5. QED
          BY <5>2, <5>4
      <4>4. seg.maplen = RoundedUp(want.maplen, st) /\ st \in PageLens
        BY <2>1, <3>1 DEF Created
      <4>5. inode'[fd'.ino].size >= RoundedUp(want'.maplen, st')
        BY <2>1, <3>1, <3>2, <3>4, <4>3, <4>4
      <4>6. QED
        BY <3>1, <4>4, <4>5 DEF Created, Mapped
    <3>5. QED
      BY <3>3, <3>4
  <2>12. CASE FStat
    <3>1. /\ pc = "fstat" /\ pc' \in {"unlink", "mmap"} /\ st' = inode[fd.ino].page
          /\ log' = IF st < st' THEN log \cup {"larger pages"} ELSE log
      BY <2>12 DEF FStat
    <3>2. seg'.maplen = WholePages(inode[fd.ino].size, st')
      BY <1>1, <2>12 DEF FStat, Desc
    <3>3. st \in PageLens /\ (Disturbed \/ inode[fd.ino].size >= RoundedUp(want.maplen, st))
      BY <2>1, <3>1 DEF Created
    <3>4. inode[fd.ino].size \in Nat /\ st' \in PageLens /\ want.maplen \in 0 .. MaxLen
      <4>1. fd.ino \in 1 .. Len(inode) /\ inode \in Seq(File)
        BY <3>1 DEF Types, WithFile
      <4>2. inode[fd.ino] \in File
        BY <4>1, ElementOfSeq
      <4>3. inode[fd.ino].size \in 0 .. MaxLen /\ inode[fd.ino].page \in PageLens
        BY <4>2 DEF File
      <4>4. inode[fd.ino].size \in Nat
        BY <4>3
      <4>5. QED
        BY <1>1, <3>1, <4>3, <4>4 DEF Desc
    <3>5. \/ Disturbed \/ seg'.maplen >= want.maplen
          \/ st < st' /\ seg'.maplen + st' > want.maplen
      <4>1. CASE Disturbed
        BY <4>1
      <4>2. CASE ~Disturbed
        <5>1. /\ st' <= st => seg'.maplen >= want.maplen
              /\ seg'.maplen + st' > want.maplen
          BY <3>2, <3>3, <3>4, <4>2, RequestFits
        <5>2. QED
          BY <3>3, <3>4, <5>1
      <4>3. QED
        BY <4>1, <4>2
    <3>6. QED
      BY <2>1, <3>1, <3>5 DEF Created, Mapped, Disturbed
  <2>13. CASE Unlink
    <3>1. pc = "unlink" /\ pc' = "mmap" /\ seg' = seg /\ st' = st /\ log \subseteq log'
      BY <2>13 DEF Unlink
    <3>2. QED
      BY <2>1, <3>1 DEF Created, Mapped, Disturbed
  <2>14. CASE Mmap
    <3>1. pc = "mmap" /\ pc' = "done" /\ log' = log /\ st' = st /\ seg'.maplen = seg.maplen
      BY <1>1, <2>14 DEF Mmap, Return, Desc
    <3>2. QED
      BY <2>1, <3>1 DEF Created, Mapped, Disturbed
  <2>15. QED
    BY <1>2, <2>3, <2>4, <2>5, <2>6, <2>7, <2>8, <2>9, <2>10, <2>11, <2>12, <2>13, <2>14 DEF Call
<1>3. CASE UnmapSegment
  BY <1>3 DEF UnmapSegment, Created, Mapped
<1>4. CASE CallAgain
  BY <1>4 DEF CallAgain, Created, Mapped
<1>5. CASE Replace \/ Resize \/ Chmod
  <2>1. /\ UNCHANGED <<pc, args, seg, want, fd, st, ret, log>>
        /\ meddled \subseteq meddled'
    BY <1>5 DEF Replace, Resize, Chmod, Meddles
  <2>2. pc = "fstat" => fd.ino \in 1 .. Len(inode)
    BY DEF Types, WithFile
  <2>3. pc = "fstat" => inode'[fd.ino].size = inode[fd.ino].size \/ "resize" \in meddled'
    BY <2>2, FilesStep DEF Keeps
  <2>4. QED
    BY <2>1, <2>3 DEF Created, Mapped, Disturbed
<1>6. CASE Stopped \/ UNCHANGED vars
  BY <1>6 DEF Stopped, vars, Created, Mapped, Disturbed
<1>7. QED
  BY <1>2, <1>3, <1>4, <1>5, <1>6 DEF Next

------------------------------------------------------------------------------
(* The inductive invariant.                                                 *)

(***************************************************************************)
(* The invariant holds when the function is first entered.                 *)
(***************************************************************************)
LEMMA InitInvariant == Init => IInv
<1> SUFFICES ASSUME Init PROVE IInv
  OBVIOUS
<1>1. /\ pc = "entry" /\ seg \in Given /\ want = seg /\ args \in Args
      /\ open = {} /\ fd = NoFd /\ st = 0 /\ maps = {}
      /\ ret = "none" /\ calls = 1
  BY DEF Init
<1>2. inode \in Seq(File) /\ name \in 0 .. Len(inode)
  <2>1. CASE name = 0 /\ inode = << >>
    BY <2>1
  <2>2. CASE name = 1 /\ \E f \in Files : inode = <<f>>
    <3>1. PICK f \in Files : inode = <<f>>
      BY <2>2
    <3>2. f \in File
      BY DEF File
    <3>3. QED
      BY <2>2, <3>1, <3>2
  <2>3. QED
    BY <2>1, <2>2 DEF Init
<1>3. seg \in Desc
  BY <1>1 DEF Desc
<1>4. Types
  BY <1>1, <1>2, <1>3 DEF Types, WithFile
<1>5. Descriptors /\ Mappings /\ Lengths
  BY <1>1 DEF Descriptors, Mappings, Mapped, Held, Lengths
<1>6. Asked /\ Created
  BY <1>1 DEF Asked, Running, Creating, Opening, Created, Mapped
<1>7. QED
  BY <1>4, <1>5, <1>6 DEF IInv

(***************************************************************************)
(* Every step of the call, of its caller and of the other process keeps    *)
(* all of its parts.                                                       *)
(***************************************************************************)
LEMMA StepInvariant == IInv /\ [Next]_vars => IInv'
<1> SUFFICES ASSUME IInv, [Next]_vars PROVE IInv'
  OBVIOUS
<1>1. Types'
  BY CallTypes, OtherTypes DEF IInv, Next
<1>2. QED
  BY <1>1, DescriptorsStep, MappingsStep, AskedStep, LengthsStep, CreatedStep DEF IInv

(***************************************************************************)
(* The invariant holds in every state of every behaviour.                  *)
(***************************************************************************)
LEMMA SegmentInvariant == Spec => []IInv
BY InitInvariant, StepInvariant, PTL DEF Spec

------------------------------------------------------------------------------
(* What the runs check.                                                     *)

(***************************************************************************)
(* Every variable keeps its type, and the function holds a descriptor      *)
(* only between open() and close().                                        *)
(***************************************************************************)
THEOREM TypeCorrect == Spec => []TypeOK
<1>1. IInv => TypeOK
  <2> SUFFICES ASSUME IInv PROVE TypeOK
    OBVIOUS
  <2>1. \A n \in 1 .. Len(inode) : inode[n].size \in 0 .. MaxLen /\ inode[n].page \in PageLens
    <3>1. \A n \in 1 .. Len(inode) : inode[n] \in File
      BY ElementOfSeq DEF IInv, Types
    <3>2. QED
      BY <3>1 DEF File
  <2>2. QED
    BY <2>1 DEF IInv, Types, TypeOK, Desc, WithFile, Running, Creating, Opening, Outside
<1>2. QED
  BY <1>1, SegmentInvariant, PTL

(***************************************************************************)
(* Only a failed fstat() leaves a descriptor open, however many calls      *)
(* there are and whatever of them fails.                                   *)
(***************************************************************************)
THEOREM DescriptorsClosed == Spec => []NoStrayDescriptor
<1>1. IInv => NoStrayDescriptor
  <2> SUFFICES ASSUME IInv, pc \in {"done", "unmapped"}, NEW d \in open
               PROVE  d.id < calls \/ "fstat failed" \in log
    BY DEF NoStrayDescriptor
  <2>1. fd = NoFd
    BY DEF IInv, Types, WithFile
  <2>2. d.id \in Nat /\ d.id # 0 /\ fd.id = 0
    BY <2>1 DEF IInv, Types, NoFd
  <2>3. QED
    BY <2>2 DEF IInv, Descriptors
<1>2. QED
  BY <1>1, SegmentInvariant, PTL

(***************************************************************************)
(* A successful call leaves the one mapping its descriptor names, and      *)
(* nothing is mapped after a failed call or an unmapping, but what a       *)
(* caller who fixes the address has had mapped at 0.                       *)
(***************************************************************************)
THEOREM DescribedMapping == Spec => []MappedAsDescribed
<1>1. IInv => MappedAsDescribed
  <2> SUFFICES ASSUME IInv PROVE MappedAsDescribed
    OBVIOUS
  <2>1. Mappings
    BY DEF IInv
  <2>2. CASE Mapped
    BY <2>1, <2>2 DEF Mapped, Mappings, MappedAsDescribed
  <2>3. CASE ~Mapped
    BY <2>1, <2>3 DEF Mapped, Mappings, MappedAsDescribed
  <2>4. QED
    BY <2>2, <2>3
<1>2. QED
  BY <1>1, SegmentInvariant, PTL

(***************************************************************************)
(* A file mapping lies inside its file, and that of a segment a call got   *)
(* misses less than one of the file's own pages of it, for every set of    *)
(* page sizes, as long as nobody resizes the file.                         *)
(***************************************************************************)
THEOREM MappingInsideFile == Spec => []InsideFile
<1>1. IInv => InsideFile
  BY DEF IInv, Lengths, Fits, Within, InsideFile, Held
<1>2. QED
  BY <1>1, SegmentInvariant, PTL

(***************************************************************************)
(* A created segment is as long as was asked for, unless its allocation    *)
(* failed, the file was resized, or its pages are larger than those of the *)
(* directory; then it is short by less than one of them.                   *)
(***************************************************************************)
THEOREM LongEnough == Spec => []CreatedLongEnough
<1>1. IInv => CreatedLongEnough
  BY DEF IInv, Created, Mapped, Disturbed, CreatedLongEnough
<1>2. QED
  BY <1>1, SegmentInvariant, PTL

\* What justifies that a step changes the file the path names.
Justified ==
  /\ "INITD" \in want.flags
  /\ fd = NoFd => "CREATE" \in want.flags
  /\ fd # NoFd => "UNLINK" \in want.flags /\ name' = 0

(***************************************************************************)
(* The steps in which a call removes or creates a file: two before it has  *)
(* a descriptor for it, and the unlink() afterwards.                       *)
(***************************************************************************)
LEMMA NameStep ==
  ASSUME IInv, [Next]_vars, name' # name, pc' # pc
  PROVE  Justified
<1>1. Call
  BY DEF Next, UnmapSegment, CallAgain, Stopped, Replace, Resize, Chmod, Meddles, vars, files
<1>2. UnlinkOld \/ CreateFile \/ Unlink
  BY <1>1 DEF Call, RejectArgs, Initialised, Uninitialised, AccessRead, AccessWrite, StatPath,
              StatDirFails, StatDir, Allocate, OpenFile, FStat, FStatFails, Mmap, Fails,
              Proceed, files
<1>3. CASE UnlinkOld \/ CreateFile
  <2>1. pc \in {"unlink_old", "create"}
    BY <1>3 DEF UnlinkOld, CreateFile
  <2>2. fd = NoFd
    BY <2>1 DEF IInv, Types, WithFile
  <2>3. {"INITD", "CREATE"} \subseteq want.flags
    BY <2>1 DEF IInv, Asked, Creating
  <2>4. QED
    BY <2>2, <2>3 DEF Justified
<1>4. CASE Unlink
  <2>1. pc = "unlink" /\ name' = 0
    BY <1>4 DEF Unlink
  <2>2. fd # NoFd
    BY <2>1 DEF IInv, Types, WithFile
  <2>3. "UNLINK" \in seg.flags
    BY <2>1 DEF IInv, Asked
  <2>4. "INITD" \in want.flags
    BY <2>1, <2>3 DEF IInv, Asked, Running
  <2>5. "UNLINK" \in want.flags
    BY <2>3, <2>4 DEF IInv, Asked
  <2>6. QED
    BY <2>1, <2>2, <2>4, <2>5 DEF Justified
<1>5. QED
  BY <1>2, <1>3, <1>4

(***************************************************************************)
(* A call puts a new file at the path, or removes the old one before, only *)
(* when an initialised descriptor asks for CREATE, and removes the file it *)
(* has opened only when one asks for UNLINK.                               *)
(***************************************************************************)
THEOREM FilesAsAsked == Spec => OnlyAsAsked
<1>1. IInv /\ [Next]_vars => [name' # name /\ pc' # pc => Justified]_vars
  BY NameStep
<1>2. QED
  BY <1>1, SegmentInvariant, PTL DEF Spec, OnlyAsAsked, Justified
==============================================================================
