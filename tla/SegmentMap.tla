----------------------------- MODULE SegmentMap ------------------------------
(***************************************************************************)
(* map_segment() and unmap_segment() of src/base_util.c: a memory segment  *)
(* is mapped, over a file that is opened or created or anonymously, as a   *)
(* descriptor filled in by the caller asks, and the descriptor is updated. *)
(* The caller may unmap a segment it got, and call again with the          *)
(* descriptor as the last call left it.                                    *)
(*                                                                         *)
(* A step is one system call with the code up to the next.  Any call may   *)
(* fail, and between two of them another process may change the file.      *)
(*                                                                         *)
(* A page size is the larger of PAGE_SIZE and an st_blksize.  The code     *)
(* takes that of the directory to round up and that of the file to round   *)
(* down, and the two can differ.                                           *)
(***************************************************************************)
EXTENDS Integers, Sequences, FiniteSets

CONSTANTS PageLens,    \* the page sizes of files and directories
          MaxLen,      \* largest file considered
          Files,       \* the files others leave: size, permissions, page size
          Args,        \* the arguments considered: which of them are there
          Given,       \* the descriptors considered: flags, maplen, ptr
          MaxCalls,    \* most calls with one descriptor
          MaxMeddles   \* most interferences by another process

Flags == {"INITD", "RO", "UNLINK", "CREATE", "ADDR_HINT", "ADDR_FIXED", "ANON"}

\* Powers of two in the code, so that the greater is a multiple of the less.
ASSUME LengthAssumption ==
  /\ MaxLen \in Nat /\ PageLens \subseteq Nat \ {0} /\ PageLens # {}
  /\ \A p \in PageLens : /\ MaxLen % p = 0
                         /\ \A q \in PageLens : p <= q => q % p = 0
ASSUME FilesAssumption  ==
  Files \subseteq [size : 0 .. MaxLen, r : BOOLEAN, w : BOOLEAN, page : PageLens]
ASSUME ArgsAssumption   ==
  Args \subseteq [path : BOOLEAN, seg : BOOLEAN, errbuf : BOOLEAN, eblen : BOOLEAN]
ASSUME BoundsAssumption == MaxCalls \in Nat \ {0} /\ MaxMeddles \in Nat
ASSUME GivenAssumption  ==
  Given \subseteq [flags : SUBSET Flags, maplen : 0 .. MaxLen, ptr : Nat]

VARIABLES pc,       \* the next system call, or "done", "unmapped", "fault"
          args,     \* which arguments are there: path, seg, errbuf, eblen # 0
          seg,      \* the descriptor: flags, maplen, ptr
          want,     \* history: the descriptor at the entry of this call
          inode,    \* the files there have been: size, permissions, page size
          name,     \* the file the path names, 0 if none
          open,     \* the open descriptors: id and file
          fd,       \* the one this call has opened, or NoFd
          st,       \* the page size that st gives, 0 while st is zeroes
          maps,     \* the mappings
          ret,      \* "none", "ok" (0) or "fail" (-1)
          calls,    \* how many calls there have been
          log,      \* history: what this call met, see below
          meddled   \* history: what the other process has done

vars == <<pc, args, seg, want, inode, name, open, fd, st, maps, ret, calls, log, meddled>>
files == <<inode, name>>

Null == 0
MapFailed == -1
Addrs == {1, 2}
NoFd == [id |-> 0, ino |-> 0]

Init == /\ pc = "entry"
        /\ args \in Args
        /\ seg \in Given
        /\ want = seg
        /\ \/ name = 0 /\ inode = << >>
           \/ name = 1 /\ \E f \in Files : inode = <<f>>
        /\ open = {}
        /\ fd = NoFd
        /\ st = 0
        /\ maps = {}
        /\ ret = "none"
        /\ calls = 1
        /\ log = {}
        /\ meddled = {}

(* ---- Helpers --------------------------------------------------------- *)

Has(flag) == flag \in seg.flags

\* Mutants of the next definition.
PreInitialised_AnyFlag == seg.flags # {}

\* seg->flags & SEG_DESC_INITD
PreInitialised == Has("INITD")

Return(r) == pc' = "done" /\ ret' = r

\* A failed system call that is reported to the caller.
Fails == Return("fail") /\ UNCHANGED <<seg, files, open, fd, st, maps, log>>

\* Nothing but the program counter moves.
Proceed(next) == pc' = next /\ UNCHANGED <<seg, files, open, fd, st, maps, ret, log>>

\* memset(seg, 0, ...): what an uninitialised descriptor holds means nothing.
Cleared == [flags |-> {}, maplen |-> 0, ptr |-> Null]

\* Mutants of the next two definitions.
RoundedUp_NextPage(n, page) == (n \div page + 1) * page
RoundedUp_Down(n, page) == (n \div page) * page
WholePages_Up(n, page)  == ((n + page - 1) \div page) * page

\* (n + pmask) & ~pmask and n & ~pmask.
RoundedUp(n, page)  == ((n + page - 1) \div page) * page
WholePages(n, page) == (n \div page) * page

EmptyFile(page) == [size |-> 0, r |-> TRUE, w |-> TRUE, page |-> page]

(* ---- Entry ----------------------------------------------------------- *)

RejectArgs ==
  /\ pc = "entry"
  /\ (args.eblen /\ ~args.errbuf) \/ ~args.seg
  /\ Fails

Initialised ==
  /\ pc = "entry"
  /\ args.seg /\ (args.eblen => args.errbuf)
  /\ PreInitialised
  /\ pc' = IF ~args.path THEN "mmap" ELSE IF Has("CREATE") THEN "stat" ELSE "open"
  /\ seg' = IF args.path THEN seg ELSE [seg EXCEPT !.flags = @ \cup {"ANON"}]
  /\ UNCHANGED <<files, open, fd, st, maps, ret, log>>

Uninitialised ==
  /\ pc = "entry"
  /\ args.seg /\ (args.eblen => args.errbuf)
  /\ ~PreInitialised
  /\ seg' = Cleared
  /\ IF args.path THEN pc' = "access_r" /\ ret' = ret ELSE Return("fail")
  /\ UNCHANGED <<files, open, fd, st, maps, log>>

AccessRead ==
  /\ pc = "access_r"
  /\ \/ Fails
     \/ /\ name # 0 /\ inode[name].r
        /\ pc' = "access_w"
        /\ seg' = [seg EXCEPT !.flags = {"INITD"}]
        /\ UNCHANGED <<files, open, fd, st, maps, ret, log>>

AccessWrite ==
  /\ pc = "access_w"
  /\ pc' = "open"
  /\ \/ seg' = [seg EXCEPT !.flags = @ \cup {"RO"}]
     \/ name # 0 /\ inode[name].w /\ seg' = seg
  /\ UNCHANGED <<files, open, fd, st, maps, ret, log>>

(* ---- Creating a file ------------------------------------------------- *)

StatPath ==
  /\ pc = "stat"
  /\ \/ name # 0 /\ Proceed("unlink_old")
     \/ Proceed("stat_dir")

\* The result of unlink() is not looked at.
UnlinkOld ==
  /\ pc = "unlink_old"
  /\ pc' = "stat_dir"
  /\ name' \in {name, 0}
  /\ UNCHANGED <<seg, inode, open, fd, st, maps, ret, log>>

\* The one report that does not ask whether there is an errbuf.
StatDirFails ==
  /\ pc = "stat_dir"
  /\ IF args.errbuf THEN Fails ELSE Proceed("fault")

StatDir ==
  /\ pc = "stat_dir"
  /\ pc' = "create"
  /\ st' \in PageLens
  /\ seg' = [seg EXCEPT !.maplen = RoundedUp(@, st')]
  /\ UNCHANGED <<files, open, fd, maps, ret, log>>

Opened(ino) == /\ fd' = [id |-> calls, ino |-> ino]
               /\ open' = open \cup {fd'}

\* open(path, O_CREAT | O_RDWR, 0600): whatever file is there by now.
CreateFile ==
  /\ pc = "create"
  /\ \/ Fails
     \/ /\ name # 0 /\ inode[name].r /\ inode[name].w
        /\ Opened(name)
        /\ pc' = "allocate"
        /\ UNCHANGED <<seg, files, st, maps, ret, log>>
     \/ /\ name = 0
        /\ \E page \in PageLens : inode' = Append(inode, EmptyFile(page))
        /\ name' = Len(inode')
        /\ Opened(name')
        /\ pc' = "allocate"
        /\ UNCHANGED <<seg, st, maps, ret, log>>

\* posix_fallocate() returns zero or a positive error number, never a
\* negative one: the error branch behind it is not taken.  A failed
\* allocation may have grown the file part of the way.
Allocate ==
  /\ pc = "allocate"
  /\ pc' = "fstat"
  /\ \E n \in inode[fd.ino].size .. MaxLen, failed \in BOOLEAN :
       /\ n <= inode[fd.ino].size \/ n <= seg.maplen
       /\ ~failed => n >= seg.maplen /\ seg.maplen > 0
       /\ inode' = [inode EXCEPT ![fd.ino].size = n]
       /\ log' = IF failed THEN log \cup {"allocation failed"} ELSE log
  /\ UNCHANGED <<seg, name, open, fd, st, maps, ret>>

(* ---- Opening a file -------------------------------------------------- *)

OpenFile ==
  /\ pc = "open"
  /\ \/ Fails
     \/ /\ name # 0 /\ inode[name].r /\ (inode[name].w \/ Has("RO"))
        /\ Opened(name)
        /\ pc' = "fstat"
        /\ UNCHANGED <<seg, files, st, maps, ret, log>>

(* ---- Size, unlink, map ----------------------------------------------- *)

FStat ==
  /\ pc = "fstat"
  /\ st' = inode[fd.ino].page
  /\ seg' = [seg EXCEPT !.maplen = WholePages(inode[fd.ino].size, st')]
  /\ log' = IF st < st' THEN log \cup {"larger pages"} ELSE log
  /\ pc' = IF Has("UNLINK") THEN "unlink" ELSE "mmap"
  /\ UNCHANGED <<files, open, fd, maps, ret>>

\* maplen is computed from what st held before, the directory, of whole pages,
\* or zeroes, and the function returns with the descriptor open.
FStatFails ==
  /\ pc = "fstat"
  /\ \E stale \in IF Has("CREATE") THEN {0, MaxLen} ELSE {0} :
       seg' = [seg EXCEPT !.maplen = stale]
  /\ log' = log \cup {"fstat failed"}
  /\ fd' = NoFd
  /\ Return("fail")
  /\ UNCHANGED <<files, open, st, maps>>

Unlink ==
  /\ pc = "unlink"
  /\ pc' = "mmap"
  /\ \/ name' = name /\ log' = log
     \/ name # 0 /\ name' = 0 /\ log' = log \cup {"unlinked"}
  /\ UNCHANGED <<seg, inode, open, fd, st, maps, ret>>

\* Mutants of the next definition.
Closed_IfMapped(ptr) == IF ptr = MapFailed THEN open ELSE open \ {fd}

\* The descriptors that are open after close(fd); mmap() returned ptr.
Closed(ptr) == open \ {fd}

\* Mutants of the next definition.
NullIfFailed_Kept(ptr) == ptr

\* What the descriptor says of it.
NullIfFailed(ptr) == IF ptr = MapFailed THEN Null ELSE ptr

\* What mmap() may return: an address, the supplied one if MAP_FIXED, also
\* address 0 where the process may map it; nothing of length zero is mapped.
MmapResults ==
  {MapFailed} \cup IF seg.maplen = 0 THEN {}
                   ELSE IF Has("ADDR_FIXED") THEN {seg.ptr}
                   ELSE Addrs

\* The mappings that a new one of that length leaves something of.
Kept(ptr, len) == {m \in maps : m.at = ptr => m.len > len}

\* A mapping at address 0 is taken for a failed one.
Mmap ==
  /\ pc = "mmap"
  /\ \E ptr \in MmapResults :
       /\ maps' = IF ptr = MapFailed THEN maps
                  ELSE Kept(ptr, seg.maplen)
                         \cup {[at |-> ptr, len |-> seg.maplen, ino |-> fd.ino]}
       /\ seg' = [seg EXCEPT !.ptr = NullIfFailed(ptr)]
       /\ open' = Closed(ptr)
  /\ fd' = NoFd
  /\ Return(IF seg'.ptr = Null THEN "fail" ELSE "ok")
  /\ UNCHANGED <<files, st, log>>

(* ---- The caller ------------------------------------------------------ *)

\* unmap_segment(seg), which the callers call for a segment they got.
UnmapSegment ==
  /\ pc = "done" /\ ret = "ok"
  /\ pc' = "unmapped"
  /\ maps' = {m \in maps : ~(m.at = seg.ptr /\ m.len = seg.maplen)}
  /\ UNCHANGED <<args, seg, want, files, open, fd, st, ret, calls, log, meddled>>

CallAgain ==
  /\ pc = "unmapped" \/ (pc = "done" /\ ret = "fail")
  /\ calls < MaxCalls
  /\ pc' = "entry"
  /\ want' = seg
  /\ ret' = "none"
  /\ st' = 0
  /\ log' = {}
  /\ calls' = calls + 1
  /\ UNCHANGED <<args, seg, files, open, fd, maps, meddled>>

Stopped == pc \in {"done", "unmapped", "fault"} /\ UNCHANGED vars

Call == /\ \/ RejectArgs \/ Initialised \/ Uninitialised \/ AccessRead \/ AccessWrite
           \/ StatPath \/ UnlinkOld \/ StatDirFails \/ StatDir \/ CreateFile
           \/ Allocate \/ OpenFile \/ FStat \/ FStatFails \/ Unlink \/ Mmap
        /\ UNCHANGED <<args, want, calls, meddled>>

(* ---- The other process ----------------------------------------------- *)

Meddles(what) ==
  /\ Cardinality(meddled) < MaxMeddles
  /\ pc \notin {"entry", "done", "unmapped", "fault"}
  /\ meddled' = meddled \cup {what}
  /\ UNCHANGED <<pc, args, seg, want, open, fd, st, maps, ret, calls, log>>

\* It removes the path or puts a new file there.
Replace ==
  /\ Meddles("replace")
  /\ \/ name # 0 /\ name' = 0 /\ inode' = inode
     \/ /\ \E f \in Files : inode' = Append(inode, f)
        /\ name' = Len(inode')

\* It changes the size or the permissions of the file the path names.
Resize ==
  /\ name # 0
  /\ Meddles("resize")
  /\ \E f \in Files : inode' = [inode EXCEPT ![name].size = f.size]
  /\ name' = name

Chmod ==
  /\ name # 0
  /\ Meddles("chmod")
  /\ \E r, w \in BOOLEAN : inode' = [inode EXCEPT ![name].r = r, ![name].w = w]
  /\ name' = name

Next == Call \/ UnmapSegment \/ CallAgain \/ Stopped \/ Replace \/ Resize \/ Chmod

Spec == Init /\ [][Next]_vars

------------------------------------------------------------------------------
(* Properties                                                               *)

TypeOK ==
  /\ pc \in {"entry", "access_r", "access_w", "stat", "unlink_old", "stat_dir",
             "create", "allocate", "open", "fstat", "unlink", "mmap",
             "done", "unmapped", "fault"}
  /\ seg.flags \subseteq Flags /\ seg.maplen \in 0 .. MaxLen
  /\ seg.ptr \in Nat
  /\ name \in 0 .. Len(inode)
  /\ \A n \in 1 .. Len(inode) : inode[n].size \in 0 .. MaxLen /\ inode[n].page \in PageLens
  /\ st \in PageLens \cup {0}
  /\ fd = NoFd \/ fd \in open
  /\ fd # NoFd => pc \in {"allocate", "fstat", "unlink", "mmap"}
  /\ ret \in {"none", "ok", "fail"}
  /\ calls \in 1 .. MaxCalls

\* However a sequence of calls ends, the only descriptors it leaves open are
\* those of calls whose fstat() failed (base_util.c:279-287 returns without
\* the close the other paths reach).
NoStrayDescriptor ==
  pc \in {"done", "unmapped"} =>
    \A d \in open : d.id < calls \/ "fstat failed" \in log

\* A call that succeeds leaves exactly the one mapping its descriptor names,
\* of at least a page; one that fails leaves none, so that unmapping what one
\* got, and nothing else, leaves nothing behind after any sequence of calls
\* with one descriptor.  The exception is a mapping at address 0, which the
\* code takes for a failure (base_util.c:319-327); it is left only where the
\* caller's own descriptor fixes the address.
Held == {m \in maps : m.at # Null}
MappedAsDescribed ==
  /\ pc = "done" /\ ret = "ok" =>
       /\ seg.ptr # Null /\ seg.maplen > 0
       /\ \E m \in Held : Held = {m} /\ m.at = seg.ptr /\ m.len = seg.maplen
  /\ (pc = "done" /\ ret = "fail") \/ pc \in {"unmapped", "fault"} => Held = {}
  /\ maps # Held => {"INITD", "ADDR_FIXED"} \subseteq want.flags

\* A file mapping lies inside its file, whatever happens to the path between
\* the calls, as long as nobody resizes the file; and the segment a call got
\* misses less than a page of the file, by the file's own page size.
InsideFile ==
  "resize" \notin meddled =>
    \A m \in maps : m.ino # 0 =>
      /\ m.len <= inode[m.ino].size
      /\ m \in Held => m.len + inode[m.ino].page > inode[m.ino].size

\* A created segment is as long as was asked for, also when an old file could
\* not be removed or another process put one there, unless the allocation
\* failed, the file was resized, or the pages of the file are larger than
\* those of the directory (base_util.c:233 against 276): then it is short,
\* but by less than a page of the file.
CreatedLongEnough ==
  pc = "done" /\ ret = "ok" /\ args.path /\ {"INITD", "CREATE"} \subseteq want.flags
    => \/ "allocation failed" \in log \/ "resize" \in meddled
       \/ seg.maplen >= want.maplen
       \/ "larger pages" \in log /\ seg.maplen + st > want.maplen

\* A call removes or creates a file only if its descriptor was initialised and
\* asks for that: for a new file until it holds one, for the removal of the
\* one it holds afterwards.  What an uninitialised descriptor happens to hold
\* has no effect.
OnlyAsAsked ==
  [][name' # name /\ pc' # pc =>
       /\ "INITD" \in want.flags
       /\ fd = NoFd => "CREATE" \in want.flags
       /\ fd # NoFd => "UNLINK" \in want.flags /\ name' = 0]_vars

\* "Segment should be unlinked after mapping" (base_util.h:42): a call that
\* unlinked the file has mapped it.
UnlinkedAfterMapping ==
  pc = "done" /\ "unlinked" \in log => ret = "ok"

\* "Cannot allocate file %s to size 0x%lx" (base_util.c:254) is reported, and
\* the call fails, when the allocation fails.
AllocationFailureReported ==
  pc = "done" /\ "allocation failed" \in log => ret = "fail"
==============================================================================
