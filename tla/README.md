# Verification of simd_util

TLA+ models of [simd_util](../src/README.md), a C library of AVX-512 helpers
with a small benchmark program (`perf_jig`), checked with TLC and proved about
with TLAPS. Paths below are relative to the repository.

## 1. Inventory

The library is a set of headers of inline functions (`include/`), one C file
(`src/base_util.c`), a driver with benchmarks (`perf_jig/`) and unit tests
(`test/`). Everything runs in one thread. The concurrency is inside the
vectors: a function handles 8 or 16 work items at once, and is right when the
result is what one item at a time would give.

| Component | State | Operations | What is hard | What makes it correct |
|---|---|---|---|---|
| Batch scheduler: `schedule_batch`, `include/mask_util.h:478` | the caller's `hash[]`, `posn[]`, its index `i` | one call per batch, rearranges a window of 16 | repeated rearrangement; windows shorter than the register; deferral of colliding events | nothing lost, order kept per hash, batches free of collisions, progress, no starvation |
| Accounts table: `perf_jig/sched_ops.c:82` | two tables, the transfer array, `i` | normalise, scalar loop, batch loop, validation | a batch reads all balances before it writes any | batches equal the scalar run; no batch is empty |
| Masked pointers, gather/scatter: `include/sg_util.h` | none | `*_fixup_mask`, `GATHER_*`, `SCATTER_*` | invalid lanes; lanes with one address | invalid lanes read zero and write nothing; the highest lane wins |
| Buffer fill: `randomize_data`, `load_data`, `src/base_util.c:88-154` | cursor, bytes left, a descriptor, `errno` | open, read, retry, close | short reads, EINTR, end of file | descriptor closed once, returns, says what was filled |
| Pcap index: `perf_jig/packet_ops.c:417` | cursor, bytes left, `count`, `hdrs[]` | one pass over the records | cut-off records, rubbish after the last packet, units of the timestamp | counts the sound prefix; the caller sees counted packets only |
| Packet parser: `gen_pkt_metadata`, `perf_jig/packet_ops.c:209` | `next`, the metadata | Ethernet, VLAN, L3, option and L4 steps | unsigned bounds, lengths the packet claims | reads stay inside the packet, offsets are ordered, it ends |
| Mapped segments: `map_segment`, `src/base_util.c:167` | the descriptor, a file, a mapping | open/create, size, unlink, map | errors on every call, races with the file system, descriptors used twice | one mapping or none, inside its file; nothing left open; nothing removed unasked |
| Bit lookups, mask conversions: `include/mask_util.h` | none | `lookup_*`, `MASK_TO_VEC`, `VEC_TO_MASK`, `IDX_VEC`, `MUX_ON_MASK` | shifts, bounds of the table | equal to a scalar lookup |
| Table gathers, byte translation: `include/sg_util.h:182-246` | none | `gather_*`, `translate_bytes_x64` | indexes above 2^31 | equal to a scalar lookup |
| Murmur3: `include/hash_util.h` | lane masks, accumulators | block loop, tail | lanes of different lengths | each lane as if alone |
| Transpose: `include/transpose_util.h` | none | shuffle network | lane numbers | is the transpose |
| Driver and benchmarks: `perf_jig/*.c` | the argument array, the segments mapped | split, dispatch; map, work, unmap | the end of the registration section, error paths | runs what was asked for in order; gives memory back |
| Debug printing, vector types, build files | | | | not modelled: output, types, scripts |

How they interact: `perf_jig` calls the benchmarks; they map segments, fill
them with `randomize_data`, and run the vector functions over them. The
accounts benchmark is built on conflict detection (`mask_util.h`) and the
gather/scatter macros (`sg_util.h`). `perf_test_pcap_load` maps a file, indexes
it with `get_pcap_pkt_hdrs` and hands each indexed packet to
`gen_pkt_metadata`. The interactions are calls; memory is handed over whole.

`PROJECT.json` lists the hazards of the code line by line, each with the
properties that cover it or the reason none does yet.

## 2. Modules

### The scheduler

* `Lanes` is the vocabulary. A vector of `w` lanes is a function on
  `0 .. w-1`; an `__mmask` is the set of its one bits. `Conflict`, `Compress`,
  `Expand`, `Permute`, `MaskzLoad`, `MaskStore` are the instructions the code
  uses, as functions of whole vectors.
* `KeyedDispatch` is the abstract specification: events with hashes are
  dispatched in batches that are not empty, not too large, free of collisions,
  and take the oldest pending event of each hash they touch.
* `BatchScheduler` is the code. One step, `ScheduleBatch`, is one whole call
  and the `i += n` of the caller; its LETs are the code's local variables
  (`em`, `m0`, `sw`), `Winners`, `Swizzle` and `BatchSize` its three stages.
  `key` is a history variable, the hash each event arrived with. The widths 16
  and 8 are the constants `Lookahead` and `BatchMax`: nothing in the algorithm
  depends on their values, which lets small instances be exhaustive and the
  theorems general. (`BatchMax > Lookahead` is allowed too.)
* `LanesTheorems`, `BatchSchedulerTheorems` hold the proofs,
  `MCBatchScheduler` the instances. (Likewise `AccountsTableTheorems`,
  `FileFillTheorems`, `SegmentMapTheorems`, `PcapLoadTheorems`,
  `HashCallersTheorems` and `LookupsTheorems` for what follows: section 4.)

A call of `schedule_batch` is atomic because the arrays belong to the caller
and there is one thread. The parallelism that matters, the processing of one
batch, is what `KeyedDispatch` constrains.

### The accounts table

* `MaskedPtrs`: masked pointers, `Gather` and `Scatter`. A pointer is an
  integer, valid when positive; struct sizes and field offsets are scaled away.
* `AccountsTable`: `perf_test_accounts_table` from the mapped segments to the
  verdict. `Normalise` is the loop at 133-140 in one step (its iterations touch
  one entry each), `ScalarStep` one iteration of 145-153, `BatchStep` one
  iteration of 159-209, with every gather before every scatter and the
  scatters in the code's order. Balances are integers modulo `BalMod`. `trace`
  is a history variable: the scalar table after each transfer.
* `MCAccountsSmall`, `MCAccountsWide`: instances.

### The files

* `FileFill`: `randomize_data` and `load_data`, which have one body. A step is
  one system call with the code up to the next. `read` answers as the kernel
  may: any positive count up to the request, EINTR, an error, the end of the
  file, which leaves `errno` as it was. Each buffer byte remembers the file
  offset it came from.
* `SegmentMap`: `map_segment` and `unmap_segment`. A step is one system call
  with the code up to the next; every call may fail where the manual lets it.
  The file system is `inode` (the files there have been, with size,
  permissions and page size) and `name` (which of them the path names). The
  code rounds up with the block size of the directory and down with that of
  the file; the directory's is any of `PageLens` each time it is looked at. A
  fixed address may be 0, which the code takes for a failed mapping. `Replace`, `Resize`
  and `Chmod` are another process, which may act between any two system calls;
  `UnmapSegment` and `CallAgain` are the caller, who uses the descriptor again
  as the last call left it. `want` and `log` are history variables: the
  descriptor at the entry, and what the call met. Protections, addresses and
  messages are left out except that a fixed address is kept.
  `MCSegmentMap` has the arguments and descriptors.

### The benchmark program

* `PcapIndex`: `get_pcap_pkt_hdrs`. A file is its header, the sequence of its
  records and a length that may cut it anywhere; pointers are offsets. A step
  is one iteration of the loop; its three ways out are three actions.
* `PacketParse`: `gen_pkt_metadata`. A pointer is its distance from the start
  of the packet; what a header holds is chosen when it is read, which stands
  for every packet. A step is one header, one VLAN tag or one option. The
  bounds check adds unsigned numbers modulo `IntMod`, offsets are kept modulo
  `OffMod`. Nothing limits a packet to the 64K that an offset can address, and
  the model does not either: `OffsetsSound` speaks of packets the offsets reach
  (`InReach(OffMod)`), in longer ones they wrap. `ReadsInside` makes the same
  condition with `IntMod`, 4 GiB. `read` is a history variable, the end of the bytes read so far;
  `turn` flips with every option, so that a loop that stays where it is shows
  as a behaviour that does not end. Addresses, ports and tags, which are copied
  and never looked at, are left out.
* `PerfJig`: `main` and the six benchmarks it can run. An argument is the
  sequence of its parts. A benchmark is seen as a user of memory: it may refuse
  its parameters, maps its segments one by one, each of which may fail, works,
  gives back what the code gives back, and returns. An unknown name is a choice:
  the entry read behind the section is NULL or is not.
* `PcapLoad` composes them: `perf_test_pcap_load` in full inside the program.
  `PcapIndex` and `PacketParse` are instances that share no variable; `Work`
  runs the one or the other and carries the packets across, `Load` puts `Map`
  and `Finish` of `PerfJig` around them. The file mapped is any file. (What
  `map_segment` does inside is `SegmentMap`, whose outcomes, a segment or an
  error, are `Map` and `MapFails`.)
* `MCPcapLoad`, `MCPcapIndex`, `MCPacketParse`: instances.

### The hashes

* `MurmurLanes`: the two parallel hashes, one step per iteration of the block
  loop, and `Scalar`, the function for one key. The arithmetic is abstract: an
  accumulator is the sequence of what has been mixed into it, a byte is its
  address, so that two hashes are equal when the same bytes went in in the
  same order. Every lane computes in every iteration, as in the code, and
  `Mux` (`MUX_ON_MASK`) keeps what is kept. `got` records what each lane read.
* `HashCallers`: the unit test, which hashes its keys with `murmur3_u32_8` and
  those without a tail again with `murmur3_u32_8_notail`, and the benchmark
  `perf_test_murmur3_notail`. `MCHashCallers` is the instance.

### The lookups and the transposition

* `Lookups`: `lookup_*`, `gather_*_from_lookup_table_*` and
  `translate_bytes_x64`. A behaviour is one call. Words, vectors and index lanes
  have `W` bits, `N` lanes and `IdxBits` bits; the functions that differ only
  in these are one action. `reads` records which words of memory a gather
  touched, which its result does not tell: a masked lane reads nothing. A
  power of two is the function `Pow2`, since the provers know `^` for literals
  only.
  `MCLookups` has the tables and the indices.
* `Transpose`: `transpose_func` and `deinterleave_u32_16`, permute by permute
  at their own width. `Lookups` calls them on a table of 128 words.

Definitions named `X_Something` in front of a definition `X` are variants of it
with a plausible error. Nothing uses them; substituted for `X` they show
that a property notices the error (`PROJECT.json`, "mutants").

## 3. Runs

| Run | Instance | What it shows |
|---|---|---|
| `sched_small` | all 3^7 queues of 7 events over 3 hashes, window 4, batch 2 | the safety properties, `Greedy`, `Packing`, `OldestPromptly`, the refinement of `KeyedDispatch`, and that every event is dispatched |
| `accounts_small` | all 11^4 sequences of four out of eleven transfers over 8 accounts, 3 per vector, up to vectors without a conflict | `SerialEquivalence` at every batch boundary, `Conservation`, `BatchesAreMaximal` |
| `accounts_wide` | 8 transfers per vector, 36 arrays of 20 transfers over 32 accounts: strides, and runs that give batches of every length from 1 to 8 | `SerialEquivalence` at the code's widths, and that the function returns "OK" |
| `perf_pcap` | four command lines; files of up to 3 records cut by up to 10 bytes; 2 entries in `hdrs[]`; packets of up to 142 bytes, of which the longest is out of the reach of the offsets | the count is the longest sound prefix; the caller visits counted packets only; the parser reads inside the packet and the file; its offsets are in order; error paths give memory back; the benchmarks run in order with their own parameters; the program ends |
| `pcap_nsec` | one record | **violated**: see Findings |
| `packet_ip6` | one packet of up to 90 bytes | **violated**: see Findings |
| `segment_map` | two calls, one interference, files and directories of two page sizes, all combinations of the flags that steer the function, address 0 | what is mapped, left open, created and removed, on every path |
| `segment_unlink`, `segment_alloc` | one call, no interference | **violated**: see Findings |
| `lookups` | 2 lanes, words of 4 bits, all pairs of 5-bit indices | lookups equal to the scalar ones; no gather reads outside its table; the shuffle network transposes |
| `murmur` | 3 lanes, words of 4 bytes, every triple of keys of 0 to 9 bytes or none; benchmarks of up to two calls with keys of 1 to 3 words | every lane gets the hash of its key alone and reads its key only |
| `file_fill` | 7 bytes, chunks of 3, files of 0 to 9 bytes | no descriptor leaks, it returns, and what "success" means |

Bounds, and why they are enough:

* Scheduler. Seven events and a window of four give calls with a full window,
  three calls with a shorter one, events deferred more than once, and windows
  with fewer, as many and more winners than the batch. `Lookahead = 2 *
  BatchMax` as in the code. Every queue content of that size is tried.
* Accounts. Eight accounts include account 0, which the lanes past the end
  gather, and are enough for a full vector of three transfers without a
  conflict, so that both ends of `conf` are reached; four transfers and vectors
  of three leave a last vector with one, two or three lanes. In the wide run
  `Runs` repeats a receiver after every c transfers, for c up to 9, so batches
  have every length up to the full vector of eight. `BalMod = 16` makes balances wrap. `DeltaScale = 5` puts
  deltas on both sides of the scale.
* Fill. Two full chunks and a remainder; file lengths below, at and above the
  buffer and at a chunk boundary. `/dev/urandom` is a file longer than the
  buffer.
* Program. Lengths are in units of two bytes, the real header sizes halved,
  but for the record header, which is 4 units where it would be 8 (`PktHdr`): the
  scan only ever adds it, and there are fewer places to cut it. `MaxCut = 5`
  units cuts into the last packet, its header, and, behind an all-zero packet,
  into the record before. Two entries in `hdrs[]` are fewer than three
  records. The first packet has room for a VLAN tag, an IPv6 header with an
  option or an IPv4 header with TCP options; one is longer than its `orig_len`
  and has room for all of them; one is shorter than an Ethernet header, one all
  zero; `Snaps` lies below the longest. `Ihls`, `Doffs`: too small and above 5;
  `OptLens`: zero and two, which can jump past the end. `OffMod = 76` units is in
  reach of the first packet with what may follow its end, and not of the second,
  whose offsets do wrap (`InOrder` alone, without the condition of
  `OffsetsSound`, is violated in this run). `IntMod`, a hundred times that, is
  in reach of all, so that in the bounds check nothing but a negative extent wraps
  around; packets of 4 GiB are not tried. `NArgs = 4` is fewer than one
  of the arguments has parts.
* Hashes. Keys with zero, one and two blocks, with and without a tail, aligned
  or not, and lanes without a key; with three lanes a lane can have neighbours
  that both run longer, both shorter, or one of each. In the
  benchmark, keys of all lengths between two bounds (and at least one: without
  any, its segment has length zero and `map_segment` fails).
* Transposition. Its own size; the network moves words without looking at them,
  so two tables that together tell each word from each other one are enough.
* Segments. Pages of one and of two units; files that are empty, whole pages of
  one size but not of the other, or read-only (`MCFiles`); requests for three and
  for four units, so that rounding up by the directory and down by the file
  disagree. Two calls: the second starts
  from the left-overs of each outcome of the first. One interference at any
  point: the races of this code are between one look at the path and the next.
  Five flags; `ADDR_HINT` leaves the kernel the choice it has anyway, `ANON` is
  set but never read.
* Lookups. Four bits per word and two lanes scale 32 (64) and 8 (16) down
  together, so that register tables have 8 and 16 bits; 32 index values exceed
  both, every memory table of words, and the signed range. The byte has 8
  values and two lanes per register. Lanes do not influence one another, except
  through a wrong lane number, for which two lanes suffice.

Deadlock is checked in every run; each model ends in a step that stutters
(`Finished`, `Returned`, `Stopped`).

### Fairness

`BatchScheduler`, `AccountsTable` and `PcapLoad` are sequential programs that
never wait, so weak fairness of their steps says only that the thread runs. `FileFill` calls
the kernel: its thread runs (weak fairness of `Open`, `Filled`), and a read
that is retried for ever is in the end answered by data or by the end of the
file (weak fairness of `Read \/ AtEof`), which holds unless a signal
interrupts every single call. Without that the loop indeed need not end. The
other specifications have no fairness, and no liveness is claimed of them.

### Findings

`pcap_nsec`: `packet_ops.c:433` picks the bound of the timestamp fraction the
wrong way round. A nanosecond file (magic `0xa1b23c4d`, by the comment at line
18) gets the bound 999999 and the scan stops at the first packet with a larger
fraction, although the comment at 414-415 promises "the number of packets in
the pcap file". A microsecond file gets the looser bound.

`packet_ip6`: `packet_ops.c:303` sets `MD_PROTO_L3_IP4` for an IPv6 packet;
`MD_PROTO_L3_IP6`, defined at line 132, is used nowhere. The flags are part of
the flow key. (The function is marked as work in progress.)

`segment_unlink`: `base_util.h:42` says that a segment with `SEG_DESC_UNLINK`
is unlinked after mapping. The code unlinks first (`base_util.c:290`), also when
the file is shorter than a page: then the mapping of length zero fails and the
caller has neither segment nor file.

`segment_alloc`: `base_util.c:251` asks whether `posix_fallocate` returned a
negative number. It returns zero or a positive error number, so the branch
that would report "Cannot allocate file" is dead; the call goes on and may
succeed with a segment shorter than asked for. `CreatedLongEnough` holds up to
exactly this case.

Other remarks. A failed `fstat` returns with the descriptor open
(`base_util.c:286`; `NoStrayDescriptor` names the exception), and the report at
line 228 writes through a NULL `errbuf` (the model's `fault`). The comments on
the gathers promise `table[idx]` for every index below `tsize`; for tables of
more than 2^31 entries the bound at `sg_util.h:191` returns zero from there on,
which is what makes `GathersInBounds` true. `ElementsExact` leaves out these
indices.

`map_segment` rounds the length it asks for up with the `st_blksize` of the
directory (`base_util.c:233-235`), and what it maps down with that of the file
(276-277). Where the file's is larger (a symbolic link to another file system,
say) the call succeeds with a segment up to a page of the file shorter than asked
for; `CreatedLongEnough` names the case ("larger pages") and bounds it. With
`SEG_DESC_ADDR_FIXED` and a NULL `ptr`, as a failed call leaves it, a process
that may map address 0 gets a mapping there which lines 319-327 take for a
failure and leave behind; `MappedAsDescribed` allows a mapping at 0 only for a
descriptor that fixes the address.

The parser: the check of the TCP options (`packet_ops.c:365`) counts them from
the start of the header, so `offs_payload` may lie up to 20 bytes past the
end of the packet, which `OffsetsSound` names; a `doff` below 5 passes by
wrapping around and puts the payload inside the header; an `ihl` below 5 makes
the layers overlap. After an option that jumps past the end `offs_l4` of an ICMP
packet lies outside. None of this reads a byte outside the packet. The offsets are u16
(`packet_ops.c:151-154`) while the length of a packet is bounded by `snaplen` and
the file only (459-460): in a packet of more than 64K they wrap around after
a long chain of tags or options.
`MD_PROTO_L4_ICMP` and `MD_PROTO_L4_SCTP` are never set.

The program: a capture file is mapped in whole pages only, so the packets in its
last page are lost and a file shorter than a page cannot be loaded;
`perf_test_pcap_load` returns 0 for a file it does not understand. Neither
`perf_test_accounts_table` nor `perf_test_schedule_batch` gives its memory back
(`GivenBack`). After an unknown name `main` reads the entry behind the last one,
and unless that happens to be NULL goes on without a word.

Another remark: `SuccessIsExact` says what a return value of 0
of `randomize_data` and `load_data` means, and it is less than one would hope.
A short read leaves a hole in the buffer, and the loop moves on (`trav +=
chunk`, lines 114 and 148). `skipped` in the model is the hole.

## 4. Proofs

Every invariant and every action property that a passing run checks is also a
theorem, for all values of the constants that the modules' named assumptions
allow. In particular the theorems cover the code's own widths (16 and 8 lanes,
words of 32 bits), most of which no run does.

| Module | Proves | Of |
|---|---|---|
| `BatchSchedulerTheorems` (with `LanesTheorems`) | `TypeCorrect`, `EveryEventAccounted`, `HashOrderKept`, `LookaheadBounded`; `GreedyBatches`, `StablePartition`, `OldestNotStarved`; `Refinement` | every queue, window and batch width |
| `AccountsTableTheorems` | `TypeCorrect`, `BatchesAreSerial`, `MoneyConserved`, `LongestBatches`, `NeverFails` | every even table size, transfer array, vector width and modulus |
| `FileFillTheorems` | `TypeCorrect`, `DescriptorClosed`, `SuccessExact` | every buffer, chunk limit and file length |
| `SegmentMapTheorems` | `TypeCorrect`, `DescriptorsClosed`, `DescribedMapping`, `MappingInsideFile`, `LongEnough`, `FilesAsAsked` | every set of page sizes, file size, number of calls and of interferences |
| `PcapLoadTheorems` | `TypeCorrect`, `SoundPrefix`, `PacketsSeen`, `ParserReadsInside`, `LayersInOrder`, `NothingHeld`, `CommandLine` | every command line, file and packet |
| `HashCallersTheorems` | `ScalarHashes`, `KeyBytesOnly` | every number of lanes, length of a block and keys |
| `LookupsTheorems` (with `LanesTheorems`) | `BitsFound`, `GathersInside`, `ElementsFound`, `BlocksTransposed` | every width, table and index vector |

The assumptions are the `ASSUME`s of the modules proved about, and TLC evaluates
each of them in a run: constants are natural numbers of the right sign, inputs
have their types, and for the parser (`ParametersOK`) lengths of packets are
unsigned numbers. That offsets do not wrap is no assumption but the condition
of `OffsetsSound`, of one packet at a time. Each module has an inductive invariant and the proof has one step
per action.

### The scheduler

1. `LanesTheorems`: rank and order of the lanes of a mask. `NthRank` (the lane
   packed to place j exists and has rank j), `RankMonotonic`, `NthMonotonic`,
   and what the complement of a mask counts.
2. `SwizzleLanes`, `SwizzleOrder`: the swizzle is a permutation of the lanes,
   which maps the lanes past the extent to themselves, puts winners first, and
   keeps the order within winners and within the others.
3. `WinnerLanes`: each hash of a window has exactly one winner, its first
   entry; there is a winner whenever the window is not empty.
4. `CallShape` turns one call into a statement about entries. `IsCall`: there
   is a bijection `Src` on the queue, the identity outside the window, along
   which both arrays are moved. `IsPacked`: the first n entries of the window
   come from those that are the first of their hash, and n is their number.
5. `CallInvariant`, `StepInvariant`: `IInv` is inductive. Type, `Accounted` and
   `HashOrder` follow from the shape. `LookaheadBound` is not inductive alone:
   that an event in the window is no further than a window from its place needs
   to know that the entries below the end of the window hold only events from
   below it. This is `WindowClosed`, a definition of the proof: it follows from
   the invariants by counting and is not a further claim.
6. `CallRefines`: a call is a `DispatchBatch` of the events in the first
   `BatchSize` entries, and does not disturb the entries below `i`. That the
   batch holds the oldest pending event of each hash is `HashOrder`.
7. `DistinctFirsts` (a window has as many hashes as firsts, by a bijection)
   gives greed; `MovedFrom` (the entry an event went to is the one `Src` took it
   from) gives the stable partition. For the oldest event: `LookaheadBound` puts
   it into the window, `HashOrder` makes it the first of its hash, and since
   `Src` grows on the first n entries it moves to no higher entry than it had.

### The accounts table

`IInv` is the types, `History` (the trace starts at the zeroed table, ends at the
scalar table, and goes by single transfers) and `Stages` (what each phase
knows, with `SerialEquivalence`). A batch is free of conflicts, so each of its
lanes gathers the balances that the transfer finds in the scalar run, and after
all scatters the table is the one `trace` has after the last transfer of the
batch. No two lanes store to one place, so the order of the lanes never matters.
`MoneyConserved` goes by least
counterexample over the prefix sums of a table.

### The files

`FileFill`: `Progress` says which bytes are filled, that they come from below
the file position, increase, and are as many as the position. `SuccessIsExact`
follows at `left = 0`. `SegmentMap`: `IInv` has six parts, among them what is
open and what is mapped at each place of the call, that the descriptor's length
fits the file unless somebody resized it (`Lengths`), and how long a created
segment will be (`Created`). `OnlyAsAsked` needs that the flags the call works
with are those it was given (`Asked`).

### The benchmark program

Three invariants, of the program as it is composed in `PcapLoad`. `DriverInv`:
which segments of which argument are there (`Held`), and that the calls so far
are those of the known arguments before the current one (`Called`). `IndexInv`:
the cursor is at the offset of record `rec`, all records before it are sound,
and `hdrs[]` has their offsets; at the end `ret` is the count and the next
record is not sound. `ParserInv` has three parts. `ParserTypes` holds of every
packet. `ParserReads` (what has been read lies inside the packet) holds of those
the unsigned sums reach past the end of, and `ParserOrder` of those the offsets
do: by the place in the walk, `next` is inside the packet, and an offset is set
only when what lies before it is; in the loop over the options, which may jump
past the end, only a distance that still fits an offset is known, and that is
why `InReach` has the longest option in it. `Link` ties them: the parser works on a counted packet, so its bound and its base come
from a sound record, which is inside the file.

### The hashes

A call: lane l has mixed in the seed and the first min(i, blocks of l) blocks
of its key (`Mixes`), and has read those bytes only (`Reads`). `ScalarForm` puts
`Scalar` into the same form. The callers: which keys the call has at each place
(`Running`), and that the hashes noted are those of the calls so far (`Results`).

### The lookups

Each behaviour is one call, so the invariant is the properties themselves and
the proof is about what is computed. `Pow2Def` shows that the recursive `Pow2`
is a function with its equation and `Pow2Law` gives the law of exponents.
`BitToTop`: moved left until bit b is the sign bit, a word is at least the sign
bit exactly when bit b is one. `MemoryAnswer`, `GatherAnswer`: an index that
passes the bound is positive to the instruction and below the size of the
table. `QuarterWords`, `TransposedWords`: which word of which struct each lane
holds after two and after three rounds of permutes.

### Only model-checked

* Liveness: `EveryEventDispatched` and `Returns` (of the accounts benchmark, the
  fill and the program). Fairness and ENABLED are out of the prover's reach.
* That `SumOf` adds up a table, that the folds and recursive functions in a
  model mean what their names say: what a recursive definition computes is not
  proved beyond its equation and what follows by least counterexample.
* What the violated runs show.

## 5. Not modelled

* Timing, printing, statistics, and what the timed loops compute for nobody
  (`warm_up_simd_unit`, `perf_test_clmul`, the loop of `translate_bytes`).
* The arithmetic of the hash: 32-bit products are outside TLC's integers, and
  the lanes and the scalar function do the same ones.
* The values the parser copies (addresses, ports, tags).
* `get_page_size` (a query; the page sizes are a constant of `SegmentMap`), the
  protection of mappings and the messages of `map_segment`.
* The gathers and scatters at other widths (`sg_util.h:65-100`, `122-180`): the
  same macros, called by their unit tests alone.
* `conflict_detect_u64_8` and `_u32_8`: `Conflict` is the same function of
  lanes; the `inv_lane_vals` blend is not reached, the only caller passes a
  full mask.
* Debug printing, type definitions, build files: no state.

## 6. Plan

The model covers what the plan had, and every safety property has its theorem.
Left is:

1. The safety halves of the liveness properties as action properties: a
   measure that every step of the scheduler, the accounts benchmark and the
   parser decreases, so that only the fairness argument is left to TLC.
2. Proofs to read again: lemmas that two modules need under different names
   (`LeastNatural`, division) could be one module, once `PerfJig` no longer
   has an operator `Rank` like `Lanes`.
