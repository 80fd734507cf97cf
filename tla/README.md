# A TLA+ model of ZeroVM

ZeroVM runs one untrusted program (the "nexe") for one job. A manifest names the
program, its channels (files that appear to the program as input, output and log)
and its limits; ZeroVM loads and validates the program, mounts the channels, runs
the program in a single thread, serves its system calls, and ends with a report.
This directory models the parts of it that keep state, checks them with TLC on
small instances and proves the most important properties with TLAPS for instances
of every size.

Paths below are relative to the repository. Line numbers are in `PROJECT.json`,
which maps every definition to the code it stands for.

## 1. The system

| Part (directory) | What it does | Here |
|---|---|---|
| `src/manifest`: `trap.c` | the "one ring" system call: read, write, setup, exit; quotas; the syscallback | `Trap` |
| `src/manifest`: `manifest_setup.c`, `mount_channel.c`, `premap.c`, `preload.c`, `prefetch.c` | policies from the manifest, mounting of channels, preallocation of memory, the report | `Mount` (mounting), `Trap` (initial states), `VmMap` (preallocation), `Session` (the order of the steps, report) |
| `src/manifest`: `manifest_parser.c`, `md5.c` | text of the manifest, hash | an outcome in `Session`; md5 is not called |
| `src/service_runtime`: `sel_mem.c`, `nacl_syscall_handlers.c` | the array of memory entries; sysbrk, mmap, munmap | `SelMem`, `VmMap`, `PageMap`, `Mount` |
| `src/service_runtime`: `elf_util.c`, `sel_ldr_standard.c`, `sel_addrspace.c` | loading the nexe | `Loader` |
| `src/service_runtime`: `nacl_text.c`, part of `elf_util.c` | loading the blob, dynamic code | `DynText` |
| `src/service_runtime`: `sel_main.c`, `sel_ldr.c`, signals | life of the process | `Session` |
| `src/service_runtime`: `nacl_syscall_hook.c`, `arch/x86_64` | entry and exit of system calls | counting, clock and syscallback in `Trap` and `Session`; registers not |
| `src/service_runtime`: `dyn_array.c`, `nacl_memory_object.c`, table of descriptors; `src/desc`, `src/nacl_base` | descriptors, their reference counts, the memory they back | `DynArray`, `SelMem`, `Mount` |
| `src/validator`, `src/validator_x86` | the verdict on code | a nondeterministic verdict |
| `src/gio` | readers over files and memory | reads fail or succeed in `Loader` |
| `src/platform`, `src/platform_qualify` | wrappers of the host | their outcomes at the callers |
| `src/networking` | channels between processes, over ZeroMQ sockets; off in the `Makefile` unless `NETWORKING` is set | `Network`, `CommFile` |
| `samples/disort`, `zerovm_config.sql` | a sort distributed over such channels, and the table that lists them | `Disort` |
| `src/imc` | sockets of descriptors | not modelled: no system call reaches it |
| `src/fault_injection`, `src/perf_counter`, `src/utils` | testing aid, time stamps, macros | not modelled |
| `api` | library inside the program | its structures in `Trap`; its calls come in any order |

How the parts meet: `Session` runs the others in their order, one step each, with
every way they can end. `Loader` ends in a memory map; that shape is the start of
`VmMap` (its constant `Layout`) and of `DynText` (its `UsedPages`). `Trap`'s setup
call changes `max_mem`, which decides what `VmMap`'s calls do, so `VmMap` has the
part of setup that touches it. `PageMap` says what the memory calls promise page
by page and `VmMap` is checked to implement it. `Mount` uses the same map operators
(`SelMem`) for sessions with mapped channels. `Network` composes several processes:
each runs a program of `Disort` (or one that exercises the layer) between the
runtime's opening and closing of its channels, and `CommFile` says what the
channels between them promise.

## 2. The modules

A model keeps the control of the code: every guard, early return and failure, in
order. Data are reduced to what the properties tell apart.

**Trap** — a step is one whole system call; the program has one thread.
`TrapRead`, `TrapWrite`, `TrapUserSetup`, `TrapExit` and the refused calls are
actions; the hook's counting (`RealCall`) and the diversion to a syscallback are
part of them. Limits and counters are kept as the code keeps them: byte limits are
64 bits, sizes 32, `Int32` is the conversion between them. `moved`, `calls`,
`view` and `origin` are history. A channel the manifest does not name starts with
counters of any value (`GarbageCounts`): its memory is not cleared.

**SelMem** — the map as operators on a sequence of entries: `UpdateMap` follows
`NaClVmmapUpdate` entry by entry, with the entries it trims, splits and swallows and
the order `NaClVmmapRemoveMarked` leaves; the searches for space; the offsets of
memory objects. Pointers are sets, empty for NULL.

**VmMap** — anonymous memory, in a session without a mapped channel. `vmentry` and
`is_sorted` are the fields of `NaClVmmap`; `MakeSorted` is part of each call that
makes it. `host` is what the kernel allows on each page, and `lost` (history) has the
pages of mappings the kernel refused and `NaClDescIoDescMap` took for granted, and
`unmapped` (history) those the program itself has unmapped. Actions:
`PreallocateUserMemory`, `Sysbrk`, `Mmap`, `Munmap`, `Setup`. Once the program runs with `max_mem` other than 0, the memory calls
change the map only ("whole chunk"); the condition is `WholeChunk`.

**PageMap** — the abstract specification: a record and a protection for every
page; calls that map, unmap, grow or refuse. `VmMap!ImplementsPageMap` is the
refinement. Its invariants are checked on `VmMap`'s states, through the mapping, and
proved in `PageMapProofs` for every address space.

**DynArray** — `dyn_array.c` as operators: the slots, the bitmap, the hint of the
search, growth by doubling. `realloc` failing is `MountFails`: the caller aborts.

**Mount** — the channels are mounted one after the other (`PremapChannel`,
`PreloadChannel`), each step a whole function with its host calls; then the program
calls mmap and munmap, on descriptors and on anonymous memory. Host handles are
handed out lowest first, as `open` does, so that the number a descriptor keeps after
`premap.c` has closed it can come to mean another channel's file. `page` is what the
kernel shows: protection, file, offset. Sessions have no `MemMax`, no network
channel, and the program does not call sysbrk: `VmMap` has those calls.

**Loader** — program headers are looked at one by one, then the layout is checked,
the space allocated, segments read, dynamic text made, text padded and validated,
regions protected and recorded. Header sums wrap at `WordMod`. Any host call may
fail.

**DynText** — the blob's segments are loaded in their order. The region array, the
binary search with its switch to a scan, the visible pages, the filling with halts
and the one-entry map cache are modelled as they are coded; the verdict of the
validator is a choice.

**Session** — `stage` is where `main` is; every step may fail the ways the code
lets it (`COND_ABORT` exits with 1, `assert` and `LOG_FATAL` abort); a signal may
arrive at every step. `cnt_cpu` and the clock keep their width (`Wrap`).
`log_buffer` distinguishes a buffer that was never set from one the program
unmapped.

**Network** — the nodes are processes, each with its own pool: `cells` is
`sockf_array`, searched by descriptor and grown by `Granularity`; a cell that
`realloc` added has an `fs_fd` nobody set (`Junk`), and removing a descriptor may
meet any of them. `alive` are the ZeroMQ sockets really open. A read posts a request
with its length (`req`) and waits; `Receive` is the rest of the same call, so that
everything may happen in between. A write is one step that waits for a request and
replies (`rep`). A node dies as the code makes it die: the trap aborts on a refused
transfer, `assert` on a transfer of nothing, the program's own `assert` on a short
one. `Lose` takes a message whose sender has ended. `faults` (history) records what
went wrong outside the layer; one failure of sockets, memory or the database is
injected per behaviour. `sent` and `got` (history) are what the two ends were told.

**CommFile** — the abstract specification of a channel: a pipe for one transfer at a
time. `Network!ImplementsChannels` is the refinement.

**Disort** — the programs of the sort as the sequences of calls they make, one
operator for each function of `comm_src.c`, `comm_man.c` and `comm_dst.c`, and the rows of
`zerovm_config.sql`. The analysis of the histograms decides only how many rounds of
detailed histograms are asked for, a parameter (`rounds`); lengths are three
different sizes, so that a message taken for another trips the program's `assert`.

**MC modules** hold instances for TLC, **Proofs modules** the theorems. Operators
with an underscore in their name (`Sdata_All`) are mutants: a definition as a
plausible mistake would write it, used to see that the property notices.

## 3. The runs

Safety runs pass; a run "violated" states what the documentation says and shows
that the code does something else.

| Run | Checks | Result |
|---|---|---|
| `trap` | `QuotaRespected`, `GrantWithinLimit`, `PolicyOnlyTightens`, `SetupBudget`, `CallsAccounted`, `CallbackMirror`, `ViewCurrent` over all sequences of four calls | holds |
| `trap_narrowing` | `InputMaxGet` bounds the bytes read (`doc/manifest.txt:24`), with limits further apart than 2^31 | violated: the 64-bit tail is stored in 32 bits |
| `vmmap` | `MapWellFormed`, `FreePagesTaken`, `MemLimitKept`, `BreakKept`, `TextKept`, `OnlyTextExecutable`, `HostCoversMap`, `LimitFreezesHost`, `ImplementsPageMap` over all sequences of three calls | holds |
| `vmmap_zero_limit` | `MemMax` bounds memory (`doc/manifest.txt:81`) when setup may ask for 0 | violated: 0 turns the limit off |
| `vmmap_lost_map` | a mapping that succeeds is there (comment and check in `nacl_syscall_handlers.c:584`) | violated: `nacl_desc_io.c:149` misses every refusal but EPERM |
| `mount` | `RefsExact`, `SlotsKept`, `HandlesKept`, `OffsetsTrue`, `BuffersShowFiles` over all mounts of three channels and two calls after it | holds |
| `mount_zero_fill` | `NaClHostDescMap` maps where it is told (`platform/nacl_host_desc.h:96`) | violated: the zero-filled end of a mapped file appears elsewhere |
| `loader` | `EntriesDisjoint`, `ReadsIntoImage`, `SegmentsProtected`, `SledOverNothing`, `ReadyForUser` | holds |
| `dyntext` | `RegionsSorted`, `SearchExact`, `VisibleIsCode`, `LoadedWhole` | holds |
| `session` | `OnlyPreparedRuns`, `CpuAccounted`, `ReportTruthful`, `ZeroIsNotSuccess`, `LogTrimmed`, `ComesBack` | holds |
| `network` | `LiveCellFirst`, `SocketsAccounted`, `ImplementsChannels`, `Finishes` | holds |
| `session_ret_code` | the report's `ReportRetCode` is the exit code of ZeroVM (`doc/manifest.txt:65`) | violated: it is always 0, the exit code never |

What the less obvious ones mean:

* `ViewCurrent`: after a setup call the list in the user's memory shows the limits
  in force, whichever fields were taken and refused.
* `HostCoversMap`: without a memory limit, what the map records for a page above
  the text the host allows, unless the host refused unnoticed, and where nothing is
  recorded the host allows nothing.
* `LimitFreezesHost`: with a limit, no memory call reaches the host.
* `BreakKept`: the last page below the break is recorded, which sysbrk takes for
  granted and stops the session if not, unless the program has unmapped it itself.
* `RefsExact`: a descriptor's count is the number of table slots and map entries that
  refer to it, whatever calls have split and swallowed.
* `HandlesKept`: no call closes the file of an opened channel, although descriptors
  of mapped channels may hold its number; true because the table's reference keeps
  every descriptor alive.
* `BuffersShowFiles`: no mount overlays another one or the image.
* `ReadyForUser`: a loaded program has every page either recorded with the
  protection of its segment or inaccessible.
* `SearchExact`: the binary search finds the region a linear scan finds.
* `VisibleIsCode`: an executable page of dynamic text has
  halts and validated code only, any other page has been left alone.
* `OnlyPreparedRuns`: the program runs only after everything before it succeeded.
* `ZeroIsNotSuccess`: what the code really does with exit codes: a program that
  exits with 0 makes the process exit with 1, since `longjmp(.., 0)` delivers 1.
* `ComesBack`: main ends, or the program runs for ever.
* `LiveCellFirst`: the first cell that holds the descriptor of an open socket is that
  socket's own. `remove_sockf_from_array_by_fd` depends on it, because it does not look
  whether a cell is in use.
* `SocketsAccounted`: the sockets really open are those of the cells in use; none is
  closed under the pool and none is left when the session ends.
* `ImplementsChannels`: the reader gets the transfers the writer was told it made,
  whole, in order and once, and no write overtakes a read, whoever dies.
* `Finishes`: the orders in which manager, sources and destinations visit their
  channels fit: unless something fails, nobody waits for ever.

### Bounds

* Trap: four calls (`MaxCalls`) on three channels. Two calls are needed to lower a
  limit below its use, a third to use it, a fourth to see the effect. 32-bit
  integers have 5 bits (`Half` = 16); `trap_narrowing` has 3, so that limits can
  lie further apart than the width.
* VmMap: fourteen pages, three calls; the entries leave a hole of six pages, enough
  for a split inside an entry and a search with a choice of places. `Breaks`,
  `MmapCalls` and `MunmapCalls` sit on and beside page and allocation page
  boundaries.
* Mount: eighteen pages, allocation pages of two; files of five pages, so that their
  last allocation page has a zero-filled part and calls can cut an entry at both ends
  and split it; limits of 2 and 6 pages, with which three channels may or may not fit;
  a table of two slots, so that the third channel makes it grow; words of two bits.
  Two calls after mounting: the first splits, the second meets the pieces.
* Loader: an address space of 32, pages of 2, allocation pages of 4; up to three
  headers, at each boundary and beside it, in several orders.
* DynText: pages of three bundles, blobs of up to four segments, so that the
  search both halves its range and scans.
* Session: three channels (file, log, network), a log of 2, cpu counters of two
  bits so that they wrap within a behaviour, four exit codes around a byte, one
  signal with a handler and one without.

* Network: the sort with two sources and two destinations and two rounds (the second
  is the first whose request is not the first of its kind), seven processes with the
  exchanging nodes and the caller of the pool. A pool that grows by 2 (10 in the
  code) grows five times for the manager's twelve channels and once for the caller's three. Seven calls
  of that caller are enough to fill the pool, free cells in another order and fill it
  again. With three sources and one round TLC visited 743,000 states in 20 minutes
  without a violation and did not finish, so that instance is no run.

Runs do not check for deadlock where the session really stops: after exit, abort,
the end of loading, the end of all programs, or the bound on calls.

### Fairness

`Session` and `Network` have some. `WF(Prepare)` and `WF(Finish)`: main is a straight line of
code with loops over finite tables, so the process gets on as long as the
scheduler runs it. `WF(ReturnFromCall \/ Exit)`: a system call in progress ends.
Nothing is assumed of the program: it may compute for ever, which is the second
alternative of `ComesBack`. `Timeout`, `KillTimeout` and `CPUMax` of the manifest
would end it, but nothing in the code compares them with anything. In `Network` each
node has `WF(Step(n))`: a process of its own, which the host runs when it can go on;
a read that waits for a reply and a write that waits for a request cannot. Nothing
is assumed of `Lose`.

## 4. The proofs

`tlapm` checks eight modules. They hold for every value of the constants that
satisfies the named assumption of the module (`ConstantsAssumption`,
`PageMapAssumption`, `DynTextAssumption`, `SessionAssumption`, `NetworkAssumption`),
which TLC evaluates in the runs. `PageMapAssumption` is a hypothesis of each theorem
of `PageMapProofs`;
`MCVmMap` assumes it of the instance through which `VmMap` refines `PageMap`, so that
the invariants `VmMap` takes from `PageMap` are those the theorems are about.

**TrapProofs.** `TypeCorrect` is inductive as it stands. `LimitsOnlyTighten`,
`CallbacksAgree` and `ViewShowsLimits` need only the types. `SetupBudgetKept` and
`CallsCounted` hold for sessions of less than 2^31 calls (`MaxCalls < Half`) with
`CallInv`: both counters equal the calls really made, because below the width
`Int32` is the identity, and `max_setup_calls` never rises. Past that the
counters wrap and the properties fail, so the bound is needed.

**TrapQuotaProofs.** `QuotaKept` and `GrantsWithinLimit` under `ByteLimits` closer
together than 2^31: then the tail of a quota survives the conversion to 32 bits.
`QuotaInv` keeps, per channel and direction, that the counters are within the
limit the session began with and the bytes moved within the counters.
`trap_narrowing` shows that the condition cannot be dropped.

**PageMapProofs.** `TypeCorrect`, `TextNeverChanges`, `ExecutableIsText`,
`HostFollowsMap`, `HostFrozen`. `CoverInv` adds to `HostCoversMap` that a session
without a limit never gets one; without that the step where a call stops asking
the host could not be excluded. Pages in `lost` are excepted: there the kernel refused.
`PageMap` describes sessions whose mapped channels, if any, fill whole allocation
pages; `mount_zero_fill` shows why the others are left out.

**SessionProofs.** `ProgramIsPrepared` with `PreparedInv`, which says for each
stage what the stages before it have established; `ReportIsTruthful` and
`StatusIsNeverSuccess` with `ReportInv`; `CpuTimeIsAccounted` with `CpuInv`: the
clock and `cnt_cpu_last` differ by the time since the call began, modulo the width;
`LogIsTrimmed` with `LogInv`: the text stays within the log.
The lemmas on `Wrap` (two's complement of any width) carry the arithmetic.

**DynTextProofs.** `RegionsStaySorted`, `SearchIsExact`, `OnlyCodeIsVisible` and
`BlobIsWhole`, for every blob, page size, dynamic text and cutoff of the search.
`Around` is the invariant of the binary search: its range is not empty, starts at a
region at or below the address, and the region behind it starts above. From it
`FindExact` follows, and from that, in `InsertionKeeps`, that looking at one neighbour
is enough to find a free place. `TextInv` adds to the properties that the pages of the
cached mapping are visible: a mapping that hits the cache makes no page visible, and
without that fact could write to one that is not. `WholeInv` says that the segments
before `segnum` are in place; later code does not disturb them because the pages it
fills with halts were not visible, and so hold no code.

**LeastElements.** A set of naturals that is not empty has a least element, and
induction over the members of a set. The searches of `NetworkProofs` and
`DynTextProofs`, and that the recursive function in `Search` exists, rest on these.

**NetworkProofs.** `FirstCellIsLive` and `SocketsAreAccounted`, for every channels
table, set of programs and granularity. Neither property is inductive alone: a cell
freed by the wrong close would leave a socket nobody accounts for. `PoolInv` says of
each node that no cell before one in use holds its descriptor or was never set, that
cells in use belong to rows of the table, that cells hold sockets made so far and no
two cells in use the same one, and that the open sockets are those of the cells in
use. The lemmas
`AddedOK`, `ClosedOK`, `RemovedOK` and `OpenedAllOK` say what each operation on the
array keeps.

**ChannelProofs.** `ChannelsImplemented`: `Network` implements `CommFile`. `ChanInv`
keeps, per channel, that a request is out only when everything written was read, and
that a reply in flight is the one transfer the reader has not seen; and, per node,
that one that runs has read all it asked for, and one that waits all but that. After
a loss the reader waits for ever, asks for nothing, and so nobody writes.
One reader and one writer per channel (`NetworkAssumption`) is needed: with two
readers the reply to the one would meet the request of the other.

**Only model-checked.** Liveness (`ComesBack`, `Finishes`), which needs fairness and ENABLED;
that `VmMap` implements `PageMap`; everything about `VmMap`'s array, `Mount` and `Loader`.

## 5. Where code and documents part, without a run

* `doc/zerovm_api.txt:47` says setup may be called at least once; with
  `max_setup_calls` 0 it may not.
* A limit of 0 admits no call (`trap.c:181`); `api/zvm.h:121` says "0 - no limit".
* `SyscallsMax` is "syscalls allowed nexe to invoke" (`doc/manifest.txt:83`); the hook
  counts calls and compares the count with nothing.
* The comment at `nacl_syscall_handlers.c:139` takes the page of the break to be in the
  map; munmap may remove it, and the next sysbrk that grows stops the program.
  `BreakKept` says that nothing else does.
* `doc/pagination.txt:26` gives a channel that is not mapped a NULL buffer and a `bsize`
  of 0; the code does not set the one and sets the other to -1.
* The comment on `NaClMemObjCtor` says it takes over the reference of its caller; the
  code takes a reference of its own, and `RefsExact` depends on that.
* A write may extend a channel's file beyond `max_size` (`trap.c:256`), which
  `doc/manifest.txt:30` calls the maximum size.
* Refused setup calls are counted too, and the counter wraps.
* `-c`, `-s`, `-g`, `-Z` and `-D` are parsed into a structure that `NaClAppCtor`
  then resets; `-l` is in the option string and has no case.
* Without dynamic loading the gap between text and data stays writable and
  unrecorded, and a text that ends on an allocation page gets its halts above
  `dynamic_text_end`; `ReadyForUser` is about images with dynamic text.
* The branch of `sel_ldr_standard.c` commented "This should be unreachable" is
  reached by an image with nothing but text.
* `munmap` refuses a range that ends at the top of the address space.
* `zmq_netw.c:30` says of the context that it "should be destroyed in zeromq_term";
  `term_zvm_networking` does not call it, so a process may end with its last reply
  still in memory and its reader waits for ever (`Lose`; `Finishes` excepts it).
* `zmq_netw.h` says the result of `open_sockf` is "owned by zpool"; the first open
  returns a copy of its own, and after a failed addition the copy it has freed.
* A read or write of nothing on a network channel, or of a descriptor that is not in
  the table, ends the session; so does the source's read of its standard input
  (`samples/disort/source/main_src.c:96`) in a session built with `NETWORKING`.

## 6. Not modelled

The instruction decoder, its tables and the rules of the validator (data and pure
functions of an instruction, whose verdict is an input here); the text of manifests,
reports and logs; registers and the context switch; the contents of memory other
than dynamic text and mapped files; descriptors that no system call reaches, and with
them `src/imc` and most of `src/desc`; the library inside the program (`api/zvm.c`,
`api/zrt.c`), whose calls `Trap` lets come in any order; `src/gio`, whose reads fail or
succeed; the analysis of the histograms and the sorting in `samples/disort`; reading
the channels table with sqlite; files that another process changes while they are
mapped.

What is mapped is a small share of the repository's lines, about 2.5 per cent. The
repository carries whole copies of sqlite and gtest and the generated tables of the
decoder, together most of its lines; they are not ZeroVM's own code, or are data, and
mapping them would describe nothing. Of the files that do hold state of ZeroVM
(`trap.c`, `sel_mem.c`, `nacl_syscall_handlers.c`, `sel_addrspace.c`, `elf_util.c`,
`nacl_text.c`, `sel_main.c`, `zmq_netw.c`, `zvm_netw.c` and others) the map covers half
to nine tenths.

Type invariants are not runs of their own: those the proofs need (`Trap`, `PageMap`,
and the type parts of `PoolInv`, `ChanInv` and `PreparedInv`) are proved, and the
other modules state only properties of behaviour.

Assumptions: segments of a blob have `filesz <= memsz` and 32-bit addresses; the
host does what it is asked or fails; a channel has one reader and one writer, as in
`zerovm_config.sql`.

## 7. What could come next

1. The bookkeeping of possible and actual targets of direct jumps in `nc_jumps.c`,
   over abstract instructions, against a plain definition.
2. `api/zrt.c`, its file positions and buffers over the calls of `Trap`.
3. Proofs: the reference counts of `Mount` and the slots of `DynArray`, the invariants
   of `Loader`, and that `VmMap`'s calls map to `PageMap`'s.
