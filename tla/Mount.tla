------------------------------- MODULE Mount --------------------------------
(***************************************************************************)
(* Mounting the channels (mount_channel.c, premap.c, preload.c) of a       *)
(* session without MemMax, and what the program then does to its mapped    *)
(* channels with mmap and munmap: host handles, the descriptor table       *)
(* (sel_ldr.c, dyn_array.c), reference counts (nacl_refcount.c), the       *)
(* memory objects of the map's entries and the pages the kernel shows.     *)
(*                                                                         *)
(* Each channel has a file of its own.  Sizes and offsets are in pages.    *)
(* A descriptor (NaClDescIoDesc) is named by the channel it is made for.   *)
(***************************************************************************)
EXTENDS SelMem, DynArray

CONSTANTS
  AddrPages,   \* pages in the address space
  Layout,      \* the entries of the loaded image
  DynTextEnd,  \* dynamic_text_end, a page number
  Handles,     \* host handles a channel may get, lowest first
  FileSizes,   \* sizes the channel files may have
  MaxSizes,    \* values of a channel's max_size
  MmapCalls,   \* arguments of mmap
  MunmapCalls, \* arguments of munmap
  MaxCalls     \* bound on the calls of a session

InputChannel == 0
OutputChannel == 1
LogChannel == 2
Channels == {InputChannel, OutputChannel, LogChannel}
Pages == 0 .. AddrPages - 1
NoAccess == {}

VARIABLES
  mounted,   \* channels[].mounted, or "absent" when the manifest has no name
  max_size,  \* channels[].max_size
  flen,      \* the size of each channel's file
  handle,    \* channels[].handle
  buffer,    \* channels[].buffer, a page number; 0 when there is none
  open,      \* the channel whose file a host handle is open on, as a pointer
  desc_tbl,  \* nap->desc_tbl
  hd,        \* the host handle a descriptor was made with
  ref_count, \* of each descriptor; 0 before it is made and when it is gone
  vmentry,   \* mem_map.vmentry
  page,      \* what the kernel shows at each page
  lost,      \* pages whose last mmap the kernel refused, unnoticed (history)
  ch,        \* the next channel to mount
  phase,     \* "mount", "user" or "aborted"
  calls      \* calls made so far

manifest == <<mounted, max_size>>
descs == <<desc_tbl, hd>>
space == <<vmentry, page, lost>>
vars == <<mounted, max_size, flen, handle, buffer, open, desc_tbl, hd, ref_count, vmentry,
          page, lost, ch, phase, calls>>

\* A page of memory: its protection and the page of a file behind it.
Page(prot, file, offset) == [prot |-> prot, file |-> file, offset |-> offset]
Anonymous(prot) == Page(prot, NULL, 0)

LoadedPage(p) ==
  IF \E i \in DOMAIN Layout : Covers(Layout[i], p)
  THEN Anonymous(Layout[CHOOSE i \in DOMAIN Layout : Covers(Layout[i], p)].prot)
  ELSE Anonymous(NoAccess)

Init ==
  /\ mounted \in [Channels -> {"absent", "MAPPED", "LOADED"}]
  /\ max_size \in [Channels -> MaxSizes]
  /\ flen \in [Channels -> FileSizes]
  /\ handle = [c \in Channels |-> -1]
  /\ buffer = [c \in Channels |-> 0]
  /\ open = [h \in Handles |-> NULL]
  /\ desc_tbl = DynArrayCtor(2)
  /\ hd = [c \in Channels |-> -1]
  /\ ref_count = [c \in Channels |-> 0]
  /\ vmentry = Layout
  /\ page = [p \in Pages |-> LoadedPage(p)]
  /\ lost = {}
  /\ ch = 0
  /\ phase = "mount"
  /\ calls = 0

-----------------------------------------------------------------------------
(* mmap with everything it does to entries, counts and pages.             *)

\* How many of the entries I of s a descriptor backs.
Backed(s, I, d) == Cardinality({i \in I : \E o \in s[i].nmop : o.ndp = d})

\* Mutant of RefsAfterUpdate: a split entry shares the reference of the original.
RefsAfterUpdate_SplitShared(entries, refs, at, npages, nmop) ==
  LET s == MakeSorted(entries)
      visited == Visited(s, at, at + npages)
  IN  [d \in Channels |-> refs[d] + Cardinality({o \in nmop : o.ndp = d})
                                  - Backed(s, Covered(s, visited, at, at + npages), d)]

\* Counts after NaClVmmapUpdate: NaClMemObjCtor and the copies of split entries
\* take a reference, NaClVmmapEntryFree drops the one of each entry covered.
RefsAfterUpdate(entries, refs, at, npages, nmop) ==
  LET s == MakeSorted(entries)
      visited == Visited(s, at, at + npages)
  IN  [d \in Channels |-> refs[d] + Cardinality({o \in nmop : o.ndp = d})
                                  + Backed(s, Split(s, visited, at, at + npages), d)
                                  - Backed(s, Covered(s, visited, at, at + npages), d)]

\* Entries and counts as one value, and NaClCommonUtilUpdateAddrMap on it: a
\* region without pages is left out by its callers.
Update(m, at, npages, prot, nmop, remove) ==
  IF npages = 0 THEN m
  ELSE [entries |-> UpdateMap(m.entries, at, npages, prot, nmop, remove),
        refs |-> RefsAfterUpdate(m.entries, m.refs, at, npages, nmop)]

\* A mapping of n pages has "length" of them from the file, zero-filled pages up to
\* the end of the allocation page, and no access above start_of_inaccessible.
AtMost(n, m) == IF n < m THEN n ELSE m
FileLength(n, file_pages) == AtMost(n, file_pages)
StartOfInaccessible(n, file_pages) == AtMost(n, RoundAllocPages(file_pages))

\* What NaClCommonSysMmapIntern records: the three parts in turn, or the first one only
\* when the kernel refuses the zero-filled pages.
Recorded(m, at, n, prot, nmop, file_pages, zeros) ==
  LET length == FileLength(n, file_pages)
      accessible == StartOfInaccessible(n, file_pages)
      filed == Update(m, at, length, prot, IF prot = NoAccess THEN NULL ELSE nmop, FALSE)
      filled == Update(filed, at + length, accessible - length, prot, NULL, FALSE)
  IN  IF zeros THEN Update(filled, at + accessible, n - accessible, NoAccess, NULL, FALSE)
      ELSE filed

\* The allocation pages of a region NaClDescIoDescMap asks for one by one; it
\* misses every refusal but EPERM.
Pieces(at, length) ==
  {PageRange(p, PagesPerMap) \intersect PageRange(at, length) :
     p \in {q \in PageRange(at, length) : (q - at) % PagesPerMap = 0}}

\* Only the file part is mapped where it is recorded.  The calls for the other two
\* lack MAP_FIXED, and the kernel, which finds the place taken by the reserved
\* address space, puts the pages elsewhere.
Shown(at, length, prot, file, offset, bad) ==
  [p \in Pages |-> IF p \in PageRange(at, length) \ bad
                   THEN Page(prot, file, IF file = NULL THEN 0 ELSE offset + p - at)
                   ELSE page[p]]

\* The change of state when n pages at page "at" are mapped, from "file" (a pointer)
\* of file_pages pages beyond the offset, with "refs" the counts before.
MapRegion(refs, at, n, prot, nmop, file, file_pages, offset, zeros) ==
  LET length == FileLength(n, file_pages)
      after == Recorded([entries |-> vmentry, refs |-> refs], at, n, prot, nmop, file_pages,
                        zeros)
  IN  \E B \in SUBSET Pieces(at, length) :
        /\ vmentry' = MakeSorted(after.entries)
        /\ ref_count' = after.refs
        /\ page' = Shown(at, length, prot, file, offset, UNION B)
        /\ lost' = (lost \ PageRange(at, IF zeros THEN n ELSE length)) \union UNION B

\* Mutant of AfterDtor: the reference of the table is forgotten.
AfterDtor_TableForgotten(files, before, after) ==
  [h \in Handles |->
     IF \E d \in Channels : before[d] > 1 /\ after[d] = 1 /\ hd[d] = h THEN NULL ELSE files[h]]

\* NaClDescIoDescDtor closes the handle of a descriptor nobody refers to any more.
AfterDtor(files, before, after) ==
  [h \in Handles |->
     IF \E d \in Channels : before[d] > 0 /\ after[d] = 0 /\ hd[d] = h THEN NULL ELSE files[h]]

-----------------------------------------------------------------------------
(* Mounting.                                                              *)

\* open() takes the lowest handle that is free.
FreeHandles == {h \in Handles : open[h] = NULL}

IsOutput(c) == c \in {OutputChannel, LogChannel}

ChannelMapProt(c) ==
  CASE c = InputChannel -> {"R"} [] c = OutputChannel -> {"W"} [] c = LogChannel -> {"R", "W"}

\* The size premap.c sets and maps, and the one preload.c holds against max_size.
PremapSize(c) == IF IsOutput(c) THEN max_size[c] ELSE flen[c]
PreloadSize(c) == IF IsOutput(c) /\ flen[c] < 1 THEN max_size[c] ELSE flen[c]

\* NaClSetAvailMu with NaClSetDescMu, which drops what the slot held.
SetAvail(d) ==
  LET pos == FirstAvail(desc_tbl)
      old == DynArrayGet(desc_tbl, pos)
  IN  [tbl  |-> DynArraySet([desc_tbl EXCEPT !.avail_ix = FirstAvailHint(desc_tbl)], pos, {d}),
       refs |-> [c \in Channels |-> IF c = d THEN 1
                                    ELSE IF c \in old THEN ref_count[c] - 1 ELSE ref_count[c]]]

\* PremapChannel: open, resize, describe, map and close.  The descriptor keeps the
\* number of the handle.
PremapChannel ==
  LET n == RoundAllocPages(PremapSize(ch))
      at == FindMapSpace(MakeSorted(vmentry), n)
      set == SetAvail(ch)
  IN  /\ phase = "mount" /\ ch \in Channels /\ mounted[ch] = "MAPPED"
      /\ FreeHandles # {}
      /\ PremapSize(ch) <= max_size[ch]
      /\ PremapSize(ch) > 0 /\ at # 0
      /\ flen' = [flen EXCEPT ![ch] = PremapSize(ch)]
      /\ desc_tbl' = set.tbl
      /\ hd' = [hd EXCEPT ![ch] = Min(FreeHandles)]
      /\ MapRegion(set.refs, at, n, ChannelMapProt(ch), {[ndp |-> ch, offset |-> 0]}, {ch},
                   PremapSize(ch), 0, TRUE)
      /\ buffer' = [buffer EXCEPT ![ch] = at]
      /\ ch' = ch + 1
      /\ UNCHANGED <<mounted, max_size, handle, open, phase, calls>>

\* PreloadChannel: open and measure.
PreloadChannel ==
  /\ phase = "mount" /\ ch \in Channels /\ mounted[ch] = "LOADED"
  /\ FreeHandles # {}
  /\ PreloadSize(ch) <= max_size[ch]
  /\ handle' = [handle EXCEPT ![ch] = Min(FreeHandles)]
  /\ open' = [open EXCEPT ![Min(FreeHandles)] = {ch}]
  /\ ch' = ch + 1
  /\ UNCHANGED <<mounted, max_size, flen, buffer, descs, ref_count, space, phase, calls>>

\* A channel the manifest does not name is not mounted.
SkipChannel ==
  /\ phase = "mount" /\ ch \in Channels /\ mounted[ch] = "absent"
  /\ ch' = ch + 1
  /\ UNCHANGED <<manifest, flen, handle, buffer, open, descs, ref_count, space, phase, calls>>

\* COND_ABORT and LOG_FATAL: the file cannot be opened or resized, exceeds its limit, is
\* empty or finds no room, or a refusal of the kernel is noticed.
MountFails ==
  /\ phase = "mount" /\ ch \in Channels /\ mounted[ch] # "absent"
  /\ phase' = "aborted"
  /\ UNCHANGED <<manifest, flen, handle, buffer, open, descs, ref_count, space, ch, calls>>

StartUser ==
  /\ phase = "mount" /\ ch \notin Channels
  /\ phase' = "user"
  /\ UNCHANGED <<manifest, flen, handle, buffer, open, descs, ref_count, space, ch, calls>>

-----------------------------------------------------------------------------
(* System calls.                                                          *)

Enter ==
  /\ phase = "user" /\ calls < MaxCalls
  /\ calls' = calls + 1
  /\ UNCHANGED <<manifest, flen, handle, buffer, descs, ch>>

Refuse == UNCHANGED <<open, ref_count, space, phase>>

\* NaClGetDesc, and the file its handle is open on now: NULL when fstat fails.
DescOf(c) == IF c.anonymous THEN NULL ELSE DynArrayGet(desc_tbl, c.d)
FileOf(c) == UNION {open[hd[d]] : d \in DescOf(c)}

\* Pages of the file beyond the offset; as many as one likes without a file.
FilePages(c, n) == IF c.anonymous THEN n ELSE flen[CHOOSE f \in FileOf(c) : TRUE] - c.offset

MmapPage(c, n) == IF c.fixed THEN c.page ELSE FindMapSpace(vmentry, n)

ContainsExecutable(at) == RoundDown(at, PagesPerMap) < DynTextEnd

Accepts(c, n) ==
  /\ c.anonymous \/ FileOf(c) # NULL
  /\ c.page % PagesPerMap = 0 /\ c.offset % PagesPerMap = 0
  /\ c.npages > 0
  /\ FilePages(c, n) >= 0
  /\ c.fixed \/ MmapPage(c, n) # 0
  /\ MmapPage(c, n) + n <= AddrPages
  /\ ~ContainsExecutable(MmapPage(c, n))

\* mmap: an error when the kernel refuses the zero-filled pages, LOG_FATAL when another
\* refusal is noticed.
Mmap(c) ==
  LET n == RoundAllocPages(c.npages)
  IN  /\ Enter
      /\ \/ ~Accepts(c, n) /\ Refuse
         \/ /\ Accepts(c, n)
            /\ \E zeros \in BOOLEAN :
                 /\ zeros \/ FileLength(n, FilePages(c, n)) < StartOfInaccessible(n, FilePages(c, n))
                 /\ MapRegion(ref_count, MmapPage(c, n), n, c.prot,
                              {[ndp |-> d, offset |-> c.offset] : d \in DescOf(c)},
                              FileOf(c), FilePages(c, n), c.offset, zeros)
            /\ open' = AfterDtor(open, ref_count, ref_count')
            /\ UNCHANGED phase
         \/ /\ Accepts(c, n)
            /\ phase' = "aborted"
            /\ UNCHANGED <<open, ref_count, space>>

\* munmap; an error when the kernel refuses.
Munmap(c) ==
  LET n == RoundAllocPages(c.npages)
      after == Update([entries |-> vmentry, refs |-> ref_count], c.page, n, NoAccess, NULL, TRUE)
      valid == /\ c.page % PagesPerMap = 0 /\ n > 0
               /\ c.page # 0 /\ c.page + n < AddrPages
               /\ ~ContainsExecutable(c.page)
  IN  /\ Enter
      /\ \/ Refuse
         \/ /\ valid
            /\ vmentry' = MakeSorted(after.entries)
            /\ ref_count' = after.refs
            /\ page' = [p \in Pages |-> IF p \in PageRange(c.page, n) THEN Anonymous(NoAccess)
                                        ELSE page[p]]
            /\ lost' = lost \ PageRange(c.page, n)
            /\ open' = AfterDtor(open, ref_count, ref_count')
            /\ UNCHANGED phase

Next ==
  \/ PremapChannel
  \/ PreloadChannel
  \/ SkipChannel
  \/ MountFails
  \/ StartUser
  \/ \E c \in MmapCalls : Mmap(c)
  \/ \E c \in MunmapCalls : Munmap(c)

Spec == Init /\ [][Next]_vars

-----------------------------------------------------------------------------
(* Properties.                                                            *)

Described == {d \in Channels : d < ch /\ mounted[d] = "MAPPED"}
Slots(d) == {i \in DOMAIN desc_tbl.ptr_array : d \in desc_tbl.ptr_array[i]}
Entries(d) == {i \in DOMAIN vmentry : \E o \in vmentry[i].nmop : o.ndp = d}

\* Between calls a descriptor is counted exactly once for each slot of the table and
\* each entry of the map that refers to it, however mmap and munmap split, trim and
\* cover its entries.
RefsExact ==
  \A d \in Described : ref_count[d] = Cardinality(Slots(d)) + Cardinality(Entries(d))

\* Every mapped channel keeps a slot of its own in the table, also when the table
\* grows, and the bitmap marks just the slots in use.
SlotsKept ==
  /\ \A d \in Described : Cardinality(Slots(d)) = 1
  /\ desc_tbl.available = {i \in DOMAIN desc_tbl.ptr_array : desc_tbl.ptr_array[i] # NULL}

\* The handle of a loaded channel stays open on the channel's own file for the
\* whole session.  A descriptor still has the number of the handle premap.c closed,
\* which may be this one's by now: this holds because no descriptor is destroyed.
HandlesKept ==
  \A c \in Channels : c < ch /\ mounted[c] = "LOADED" => open[handle[c]] = {c}

\* Wherever an entry is backed by a descriptor, its memory object's offset is the one
\* the kernel maps there, after any number of splits and trims.
OffsetsTrue ==
  \A i \in DOMAIN vmentry : \A o \in vmentry[i].nmop :
    \A p \in PageRange(vmentry[i].page, vmentry[i].npages) \ lost :
      page[p].file # NULL /\ page[p].offset = o.offset + p - vmentry[i].page

\* When the program starts, every mapped channel's buffer shows its file from the
\* first page to the last, and the pages of the image are as they were loaded: no
\* mount overlays another one.
BuffersShowFiles ==
  phase = "mount" =>
    /\ \A c \in Described : \A i \in 0 .. flen[c] - 1 :
         buffer[c] + i \in lost \/ page[buffer[c] + i] = Page(ChannelMapProt(c), {c}, i)
    /\ \A i \in DOMAIN Layout : \A p \in PageRange(Layout[i].page, Layout[i].npages) :
         page[p] = LoadedPage(p)

\* What the comment on NaClHostDescMap says: it adds MAP_FIXED, so a page recorded as
\* accessible is, if the kernel did not refuse, accessible.
RecordedIsMapped ==
  phase # "aborted" =>
    \A i \in DOMAIN vmentry :
      \A p \in PageRange(vmentry[i].page, vmentry[i].npages) \ lost :
        vmentry[i].prot \subseteq page[p].prot
=============================================================================
