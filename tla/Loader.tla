------------------------------- MODULE Loader -------------------------------
(***************************************************************************)
(* Loading the user program: NaClAppLoadFile and what it calls.  The       *)
(* program headers are validated one by one (elf_util.c), the layout is    *)
(* checked (sel_ldr_standard.c), the address space is allocated, the       *)
(* segments are read in, the gap above the text becomes dynamic text       *)
(* (nacl_text.c), the text is padded with halts and validated, and the     *)
(* regions are protected and recorded in the memory map (sel_addrspace.c). *)
(*                                                                         *)
(* Addresses are user addresses; a page is PageSize of them, an allocation *)
(* page (64K) MapSize.  A program header is                                *)
(*   [kind, vaddr, filesz, memsz]                                          *)
(* where kind stands for the pair p_type, p_flags.                         *)
(***************************************************************************)
EXTENDS Integers, Sequences

CONSTANTS
  PageSize,        \* NACL_PAGESIZE
  MapSize,         \* NACL_MAP_PAGESIZE
  SyscallStart,    \* NACL_SYSCALL_START_ADDR, also NACL_TRAMPOLINE_START
  TrampolineEnd,   \* NACL_TRAMPOLINE_END
  AddrSpace,       \* 1 << addr_bits
  WordMod,         \* 1 << 64: sums of header fields wrap here
  HaltSled,        \* NACL_HALT_SLED_SIZE
  Bundle,          \* bundle_size
  StackMax,        \* stack_size as configured
  Images,          \* the sequences of program headers to load
  EntryPoints,     \* values of e_entry
  DynamicLoading   \* values of use_shm_for_dynamic_text

VARIABLES
  phdrs,    \* image->phdrs
  e_entry,  \* image->ehdr.e_entry
  use_shm,  \* nap->use_shm_for_dynamic_text
  segnum,   \* the header looked at next
  seen,     \* kinds of segment seen
  loadable, \* headers that will be loaded
  locals,   \* rodata_end, data_end and max_vaddr of NaClAppLoadFile
  nap,      \* the layout in struct NaClApp
  written,  \* addresses the loader wrote file contents to
  padding,  \* addresses filled with halts behind the text
  host,     \* the protection of each page
  vmentry,  \* the entries of nap->mem_map
  code,     \* the result, "LOAD_OK" until something fails
  pc        \* the step to take next

vars == <<phdrs, e_entry, use_shm, segnum, seen, loadable, locals, nap, written, padding,
          host, vmentry, code, pc>>
input == <<phdrs, e_entry, use_shm>>
scan == <<segnum, seen, loadable, locals>>

Pages == 0 .. (AddrSpace \div PageSize) - 1
Access == {"R", "W", "X"}
NoAccess == {}
ReadOnly == {"R"}
ReadWrite == {"R", "W"}
ReadExec == {"R", "X"}

Checked == {"text", "rodata", "data", "gnu_stack"}
Ignored == {"phdr", "tls"}

RoundTo(n, unit) == ((n + unit - 1) \div unit) * unit
RoundPage(n) == RoundTo(n, PageSize)
RoundAllocPage(n) == RoundTo(n, MapSize)
TruncAllocPage(n) == (n \div MapSize) * MapSize
Range(start, size) == start .. start + size - 1
StackSize == RoundAllocPage(StackMax)
StackStart == TruncAllocPage(AddrSpace - StackSize)

\* NACL_DEFAULT_STACK_MAX is far below the 4G of the address space.
ASSUME LoaderAssumption == StackSize < AddrSpace

Init ==
  /\ phdrs \in Images
  /\ e_entry \in EntryPoints
  /\ use_shm \in DynamicLoading
  /\ segnum = 1
  /\ seen = {}
  /\ loadable = {}
  /\ locals = [rodata_end |-> 0, data_end |-> 0, max_vaddr |-> TrampolineEnd]
  /\ nap = [static_text_end |-> 0, rodata_start |-> 0, data_start |-> 0, data_end |-> 0,
            dynamic_text_start |-> 0, dynamic_text_end |-> 0, text_shm |-> FALSE]
  /\ written = {}
  /\ padding = {}
  /\ host = [p \in Pages |-> NoAccess]
  /\ vmentry = <<>>
  /\ code = "LOAD_OK"
  /\ pc = "elf"

Fail(error) ==
  /\ code' = error
  /\ pc' = "failed"

\* LOG_FATAL.
Fatal ==
  /\ pc' = "aborted"
  /\ UNCHANGED code

Continue(step) ==
  /\ pc' = step
  /\ UNCHANGED code

-----------------------------------------------------------------------------
(* NaClElfImageNew, NaClElfImageValidateElfHeader and                     *)
(* NaClElfImageValidateProgramHeaders.                                    *)

\* The ELF header and the program headers are read.  LOAD_READ_ERROR stands for
\* every way the file or its header may be unfit.
ReadElfHeaders ==
  /\ pc = "elf"
  /\ \/ Fail("LOAD_READ_ERROR")
     \/ Continue("phdrs")
  /\ UNCHANGED <<input, scan, nap, written, padding, host, vmentry>>

SegmentEnd(h) == (h.vaddr + h.memsz) % WordMod

OutsideAddrSpace(h) ==
  \/ h.vaddr < TrampolineEnd
  \/ SegmentEnd(h) < h.vaddr
  \/ SegmentEnd(h) >= AddrSpace

\* Why a header that is not empty is refused, in the order of the checks.
SegmentRefusal(h) ==
  IF h.kind \notin Checked \union Ignored THEN "LOAD_BAD_SEGMENT"
  ELSE IF h.kind \in seen THEN "LOAD_DUP_SEGMENT"
  ELSE IF h.kind \in Ignored THEN "LOAD_OK"
  ELSE IF h.kind = "text" /\ h.vaddr # TrampolineEnd THEN "LOAD_SEGMENT_BAD_LOC"
  ELSE IF OutsideAddrSpace(h) THEN "LOAD_SEGMENT_OUTSIDE_ADDRSPACE"
  ELSE IF h.filesz > h.memsz THEN "LOAD_SEGMENT_BAD_PARAM"
  ELSE "LOAD_OK"

\* Mutant of HighestEnd: an earlier segment that ends higher is forgotten.
HighestEnd_Last(h) == SegmentEnd(h)

HighestEnd(h) ==
  IF locals.max_vaddr < SegmentEnd(h) THEN SegmentEnd(h) ELSE locals.max_vaddr

\* Where the segment lies decides the layout.
SegmentPlaced(h) ==
  /\ locals' = [locals EXCEPT
       !.max_vaddr = HighestEnd(h),
       !.rodata_end = IF h.kind = "rodata" THEN SegmentEnd(h) ELSE @,
       !.data_end = IF h.kind = "data" THEN SegmentEnd(h) ELSE @]
  /\ nap' = [nap EXCEPT
       !.static_text_end = IF h.kind = "text" THEN TrampolineEnd + h.filesz ELSE @,
       !.rodata_start = IF h.kind = "rodata" THEN h.vaddr ELSE @,
       !.data_start = IF h.kind = "data" THEN h.vaddr ELSE @]

SkipEmptySegment ==
  /\ pc = "phdrs" /\ segnum <= Len(phdrs)
  /\ phdrs[segnum].memsz = 0
  /\ segnum' = segnum + 1
  /\ UNCHANGED <<input, seen, loadable, locals, nap, written, padding, host, vmentry, code, pc>>

RefuseSegment ==
  /\ pc = "phdrs" /\ segnum <= Len(phdrs)
  /\ phdrs[segnum].memsz # 0
  /\ SegmentRefusal(phdrs[segnum]) # "LOAD_OK"
  /\ Fail(SegmentRefusal(phdrs[segnum]))
  /\ UNCHANGED <<input, scan, nap, written, padding, host, vmentry>>

AcceptSegment ==
  /\ pc = "phdrs" /\ segnum <= Len(phdrs)
  /\ phdrs[segnum].memsz # 0
  /\ SegmentRefusal(phdrs[segnum]) = "LOAD_OK"
  /\ seen' = seen \union {phdrs[segnum].kind}
  /\ segnum' = segnum + 1
  /\ IF phdrs[segnum].kind \in Ignored THEN UNCHANGED <<loadable, locals, nap>>
     ELSE /\ loadable' = loadable \union {segnum}
          /\ SegmentPlaced(phdrs[segnum])
  /\ UNCHANGED <<input, written, padding, host, vmentry, code, pc>>

-----------------------------------------------------------------------------
(* The layout: the part of NaClAppLoadFile up to the allocation.          *)

\* break_addr and data_end: the end of the image.  Without data it is rounded,
\* with room for the halt sled when there is no rodata either.
ImageEnd ==
  IF nap.data_start # 0 THEN locals.max_vaddr
  ELSE IF /\ nap.rodata_start = 0
          /\ RoundAllocPage(locals.max_vaddr) - locals.max_vaddr < HaltSled
    THEN RoundAllocPage(locals.max_vaddr + MapSize)
  ELSE RoundAllocPage(locals.max_vaddr)

\* Mutant of RodataOverlapsData: the check is missing.
RodataOverlapsData_Never == FALSE

RodataOverlapsData ==
  nap.rodata_start # 0 /\ nap.data_start # 0 /\ locals.rodata_end > nap.data_start

\* NaClCheckAddressSpaceLayoutSanity.
LayoutRefusal ==
  LET textEnd == RoundAllocPage(nap.static_text_end)
  IN  IF nap.data_start # 0 /\ locals.data_end # ImageEnd THEN "LOAD_DATA_NOT_LAST_SEGMENT"
      ELSE IF /\ nap.data_start = 0 /\ nap.rodata_start # 0
              /\ RoundAllocPage(locals.rodata_end) # ImageEnd
        THEN "LOAD_NO_DATA_BUT_RODATA_NOT_LAST_SEGMENT"
      ELSE IF RodataOverlapsData THEN "LOAD_RODATA_OVERLAPS_DATA"
      ELSE IF nap.rodata_start # 0 /\ textEnd > nap.rodata_start THEN "LOAD_TEXT_OVERLAPS_RODATA"
      ELSE IF nap.rodata_start = 0 /\ nap.data_start # 0 /\ textEnd > nap.data_start
        THEN "LOAD_TEXT_OVERLAPS_DATA"
      ELSE IF nap.rodata_start % MapSize # 0 THEN "LOAD_BAD_RODATA_ALIGNMENT"
      ELSE IF nap.data_start % MapSize # 0 THEN "LOAD_BAD_DATA_ALIGNMENT"
      ELSE "LOAD_OK"

ValidEntry == e_entry % Bundle = 0 /\ e_entry < nap.static_text_end

CheckLayout ==
  /\ pc = "phdrs" /\ segnum > Len(phdrs)
  /\ \/ /\ "text" \notin seen
        /\ Fail("LOAD_REQUIRED_SEG_MISSING")
        /\ UNCHANGED nap
     \/ /\ "text" \in seen
        /\ nap' = [nap EXCEPT !.data_end = ImageEnd]
        /\ \/ ~ValidEntry /\ Fail("LOAD_BAD_ENTRY")
           \/ ValidEntry /\ LayoutRefusal # "LOAD_OK" /\ Fail(LayoutRefusal)
           \/ ValidEntry /\ LayoutRefusal = "LOAD_OK" /\ Continue("alloc")
  /\ UNCHANGED <<input, scan, written, padding, host, vmentry>>

-----------------------------------------------------------------------------
(* Memory.                                                                *)

\* mprotect or mmap of a region, in whole pages.
Protect(h, start, size, prot) ==
  [p \in Pages |-> IF p * PageSize \in Range(start, size) THEN prot ELSE h[p]]

StackOverlapsData == StackStart < RoundAllocPage(nap.data_end)

\* NaClAllocAddrSpace, then the image is made writable.  The host may have no
\* room, and madvise or mprotect of the hole, or mprotect of the image, may fail.
AllocAddrSpace ==
  /\ pc = "alloc"
  /\ \/ Fail("LOAD_NO_MEMORY") /\ UNCHANGED host
     \/ StackOverlapsData /\ Fail("LOAD_DATA_OVERLAPS_STACK_SECTION") /\ UNCHANGED host
     \/ /\ ~StackOverlapsData
        /\ StackStart # RoundAllocPage(nap.data_end)
        /\ Fail("LOAD_MADVISE_FAIL") \/ Fail("LOAD_MPROTECT_FAIL")
        /\ UNCHANGED host
     \/ ~StackOverlapsData /\ Fatal /\ UNCHANGED host
     \/ /\ ~StackOverlapsData
        /\ host' = Protect(host, SyscallStart,
                           RoundAllocPage(nap.data_end) - SyscallStart, ReadWrite)
        /\ Continue("image")
  /\ UNCHANGED <<input, scan, nap, written, padding, vmentry>>

\* NaClElfImageLoad reads the segments in the order of their headers; the file
\* may be too short.
ElfImageLoad ==
  /\ pc = "image"
  /\ \/ Fail("LOAD_SEGMENT_BAD_PARAM") /\ UNCHANGED written
     \/ /\ written' = UNION {Range(phdrs[i].vaddr, phdrs[i].filesz) : i \in loadable}
        /\ Continue("dynamic_text")
  /\ UNCHANGED <<input, scan, nap, padding, host, vmentry>>

DynamicTextStart == RoundAllocPage(nap.static_text_end)

\* Mutant of DynamicTextBound: the gap below data is forgotten.
DynamicTextBound_RodataOnly ==
  IF use_shm /\ nap.rodata_start # 0 THEN nap.rodata_start ELSE DynamicTextStart

DynamicTextBound ==
  IF use_shm /\ nap.rodata_start # 0 THEN nap.rodata_start
  ELSE IF use_shm /\ nap.data_start # 0 THEN nap.data_start
  ELSE DynamicTextStart

\* NaClMakeDynamicTextShared: the gap between the static text and the first data
\* becomes shared memory that nobody can touch yet.
MakeDynamicTextShared ==
  LET base == DynamicTextStart
      bound == DynamicTextBound
  IN  /\ pc = "dynamic_text"
      /\ \/ /\ bound = base
            /\ nap' = [nap EXCEPT !.dynamic_text_start = base, !.dynamic_text_end = base]
            /\ Continue("fill")
            /\ UNCHANGED host
         \/ /\ bound # base
            /\ nap' = [nap EXCEPT !.dynamic_text_start = base, !.dynamic_text_end = bound,
                                  !.text_shm = TRUE]
            /\ host' = Protect(host, base, bound - base, NoAccess)
            /\ Continue("fill")
         \/ /\ bound # base
            /\ nap' = [nap EXCEPT !.dynamic_text_start = base, !.dynamic_text_end = bound]
            /\ Fail("LOAD_NO_MEMORY") \/ Fail("LOAD_INTERNAL") \/ Fatal
            /\ UNCHANGED host
      /\ UNCHANGED <<input, scan, written, padding, vmentry>>

NoGapForSled ==
  \/ nap.data_start # 0 /\ nap.static_text_end + HaltSled > nap.data_start
  \/ nap.rodata_start # 0 /\ nap.static_text_end + HaltSled > nap.rodata_start

\* Mutant of PaddedTextEnd: the sled is not counted.
PaddedTextEnd_NoSled == RoundAllocPage(nap.static_text_end)

PaddedTextEnd ==
  IF nap.text_shm THEN RoundAllocPage(nap.static_text_end)
  ELSE RoundAllocPage(nap.static_text_end + HaltSled)

\* NaClFillEndOfTextRegion.
FillEndOfTextRegion ==
  /\ pc = "fill"
  /\ \/ /\ NoGapForSled
        /\ Fatal
        /\ UNCHANGED <<nap, padding>>
     \/ /\ ~NoGapForSled
        /\ padding' = Range(nap.static_text_end, PaddedTextEnd - nap.static_text_end)
        /\ nap' = [nap EXCEPT !.static_text_end = PaddedTextEnd]
        /\ Continue("validate")
  /\ UNCHANGED <<input, scan, written, host, vmentry>>

\* NaClValidateImage: the validator's verdict.
ValidateImage ==
  /\ pc = "validate"
  /\ \/ Fail("LOAD_VALIDATION_FAILED")
     \/ Continue("protect")
  /\ UNCHANGED <<input, scan, nap, written, padding, host, vmentry>>

\* The regions NaClMemoryProtection protects and records, in its order.  The
\* dynamic text is recorded only.
VmmapAdd(start, size, prot) ==
  [page |-> start \div PageSize, npages |-> size \div PageSize, prot |-> prot]

\* Mutant of TextRegion: the trampolines are not counted.
TextRegion_NoTrampolines ==
  VmmapAdd(SyscallStart, RoundPage(nap.static_text_end - TrampolineEnd), ReadExec)

TextRegion ==
  VmmapAdd(SyscallStart, RoundPage(nap.static_text_end - SyscallStart), ReadExec)
DynamicTextRegion ==
  VmmapAdd(nap.dynamic_text_start, nap.dynamic_text_end - nap.dynamic_text_start, ReadExec)
RodataRegion ==
  LET end == IF nap.data_start # 0 THEN nap.data_start ELSE nap.data_end
  IN  VmmapAdd(nap.rodata_start, RoundPage(RoundAllocPage(end) - nap.rodata_start), ReadOnly)
DataRegion ==
  VmmapAdd(nap.data_start, RoundPage(RoundAllocPage(nap.data_end) - nap.data_start), ReadWrite)
StackRegion == VmmapAdd(StackStart, StackSize, ReadWrite)
Optional(wanted, region) == IF wanted THEN <<region>> ELSE <<>>

Regions ==
  <<VmmapAdd(0, SyscallStart, NoAccess), TextRegion>>
    \o Optional(nap.dynamic_text_end # nap.dynamic_text_start, DynamicTextRegion)
    \o Optional(nap.rodata_start # 0, RodataRegion)
    \o Optional(nap.data_start # 0, DataRegion)
    \o <<StackRegion>>

\* The last mprotect that reaches a page counts.
Protected(h, regions) ==
  [p \in Pages |->
     LET on == {i \in DOMAIN regions : /\ regions[i] # DynamicTextRegion
                                       /\ p \in Range(regions[i].page, regions[i].npages)}
     IN  IF on = {} THEN h[p]
         ELSE regions[CHOOSE i \in on : \A j \in on : j <= i].prot]

\* A region may fail after those before it were protected and recorded.
MemoryProtection ==
  /\ pc = "protect"
  /\ \E n \in 0 .. Len(Regions) :
       /\ host' = Protected(host, SubSeq(Regions, 1, n))
       /\ vmentry' = SubSeq(Regions, 1, n)
       /\ IF n < Len(Regions) THEN Fail("LOAD_MPROTECT_FAIL") ELSE Continue("done")
  /\ UNCHANGED <<input, scan, nap, written, padding>>

Next ==
  \/ ReadElfHeaders
  \/ SkipEmptySegment
  \/ RefuseSegment
  \/ AcceptSegment
  \/ CheckLayout
  \/ AllocAddrSpace
  \/ ElfImageLoad
  \/ MakeDynamicTextShared
  \/ FillEndOfTextRegion
  \/ ValidateImage
  \/ MemoryProtection

Spec == Init /\ [][Next]_vars

-----------------------------------------------------------------------------
(* Properties.                                                            *)

Loaded == pc = "done"
HasData == nap.data_start # 0 \/ nap.rodata_start # 0
Record(p) == {vmentry[i].prot : i \in {j \in DOMAIN vmentry :
                                       p \in Range(vmentry[j].page, vmentry[j].npages)}}
PagesOf(start, size) == {p \in Pages : \E a \in Range(start, size) : a \div PageSize = p}

\* The entries the loader records lie in the address space and do not overlap
\* (sel_mem.h: "must not overlap"), for every image that passes the checks on
\* headers, layout and stack.
EntriesDisjoint ==
  \A i \in DOMAIN vmentry :
    /\ vmentry[i].npages > 0
    /\ (vmentry[i].page + vmentry[i].npages) * PageSize <= AddrSpace
    /\ \A j \in DOMAIN vmentry : i # j =>
         Range(vmentry[i].page, vmentry[i].npages)
           \intersect Range(vmentry[j].page, vmentry[j].npages) = {}

\* The loader reads segments only into pages it has made writable, whatever the
\* order and the places of the headers.
ReadsIntoImage ==
  pc = "dynamic_text" => \A a \in written : host[a \div PageSize] = ReadWrite

\* In the end the text can be executed and not written, the rodata only read,
\* and the data not executed.
SegmentsProtected ==
  Loaded => \A i \in loadable :
    LET h == phdrs[i] IN
    /\ h.kind = "text" => \A p \in PagesOf(h.vaddr, h.filesz) : host[p] = ReadExec
    /\ h.kind = "rodata" => \A p \in PagesOf(h.vaddr, h.memsz) : host[p] = ReadOnly
    /\ h.kind = "data" => \A p \in PagesOf(h.vaddr, h.memsz) : host[p] = ReadWrite

\* The halts NaClFillEndOfTextRegion writes behind the text never overwrite
\* contents of the file, and reach the sled's length or the dynamic text.
SledOverNothing ==
  pc = "validate" =>
    /\ \A i \in loadable : phdrs[i].kind # "gnu_stack" =>
         padding \intersect Range(phdrs[i].vaddr, phdrs[i].filesz) = {}
    /\ nap.text_shm \/ \E a \in padding : a + 1 - HaltSled \in padding

\* What the memory calls take for granted when the user program starts, for an
\* image with data or rodata and dynamic loading on: nothing is executable above
\* dynamic_text_end, everything below is recorded and not writable, and above it
\* the map records every accessible page with its protection.
ReadyForUser ==
  Loaded /\ HasData /\ use_shm => \A p \in Pages :
    IF p * PageSize < nap.dynamic_text_end
    THEN Record(p) # {} /\ "W" \notin host[p]
    ELSE /\ "X" \notin host[p]
         /\ Record(p) = IF host[p] = NoAccess THEN {} ELSE {host[p]}
=============================================================================
