------------------------------ MODULE DynText -------------------------------
(***************************************************************************)
(* The blob: a second ELF file loaded into the program's address space,    *)
(* NaClElfImageLoadDynamically (elf_util.c).  Its code goes to the dynamic *)
(* text through NaClTextDyncodeCreate (nacl_text.c), which keeps a sorted  *)
(* array of the regions in use, makes allocation pages visible one by one  *)
(* and caches one writable mapping; its data goes where mmap finds room.   *)
(*                                                                         *)
(* An address is a number of bundles; PB of them are an allocation page.   *)
(* A segment is [kind, vaddr, aligned, filesz, memsz], where kind is code, *)
(* data, rodata or other (not PT_LOAD) and aligned tells whether vaddr and *)
(* filesz are whole bundles.                                               *)
(***************************************************************************)
EXTENDS Integers, Sequences

CONSTANTS
  PB,        \* bundles in an allocation page
  NPages,    \* allocation pages in the address space
  DynStart,  \* dynamic_text_start
  DynEnd,    \* dynamic_text_end
  HaltSled,  \* NACL_HALT_SLED_SIZE
  Cutoff,    \* kBinarySearchToScanCutoff
  UsedPages, \* pages with an entry in the memory map before the blob
  Blobs      \* the sequences of segments to load

Segment == [kind : {"code", "data", "rodata", "other"}, vaddr : Nat, aligned : BOOLEAN,
            filesz : Nat, memsz : Nat]

ASSUME DynTextAssumption ==
  /\ PB \in Nat \ {0} /\ HaltSled \in Nat \ {0} /\ Cutoff \in Nat
  /\ NPages \in Nat /\ UsedPages \subseteq 0 .. NPages - 1
  /\ Blobs \subseteq Seq(Segment)
  /\ DynStart \in Nat /\ DynEnd \in Nat /\ DynStart < DynEnd
  /\ DynStart % PB = 0 /\ DynEnd % PB = 0 /\ DynEnd <= NPages * PB

VARIABLES
  phdrs,      \* the blob's segments
  segnum,     \* the segment to load next
  text_shm,   \* dynamic loading is possible
  regions,    \* dynamic_regions
  shm,        \* the contents of the dynamic text, bundle by bundle
  visible,    \* dynamic_page_bitmap, and the pages' protection
  mapcache,   \* dynamic_mapcache_offset and _size
  mapped,     \* pages with an entry in the memory map, and who made it
  pc          \* "loading", "done", "failed" or "aborted"

vars == <<phdrs, segnum, text_shm, regions, shm, visible, mapcache, mapped, pc>>

Bundles == DynStart .. DynEnd - 1
TextPages == DynStart \div PB .. (DynEnd \div PB) - 1
Pages == 0 .. NPages - 1
NoCache == [offset |-> 0, size |-> 0]
Span(start, size) == start .. start + size - 1
PageBundles(p) == Span(p * PB, PB)
RoundAllocPage(n) == ((n + PB - 1) \div PB) * PB
TruncAllocPage(n) == (n \div PB) * PB

Init ==
  /\ phdrs \in Blobs
  /\ segnum = 1
  /\ text_shm \in BOOLEAN
  /\ regions = <<>>
  /\ shm = [b \in Bundles |-> "zero"]
  /\ visible = {}
  /\ mapcache = NoCache
  /\ mapped = [p \in Pages |-> IF p \in UsedPages THEN 0 ELSE -1]
  /\ pc = "loading"

-----------------------------------------------------------------------------
(* The regions.                                                           *)

\* Mutant of Halve: the half with the region in it is lost.
Halve_Past(ptr, low, high) ==
  LET mid == low + (high - low) \div 2
  IN  IF regions[mid + 1].start <= ptr THEN <<mid + 1, high>> ELSE <<low, mid>>

\* One round of the binary search, indices from 0 as in C.
Halve(ptr, low, high) ==
  LET mid == low + (high - low) \div 2
  IN  IF regions[mid + 1].start <= ptr THEN <<mid, high>> ELSE <<low, mid>>

\* The rounds until the range is small; n of them are enough.
Search(ptr, n) ==
  LET round[k \in 0 .. n] ==
        IF k = 0 THEN <<0, n>>
        ELSE LET prev == round[k - 1] IN
             IF prev[1] + Cutoff + 1 < prev[2] THEN Halve(ptr, prev[1], prev[2]) ELSE prev
  IN  round[n]

\* The linear scan from the start of the range.
Scan(ptr, range) ==
  CHOOSE i \in range[1] .. range[2] - 1 :
    /\ \A j \in range[1] + 1 .. i : regions[j + 1].start <= ptr
    /\ i + 1 < range[2] => regions[i + 2].start > ptr

\* NaClDynamicRegionFindClosestLEQ: an index into regions, or 0.
FindClosestLEQ(ptr) ==
  LET n == Len(regions) IN
  IF n = 0 THEN 0
  ELSE IF regions[n].start <= ptr THEN n
  ELSE IF ptr < regions[1].start THEN 0
  ELSE Scan(ptr, Search(ptr, n)) + 1

\* Mutant of RegionInUse: only the region below the first bundle is looked at.
RegionInUse_FirstOnly(start, size) ==
  LET r == FindClosestLEQ(start)
  IN  r # 0 /\ start < regions[r].start + regions[r].size

RegionInUse(start, size) ==
  LET r == FindClosestLEQ(start + size - 1)
  IN  r # 0 /\ start < regions[r].start + regions[r].size

\* NaClDynamicRegionCreate, when the place is free: scroll from the region found
\* to the first that does not start lower, and insert there.
WithRegion(start, size) ==
  LET n == FindClosestLEQ(start + size - 1)
      from == IF n = 0 THEN 1 ELSE n
      at == CHOOSE i \in from .. Len(regions) + 1 :
              /\ \A j \in from .. i - 1 : regions[j].start < start
              /\ i \in DOMAIN regions => regions[i].start >= start
  IN  SubSeq(regions, 1, at - 1) \o <<[start |-> start, size |-> size]>>
        \o SubSeq(regions, at, Len(regions))

-----------------------------------------------------------------------------
(* NaClTextDyncodeCreate.                                                 *)

Finish(end) ==
  /\ pc' = end
  /\ UNCHANGED <<phdrs, segnum, text_shm>>

Advance ==
  /\ segnum' = segnum + 1
  /\ UNCHANGED <<phdrs, text_shm, pc>>

AboveText(h) == h.vaddr + h.filesz > DynEnd - HaltSled

DyncodeRefused(h) ==
  \/ ~text_shm
  \/ ~h.aligned
  \/ h.vaddr + h.filesz > NPages * PB
  \/ h.vaddr < DynStart
  \/ AboveText(h)

\* The range of the shared memory that NaclTextMapWrapper maps.
MapRange(h) ==
  LET offset == TruncAllocPage(h.vaddr - DynStart)
  IN  [offset |-> offset, size |-> RoundAllocPage(h.vaddr - DynStart + h.filesz) - offset]

MapPages(r) ==
  Span((DynStart + r.offset) \div PB, r.size \div PB)

\* Mutant of NewPages: the last page is left out.
NewPages_OffByOne(r) ==
  IF r = mapcache THEN {}
  ELSE {p \in MapPages(r) : p + 1 \in MapPages(r) \/ r.size = PB} \ visible

\* The pages of a range that MakeDynamicCodePageVisible has to fill.
NewPages(r) == IF r = mapcache THEN {} ELSE MapPages(r) \ visible

\* Its sanity check: the first byte of such a page is still 0.
PageUnused(p) == shm[p * PB] = "zero"

Filled(pages) ==
  [b \in Bundles |-> IF \E p \in pages : b \in PageBundles(p) THEN "halt" ELSE shm[b]]

\* NaclTextMapClearCacheIfNeeded.
CacheLeft(r) == IF r.size > PB THEN NoCache ELSE r

CodeSegment ==
  /\ pc = "loading" /\ segnum <= Len(phdrs)
  /\ phdrs[segnum].kind = "code"

\* seek, malloc or read fails, or the place is not fit for code.
RefuseCode ==
  /\ CodeSegment
  /\ Finish("failed")
  /\ UNCHANGED <<regions, shm, visible, mapcache, mapped>>

EmptyCode ==
  LET h == phdrs[segnum] IN
  /\ CodeSegment
  /\ ~DyncodeRefused(h) /\ h.filesz = 0
  /\ Advance
  /\ UNCHANGED <<regions, shm, visible, mapcache, mapped>>

\* The region is created first; validation or the mapping then fails and the
\* region stays.  A mapping that misses the cache has cleared it.
CodeNotLoaded ==
  LET h == phdrs[segnum] IN
  /\ CodeSegment
  /\ ~DyncodeRefused(h) /\ h.filesz # 0
  /\ ~RegionInUse(h.vaddr, h.filesz)
  /\ regions' = WithRegion(h.vaddr, h.filesz)
  /\ \/ UNCHANGED mapcache
     \/ mapcache # MapRange(h) /\ mapcache' = NoCache
  /\ Finish("failed")
  /\ UNCHANGED <<shm, visible, mapped>>

\* LOG_FATAL or CHECK: unmapping or mprotect fails, or a page that was never
\* visible is in use.
CodeAborts ==
  LET h == phdrs[segnum] IN
  /\ CodeSegment
  /\ ~DyncodeRefused(h) /\ h.filesz # 0
  /\ ~RegionInUse(h.vaddr, h.filesz)
  /\ \/ mapcache # NoCache /\ mapcache # MapRange(h)
     \/ NewPages(MapRange(h)) # {}
  /\ regions' = WithRegion(h.vaddr, h.filesz)
  /\ Finish("aborted")
  /\ UNCHANGED <<shm, visible, mapcache, mapped>>

LoadCode ==
  LET h == phdrs[segnum]
      r == MapRange(h)
      text == Filled(NewPages(r))
  IN  /\ CodeSegment
      /\ ~DyncodeRefused(h) /\ h.filesz # 0
      /\ ~RegionInUse(h.vaddr, h.filesz)
      /\ \A p \in NewPages(r) : PageUnused(p)
      /\ regions' = WithRegion(h.vaddr, h.filesz)
      /\ visible' = visible \union NewPages(r)
      /\ shm' = [b \in Bundles |-> IF b \in Span(h.vaddr, h.filesz) THEN "code" ELSE text[b]]
      /\ mapcache' = CacheLeft(r)
      /\ Advance
      /\ UNCHANGED mapped

-----------------------------------------------------------------------------
(* Data segments, and the other ones.                                     *)

DataSegment ==
  /\ pc = "loading" /\ segnum <= Len(phdrs)
  /\ phdrs[segnum].kind \in {"data", "rodata"}

DataPages(h) == Span(h.vaddr \div PB, RoundAllocPage(h.memsz) \div PB)
FreePages(pages) == pages \subseteq Pages /\ \A p \in pages : mapped[p] = -1

Claimed(pages) == [p \in Pages |-> IF p \in pages THEN segnum ELSE mapped[p]]

\* Mutant of AtHint: what is there already is mapped over.
AtHint_Fixed(h) == h.vaddr % PB = 0 /\ h.memsz > 0 /\ DataPages(h) \subseteq Pages

\* mmap takes the place it was asked for.
AtHint(h) == h.vaddr % PB = 0 /\ h.memsz > 0 /\ FreePages(DataPages(h))

SkipSegment ==
  /\ pc = "loading" /\ segnum <= Len(phdrs)
  /\ phdrs[segnum].kind = "other"
  /\ Advance
  /\ UNCHANGED <<regions, shm, visible, mapcache, mapped>>

\* mmap took another place and left it in the map, or found none.
MisplaceData ==
  LET h == phdrs[segnum] IN
  /\ DataSegment
  /\ ~AtHint(h)
  /\ \/ UNCHANGED mapped
     \/ \E first \in Pages :
          LET pages == Span(first, RoundAllocPage(h.memsz) \div PB)
          IN  pages # {} /\ FreePages(pages) /\ mapped' = Claimed(pages)
  /\ Finish("failed")
  /\ UNCHANGED <<regions, shm, visible, mapcache>>

\* seek fails before mmap, the read or mprotect after it.
DataNotLoaded ==
  /\ DataSegment
  /\ \/ UNCHANGED mapped
     \/ AtHint(phdrs[segnum]) /\ mapped' = Claimed(DataPages(phdrs[segnum]))
  /\ Finish("failed")
  /\ UNCHANGED <<regions, shm, visible, mapcache>>

\* The host refuses the mapping: LOG_FATAL.
DataAborts ==
  /\ DataSegment
  /\ phdrs[segnum].memsz > 0
  /\ Finish("aborted")
  /\ UNCHANGED <<regions, shm, visible, mapcache, mapped>>

LoadData ==
  /\ DataSegment
  /\ AtHint(phdrs[segnum])
  /\ mapped' = Claimed(DataPages(phdrs[segnum]))
  /\ Advance
  /\ UNCHANGED <<regions, shm, visible, mapcache>>

\* initial_entry_pt is set.
EntryPoint ==
  /\ pc = "loading" /\ segnum > Len(phdrs)
  /\ Finish("done")
  /\ UNCHANGED <<regions, shm, visible, mapcache, mapped>>

Next ==
  \/ RefuseCode
  \/ EmptyCode
  \/ CodeNotLoaded
  \/ CodeAborts
  \/ LoadCode
  \/ SkipSegment
  \/ MisplaceData
  \/ DataNotLoaded
  \/ DataAborts
  \/ LoadData
  \/ EntryPoint

Spec == Init /\ [][Next]_vars

-----------------------------------------------------------------------------
(* Properties.                                                            *)

\* The array of regions stays sorted and no two regions overlap, whatever order
\* the segments come in and whichever of them fail.
RegionsSorted ==
  \A i, j \in DOMAIN regions :
    i < j => regions[i].start + regions[i].size <= regions[j].start

\* The binary search finds what a plain scan would: the last region that starts
\* at or below the address.
SearchExact ==
  \A ptr \in Bundles :
    LET r == FindClosestLEQ(ptr)
    IN  /\ r # 0 => regions[r].start <= ptr
        /\ \A i \in DOMAIN regions : i > r => regions[i].start > ptr

\* A page the program can execute holds only halts and code of the regions, and
\* the last halts of the dynamic text stay; any other page was never written, so the
\* check in MakeDynamicCodePageVisible can not fail.
VisibleIsCode ==
  \A p \in TextPages : \A b \in PageBundles(p) :
    IF p \in visible
    THEN /\ shm[b] \in {"halt", "code"}
         /\ shm[b] = "code" =>
              /\ \E i \in DOMAIN regions : b \in Span(regions[i].start, regions[i].size)
              /\ b < DynEnd - HaltSled
    ELSE shm[b] = "zero"

\* A blob is loaded as a whole: no later segment disturbs an earlier one, and
\* none takes pages of the program.
LoadedWhole ==
  pc = "done" =>
    /\ \A p \in UsedPages : mapped[p] = 0
    /\ \A i \in DOMAIN phdrs :
         /\ phdrs[i].kind = "code" =>
              \A b \in Span(phdrs[i].vaddr, phdrs[i].filesz) : shm[b] = "code"
         /\ phdrs[i].kind \in {"data", "rodata"} =>
              \A p \in DataPages(phdrs[i]) : mapped[p] = i
=============================================================================
