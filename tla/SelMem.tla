------------------------------- MODULE SelMem -------------------------------
(***************************************************************************)
(* The memory map of sel_mem.c as functions of a sequence of entries, with *)
(* the memory objects (nacl_memory_object.c) of entries that a descriptor  *)
(* backs.  A pointer is a set: empty for NULL, else it holds the object    *)
(* pointed to.  Pages are numbered from 0.                                 *)
(***************************************************************************)
EXTENDS Integers, Sequences, FiniteSets, TLC, SequencesExt

CONSTANTS PagesPerMap   \* pages in an allocation page

NULL == {}

\* An entry, and one that the paging file backs.
VmEntryOf(page, npages, prot, nmop) ==
  [page |-> page, npages |-> npages, prot |-> prot, nmop |-> nmop]
VmEntry(page, npages, prot) == VmEntryOf(page, npages, prot, NULL)
EntryEnd(e) == e.page + e.npages
Covers(e, p) == e.page <= p /\ p < EntryEnd(e)
PageRange(page, n) == page .. page + n - 1

RoundUp(n, unit) == ((n + unit - 1) \div unit) * unit
RoundDown(n, unit) == (n \div unit) * unit
RoundAllocPages(n) == RoundUp(n, PagesPerMap)

\* Mutant of IncOffset: the offset stays.
IncOffset_Not(nmop, additional) == nmop

\* NaClMemObjIncOffset and the copy of NaClMemObjSplit: nothing for NULL.
IncOffset(nmop, additional) == {[o EXCEPT !.offset = @ + additional] : o \in nmop}

MakeSorted(entries) == SortSeq(entries, LAMBDA a, b : a.page < b.page)

\* NaClVmmapRemoveMarked fills the slot of each removed entry, lowest slot
\* first, with the last entry that stays.
RemoveMarked(entries, marked) ==
  LET kept == Len(entries) - Cardinality(marked)
      holes == SetToSortSeq({i \in marked : i <= kept}, <)
      fill == SetToSortSeq({i \in DOMAIN entries \ marked : i > kept}, >)
  IN  [i \in 1 .. kept |->
         IF i \in marked
         THEN entries[fill[CHOOSE k \in DOMAIN holes : holes[k] = i]]
         ELSE entries[i]]

\* NaClVmmapUpdate visits the sorted entries up to the first one that reaches
\* beyond the new region; the others lie wholly above it.
Visited(s, page, end) ==
  LET beyond == {i \in DOMAIN s : s[i].page < end /\ end < EntryEnd(s[i])}
  IN  IF beyond = {} THEN DOMAIN s
      ELSE 1 .. CHOOSE i \in beyond : \A j \in beyond : i <= j

\* The part of an entry above a page.
TopOf(e, end) == VmEntryOf(end, EntryEnd(e) - end, e.prot, IncOffset(e.nmop, end - e.page))

\* Mutant of Trimmed: an entry that starts with the region is cut to nothing.
Trimmed_Inclusive(e, page, end) ==
  IF e.page <= page /\ page < EntryEnd(e) THEN [e EXCEPT !.npages = page - e.page]
  ELSE IF e.page < end /\ end < EntryEnd(e) THEN TopOf(e, end)
  ELSE e

\* What is left of an entry that the region [page, end) overlaps.
Trimmed(e, page, end) ==
  IF e.page < page /\ page < EntryEnd(e) THEN [e EXCEPT !.npages = page - e.page]
  ELSE IF e.page < end /\ end < EntryEnd(e) THEN TopOf(e, end)
  ELSE e

\* An entry with the region strictly inside it leaves a second entry behind.
Split(s, visited, page, end) ==
  {i \in visited : s[i].page < page /\ end < EntryEnd(s[i])}
SplitTail(s, visited, page, end) ==
  SetToSeq({TopOf(s[i], end) : i \in Split(s, visited, page, end)})

\* Mutant of Covered: an entry that ends where the region does is not covered.
Covered_Strict(s, visited, page, end) ==
  {i \in visited : page <= s[i].page /\ EntryEnd(s[i]) < end}

Covered(s, visited, page, end) ==
  {i \in visited : page <= s[i].page /\ EntryEnd(s[i]) <= end}

\* NaClVmmapUpdate: the region replaces whatever the map says of its pages.
UpdateMap(entries, page, npages, prot, nmop, remove) ==
  LET s == MakeSorted(entries)
      end == page + npages
      visited == Visited(s, page, end)
      trimmed == [i \in DOMAIN s |-> IF i \in visited THEN Trimmed(s[i], page, end) ELSE s[i]]
      added == IF remove THEN <<>> ELSE <<VmEntryOf(page, npages, prot, nmop)>>
  IN  RemoveMarked(trimmed \o SplitTail(s, visited, page, end) \o added,
                   Covered(s, visited, page, end))

\* The gap below entry i, in whole allocation pages.
GapStart(s, i) == RoundAllocPages(EntryEnd(s[i - 1]))
GapEnd(s, i) == RoundDown(s[i].page, PagesPerMap)

\* Mutant of FindMapSpace: the highest gap, whatever its size.
FindMapSpace_AnyGap(s, npages) ==
  LET fits == {i \in 2 .. Len(s) : GapEnd(s, i) > GapStart(s, i)}
  IN  IF fits = {} THEN 0
      ELSE GapEnd(s, CHOOSE i \in fits : \A j \in fits : j <= i) - RoundAllocPages(npages)

\* NaClVmmapFindMapSpace: the highest gap that is large enough; 0 when there is none.
FindMapSpace(s, npages) ==
  LET n == RoundAllocPages(npages)
      fits == {i \in 2 .. Len(s) : /\ GapEnd(s, i) > GapStart(s, i)
                                   /\ GapEnd(s, i) - GapStart(s, i) >= n}
  IN  IF fits = {} THEN 0
      ELSE GapEnd(s, CHOOSE i \in fits : \A j \in fits : j <= i) - n

\* NaClVmmapFindMapSpaceAboveHint: the lowest room at or above the hint.
FindMapSpaceAboveHint(s, usr_page, npages) ==
  LET n == RoundAllocPages(npages)
      from(i) == IF GapStart(s, i) <= usr_page /\ usr_page < GapEnd(s, i)
                 THEN usr_page ELSE GapStart(s, i)
      fits == {i \in 2 .. Len(s) : /\ GapEnd(s, i) > GapStart(s, i)
                                   /\ usr_page <= from(i)
                                   /\ GapEnd(s, i) - from(i) >= n}
  IN  IF fits = {} THEN 0 ELSE from(CHOOSE i \in fits : \A j \in fits : i <= j)

\* NaClVmmapFindMaxFreeSpace(self, 1): the size of the highest gap.
FindMaxFreeSpace(s) ==
  LET gaps == {i \in 2 .. Len(s) : s[i].page - EntryEnd(s[i - 1]) >= 1}
  IN  IF gaps = {} THEN 0
      ELSE LET i == CHOOSE i \in gaps : \A j \in gaps : j <= i
           IN  s[i].page - EntryEnd(s[i - 1])
=============================================================================
