------------------------------- MODULE VmMap --------------------------------
(***************************************************************************)
(* The memory map of the user program (sel_mem.c) and the system calls     *)
(* that change it: sysbrk, mmap and munmap (nacl_syscall_handlers.c), the  *)
(* preallocation of the user's memory (PreallocateUserMemory) and the      *)
(* effect of the trap's setup call on max_mem, which decides whether those *)
(* calls reach the host at all.                                            *)
(*                                                                         *)
(* Pages are numbered from 0.  A page holds PageSize units of address,     *)
(* and PagesPerMap pages are one allocation page (64K).  "host" is the     *)
(* protection the kernel gives each page.  The session has no mapped       *)
(* channel, so no descriptor backs an entry and mmap finds none (Mount has *)
(* those).                                                                 *)
(***************************************************************************)
EXTENDS SelMem

CONSTANTS
  PageSize,      \* units of address in a page
  AddrPages,     \* pages in the address space, 1 << addr_bits
  Layout,        \* the entries NaClMemoryProtection records, in its order
  DynTextEnd,    \* dynamic_text_end, a page number
  DataEnd,       \* data_end, an address
  StackSize,     \* stack_size, in units of address
  MemMax,        \* the values the manifest may give max_mem
  MemHints,      \* the values setup may ask max_mem to become
  MaxSetupCalls, \* max_setup_calls, which setup leaves alone here
  MmapCalls,     \* arguments of mmap
  MunmapCalls,   \* arguments of munmap
  Breaks,        \* arguments of sysbrk
  MaxCalls       \* bound on the calls of a session

VARIABLES
  vmentry,         \* mem_map.vmentry[0 .. nvalid - 1]
  is_sorted,       \* mem_map.is_sorted
  recorded,        \* what the map says of each page: a view of vmentry
  host,            \* what the kernel allows on each page
  lost,            \* pages whose last mmap the kernel refused, unnoticed (history)
  unmapped,        \* pages that munmap has taken out of the map (history)
  break_addr,      \* nap->break_addr
  manifest_mem,    \* what the manifest said of MemMax (history)
  max_mem,         \* user_setup->max_mem
  cnt_setup_calls, \* user_setup->cnt_setup_calls
  phase,           \* "loaded", "user" or "aborted"
  op,              \* the call that was made last
  sysret,          \* its result
  calls            \* calls made so far

mapVars == <<vmentry, is_sorted>>
setupVars == <<manifest_mem, max_mem, cnt_setup_calls>>
vars == <<vmentry, is_sorted, recorded, host, lost, unmapped, break_addr, manifest_mem,
          max_mem, cnt_setup_calls, phase, op, sysret, calls>>

Pages == 0 .. AddrPages - 1
Prots == SUBSET {"R", "W", "X"}
NoAccess == {}
ReadWrite == {"R", "W"}
Free == {"free"}
AddrSpace == AddrPages * PageSize

MapSize == PagesPerMap * PageSize

\* What a map says of each page: the protection of its entry, or "missing".
PageProt(entries, missing) ==
  [p \in Pages |->
     IF \E i \in DOMAIN entries : Covers(entries[i], p)
     THEN entries[CHOOSE i \in DOMAIN entries : Covers(entries[i], p)].prot
     ELSE missing]

-----------------------------------------------------------------------------
(* Loading: NaClMemoryProtection has recorded the layout and protected the *)
(* pages; everything else is PROT_NONE.                                    *)

Init ==
  /\ vmentry = Layout
  /\ is_sorted = FALSE
  /\ recorded = PageProt(Layout, Free)
  /\ host = PageProt(Layout, NoAccess)
  /\ lost = {}
  /\ unmapped = {}
  /\ break_addr = DataEnd
  /\ manifest_mem \in MemMax
  /\ max_mem = manifest_mem
  /\ cnt_setup_calls = 0
  /\ phase = "loaded"
  /\ op = "load"
  /\ sysret = 0
  /\ calls = 0

\* The result of NaClCommonSysMmapIntern for an anonymous private mapping
\* without MAP_FIXED: the page, or 0 for every error.
HintedPage(entries, page, npages) ==
  LET s == MakeSorted(entries)
      above == FindMapSpaceAboveHint(s, page, npages)
  IN  IF npages = 0 THEN 0
      ELSE IF above # 0 THEN above
      ELSE FindMapSpace(s, npages)

Protect(h, page, npages, prot) ==
  [p \in Pages |-> IF p \in PageRange(page, npages) THEN prot ELSE h[p]]

\* NaClDescIoDescMap asks for one allocation page after the other.  It compares
\* each answer with NACL_MAP_FAILED, -1, but NaClHostDescMap answers a refusal with
\* -errno: only EPERM is noticed.  What pages an unnoticed refusal may leave out.
Refusable(page, npages) ==
  LET pieces == {PageRange(p, PagesPerMap) :
                   p \in {q \in PageRange(page, npages) : (q - page) % PagesPerMap = 0}}
  IN  {UNION bad : bad \in SUBSET pieces}

\* The kernel's pages after such a mapping, with the ones it refused.
MapPages(h, page, npages, prot, bad) ==
  [p \in Pages |-> IF p \in PageRange(page, npages) \ bad THEN prot ELSE h[p]]

\* Mutant of Stump: the stack is not counted.
Stump_StackForgotten == (max_mem - DataEnd) % AddrSpace

\* The heap is what the limit leaves when stack and image are taken off, as an
\* unsigned number.
Stump == (max_mem - StackSize - DataEnd) % AddrSpace

\* PreallocateUserMemory maps one chunk above the data, and the rest of the hole
\* without access; then it forgets the chunk's entry, but the pages stay.  Its
\* assertions abort the session when a chunk does not lie where it must, and a
\* refusal of the host that is noticed does so too.  (A refusal for the rest of
\* the hole changes nothing: its pages have no access yet.)
PreallocateUserMemory ==
  LET at == RoundUp(DataEnd, MapSize) \div PageSize
      npages == RoundUp(Stump, MapSize) \div PageSize
      heap == UpdateMap(vmentry, at, npages, ReadWrite, NULL, FALSE)
      sorted == MakeSorted(heap)
      end == at + npages
      dead == RoundAllocPages(FindMaxFreeSpace(sorted))
      both == UpdateMap(sorted, end, dead, NoAccess, NULL, FALSE)
      chunk == {i \in DOMAIN both : both[i].page = at}
      fits == /\ HintedPage(vmentry, at, npages) = at
              /\ HintedPage(sorted, end, dead) = end
  IN  /\ phase = "loaded"
      /\ \/ /\ max_mem = 0
            /\ phase' = "user"
            /\ UNCHANGED <<vmentry, is_sorted, host, lost>>
         \/ /\ max_mem # 0 /\ fits
            /\ vmentry' = MakeSorted(RemoveMarked(both, chunk))
            /\ is_sorted' = TRUE
            /\ \E bad \in Refusable(at, npages) :
                 /\ host' = MapPages(MapPages(host, at, npages, ReadWrite, bad),
                                     end, dead, NoAccess, {})
                 /\ lost' = bad
            /\ phase' = "user"
         \/ /\ max_mem # 0
            /\ phase' = "aborted"
            /\ UNCHANGED <<vmentry, is_sorted, host, lost>>
      /\ UNCHANGED <<unmapped, break_addr, manifest_mem, max_mem, cnt_setup_calls, op, sysret, calls>>

-----------------------------------------------------------------------------
(* System calls.                                                          *)

Enter(name) ==
  /\ phase = "user"
  /\ calls < MaxCalls
  /\ calls' = calls + 1
  /\ op' = name

Sort ==
  /\ vmentry' = MakeSorted(vmentry)
  /\ is_sorted' = TRUE

Return(value) ==
  /\ sysret' = value
  /\ phase' = phase

\* LOG_FATAL.
Abort ==
  /\ phase' = "aborted"
  /\ sysret' = "none"

\* The "whole chunk" memory manager: the host is not asked.
WholeChunk == max_mem # 0

\* Mutant of HostProtect: the host is not asked.
HostProtect_Skipped(page, npages, prot) ==
  /\ host' = host
  /\ lost' = lost \ PageRange(page, npages)

\* The host call sets the pages' protection, or is skipped.
HostProtect(page, npages, prot) ==
  /\ host' = IF WholeChunk THEN host ELSE Protect(host, page, npages, prot)
  /\ lost' = lost \ PageRange(page, npages)

\* Mutant of HostMap: the host is asked whatever the limit.
HostMap_Always(page, npages, prot) ==
  /\ host' = MapPages(host, page, npages, prot, {})
  /\ lost' = lost \ PageRange(page, npages)

\* The host calls of mmap, or none.
HostMap(page, npages, prot) ==
  \E bad \in IF WholeChunk THEN {{}} ELSE Refusable(page, npages) :
    /\ host' = IF WholeChunk THEN host ELSE MapPages(host, page, npages, prot, bad)
    /\ lost' = (lost \ PageRange(page, npages)) \union bad

\* The host call fails, and the caller notices: only where it is made.
HostFails == ~WholeChunk /\ UNCHANGED <<host, lost>>

ContainsExecutable(page) == RoundDown(page, PagesPerMap) < DynTextEnd

\* The entry that holds a page, in a sorted map; 0 when there is none.
FindPage(s, p) ==
  IF \E i \in DOMAIN s : Covers(s[i], p) THEN CHOOSE i \in DOMAIN s : Covers(s[i], p) ELSE 0

\* Mutant of LastPage: the break is rounded down.
LastPage_Down(new_break) == RoundDown(new_break, MapSize) \div PageSize - 1

\* The last page of the entry that is to hold the break.
LastPage(new_break) == RoundUp(new_break, MapSize) \div PageSize - 1

\* The break grows past its entry: the entry is extended to whole allocation pages.
ExtendBreak(s, i, new_break) ==
  LET last == LastPage(new_break)
      blocked == i < Len(s) /\ s[i + 1].page <= last
      extended == [s EXCEPT ![i].npages = last - s[i].page + 1]
      fresh == last + 1 - EntryEnd(s[i])
  IN  \/ /\ blocked
         /\ vmentry' = s
         /\ Return(break_addr)
         /\ UNCHANGED <<host, lost, break_addr>>
      \/ /\ ~blocked
         /\ vmentry' = extended
         /\ HostProtect(EntryEnd(s[i]), fresh, ReadWrite)
         /\ break_addr' = new_break
         /\ Return(new_break)
      \/ /\ ~blocked /\ HostFails
         /\ vmentry' = extended
         /\ Abort
         /\ UNCHANGED break_addr

GrowBreak(new_break) ==
  LET s == MakeSorted(vmentry)
      i == FindPage(s, (break_addr - 1) \div PageSize)
  IN  /\ is_sorted' = TRUE
      /\ \/ /\ i = 0
            /\ vmentry' = s
            /\ Abort
            /\ UNCHANGED <<host, lost, break_addr>>
         \/ /\ i # 0 /\ (new_break - 1) \div PageSize < EntryEnd(s[i])
            /\ vmentry' = s
            /\ break_addr' = new_break
            /\ Return(new_break)
            /\ UNCHANGED <<host, lost>>
         \/ /\ i # 0 /\ (new_break - 1) \div PageSize >= EntryEnd(s[i])
            /\ ExtendBreak(s, i, new_break)

Sysbrk(new_break) ==
  /\ Enter("sysbrk")
  /\ \/ /\ new_break = 0 \/ new_break >= AddrSpace \/ new_break < DataEnd
        /\ Return(break_addr)
        /\ UNCHANGED <<vmentry, is_sorted, host, lost, break_addr>>
     \/ /\ new_break \in DataEnd .. break_addr
        /\ break_addr' = new_break
        /\ Return(new_break)
        /\ UNCHANGED <<vmentry, is_sorted, host, lost>>
     \/ /\ new_break > break_addr /\ new_break < AddrSpace
        /\ GrowBreak(new_break)
  /\ UNCHANGED <<unmapped, setupVars>>

\* The checks NaClSysMmap makes before it looks for room, in order.
MmapBadArgs(c) ==
  IF c.offset = "null" THEN "EINVAL"
  ELSE IF c.offset = "outside" THEN "EFAULT"
  ELSE IF ~c.anonymous THEN "EBADF"
  ELSE IF c.page % PagesPerMap # 0 \/ c.offset \in {"negative", "unaligned"} \/ c.npages = 0
    THEN "EINVAL"
  ELSE "none"

\* Mutant of MmapPage: a hint is taken as it is.
MmapPage_HintTaken(c, n) ==
  LET s == MakeSorted(vmentry)
  IN  IF c.fixed \/ c.page # 0 THEN c.page ELSE FindMapSpace(s, n)

\* Where the mapping goes; 0 when there is no room.
MmapPage(c, n) ==
  IF c.fixed THEN c.page
  ELSE IF c.page = 0 THEN FindMapSpace(MakeSorted(vmentry), n)
  ELSE HintedPage(vmentry, c.page, n)

\* Mutant of MmapRefusal: the text is not protected.
MmapRefusal_TextAllowed(c, page, n) ==
  IF ~c.fixed /\ page = 0 THEN "ENOMEM"
  ELSE IF page >= AddrPages \/ page + n > AddrPages \/ c.shared = c.private THEN "EINVAL"
  ELSE "none"

\* The checks on the region that was chosen.
MmapRefusal(c, page, n) ==
  IF ~c.fixed /\ page = 0 THEN "ENOMEM"
  ELSE IF \/ page >= AddrPages \/ page + n > AddrPages
          \/ ContainsExecutable(page) \/ c.shared = c.private THEN "EINVAL"
  ELSE "none"

\* NaClVmmapFindMapSpace and ...AboveHint leave the map sorted when mmap fails.
SortedBySearch(c) == IF c.fixed THEN UNCHANGED mapVars ELSE Sort

\* Mutant of UserProt: the protection is what the caller says.
UserProt_Kept(prot) == prot

\* Users never get executable pages.
UserProt(prot) == prot \ {"X"}

Mmap(c) ==
  LET n == RoundAllocPages(c.npages)
      page == MmapPage(c, n)
      refusal == MmapRefusal(c, page, n)
      prot == UserProt(c.prot)
  IN  /\ Enter(IF c.fixed THEN "mmap_fixed" ELSE "mmap")
      /\ \/ /\ MmapBadArgs(c) # "none"
            /\ Return(MmapBadArgs(c))
            /\ UNCHANGED <<vmentry, is_sorted, host, lost>>
         \/ /\ MmapBadArgs(c) = "none" /\ refusal # "none"
            /\ Return(refusal)
            /\ SortedBySearch(c)
            /\ UNCHANGED <<host, lost>>
         \/ /\ MmapBadArgs(c) = "none" /\ refusal = "none"
            /\ HostMap(page, n, prot)
            /\ vmentry' = UpdateMap(vmentry, page, n, prot, NULL, FALSE)
            /\ is_sorted' = FALSE
            /\ Return(page)
         \/ /\ MmapBadArgs(c) = "none" /\ refusal = "none"
            /\ HostFails
            /\ SortedBySearch(c)
            /\ Abort
      /\ UNCHANGED <<unmapped, break_addr, manifest_mem, max_mem, cnt_setup_calls>>

MunmapRefusal(c, n) ==
  IF c.page % PagesPerMap # 0 \/ c.npages = 0 THEN "EINVAL"
  ELSE IF c.page = 0 \/ c.page + n >= AddrPages THEN "EFAULT"
  ELSE IF ContainsExecutable(c.page) THEN "EINVAL"
  ELSE "none"

Munmap(c) ==
  LET n == RoundAllocPages(c.npages)
      refusal == MunmapRefusal(c, n)
  IN  /\ Enter("munmap")
      /\ \/ /\ refusal # "none"
            /\ Return(refusal)
            /\ UNCHANGED <<vmentry, is_sorted, host, lost, unmapped>>
         \/ /\ refusal = "none"
            /\ HostProtect(c.page, n, NoAccess)
            /\ unmapped' = unmapped \union PageRange(c.page, n)
            /\ vmentry' = UpdateMap(vmentry, c.page, n, NoAccess, NULL, TRUE)
            /\ is_sorted' = FALSE
            /\ Return(0)
         \/ /\ refusal = "none" /\ HostFails
            /\ Return("errno")
            /\ UNCHANGED <<vmentry, is_sorted, unmapped>>
      /\ UNCHANGED <<break_addr, manifest_mem, max_mem, cnt_setup_calls>>

\* The part of TrapUserSetupHandle that is about max_mem: the first call only
\* shows it, later ones lower it.
Setup(hint) ==
  LET n == cnt_setup_calls + 1
  IN  /\ Enter("setup")
      /\ cnt_setup_calls' = n
      /\ \/ /\ n > MaxSetupCalls
            /\ Return("OUT_OF_LIMITS")
            /\ UNCHANGED max_mem
         \/ /\ n = 1 /\ n <= MaxSetupCalls
            /\ Return("OK_CODE")
            /\ UNCHANGED max_mem
         \/ /\ n > 1 /\ n <= MaxSetupCalls
            /\ max_mem' = IF hint <= max_mem THEN hint ELSE max_mem
            /\ Return(IF hint <= max_mem THEN "OK_CODE" ELSE "ERR_CODE")
      /\ UNCHANGED <<vmentry, is_sorted, host, lost, unmapped, break_addr, manifest_mem>>

Next ==
  /\ \/ PreallocateUserMemory
     \/ \E b \in Breaks : Sysbrk(b)
     \/ \E c \in MmapCalls : Mmap(c)
     \/ \E c \in MunmapCalls : Munmap(c)
     \/ \E h \in MemHints : Setup(h)
  /\ recorded' = PageProt(vmentry', Free)

Spec == Init /\ [][Next]_vars

-----------------------------------------------------------------------------
(* Properties.                                                            *)

Accessible == {p \in Pages : host[p] # NoAccess}

\* The entries of the memory map never overlap and never leave the address
\* space, whatever NaClVmmapUpdate split, trimmed or removed, and is_sorted
\* is set only when they are in the order of their pages.
MapWellFormed ==
  /\ \A i \in DOMAIN vmentry : EntryEnd(vmentry[i]) <= AddrPages
  /\ \A i, j \in DOMAIN vmentry : i # j =>
       \/ EntryEnd(vmentry[i]) <= vmentry[j].page
       \/ EntryEnd(vmentry[j]) <= vmentry[i].page
  /\ is_sorted => \A i, j \in DOMAIN vmentry : i < j => vmentry[i].page < vmentry[j].page

\* Only mmap with MAP_FIXED and munmap change what the map records of a page
\* that is in use: sysbrk and an mmap that may choose its place take free pages.
FreePagesTaken ==
  [][phase = "user" /\ op' \notin {"mmap_fixed", "munmap"} =>
       \A p \in Pages : recorded[p] # Free => recorded'[p] = recorded[p]]_vars

\* Under MemMax the memory the host lets the program touch, with the guard at
\* address 0, stays within the manifest's limit, up to one allocation page of
\* rounding, for the whole session.
MemLimitKept ==
  manifest_mem # 0 /\ phase = "user" =>
    Cardinality(Accessible \union PageRange(0, DynTextEnd)) * PageSize
      < manifest_mem + MapSize

\* sysbrk stops the session when the page below the break is in no entry: it
\* gets there only when the program itself has unmapped that page, never by
\* preallocation, by another call's splitting, or by growing the break.
BreakKept ==
  LET page == (break_addr - 1) \div PageSize
  IN  phase = "user" => recorded[page] # Free \/ page \in unmapped

\* The page map this array of entries stands for.
PM == INSTANCE PageMap WITH
  NPages <- AddrPages, TextEnd <- DynTextEnd, Free <- Free,
  LoadedRecord <- PageProt(Layout, Free), LoadedHost <- PageProt(Layout, NoAccess),
  Limits <- MemMax \union MemHints,
  limit <- max_mem, limited <- (manifest_mem # 0)

\* sel_mem.c and the system calls on it implement PageMap: whatever the order,
\* splitting and trimming of the entries, the calls do to each page what
\* PageMap says, so its properties hold of the real map.
ImplementsPageMap == PM!Spec

\* No memory call changes the record or the protection of the guard, the
\* trampolines and the text, however NaClVmmapUpdate cuts the entries.
TextKept == PM!TextKept

\* Nothing but the text is ever executable, in the map or for the host:
\* mmap drops PROT_EXEC and sysbrk extends no executable entry.
OnlyTextExecutable == PM!OnlyTextExecutable

\* In a session without a memory limit a page in no entry cannot be touched,
\* and the host allows at least what the entry of a page says, except where
\* mmap did not notice that it was refused.
HostCoversMap == PM!HostCoversMap

\* A session that has no limit never gets one from setup, and as long as there
\* is one no memory call changes what the host allows.
LimitFreezesHost == PM!LimitFreezesHost

\* What NaClCommonSysMmapIntern takes for granted when it records a mapping: a
\* map that failed has stopped the program, so without a memory limit the kernel
\* allows what the map records.
MappingsBacked ==
  manifest_mem = 0 /\ phase = "user" =>
    \A p \in Pages : recorded[p] # Free => recorded[p] \subseteq host[p]
=============================================================================
