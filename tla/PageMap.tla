------------------------------ MODULE PageMap -------------------------------
(***************************************************************************)
(* What the memory system calls promise, page by page: "recorded" is what  *)
(* the runtime's memory map says of a page, "host" what the kernel allows. *)
(* VmMap, with its array of entries, implements this specification.        *)
(***************************************************************************)
EXTENDS Integers

CONSTANTS
  NPages,        \* pages in the address space
  TextEnd,       \* dynamic_text_end: guard, trampolines and text lie below
  Free,          \* the record of a page that is in no entry
  LoadedRecord,  \* the record after NaClMemoryProtection
  LoadedHost,    \* the protection after NaClMemoryProtection
  Limits         \* values of max_mem

Pages == 0 .. NPages - 1
TextPages == {p \in Pages : p < TextEnd}
Access == {"R", "W", "X"}
Prots == SUBSET Access
NoAccess == {}
ReadWrite == {"R", "W"}

\* What is known of the constants: the text is recorded and nothing else is
\* executable, and outside it the kernel allows what is recorded.
PageMapAssumption ==
  /\ NPages \in Nat
  /\ TextEnd \in Nat
  /\ Free \notin Prots
  /\ "X" \notin Free
  /\ LoadedRecord \in [Pages -> Prots \union {Free}]
  /\ LoadedHost \in [Pages -> Prots]
  /\ \A p \in Pages \ TextPages :
       IF LoadedRecord[p] = Free THEN LoadedHost[p] = NoAccess
                                 ELSE LoadedRecord[p] \subseteq LoadedHost[p]
  /\ \A p \in Pages : "X" \in LoadedRecord[p] \union LoadedHost[p] => p < TextEnd
  /\ \A p \in Pages : p < TextEnd => LoadedRecord[p] # Free
  /\ Limits \subseteq Nat

VARIABLES
  recorded,  \* the record of each page, or Free
  host,      \* the protection of each page
  lost,      \* pages whose last mmap the host refused, unnoticed (history)
  limit,     \* max_mem; the host is asked only when it is 0
  limited,   \* max_mem was not 0 when the program was loaded (history)
  phase      \* "loaded", "user" or "aborted"

vars == <<recorded, host, lost, limit, limited, phase>>

Init ==
  /\ recorded = LoadedRecord
  /\ host = LoadedHost
  /\ lost = {}
  /\ limit \in Limits
  /\ limited = (limit # 0)
  /\ phase = "loaded"

\* f with the pages from lo to hi set to v.
Fill(f, lo, hi, v) == [p \in Pages |-> IF lo <= p /\ p <= hi THEN v ELSE f[p]]

FreeRange(lo, hi) == \A p \in Pages : lo <= p /\ p <= hi => recorded[p] = Free

\* NaClDescIoDescMap maps a region piece by piece and notices only a refusal with
\* EPERM, which stops the program: any other leaves the pages of that piece as
\* they were.  Without a request nothing is refused.
Lose(lo, hi, asked) ==
  LET region == {p \in Pages : lo <= p /\ p <= hi}
  IN  /\ lost' \in SUBSET (lost \union region)
      /\ lost' \ region = lost \ region
      /\ asked \/ lost' \intersect region = {}

\* The protections after mapping the pages from lo to hi.
Mapped(f, lo, hi, prot) ==
  [p \in Pages |-> IF lo <= p /\ p <= hi /\ p \notin lost' THEN prot ELSE f[p]]

\* Preallocation: a chunk of free pages becomes accessible and stays free, the
\* pages above it are recorded without access.
Start ==
  /\ phase = "loaded"
  /\ \/ /\ limit = 0
        /\ phase' = "user"
        /\ UNCHANGED <<recorded, host, lost>>
     \/ /\ limit # 0
        /\ phase' = "user"
        /\ \E lo, mid, hi \in Pages :
             /\ TextEnd <= lo /\ lo <= mid /\ mid < hi
             /\ FreeRange(lo, hi)
             /\ recorded' = Fill(recorded, mid + 1, hi, NoAccess)
             /\ Lose(lo, hi, TRUE)
             /\ host' = Mapped(Mapped(host, lo, mid, ReadWrite), mid + 1, hi, NoAccess)
     \/ /\ phase' = "aborted"
        /\ UNCHANGED <<recorded, host, lost>>
  /\ UNCHANGED <<limit, limited>>

\* The host calls of mmap; and those of munmap and sysbrk, which notice a refusal.
HostMap(lo, hi, prot) ==
  /\ Lose(lo, hi, limit = 0)
  /\ host' = IF limit = 0 THEN Mapped(host, lo, hi, prot) ELSE host

HostFill(lo, hi, prot) ==
  /\ Lose(lo, hi, FALSE)
  /\ host' = IF limit = 0 THEN Fill(host, lo, hi, prot) ELSE host

\* mmap: a region outside the text gets a new record, never an executable one.
Map(lo, hi, prot) ==
  /\ phase = "user"
  /\ lo <= hi /\ TextEnd <= lo
  /\ recorded' = Fill(recorded, lo, hi, prot \ {"X"})
  /\ HostMap(lo, hi, prot \ {"X"})
  /\ UNCHANGED <<limit, limited, phase>>

\* munmap.
Unmap(lo, hi) ==
  /\ phase = "user"
  /\ lo <= hi /\ TextEnd <= lo
  /\ recorded' = Fill(recorded, lo, hi, Free)
  /\ HostFill(lo, hi, NoAccess)
  /\ UNCHANGED <<limit, limited, phase>>

\* sysbrk: free pages right above page lo - 1 get its record, and are made
\* readable and writable.
Grow(lo, hi) ==
  /\ phase = "user"
  /\ lo <= hi /\ TextEnd < lo
  /\ FreeRange(lo, hi)
  /\ recorded[lo - 1] # Free
  /\ recorded' = Fill(recorded, lo, hi, recorded[lo - 1])
  /\ HostFill(lo, hi, ReadWrite)
  /\ UNCHANGED <<limit, limited, phase>>

\* setup: max_mem only goes down.
Lower(l) ==
  /\ phase = "user"
  /\ l <= limit
  /\ limit' = l
  /\ UNCHANGED <<recorded, host, lost, limited, phase>>

\* LOG_FATAL: the host refused, or the break is not in the map.  sysbrk has
\* extended the record by then.
Abort ==
  /\ phase = "user"
  /\ phase' = "aborted"
  /\ \/ UNCHANGED recorded
     \/ \E lo, hi \in Pages :
          /\ lo <= hi /\ TextEnd < lo
          /\ FreeRange(lo, hi)
          /\ recorded[lo - 1] # Free
          /\ recorded' = Fill(recorded, lo, hi, recorded[lo - 1])
  /\ UNCHANGED <<host, lost, limit, limited>>

\* A call that is refused changes nothing.
Refused ==
  /\ phase = "user"
  /\ UNCHANGED vars

Next ==
  \/ Start
  \/ Refused
  \/ Abort
  \/ \E l \in Limits : Lower(l)
  \/ \E lo, hi \in Pages : Unmap(lo, hi)
  \/ \E lo, hi \in Pages : Grow(lo, hi)
  \/ \E lo, hi \in Pages, prot \in Prots : Map(lo, hi, prot)

Spec == Init /\ [][Next]_vars

-----------------------------------------------------------------------------
(* Properties.                                                            *)

\* Records and protections are sets of access rights, or Free.
TypeOK ==
  /\ recorded \in [Pages -> Prots \union {Free}]
  /\ host \in [Pages -> Prots]
  /\ lost \subseteq Pages
  /\ limit \in Nat
  /\ limited \in BOOLEAN
  /\ phase \in {"loaded", "user", "aborted"}

\* mmap, munmap and sysbrk never change the record or the protection of the
\* guard, the trampolines and the text.
TextKept ==
  \A p \in TextPages : recorded[p] = LoadedRecord[p] /\ host[p] = LoadedHost[p]

\* Nothing but the text is ever executable, in the map or for the host:
\* mmap drops PROT_EXEC and sysbrk extends no executable entry.
OnlyTextExecutable ==
  \A p \in Pages : "X" \in recorded[p] \union host[p] => p \in TextPages

\* In a session without a memory limit a page that is not recorded cannot be
\* touched, and the host allows at least what is recorded, except where mmap
\* did not notice that it was refused.  (The dynamic text is recorded before
\* nacl_text.c makes it visible.)
HostCoversMap ==
  ~limited /\ phase # "aborted" =>
    \A p \in Pages \ TextPages : IF recorded[p] = Free THEN host[p] = NoAccess
                                 ELSE p \in lost \/ recorded[p] \subseteq host[p]

\* A session that has no limit never gets one, and as long as there is one no
\* call changes what the host allows.
LimitFreezesHost ==
  [][phase = "user" => /\ limit # 0 => host' = host
                       /\ limit = 0 => limit' = 0]_vars
=============================================================================
