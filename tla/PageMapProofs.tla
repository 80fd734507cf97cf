---------------------------- MODULE PageMapProofs ---------------------------
(***************************************************************************)
(* Proofs about PageMap: for any address space, layout and sequence of     *)
(* memory calls.  What they need of the constants is PageMapAssumption.    *)
(***************************************************************************)
EXTENDS PageMap, TLAPS

LEMMA FillIsProt ==
  ASSUME NEW S, NEW f \in [Pages -> S], NEW lo, NEW hi, NEW v \in S
  PROVE  /\ Fill(f, lo, hi, v) \in [Pages -> S]
         /\ \A p \in Pages : Fill(f, lo, hi, v)[p] =
                               (IF lo <= p /\ p <= hi THEN v ELSE f[p])
BY DEF Fill

LEMMA MappedIsProt ==
  ASSUME NEW f \in [Pages -> Prots], NEW lo, NEW hi, NEW v \in Prots
  PROVE  Mapped(f, lo, hi, v) \in [Pages -> Prots]
BY DEF Mapped

LEMMA LoseIsPages ==
  ASSUME lost \subseteq Pages, NEW lo, NEW hi, NEW asked, Lose(lo, hi, asked)
  PROVE  /\ lost' \subseteq Pages
         /\ \A p \in Pages : ~(lo <= p /\ p <= hi) => (p \in lost' <=> p \in lost)
         /\ ~asked => \A p \in Pages : lo <= p /\ p <= hi => p \notin lost'
BY DEF Lose

\* Every record is a protection or Free, every page has a protection.
THEOREM TypeCorrect ==
  ASSUME PageMapAssumption
  PROVE  Spec => []TypeOK
<1>1. Init => TypeOK
  BY DEF PageMapAssumption, Init, TypeOK
<1>2. TypeOK /\ [Next]_vars => TypeOK'
  <2> SUFFICES ASSUME TypeOK, [Next]_vars PROVE TypeOK'
    OBVIOUS
  <2> USE DEF TypeOK
  <2>0. NoAccess \in Prots /\ ReadWrite \in Prots
    BY DEF NoAccess, ReadWrite, Prots, Access
  <2>1. CASE Start
    <3>1. CASE \E lo, mid, hi \in Pages :
                 /\ recorded' = Fill(recorded, mid + 1, hi, NoAccess)
                 /\ Lose(lo, hi, TRUE)
                 /\ host' = Mapped(Mapped(host, lo, mid, ReadWrite), mid + 1, hi, NoAccess)
      <4>1. PICK lo, mid, hi \in Pages :
              /\ recorded' = Fill(recorded, mid + 1, hi, NoAccess)
              /\ Lose(lo, hi, TRUE)
              /\ host' = Mapped(Mapped(host, lo, mid, ReadWrite), mid + 1, hi, NoAccess)
        BY <3>1
      <4>2. recorded' \in [Pages -> Prots \union {Free}]
        BY <2>0, <4>1, FillIsProt, Zenon
      <4>3. Mapped(host, lo, mid, ReadWrite) \in [Pages -> Prots]
        BY <2>0, MappedIsProt, Zenon
      <4>4. host' \in [Pages -> Prots]
        BY <2>0, <4>1, <4>3, MappedIsProt, Zenon
      <4>5. lost' \subseteq Pages
        BY <4>1, LoseIsPages
      <4> QED
        BY <2>1, <4>2, <4>4, <4>5 DEF Start
    <3>2. CASE UNCHANGED <<recorded, host, lost>>
      BY <2>1, <3>2 DEF Start
    <3> QED
      BY <2>1, <3>1, <3>2 DEF Start
  <2>2. ASSUME NEW lo \in Pages, NEW hi \in Pages, NEW prot \in Prots, Map(lo, hi, prot)
        PROVE  TypeOK'
    <3>1. prot \ {"X"} \in Prots
      BY DEF Prots
    <3>2. lost' \subseteq Pages
      BY <2>2, LoseIsPages DEF Map, HostMap
    <3> QED
      BY <2>2, <3>1, <3>2, FillIsProt, MappedIsProt, Zenon DEF Map, HostMap
  <2>3. ASSUME NEW lo \in Pages, NEW hi \in Pages, Unmap(lo, hi)
        PROVE  TypeOK'
    <3>1. lost' \subseteq Pages
      BY <2>3, LoseIsPages DEF Unmap, HostFill
    <3> QED
      BY <2>0, <2>3, <3>1, FillIsProt, Zenon DEF Unmap, HostFill
  <2>4. ASSUME NEW lo \in Pages, NEW hi \in Pages, Grow(lo, hi)
        PROVE  TypeOK'
    <3>1. lo - 1 \in Pages
      BY <2>4 DEF PageMapAssumption, Grow, Pages
    <3>2. lost' \subseteq Pages
      BY <2>4, LoseIsPages DEF Grow, HostFill
    <3> QED
      BY <2>0, <2>4, <3>1, <3>2, FillIsProt, Zenon DEF Grow, HostFill
  <2>5. ASSUME NEW l \in Limits, Lower(l)
        PROVE  TypeOK'
    <3>1. l \in Nat
      BY DEF PageMapAssumption
    <3> QED
      BY <2>5, <3>1 DEF Lower
  <2>6. CASE Abort
    <3>1. ASSUME NEW lo \in Pages, NEW hi \in Pages, TextEnd < lo,
                 recorded' = Fill(recorded, lo, hi, recorded[lo - 1])
          PROVE  recorded' \in [Pages -> Prots \union {Free}]
      <4>1. lo - 1 \in Pages
        BY <3>1 DEF PageMapAssumption, Pages
      <4> QED
        BY <3>1, <4>1, FillIsProt, Zenon
    <3> QED
      BY <2>6, <3>1 DEF Abort
  <2>7. CASE UNCHANGED vars
    BY <2>7 DEF vars
  <2> QED
    BY <2>1, <2>2, <2>3, <2>4, <2>5, <2>6, <2>7 DEF Next, Refused
<1> QED
  BY <1>1, <1>2, PTL DEF Spec

-----------------------------------------------------------------------------
(* What a step does to one page.                                          *)

\* The alternatives: the page stays; it lies outside the text and gets a record
\* and a protection that are not executable, and the host keeps covering the
\* record if the host is asked and does not refuse; or only the preallocation
\* touched it.
PageStep(p) ==
  \/ recorded'[p] = recorded[p] /\ host'[p] = host[p] /\ (p \in lost => p \in lost')
  \/ /\ TextEnd <= p
     /\ "X" \notin recorded'[p] \/ (\E q \in Pages : TextEnd <= q /\ recorded'[p] = recorded[q])
     /\ "X" \notin host'[p] \/ host'[p] = host[p]
     /\ limit = 0 /\ phase' # "aborted" =>
          IF recorded'[p] = Free THEN host'[p] = NoAccess
          ELSE \/ p \in lost'
               \/ recorded'[p] \subseteq host'[p]
               \/ host'[p] = ReadWrite

LEMMA EveryPageSteps ==
  ASSUME PageMapAssumption, TypeOK, [Next]_vars, NEW p \in Pages
  PROVE  PageStep(p)
<1> USE DEF PageStep
<1>0. /\ NoAccess \in Prots /\ ReadWrite \in Prots /\ NoAccess # Free /\ ReadWrite # Free
      /\ "X" \notin NoAccess /\ "X" \notin ReadWrite /\ "X" \notin Free
  BY DEF PageMapAssumption, NoAccess, ReadWrite, Prots, Access
<1>1. /\ recorded \in [Pages -> Prots \union {Free}] /\ host \in [Pages -> Prots]
      /\ p \in Nat /\ TextEnd \in Nat /\ NPages \in Nat /\ lost \subseteq Pages
  BY DEF PageMapAssumption, TypeOK, Pages
<1>2. CASE Start
  <2>1. CASE UNCHANGED <<recorded, host, lost>>
    BY <2>1
  <2>2. ASSUME NEW lo \in Pages, NEW mid \in Pages, NEW hi \in Pages,
               TextEnd <= lo, lo <= mid, mid < hi, limit # 0, Lose(lo, hi, TRUE),
               recorded' = Fill(recorded, mid + 1, hi, NoAccess),
               host' = Mapped(Mapped(host, lo, mid, ReadWrite), mid + 1, hi, NoAccess)
        PROVE  PageStep(p)
    <3>1. recorded'[p] = IF mid + 1 <= p /\ p <= hi THEN NoAccess ELSE recorded[p]
      BY <2>2 DEF Fill
    <3>2. host'[p] = IF mid + 1 <= p /\ p <= hi /\ p \notin lost' THEN NoAccess
                     ELSE IF lo <= p /\ p <= mid /\ p \notin lost' THEN ReadWrite ELSE host[p]
      BY <2>2 DEF Mapped
    <3>3. CASE mid + 1 <= p /\ p <= hi
      <4>1. TextEnd <= p
        BY <1>1, <2>2, <3>3 DEF Pages
      <4> QED
        BY <1>0, <2>2, <3>1, <3>2, <3>3, <4>1
    <3>4. CASE lo <= p /\ p <= mid
      <4>1. TextEnd <= p /\ ~(mid + 1 <= p)
        BY <1>1, <2>2, <3>4 DEF Pages
      <4> QED
        BY <1>0, <2>2, <3>1, <3>2, <3>4, <4>1
    <3>5. CASE ~(lo <= p /\ p <= hi)
      <4>1. ~(mid + 1 <= p /\ p <= hi) /\ ~(lo <= p /\ p <= mid)
        BY <1>1, <2>2, <3>5 DEF Pages
      <4>2. p \in lost' <=> p \in lost
        BY <1>1, <2>2, <3>5, LoseIsPages
      <4> QED
        BY <3>1, <3>2, <4>1, <4>2
    <3> QED
      BY <1>1, <2>2, <3>3, <3>4, <3>5 DEF Pages
  <2> QED
    BY <1>2, <2>1, <2>2 DEF Start
<1>3. ASSUME NEW lo \in Pages, NEW hi \in Pages, NEW prot \in Prots, Map(lo, hi, prot)
      PROVE  PageStep(p)
  <2>1. prot \ {"X"} # Free /\ "X" \notin prot \ {"X"}
    BY DEF PageMapAssumption, Prots
  <2>2. ~(lo <= p /\ p <= hi) => (p \in lost' <=> p \in lost)
    BY <1>1, <1>3, LoseIsPages DEF Map, HostMap
  <2>3. recorded'[p] = IF lo <= p /\ p <= hi THEN prot \ {"X"} ELSE recorded[p]
    BY <1>3 DEF Map, Fill
  <2>4. host'[p] = IF limit = 0 /\ lo <= p /\ p <= hi /\ p \notin lost'
                   THEN prot \ {"X"} ELSE host[p]
    BY <1>3 DEF Map, HostMap, Mapped
  <2>5. lo <= p => TextEnd <= p
    BY <1>1, <1>3 DEF Map, Pages
  <2> QED
    BY <2>1, <2>2, <2>3, <2>4, <2>5
<1>4. ASSUME NEW lo \in Pages, NEW hi \in Pages, Unmap(lo, hi)
      PROVE  PageStep(p)
  <2>1. ~(lo <= p /\ p <= hi) => (p \in lost' <=> p \in lost)
    BY <1>1, <1>4, LoseIsPages DEF Unmap, HostFill
  <2>2. recorded'[p] = IF lo <= p /\ p <= hi THEN Free ELSE recorded[p]
    BY <1>4 DEF Unmap, Fill
  <2>3. host'[p] = IF limit = 0 /\ lo <= p /\ p <= hi THEN NoAccess ELSE host[p]
    BY <1>4 DEF Unmap, HostFill, Fill
  <2>4. lo <= p => TextEnd <= p
    BY <1>1, <1>4 DEF Unmap, Pages
  <2> QED
    BY <1>0, <2>1, <2>2, <2>3, <2>4
<1>5. ASSUME NEW lo \in Pages, NEW hi \in Pages, Grow(lo, hi)
      PROVE  PageStep(p)
  <2>1. lo - 1 \in Pages /\ TextEnd <= lo - 1 /\ recorded[lo - 1] # Free
    BY <1>1, <1>5 DEF Grow, Pages
  <2>2. CASE lo <= p /\ p <= hi
    <3>1. recorded'[p] = recorded[lo - 1] /\ TextEnd <= p
      BY <1>1, <1>5, <2>2 DEF Grow, Fill, Pages
    <3>2. host'[p] = IF limit = 0 THEN ReadWrite ELSE host[p]
      BY <1>5, <2>2 DEF Grow, HostFill, Fill
    <3> QED
      BY <1>0, <2>1, <3>1, <3>2
  <2>3. CASE ~(lo <= p /\ p <= hi)
    <3>1. p \in lost' <=> p \in lost
      BY <1>1, <1>5, <2>3, LoseIsPages DEF Grow, HostFill
    <3> QED
      BY <1>5, <2>3, <3>1 DEF Grow, HostFill, Fill
  <2> QED
    BY <2>2, <2>3
<1>6. ASSUME NEW l \in Limits, Lower(l)
      PROVE  PageStep(p)
  BY <1>6 DEF Lower
<1>7. CASE Abort
  <2>1. ASSUME NEW lo \in Pages, NEW hi \in Pages, TextEnd < lo,
               recorded' = Fill(recorded, lo, hi, recorded[lo - 1])
        PROVE  PageStep(p)
    <3>1. lo - 1 \in Pages /\ TextEnd <= lo - 1
      BY <1>1, <2>1 DEF Pages
    <3>2. CASE lo <= p /\ p <= hi
      <4>1. recorded'[p] = recorded[lo - 1] /\ TextEnd <= p
        BY <1>1, <2>1, <3>2 DEF Fill, Pages
      <4>2. host' = host /\ phase' = "aborted"
        BY <1>7 DEF Abort
      <4> QED
        BY <3>1, <4>1, <4>2
    <3>3. CASE ~(lo <= p /\ p <= hi)
      BY <1>7, <2>1, <3>3 DEF Fill, Abort
    <3> QED
      BY <3>2, <3>3
  <2> QED
    BY <1>7, <2>1 DEF Abort
<1>8. CASE UNCHANGED vars
  BY <1>8 DEF vars
<1> QED
  BY <1>2, <1>3, <1>4, <1>5, <1>6, <1>7, <1>8 DEF Next, Refused

-----------------------------------------------------------------------------
(* Invariants.                                                            *)

\* No sequence of mmap, munmap, sysbrk and setup calls changes the record or
\* the protection of the guard, the trampolines and the text.
THEOREM TextNeverChanges ==
  ASSUME PageMapAssumption
  PROVE  Spec => []TextKept
<1>1. Init => TextKept
  BY DEF Init, TextKept, TextPages
<1>2. TypeOK /\ TextKept /\ [Next]_vars => TextKept'
  <2> SUFFICES ASSUME TypeOK, TextKept, [Next]_vars, NEW p \in TextPages
               PROVE  recorded'[p] = LoadedRecord[p] /\ host'[p] = LoadedHost[p]
    BY DEF TextKept
  <2>1. p \in Pages /\ p < TextEnd /\ p \in Nat /\ TextEnd \in Nat
    BY DEF PageMapAssumption, TextPages, Pages
  <2>2. PageStep(p)
    BY <2>1, EveryPageSteps
  <2>3. ~(TextEnd <= p)
    BY <2>1
  <2>4. recorded'[p] = recorded[p] /\ host'[p] = host[p]
    BY <2>2, <2>3 DEF PageStep
  <2> QED
    BY <2>4 DEF TextKept
<1> QED
  BY <1>1, <1>2, TypeCorrect, PTL DEF Spec

\* Only text pages are ever executable.
THEOREM ExecutableIsText ==
  ASSUME PageMapAssumption
  PROVE  Spec => []OnlyTextExecutable
<1>1. Init => OnlyTextExecutable
  BY DEF PageMapAssumption, Init, OnlyTextExecutable, TextPages
<1>2. TypeOK /\ OnlyTextExecutable /\ [Next]_vars => OnlyTextExecutable'
  <2> SUFFICES ASSUME TypeOK, OnlyTextExecutable, [Next]_vars, NEW p \in Pages,
                      "X" \in recorded'[p] \union host'[p]
               PROVE  p \in TextPages
    BY DEF OnlyTextExecutable
  <2>1. PageStep(p)
    BY EveryPageSteps
  <2>2. CASE recorded'[p] = recorded[p] /\ host'[p] = host[p]
    BY <2>2 DEF OnlyTextExecutable
  <2>3. CASE /\ TextEnd <= p
             /\ \/ "X" \notin recorded'[p]
                \/ \E q \in Pages : TextEnd <= q /\ recorded'[p] = recorded[q]
             /\ "X" \notin host'[p] \/ host'[p] = host[p]
    <3>1. \A q \in Pages : TextEnd <= q => "X" \notin recorded[q]
      <4> SUFFICES ASSUME NEW q \in Pages, TextEnd <= q, "X" \in recorded[q] PROVE FALSE
        OBVIOUS
      <4>1. q < TextEnd
        BY DEF OnlyTextExecutable, TextPages
      <4> QED
        BY <4>1 DEF PageMapAssumption, Pages
    <3>2. "X" \in host[p]
      BY <2>3, <3>1
    <3> QED
      BY <3>2 DEF OnlyTextExecutable
  <2> QED
    BY <2>1, <2>2, <2>3 DEF PageStep
<1> QED
  BY <1>1, <1>2, TypeCorrect, PTL DEF Spec

\* HostCoversMap is inductive only together with the fact that a session
\* without a limit never gets one.
CoverInv ==
  /\ ~limited => limit = 0
  /\ HostCoversMap

LEMMA CoverInvInductive ==
  ASSUME PageMapAssumption
  PROVE  Spec => []CoverInv
<1>1. Init => CoverInv
  BY DEF PageMapAssumption, Init, CoverInv, HostCoversMap
<1>2. TypeOK /\ OnlyTextExecutable' /\ TypeOK' /\ CoverInv /\ [Next]_vars => CoverInv'
  <2> SUFFICES ASSUME TypeOK, TypeOK', OnlyTextExecutable', CoverInv, [Next]_vars
               PROVE  CoverInv'
    OBVIOUS
  <2>1. limited' = limited
    BY DEF Next, Start, Map, Unmap, Grow, Lower, Abort, Refused, vars
  <2>2. phase = "aborted" => phase' = "aborted"
    BY DEF Next, Start, Map, Unmap, Grow, Lower, Abort, Refused, vars
  <2>3. limit = 0 => limit' = 0
    <3>1. ASSUME NEW l \in Limits, Lower(l), limit = 0 PROVE limit' = 0
      <4>1. l \in Nat
        BY DEF PageMapAssumption
      <4> QED
        BY <3>1, <4>1 DEF Lower
    <3> QED
      BY <3>1 DEF Next, Start, Map, Unmap, Grow, Abort, Refused, vars
  <2>4. ASSUME ~limited', phase' # "aborted", NEW p \in Pages \ TextPages
        PROVE  IF recorded'[p] = Free THEN host'[p] = NoAccess
                                      ELSE p \in lost' \/ recorded'[p] \subseteq host'[p]
    <3>1. limit = 0 /\ phase # "aborted"
      BY <2>1, <2>2, <2>4 DEF CoverInv
    <3>2. IF recorded[p] = Free THEN host[p] = NoAccess
                                ELSE p \in lost \/ recorded[p] \subseteq host[p]
      BY <2>1, <2>4, <3>1 DEF CoverInv, HostCoversMap
    <3>3. PageStep(p)
      BY <2>4, EveryPageSteps
    <3>4. CASE recorded'[p] = recorded[p] /\ host'[p] = host[p] /\ (p \in lost => p \in lost')
      BY <3>2, <3>4
    <3>5. CASE host'[p] = ReadWrite /\ recorded'[p] # Free /\ TextEnd <= p
      <4>1. recorded'[p] \in Prots
        BY <3>5 DEF TypeOK
      <4>2. p \notin TextPages
        BY <3>5 DEF PageMapAssumption, TextPages, Pages
      <4>3. "X" \notin recorded'[p]
        BY <4>2 DEF OnlyTextExecutable
      <4> QED
        BY <3>5, <4>1, <4>3 DEF Prots, Access, ReadWrite
    <3> QED
      BY <2>4, <3>1, <3>3, <3>4, <3>5 DEF PageStep
  <2> QED
    BY <2>1, <2>3, <2>4 DEF CoverInv, HostCoversMap
<1> QED
  BY <1>1, <1>2, TypeCorrect, ExecutableIsText, PTL DEF Spec

\* Without a memory limit, what the map does not record cannot be touched and
\* what it records is allowed, unless an mmap missed the host's refusal.
THEOREM HostFollowsMap ==
  ASSUME PageMapAssumption
  PROVE  Spec => []HostCoversMap
<1>1. CoverInv => HostCoversMap
  BY DEF CoverInv
<1> QED
  BY <1>1, CoverInvInductive, PTL

\* Under a memory limit no memory call changes what the host allows.
THEOREM HostFrozen ==
  ASSUME PageMapAssumption
  PROVE  Spec => LimitFreezesHost
<1>1. TypeOK /\ [Next]_vars =>
        [phase = "user" => /\ limit # 0 => host' = host
                           /\ limit = 0 => limit' = 0]_vars
  <2> SUFFICES ASSUME TypeOK, Next, phase = "user"
               PROVE  /\ limit # 0 => host' = host
                      /\ limit = 0 => limit' = 0
    OBVIOUS
  <2>1. ASSUME NEW l \in Limits, Lower(l), limit = 0 PROVE limit' = 0
    <3>1. l \in Nat
      BY DEF PageMapAssumption
    <3> QED
      BY <2>1, <3>1 DEF Lower
  <2> QED
    BY <2>1 DEF Next, Start, Map, Unmap, Grow, Lower, Abort, Refused, vars, HostFill, HostMap
<1> QED
  BY <1>1, TypeCorrect, PTL DEF Spec, LimitFreezesHost
=============================================================================
