--------------------------- MODULE NetworkProofs ---------------------------
(***************************************************************************)
(* Proofs about Network, for any nodes, channels, rows, programs and       *)
(* granularity of the pool.                                                *)
(***************************************************************************)
EXTENDS Network, LeastElements, SequenceTheorems, FiniteSetTheorems, TLAPS

Cell == [fd : Int, unused : BOOLEAN, sock : Nat]

\* The fields of a cell in use, and its place among the others: what one
\* pool keeps by itself.  rows is the node's part of the channels table.
PoolOK(c, rows) ==
  /\ c \in Seq(Cell)
  /\ \A i \in DOMAIN c : ~c[i].unused => \E r \in rows : r.fd = c[i].fd
  /\ \A i, j \in DOMAIN c : j < i /\ ~c[i].unused => c[j].fd # c[i].fd /\ c[j].fd # Junk

Numbered(c, m) ==
  /\ \A i \in DOMAIN c : c[i].sock \in 0 .. m
  /\ \A i, j \in DOMAIN c : ~c[i].unused /\ ~c[j].unused /\ c[i].sock # 0
                              /\ c[i].sock = c[j].sock => i = j

LiveSocks(c) == {c[i].sock : i \in {j \in DOMAIN c : ~c[j].unused /\ c[j].sock # 0}}

\* The sockets of the cells in use for the descriptors fds.
SocksFor(c, fds) == {c[i].sock : i \in {j \in DOMAIN c : ~c[j].unused /\ c[j].fd \in fds}}

\* new is c with the cells in use for fds freed, and no others.
Freed(new, c, fds) ==
  /\ new \in [DOMAIN c -> Cell]
  /\ \A i \in DOMAIN c : new[i].fd = c[i].fd /\ new[i].sock = c[i].sock
  /\ \A i \in DOMAIN c : ~new[i].unused <=> ~c[i].unused /\ c[i].fd \notin fds

JunkOnly(c, junk) == junk \subseteq Junks(c)

FdsNat(rows) == \A r \in rows : r.fd \in Nat

\* A function on 1 .. n is a sequence.
LEMMA FunctionIsSeq ==
  ASSUME NEW S, NEW n \in Nat, NEW f \in [1 .. n -> S]
  PROVE  f \in Seq(S) /\ Len(f) = n /\ DOMAIN f = 1 .. n
OBVIOUS

\* A search of an array that finds something finds a first.
LEMMA FirstExists ==
  ASSUME NEW T, T \subseteq Nat, T # {}
  PROVE  \E x \in T : First(x, T)
BY LeastElement DEF First

LEMMA RowsFd ==
  ASSUME NEW n \in Nodes, NEW r \in Rows(n)
  PROVE  r.fd \in Nat /\ r.fmode \in {"r", "w"} /\ r.endpoint \in Ends
<1> DEFINE T == [fd : Nat, fmode : {"r", "w"}, endpoint : Ends]
<1>1. Records[n] \in Seq(T)
  BY NetworkAssumption
<1>2. PICK i \in DOMAIN Records[n] : r = Records[n][i]
  BY DEF Rows
<1>3. i \in 1 .. Len(Records[n])
  BY <1>1, <1>2, LenProperties
<1>4. r \in T
  BY <1>1, <1>2, <1>3, ElementOfSeq
<1> QED
  BY <1>4

LEMMA ExtendedOK ==
  ASSUME NEW c \in Seq(Cell), Granularity \in Nat \ {0}
  PROVE  /\ Extended(c) \in Seq(Cell)
         /\ Len(c) \in Nat /\ Len(Extended(c)) \in Nat
         /\ Len(c) <= Len(Extended(c))
         /\ DOMAIN c = 1 .. Len(c)
         /\ DOMAIN Extended(c) = 1 .. Len(Extended(c))
         /\ \A i \in DOMAIN c : Extended(c)[i] = c[i]
         /\ \A i \in DOMAIN Extended(c) : i > Len(c) => Extended(c)[i] = UnusedCell(Junk)
         /\ Full(c) => Len(Extended(c)) = Len(c) + Granularity
<1>1. UnusedCell(Junk) \in Cell
  BY DEF UnusedCell, Junk, Cell
<1>2. /\ Len(c) \in Nat
      /\ DOMAIN c = 1 .. Len(c)
      /\ \A i \in 1 .. Len(c) : c[i] \in Cell
  BY LenProperties, ElementOfSeq
<1>3. CASE Full(c)
  <2> DEFINE f == [i \in 1 .. Len(c) + Granularity |->
                     IF i <= Len(c) THEN c[i] ELSE UnusedCell(Junk)]
  <2>1. f \in [1 .. Len(c) + Granularity -> Cell]
    BY <1>1, <1>2
  <2>2. Extended(c) = f
    BY <1>3 DEF Extended
  <2>3. f \in Seq(Cell) /\ Len(f) = Len(c) + Granularity /\ DOMAIN f = 1 .. Len(c) + Granularity
    BY <2>1, <1>2, FunctionIsSeq
  <2> QED
    BY <1>2, <1>3, <2>2, <2>3
<1>4. CASE ~Full(c)
  BY <1>2, <1>4 DEF Extended
<1> QED
  BY <1>3, <1>4

\* add_sockf_copy_to_array keeps the order of the pool: the cells before the
\* first unused one are all in use, and none of them for fd.
LEMMA AddedOK ==
  ASSUME NEW rows, NEW c, PoolOK(c, rows), NEW m \in Nat, Numbered(c, m),
         NEW fd \in Nat, NEW r \in rows, r.fd = fd, \A s \in rows : s.fd \in Nat,
         Granularity \in Nat \ {0},
         \A i \in DOMAIN c : ~InUse(c, i, fd),
         NEW sock \in Nat, NEW k \in Nat, (sock = 0 /\ k = m) \/ (sock = m + 1 /\ k = m + 1)
  PROVE  /\ PoolOK(Added(c, fd, sock), rows)
         /\ Numbered(Added(c, fd, sock), k)
         /\ LiveSocks(Added(c, fd, sock)) = LiveSocks(c) \union ({sock} \ {0})
<1> DEFINE room == Extended(c)
           unused == {i \in DOMAIN room : room[i].unused}
           new == [i \in DOMAIN room |-> IF First(i, unused) THEN UsedCell(fd, sock) ELSE room[i]]
<1>1. Added(c, fd, sock) = new
  BY DEF Added
<1>2. /\ room \in Seq(Cell)
      /\ Len(c) \in Nat /\ Len(room) \in Nat /\ Len(c) <= Len(room)
      /\ DOMAIN c = 1 .. Len(c) /\ DOMAIN room = 1 .. Len(room)
      /\ \A i \in DOMAIN c : room[i] = c[i]
      /\ \A i \in DOMAIN room : i > Len(c) => room[i] = UnusedCell(Junk)
  BY ExtendedOK DEF PoolOK
<1>3. \A i \in DOMAIN room : room[i] \in Cell
  BY <1>2, ElementOfSeq
<1>4. UsedCell(fd, sock) \in Cell
  BY DEF UsedCell, Cell
<1>5. new \in [1 .. Len(room) -> Cell]
  BY <1>2, <1>3, <1>4
<1>6. new \in Seq(Cell) /\ DOMAIN new = 1 .. Len(room)
  BY <1>2, <1>5, FunctionIsSeq
<1>7. \A i \in DOMAIN new : ~new[i].unused =>
        \/ First(i, unused) /\ new[i].fd = fd /\ new[i].sock = sock
        \/ i \in DOMAIN c /\ ~c[i].unused /\ new[i] = c[i]
  BY <1>2, <1>6 DEF UnusedCell, UsedCell
<1>8. \A i \in DOMAIN c : ~c[i].unused => i \in DOMAIN new /\ new[i] = c[i]
  BY <1>2, <1>6 DEF First
<1>9. PoolOK(new, rows)
  <2>1. ASSUME NEW i \in DOMAIN new, ~new[i].unused
        PROVE  \E s \in rows : s.fd = new[i].fd
    <3>1. CASE new[i].fd = fd
      BY <3>1
    <3>2. CASE i \in DOMAIN c /\ ~c[i].unused /\ new[i] = c[i]
      BY <3>2 DEF PoolOK
    <3> QED
      BY <1>7, <2>1, <3>1, <3>2
  <2>2. ASSUME NEW i \in DOMAIN new, NEW j \in DOMAIN new, j < i, ~new[i].unused
        PROVE  new[j].fd # new[i].fd /\ new[j].fd # Junk
    <3>1. CASE First(i, unused) /\ new[i].fd = fd
      <4>1. j \in DOMAIN c /\ ~c[j].unused /\ new[j] = c[j]
        <5>1. j \notin unused
          BY <1>2, <1>6, <2>2, <3>1 DEF First
        <5>2. ~room[j].unused /\ new[j] = room[j]
          BY <1>2, <1>6, <5>1 DEF First
        <5>3. j \in DOMAIN room /\ j \in Nat /\ j >= 1
          BY <1>2, <1>6
        <5>4. ~(j > Len(c))
          BY <1>2, <5>2, <5>3 DEF UnusedCell
        <5>5. j \in DOMAIN c
          BY <1>2, <5>3, <5>4
        <5> QED
          BY <1>2, <5>2, <5>5
      <4>2. c[j].fd # fd
        BY <4>1 DEF InUse
      <4>3. c[j].fd \in Nat
        BY <4>1 DEF PoolOK
      <4> QED
        BY <3>1, <4>1, <4>2, <4>3 DEF Junk
    <3>2. CASE i \in DOMAIN c /\ ~c[i].unused /\ new[i] = c[i]
      <4>1. j \in DOMAIN c
        <5>1. j \in Nat /\ j >= 1 /\ i <= Len(c) /\ i \in Nat
          BY <1>2, <1>6, <3>2
        <5> QED
          BY <1>2, <2>2, <5>1
      <4>2. CASE First(j, unused)
        <5>1. new[j].fd = fd
          BY <1>2, <1>6, <4>2 DEF UsedCell
        <5>2. c[i].fd # fd
          BY <3>2 DEF InUse
        <5> QED
          BY <3>2, <5>1, <5>2 DEF Junk
      <4>3. CASE ~First(j, unused)
        <5>1. new[j] = c[j]
          BY <1>2, <1>6, <4>1, <4>3
        <5> QED
          BY <2>2, <3>2, <4>1, <5>1 DEF PoolOK
      <4> QED
        BY <4>2, <4>3
    <3> QED
      BY <1>7, <2>2, <3>1, <3>2
  <2> QED
    BY <1>6, <2>1, <2>2 DEF PoolOK
<1>10. Numbered(new, k)
  <2>1. \A i \in DOMAIN new : new[i].sock \in 0 .. k
    <3> SUFFICES ASSUME NEW i \in DOMAIN new PROVE new[i].sock \in 0 .. k
      OBVIOUS
    <3>1. CASE First(i, unused)
      BY <1>2, <1>6, <3>1 DEF UsedCell
    <3>2. CASE ~First(i, unused) /\ i \in DOMAIN c
      BY <1>2, <1>6, <3>2 DEF Numbered
    <3>3. CASE ~First(i, unused) /\ i \notin DOMAIN c
      BY <1>2, <1>6, <3>3 DEF UnusedCell
    <3> QED
      BY <3>1, <3>2, <3>3
  <2>2. ASSUME NEW i \in DOMAIN new, NEW j \in DOMAIN new, ~new[i].unused, ~new[j].unused,
               new[i].sock # 0, new[i].sock = new[j].sock
        PROVE  i = j
    <3>1. \A q \in DOMAIN c : c[q].sock # m + 1
      BY DEF Numbered
    <3>2. CASE First(i, unused) /\ new[i].sock = sock
      <4>1. First(j, unused)
        <5>1. new[j].sock = m + 1
          BY <2>2, <3>2
        <5> QED
          BY <1>7, <2>2, <3>1, <5>1
      <4> QED
        BY <1>2, <3>2, <4>1 DEF First
    <3>3. CASE i \in DOMAIN c /\ ~c[i].unused /\ new[i] = c[i]
      <4>1. j \in DOMAIN c /\ ~c[j].unused /\ new[j] = c[j]
        <5>1. c[i].sock # m + 1 /\ new[j].sock = c[i].sock
          BY <2>2, <3>1, <3>3
        <5> QED
          BY <1>7, <2>2, <5>1
      <4> QED
        BY <2>2, <3>3, <4>1 DEF Numbered
    <3> QED
      BY <1>7, <2>2, <3>2, <3>3
  <2> QED
    BY <2>1, <2>2 DEF Numbered
<1>11. PICK p \in DOMAIN new : First(p, unused)
  <2>1. unused # {}
    <3>1. CASE Full(c)
      <4>1. Len(room) = Len(c) + Granularity
        BY <3>1, ExtendedOK DEF PoolOK
      <4>2. Len(room) \in unused
        BY <1>2, <4>1 DEF UnusedCell
      <4> QED
        BY <4>2
    <3>2. CASE ~Full(c)
      BY <1>2, <3>2 DEF Full
    <3> QED
      BY <3>1, <3>2
  <2>2. unused \subseteq Nat
    BY <1>2
  <2> QED
    BY <1>6, <1>2, <2>1, <2>2, FirstExists DEF First
<1>12. new[p] = UsedCell(fd, sock)
  BY <1>2, <1>6, <1>11
<1>13. LiveSocks(new) = LiveSocks(c) \union ({sock} \ {0})
  <2>1. LiveSocks(new) \subseteq LiveSocks(c) \union ({sock} \ {0})
    BY <1>7 DEF LiveSocks
  <2>2. LiveSocks(c) \subseteq LiveSocks(new)
    BY <1>8 DEF LiveSocks
  <2>3. sock # 0 => sock \in LiveSocks(new)
    BY <1>11, <1>12 DEF LiveSocks, UsedCell
  <2> QED
    BY <2>1, <2>2, <2>3
<1> QED
  BY <1>1, <1>9, <1>10, <1>13

\* Cells freed by closing the sockets of the descriptors fds, and no others.
LEMMA ClosedOK ==
  ASSUME NEW rows, NEW c, PoolOK(c, rows), NEW m \in Nat, Numbered(c, m), NEW fds,
         NEW new, Freed(new, c, fds)
  PROVE  /\ PoolOK(new, rows)
         /\ Numbered(new, m)
         /\ LiveSocks(new) = LiveSocks(c) \ SocksFor(c, fds)
<1>1. DOMAIN new = DOMAIN c /\ DOMAIN c = 1 .. Len(c) /\ Len(c) \in Nat
  BY LenProperties DEF PoolOK, Freed
<1>2. new \in Seq(Cell)
  BY <1>1, FunctionIsSeq DEF Freed
<1>3. PoolOK(new, rows)
  BY <1>1, <1>2 DEF PoolOK, Freed
<1>4. Numbered(new, m)
  BY <1>1 DEF Numbered, Freed
<1>5. LiveSocks(new) = LiveSocks(c) \ SocksFor(c, fds)
  <2> DEFINE closed == SocksFor(c, fds)
  <2>1. ASSUME NEW i \in DOMAIN c, ~new[i].unused, new[i].sock # 0
        PROVE  new[i].sock \in LiveSocks(c) /\ new[i].sock \notin closed
    <3>1. ~c[i].unused /\ c[i].fd \notin fds /\ c[i].sock = new[i].sock
      BY <2>1 DEF Freed
    <3>2. ASSUME NEW j \in DOMAIN c, ~c[j].unused, c[j].fd \in fds
          PROVE  c[j].sock # c[i].sock
      BY <2>1, <3>1, <3>2 DEF Numbered
    <3> QED
      BY <2>1, <3>1, <3>2 DEF LiveSocks, SocksFor
  <2>2. LiveSocks(new) \subseteq LiveSocks(c) \ closed
    BY <1>1, <2>1 DEF LiveSocks
  <2>3. LiveSocks(c) \ closed \subseteq LiveSocks(new)
    BY <1>1 DEF LiveSocks, SocksFor, Freed
  <2> QED
    BY <2>2, <2>3
<1> QED
  BY <1>3, <1>4, <1>5

\* remove_sockf_from_array_by_fd frees the cell in use for fd: none before it
\* holds fd, or may happen to.
LEMMA RemovedOK ==
  ASSUME NEW rows, FdsNat(rows), NEW c, PoolOK(c, rows),
         NEW m \in Nat, Numbered(c, m), NEW fd, NEW junk, JunkOnly(c, junk)
  PROVE  /\ PoolOK(Removed(c, fd, junk), rows)
         /\ Numbered(Removed(c, fd, junk), m)
         /\ LiveSocks(Removed(c, fd, junk)) = LiveSocks(c) \ SocksFor(c, {fd})
<1> DEFINE holds == {i \in DOMAIN c : c[i].fd = fd} \union junk
           new == [i \in DOMAIN c |-> IF First(i, holds) THEN [c[i] EXCEPT !.unused = TRUE] ELSE c[i]]
<1>1. Removed(c, fd, junk) = new
  BY DEF Removed
<1>2. DOMAIN c = 1 .. Len(c) /\ Len(c) \in Nat /\ \A i \in DOMAIN c : c[i] \in Cell
  BY LenProperties, ElementOfSeq DEF PoolOK
<1>3. holds \subseteq DOMAIN c /\ \A i \in junk : c[i].fd = Junk
  BY DEF Junks, JunkOnly
<1>4. new \in [DOMAIN c -> Cell]
  BY <1>2 DEF Cell
<1>5. \A i \in DOMAIN c : new[i].fd = c[i].fd /\ new[i].sock = c[i].sock
  BY <1>2 DEF Cell
<1>6. ASSUME NEW i \in DOMAIN c, ~c[i].unused
      PROVE  First(i, holds) <=> c[i].fd = fd
  <2>1. c[i].fd # Junk
    BY <1>6 DEF PoolOK, Junk, FdsNat
  <2>2. i \in holds <=> c[i].fd = fd
    BY <1>3, <2>1
  <2>3. ASSUME c[i].fd = fd, NEW j \in holds
        PROVE  i <= j
    <3>1. j \in DOMAIN c /\ (c[j].fd = fd \/ c[j].fd = Junk)
      BY <1>3
    <3>2. ~(j < i)
      BY <1>6, <2>3, <3>1 DEF PoolOK
    <3> QED
      BY <1>2, <3>1, <3>2
  <2> QED
    BY <2>2, <2>3 DEF First
<1>7. \A i \in DOMAIN c : ~new[i].unused <=> ~c[i].unused /\ c[i].fd \notin {fd}
  BY <1>2, <1>6 DEF Cell
<1> DEFINE fds == {fd}
<1>8. Freed(new, c, fds)
  BY <1>4, <1>5, <1>7 DEF Freed
<1> HIDE DEF new, fds
<1>9. /\ PoolOK(new, rows)
      /\ Numbered(new, m)
      /\ LiveSocks(new) = LiveSocks(c) \ SocksFor(c, fds)
  BY <1>8, ClosedOK
<1> QED
  BY <1>1, <1>9 DEF fds

\* open_all_comm_files leaves a cell for each row.
LEMMA OpenedAllOK ==
  ASSUME NEW n \in Nodes, NEW failed \in SUBSET DOMAIN Records[n],
         NEW size \in Len(Records[n]) .. Len(Records[n]) + Granularity
  PROVE  /\ PoolOK(OpenedAll(Records[n], size, failed), Rows(n))
         /\ Numbered(OpenedAll(Records[n], size, failed), Len(Records[n]))
         /\ LiveSocks(OpenedAll(Records[n], size, failed)) = DOMAIN Records[n] \ failed
         /\ Len(Records[n]) \in Nat
<1> DEFINE rows == Records[n]
           new == OpenedAll(rows, size, failed)
<1>1. rows \in Seq([fd : Nat, fmode : {"r", "w"}, endpoint : Ends]) /\ Granularity \in Nat
  BY NetworkAssumption
<1>2. Len(rows) \in Nat /\ DOMAIN rows = 1 .. Len(rows) /\ size \in Nat /\ Len(rows) <= size
  BY <1>1, LenProperties
<1>3. \A i \in 1 .. Len(rows) : rows[i].fd \in Nat
  <2> SUFFICES ASSUME NEW i \in 1 .. Len(rows) PROVE rows[i].fd \in Nat
    OBVIOUS
  <2>1. rows[i] \in [fd : Nat, fmode : {"r", "w"}, endpoint : Ends]
    BY <1>1, ElementOfSeq
  <2> QED
    BY <2>1
<1>4. \A i, j \in 1 .. Len(rows) : rows[i].fd = rows[j].fd => i = j
  BY <1>2, NetworkAssumption
<1>5. /\ DOMAIN new = 1 .. size
      /\ \A i \in 1 .. Len(rows) : /\ new[i].fd = rows[i].fd
                                   /\ new[i].sock = IF i \in failed THEN 0 ELSE i
                                   /\ ~new[i].unused
      /\ \A i \in 1 .. size : i > Len(rows) => new[i].unused /\ new[i].sock = 0
  BY <1>2 DEF OpenedAll, UsedCell, UnusedCell
<1>6. new \in [1 .. size -> Cell]
  <2>1. \A i \in 1 .. Len(rows), k \in Nat : UsedCell(rows[i].fd, k) \in Cell
    BY <1>3 DEF UsedCell, Cell
  <2>2. UnusedCell(0) \in Cell /\ UnusedCell(Junk) \in Cell
    BY DEF UnusedCell, Cell, Junk
  <2> QED
    BY <1>1, <1>2, <2>1, <2>2 DEF OpenedAll
<1>7. new \in Seq(Cell)
  BY <1>2, <1>6, FunctionIsSeq
<1> HIDE DEF new, rows
<1>8. PoolOK(new, Rows(n))
  <2>1. \A i \in DOMAIN new : ~new[i].unused => \E r \in Rows(n) : r.fd = new[i].fd
    BY <1>2, <1>5 DEF Rows, rows
  <2>2. ASSUME NEW i \in DOMAIN new, NEW j \in DOMAIN new, j < i, ~new[i].unused
        PROVE  new[j].fd # new[i].fd /\ new[j].fd # Junk
    <3>1. i \in 1 .. Len(rows) /\ j \in 1 .. Len(rows)
      BY <1>2, <1>5, <2>2
    <3>2. new[i].fd = rows[i].fd /\ new[j].fd = rows[j].fd
      BY <1>5, <3>1
    <3>3. rows[i].fd # rows[j].fd
      BY <1>4, <2>2, <3>1
    <3>4. rows[j].fd # Junk
      BY <1>3, <3>1 DEF Junk
    <3> QED
      BY <3>2, <3>3, <3>4
  <2> QED
    BY <1>7, <2>1, <2>2 DEF PoolOK
<1>9. Numbered(new, Len(rows))
  <2>1. ASSUME NEW i \in DOMAIN new
        PROVE  /\ new[i].sock \in 0 .. Len(rows)
               /\ new[i].sock # 0 => new[i].sock = i
    <3>1. CASE i \in 1 .. Len(rows)
      BY <1>2, <1>5, <3>1
    <3>2. CASE i \notin 1 .. Len(rows)
      <4>1. i \in 1 .. size /\ i > Len(rows)
        BY <1>2, <1>5, <3>2
      <4> QED
        BY <1>2, <1>5, <4>1
    <3> QED
      BY <3>1, <3>2
  <2> QED
    BY <2>1 DEF Numbered
<1>10. LiveSocks(new) = DOMAIN rows \ failed
  <2>1. \A i \in DOMAIN new : ~new[i].unused /\ new[i].sock # 0
                                => i \in DOMAIN rows \ failed /\ new[i].sock = i
    BY <1>2, <1>5
  <2>2. \A i \in DOMAIN rows \ failed : i \in DOMAIN new /\ ~new[i].unused /\ new[i].sock = i /\ i # 0
    BY <1>2, <1>5
  <2> QED
    BY <2>1, <2>2 DEF LiveSocks
<1> QED
  BY <1>2, <1>8, <1>9, <1>10 DEF new, rows

----------------------------------------------------------------------------
(* The pools of all nodes.                                                 *)

Statuses == {"run", "waiting", "done", "dead"}

NodeOK(n, s, c, a, k) ==
  /\ s \in Statuses
  /\ k \in Nat
  /\ PoolOK(c, Rows(n))
  /\ Numbered(c, k)
  /\ a = IF s = "dead" THEN {} ELSE LiveSocks(c)
  /\ s = "done" => a = {}

\* LiveCellFirst and SocketsAccounted, with what they need: a cell in use is
\* for a row of the node, and the sockets are numbered as they are made.
PoolInv ==
  /\ status \in [Nodes -> Statuses]
  /\ cells \in [Nodes -> Seq(Cell)]
  /\ alive \in [Nodes -> SUBSET Nat]
  /\ made \in [Nodes -> Nat]
  /\ \A n \in Nodes : NodeOK(n, status[n], cells[n], alive[n], made[n])

LEMMA LiveSocksNat ==
  ASSUME NEW c \in Seq(Cell)
  PROVE  LiveSocks(c) \subseteq Nat
<1>1. \A i \in DOMAIN c : c[i] \in Cell
  BY LenProperties, ElementOfSeq
<1> QED
  BY <1>1 DEF LiveSocks, Cell

\* A step of node n leaves the other nodes' pools alone.
LEMMA PoolStep ==
  ASSUME PoolInv, NEW n \in Nodes,
         status' = [status EXCEPT ![n] = status'[n]],
         cells' = [cells EXCEPT ![n] = cells'[n]],
         alive' = [alive EXCEPT ![n] = alive'[n]],
         made' = [made EXCEPT ![n] = made'[n]],
         NodeOK(n, status'[n], cells'[n], alive'[n], made'[n])
  PROVE  PoolInv'
<1>1. status' \in [Nodes -> Statuses] /\ made' \in [Nodes -> Nat]
  BY DEF PoolInv, NodeOK
<1>2. cells'[n] \in Seq(Cell)
  BY DEF NodeOK, PoolOK
<1>3. cells' \in [Nodes -> Seq(Cell)]
  BY <1>2 DEF PoolInv
<1>4. alive'[n] \subseteq Nat
  BY <1>2, LiveSocksNat DEF NodeOK
<1>5. alive' \in [Nodes -> SUBSET Nat]
  BY <1>4 DEF PoolInv
<1>6. ASSUME NEW m \in Nodes
      PROVE  NodeOK(m, status'[m], cells'[m], alive'[m], made'[m])
  <2>1. CASE m = n
    BY <2>1
  <2>2. CASE m # n
    <3>1. status'[m] = status[m] /\ cells'[m] = cells[m] /\ alive'[m] = alive[m] /\ made'[m] = made[m]
      BY <2>2 DEF PoolInv
    <3>2. NodeOK(m, status[m], cells[m], alive[m], made[m])
      BY DEF PoolInv
    <3> QED
      BY <3>1, <3>2
  <2> QED
    BY <2>1, <2>2
<1> QED
  BY <1>1, <1>3, <1>5, <1>6 DEF PoolInv

LEMMA DiesPool ==
  ASSUME PoolInv, NEW n \in Nodes, Dies(n)
  PROVE  PoolInv'
<1>1. NodeOK(n, status[n], cells[n], alive[n], made[n])
  BY DEF PoolInv
<1>2. /\ status' = [status EXCEPT ![n] = "dead"] /\ status'[n] = "dead"
      /\ alive' = [alive EXCEPT ![n] = {}] /\ alive'[n] = {}
      /\ cells' = cells /\ made' = made
  BY DEF Dies, PoolInv
<1>3. NodeOK(n, status'[n], cells'[n], alive'[n], made'[n])
  BY <1>1, <1>2 DEF NodeOK, Statuses
<1>4. cells' = [cells EXCEPT ![n] = cells'[n]] /\ made' = [made EXCEPT ![n] = made'[n]]
  BY <1>2 DEF PoolInv
<1> QED
  BY <1>2, <1>3, <1>4, PoolStep

\* A node that is not dead goes on, its pool as it was.
LEMMA QuietPool ==
  ASSUME PoolInv, NEW n \in Nodes, status[n] \in {"run", "waiting"},
         NEW s \in {"run", "waiting"},
         status' = [status EXCEPT ![n] = s],
         UNCHANGED pool
  PROVE  PoolInv'
<1>1. NodeOK(n, status[n], cells[n], alive[n], made[n])
  BY DEF PoolInv
<1>2. status'[n] = s /\ cells' = cells /\ alive' = alive /\ made' = made
  BY DEF PoolInv, pool
<1>3. NodeOK(n, status'[n], cells'[n], alive'[n], made'[n])
  BY <1>1, <1>2 DEF NodeOK, Statuses
<1>4. /\ cells' = [cells EXCEPT ![n] = cells'[n]] /\ made' = [made EXCEPT ![n] = made'[n]]
      /\ alive' = [alive EXCEPT ![n] = alive'[n]]
  BY <1>2 DEF PoolInv
<1> QED
  BY <1>2, <1>3, <1>4, PoolStep

\* No socket has been made, so none is open.
LEMMA NoneMade ==
  ASSUME NEW c, Numbered(c, 0)
  PROVE  LiveSocks(c) = {}
BY DEF Numbered, LiveSocks

LEMMA RunIsStatus ==
  "run" \in Statuses \ {"dead"} /\ "done" \in Statuses \ {"dead"}
BY DEF Statuses

\* What a node whose pool becomes c, with k sockets made, must show.
LEMMA ChangedPool ==
  ASSUME PoolInv, NEW n \in Nodes, NEW s \in Statuses \ {"dead"}, NEW c, NEW a, NEW k \in Nat,
         status' = [status EXCEPT ![n] = s],
         cells' = [cells EXCEPT ![n] = c],
         alive' = [alive EXCEPT ![n] = a],
         made' = [made EXCEPT ![n] = k],
         PoolOK(c, Rows(n)), Numbered(c, k), a = LiveSocks(c), s = "done" => a = {}
  PROVE  PoolInv'
<1>1. status'[n] = s /\ cells'[n] = c /\ alive'[n] = a /\ made'[n] = k
  BY DEF PoolInv
<1>2. NodeOK(n, s, c, a, k)
  BY DEF NodeOK
<1> QED
  BY <1>1, <1>2, PoolStep

LEMMA InitNetworkingPool ==
  ASSUME PoolInv, NEW n \in Nodes, NEW c, InitNetworking(n, c)
  PROVE  PoolInv'
<1> DEFINE rows == Records[n]
<1>1. NodeOK(n, status[n], cells[n], alive[n], made[n]) /\ status[n] = "run" /\ made[n] = 0
  BY DEF PoolInv, InitNetworking, Call
<1>2. CASE /\ \E size \in Len(rows) .. Len(rows) + Granularity,
                 failed \in {{}} \union {{i} : i \in DOMAIN rows} :
                /\ Size(rows, size)
                /\ cells' = [cells EXCEPT ![n] = OpenedAll(rows, size, failed)]
                /\ alive' = [alive EXCEPT ![n] = DOMAIN rows \ failed]
                /\ IF failed = {} THEN UNCHANGED faults ELSE Fault("socket")
           /\ made' = [made EXCEPT ![n] = Len(rows)]
           /\ Goes(n, "run")
  <2>1. PICK size \in Len(rows) .. Len(rows) + Granularity,
             failed \in {{}} \union {{i} : i \in DOMAIN rows} :
          /\ cells' = [cells EXCEPT ![n] = OpenedAll(rows, size, failed)]
          /\ alive' = [alive EXCEPT ![n] = DOMAIN rows \ failed]
    BY <1>2
  <2>2. failed \in SUBSET DOMAIN rows
    OBVIOUS
  <2>3. /\ PoolOK(OpenedAll(rows, size, failed), Rows(n))
        /\ Numbered(OpenedAll(rows, size, failed), Len(rows))
        /\ LiveSocks(OpenedAll(rows, size, failed)) = DOMAIN rows \ failed
        /\ Len(rows) \in Nat
    BY <2>2, OpenedAllOK
  <2>4. status' = [status EXCEPT ![n] = "run"] /\ made' = [made EXCEPT ![n] = Len(rows)]
    BY <1>2 DEF Goes
  <2> HIDE DEF rows
  <2> QED
    BY <2>1, <2>3, <2>4, RunIsStatus, ChangedPool
<1>3. CASE /\ made' = [made EXCEPT ![n] = Len(rows)]
           /\ Goes(n, "run")
           /\ UNCHANGED <<cells, alive>>
  <2>1. Len(rows) \in Nat
    BY NetworkAssumption, LenProperties
  <2>2. Numbered(cells[n], Len(rows))
    <3> DEFINE k == Len(rows)
    <3>1. k \in Nat /\ Numbered(cells[n], 0)
      BY <1>1, <2>1 DEF NodeOK
    <3> HIDE DEF k
    <3>2. Numbered(cells[n], k)
      BY <3>1 DEF Numbered
    <3> QED
      BY <3>2 DEF k
  <2>3. /\ status' = [status EXCEPT ![n] = "run"]
        /\ cells' = [cells EXCEPT ![n] = cells[n]]
        /\ alive' = [alive EXCEPT ![n] = alive[n]]
    BY <1>3 DEF Goes, PoolInv
  <2>4. PoolOK(cells[n], Rows(n)) /\ alive[n] = LiveSocks(cells[n])
    BY <1>1 DEF NodeOK
  <2> HIDE DEF rows
  <2> QED
    BY <1>3, <2>1, <2>2, <2>3, <2>4, RunIsStatus, ChangedPool
<1>4. CASE Dies(n)
  BY <1>4, DiesPool
<1> QED
  BY <1>2, <1>3, <1>4 DEF InitNetworking

LEMMA InitPoolPool ==
  ASSUME PoolInv, NEW n \in Nodes, NEW c, InitPool(n, c)
  PROVE  PoolInv'
<1>1. NodeOK(n, status[n], cells[n], alive[n], made[n]) /\ status[n] = "run" /\ made[n] = 0
  BY DEF PoolInv, InitPool, Call
<1>2. /\ status' = [status EXCEPT ![n] = "run"]
      /\ cells' = [cells EXCEPT ![n] = FreshPool]
      /\ alive' = [alive EXCEPT ![n] = alive[n]]
      /\ made' = [made EXCEPT ![n] = 0]
  BY <1>1 DEF InitPool, Goes, PoolInv
<1>3. alive[n] = {}
  BY <1>1, NoneMade DEF NodeOK
<1>4. Granularity \in Nat
  BY NetworkAssumption
<1>5. FreshPool \in [1 .. Granularity -> Cell]
  BY DEF FreshPool, UnusedCell, Cell
<1>6. FreshPool \in Seq(Cell) /\ DOMAIN FreshPool = 1 .. Granularity
  BY <1>4, <1>5, FunctionIsSeq
<1>7. \A i \in DOMAIN FreshPool : FreshPool[i].unused /\ FreshPool[i].sock = 0
  BY <1>6 DEF FreshPool, UnusedCell
<1>8. PoolOK(FreshPool, Rows(n)) /\ Numbered(FreshPool, 0) /\ LiveSocks(FreshPool) = {}
  BY <1>6, <1>7 DEF PoolOK, Numbered, LiveSocks
<1> QED
  BY <1>2, <1>3, <1>8, RunIsStatus, ChangedPool

LEMMA OpenPool ==
  ASSUME PoolInv, NEW n \in Nodes, NEW c, Open(n, c)
  PROVE  PoolInv'
<1>1. NodeOK(n, status[n], cells[n], alive[n], made[n]) /\ status[n] = "run"
  BY DEF PoolInv, Open, Call
<1>2. PoolOK(cells[n], Rows(n)) /\ made[n] \in Nat /\ Numbered(cells[n], made[n])
        /\ alive[n] = LiveSocks(cells[n])
  BY <1>1 DEF NodeOK
<1>3. CASE Opened(n, c.fd) \/ ~\E r \in Rows(n) : r.fd = c.fd
  <2>1. status' = [status EXCEPT ![n] = "run"] /\ UNCHANGED pool
    BY <1>3 DEF Open, Goes
  <2> QED
    BY <1>1, <2>1, QuietPool
<1>4. ASSUME ~Opened(n, c.fd), NEW r \in Rows(n), r.fd = c.fd
      PROVE  PoolInv'
  <2>1. c.fd \in Nat /\ \A s \in Rows(n) : s.fd \in Nat
    BY <1>4, RowsFd
  <2>2. \A i \in DOMAIN cells[n] : ~InUse(cells[n], i, c.fd)
    BY <1>4 DEF Opened
  <2>3. Granularity \in Nat \ {0}
    BY NetworkAssumption
  <2>4. ASSUME NEW sock \in Nat, NEW k \in Nat,
               (sock = 0 /\ k = made[n]) \/ (sock = made[n] + 1 /\ k = made[n] + 1)
        PROVE  /\ PoolOK(Added(cells[n], c.fd, sock), Rows(n))
               /\ Numbered(Added(cells[n], c.fd, sock), k)
               /\ LiveSocks(Added(cells[n], c.fd, sock)) = LiveSocks(cells[n]) \union ({sock} \ {0})
    <3> DEFINE old == cells[n]
               fd == c.fd
               rows == Rows(n)
               m == made[n]
    <3>1. /\ PoolOK(old, rows) /\ m \in Nat /\ Numbered(old, m)
          /\ fd \in Nat /\ r \in rows /\ r.fd = fd /\ \A s \in rows : s.fd \in Nat
          /\ \A i \in DOMAIN old : ~InUse(old, i, fd)
          /\ (sock = 0 /\ k = m) \/ (sock = m + 1 /\ k = m + 1)
      BY <1>2, <1>4, <2>1, <2>2, <2>4
    <3> HIDE DEF old, fd, rows, m
    <3>2. /\ PoolOK(Added(old, fd, sock), rows)
          /\ Numbered(Added(old, fd, sock), k)
          /\ LiveSocks(Added(old, fd, sock)) = LiveSocks(old) \union ({sock} \ {0})
      BY <2>3, <3>1, AddedOK
    <3> QED
      BY <3>2 DEF old, fd, rows, m
  <2>5. CASE /\ made' = [made EXCEPT ![n] = @ + 1]
             /\ cells' = [cells EXCEPT ![n] = Added(@, c.fd, made[n] + 1)]
             /\ alive' = [alive EXCEPT ![n] = @ \union {made[n] + 1}]
             /\ Goes(n, "run")
    <3> DEFINE k == made[n] + 1
               new == Added(cells[n], c.fd, k)
    <3>1. /\ status' = [status EXCEPT ![n] = "run"]
          /\ made' = [made EXCEPT ![n] = k]
          /\ cells' = [cells EXCEPT ![n] = new]
          /\ alive' = [alive EXCEPT ![n] = alive[n] \union {k}]
      BY <2>5 DEF Goes, PoolInv
    <3>2. k \in Nat /\ k # 0 /\ k = made[n] + 1
      BY <1>2
    <3>3. PoolOK(new, Rows(n)) /\ Numbered(new, k) /\ LiveSocks(new) = alive[n] \union {k}
      BY <1>2, <2>4, <3>2
    <3> HIDE DEF k, new
    <3> QED
      BY <3>1, <3>2, <3>3, RunIsStatus, ChangedPool
  <2>6. CASE /\ cells' = [cells EXCEPT ![n] = Added(@, c.fd, 0)]
             /\ Goes(n, "run")
             /\ UNCHANGED <<alive, made>>
    <3> DEFINE new == Added(cells[n], c.fd, 0)
               k == made[n]
               socks == alive[n]
    <3>1. /\ status' = [status EXCEPT ![n] = "run"]
          /\ made' = [made EXCEPT ![n] = k]
          /\ cells' = [cells EXCEPT ![n] = new]
          /\ alive' = [alive EXCEPT ![n] = socks]
      BY <2>6 DEF Goes, PoolInv
    <3>2. /\ PoolOK(new, Rows(n)) /\ Numbered(new, k)
          /\ LiveSocks(new) = LiveSocks(cells[n]) \union ({0} \ {0})
      <4> DEFINE null == 0
      <4>1. null \in Nat /\ k \in Nat /\ null = 0 /\ k = made[n]
        BY <1>2
      <4> HIDE DEF null, k
      <4>2. /\ PoolOK(Added(cells[n], c.fd, null), Rows(n))
            /\ Numbered(Added(cells[n], c.fd, null), k)
            /\ LiveSocks(Added(cells[n], c.fd, null)) = LiveSocks(cells[n]) \union ({null} \ {0})
        BY <2>4, <4>1
      <4> QED
        BY <4>2 DEF null
    <3>3. LiveSocks(new) = socks /\ k \in Nat
      BY <1>2, <3>2
    <3> HIDE DEF new, k, socks
    <3> QED
      BY <3>1, <3>2, <3>3, RunIsStatus, ChangedPool
  <2>7. CASE Goes(n, "run") /\ UNCHANGED pool
    BY <1>1, <2>7, QuietPool DEF Goes
  <2>8. CASE Dies(n)
    BY <2>8, DiesPool
  <2> QED
    BY <1>4, <2>5, <2>6, <2>7, <2>8 DEF Open
<1> QED
  BY <1>3, <1>4

LEMMA ClosePool ==
  ASSUME PoolInv, NEW n \in Nodes, NEW c, Close(n, c)
  PROVE  PoolInv'
<1> DEFINE fd == c.fd
           old == cells[n]
           rows == Rows(n)
           k == made[n]
           closed == SocksFor(old, {fd})
<1>1. NodeOK(n, status[n], cells[n], alive[n], made[n]) /\ status[n] = "run"
  BY DEF PoolInv, Close, Call
<1>2. PoolOK(old, rows) /\ k \in Nat /\ Numbered(old, k) /\ alive[n] = LiveSocks(old)
  BY <1>1 DEF NodeOK
<1>3. PICK junk \in SUBSET Junks(old) : cells' = [cells EXCEPT ![n] = Removed(old, fd, junk)]
  BY DEF Close, PoolInv
<1>4. /\ status' = [status EXCEPT ![n] = "run"]
      /\ made' = [made EXCEPT ![n] = k]
      /\ alive' = [alive EXCEPT ![n] = LiveSocks(old) \ closed]
  BY <1>2 DEF Close, Goes, Hangup, Socks, SocksFor, PoolInv
<1>5. FdsNat(rows) /\ JunkOnly(old, junk)
  BY RowsFd DEF FdsNat, JunkOnly
<1> HIDE DEF fd, old, rows, k, closed
<1>6. /\ PoolOK(Removed(old, fd, junk), rows)
      /\ Numbered(Removed(old, fd, junk), k)
      /\ LiveSocks(Removed(old, fd, junk)) = LiveSocks(old) \ closed
  BY <1>2, <1>5, RemovedOK DEF closed
<1> DEFINE new == Removed(old, fd, junk)
           socks == LiveSocks(old) \ closed
<1>7. /\ PoolOK(new, Rows(n)) /\ Numbered(new, k) /\ socks = LiveSocks(new)
      /\ cells' = [cells EXCEPT ![n] = new]
      /\ alive' = [alive EXCEPT ![n] = socks]
      /\ status' = [status EXCEPT ![n] = "run"]
      /\ made' = [made EXCEPT ![n] = k] /\ k \in Nat
  BY <1>2, <1>3, <1>4, <1>6 DEF rows
<1> HIDE DEF new, socks
<1> QED
  BY <1>7, RunIsStatus, ChangedPool

LEMMA TermPool ==
  ASSUME PoolInv, NEW n \in Nodes, NEW c, TermNetworking(n, c)
  PROVE  PoolInv'
<1>1. NodeOK(n, status[n], cells[n], alive[n], made[n]) /\ status[n] = "run"
  BY DEF PoolInv, TermNetworking, Call
<1>2. CASE Dies(n)
  BY <1>2, DiesPool
<1>3. CASE /\ cells' = [cells EXCEPT ![n] = [i \in DOMAIN @ |-> [@[i] EXCEPT !.unused = TRUE]]]
           /\ Hangup(n, {r.fd : r \in Rows(n)})
           /\ Goes(n, "done")
  <2> DEFINE old == cells[n]
             rows == Rows(n)
             k == made[n]
             fds == {r.fd : r \in rows}
             closed == SocksFor(old, fds)
             new == [i \in DOMAIN old |-> [old[i] EXCEPT !.unused = TRUE]]
  <2>1. PoolOK(old, rows) /\ k \in Nat /\ Numbered(old, k) /\ alive[n] = LiveSocks(old)
    BY <1>1 DEF NodeOK
  <2>2. /\ status' = [status EXCEPT ![n] = "done"]
        /\ cells' = [cells EXCEPT ![n] = new]
        /\ made' = [made EXCEPT ![n] = k]
        /\ alive' = [alive EXCEPT ![n] = LiveSocks(old) \ closed]
    BY <1>3, <2>1 DEF Goes, Hangup, Socks, SocksFor, PoolInv
  <2>3. \A i \in DOMAIN old : old[i] \in Cell
    BY <2>1, LenProperties, ElementOfSeq DEF PoolOK
  <2>4. /\ new \in [DOMAIN old -> Cell]
        /\ \A i \in DOMAIN old : new[i].fd = old[i].fd /\ new[i].sock = old[i].sock
    BY <2>3 DEF Cell
  <2>5. \A i \in DOMAIN old : new[i].unused
    BY <2>3 DEF Cell
  <2>6. new \in Seq(Cell) /\ DOMAIN new = DOMAIN old
    BY <2>1, <2>4, LenProperties, FunctionIsSeq DEF PoolOK
  <2>7. LiveSocks(new) = {}
    BY <2>6, <2>5 DEF LiveSocks
  <2>8. PoolOK(new, rows)
    <3> HIDE DEF old, rows, new
    <3> QED
      BY <2>6, <2>5 DEF PoolOK
  <2>9. Numbered(new, k)
    <3> HIDE DEF old, k, new
    <3> QED
      BY <2>1, <2>4, <2>6, <2>5 DEF Numbered
  <2>10. LiveSocks(old) \ closed = {}
    <3> HIDE DEF old, rows
    <3> QED
      BY <2>1 DEF PoolOK, LiveSocks, SocksFor
  <2> HIDE DEF old, k, fds, new, closed
  <2> DEFINE none == {}
  <2>11. /\ PoolOK(new, Rows(n)) /\ Numbered(new, k) /\ none = LiveSocks(new) /\ none = {}
         /\ alive' = [alive EXCEPT ![n] = none]
         /\ cells' = [cells EXCEPT ![n] = new]
         /\ status' = [status EXCEPT ![n] = "done"]
         /\ made' = [made EXCEPT ![n] = k] /\ k \in Nat
    BY <2>1, <2>2, <2>7, <2>8, <2>9, <2>10
  <2> HIDE DEF none
  <2> QED
    BY <2>11, RunIsStatus, ChangedPool
<1> QED
  BY <1>2, <1>3 DEF TermNetworking

LEMMA TransferPool ==
  ASSUME PoolInv, NEW n \in Nodes, NEW c, Read(n, c) \/ Receive(n, c) \/ Write(n, c)
  PROVE  PoolInv'
<1>1. CASE Dies(n)
  BY <1>1, DiesPool
<1>2. CASE ~Dies(n)
  <2>1. status[n] \in {"run", "waiting"}
    BY DEF Read, Receive, Write, Call
  <2>2. PICK s \in {"run", "waiting"} : status' = [status EXCEPT ![n] = s] /\ UNCHANGED pool
    BY <1>2 DEF Read, Receive, Write, Unusable, Goes
  <2> QED
    BY <2>1, <2>2, QuietPool
<1> QED
  BY <1>1, <1>2

LEMMA PoolNext ==
  PoolInv /\ [Next]_vars => PoolInv'
<1> SUFFICES ASSUME PoolInv, [Next]_vars PROVE PoolInv'
  OBVIOUS
<1>1. ASSUME NEW n \in Nodes, Step(n) PROVE PoolInv'
  BY <1>1, InitNetworkingPool, InitPoolPool, OpenPool, ClosePool, TermPool, TransferPool DEF Step
<1>2. ASSUME NEW e \in Ends, Lose(e) PROVE PoolInv'
  BY <1>2 DEF Lose, pool, PoolInv
<1>3. CASE UNCHANGED vars
  BY <1>3 DEF vars, pool, PoolInv
<1> QED
  BY <1>1, <1>2, <1>3 DEF Next

LEMMA PoolInit ==
  Init => PoolInv
<1> SUFFICES ASSUME Init PROVE PoolInv
  OBVIOUS
<1>1. <<>> \in Seq(Cell) /\ DOMAIN <<>> = {}
  OBVIOUS
<1>2. \A n \in Nodes : NodeOK(n, "run", <<>>, {}, 0)
  BY <1>1 DEF NodeOK, PoolOK, Numbered, LiveSocks, Statuses
<1> QED
  BY <1>1, <1>2 DEF Init, PoolInv, Statuses

LEMMA PoolAlways ==
  Spec => []PoolInv
BY PoolInit, PoolNext, PTL DEF Spec

\* In no pool does a cell before one in use hold its descriptor, or hold
\* nothing known: remove_sockf_from_array_by_fd finds the right cell.
THEOREM FirstCellIsLive ==
  Spec => []LiveCellFirst
<1>1. PoolInv => LiveCellFirst
  BY DEF PoolInv, NodeOK, PoolOK, LiveCellFirst
<1> QED
  BY <1>1, PoolAlways, PTL

\* The sockets a process has open are those its pool shows, and a process
\* that went through close_all_comm_files has none.
THEOREM SocketsAreAccounted ==
  Spec => []SocketsAccounted
<1>1. PoolInv => SocketsAccounted
  BY DEF PoolInv, NodeOK, LiveSocks, SocketsAccounted
<1> QED
  BY <1>1, PoolAlways, PTL
=============================================================================
