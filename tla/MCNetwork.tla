----------------------------- MODULE MCNetwork ------------------------------
(***************************************************************************)
(* An instance of Network for TLC: the distributed sort on two sources and *)
(* two destinations, the two nodes "test1" and "test2" of the channels     *)
(* table exchanging a transfer of any lengths each way, and a caller of    *)
(* the pool's own interface that opens and closes as it likes.             *)
(***************************************************************************)
EXTENDS Network, Disort

CONSTANTS
  Rounds,        \* rounds of detailed histograms
  PoolCalls      \* bound: calls of the caller that drives the pool

Test1 == 21
Test2 == 22
Tester == 23

SortAndTestNodes == DisortNodes \union {Test1, Test2, Tester}

\* The tester opens three of the channels; its peers do not take part.
TestRows ==
  (Test1 :> << Row(<<"testa">>, "r", 3), Row(<<"testb">>, "w", 4) >>)
    @@ (Test2 :> << Row(<<"testb">>, "r", 3), Row(<<"testa">>, "w", 4) >>)
    @@ (Tester :> << Row(<<"file", 3>>, "w", 3), Row(<<"file", 4>>, "r", 4),
                     Row(<<"file", 5>>, "w", 5) >>)

ChannelsTable == TestRows @@ [n \in DisortNodes |-> DisortRows(n)]

Endpoints ==
  UNION {{ChannelsTable[n][i].endpoint : i \in DOMAIN ChannelsTable[n]} : n \in SortAndTestNodes}

CallsOf(op, fds, sizes) ==
  {[op |-> op, fd |-> fd, size |-> size, exact |-> FALSE] : fd \in fds, size \in sizes}

Idle == [n \in Nodes |-> <<>>]

Sorting == {[n \in Nodes |-> IF n \in DisortNodes THEN DisortProgram(n, rounds) ELSE <<>>] :
              rounds \in Rounds}

Exchange ==
  LET reads == CallsOf("read", {3}, 0 .. MaxSize)
      writes == CallsOf("write", {4}, 0 .. MaxSize)
  IN  [Idle EXCEPT ![Test1] = Session(<<reads, writes>>),
                   ![Test2] = Session(<<writes, reads \union CallsOf("read", {4}, {1})>>)]

Driving ==
  LET calls == CallsOf("open", {3, 4, 5, 9}, {0}) \union CallsOf("close", {3, 4, 5}, {0})
  IN  [Idle EXCEPT ![Tester] = <<Do("pool")>> \o [i \in 1 .. PoolCalls |-> calls]]

SortAndTests == Sorting \union {Exchange, Driving}

\* The values the configuration gives the constants.  (TLC evaluates a
\* definition once, but not one that a constant is replaced by.)
MCNodes == SortAndTestNodes
MCRecords == ChannelsTable
MCEnds == Endpoints
MCPrograms == SortAndTests

\* OpenedAll is what opening the rows one by one makes of a fresh pool, and
\* closing them one by one frees every cell, as TermNetworking says.
ASSUME OneByOne ==
  \A n \in MCNodes :
    LET rows == MCRecords[n]
        opened == FoldLeft(LAMBDA c, i : Added(c, rows[i].fd, i), FreshPool,
                           [i \in DOMAIN rows |-> i])
        closed == FoldLeft(LAMBDA c, r : Removed(c, r.fd, {}), opened, rows)
    IN  /\ Size(rows, Len(opened))
        /\ OpenedAll(rows, Len(opened), {}) = opened
        /\ \A i \in DOMAIN closed : closed[i].unused
=============================================================================
