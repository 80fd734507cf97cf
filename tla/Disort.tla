------------------------------- MODULE Disort -------------------------------
(***************************************************************************)
(* The distributed sort of samples/disort, as the calls its programs make  *)
(* on their channels, and the channels as zerovm_config.sql lists them.  A *)
(* manager, SrcNodes source nodes and as many destination nodes.  What the *)
(* messages say, and with it the analysis of the histograms, is left out:  *)
(* its outcome, the number of rounds of detailed histograms it asks for,   *)
(* is a parameter, and the arrays it deals in have a length of their own.  *)
(***************************************************************************)
EXTENDS Integers, Sequences, SequencesExt

CONSTANT SrcNodes   \* SRC_NODES_COUNT

Ids == 1 .. SrcNodes
Manager == 1
Source(i) == 1 + i          \* FIRST_SOURCE_NODEID is 2
Dest(i) == 11 + i           \* FIRST_DEST_NODEID is 12

DisortNodes == {Manager} \union {Source(i) : i \in Ids} \union {Dest(i) : i \in Ids}

----------------------------------------------------------------------------
(* The channels table and the descriptors of defines.h.                    *)

Row(endpoint, fmode, fd) == [endpoint |-> endpoint, fmode |-> fmode, fd |-> fd]

\* One row for each source (or destination) i, at consecutive descriptors.
RowPer(name, fmode, fd) == [i \in Ids |-> Row(<<name, i>>, fmode, fd + i - 1)]

SourceRows(i) ==
  << Row(<<"histograms", i>>, "w", 3), Row(<<"detailed_req", i>>, "w", 4),
     Row(<<"detailed_rep", i>>, "r", 5), Row(<<"range-request", i>>, "r", 6) >>
    \o [j \in Ids |-> Row(<<"ranges", i, j>>, "w", 6 + j)]
    \o << Row(<<"crc", i>>, "w", 17) >>

DestRows(j) ==
  [i \in Ids |-> Row(<<"ranges", i, j>>, "r", 2 + i)] \o << Row(<<"sort-result", j>>, "w", 13) >>

ManagerRows ==
  RowPer("histograms", "r", 3) \o RowPer("detailed_rep", "w", 13)
    \o RowPer("detailed_req", "r", 23) \o RowPer("range-request", "w", 33)
    \o RowPer("sort-result", "r", 43) \o RowPer("crc", "r", 53)

DisortRows(n) ==
  IF n = Manager THEN ManagerRows
  ELSE IF n < Dest(1) THEN SourceRows(n - 1) ELSE DestRows(n - 11)

----------------------------------------------------------------------------
(* The programs.                                                           *)

Do(op) == {[op |-> op, fd |-> 0, size |-> 0, exact |-> FALSE]}

\* read_channel and write_channel
read(fd, size) == {[op |-> "read", fd |-> fd, size |-> size, exact |-> TRUE]}
write(fd, size) == {[op |-> "write", fd |-> fd, size |-> size, exact |-> TRUE]}

\* Lengths: an int, a structure, an array.  That they differ tells a message
\* taken for another.
Word == 1
Struct == 2
Array == 3

Repeat(times, calls) == FlattenSeq([i \in 1 .. times |-> calls])

\* The calls a loop over the nodes makes, calls(i) in its i-th pass.
ForEach(calls(_)) == FlattenSeq([i \in Ids |-> calls(i)])

\* A node's session: the runtime opens its channels, main runs, the runtime
\* closes them.
Session(main) == <<Do("init")>> \o main \o <<Do("term")>>

----------------------------------------------------------------------------
(* source                                                                  *)

write_crc == << write(17, Word) >>

write_histogram == << write(3, Struct), write(3, Array) >>

\* One pass of the loop, which goes on until a request says it is the last.
read_requests_write_detailed_histograms ==
  << read(5, Struct), read(5, Word), write(4, Word), write(4, Word), write(4, Array) >>

read_range_request == << read(6, Struct) >> \o Repeat(SrcNodes, << read(6, Struct) >>)

\* To each destination in the order of their ids.
write_sorted_ranges ==
  ForEach(LAMBDA j : << write(6 + j, Struct), write(6 + j, Array), write(6 + j, Word) >>)

\* Mutant: the histogram goes before the crc.
SourceMain_HistogramFirst(rounds) ==
  write_histogram \o write_crc \o Repeat(rounds, read_requests_write_detailed_histograms)
    \o read_range_request \o write_sorted_ranges

SourceMain(rounds) ==
  write_crc \o write_histogram \o Repeat(rounds, read_requests_write_detailed_histograms)
    \o read_range_request \o write_sorted_ranges

----------------------------------------------------------------------------
(* dest                                                                    *)

repreq_read_sorted_ranges ==
  ForEach(LAMBDA i : << read(2 + i, Struct), read(2 + i, Array), read(2 + i, Word) >>)

write_sort_result == << write(13, Struct) >>

DestMain == repreq_read_sorted_ranges \o write_sort_result

----------------------------------------------------------------------------
(* manager                                                                 *)

read_crcs == ForEach(LAMBDA i : << read(52 + i, Word) >>)

recv_histograms == ForEach(LAMBDA i : << read(2 + i, Struct), read(2 + i, Array) >>)

reqrep_detailed_histograms_alloc(i) ==
  << write(12 + i, Struct), write(12 + i, Word),
     read(22 + i, Word), read(22 + i, Word), read(22 + i, Array) >>

\* A round of the analysis asks every source.
request_assign_detailed_histogram == ForEach(reqrep_detailed_histograms_alloc)

write_range_request(i) == << write(32 + i, Struct) >> \o Repeat(SrcNodes, << write(32 + i, Struct) >>)

read_sort_result == ForEach(LAMBDA i : << read(42 + i, Struct) >>)

ManagerMain(rounds) ==
  read_crcs \o recv_histograms \o Repeat(rounds, request_assign_detailed_histogram)
    \o ForEach(write_range_request) \o read_sort_result

----------------------------------------------------------------------------
DisortProgram(n, rounds) ==
  Session(IF n = Manager THEN ManagerMain(rounds)
          ELSE IF n < Dest(1) THEN SourceMain(rounds) ELSE DestMain)
=============================================================================
