------------------------------ MODULE MCMount -------------------------------
(* Mount on nine allocation pages of two pages: the guard, the text, the   *)
(* data, a hole of five, the stack.  An input file of five pages takes     *)
(* three of them, so that calls can cut its entry at either end and split  *)
(* it.                                                                     *)
EXTENDS Mount

SmallLayout ==
  << VmEntry(0, 2, NoAccess), VmEntry(2, 2, {"R", "X"}), VmEntry(4, 2, {"R", "W"}),
     VmEntry(16, 2, {"R", "W"}) >>

Call(d, at, npages, prot, offset) ==
  [anonymous |-> d < 0, d |-> d, fixed |-> at # 0, page |-> at, npages |-> npages,
   prot |-> prot, offset |-> offset]

\* The last six are refused: an unused slot, an unaligned address and offset, no
\* pages, the text, beyond the end.
SmallMmaps ==
  {Call(-1, 12, 2, {"R", "W"}, 0), Call(-1, 0, 3, {"R"}, 0), Call(-1, 10, 1, NoAccess, 0),
   Call(0, 12, 4, {"R"}, 0), Call(0, 6, 5, {"R", "W"}, 2), Call(1, 0, 2, {"R"}, 0),
   Call(3, 8, 2, {"R"}, 0), Call(0, 7, 2, {"R"}, 0), Call(0, 8, 2, {"R"}, 1),
   Call(0, 8, 0, {"R"}, 0), Call(-1, 2, 2, {"R"}, 0), Call(-1, 16, 4, {"R"}, 0)}

SmallMunmaps ==
  {[page |-> p, npages |-> n] : p \in {10, 12}, n \in {1, 4}}
    \union {[page |-> 2, npages |-> 2], [page |-> 9, npages |-> 1]}
=============================================================================
