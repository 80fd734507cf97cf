------------------------------ MODULE MCVmMap -------------------------------
(***************************************************************************)
(* Instances of VmMap for TLC: seven allocation pages of two pages, a page *)
(* of two units of address.  The guard and the text take one allocation    *)
(* page each, then come the data, a hole of three, and the stack.          *)
(***************************************************************************)
EXTENDS VmMap

SmallLayout ==
  << VmEntry(0, 2, NoAccess), VmEntry(2, 2, {"R", "X"}), VmEntry(4, 2, ReadWrite),
     VmEntry(12, 2, ReadWrite) >>

Anonymous(page, npages, prot, fixed) ==
  [page |-> page, npages |-> npages, prot |-> prot, fixed |-> fixed, anonymous |-> TRUE,
   shared |-> FALSE, private |-> TRUE, offset |-> "ok"]

\* One call for each check of NaClSysMmap.
RefusedMmaps ==
  LET good == Anonymous(6, 2, ReadWrite, TRUE)
  IN  { [good EXCEPT !.offset = "null"], [good EXCEPT !.offset = "outside"],
        [good EXCEPT !.offset = "unaligned"], [good EXCEPT !.anonymous = FALSE],
        [good EXCEPT !.page = 7], [good EXCEPT !.npages = 0],
        [good EXCEPT !.shared = TRUE], [good EXCEPT !.private = FALSE],
        [good EXCEPT !.page = 0], [good EXCEPT !.page = 2], [good EXCEPT !.page = 14],
        [good EXCEPT !.page = 12, !.npages = 3] }

SmallMmaps ==
  {Anonymous(page, n, {"R", "X"}, FALSE) : page \in {0, 6, 8}, n \in {1, 4}}
    \union {Anonymous(page, n, ReadWrite, TRUE) : page \in {6, 8}, n \in {2, 5}}
    \union {Anonymous(4, 2, {"R"}, TRUE), Anonymous(8, 2, NoAccess, TRUE)}
    \union RefusedMmaps

SmallMunmaps ==
  {[page |-> page, npages |-> n] : page \in {4, 6, 8, 12}, n \in {1, 4}}
    \union {[page |-> 2, npages |-> 4], [page |-> 7, npages |-> 1], [page |-> 8, npages |-> 0]}

SmallBreaks == {0, 8, 9, 11, 13, 17, 22, 28}

\* What the proofs about PageMap take for granted holds of this layout.
ASSUME LoadedPages == PM!PageMapAssumption
=============================================================================
