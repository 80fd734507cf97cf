----------------------------- MODULE MCDynText ------------------------------
(***************************************************************************)
(* Blobs for TLC: pages of three bundles, the program's text in page 0,    *)
(* the dynamic text in pages 1 to 3, the program's data in page 4, the     *)
(* stack in page 8.  The search halves its range as soon as there are      *)
(* three regions.                                                          *)
(***************************************************************************)
EXTENDS DynText

Code(vaddr, size) ==
  [kind |-> "code", vaddr |-> vaddr, aligned |-> TRUE, filesz |-> size, memsz |-> size]
Data(kind, page, size) ==
  [kind |-> kind, vaddr |-> page * 3, aligned |-> TRUE, filesz |-> 1, memsz |-> size]

Codes == {Code(3, 1), Code(4, 1), Code(5, 1), Code(6, 1), Code(8, 2), Code(4, 4), Code(10, 1)}
Unfit == {[Code(4, 1) EXCEPT !.aligned = FALSE], Code(2, 1), Code(11, 1), Code(27, 1), Code(6, 0)}
Datas == {Data("data", 5, 3), Data("rodata", 6, 4), Data("data", 4, 1), Data("data", 8, 3),
          Data("data", 7, 0), [Data("rodata", 5, 2) EXCEPT !.vaddr = 16]}
Others == {[Code(4, 1) EXCEPT !.kind = "other"]}

SmallBlobs ==
  {<<a, b, c, d>> : a \in Codes, b \in Codes, c \in Codes, d \in Codes}
    \union {<<a, b, c>> : a \in Codes, b \in Codes \union Unfit, c \in Datas}
    \union {<<a, b, c>> : a \in Datas, b \in Datas \union Others, c \in Codes}
=============================================================================
