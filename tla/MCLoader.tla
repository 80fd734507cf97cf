------------------------------ MODULE MCLoader ------------------------------
(***************************************************************************)
(* Images for TLC: a page is two addresses, an allocation page two pages,  *)
(* the address space eight allocation pages.  The headers sit on, before   *)
(* and behind the boundaries of pages and allocation pages.                *)
(***************************************************************************)
EXTENDS Loader

Header(kind, vaddr, filesz, memsz) ==
  [kind |-> kind, vaddr |-> vaddr, filesz |-> filesz, memsz |-> memsz]

Texts == {Header("text", 8, n, m) : n \in {0, 1, 3, 4, 5}, m \in {4, 5}}
           \union {Header("text", 8, 3, 3), Header("text", 12, 2, 2)}
Rodatas == {Header("rodata", v, 1, m) : v \in {12, 14, 16}, m \in {1, 4, 5}}
Datas == {Header("data", v, 1, m) : v \in {12, 16, 20}, m \in {1, 4, 7, 9}}
           \union {Header("data", 18, 2, 2), Header("data", 20, 0, 12), Header("data", 28, 1, 61)}
Others == {Header("gnu_stack", 16, 0, 0), Header("gnu_stack", 4, 0, 1),
           Header("gnu_stack", 25, 2, 2), Header("tls", 3, 0, 9), Header("unexpected", 9, 1, 1)}

SmallImages ==
  {<<>>}
    \union {<<t>> : t \in Texts}
    \union {<<t, d>> : t \in Texts, d \in Datas \union Rodatas \union Others}
    \union {<<t, r, d>> : t \in Texts, r \in Rodatas, d \in Datas}
    \union {<<d, t, r>> : t \in Texts, r \in Rodatas, d \in Datas}
    \union {<<t, o, d>> : t \in {Header("text", 8, 3, 3)}, o \in Others, d \in Datas \union Others}
=============================================================================
