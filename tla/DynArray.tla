------------------------------ MODULE DynArray ------------------------------
(***************************************************************************)
(* The growing array of dyn_array.c.  A DynArray is a record of            *)
(*   num_entries, ptr_array_space, avail_ix  as in the code,               *)
(*   ptr_array  a function on 0 .. ptr_array_space - 1 to pointers: sets,  *)
(*     empty for NULL, else holding the object pointed to,                 *)
(*   available  the set of indices whose bit is set in the bitmap.         *)
(* The bitmap has words of WordBits bits.                                  *)
(***************************************************************************)
EXTENDS Integers, FiniteSetsExt

CONSTANTS WordBits   \* kBitsPerWord

BitsToAllocWords(n) == (n + WordBits - 1) \div WordBits
BitsToIndex(n) == n \div WordBits

DynArrayCtor(initial_size) ==
  [num_entries |-> 0, ptr_array_space |-> initial_size, avail_ix |-> 0,
   ptr_array |-> [i \in 0 .. initial_size - 1 |-> {}], available |-> {}]

DynArrayGet(dap, idx) == IF idx < dap.num_entries THEN dap.ptr_array[idx] ELSE {}

\* The smallest doubling of space that has room for idx.
DesiredSpace(space, idx) == Min({s \in {space * 2^k : k \in 0 .. idx} : idx < s})

\* DynArraySet when memory suffices; realloc may fail, which the caller decides.
DynArraySet(dap, idx, ptr) ==
  LET space == IF idx < dap.ptr_array_space THEN dap.ptr_array_space
                                            ELSE DesiredSpace(dap.ptr_array_space, idx)
      ix == BitsToIndex(idx)
      grown == [i \in 0 .. space - 1 |->
                  IF i < dap.ptr_array_space THEN dap.ptr_array[i] ELSE {}]
  IN  [num_entries |-> IF dap.num_entries <= idx THEN idx + 1 ELSE dap.num_entries,
       ptr_array_space |-> space,
       avail_ix |-> IF ptr = {} /\ ix < dap.avail_ix THEN ix ELSE dap.avail_ix,
       ptr_array |-> [grown EXCEPT ![idx] = ptr],
       available |-> IF ptr = {} THEN dap.available \ {idx} ELSE dap.available \union {idx}]

\* Words from the hint on that are not all ones.
Roomy(dap) ==
  {ix \in dap.avail_ix .. BitsToAllocWords(dap.ptr_array_space) - 1 :
     \E i \in ix * WordBits .. (ix + 1) * WordBits - 1 : i \notin dap.available}

\* Mutant of FirstAvail: the search never leaves the array it has.
FirstAvail_Last(dap) == dap.ptr_array_space - 1

\* The position DynArrayFirstAvail returns, and the hint it leaves.
FirstAvail(dap) ==
  IF Roomy(dap) = {} THEN dap.ptr_array_space
  ELSE LET ix == Min(Roomy(dap))
       IN  Min({i \in ix * WordBits .. (ix + 1) * WordBits - 1 : i \notin dap.available})

FirstAvailHint(dap) == IF Roomy(dap) = {} THEN dap.avail_ix ELSE Min(Roomy(dap))
=============================================================================
