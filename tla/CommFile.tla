------------------------------ MODULE CommFile ------------------------------
(***************************************************************************)
(* What the networking layer promises of a channel between two nodes: it   *)
(* is a pipe for one transfer at a time.  The writer is told how many      *)
(* bytes went, the reader gets exactly those, in the order written, and    *)
(* nothing is written before what went last has been read.  Network, with  *)
(* its sockets, requests and replies, implements this specification.       *)
(***************************************************************************)
EXTENDS Sequences

CONSTANTS
  Ends,   \* the channels
  Sizes   \* the lengths a transfer may have

VARIABLES
  sent,   \* per channel, the lengths of the transfers the writer made
  got     \* per channel, the lengths of the transfers the reader got

vars == <<sent, got>>

Init ==
  /\ sent = [e \in Ends |-> <<>>]
  /\ got = [e \in Ends |-> <<>>]

Write(e) ==
  /\ sent[e] = got[e]
  /\ \E size \in Sizes : sent' = [sent EXCEPT ![e] = Append(@, size)]
  /\ UNCHANGED got

Read(e) ==
  /\ got[e] # sent[e]
  /\ got' = [got EXCEPT ![e] = sent[e]]
  /\ UNCHANGED sent

Next == \E e \in Ends : Write(e) \/ Read(e)

Spec == Init /\ [][Next]_vars
=============================================================================
