----------------------------- MODULE MCSession -----------------------------
(***************************************************************************)
(* A session for TLC: an input channel, the log and a network channel,     *)
(* three-bit cpu counters, and exit codes around the low byte.             *)
(***************************************************************************)
EXTENDS Session

SomeCodes == {-1, 0, 1, 256}
=============================================================================
