------------------------------- MODULE MCTrap -------------------------------
(***************************************************************************)
(* Instances of Trap for TLC.  Addresses are in units of 8 bytes: a bundle *)
(* of 32 bytes is 4 units.                                                 *)
(***************************************************************************)
EXTENDS Trap

AllChannels == {"Input", "Output", "UserLog"}

Lim(size, gets, getSize, puts, putSize) ==
  [max_size |-> size, max_gets |-> gets, max_get_size |-> getSize,
   max_puts |-> puts, max_put_size |-> putSize]

Named(mode, l) == [name |-> TRUE, mounted |-> mode, limit |-> l]

\* A channel the manifest does not name: its memory happens to look like a loaded channel.
Unnamed == [name |-> FALSE, mounted |-> "LOADED", limit |-> Lim(1, 1, 1, 1, 1)]

Manifest(input, output) ==
  [ch \in AllChannels |->
     CASE ch = "Input"  -> input
       [] ch = "Output" -> output
       [] OTHER         -> Unnamed]

Sys(setups, syscalls) ==
  [max_cpu |-> 1, max_mem |-> 1, max_syscalls |-> syscalls, max_setup_calls |-> setups]

Garbage == {[cnt_gets |-> 0, cnt_get_size |-> 2, cnt_puts |-> 0, cnt_put_size |-> 0]}

\* A hint that asks for nothing the session does not have, except for the
\* limit n of channel ch, which it sets to v.
Ample == Lim(9, 9, 9, 9, 9)
Hint(ch, n, v, setups, callback) ==
  [channels |-> [c \in AllChannels |->
                   IF c = ch THEN [Ample EXCEPT ![n] = v] ELSE Ample],
   sys |-> Sys(setups, 9),
   syscallback |-> callback]

-----------------------------------------------------------------------------
(* Limits far from the width of int32_t.                                  *)

SmallManifests ==
  { Manifest(Named("LOADED", Lim(2, 2, 3, 0, 0)), Named("LOADED", Lim(2, 1, 2, 2, 3))),
    Manifest(Named("MAPPED", Lim(2, 2, 3, 0, 0)), Unnamed) }

SmallOffsets == {-1, 0, 1, 2}

SmallSys == {Sys(2, 3)}

\* Refused and accepted hints, and syscallbacks that are absent, unaligned,
\* aligned in text, aligned in the gap between the two text regions.
SmallHints ==
  { Hint("Output", "max_put_size", 1, 9, 0),
    Hint("Input", "max_get_size", 0, 2, 8),
    Hint("Input", "max_gets", 1, 1, 9),
    Hint("Input", "max_gets", 2, 2, 12),
    Hint("Output", "max_put_size", -1, 2, 16) }

-----------------------------------------------------------------------------
(* A session whose limits are 0, one with a little quota, and one where    *)
(* int32_t holds only -4 .. 3 while the byte limits go up to 6.            *)

ZeroManifests == {Manifest(Named("LOADED", Lim(2, 0, 3, 0, 0)), Unnamed)}
ZeroSys == {Sys(0, 0)}

OneManifests == {Manifest(Named("LOADED", Lim(2, 2, 3, 0, 0)),
                          Named("LOADED", Lim(2, 1, 2, 2, 3)))}
OneSys == {Sys(1, 1)}

WideManifests == {Manifest(Named("LOADED", Lim(2, 3, 6, 0, 0)), Unnamed)}
WideSys == {Sys(2, 3)}
WideHints == {Hint("Input", "max_get_size", 0, 2, 0)}
=============================================================================
