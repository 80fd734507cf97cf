-------------------------------- MODULE Trap --------------------------------
(***************************************************************************)
(* The "one ring" system call of ZeroVM (src/manifest/trap.c): TrapHandler *)
(* and the four services it dispatches to, with the part of the syscall    *)
(* hook (nacl_syscall_hook.c, nacl_syscall_64.S) that counts the call and  *)
(* diverts it to a user supplied syscallback.  A session starts in the     *)
(* state that ConstructChannel and MountChannel (manifest_setup.c,         *)
(* mount_channel.c, preload.c, premap.c) leave behind.                     *)
(*                                                                         *)
(* The user program is one thread, so a step is one whole system call.     *)
(***************************************************************************)
EXTENDS Integers

CONSTANTS
  Channels,       \* enum ChannelType
  InputChannel,   \* the channel TrapRead serves
  OutputChannel,  \* the channel TrapRead and TrapWrite serve
  LogChannel,     \* the user log: mounted, never read or written by a trap
  Manifests,      \* channel settings a manifest may hold (see ManifestType)
  GarbageCounts,  \* counters a channel without a name may start with
  SysManifests,   \* the four session limits a manifest may hold
  FileLengths,    \* lengths the channel files may have before mounting
  Hints,          \* SetupList objects the user may pass to TrapUserSetup
  Sizes, Offsets, \* size and offset arguments of TrapRead and TrapWrite
  Half,           \* 2^31: an int32_t holds -Half .. Half - 1
  Bundle,         \* OP_ALIGNEMENT
  TextStart, TextEnd,       \* NACL_TRAMPOLINE_END, static_text_end
  DynTextStart, DynTextEnd, \* dynamic_text_start, dynamic_text_end
  MemStart,       \* nap->mem_start, the offset from user to system addresses
  MaxCalls        \* bound on the number of system calls of a behaviour

VARIABLES
  limit,           \* channels[].max_*
  count,           \* channels[].cnt_*
  info,            \* channels[].name, mounted, fsize: fixed after mounting
  sys,             \* max_cpu, max_mem, max_syscalls, max_setup_calls
  cnt_syscalls,
  cnt_setup_calls,
  syscallback,     \* user_setup->syscallback, a user address
  gsyscallback,    \* the global mirror read by NaClSyscallSeg
  flen,            \* real length of each channel's file
  phase,           \* "user", "exited" (longjmp to main) or "aborted"
  sysret,          \* what the last call returned
  origin,          \* history: the limits the session started with
  view,            \* history: the user's SetupList after the last setup call
  moved,           \* history: bytes really transferred, by channel
  calls            \* history: system calls made, by kind

vars == <<limit, count, info, sys, cnt_syscalls, cnt_setup_calls, syscallback,
          gsyscallback, flen, phase, sysret, origin, view, moved, calls>>

-----------------------------------------------------------------------------
LimitNames == {"max_size", "max_get_size", "max_gets", "max_put_size", "max_puts"}
CountNames == {"cnt_get_size", "cnt_gets", "cnt_put_size", "cnt_puts"}
SysNames   == {"max_cpu", "max_mem", "max_syscalls", "max_setup_calls"}
CallKinds  == {"setup", "processed", "real", "intercepted"}

Limits == [LimitNames -> Int]
Counts == [CountNames -> Int]

Modes == {"MAPPED", "LOADED"}

\* What a manifest says about one channel: whether its name key is present,
\* the mount mode and the limits (absent keys read as 0).  When the name is
\* missing ConstructChannel sets nothing else, and the other fields stand for
\* what malloc left in the SetupList.
ManifestType == [name : BOOLEAN, mounted : Modes, limit : Limits]

HintType == [channels : [Channels -> Limits], sys : [SysNames -> Int], syscallback : Int]

NoView == [none |-> TRUE]

ASSUME ConstantsAssumption ==
  /\ {InputChannel, OutputChannel, LogChannel} \subseteq Channels
  /\ InputChannel # OutputChannel
  /\ LogChannel \notin {InputChannel, OutputChannel}
  /\ Manifests \subseteq [Channels -> ManifestType]
  /\ GarbageCounts \subseteq Counts
  /\ SysManifests \subseteq [SysNames -> Int]
  /\ FileLengths \subseteq Nat
  /\ Hints \subseteq HintType
  /\ Sizes \subseteq -Half .. Half - 1
  /\ Offsets \subseteq Int
  /\ Half \in Nat \ {0}
  /\ Bundle \in Nat \ {0}
  /\ TextStart \in Nat /\ TextEnd \in Nat
  /\ DynTextStart \in Nat /\ DynTextEnd \in Nat
  /\ TextStart > 0 /\ DynTextStart > 0
  /\ MemStart \in Nat \ {0}
  /\ MaxCalls \in Nat

-----------------------------------------------------------------------------
(* Start of the session: construct and mount every channel.               *)

\* What a call returns: a code, and the number of bytes with code "bytes".
Code(c)  == [code |-> c, bytes |-> 0]
Bytes(n) == [code |-> "bytes", bytes |-> n]

ZeroCounts == [n \in CountNames |-> 0]

Writable(ch) == ch \in {OutputChannel, LogChannel}

\* PreallocateChannel of preload.c: an empty writable file is advertised with
\* its maximal size; the file itself stays empty.
PreloadSize(ch, m, len) ==
  IF len < 1 /\ Writable(ch) THEN m.limit["max_size"] ELSE len

\* PreallocateChannel of premap.c: a writable file is resized to max_size.
PremapSize(ch, m, len) ==
  IF Writable(ch) THEN m.limit["max_size"] ELSE len

\* fsize and the length of the file as MountChannel leaves them.
MountedSize(ch, m, len) ==
  IF m.mounted = "LOADED" THEN PreloadSize(ch, m, len) ELSE PremapSize(ch, m, len)

MountedFile(ch, m, len) ==
  IF m.mounted = "LOADED" THEN len ELSE PremapSize(ch, m, len)

\* ZeroVM aborts when the file of a channel is longer than max_size allows.
MountChannel(ch, m, len) == MountedSize(ch, m, len) <= m.limit["max_size"]

ConstructChannel(ch, m, len) ==
  [name    |-> m.name,
   mounted |-> m.mounted,
   fsize   |-> IF m.name THEN MountedSize(ch, m, len) ELSE len]

Mounted(m, len, s) ==
  /\ \A ch \in Channels : m[ch].name => MountChannel(ch, m[ch], len[ch])
  /\ limit = [ch \in Channels |-> m[ch].limit]
  /\ count \in [Channels -> GarbageCounts \union {ZeroCounts}]
  /\ \A ch \in Channels : m[ch].name => count[ch] = ZeroCounts
  /\ info = [ch \in Channels |-> ConstructChannel(ch, m[ch], len[ch])]
  /\ flen = [ch \in Channels |-> MountedFile(ch, m[ch], len[ch])]
  /\ sys = s
  /\ cnt_syscalls = 0
  /\ cnt_setup_calls = 0
  /\ syscallback = 0
  /\ gsyscallback = 0
  /\ phase = "user"
  /\ sysret = Code("none")
  /\ moved = [ch \in Channels |-> [get |-> 0, put |-> 0]]
  /\ origin = [channels |-> limit, sys |-> s]
  /\ view = NoView
  /\ calls = [k \in CallKinds |-> 0]

Init ==
  \E m \in Manifests, len \in [Channels -> FileLengths], s \in SysManifests :
    Mounted(m, len, s)

-----------------------------------------------------------------------------
(* System calls.  NaClSyscallSeg sends every call but a trap to the        *)
(* syscallback if one is installed; the rest reach NaClSyscallCSegHook,    *)
(* which counts them before it runs the handler.                           *)

TotalCalls == calls["setup"] + calls["real"] + calls["intercepted"]

Running == phase = "user" /\ TotalCalls < MaxCalls

\* Conversion to int32_t.
Int32(x) == ((x + Half) % (2 * Half)) - Half

\* AccountingSyscallsInc of the hook, for the calls whose handler leaves
\* cnt_syscalls alone.
RealCall ==
  /\ cnt_syscalls' = Int32(cnt_syscalls + 1)
  /\ calls' = [calls EXCEPT !["real"] = @ + 1]

policyVars == <<limit, sys, cnt_setup_calls, syscallback, gsyscallback, view>>

\* The counters and limits of one direction.
Gets == [calls |-> "cnt_gets", bytes |-> "cnt_get_size",
         maxCalls |-> "max_gets", maxBytes |-> "max_get_size"]
Puts == [calls |-> "cnt_puts", bytes |-> "cnt_put_size",
         maxCalls |-> "max_puts", maxBytes |-> "max_put_size"]

\* Mutants of Granted: no clamping; clamping to what the manifest granted.
Granted_Unclamped(ch, dir, size) == size
Granted_OriginLimit(ch, dir, size) ==
  LET tail == origin.channels[ch][dir.maxBytes] - count[ch][dir.bytes]
  IN  IF size > tail THEN Int32(tail) ELSE size

\* "if(size > tail) size = tail": size is an int32_t, tail an int64_t.
Granted(ch, dir, size) ==
  LET tail == limit[ch][dir.maxBytes] - count[ch][dir.bytes]
  IN  IF size > tail THEN Int32(tail) ELSE size

\* The checks of TrapReadHandle and TrapWriteHandle, in their order.
Refusal(served, ch, dir, size, offset) ==
  IF ch \notin served THEN "INVALID_DESC"
  ELSE IF info[ch].mounted # "LOADED" THEN "INVALID_MODE"
  ELSE IF size < 1 THEN "INSANE_SIZE"
  ELSE IF offset < 0 THEN "INSANE_OFFSET"
  ELSE IF offset >= info[ch].fsize THEN "OUT_OF_BOUNDS"
  ELSE IF \/ count[ch][dir.calls] >= limit[ch][dir.maxCalls]
          \/ Granted(ch, dir, size) < 1 THEN "OUT_OF_LIMITS"
  ELSE "none"

\* The counters move before the transfer, "even if syscall failed".
Charge(ch, dir, size) ==
  count' = [count EXCEPT ![ch][dir.calls] = @ + 1,
                         ![ch][dir.bytes] = @ + Granted(ch, dir, size)]

\* The bytes that pread finds between offset and the end of the file.
Available(ch, offset) == IF flen[ch] > offset THEN flen[ch] - offset ELSE 0

RefusedTransfer(refusal) ==
  /\ refusal # "none"
  /\ sysret' = Code(refusal)
  /\ UNCHANGED <<count, flen, moved>>

FailedTransfer(ch, dir, size) ==
  /\ Charge(ch, dir, size)
  /\ sysret' = Code("errno")
  /\ UNCHANGED <<flen, moved>>

\* pread may return fewer bytes than it was asked for.
TrapReadHandle(desc, size, offset) ==
  LET refusal == Refusal({InputChannel, OutputChannel}, desc, Gets, size, offset)
  IN  \/ RefusedTransfer(refusal)
      \/ refusal = "none" /\ FailedTransfer(desc, Gets, size)
      \/ /\ refusal = "none"
         /\ Charge(desc, Gets, size)
         /\ \E n \in 0 .. Granted(desc, Gets, size) :
              /\ n <= Available(desc, offset)
              /\ sysret' = Bytes(n)
              /\ moved' = [moved EXCEPT ![desc].get = @ + n]
         /\ UNCHANGED flen

\* pwrite may write fewer bytes than it was asked for, and extends the file.
TrapWriteHandle(desc, size, offset) ==
  LET refusal == Refusal({OutputChannel}, desc, Puts, size, offset)
  IN  \/ RefusedTransfer(refusal)
      \/ refusal = "none" /\ FailedTransfer(desc, Puts, size)
      \/ /\ refusal = "none"
         /\ Charge(desc, Puts, size)
         /\ \E n \in 0 .. Granted(desc, Puts, size) :
              /\ sysret' = Bytes(n)
              /\ moved' = [moved EXCEPT ![desc].put = @ + n]
              /\ flen' = [flen EXCEPT ![desc] =
                             IF n > 0 /\ offset + n > @ THEN offset + n ELSE @]

-----------------------------------------------------------------------------
(* TrapUserSetup.                                                         *)

\* Mutants of TryUpdate: any hint is adopted; a refused hint is not corrected.
TryUpdate_AdoptsAny(first, pretender, current) ==
  [pretender |-> pretender, current |-> IF first THEN current ELSE pretender, error |-> FALSE]
TryUpdate_KeepsPretender(first, pretender, current) ==
  IF first THEN [pretender |-> current, current |-> current, error |-> FALSE]
  ELSE IF pretender <= current
    THEN [pretender |-> pretender, current |-> pretender, error |-> FALSE]
    ELSE [pretender |-> pretender, current |-> current, error |-> TRUE]

\* TRY_UPDATE(pretender, current): the values both have afterwards, and
\* whether the user asked for more than there is.
TryUpdate(first, pretender, current) ==
  IF first THEN [pretender |-> current, current |-> current, error |-> FALSE]
  ELSE IF pretender <= current
    THEN [pretender |-> pretender, current |-> pretender, error |-> FALSE]
    ELSE [pretender |-> current, current |-> current, error |-> TRUE]

InText(addr) ==
  \/ addr >= DynTextStart /\ addr < DynTextEnd
  \/ addr >= TextStart /\ addr < TextEnd

\* UpdateSyscallback clears both variables before it looks at the address.
Accepted(addr) == addr # 0 /\ addr % Bundle = 0 /\ InText(addr)

\* Mutant of UpdateSyscallback: the global variable is not cleared first.
UpdateSyscallback_GlobalKept(addr) ==
  /\ syscallback' = IF Accepted(addr) THEN addr ELSE 0
  /\ gsyscallback' = IF Accepted(addr) THEN addr + MemStart ELSE gsyscallback

UpdateSyscallback(addr) ==
  /\ syscallback' = IF Accepted(addr) THEN addr ELSE 0
  /\ gsyscallback' = IF Accepted(addr) THEN addr + MemStart ELSE 0

\* Mutant of SetupAllowed: the counter is tested before it is incremented.
SetupAllowed_PostIncrement == sys["max_setup_calls"] >= cnt_setup_calls

SetupAllowed == sys["max_setup_calls"] >= Int32(cnt_setup_calls + 1)

\* The session has used up its setup calls: nothing but the counters move.
SetupOutOfLimits ==
  /\ ~SetupAllowed
  /\ sysret' = Code("OUT_OF_LIMITS")
  /\ calls' = [calls EXCEPT !["setup"] = @ + 1]
  /\ UNCHANGED <<limit, sys, syscallback, gsyscallback, view>>

SetupProcessed(hint) ==
  LET first == Int32(cnt_setup_calls + 1) = 1
      io == [ch \in Channels |-> [n \in LimitNames |->
               TryUpdate(first, hint.channels[ch][n], limit[ch][n])]]
      system == [n \in SysNames |-> TryUpdate(first, hint.sys[n], sys[n])]
      error == \/ \E ch \in Channels, n \in LimitNames : io[ch][n].error
               \/ \E n \in SysNames : system[n].error
               \/ hint.syscallback # 0 /\ ~Accepted(hint.syscallback)
  IN  /\ SetupAllowed
      /\ limit' = [ch \in Channels |-> [n \in LimitNames |-> io[ch][n].current]]
      /\ sys' = [n \in SysNames |-> system[n].current]
      /\ view' = [channels |-> [ch \in Channels |->
                                [n \in LimitNames |-> io[ch][n].pretender]],
                  sys |-> [n \in SysNames |-> system[n].pretender]]
      /\ UpdateSyscallback(hint.syscallback)
      /\ sysret' = Code(IF error THEN "ERR_CODE" ELSE "OK_CODE")
      /\ calls' = [calls EXCEPT !["setup"] = @ + 1, !["processed"] = @ + 1]

\* Mutant of SyscallsAfterSetup: AccountingSyscallsDec, which increments too.
SyscallsAfterSetup_Dec == Int32(Int32(cnt_syscalls + 1) + 1)

\* The hook increments the counter, the handler decrements it.
SyscallsAfterSetup == Int32(Int32(cnt_syscalls + 1) - 1)

TrapUserSetupHandle(hint) ==
  /\ cnt_setup_calls' = Int32(cnt_setup_calls + 1)
  /\ cnt_syscalls' = SyscallsAfterSetup
  /\ SetupOutOfLimits \/ SetupProcessed(hint)
  /\ UNCHANGED <<count, flen, moved>>

-----------------------------------------------------------------------------
(* TrapHandler and the other system calls.                                *)

Setup(hint) ==
  /\ Running
  /\ TrapUserSetupHandle(hint)
  /\ UNCHANGED <<info, phase, origin>>

Read(desc, size, offset) ==
  /\ Running
  /\ RealCall
  /\ TrapReadHandle(desc, size, offset)
  /\ UNCHANGED policyVars
  /\ UNCHANGED <<info, phase, origin>>

Write(desc, size, offset) ==
  /\ Running
  /\ RealCall
  /\ TrapWriteHandle(desc, size, offset)
  /\ UNCHANGED policyVars
  /\ UNCHANGED <<info, phase, origin>>

\* TrapExitHandle leaves with a longjmp to main.
Exit ==
  /\ Running
  /\ RealCall
  /\ phase' = "exited"
  /\ UNCHANGED policyVars
  /\ UNCHANGED <<count, info, flen, sysret, origin, moved>>

Unsupported ==
  /\ Running
  /\ RealCall
  /\ sysret' = Code("ERR_CODE")
  /\ UNCHANGED policyVars
  /\ UNCHANGED <<count, info, flen, phase, origin, moved>>

\* NaClUserToSys on an argument that is no user address: ZeroVM stops.  Every
\* handler converts its pointer before it does anything else.
BadPointer ==
  /\ Running
  /\ RealCall
  /\ phase' = "aborted"
  /\ UNCHANGED policyVars
  /\ UNCHANGED <<count, info, flen, sysret, origin, moved>>

\* A system call other than the trap, with no syscallback: the hook counts it
\* and runs its handler, which touches nothing of this module.
NaClSyscall ==
  /\ Running
  /\ gsyscallback = 0
  /\ RealCall
  /\ sysret' = Code("nacl")
  /\ UNCHANGED policyVars
  /\ UNCHANGED <<count, info, flen, phase, origin, moved>>

\* The same call with a syscallback: NaClSyscallSeg jumps back to user code.
Intercepted ==
  /\ Running
  /\ gsyscallback # 0
  /\ calls' = [calls EXCEPT !["intercepted"] = @ + 1]
  /\ UNCHANGED policyVars
  /\ UNCHANGED <<count, info, cnt_syscalls, flen, phase, sysret, origin, moved>>

Next ==
  \/ \E hint \in Hints : Setup(hint)
  \/ \E desc \in Channels, size \in Sizes, offset \in Offsets :
       Read(desc, size, offset) \/ Write(desc, size, offset)
  \/ Exit
  \/ Unsupported
  \/ BadPointer
  \/ NaClSyscall
  \/ Intercepted

Spec == Init /\ [][Next]_vars

-----------------------------------------------------------------------------
(* Properties.                                                            *)

AtLeastZero(x) == IF x > 0 THEN x ELSE 0

ReturnCodes == {"none", "bytes", "errno", "nacl", "OK_CODE", "ERR_CODE",
                "INVALID_DESC", "INVALID_MODE", "INSANE_SIZE", "INSANE_OFFSET",
                "OUT_OF_BOUNDS", "OUT_OF_LIMITS"}

\* Every variable keeps its type; the counters of a channel that the manifest
\* names, the bytes moved and the length of its file never become negative,
\* whatever size and offset TrapRead and TrapWrite are called with.
TypeOK ==
  /\ limit \in [Channels -> Limits]
  /\ count \in [Channels -> Counts]
  /\ info \in [Channels -> [name : BOOLEAN, mounted : Modes, fsize : Int]]
  /\ \A ch \in Channels : info[ch].name => count[ch] \in [CountNames -> Nat]
  /\ sys \in [SysNames -> Int]
  /\ cnt_syscalls \in -Half .. Half - 1
  /\ cnt_setup_calls \in -Half .. Half - 1
  /\ syscallback \in Int
  /\ gsyscallback \in Int
  /\ flen \in [Channels -> Int]
  /\ phase \in {"user", "exited", "aborted"}
  /\ sysret \in [code : ReturnCodes, bytes : Nat]
  /\ origin \in [channels : [Channels -> Limits], sys : [SysNames -> Int]]
  /\ view \in [channels : [Channels -> Limits], sys : [SysNames -> Int]] \union {NoView}
  /\ moved \in [Channels -> [get : Nat, put : Nat]]
  /\ calls \in [CallKinds -> Nat]

\* The quota of the manifest is never exceeded: on a channel the manifest
\* names, however TrapRead, TrapWrite and TrapUserSetup are mixed, the bytes
\* really moved are covered by the bytes charged, and calls and bytes charged
\* stay within the limits the session started with.
QuotaRespected ==
  \A ch \in Channels : info[ch].name =>
    /\ moved[ch].get <= count[ch]["cnt_get_size"]
    /\ moved[ch].put <= count[ch]["cnt_put_size"]
    /\ count[ch]["cnt_get_size"] <= AtLeastZero(origin.channels[ch]["max_get_size"])
    /\ count[ch]["cnt_put_size"] <= AtLeastZero(origin.channels[ch]["max_put_size"])
    /\ count[ch]["cnt_gets"] <= AtLeastZero(origin.channels[ch]["max_gets"])
    /\ count[ch]["cnt_puts"] <= AtLeastZero(origin.channels[ch]["max_puts"])

\* A call that is charged leaves the counters within the limits in force at
\* that moment, also when TrapUserSetup has lowered a limit below what had
\* been used before.
ChargeWithinLimit(ch, dir) ==
  count'[ch][dir.calls] # count[ch][dir.calls] =>
    /\ count'[ch][dir.calls] <= limit[ch][dir.maxCalls]
    /\ count'[ch][dir.bytes] <= limit[ch][dir.maxBytes]

GrantWithinLimit ==
  [][\A ch \in Channels : info[ch].name =>
       ChargeWithinLimit(ch, Gets) /\ ChargeWithinLimit(ch, Puts)]_vars

\* No step raises a limit ("for now we only can decrease bounds", the comment
\* of TrapUserSetupHandle), and spent quota is never given back.
PolicyOnlyTightens ==
  [][/\ \A ch \in Channels, n \in LimitNames : limit'[ch][n] <= limit[ch][n]
     /\ \A n \in SysNames : sys'[n] <= sys[n]
     /\ \A ch \in Channels, n \in CountNames : count'[ch][n] >= count[ch][n]]_vars

\* The two syscallback variables are set together (zvm.h: "both variables must
\* be set simultaniously"), also by a setup call that fails half way: they
\* are both clear, or name the same aligned place in user text.
CallbackMirror ==
  \/ syscallback = 0 /\ gsyscallback = 0
  \/ /\ gsyscallback = syscallback + MemStart
     /\ syscallback % Bundle = 0
     /\ InText(syscallback)

\* After a processed setup call the SetupList of the user shows the limits in
\* force, whether its hints were taken, refused or mixed, and whatever calls
\* follow.
ViewCurrent == view # NoView => view = [channels |-> limit, sys |-> sys]

\* At most max_setup_calls setup calls are processed, also when the user
\* lowers max_setup_calls in one of them and keeps calling after a refusal.
SetupBudget == calls["processed"] <= AtLeastZero(origin.sys["max_setup_calls"])

\* cnt_syscalls counts exactly the real system calls: neither setup calls,
\* which the handler takes off again even when it refuses them, nor calls
\* that a syscallback intercepts.
CallsAccounted == cnt_syscalls = Int32(calls["real"])
=============================================================================
