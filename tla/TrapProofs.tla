----------------------------- MODULE TrapProofs -----------------------------
(***************************************************************************)
(* Proofs about Trap, for every set of channels, manifests, hints and call *)
(* arguments.                                                              *)
(***************************************************************************)
EXTENDS Trap, TLAPS

LEMMA ModSmall ==
  ASSUME NEW a \in Nat, NEW b \in Nat, a < b
  PROVE  a % b = a
OBVIOUS

LEMMA ModRange ==
  ASSUME NEW a \in Int, NEW b \in Nat, b > 0
  PROVE  a % b \in 0 .. b - 1
OBVIOUS

\* The conversion to int32_t yields an int32_t.
LEMMA Int32Range ==
  ASSUME NEW x \in Int
  PROVE  Int32(x) \in -Half .. Half - 1
<1>1. 2 * Half \in Nat /\ 2 * Half > 0 /\ x + Half \in Int /\ Half \in Nat
  BY ConstantsAssumption
<1>2. (x + Half) % (2 * Half) \in 0 .. 2 * Half - 1
  BY <1>1, ModRange
<1> QED
  BY <1>1, <1>2 DEF Int32

\* The conversion to int32_t does nothing to an int32_t.
LEMMA Int32Id ==
  ASSUME NEW x \in Int, -Half <= x, x < Half
  PROVE  Int32(x) = x
<1>1. 2 * Half \in Nat /\ x + Half \in Nat /\ x + Half < 2 * Half /\ Half \in Nat
  BY ConstantsAssumption
<1>2. (x + Half) % (2 * Half) = x + Half
  BY <1>1, ModSmall
<1> QED
  BY <1>1, <1>2 DEF Int32

-----------------------------------------------------------------------------
(* What the transfers do to the counters.                                 *)

LEMMA DirectionNames ==
  \A dir \in {Gets, Puts} :
    /\ dir.calls \in CountNames /\ dir.bytes \in CountNames
    /\ dir.calls # dir.bytes
    /\ dir.maxCalls \in LimitNames /\ dir.maxBytes \in LimitNames
BY DEF Gets, Puts, CountNames, LimitNames

LEMMA GrantedInt ==
  ASSUME TypeOK, NEW ch \in Channels, NEW dir \in {Gets, Puts}, NEW size \in Sizes
  PROVE  Granted(ch, dir, size) \in Int
<1> DEFINE tail == limit[ch][dir.maxBytes] - count[ch][dir.bytes]
<1>1. limit[ch] \in Limits /\ count[ch] \in Counts
  BY DEF TypeOK
<1>2. tail \in Int
  BY <1>1, DirectionNames DEF Limits, Counts
<1>3. Int32(tail) \in Int /\ size \in Int
  BY <1>2, Int32Range, ConstantsAssumption
<1>4. Granted(ch, dir, size) = IF size > tail THEN Int32(tail) ELSE size
  BY DEF Granted
<1> QED
  BY <1>3, <1>4

\* Charging a transfer adds one call and the granted bytes, and touches no
\* other counter.
LEMMA ChargeEffect ==
  ASSUME TypeOK, NEW ch \in Channels, NEW dir \in {Gets, Puts}, NEW size \in Sizes,
         Charge(ch, dir, size)
  PROVE  /\ count' \in [Channels -> Counts]
         /\ count'[ch][dir.calls] = count[ch][dir.calls] + 1
         /\ count'[ch][dir.bytes] = count[ch][dir.bytes] + Granted(ch, dir, size)
         /\ \A n \in CountNames \ {dir.calls, dir.bytes} : count'[ch][n] = count[ch][n]
         /\ \A c \in Channels \ {ch} : count'[c] = count[c]
<1> DEFINE g == Granted(ch, dir, size)
           row == [count[ch] EXCEPT ![dir.calls] = @ + 1, ![dir.bytes] = @ + g]
<1>1. count \in [Channels -> Counts] /\ count[ch] \in Counts /\ g \in Int
  BY GrantedInt DEF TypeOK
<1>2. count' = [count EXCEPT ![ch] = row]
  BY Zenon DEF Charge
<1> HIDE DEF g
<1>3. /\ row \in Counts
      /\ row[dir.calls] = count[ch][dir.calls] + 1
      /\ row[dir.bytes] = count[ch][dir.bytes] + g
      /\ \A n \in CountNames \ {dir.calls, dir.bytes} : row[n] = count[ch][n]
  BY <1>1, DirectionNames DEF Counts
<1> HIDE DEF row
<1>4. count'[ch] = row /\ count' \in [Channels -> Counts]
  BY <1>1, <1>2, <1>3
<1>5. \A c \in Channels \ {ch} : count'[c] = count[c]
  BY <1>1, <1>2
<1> QED
  BY <1>3, <1>4, <1>5 DEF g

\* A transfer that passes the checks is granted at least one byte.
LEMMA GrantedPositive ==
  ASSUME TypeOK, NEW ch \in Channels, NEW dir \in {Gets, Puts}, NEW size \in Sizes,
         NEW served, NEW offset, Refusal(served, ch, dir, size, offset) = "none"
  PROVE  /\ Granted(ch, dir, size) \in Nat /\ Granted(ch, dir, size) >= 1
         /\ count[ch][dir.calls] < limit[ch][dir.maxCalls]
         /\ size >= 1
<1>1. Granted(ch, dir, size) \in Int /\ size \in Int
  BY GrantedInt, ConstantsAssumption
<1>2. count[ch][dir.calls] \in Int /\ limit[ch][dir.maxCalls] \in Int
  BY DirectionNames DEF TypeOK, Limits, Counts
<1>3. /\ ~(size < 1)
      /\ ~(count[ch][dir.calls] >= limit[ch][dir.maxCalls])
      /\ ~(Granted(ch, dir, size) < 1)
  BY DEF Refusal
<1> QED
  BY <1>1, <1>2, <1>3

-----------------------------------------------------------------------------
(* What a setup call does to the limits.                                  *)

\* TRY_UPDATE leaves both sides equal, and the limit lower or where it was.
LEMMA TryUpdateEffect ==
  ASSUME NEW first \in BOOLEAN, NEW p \in Int, NEW c \in Int
  PROVE  LET u == TryUpdate(first, p, c)
         IN  /\ u.pretender = u.current
             /\ u.current \in Int
             /\ u.current <= c
             /\ u.current \in {p, c}
             /\ u.error \in BOOLEAN
BY DEF TryUpdate

LEMMA SetupEffect ==
  ASSUME TypeOK, NEW hint \in Hints, SetupProcessed(hint)
  PROVE  /\ limit' \in [Channels -> Limits]
         /\ \A ch \in Channels, n \in LimitNames :
              /\ limit'[ch][n] <= limit[ch][n]
              /\ limit'[ch][n] \in {hint.channels[ch][n], limit[ch][n]}
         /\ sys' \in [SysNames -> Int]
         /\ \A n \in SysNames : sys'[n] <= sys[n]
         /\ view' = [channels |-> limit', sys |-> sys']
         /\ sysret' \in [code : ReturnCodes, bytes : Nat]
<1> DEFINE first == Int32(cnt_setup_calls + 1) = 1
           io(ch, n) == TryUpdate(first, hint.channels[ch][n], limit[ch][n])
           system(n) == TryUpdate(first, hint.sys[n], sys[n])
<1>1. /\ limit' = [ch \in Channels |-> [n \in LimitNames |-> io(ch, n).current]]
      /\ sys' = [n \in SysNames |-> system(n).current]
      /\ view' = [channels |-> [ch \in Channels |->
                                  [n \in LimitNames |-> io(ch, n).pretender]],
                  sys |-> [n \in SysNames |-> system(n).pretender]]
  BY Zenon DEF SetupProcessed
<1>2. first \in BOOLEAN
  OBVIOUS
<1> HIDE DEF first
<1>3. ASSUME NEW ch \in Channels, NEW n \in LimitNames
      PROVE  /\ io(ch, n).pretender = io(ch, n).current
             /\ io(ch, n).current \in Int
             /\ io(ch, n).current <= limit[ch][n]
             /\ io(ch, n).current \in {hint.channels[ch][n], limit[ch][n]}
  <2>1. hint.channels[ch][n] \in Int /\ limit[ch][n] \in Int
    BY ConstantsAssumption DEF TypeOK, Limits, HintType
  <2> QED
    BY <1>2, <2>1, TryUpdateEffect
<1>4. ASSUME NEW n \in SysNames
      PROVE  /\ system(n).pretender = system(n).current
             /\ system(n).current \in Int
             /\ system(n).current <= sys[n]
  <2>1. hint.sys[n] \in Int /\ sys[n] \in Int
    BY ConstantsAssumption DEF TypeOK, HintType
  <2> QED
    BY <1>2, <2>1, TryUpdateEffect
<1>5. sysret' \in [code : ReturnCodes, bytes : Nat]
  BY DEF SetupProcessed, Code, ReturnCodes
<1> HIDE DEF io, system
<1>6. limit' \in [Channels -> Limits]
  BY <1>1, <1>3 DEF Limits
<1>7. \A ch \in Channels, n \in LimitNames :
         /\ limit'[ch][n] <= limit[ch][n]
         /\ limit'[ch][n] \in {hint.channels[ch][n], limit[ch][n]}
  BY <1>1, <1>3
<1>8. sys' \in [SysNames -> Int] /\ \A n \in SysNames : sys'[n] <= sys[n]
  BY <1>1, <1>4
<1>9. /\ [ch \in Channels |-> [n \in LimitNames |-> io(ch, n).pretender]] = limit'
      /\ [n \in SysNames |-> system(n).pretender] = sys'
  BY <1>1, <1>3, <1>4
<1> QED
  BY <1>1, <1>5, <1>6, <1>7, <1>8, <1>9, Zenon

-----------------------------------------------------------------------------
(* Type correctness.                                                      *)

LEMMA InitType == Init => TypeOK
<1> SUFFICES ASSUME Init PROVE TypeOK
  OBVIOUS
<1>1. PICK m \in Manifests, len \in [Channels -> FileLengths], s \in SysManifests :
        Mounted(m, len, s)
  BY DEF Init
<1>2. \A ch \in Channels : /\ m[ch] \in ManifestType
                          /\ m[ch].limit \in Limits
                          /\ m[ch].limit["max_size"] \in Int
                          /\ len[ch] \in Int
  <2>1. m \in [Channels -> ManifestType]
    BY ConstantsAssumption
  <2>2. \A ch \in Channels : m[ch] \in ManifestType /\ m[ch].limit \in Limits
    BY <2>1 DEF ManifestType
  <2>3. \A x \in FileLengths : x \in Int
    BY ConstantsAssumption
  <2>4. \A ch \in Channels : len[ch] \in FileLengths
    OBVIOUS
  <2>5. \A ch \in Channels : len[ch] \in Int
    BY <2>3, <2>4
  <2> QED
    BY <2>2, <2>5 DEF Limits, LimitNames
<1>3. limit \in [Channels -> Limits] /\ s \in [SysNames -> Int]
  BY <1>1, <1>2, ConstantsAssumption DEF Mounted
<1>4. ZeroCounts \in [CountNames -> Nat] /\ ZeroCounts \in Counts
  BY DEF ZeroCounts, Counts
<1>5. /\ count \in [Channels -> Counts]
      /\ \A ch \in Channels : info[ch].name => count[ch] \in [CountNames -> Nat]
  BY <1>1, <1>4, ConstantsAssumption DEF Mounted, ConstructChannel
<1>6. ASSUME NEW ch \in Channels
      PROVE  /\ ConstructChannel(ch, m[ch], len[ch])
                  \in [name : BOOLEAN, mounted : Modes, fsize : Int]
             /\ MountedFile(ch, m[ch], len[ch]) \in Int
  BY <1>2 DEF ManifestType, ConstructChannel, MountedSize, MountedFile, PreloadSize,
              PremapSize
<1>7. /\ info \in [Channels -> [name : BOOLEAN, mounted : Modes, fsize : Int]]
      /\ flen \in [Channels -> Int]
  BY <1>1, <1>6 DEF Mounted
<1>8. 0 \in -Half .. Half - 1
  BY ConstantsAssumption
<1>9. sysret \in [code : ReturnCodes, bytes : Nat]
  BY <1>1 DEF Mounted, Code, ReturnCodes
<1> QED
  BY <1>1, <1>3, <1>5, <1>7, <1>8, <1>9 DEF Mounted, TypeOK

LEMMA RealCallType ==
  ASSUME TypeOK, RealCall
  PROVE  cnt_syscalls' \in -Half .. Half - 1 /\ calls' \in [CallKinds -> Nat]
<1>1. cnt_syscalls + 1 \in Int
  BY ConstantsAssumption DEF TypeOK
<1> QED
  BY <1>1, Int32Range DEF RealCall, TypeOK, CallKinds

\* The variables a transfer changes keep their types.
TransferType ==
  /\ count' \in [Channels -> Counts]
  /\ \A ch \in Channels : info[ch].name => count'[ch] \in [CountNames -> Nat]
  /\ flen' \in [Channels -> Int]
  /\ sysret' \in [code : ReturnCodes, bytes : Nat]
  /\ moved' \in [Channels -> [get : Nat, put : Nat]]

LEMMA RefusedType ==
  ASSUME TypeOK, NEW served, NEW ch \in Channels, NEW dir, NEW size, NEW offset,
         RefusedTransfer(Refusal(served, ch, dir, size, offset))
  PROVE  TransferType
<1>1. Refusal(served, ch, dir, size, offset) \in ReturnCodes
  BY DEF Refusal, ReturnCodes
<1> QED
  BY <1>1 DEF RefusedTransfer, Code, TransferType, TypeOK

LEMMA ChargeType ==
  ASSUME TypeOK, NEW ch \in Channels, NEW dir \in {Gets, Puts}, NEW size \in Sizes,
         NEW served, NEW offset, Refusal(served, ch, dir, size, offset) = "none",
         Charge(ch, dir, size)
  PROVE  /\ count' \in [Channels -> Counts]
         /\ \A c \in Channels : info[c].name => count'[c] \in [CountNames -> Nat]
<1>1. Granted(ch, dir, size) \in Nat
  BY GrantedPositive
<1>e. /\ count'[ch][dir.calls] = count[ch][dir.calls] + 1
      /\ count'[ch][dir.bytes] = count[ch][dir.bytes] + Granted(ch, dir, size)
      /\ \A x \in CountNames \ {dir.calls, dir.bytes} : count'[ch][x] = count[ch][x]
      /\ \A x \in Channels \ {ch} : count'[x] = count[x]
  BY ChargeEffect
<1>2. ASSUME NEW c \in Channels, info[c].name, NEW n \in CountNames
      PROVE  count'[c][n] \in Nat
  <2>1. count[c][n] \in Nat
    BY <1>2 DEF TypeOK
  <2>2. CASE c # ch
    BY <1>e, <2>1, <2>2
  <2>3. CASE c = ch /\ n \notin {dir.calls, dir.bytes}
    BY <1>e, <2>1, <2>3
  <2>4. CASE c = ch /\ n = dir.calls
    BY <1>e, <2>1, <2>4
  <2>5. CASE c = ch /\ n = dir.bytes
    BY <1>1, <1>e, <2>1, <2>5
  <2> QED
    BY <2>2, <2>3, <2>4, <2>5
<1>3. count' \in [Channels -> Counts]
  BY ChargeEffect
<1> QED
  BY <1>2, <1>3 DEF Counts

LEMMA FailedType ==
  ASSUME TypeOK, NEW ch \in Channels, NEW dir \in {Gets, Puts}, NEW size \in Sizes,
         NEW served, NEW offset, Refusal(served, ch, dir, size, offset) = "none",
         FailedTransfer(ch, dir, size)
  PROVE  TransferType
<1>1. /\ count' \in [Channels -> Counts]
      /\ \A c \in Channels : info[c].name => count'[c] \in [CountNames -> Nat]
  BY ChargeType DEF FailedTransfer
<1> QED
  BY <1>1 DEF FailedTransfer, Code, ReturnCodes, TransferType, TypeOK

LEMMA ReadType ==
  ASSUME TypeOK, NEW ch \in Channels, NEW size \in Sizes, NEW offset \in Offsets,
         TrapReadHandle(ch, size, offset)
  PROVE  TransferType
<1> DEFINE refusal == Refusal({InputChannel, OutputChannel}, ch, Gets, size, offset)
<1>1. CASE RefusedTransfer(refusal)
  BY <1>1, RefusedType
<1>2. CASE refusal = "none" /\ FailedTransfer(ch, Gets, size)
  BY <1>2, FailedType
<1>3. CASE /\ refusal = "none"
           /\ Charge(ch, Gets, size)
           /\ UNCHANGED flen
           /\ \E n \in 0 .. Granted(ch, Gets, size) :
                /\ sysret' = Bytes(n)
                /\ moved' = [moved EXCEPT ![ch].get = @ + n]
  <2>1. /\ count' \in [Channels -> Counts]
        /\ \A c \in Channels : info[c].name => count'[c] \in [CountNames -> Nat]
    BY <1>3, ChargeType
  <2>2. PICK n \in 0 .. Granted(ch, Gets, size) :
          /\ sysret' = Bytes(n)
          /\ moved' = [moved EXCEPT ![ch].get = @ + n]
    BY <1>3, Zenon
  <2>3. n \in Nat
    BY <1>3, GrantedInt
  <2>4. moved' \in [Channels -> [get : Nat, put : Nat]]
    <3>1. moved \in [Channels -> [get : Nat, put : Nat]]
      BY DEF TypeOK
    <3>2. moved[ch].get + n \in Nat
      BY <1>3, <2>3, <3>1
    <3> QED
      BY <2>2, <3>1, <3>2
  <2> QED
    BY <1>3, <2>1, <2>2, <2>3, <2>4 DEF Bytes, ReturnCodes, TransferType, TypeOK
<1> QED
  BY <1>1, <1>2, <1>3 DEF TrapReadHandle

LEMMA WriteType ==
  ASSUME TypeOK, NEW ch \in Channels, NEW size \in Sizes, NEW offset \in Offsets,
         TrapWriteHandle(ch, size, offset)
  PROVE  TransferType
<1> DEFINE refusal == Refusal({OutputChannel}, ch, Puts, size, offset)
<1>1. CASE RefusedTransfer(refusal)
  BY <1>1, RefusedType
<1>2. CASE refusal = "none" /\ FailedTransfer(ch, Puts, size)
  BY <1>2, FailedType
<1>3. CASE /\ refusal = "none"
           /\ Charge(ch, Puts, size)
           /\ \E n \in 0 .. Granted(ch, Puts, size) :
                /\ sysret' = Bytes(n)
                /\ moved' = [moved EXCEPT ![ch].put = @ + n]
                /\ flen' = [flen EXCEPT ![ch] =
                               IF n > 0 /\ offset + n > @ THEN offset + n ELSE @]
  <2>1. /\ count' \in [Channels -> Counts]
        /\ \A c \in Channels : info[c].name => count'[c] \in [CountNames -> Nat]
    BY <1>3, ChargeType
  <2>2. PICK n \in 0 .. Granted(ch, Puts, size) :
          /\ sysret' = Bytes(n)
          /\ moved' = [moved EXCEPT ![ch].put = @ + n]
          /\ flen' = [flen EXCEPT ![ch] =
                         IF n > 0 /\ offset + n > @ THEN offset + n ELSE @]
    BY <1>3, Zenon
  <2>3. n \in Nat /\ offset \in Int
    BY <1>3, GrantedInt, ConstantsAssumption
  <2>4. moved' \in [Channels -> [get : Nat, put : Nat]]
    <3>1. moved \in [Channels -> [get : Nat, put : Nat]]
      BY DEF TypeOK
    <3>2. moved[ch].put + n \in Nat
      BY <1>3, <2>3, <3>1
    <3> QED
      BY <2>2, <3>1, <3>2
  <2>5. flen' \in [Channels -> Int]
    <3>1. flen \in [Channels -> Int]
      BY DEF TypeOK
    <3> QED
      BY <2>2, <2>3, <3>1
  <2> QED
    BY <2>1, <2>2, <2>3, <2>4, <2>5 DEF Bytes, ReturnCodes, TransferType
<1> QED
  BY <1>1, <1>2, <1>3 DEF TrapWriteHandle

LEMMA SetupType ==
  ASSUME TypeOK, NEW hint \in Hints, Setup(hint)
  PROVE  TypeOK'
<1>1. cnt_setup_calls + 1 \in Int /\ cnt_syscalls + 1 \in Int /\ Half \in Nat
  BY ConstantsAssumption DEF TypeOK
<1>2. Int32(cnt_setup_calls + 1) \in -Half .. Half - 1
  BY <1>1, Int32Range
<1>3. Int32(cnt_syscalls + 1) - 1 \in Int
  BY <1>1, Int32Range
<1>4. Int32(Int32(cnt_syscalls + 1) - 1) \in -Half .. Half - 1
  BY <1>3, Int32Range
<1>5. /\ cnt_setup_calls' \in -Half .. Half - 1
      /\ cnt_syscalls' \in -Half .. Half - 1
  BY <1>2, <1>4 DEF Setup, TrapUserSetupHandle, SyscallsAfterSetup
<1>6. CASE SetupOutOfLimits
  BY <1>5, <1>6 DEF Setup, TrapUserSetupHandle, SetupOutOfLimits, Code, ReturnCodes,
                    CallKinds, TypeOK
<1>7. CASE SetupProcessed(hint)
  <2>1. syscallback' \in Int /\ gsyscallback' \in Int
    <3>1. hint.syscallback \in Int /\ MemStart \in Int
      BY ConstantsAssumption DEF HintType
    <3>2. UpdateSyscallback(hint.syscallback)
      BY <1>7, Zenon DEF SetupProcessed
    <3>3. /\ syscallback' \in {hint.syscallback, 0}
          /\ gsyscallback' \in {hint.syscallback + MemStart, 0}
      BY <3>2 DEF UpdateSyscallback
    <3> QED
      BY <3>1, <3>3
  <2>2. calls' \in [CallKinds -> Nat]
    <3>1. calls' = [calls EXCEPT !["setup"] = @ + 1, !["processed"] = @ + 1]
      BY <1>7 DEF SetupProcessed
    <3>2. calls \in [CallKinds -> Nat]
      BY DEF TypeOK
    <3> QED
      BY <3>1, <3>2 DEF CallKinds
  <2>3. view' \in [channels : [Channels -> Limits], sys : [SysNames -> Int]] \union {NoView}
    BY <1>7, SetupEffect
  <2>4. UNCHANGED <<count, flen, moved, info, phase, origin>>
    BY Zenon DEF Setup, TrapUserSetupHandle
  <2>5. /\ limit' \in [Channels -> Limits]
        /\ sys' \in [SysNames -> Int]
        /\ sysret' \in [code : ReturnCodes, bytes : Nat]
    BY <1>7, SetupEffect, Zenon
  <2> QED
    BY <1>5, <2>1, <2>2, <2>3, <2>4, <2>5 DEF TypeOK
<1> QED
  BY <1>6, <1>7 DEF Setup, TrapUserSetupHandle

\* One step per action of Next.
LEMMA StepType == TypeOK /\ [Next]_vars => TypeOK'
<1> SUFFICES ASSUME TypeOK, [Next]_vars PROVE TypeOK'
  OBVIOUS
<1>1. ASSUME NEW hint \in Hints, Setup(hint) PROVE TypeOK'
  BY <1>1, SetupType
<1>2. ASSUME NEW ch \in Channels, NEW size \in Sizes, NEW offset \in Offsets,
             Read(ch, size, offset)
      PROVE  TypeOK'
  BY <1>2, ReadType, RealCallType DEF Read, TransferType, policyVars, TypeOK
<1>3. ASSUME NEW ch \in Channels, NEW size \in Sizes, NEW offset \in Offsets,
             Write(ch, size, offset)
      PROVE  TypeOK'
  BY <1>3, WriteType, RealCallType DEF Write, TransferType, policyVars, TypeOK
<1>4. CASE Exit
  BY <1>4, RealCallType DEF Exit, policyVars, TypeOK
<1>5. CASE Unsupported
  BY <1>5, RealCallType DEF Unsupported, policyVars, TypeOK, Code, ReturnCodes
<1>6. CASE BadPointer
  BY <1>6, RealCallType DEF BadPointer, policyVars, TypeOK
<1>7. CASE NaClSyscall
  BY <1>7, RealCallType DEF NaClSyscall, policyVars, TypeOK, Code, ReturnCodes
<1>8. CASE Intercepted
  BY <1>8 DEF Intercepted, policyVars, TypeOK, CallKinds
<1>9. CASE UNCHANGED vars
  BY <1>9 DEF vars, TypeOK
<1> QED
  BY <1>1, <1>2, <1>3, <1>4, <1>5, <1>6, <1>7, <1>8, <1>9 DEF Next

\* Every variable of the trap keeps its type, and the counters of a channel
\* the manifest names never become negative.
THEOREM TypeCorrect == Spec => []TypeOK
<1>1. Init => TypeOK
  BY InitType
<1>2. TypeOK /\ [Next]_vars => TypeOK'
  BY StepType
<1> QED
  BY <1>1, <1>2, PTL DEF Spec

-----------------------------------------------------------------------------
(* Setup calls, the syscallback and the accounting of calls.              *)

\* No step raises a limit or gives back spent quota.
THEOREM LimitsOnlyTighten == Spec => PolicyOnlyTightens
<1> DEFINE Tighter ==
      /\ \A ch \in Channels, n \in LimitNames : limit'[ch][n] <= limit[ch][n]
      /\ \A n \in SysNames : sys'[n] <= sys[n]
      /\ \A ch \in Channels, n \in CountNames : count'[ch][n] >= count[ch][n]
<1>1. TypeOK /\ [Next]_vars => [Tighter]_vars
  <2> SUFFICES ASSUME TypeOK, [Next]_vars PROVE Tighter
    OBVIOUS
  <2>1. /\ \A ch \in Channels, n \in LimitNames : limit[ch][n] \in Int
        /\ \A n \in SysNames : sys[n] \in Int
        /\ \A ch \in Channels, n \in CountNames : count[ch][n] \in Int
    BY DEF TypeOK, Limits, Counts
  <2>2. CASE UNCHANGED <<limit, sys, count>>
    BY <2>1, <2>2
  <2>3. ASSUME NEW hint \in Hints, Setup(hint) PROVE Tighter
    <3>1. CASE SetupOutOfLimits
      BY <2>2, <2>3, <3>1 DEF SetupOutOfLimits, Setup, TrapUserSetupHandle
    <3>2. CASE SetupProcessed(hint)
      <4>1. /\ \A ch \in Channels, n \in LimitNames : limit'[ch][n] <= limit[ch][n]
            /\ \A n \in SysNames : sys'[n] <= sys[n]
        BY <3>2, SetupEffect, Zenon
      <4>2. UNCHANGED count
        BY <2>3, Zenon DEF Setup, TrapUserSetupHandle
      <4>3. \A ch \in Channels, n \in CountNames : count'[ch][n] >= count[ch][n]
        BY <2>1, <4>2
      <4> QED
        BY <4>1, <4>3
    <3> QED
      BY <2>3, <3>1, <3>2 DEF Setup, TrapUserSetupHandle
  <2>4. ASSUME NEW ch \in Channels, NEW dir \in {Gets, Puts}, NEW size \in Sizes,
               NEW served, NEW offset, UNCHANGED policyVars,
               Refusal(served, ch, dir, size, offset) = "none", Charge(ch, dir, size)
        PROVE  Tighter
    <3>e. /\ count'[ch][dir.calls] = count[ch][dir.calls] + 1
          /\ count'[ch][dir.bytes] = count[ch][dir.bytes] + Granted(ch, dir, size)
          /\ \A x \in CountNames \ {dir.calls, dir.bytes} : count'[ch][x] = count[ch][x]
          /\ \A x \in Channels \ {ch} : count'[x] = count[x]
      BY <2>4, ChargeEffect
    <3>1. ASSUME NEW c \in Channels, NEW n \in CountNames
          PROVE  count'[c][n] >= count[c][n]
      <4>1. Granted(ch, dir, size) \in Nat
        BY <2>4, GrantedPositive
      <4>2. /\ count[c][n] \in Int
            /\ count[ch][dir.calls] \in Int /\ count[ch][dir.bytes] \in Int
        BY <2>1, DirectionNames
      <4>3. CASE c # ch
        <5>1. count'[c][n] = count[c][n]
          BY <3>e, <4>3
        <5> QED
          BY <4>2, <5>1
      <4>4. CASE c = ch /\ n \notin {dir.calls, dir.bytes}
        <5>1. count'[c][n] = count[c][n]
          BY <3>e, <4>4
        <5> QED
          BY <4>2, <5>1
      <4>5. CASE c = ch /\ n \in {dir.calls, dir.bytes}
        BY <3>e, <4>1, <4>2, <4>5
      <4> QED
        BY <4>3, <4>4, <4>5
    <3>2. UNCHANGED <<limit, sys>>
      BY <2>4 DEF policyVars
    <3>3. /\ \A c \in Channels, n \in LimitNames : limit'[c][n] <= limit[c][n]
          /\ \A n \in SysNames : sys'[n] <= sys[n]
      BY <2>1, <3>2
    <3> QED
      BY <3>1, <3>3
  <2>5. ASSUME NEW ch \in Channels, NEW size \in Sizes, NEW offset \in Offsets,
               Read(ch, size, offset)
        PROVE  Tighter
    BY <2>2, <2>4, <2>5 DEF Read, TrapReadHandle, RefusedTransfer, FailedTransfer, policyVars
  <2>6. ASSUME NEW ch \in Channels, NEW size \in Sizes, NEW offset \in Offsets,
               Write(ch, size, offset)
        PROVE  Tighter
    BY <2>2, <2>4, <2>6 DEF Write, TrapWriteHandle, RefusedTransfer, FailedTransfer, policyVars
  <2>7. CASE Exit \/ Unsupported \/ BadPointer \/ NaClSyscall \/ Intercepted \/ UNCHANGED vars
    <3>1. UNCHANGED <<limit, sys, count>>
      BY <2>7 DEF Exit, Unsupported, BadPointer, NaClSyscall, Intercepted, policyVars, vars
    <3> QED
      BY <2>2, <3>1
  <2> QED
    BY <2>3, <2>5, <2>6, <2>7, Zenon DEF Next
<1> QED
  BY <1>1, TypeCorrect, PTL DEF Spec, PolicyOnlyTightens

\* The local and the global syscallback agree after every call.
THEOREM CallbacksAgree == Spec => []CallbackMirror
<1>1. Init => CallbackMirror
  BY DEF Init, Mounted, CallbackMirror
<1>2. CallbackMirror /\ [Next]_vars => CallbackMirror'
  <2> SUFFICES ASSUME CallbackMirror, [Next]_vars PROVE CallbackMirror'
    OBVIOUS
  <2>1. CASE UNCHANGED <<syscallback, gsyscallback>>
    BY <2>1, Zenon DEF CallbackMirror
  <2>2. ASSUME NEW hint \in Hints, Setup(hint) PROVE CallbackMirror'
    <3>1. CASE SetupOutOfLimits
      BY <2>1, <3>1 DEF SetupOutOfLimits
    <3>2. CASE UpdateSyscallback(hint.syscallback)
      BY <3>2 DEF UpdateSyscallback, Accepted, CallbackMirror
    <3> QED
      BY <2>2, <3>1, <3>2 DEF Setup, TrapUserSetupHandle, SetupProcessed
  <2> QED
    BY <2>1, <2>2 DEF Next, Read, Write, Exit, Unsupported, BadPointer, NaClSyscall,
                      Intercepted, policyVars, vars
<1> QED
  BY <1>1, <1>2, PTL DEF Spec

\* The SetupList of the user shows the limits in force.
THEOREM ViewShowsLimits == Spec => []ViewCurrent
<1>1. Init => ViewCurrent
  BY Zenon DEF Init, Mounted, ViewCurrent
<1>2. TypeOK /\ ViewCurrent /\ [Next]_vars => ViewCurrent'
  <2> SUFFICES ASSUME TypeOK, ViewCurrent, [Next]_vars PROVE ViewCurrent'
    OBVIOUS
  <2>1. CASE UNCHANGED <<limit, sys, view>>
    BY <2>1 DEF ViewCurrent
  <2>2. ASSUME NEW hint \in Hints, Setup(hint) PROVE ViewCurrent'
    <3>1. CASE SetupOutOfLimits
      BY <2>1, <3>1, Zenon DEF SetupOutOfLimits
    <3>2. CASE SetupProcessed(hint)
      <4>1. view' = [channels |-> limit', sys |-> sys']
        BY <3>2, SetupEffect, Zenon
      <4> QED
        BY <4>1, Zenon DEF ViewCurrent
    <3> QED
      BY <2>2, <3>1, <3>2 DEF Setup, TrapUserSetupHandle
  <2> QED
    BY <2>1, <2>2 DEF Next, Read, Write, Exit, Unsupported, BadPointer, NaClSyscall,
                      Intercepted, policyVars, vars
<1> QED
  BY <1>1, <1>2, TypeCorrect, PTL DEF Spec

\* The inductive invariant behind the counting of calls: as long as fewer
\* than 2^31 calls are made neither int32_t counter has wrapped.
CallInv ==
  /\ TotalCalls <= MaxCalls
  /\ cnt_syscalls = calls["real"]
  /\ cnt_setup_calls = calls["setup"]
  /\ calls["processed"] <= calls["setup"]
  /\ sys["max_setup_calls"] <= origin.sys["max_setup_calls"]
  /\ SetupBudget

LEMMA RealCallInv ==
  ASSUME MaxCalls < Half, TypeOK, CallInv, Running, RealCall,
         UNCHANGED <<sys, cnt_setup_calls, origin>>
  PROVE  CallInv'
<1>1. \A k \in CallKinds : calls[k] \in Nat
  BY DEF TypeOK
<1>2. /\ calls["real"] \in Nat /\ calls["setup"] \in Nat /\ calls["intercepted"] \in Nat
      /\ calls["real"] + 1 <= MaxCalls /\ MaxCalls \in Nat /\ Half \in Nat
  BY <1>1, ConstantsAssumption DEF CallKinds, Running, TotalCalls
<1>3. cnt_syscalls' = calls["real"] + 1
  BY <1>2, Int32Id DEF RealCall, CallInv
<1>4. /\ calls'["real"] = calls["real"] + 1
      /\ calls'["setup"] = calls["setup"] /\ calls'["processed"] = calls["processed"]
      /\ calls'["intercepted"] = calls["intercepted"]
  BY DEF RealCall, TypeOK, CallKinds
<1>5. TotalCalls' <= MaxCalls
  BY <1>2, <1>4 DEF Running, TotalCalls
<1> QED
  BY <1>3, <1>4, <1>5 DEF CallInv, SetupBudget

LEMMA SetupCallInv ==
  ASSUME MaxCalls < Half, TypeOK, CallInv, NEW hint \in Hints, Setup(hint)
  PROVE  CallInv'
<1>1. \A k \in CallKinds : calls[k] \in Nat
  BY DEF TypeOK
<1>2. /\ calls["real"] \in Nat /\ calls["setup"] \in Nat /\ calls["intercepted"] \in Nat
      /\ calls["processed"] \in Nat
      /\ calls["real"] + 1 <= MaxCalls /\ calls["setup"] + 1 <= MaxCalls
      /\ MaxCalls \in Nat /\ Half \in Nat
  BY <1>1, ConstantsAssumption DEF CallKinds, Setup, Running, TotalCalls
<1>3. Int32(cnt_setup_calls + 1) = calls["setup"] + 1
  BY <1>2, Int32Id DEF CallInv
<1>4. Int32(cnt_syscalls + 1) = calls["real"] + 1
  BY <1>2, Int32Id DEF CallInv
<1>5. Int32(calls["real"]) = calls["real"]
  BY <1>2, Int32Id
<1>6. cnt_setup_calls' = calls["setup"] + 1 /\ cnt_syscalls' = calls["real"]
  BY <1>2, <1>3, <1>4, <1>5 DEF Setup, TrapUserSetupHandle, SyscallsAfterSetup
<1>7. UNCHANGED origin
  BY DEF Setup
<1>8. CASE SetupOutOfLimits
  <2>1. /\ calls'["real"] = calls["real"] /\ calls'["setup"] = calls["setup"] + 1
        /\ calls'["processed"] = calls["processed"]
        /\ calls'["intercepted"] = calls["intercepted"]
    BY <1>8 DEF SetupOutOfLimits, TypeOK, CallKinds
  <2>2. TotalCalls' <= MaxCalls
    BY <1>2, <2>1 DEF Setup, Running, TotalCalls
  <2>3. UNCHANGED sys
    BY <1>8 DEF SetupOutOfLimits
  <2> QED
    BY <1>2, <1>6, <1>7, <2>1, <2>2, <2>3 DEF CallInv, SetupBudget
<1>9. CASE SetupProcessed(hint)
  <2>0. calls' = [calls EXCEPT !["setup"] = @ + 1, !["processed"] = @ + 1]
    BY <1>9 DEF SetupProcessed
  <2>1. /\ calls'["real"] = calls["real"] /\ calls'["setup"] = calls["setup"] + 1
        /\ calls'["processed"] = calls["processed"] + 1
        /\ calls'["intercepted"] = calls["intercepted"]
    BY <2>0 DEF TypeOK, CallKinds
  <2>2. TotalCalls' <= MaxCalls
    BY <1>2, <2>1 DEF Setup, Running, TotalCalls
  <2>3. /\ sys'["max_setup_calls"] <= sys["max_setup_calls"]
        /\ sys'["max_setup_calls"] \in Int /\ sys["max_setup_calls"] \in Int
        /\ origin.sys["max_setup_calls"] \in Int
    <3>1. "max_setup_calls" \in SysNames
      BY DEF SysNames
    <3>2. /\ sys' \in [SysNames -> Int]
          /\ \A n \in SysNames : sys'[n] <= sys[n]
      BY <1>9, SetupEffect, Zenon
    <3>3. sys \in [SysNames -> Int] /\ origin.sys \in [SysNames -> Int]
      BY DEF TypeOK
    <3> QED
      BY <3>1, <3>2, <3>3
  <2>4. calls["setup"] + 1 <= sys["max_setup_calls"]
    BY <1>2, <1>3, <1>9, <2>3 DEF SetupProcessed, SetupAllowed
  <2>5. calls["processed"] <= calls["setup"]
        /\ sys["max_setup_calls"] <= origin.sys["max_setup_calls"]
    BY Zenon DEF CallInv
  <2>6. calls'["processed"] <= origin.sys["max_setup_calls"]
    BY <1>2, <2>1, <2>3, <2>4, <2>5
  <2>7. SetupBudget'
    BY <1>2, <1>7, <2>1, <2>3, <2>6 DEF SetupBudget, AtLeastZero
  <2>8. cnt_syscalls' = calls'["real"] /\ cnt_setup_calls' = calls'["setup"]
    BY <1>6, <2>1
  <2>9. calls'["processed"] <= calls'["setup"]
    BY <1>2, <2>1, <2>5
  <2>10. sys'["max_setup_calls"] <= origin'.sys["max_setup_calls"]
    BY <1>7, <2>3, <2>5
  <2> QED
    BY <2>2, <2>7, <2>8, <2>9, <2>10, Zenon DEF CallInv
<1> QED
  BY <1>8, <1>9 DEF Setup, TrapUserSetupHandle

LEMMA CallInvInductive ==
  ASSUME MaxCalls < Half
  PROVE  Spec => []CallInv
<1>1. Init => CallInv
  <2> SUFFICES ASSUME Init PROVE CallInv
    OBVIOUS
  <2>1. PICK m \in Manifests, len \in [Channels -> FileLengths], s \in SysManifests :
          Mounted(m, len, s)
    BY DEF Init
  <2>2. s \in [SysNames -> Int] /\ MaxCalls \in Nat
    BY ConstantsAssumption
  <2>3. \A k \in {"real", "setup", "intercepted", "processed"} : calls[k] = 0
    BY <2>1 DEF Mounted, CallKinds
  <2>4. /\ cnt_syscalls = 0 /\ cnt_setup_calls = 0
        /\ sys["max_setup_calls"] = origin.sys["max_setup_calls"]
        /\ origin.sys["max_setup_calls"] \in Int
    BY <2>1, <2>2 DEF Mounted, SysNames
  <2> QED
    BY <2>2, <2>3, <2>4 DEF CallInv, TotalCalls, SetupBudget, AtLeastZero
<1>2. TypeOK /\ CallInv /\ [Next]_vars => CallInv'
  <2> SUFFICES ASSUME TypeOK, CallInv, [Next]_vars PROVE CallInv'
    OBVIOUS
  <2>1. ASSUME NEW hint \in Hints, Setup(hint) PROVE CallInv'
    BY <2>1, SetupCallInv
  <2>2. CASE Running /\ RealCall /\ UNCHANGED <<sys, cnt_setup_calls, origin>>
    BY <2>2, RealCallInv, Zenon
  <2>3. CASE Intercepted
    <3>1. \A k \in CallKinds : calls[k] \in Nat
      BY DEF TypeOK
    <3>2. /\ calls'["intercepted"] = calls["intercepted"] + 1
          /\ \A k \in {"real", "setup", "processed"} : calls'[k] = calls[k]
      BY <2>3 DEF Intercepted, TypeOK, CallKinds
    <3>3. TotalCalls' <= MaxCalls
      <4>1. TotalCalls + 1 <= MaxCalls /\ MaxCalls \in Nat
        BY <2>3, <3>1, ConstantsAssumption DEF Intercepted, Running, TotalCalls, CallKinds
      <4>2. calls["real"] \in Nat /\ calls["setup"] \in Nat /\ calls["intercepted"] \in Nat
        BY <3>1 DEF CallKinds
      <4> QED
        BY <3>2, <4>1, <4>2 DEF TotalCalls
    <3> QED
      BY <2>3, <3>2, <3>3 DEF CallInv, SetupBudget, Intercepted, policyVars
  <2>4. CASE UNCHANGED vars
    BY <2>4 DEF vars, CallInv, TotalCalls, SetupBudget
  <2> QED
    BY <2>1, <2>2, <2>3, <2>4 DEF Next, Read, Write, Exit, Unsupported, BadPointer,
                                  NaClSyscall, policyVars
<1> QED
  BY <1>1, <1>2, TypeCorrect, PTL DEF Spec

\* In a session of fewer than 2^31 calls no more setup calls are processed
\* than the manifest allows.
THEOREM SetupBudgetKept ==
  ASSUME MaxCalls < Half
  PROVE  Spec => []SetupBudget
<1>1. CallInv => SetupBudget
  BY DEF CallInv
<1> QED
  BY <1>1, CallInvInductive, PTL

\* In a session of fewer than 2^31 calls cnt_syscalls is the number of real
\* system calls.
THEOREM CallsCounted ==
  ASSUME MaxCalls < Half
  PROVE  Spec => []CallsAccounted
<1>1. TypeOK /\ CallInv => CallsAccounted
  <2> SUFFICES ASSUME TypeOK, CallInv PROVE CallsAccounted
    OBVIOUS
  <2>1. \A k \in CallKinds : calls[k] \in Nat
    BY DEF TypeOK
  <2>2. calls["setup"] \in Nat /\ calls["real"] \in Nat /\ calls["intercepted"] \in Nat
    BY <2>1, Zenon DEF CallKinds
  <2>3. calls["setup"] + calls["real"] + calls["intercepted"] <= MaxCalls
    BY Zenon DEF CallInv, TotalCalls
  <2>4. MaxCalls \in Nat /\ Half \in Nat
    BY ConstantsAssumption, Zenon
  <2>5. calls["real"] <= MaxCalls
    BY <2>2, <2>3, <2>4
  <2> QED
    BY <2>2, <2>4, <2>5, Int32Id DEF CallInv, CallsAccounted
<1> QED
  BY <1>1, CallInvInductive, TypeCorrect, PTL
=============================================================================
