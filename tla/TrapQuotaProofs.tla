-------------------------- MODULE TrapQuotaProofs ---------------------------
(***************************************************************************)
(* The quota of Trap: no channel exceeds the limits of its manifest, when  *)
(* the byte limits lie close enough together for the conversion of the     *)
(* tail to int32_t to be exact.                                            *)
(***************************************************************************)
EXTENDS TrapProofs

ByteLimits == {"max_get_size", "max_put_size"}

\* The byte limits of manifests and hints are so close together that the tail
\* of a quota, limit - count, always fits an int32_t when it is negative.
NarrowSafe ==
  \A ch \in Channels, b \in ByteLimits :
    /\ \A h \in Hints : h.channels[ch][b] >= -Half
    /\ \A m \in Manifests :
         /\ m[ch].limit[b] >= -Half
         /\ \A h \in Hints : m[ch].limit[b] - h.channels[ch][b] <= Half

\* The inductive invariant of one direction of one channel.
QuotaOf(ch, dir) ==
  /\ limit[ch][dir.maxCalls] <= origin.channels[ch][dir.maxCalls]
  /\ limit[ch][dir.maxBytes] <= origin.channels[ch][dir.maxBytes]
  /\ limit[ch][dir.maxBytes] >= -Half
  /\ origin.channels[ch][dir.maxBytes] - limit[ch][dir.maxBytes] <= Half
  /\ \A h \in Hints : origin.channels[ch][dir.maxBytes] - h.channels[ch][dir.maxBytes] <= Half
  /\ count[ch][dir.calls] <= AtLeastZero(origin.channels[ch][dir.maxCalls])
  /\ count[ch][dir.bytes] <= AtLeastZero(origin.channels[ch][dir.maxBytes])

QuotaInv ==
  \A ch \in Channels : info[ch].name =>
    /\ QuotaOf(ch, Gets)
    /\ QuotaOf(ch, Puts)
    /\ moved[ch].get <= count[ch]["cnt_get_size"]
    /\ moved[ch].put <= count[ch]["cnt_put_size"]

LEMMA QuotaTypes ==
  ASSUME TypeOK, NEW ch \in Channels, NEW dir \in {Gets, Puts}
  PROVE  /\ limit[ch][dir.maxCalls] \in Int /\ limit[ch][dir.maxBytes] \in Int
         /\ origin.channels[ch][dir.maxCalls] \in Int
         /\ origin.channels[ch][dir.maxBytes] \in Int
         /\ count[ch][dir.calls] \in Int /\ count[ch][dir.bytes] \in Int
         /\ \A h \in Hints : h.channels[ch][dir.maxBytes] \in Int
         /\ dir.maxBytes \in ByteLimits
<1>1. /\ limit[ch] \in Limits /\ origin.channels[ch] \in Limits /\ count[ch] \in Counts
  BY DEF TypeOK
<1>2. \A h \in Hints : h.channels[ch] \in Limits
  BY ConstantsAssumption DEF HintType
<1>3. dir.maxBytes \in ByteLimits
  BY DEF Gets, Puts, ByteLimits
<1> QED
  BY <1>1, <1>2, <1>3, DirectionNames DEF Limits, Counts

\* A granted transfer ends within the limits in force.
LEMMA GrantedWithin ==
  ASSUME TypeOK, NEW ch \in Channels, NEW dir \in {Gets, Puts}, NEW size \in Sizes,
         NEW served, NEW offset, Refusal(served, ch, dir, size, offset) = "none",
         QuotaOf(ch, dir)
  PROVE  /\ count[ch][dir.calls] + 1 <= limit[ch][dir.maxCalls]
         /\ count[ch][dir.bytes] + Granted(ch, dir, size) <= limit[ch][dir.maxBytes]
<1> DEFINE tail == limit[ch][dir.maxBytes] - count[ch][dir.bytes]
<1>1. /\ tail \in Int /\ size \in Int /\ size < Half /\ Half \in Nat
  BY QuotaTypes, ConstantsAssumption
<1>2. tail >= -Half
  <2>1. /\ limit[ch][dir.maxBytes] \in Int /\ count[ch][dir.bytes] \in Int
        /\ origin.channels[ch][dir.maxBytes] \in Int
    BY QuotaTypes, Zenon
  <2>2. /\ limit[ch][dir.maxBytes] >= -Half
        /\ origin.channels[ch][dir.maxBytes] - limit[ch][dir.maxBytes] <= Half
        /\ count[ch][dir.bytes] <= AtLeastZero(origin.channels[ch][dir.maxBytes])
    BY Zenon DEF QuotaOf
  <2> QED
    BY <1>1, <2>1, <2>2 DEF AtLeastZero
<1>3. Granted(ch, dir, size) = IF size > tail THEN Int32(tail) ELSE size
  BY DEF Granted
<1>4. Granted(ch, dir, size) <= tail /\ Granted(ch, dir, size) \in Int
  <2>1. CASE size > tail
    <3>1. Int32(tail) = tail
      BY <1>1, <1>2, <2>1, Int32Id
    <3> QED
      BY <1>1, <1>3, <2>1, <3>1
  <2>2. CASE ~(size > tail)
    BY <1>1, <1>3, <2>2
  <2> QED
    BY <2>1, <2>2
<1>5. count[ch][dir.calls] + 1 <= limit[ch][dir.maxCalls]
  BY GrantedPositive, QuotaTypes
<1> QED
  BY <1>4, <1>5, QuotaTypes

\* Charging keeps the quota of both directions of every channel.
LEMMA ChargeQuota ==
  ASSUME TypeOK, NEW ch \in Channels, NEW dir \in {Gets, Puts}, NEW size \in Sizes,
         NEW served, NEW offset, Refusal(served, ch, dir, size, offset) = "none",
         Charge(ch, dir, size), UNCHANGED <<limit, origin>>,
         NEW c \in Channels, NEW d \in {Gets, Puts}, QuotaOf(c, d)
  PROVE  QuotaOf(c, d)'
<1>e. /\ count'[ch][dir.calls] = count[ch][dir.calls] + 1
      /\ count'[ch][dir.bytes] = count[ch][dir.bytes] + Granted(ch, dir, size)
      /\ \A x \in CountNames \ {dir.calls, dir.bytes} : count'[ch][x] = count[ch][x]
      /\ \A x \in Channels \ {ch} : count'[x] = count[x]
  BY ChargeEffect
<1>1. CASE c # ch
  <2>1. count'[c] = count[c]
    BY <1>1, <1>e
  <2> QED
    BY <2>1 DEF QuotaOf
<1>2. CASE c = ch /\ d # dir
  <2>1. d.calls \in CountNames \ {dir.calls, dir.bytes}
        /\ d.bytes \in CountNames \ {dir.calls, dir.bytes}
    BY <1>2 DEF Gets, Puts, CountNames
  <2>2. count'[c][d.calls] = count[c][d.calls] /\ count'[c][d.bytes] = count[c][d.bytes]
    BY <1>2, <1>e, <2>1
  <2> QED
    BY <2>2 DEF QuotaOf
<1>3. CASE c = ch /\ d = dir
  <2>1. QuotaOf(ch, dir)
    BY <1>3
  <2>2. /\ count'[ch][dir.calls] = count[ch][dir.calls] + 1
        /\ count'[ch][dir.bytes] = count[ch][dir.bytes] + Granted(ch, dir, size)
    BY <1>e
  <2>3. /\ count'[ch][dir.calls] <= limit[ch][dir.maxCalls]
        /\ count'[ch][dir.bytes] <= limit[ch][dir.maxBytes]
    <3>1. /\ count[ch][dir.calls] + 1 <= limit[ch][dir.maxCalls]
          /\ count[ch][dir.bytes] + Granted(ch, dir, size) <= limit[ch][dir.maxBytes]
      BY <2>1, GrantedWithin, Zenon
    <3> QED
      BY <2>2, <3>1
  <2>4. count'[ch][dir.calls] \in Int /\ count'[ch][dir.bytes] \in Int
    BY <2>2, QuotaTypes, GrantedInt
  <2>5. /\ count'[ch][dir.calls] <= AtLeastZero(origin.channels[ch][dir.maxCalls])
        /\ count'[ch][dir.bytes] <= AtLeastZero(origin.channels[ch][dir.maxBytes])
    <3>1. /\ limit[ch][dir.maxCalls] <= origin.channels[ch][dir.maxCalls]
          /\ limit[ch][dir.maxBytes] <= origin.channels[ch][dir.maxBytes]
      BY <2>1, Zenon DEF QuotaOf
    <3>2. /\ limit[ch][dir.maxCalls] \in Int /\ limit[ch][dir.maxBytes] \in Int
          /\ origin.channels[ch][dir.maxCalls] \in Int
          /\ origin.channels[ch][dir.maxBytes] \in Int
      BY QuotaTypes, Zenon
    <3> QED
      BY <2>3, <2>4, <3>1, <3>2 DEF AtLeastZero
  <2> QED
    BY <1>3, <2>1, <2>5 DEF QuotaOf
<1> QED
  BY <1>1, <1>2, <1>3

LEMMA InitQuota == NarrowSafe /\ Init => QuotaInv
<1> SUFFICES ASSUME NarrowSafe, Init, NEW ch \in Channels, info[ch].name
             PROVE  /\ QuotaOf(ch, Gets) /\ QuotaOf(ch, Puts)
                    /\ moved[ch].get <= count[ch]["cnt_get_size"]
                    /\ moved[ch].put <= count[ch]["cnt_put_size"]
  BY DEF QuotaInv
<1>1. PICK m \in Manifests, len \in [Channels -> FileLengths], s \in SysManifests :
        Mounted(m, len, s)
  BY DEF Init
<1>2. TypeOK
  BY InitType
<1>3. limit[ch] = m[ch].limit /\ origin.channels[ch] = m[ch].limit /\ m[ch].name
  BY <1>1 DEF Mounted, ConstructChannel
<1>4. count[ch] = ZeroCounts
  BY <1>1, <1>3 DEF Mounted
<1>5. \A n \in CountNames : count[ch][n] = 0
  BY <1>4 DEF ZeroCounts
<1>6. ASSUME NEW dir \in {Gets, Puts} PROVE QuotaOf(ch, dir)
  <2>1. count[ch][dir.calls] = 0 /\ count[ch][dir.bytes] = 0
    BY <1>5, DirectionNames
  <2>2. /\ limit[ch][dir.maxBytes] >= -Half
        /\ \A h \in Hints : origin.channels[ch][dir.maxBytes] - h.channels[ch][dir.maxBytes] <= Half
    BY <1>2, <1>3, QuotaTypes DEF NarrowSafe
  <2>3. /\ limit[ch] = origin.channels[ch]
        /\ origin.channels[ch][dir.maxCalls] \in Int
        /\ origin.channels[ch][dir.maxBytes] \in Int
        /\ Half \in Nat
    BY <1>2, <1>3, QuotaTypes, ConstantsAssumption
  <2>4. /\ 0 <= AtLeastZero(origin.channels[ch][dir.maxCalls])
        /\ 0 <= AtLeastZero(origin.channels[ch][dir.maxBytes])
    BY <2>3 DEF AtLeastZero
  <2> QED
    BY <2>1, <2>2, <2>3, <2>4 DEF QuotaOf
<1>7. moved[ch].get = 0 /\ moved[ch].put = 0
  BY <1>1 DEF Mounted
<1> QED
  BY <1>5, <1>6, <1>7 DEF CountNames

\* A step that leaves the channels' records alone keeps the invariant.
LEMMA QuietQuota ==
  ASSUME QuotaInv, UNCHANGED <<limit, count, info, origin, moved>>
  PROVE  QuotaInv'
<1>1. ASSUME NEW ch \in Channels, NEW dir, QuotaOf(ch, dir) PROVE QuotaOf(ch, dir)'
  BY <1>1 DEF QuotaOf
<1> QED
  BY <1>1 DEF QuotaInv

LEMMA SetupQuota ==
  ASSUME NarrowSafe, TypeOK, QuotaInv, NEW hint \in Hints, Setup(hint)
  PROVE  QuotaInv'
<1>1. UNCHANGED <<count, info, origin, moved>>
  BY DEF Setup, TrapUserSetupHandle
<1>2. CASE SetupOutOfLimits
  <2>1. UNCHANGED limit
    BY <1>2 DEF SetupOutOfLimits
  <2> QED
    BY <1>1, <2>1, QuietQuota
<1>3. CASE SetupProcessed(hint)
  <2>1. ASSUME NEW ch \in Channels, NEW dir \in {Gets, Puts}, QuotaOf(ch, dir)
        PROVE  QuotaOf(ch, dir)'
    <3>1. /\ limit'[ch][dir.maxCalls] <= limit[ch][dir.maxCalls]
          /\ limit'[ch][dir.maxBytes] <= limit[ch][dir.maxBytes]
          /\ limit'[ch][dir.maxBytes] \in {hint.channels[ch][dir.maxBytes], limit[ch][dir.maxBytes]}
      <4>1. dir.maxCalls \in LimitNames /\ dir.maxBytes \in LimitNames
        BY DirectionNames
      <4> QED
        BY <1>3, <4>1, SetupEffect, Zenon
    <3>2. limit'[ch][dir.maxCalls] \in Int /\ limit'[ch][dir.maxBytes] \in Int
      BY <1>3, SetupEffect, DirectionNames DEF Limits
    <3>3. hint.channels[ch][dir.maxBytes] >= -Half
      BY QuotaTypes DEF NarrowSafe
    <3>4. /\ limit[ch][dir.maxBytes] >= -Half
          /\ origin.channels[ch][dir.maxBytes] - limit[ch][dir.maxBytes] <= Half
          /\ origin.channels[ch][dir.maxBytes] - hint.channels[ch][dir.maxBytes] <= Half
      BY <2>1 DEF QuotaOf
    <3>5. /\ limit'[ch][dir.maxBytes] >= -Half
          /\ origin.channels[ch][dir.maxBytes] - limit'[ch][dir.maxBytes] <= Half
      BY <3>1, <3>3, <3>4
    <3>6. /\ limit'[ch][dir.maxCalls] <= origin.channels[ch][dir.maxCalls]
          /\ limit'[ch][dir.maxBytes] <= origin.channels[ch][dir.maxBytes]
      <4>1. /\ limit[ch][dir.maxCalls] <= origin.channels[ch][dir.maxCalls]
            /\ limit[ch][dir.maxBytes] <= origin.channels[ch][dir.maxBytes]
        BY <2>1 DEF QuotaOf
      <4>2. /\ limit[ch][dir.maxCalls] \in Int /\ limit[ch][dir.maxBytes] \in Int
            /\ origin.channels[ch][dir.maxCalls] \in Int
            /\ origin.channels[ch][dir.maxBytes] \in Int
        BY QuotaTypes
      <4> QED
        BY <3>1, <3>2, <4>1, <4>2
    <3> QED
      BY <1>1, <2>1, <3>5, <3>6 DEF QuotaOf
  <2> QED
    BY <1>1, <2>1 DEF QuotaInv
<1> QED
  BY <1>2, <1>3 DEF Setup, TrapUserSetupHandle

\* The transfer itself moves no more bytes than were charged.
LEMMA TransferQuota ==
  ASSUME TypeOK, QuotaInv, NEW ch \in Channels, NEW dir \in {Gets, Puts}, NEW size \in Sizes,
         NEW served, NEW offset, Refusal(served, ch, dir, size, offset) = "none",
         Charge(ch, dir, size), UNCHANGED <<limit, origin, info>>,
         NEW n \in 0 .. Granted(ch, dir, size),
         \/ UNCHANGED moved
         \/ dir = Gets /\ moved' = [moved EXCEPT ![ch].get = @ + n]
         \/ dir = Puts /\ moved' = [moved EXCEPT ![ch].put = @ + n]
  PROVE  QuotaInv'
<1> SUFFICES ASSUME NEW c \in Channels, info[c].name
             PROVE  /\ QuotaOf(c, Gets)' /\ QuotaOf(c, Puts)'
                    /\ moved'[c].get <= count'[c]["cnt_get_size"]
                    /\ moved'[c].put <= count'[c]["cnt_put_size"]
  BY DEF QuotaInv
<1>1. QuotaOf(c, Gets)' /\ QuotaOf(c, Puts)'
  BY ChargeQuota DEF QuotaInv
<1>2. /\ moved[c].get <= count[c]["cnt_get_size"]
      /\ moved[c].put <= count[c]["cnt_put_size"]
  BY DEF QuotaInv
<1>3. /\ count[c]["cnt_get_size"] \in Int /\ count[c]["cnt_put_size"] \in Int
      /\ moved[c].get \in Nat /\ moved[c].put \in Nat
      /\ Granted(ch, dir, size) \in Nat /\ n \in Nat /\ n <= Granted(ch, dir, size)
  BY GrantedPositive DEF TypeOK, Counts, CountNames
<1>4. CASE c # ch
  <2>1. count'[c] = count[c]
    BY <1>4, ChargeEffect
  <2>2. moved'[c] = moved[c]
    BY <1>4 DEF TypeOK
  <2> QED
    BY <1>1, <1>2, <2>1, <2>2
<1>5. CASE c = ch /\ dir = Gets
  <2>1. count'[c]["cnt_get_size"] = count[c]["cnt_get_size"] + Granted(ch, dir, size)
        /\ count'[c]["cnt_put_size"] = count[c]["cnt_put_size"]
    BY <1>5, ChargeEffect DEF Gets, CountNames
  <2>2. moved'[c].get <= moved[c].get + n /\ moved'[c].put = moved[c].put
        /\ moved'[c].get \in Int
    BY <1>3, <1>5 DEF TypeOK, Gets, Puts
  <2> QED
    BY <1>1, <1>2, <1>3, <2>1, <2>2
<1>6. CASE c = ch /\ dir = Puts
  <2>1. count'[c]["cnt_put_size"] = count[c]["cnt_put_size"] + Granted(ch, dir, size)
        /\ count'[c]["cnt_get_size"] = count[c]["cnt_get_size"]
    BY <1>6, ChargeEffect DEF Puts, CountNames
  <2>2. moved'[c].put <= moved[c].put + n /\ moved'[c].get = moved[c].get
        /\ moved'[c].put \in Int
    BY <1>3, <1>6 DEF TypeOK, Gets, Puts
  <2> QED
    BY <1>1, <1>2, <1>3, <2>1, <2>2
<1> QED
  BY <1>4, <1>5, <1>6

LEMMA QuotaInductive ==
  ASSUME NarrowSafe
  PROVE  Spec => []QuotaInv
<1>1. Init => QuotaInv
  BY InitQuota
<1>2. TypeOK /\ QuotaInv /\ [Next]_vars => QuotaInv'
  <2> SUFFICES ASSUME TypeOK, QuotaInv, [Next]_vars PROVE QuotaInv'
    OBVIOUS
  <2>1. ASSUME NEW hint \in Hints, Setup(hint) PROVE QuotaInv'
    BY <2>1, SetupQuota
  <2>2. CASE UNCHANGED <<limit, count, info, origin, moved>>
    BY <2>2, QuietQuota
  <2>3. ASSUME NEW ch \in Channels, NEW size \in Sizes, NEW offset \in Offsets,
               Read(ch, size, offset)
        PROVE  QuotaInv'
    <3> DEFINE served == {InputChannel, OutputChannel}
    <3>1. UNCHANGED <<limit, origin, info>>
      BY <2>3 DEF Read, policyVars
    <3>2. CASE RefusedTransfer(Refusal(served, ch, Gets, size, offset))
      BY <2>2, <3>1, <3>2 DEF RefusedTransfer
    <3>3. CASE Refusal(served, ch, Gets, size, offset) = "none" /\ FailedTransfer(ch, Gets, size)
      <4>1. 0 \in 0 .. Granted(ch, Gets, size)
        <5>1. Granted(ch, Gets, size) \in Nat
          BY <3>3, GrantedPositive, Zenon
        <5> QED
          BY <5>1
      <4> QED
        BY <3>1, <3>3, <4>1, TransferQuota DEF FailedTransfer
    <3>4. CASE /\ Refusal(served, ch, Gets, size, offset) = "none"
               /\ Charge(ch, Gets, size)
               /\ \E n \in 0 .. Granted(ch, Gets, size) :
                    moved' = [moved EXCEPT ![ch].get = @ + n]
      BY <3>1, <3>4, TransferQuota, Zenon
    <3> QED
      BY <2>3, <3>2, <3>3, <3>4 DEF Read, TrapReadHandle
  <2>4. ASSUME NEW ch \in Channels, NEW size \in Sizes, NEW offset \in Offsets,
               Write(ch, size, offset)
        PROVE  QuotaInv'
    <3> DEFINE served == {OutputChannel}
    <3>1. UNCHANGED <<limit, origin, info>>
      BY <2>4 DEF Write, policyVars
    <3>2. CASE RefusedTransfer(Refusal(served, ch, Puts, size, offset))
      BY <2>2, <3>1, <3>2 DEF RefusedTransfer
    <3>3. CASE Refusal(served, ch, Puts, size, offset) = "none" /\ FailedTransfer(ch, Puts, size)
      <4>1. 0 \in 0 .. Granted(ch, Puts, size)
        BY <3>3, GrantedPositive
      <4> QED
        BY <3>1, <3>3, <4>1, TransferQuota DEF FailedTransfer
    <3>4. CASE /\ Refusal(served, ch, Puts, size, offset) = "none"
               /\ Charge(ch, Puts, size)
               /\ \E n \in 0 .. Granted(ch, Puts, size) :
                    moved' = [moved EXCEPT ![ch].put = @ + n]
      BY <3>1, <3>4, TransferQuota, Zenon
    <3> QED
      BY <2>4, <3>2, <3>3, <3>4 DEF Write, TrapWriteHandle
  <2> QED
    BY <2>1, <2>2, <2>3, <2>4 DEF Next, Exit, Unsupported, BadPointer, NaClSyscall,
                                  Intercepted, policyVars, vars
<1> QED
  BY <1>1, <1>2, TypeCorrect, PTL DEF Spec

\* The quota of the manifest is never exceeded, provided byte limits are
\* close enough together for the narrowing of the tail to be exact.
THEOREM QuotaKept ==
  ASSUME NarrowSafe
  PROVE  Spec => []QuotaRespected
<1>1. QuotaInv => QuotaRespected
  BY DEF QuotaInv, QuotaOf, QuotaRespected, Gets, Puts
<1> QED
  BY <1>1, QuotaInductive, PTL

\* A charge ends within the limits in force when it is made.
LEMMA ChargeWithin ==
  ASSUME TypeOK, NEW ch \in Channels, NEW dir \in {Gets, Puts}, NEW size \in Sizes,
         NEW served, NEW offset, Refusal(served, ch, dir, size, offset) = "none",
         Charge(ch, dir, size),
         NEW c \in Channels, NEW d \in {Gets, Puts}, QuotaOf(c, d)
  PROVE  ChargeWithinLimit(c, d)
<1>e. /\ count'[ch][dir.calls] = count[ch][dir.calls] + 1
      /\ count'[ch][dir.bytes] = count[ch][dir.bytes] + Granted(ch, dir, size)
      /\ \A x \in CountNames \ {dir.calls, dir.bytes} : count'[ch][x] = count[ch][x]
      /\ \A x \in Channels \ {ch} : count'[x] = count[x]
  BY ChargeEffect
<1>1. CASE c # ch
  <2>1. count'[c] = count[c]
    BY <1>1, <1>e
  <2> QED
    BY <2>1 DEF ChargeWithinLimit
<1>2. CASE c = ch /\ d # dir
  <2>1. d.calls \in CountNames \ {dir.calls, dir.bytes}
    BY <1>2 DEF Gets, Puts, CountNames
  <2>2. count'[c][d.calls] = count[c][d.calls]
    BY <1>2, <1>e, <2>1
  <2> QED
    BY <2>2 DEF ChargeWithinLimit
<1>3. CASE c = ch /\ d = dir
  <2>1. QuotaOf(ch, dir)
    BY <1>3
  <2>2. /\ count[ch][dir.calls] + 1 <= limit[ch][dir.maxCalls]
        /\ count[ch][dir.bytes] + Granted(ch, dir, size) <= limit[ch][dir.maxBytes]
    BY <2>1, GrantedWithin, Zenon
  <2> QED
    BY <1>3, <1>e, <2>2 DEF ChargeWithinLimit
<1> QED
  BY <1>1, <1>2, <1>3

\* Under the same condition every charged call ends within the limits in
\* force when it is made.
THEOREM GrantsWithinLimit ==
  ASSUME NarrowSafe
  PROVE  Spec => GrantWithinLimit
<1> DEFINE Within(ch) == info[ch].name => ChargeWithinLimit(ch, Gets) /\ ChargeWithinLimit(ch, Puts)
<1>1. TypeOK /\ QuotaInv /\ [Next]_vars => [\A ch \in Channels : Within(ch)]_vars
  <2> SUFFICES ASSUME TypeOK, QuotaInv, [Next]_vars, NEW c \in Channels, info[c].name,
                      NEW d \in {Gets, Puts}
               PROVE  ChargeWithinLimit(c, d)
    OBVIOUS
  <2>1. CASE UNCHANGED count
    BY <2>1 DEF ChargeWithinLimit
  <2>2. ASSUME NEW ch \in Channels, NEW dir \in {Gets, Puts}, NEW size \in Sizes,
               NEW served, NEW offset,
               Refusal(served, ch, dir, size, offset) = "none", Charge(ch, dir, size)
        PROVE  ChargeWithinLimit(c, d)
    <3>1. QuotaOf(c, d)
      BY DEF QuotaInv
    <3> QED
      BY <2>2, <3>1, ChargeWithin
  <2>3. ASSUME NEW ch \in Channels, NEW size \in Sizes, NEW offset \in Offsets,
               Read(ch, size, offset) \/ Write(ch, size, offset)
        PROVE  ChargeWithinLimit(c, d)
    BY <2>1, <2>2, <2>3 DEF Read, Write, TrapReadHandle, TrapWriteHandle,
                            RefusedTransfer, FailedTransfer
  <2> QED
    BY <2>1, <2>3 DEF Next, Setup, TrapUserSetupHandle, Exit, Unsupported, BadPointer,
                      NaClSyscall, Intercepted, policyVars, vars
<1> QED
  BY <1>1, QuotaInductive, TypeCorrect, PTL DEF Spec, GrantWithinLimit
=============================================================================
