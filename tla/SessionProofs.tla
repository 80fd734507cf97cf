--------------------------- MODULE SessionProofs ---------------------------
(***************************************************************************)
(* Proofs about Session, for any channels, signals, exit codes and width   *)
(* of the cpu counters.                                                    *)
(***************************************************************************)
EXTENDS Session, TLAPS

\* Main's stages behind the named one, up to the program's run.
FromOpen == {"open", "load", "loaded", "mount", "blob", "check", "prealloc", "thread"} \union Running
FromLoaded == FromOpen \ {"open", "load"}
FromMount == FromLoaded \ {"loaded"}
FromCheck == {"check", "prealloc", "thread"} \union Running
FromPrealloc == {"prealloc", "thread"} \union Running
FromThread == {"thread"} \union Running

\* What each step of the preparation leaves for the ones behind it.  Alone,
\* OnlyPreparedRuns says nothing of the stages before the program runs.
PreparedInv ==
  /\ stage \in Stages
  /\ option \in Options /\ manifest \in Manifests
  /\ stage \notin {"parse", "construct", "gone"} => option.validator = "on"
  /\ image = "loaded" => sound
  /\ stage \in FromOpen => handlers = option.signals
  /\ stage \in FromLoaded /\ errcode = "OK" => image = "loaded"
  /\ stage \in FromMount => ~option.fuzz
  /\ stage # "gone" => mounted = named
  /\ stage \in FromCheck /\ errcode = "OK" /\ manifest.blob => blob
  /\ stage \in FromPrealloc => errcode = "OK"
  /\ stage \in FromThread /\ manifest.max_mem => heap

USE DEF Stages, Preparing, Running, Finishing, FromOpen, FromLoaded, FromMount, FromCheck,
        FromPrealloc, FromThread

LEMMA PreparedInit == Init => PreparedInv
  BY DEF Init, PreparedInv, Options, Manifests, Validator

LEMMA PreparedStep == PreparedInv /\ [Next]_vars => PreparedInv'
<1> SUFFICES ASSUME PreparedInv, [Next]_vars PROVE PreparedInv'
  OBVIOUS
<1> USE DEF Goto, Leave, Struck
<1>1. CASE ParseCommandLine
  BY <1>1 DEF ParseCommandLine, PreparedInv, channels, time, result
<1>2. CASE AppCtor
  <2>1. option' \in Options
    BY <1>2 DEF AppCtor, ConstructedOption, PreparedInv, Options, Validator
  <2>2. stage' = "gone" \/ option'.validator = "on"
    BY <1>2 DEF AppCtor, ConstructedOption, PreparedInv, Options
  <2> QED
    BY <1>2, <2>1, <2>2 DEF AppCtor, PreparedInv, channels
<1>3. CASE SignalHandlerInit \/ Qualify \/ SettleSignals
  BY <1>3 DEF SignalHandlerInit, Qualify, SettleSignals, PreparedInv, channels
<1>4. CASE OpenFiles \/ QuitAfterLoad
  BY <1>4 DEF OpenFiles, QuitAfterLoad, PreparedInv, setup, channels
<1>5. CASE LoadNexe
  BY <1>5 DEF LoadNexe, PreparedInv, channels
<1>6. CASE SkipChannel \/ MountChannel \/ MountFails \/ AllMounted
  BY <1>6 DEF SkipChannel, MountChannel, MountFails, AllMounted, PreparedInv, setup, channels
<1>7. CASE LoadBlob
  BY <1>7 DEF LoadBlob, BlobWanted, PreparedInv, channels
<1>8. CASE CheckErrcode \/ PreallocateUserMemory \/ CreateMainThread
  BY <1>8 DEF CheckErrcode, PreallocateUserMemory, CreateMainThread, PreparedInv, setup, channels
<1>9. CASE UserComputes \/ UserWritesLog \/ RuntimeComputes
  BY <1>9 DEF UserComputes, UserWritesLog, RuntimeComputes, PreparedInv, setup, channels, process
<1>10. CASE EnterCall \/ ReturnFromCall \/ Exit
  BY <1>10 DEF EnterCall, ReturnFromCall, Exit, PreparedInv, setup, channels
<1>11. CASE StopClock \/ WriteReport \/ TrimLog \/ ExitProcess
  BY <1>11 DEF StopClock, WriteReport, TrimLog, ExitProcess, PreparedInv, setup, channels
<1>12. CASE Done
  BY <1>12 DEF Done, PreparedInv, channels
<1>13. CASE Signal
  BY <1>13 DEF Signal, PreparedInv, setup, channels
<1>14. CASE UNCHANGED vars
  BY <1>14 DEF vars, setup, channels, process, PreparedInv
<1> QED
  BY <1>1, <1>2, <1>3, <1>4, <1>5, <1>6, <1>7, <1>8, <1>9, <1>10, <1>11, <1>12, <1>13, <1>14
     DEF Next, Prepare, Finish

\* The user program only runs when every step before it succeeded.
THEOREM ProgramIsPrepared == Spec => []OnlyPreparedRuns
<1>1. PreparedInv => OnlyPreparedRuns
  BY DEF PreparedInv, OnlyPreparedRuns
<1> QED
  BY <1>1, PreparedInit, PreparedStep, PTL DEF Spec

-----------------------------------------------------------------------------
(***************************************************************************)
(* The report and the exit status.                                         *)
(***************************************************************************)

\* The exit call is made once, from a running program, and fixes exit_status
\* and ret_code for the rest of main.
ReportInv ==
  /\ stage \in Stages
  /\ exit_status \in Int /\ ret_code \in Int
  /\ stage # "gone" => ended = "no"
  /\ stage \in Preparing \union Running => ~exited
  /\ stage \in {"finish", "report", "trim", "exit"} => exited
  /\ exited => exit_status \in UserCodes
  /\ exited => ret_code = SetjmpValue(exit_status)
  /\ report.written => exited /\ report.user_ret_code = exit_status
  /\ ZeroIsNotSuccess

LEMMA ReportInit == Init => ReportInv
  BY DEF Init, ReportInv, ZeroIsNotSuccess

\* The statuses of a failed step and of a caught signal are not 0.
LEMMA FailureStatus == 1 % 256 # 0 /\ \A s \in 1 .. 127 : (-s) % 256 # 0
  OBVIOUS

LEMMA ReportStep == ReportInv /\ [Next]_vars => ReportInv'
<1> SUFFICES ASSUME ReportInv, [Next]_vars PROVE ReportInv'
  OBVIOUS
<1> USE DEF Goto, Leave
<1>1. CASE ParseCommandLine \/ AppCtor
  BY <1>1 DEF ParseCommandLine, AppCtor, ReportInv, ZeroIsNotSuccess, result
<1>2. CASE SignalHandlerInit \/ Qualify \/ SettleSignals \/ OpenFiles \/ QuitAfterLoad
  BY <1>2 DEF SignalHandlerInit, Qualify, SettleSignals, OpenFiles, QuitAfterLoad, ReportInv,
     ZeroIsNotSuccess, result
<1>3. CASE LoadNexe \/ LoadBlob
  BY <1>3 DEF LoadNexe, LoadBlob, Struck, ReportInv, ZeroIsNotSuccess, result
<1>4. CASE SkipChannel \/ MountChannel \/ MountFails \/ AllMounted \/ CheckErrcode
  BY <1>4 DEF SkipChannel, MountChannel, MountFails, AllMounted, CheckErrcode, ReportInv,
     ZeroIsNotSuccess, result
<1>5. CASE PreallocateUserMemory
  BY <1>5 DEF PreallocateUserMemory, Struck, ReportInv, ZeroIsNotSuccess, result
<1>6. CASE CreateMainThread
  BY <1>6 DEF CreateMainThread, ReportInv, ZeroIsNotSuccess
<1>7. CASE UserComputes \/ UserWritesLog \/ RuntimeComputes
  BY <1>7 DEF UserComputes, UserWritesLog, RuntimeComputes, ReportInv, ZeroIsNotSuccess, result, process
<1>8. CASE EnterCall \/ ReturnFromCall
  BY <1>8 DEF EnterCall, ReturnFromCall, ReportInv, ZeroIsNotSuccess, result
<1>9. CASE Exit
  BY <1>9, SessionAssumption DEF Exit, ReportInv, ZeroIsNotSuccess, SetjmpValue
<1>10. CASE StopClock
  BY <1>10 DEF StopClock, ReportInv, ZeroIsNotSuccess, result
<1>11. CASE WriteReport
  BY <1>11, FailureStatus DEF WriteReport, ReportOf, ReportInv, ZeroIsNotSuccess
<1>12. CASE TrimLog
  BY <1>12, FailureStatus, SessionAssumption DEF TrimLog, Struck, ReportInv, ZeroIsNotSuccess, result
<1>13. CASE ExitProcess \/ Done
  BY <1>13 DEF ExitProcess, Done, ReportInv, ZeroIsNotSuccess, SetjmpValue, result
<1>14. CASE Signal
  BY <1>14, FailureStatus, SessionAssumption DEF Signal, Struck, ReportInv, ZeroIsNotSuccess, result
<1>15. CASE UNCHANGED vars
  BY <1>15 DEF vars, result, process, ReportInv, ZeroIsNotSuccess
<1> QED
  BY <1>1, <1>2, <1>3, <1>4, <1>5, <1>6, <1>7, <1>8, <1>9, <1>10, <1>11, <1>12, <1>13, <1>14, <1>15
     DEF Next, Prepare, Finish

\* A report exists only for a program that made the exit call, and carries the
\* code of that call.
THEOREM ReportIsTruthful == Spec => []ReportTruthful
<1>1. ReportInv => ReportTruthful
  BY DEF ReportInv, ReportTruthful
<1> QED
  BY <1>1, ReportInit, ReportStep, PTL DEF Spec

\* No program that exits with 0 makes the process exit with 0.
THEOREM StatusIsNeverSuccess == Spec => []ZeroIsNotSuccess
<1>1. ReportInv => ZeroIsNotSuccess
  BY DEF ReportInv
<1> QED
  BY <1>1, ReportInit, ReportStep, PTL DEF Spec

-----------------------------------------------------------------------------
(***************************************************************************)
(* The cpu clock: arithmetic modulo the width of the counters.             *)
(***************************************************************************)

LEMMA DivMod ==
  \A a \in Int, m \in Nat \ {0} :
    a \div m \in Int /\ a % m \in 0 .. m - 1 /\ a = m * (a \div m) + (a % m)
  OBVIOUS

LEMMA SmallMultiple ==
  ASSUME NEW m \in Nat \ {0}, NEW k \in Int, -m < m * k, m * k < m
  PROVE  k = 0
<1>1. CASE k >= 1
  BY <1>1
<1>2. CASE k <= -1
  BY <1>2
<1> QED
  BY <1>1, <1>2

\* A quotient and a remainder in range are the only ones.
LEMMA RemainderUnique ==
  ASSUME NEW m \in Nat \ {0}, NEW q \in Int, NEW p \in Int, NEW r \in 0 .. m - 1,
         NEW s \in 0 .. m - 1, m * q + r = m * p + s
  PROVE  r = s
<1>1. m * (q - p) = s - r
  OBVIOUS
<1>2. q - p = 0
  BY <1>1, SmallMultiple
<1> QED
  BY <1>1, <1>2

LEMMA ModShift ==
  ASSUME NEW m \in Nat \ {0}, NEW a \in Int, NEW k \in Int
  PROVE  (a + m * k) % m = a % m
<1>1. a + m * k \in Int
  OBVIOUS
<1>2. /\ a = m * (a \div m) + (a % m)
      /\ a \div m \in Int /\ a % m \in 0 .. m - 1
  BY DivMod
<1>3. /\ a + m * k = m * ((a + m * k) \div m) + ((a + m * k) % m)
      /\ (a + m * k) \div m \in Int /\ (a + m * k) % m \in 0 .. m - 1
  BY <1>1, DivMod
<1>4. m * ((a \div m) + k) = m * (a \div m) + m * k
  BY <1>2
<1>5. m * ((a \div m) + k) + (a % m) = m * ((a + m * k) \div m) + ((a + m * k) % m)
  BY <1>2, <1>3, <1>4
<1> DEFINE q == (a \div m) + k
           r == a % m
           p == (a + m * k) \div m
           s == (a + m * k) % m
<1>6. m * q + r = m * p + s /\ q \in Int /\ p \in Int /\ r \in 0 .. m - 1 /\ s \in 0 .. m - 1
  BY <1>2, <1>3, <1>5
<1> HIDE DEF q, r, p, s
<1>7. r = s
  BY <1>6, RemainderUnique
<1> QED
  BY <1>7 DEF r, s

LEMMA HalfType == Half \in Int /\ 2 * Half \in Nat \ {0}
  BY SessionAssumption

LEMMA WrapShift ==
  ASSUME NEW x \in Int, NEW k \in Int
  PROVE  Wrap(x + (2 * Half) * k) = Wrap(x)
<1> DEFINE m == 2 * Half
           y == x + Half
<1>1. m \in Nat \ {0} /\ y \in Int
  BY HalfType
<1>3. (x + m * k) + Half = y + m * k
  BY HalfType
<1> HIDE DEF m, y
<1>2. (y + m * k) % m = y % m
  BY <1>1, ModShift
<1>4. ((x + m * k) + Half) % m = (x + Half) % m
  BY <1>2, <1>3 DEF y
<1> QED
  BY <1>4 DEF Wrap, m

LEMMA WrapOf ==
  ASSUME NEW x \in Int
  PROVE  /\ Wrap(x) \in -Half .. Half - 1
         /\ \E k \in Int : Wrap(x) = x + (2 * Half) * k
<1> DEFINE m == 2 * Half
           y == x + Half
           q == y \div m
           r == y % m
<1>1. m \in Nat \ {0} /\ y \in Int /\ Wrap(x) = r - Half
  BY HalfType DEF Wrap
<1> HIDE DEF m, y
<1>2. q \in Int /\ r \in 0 .. m - 1 /\ y = m * q + r
  BY <1>1, DivMod
<1> HIDE DEF q, r
<1>3. Wrap(x) \in -Half .. Half - 1
  BY <1>1, <1>2, HalfType DEF m
<1>4. m * (-q) = -(m * q) /\ m * q \in Int
  BY <1>1, <1>2
<1>5. Wrap(x) = x + m * (-q)
  <2>1. x = (m * q + r) - Half
    BY <1>2, HalfType DEF y
  <2> QED
    BY <1>1, <1>2, <1>4, <2>1, HalfType
<1> QED
  BY <1>2, <1>3, <1>5 DEF m

\* Wrapping an operand first changes nothing.
LEMMA WrapAbsorbs ==
  ASSUME NEW x \in Int, NEW y \in Int
  PROVE  /\ Wrap(Wrap(x) + y) = Wrap(x + y)
         /\ Wrap(y - Wrap(x)) = Wrap(y - x)
<1>1. PICK k \in Int : Wrap(x) = x + (2 * Half) * k
  BY WrapOf
<1>2. Half \in Int
  BY SessionAssumption
<1>3. Wrap(x) + y = (x + y) + (2 * Half) * k
  BY <1>1, <1>2
<1>4. y - Wrap(x) = (y - x) + (2 * Half) * (-k)
  BY <1>1, <1>2
<1> QED
  BY <1>3, <1>4, WrapShift

LEMMA WrapSum ==
  ASSUME NEW x \in Int, NEW y \in Int, NEW z \in Int, Wrap(x) = Wrap(y)
  PROVE  Wrap(x + z) = Wrap(y + z)
  BY WrapAbsorbs

\* CpuAccounted with what it needs of the stages between: nothing is counted
\* before the program starts, and during a call the clock has moved on by the
\* time of the call.
CpuInv ==
  /\ stage \in Stages
  /\ clock \in Int /\ user_time \in Int /\ call_time \in Int
  /\ cnt_cpu \in Int /\ cnt_cpu_last \in Int
  /\ stage \in Preparing => cnt_cpu = 0 /\ user_time = 0
  /\ stage \in {"call", "finish"} => Wrap(clock - cnt_cpu_last) = Wrap(call_time)
  /\ CpuAccounted

LEMMA CpuStep == CpuInv /\ [Next]_vars => CpuInv'
<1> SUFFICES ASSUME CpuInv, [Next]_vars PROVE CpuInv'
  OBVIOUS
<1> USE DEF Goto
<1>0. /\ clock \in Int /\ user_time \in Int /\ call_time \in Int
      /\ cnt_cpu \in Int /\ cnt_cpu_last \in Int
  BY DEF CpuInv
<1>t. ASSUME NEW x \in Int PROVE Wrap(x) \in Int
  BY WrapOf, SessionAssumption
<1>1. CASE stage' = "gone" /\ UNCHANGED time
  BY <1>1 DEF time, CpuInv, CpuAccounted
<1>2. CASE UNCHANGED time /\ stage \in Preparing /\ stage' \in Preparing \union {"done"}
  BY <1>2 DEF time, CpuInv, CpuAccounted
<1>3. CASE UNCHANGED time /\ stage \in {"report", "trim"} /\ stage' \in {"trim", "exit", "done"}
  BY <1>3 DEF time, CpuInv, CpuAccounted
<1>4. CASE UNCHANGED <<time, stage>>
  BY <1>4 DEF time, CpuInv, CpuAccounted
<1>5. CASE CreateMainThread
  <2>1. CASE stage' = "done"
    BY <1>5, <2>1 DEF CreateMainThread, CpuInv, CpuAccounted
  <2>2. CASE stage' = "user"
    <3>0. \A c \in StartClocks : c \in Int
      BY SessionAssumption
    <3>1. /\ clock' \in Int /\ cnt_cpu_last' = Wrap(clock')
          /\ cnt_cpu' = 0 /\ user_time' = 0 /\ call_time' = call_time
      BY <1>5, <2>2, <3>0 DEF CreateMainThread, CpuInv
    <3>2. ASSUME NEW c \in Int PROVE Wrap(c - Wrap(c)) = Wrap(0)
      <4>1. c - c = 0
        OBVIOUS
      <4> QED
        BY <4>1, WrapAbsorbs
    <3>3. ASSUME NEW c \in Int PROVE 0 + (c - Wrap(c)) = c - Wrap(c) /\ Wrap(c) \in Int
      BY <1>t
    <3> QED
      BY <2>2, <3>1, <3>2, <3>3, <1>0, <1>t DEF CpuInv, CpuAccounted
  <2> QED
    BY <1>5, <2>1, <2>2 DEF CreateMainThread
<1>6. CASE UserComputes
  <2>1. Wrap((cnt_cpu + (clock - cnt_cpu_last)) + 1) = Wrap(user_time + 1)
    BY <1>6, <1>0, WrapSum DEF UserComputes, CpuInv, CpuAccounted
  <2>2. cnt_cpu + ((clock + 1) - cnt_cpu_last) = (cnt_cpu + (clock - cnt_cpu_last)) + 1
    BY <1>0
  <2> QED
    BY <1>6, <2>1, <2>2, <1>0 DEF UserComputes, CpuInv, CpuAccounted, process
<1>7. CASE EnterCall
  <2>1. cnt_cpu' = Wrap(user_time) /\ cnt_cpu_last' = Wrap(clock) /\ call_time' = 0
    BY <1>7 DEF EnterCall, PauseCpuClock, CpuInv, CpuAccounted
  <2>2. Wrap(clock - Wrap(clock)) = Wrap(0)
    BY <1>0, WrapAbsorbs
  <2> QED
    BY <1>7, <2>1, <2>2, <1>0, <1>t DEF EnterCall, CpuInv, CpuAccounted
<1>8. CASE RuntimeComputes
  <2>0. Wrap(clock - cnt_cpu_last) = Wrap(call_time) /\ clock - cnt_cpu_last \in Int
    BY <1>8, <1>0 DEF RuntimeComputes, CpuInv
  <2>1. Wrap((clock - cnt_cpu_last) + 1) = Wrap(call_time + 1)
    BY <2>0, <1>0, WrapSum
  <2>2. (clock + 1) - cnt_cpu_last = (clock - cnt_cpu_last) + 1
    BY <1>0
  <2> QED
    BY <1>8, <2>1, <2>2, <1>0 DEF RuntimeComputes, CpuInv, CpuAccounted, process
<1>9. CASE ReturnFromCall
  <2>1. cnt_cpu = Wrap(user_time) /\ cnt_cpu_last' = Wrap(clock)
    BY <1>9 DEF ReturnFromCall, CpuInv, CpuAccounted
  <2>2. cnt_cpu + (clock - Wrap(clock)) = (cnt_cpu + clock) - Wrap(clock)
    BY <1>0, <1>t
  <2>3. Wrap((cnt_cpu + clock) - Wrap(clock)) = Wrap((cnt_cpu + clock) - clock)
    BY <1>0, WrapAbsorbs
  <2>4. Wrap(Wrap(user_time) + 0) = Wrap(user_time + 0)
    BY <1>0, WrapAbsorbs
  <2>5. (cnt_cpu + clock) - clock = Wrap(user_time) + 0
    BY <1>0, <1>t, <2>1
  <2> QED
    BY <1>9, <2>1, <2>2, <2>3, <2>4, <2>5, <1>0, <1>t DEF ReturnFromCall, CpuInv, CpuAccounted
<1>10. CASE Exit
  BY <1>10 DEF Exit, time, CpuInv, CpuAccounted
<1>11. CASE StopClock
  <2>1. cnt_cpu = Wrap(user_time) /\ Wrap(clock - cnt_cpu_last) = Wrap(call_time)
    BY <1>11 DEF StopClock, CpuInv, CpuAccounted
  <2>2. Wrap((clock - cnt_cpu_last) + cnt_cpu) = Wrap(call_time + cnt_cpu)
    BY <1>0, <2>1, WrapSum
  <2>3. Wrap(Wrap(user_time) + call_time) = Wrap(user_time + call_time)
    BY <1>0, WrapAbsorbs
  <2>4. /\ cnt_cpu + (clock - cnt_cpu_last) = (clock - cnt_cpu_last) + cnt_cpu
        /\ call_time + cnt_cpu = Wrap(user_time) + call_time
    BY <1>0, <1>t, <2>1
  <2>5. cnt_cpu' = Wrap(user_time + call_time) /\ cnt_cpu_last' = Wrap(clock)
    BY <1>11, <2>2, <2>3, <2>4 DEF StopClock, PauseCpuClock
  <2> QED
    BY <1>11, <2>5, <1>0, <1>t DEF StopClock, CpuInv, CpuAccounted
<1>12. CASE Prepare
  <2>1. CASE ParseCommandLine \/ AppCtor \/ SignalHandlerInit \/ Qualify \/ SettleSignals \/ OpenFiles
    BY <1>1, <1>2, <2>1 DEF ParseCommandLine, AppCtor, SignalHandlerInit, Qualify, SettleSignals, OpenFiles,
       Leave
  <2>2. CASE LoadNexe \/ QuitAfterLoad \/ LoadBlob \/ CheckErrcode \/ PreallocateUserMemory
    BY <1>1, <1>2, <2>2 DEF LoadNexe, QuitAfterLoad, LoadBlob, CheckErrcode, PreallocateUserMemory, Leave,
       Struck
  <2>3. CASE SkipChannel \/ MountChannel \/ MountFails \/ AllMounted
    BY <1>1, <1>2, <2>3 DEF SkipChannel, MountChannel, MountFails, AllMounted, Leave
  <2> QED
    BY <1>5, <1>12, <2>1, <2>2, <2>3 DEF Prepare
<1>13. CASE WriteReport \/ TrimLog \/ ExitProcess \/ Done \/ Signal
  BY <1>1, <1>3, <1>13 DEF WriteReport, TrimLog, ExitProcess, Done, Signal, Leave, Struck
<1>14. CASE UserWritesLog \/ UNCHANGED vars
  BY <1>4, <1>14 DEF UserWritesLog, vars, process
<1> QED
  BY <1>6, <1>7, <1>8, <1>9, <1>10, <1>11, <1>12, <1>13, <1>14 DEF Next, Finish

\* cnt_cpu counts the cpu time of the user program, and of it alone, modulo the
\* width of the counter, whatever that width is.
THEOREM CpuTimeIsAccounted == Spec => []CpuAccounted
<1>1. ASSUME Init PROVE CpuInv
  <2>1. /\ stage = "parse" /\ clock = 0 /\ cnt_cpu = 0 /\ cnt_cpu_last = 0
        /\ user_time = 0 /\ call_time = 0
    BY <1>1 DEF Init
  <2> QED
    BY <2>1 DEF CpuInv, CpuAccounted, Stages, Preparing
<1>2. CpuInv => CpuAccounted
  BY DEF CpuInv
<1> QED
  BY <1>1, <1>2, CpuStep, PTL DEF Spec

-----------------------------------------------------------------------------
(***************************************************************************)
(* The user log.                                                           *)
(***************************************************************************)

\* LogTrimmed, and that the text stays within the log: mounting finds one that
\* fits, and the program writes through a mapping of LogMax bytes.
LogInv ==
  /\ stage \in Stages
  /\ log_text \in 0 .. LogMax
  /\ LogTrimmed

LEMMA LogStep == LogInv /\ [Next]_vars => LogInv'
<1> SUFFICES ASSUME LogInv, [Next]_vars PROVE LogInv'
  OBVIOUS
<1> USE DEF Goto
<1>1. CASE log_text' \in 0 .. LogMax /\ stage' \in Stages \ {"exit"}
  BY <1>1 DEF LogInv, LogTrimmed
<1>2. CASE Prepare
  <2>1. CASE ParseCommandLine \/ AppCtor \/ SignalHandlerInit \/ Qualify \/ SettleSignals \/ OpenFiles
    BY <1>1, <2>1 DEF ParseCommandLine, AppCtor, SignalHandlerInit, Qualify, SettleSignals, OpenFiles,
       Leave, log, LogInv
  <2>2. CASE LoadNexe \/ QuitAfterLoad \/ LoadBlob \/ CheckErrcode \/ PreallocateUserMemory
    BY <1>1, <2>2 DEF LoadNexe, QuitAfterLoad, LoadBlob, CheckErrcode, PreallocateUserMemory, Leave,
       Struck, log, LogInv
  <2>3. CASE SkipChannel \/ MountChannel \/ MountFails \/ AllMounted \/ CreateMainThread
    BY <1>1, <2>3 DEF SkipChannel, MountChannel, MountFails, AllMounted, CreateMainThread, Leave, log,
       LogInv
  <2> QED
    BY <1>2, <2>1, <2>2, <2>3 DEF Prepare
<1>3. CASE UserComputes \/ UserWritesLog \/ EnterCall \/ RuntimeComputes \/ ReturnFromCall \/ Exit
  BY <1>1, <1>3 DEF UserComputes, UserWritesLog, EnterCall, RuntimeComputes, ReturnFromCall, Exit, log,
     process, LogInv
<1>4. CASE StopClock \/ WriteReport \/ ExitProcess \/ Done \/ Signal
  BY <1>1, <1>4 DEF StopClock, WriteReport, ExitProcess, Done, Signal, Leave, Struck, log, LogInv
<1>5. CASE TrimLog
  <2>1. log_text' = log_text /\ log_buffer' = log_buffer
    BY <1>5 DEF TrimLog
  <2>2. CASE stage' # "exit"
    BY <1>1, <1>5, <2>1, <2>2 DEF TrimLog, Leave, Struck, LogInv
  <2>3. CASE stage' = "exit" /\ log_buffer # "mapped"
    BY <2>1, <2>3 DEF LogInv, LogTrimmed
  <2>4. CASE stage' = "exit" /\ log_buffer = "mapped"
    <3>1. PICK n \in LogLengths : log_len' = TrimmedTo(n)
      BY <1>5, <2>4 DEF TrimLog, Leave, Struck
    <3>2. /\ log_text < LogMax => n = log_text
          /\ log_text = LogMax => n \in {LogMax, LogMax + 1}
      BY <2>4, <3>1 DEF LogLengths
    <3>3. log_text \in 0 .. LogMax /\ LogMax \in Nat \ {0}
      BY SessionAssumption DEF LogInv
    <3> QED
      BY <2>1, <2>4, <3>1, <3>2, <3>3 DEF TrimmedTo, Removed, LogInv, LogTrimmed
  <2> QED
    BY <2>2, <2>3, <2>4
<1>6. CASE UNCHANGED vars
  BY <1>6 DEF vars, log, process, LogInv, LogTrimmed
<1> QED
  BY <1>2, <1>3, <1>4, <1>5, <1>6 DEF Next, Finish

\* A session that reaches the end of main with the log still mapped has cut its
\* file to the text in it, for every size of the log.
THEOREM LogIsTrimmed == Spec => []LogTrimmed
<1>1. Init => LogInv
  BY SessionAssumption DEF Init, LogInv, LogTrimmed
<1>2. LogInv => LogTrimmed
  BY DEF LogInv
<1> QED
  BY <1>1, <1>2, LogStep, PTL DEF Spec
=============================================================================
