------------------------------ MODULE Session ------------------------------
(***************************************************************************)
(* One run of the ZeroVM process: main (sel_main.c) from the command line  *)
(* to the exit status, with the failures of every step, the signals, the   *)
(* cpu clock of the user program, the report and the user log.             *)
(*                                                                         *)
(* What loading, mounting and the system calls do inside is the business   *)
(* of Loader, DynText, Trap and VmMap; here each is one step with the ways *)
(* it can end.  A step that fails a COND_ABORT exits with 1, one that      *)
(* fails an assert or logs LOG_FATAL aborts.                               *)
(***************************************************************************)
EXTENDS Integers

CONSTANTS
  NChannels,    \* CHANNELS_COUNT
  LogChannel,   \* index of the user log among the channels
  NetChannels,  \* the network channels, which this build cannot mount
  LogMax,       \* max_size of the user log, a multiple of the page size
  UserCodes,    \* codes the user program may exit with
  Signals,      \* signals that may arrive
  Caught,       \* s_Signals, the ones ZeroVM installs its handler for
  SIGABRT, SIGSEGV,
  Half,         \* 2^31: cnt_cpu and cnt_cpu_last are -Half .. Half - 1
  StartClocks,  \* cpu time the process may have used when the program starts
  MaxClock      \* bound on the cpu time of a behaviour

VARIABLES
  stage,        \* where main is
  option,       \* what the command line set in NaClApp
  manifest,     \* which of the optional keys the manifest has
  errcode,      \* main's errcode
  handlers,     \* ZeroVM's signal handlers are installed
  image,        \* the nexe in memory: "none", "partly" or "loaded"
  blob,         \* the blob is in memory
  ch,           \* the channel the mounting loop is at
  mounted,      \* channels mounted so far
  log_buffer,   \* channels[LogChannel].buffer: "null", "junk" (never set),
                \* "mapped" or "stale" (the program unmapped it)
  log_len,      \* length of the user log's file, Removed when it is gone
  heap,         \* PreallocateUserMemory took the user's memory
  clock,        \* clock(), cpu time of the process
  cnt_cpu, cnt_cpu_last,
  exit_status,  \* nap->exit_status
  ret_code,     \* main's ret_code
  report,       \* the report file
  ended, status,\* how the process ended: "no", "exit" or "signal", and with what
  sound,        \* history: the nexe passes the validator
  named,        \* history: channels the manifest names
  exited,       \* history: the user program made the exit call
  log_text,     \* history: length of the string in the user log
  user_time,    \* history: cpu time the user program used
  call_time     \* history: cpu time since the last system call began

setup == <<option, manifest, errcode, handlers, image, blob, sound>>
channels == <<ch, mounted, named>>
log == <<log_buffer, log_len, log_text>>
time == <<clock, cnt_cpu, cnt_cpu_last, user_time, call_time>>
result == <<exit_status, ret_code, report, exited>>
process == <<stage, ended, status>>

vars == <<setup, channels, log, heap, time, result, process>>

Removed == -1

Validator == {"on", "ignored", "skipped"}
Options == [validator : Validator, fuzz : BOOLEAN, signals : BOOLEAN, skip_qualification : BOOLEAN]
Manifests == [blob : BOOLEAN, report : BOOLEAN, max_mem : BOOLEAN]

Preparing == {"parse", "construct", "signals", "qualify", "settle", "open", "load", "loaded",
              "mount", "blob", "check", "prealloc", "thread"}
Running == {"user", "call"}
Finishing == {"finish", "report", "trim", "exit", "done"}
Stages == Preparing \union Running \union Finishing \union {"gone"}

Wrap(x) == ((x + Half) % (2 * Half)) - Half

ASSUME SessionAssumption ==
  /\ NChannels \in Nat /\ LogChannel \in 0 .. NChannels - 1 /\ LogChannel \notin NetChannels
  /\ LogMax \in Nat \ {0}
  /\ UserCodes \subseteq Int
  /\ Signals \subseteq 1 .. 127
  /\ SIGABRT \in 1 .. 127 /\ SIGSEGV \in 1 .. 127 /\ SIGABRT \notin Caught
  /\ Half \in Nat \ {0}
  /\ StartClocks \subseteq Nat
  /\ MaxClock \in Nat

Init ==
  /\ stage = "parse" /\ ended = "no" /\ status = 0
  /\ option = [validator |-> "on", fuzz |-> FALSE, signals |-> FALSE, skip_qualification |-> FALSE]
  /\ manifest = [blob |-> FALSE, report |-> FALSE, max_mem |-> FALSE]
  /\ errcode = "INTERNAL" /\ handlers = FALSE
  /\ image = "none" /\ blob = FALSE /\ sound \in BOOLEAN
  /\ ch = 0 /\ mounted = {} /\ named = {}
  /\ log_buffer = "null" /\ log_len = 0 /\ log_text = 0
  /\ heap = FALSE
  /\ clock = 0 /\ cnt_cpu = 0 /\ cnt_cpu_last = 0 /\ user_time = 0 /\ call_time = 0
  /\ exit_status = -1 /\ ret_code = 1 /\ exited = FALSE
  /\ report = [written |-> FALSE, ret_code |-> 0, user_ret_code |-> 0]

\* The process ends; an exit status has eight bits.
Leave(how, code) ==
  /\ stage' = "gone"
  /\ ended' = how
  /\ status' = code % 256

\* A signal strikes: the installed handler, NaClSignalHandleAll, exits; the
\* default action kills.
Struck(s) == IF handlers /\ s \in Caught THEN Leave("exit", -s) ELSE Leave("signal", s)

Goto(s) ==
  /\ stage' = s
  /\ UNCHANGED <<ended, status>>

-----------------------------------------------------------------------------
(***************************************************************************)
(* Preparation.                                                            *)
(***************************************************************************)

\* ParseCommandLine, which also reads the manifest and builds the policies.
\* The SetupList is malloc'ed, so the log's buffer starts with what was there.
ParseCommandLine ==
  /\ stage = "parse"
  /\ \/ /\ option' \in Options
        /\ manifest' \in Manifests
        /\ log_buffer' \in {"null", "junk"}
        /\ Goto("construct")
     \/ /\ Leave("exit", 1)
        /\ UNCHANGED <<option, manifest, log_buffer>>
  /\ UNCHANGED <<errcode, handlers, image, blob, sound, channels, log_len, log_text, heap, time, result>>

\* Mutant: the constructor leaves the validator's mode alone.
ConstructedOption_Kept == option

\* What the constructor leaves of the command line's settings.
ConstructedOption == [option EXCEPT !.validator = "on"]

\* NaClAppCtor runs after the command line was parsed and sets its fields anew.
AppCtor ==
  /\ stage = "construct"
  /\ \/ /\ option' = ConstructedOption
        /\ errcode' = "OK"
        /\ exit_status' = -1
        /\ Goto("signals")
     \/ /\ Leave("exit", 1)
        /\ UNCHANGED <<option, errcode, exit_status>>
  /\ UNCHANGED <<manifest, handlers, image, blob, sound, channels, log, heap, time, ret_code, report, exited>>

SignalHandlerInit ==
  /\ stage = "signals"
  /\ handlers' = TRUE
  /\ Goto("qualify")
  /\ UNCHANGED <<option, manifest, errcode, image, blob, sound, channels, log, heap, time, result>>

\* The platform qualification tests; a failure is only noted.
Qualify ==
  /\ stage = "qualify"
  /\ \/ UNCHANGED errcode
     \/ ~option.skip_qualification /\ errcode' = "error"
  /\ Goto("settle")
  /\ UNCHANGED <<option, manifest, handlers, image, blob, sound, channels, log, heap, time, result>>

SettleSignals ==
  /\ stage = "settle"
  /\ handlers' = option.signals
  /\ Goto("open")
  /\ UNCHANGED <<option, manifest, errcode, image, blob, sound, channels, log, heap, time, result>>

OpenFiles ==
  /\ stage = "open"
  /\ Goto("load") \/ Leave("exit", 1)
  /\ UNCHANGED <<setup, channels, log, heap, time, result>>

\* NaClAppLoadFile on the nexe, skipped after a failed qualification.
LoadNexe ==
  /\ stage = "load"
  /\ \/ /\ errcode # "OK"
        /\ Goto("loaded")
        /\ UNCHANGED <<errcode, image>>
     \/ /\ errcode = "OK"
        /\ sound \/ option.validator # "on"
        /\ image' = "loaded"
        /\ Goto("loaded")
        /\ UNCHANGED errcode
     \/ /\ errcode = "OK"
        /\ errcode' = "error"
        /\ image' \in {"none", "partly"}
        /\ Goto("loaded")
     \/ /\ errcode = "OK"
        /\ Struck(SIGABRT)
        /\ UNCHANGED <<errcode, image>>
  /\ UNCHANGED <<option, manifest, handlers, blob, sound, channels, log, heap, time, result>>

QuitAfterLoad ==
  /\ stage = "loaded"
  /\ IF option.fuzz THEN Leave("exit", 0) ELSE Goto("mount")
  /\ UNCHANGED <<setup, channels, log, heap, time, result>>

\* A channel without a name in the manifest is passed over.
SkipChannel ==
  /\ stage = "mount" /\ ch < NChannels
  /\ ch' = ch + 1
  /\ Goto("mount")
  /\ UNCHANGED <<setup, mounted, named, log, heap, time, result>>

\* MountChannel, also after a failed load.  A file is mapped into the address
\* space of the image; the log's file then has its maximal size and keeps the
\* text of an earlier run.
MountChannel ==
  /\ stage = "mount" /\ ch < NChannels /\ ch \notin NetChannels
  /\ \E mode \in {"MAPPED", "LOADED"} :
       /\ mode = "MAPPED" => image # "none"
       /\ IF mode = "MAPPED" /\ ch = LogChannel
            THEN log_buffer' = "mapped" /\ log_len' = LogMax /\ log_text' \in 0 .. LogMax
            ELSE UNCHANGED log
  /\ named' = named \union {ch}
  /\ mounted' = mounted \union {ch}
  /\ ch' = ch + 1
  /\ Goto("mount")
  /\ UNCHANGED <<setup, heap, time, result>>

MountFails ==
  /\ stage = "mount" /\ ch < NChannels
  /\ named' = named \union {ch}
  /\ Leave("exit", 1)
  /\ UNCHANGED <<setup, ch, mounted, log, heap, time, result>>

AllMounted ==
  /\ stage = "mount" /\ ch = NChannels
  /\ Goto("blob")
  /\ UNCHANGED <<setup, channels, log, heap, time, result>>

\* The blob is only loaded when nothing failed before.
BlobWanted == manifest.blob /\ errcode = "OK"

LoadBlob ==
  /\ stage = "blob"
  /\ \/ /\ ~BlobWanted
        /\ Goto("check")
        /\ UNCHANGED <<errcode, blob>>
     \/ /\ BlobWanted
        /\ errcode' = "OK"
        /\ blob' = TRUE
        /\ Goto("check")
     \/ /\ BlobWanted
        /\ errcode' = "error"
        /\ Goto("check")
        /\ UNCHANGED blob
     \/ /\ BlobWanted
        /\ Struck(SIGABRT)
        /\ UNCHANGED <<errcode, blob>>
  /\ UNCHANGED <<option, manifest, handlers, image, sound, channels, log, heap, time, result>>

CheckErrcode ==
  /\ stage = "check"
  /\ Goto(IF errcode = "OK" THEN "prealloc" ELSE "done")
  /\ UNCHANGED <<setup, channels, log, heap, time, result>>

PreallocateUserMemory ==
  /\ stage = "prealloc"
  /\ \/ /\ heap' = manifest.max_mem
        /\ Goto("thread")
     \/ /\ manifest.max_mem
        /\ Struck(SIGABRT) \/ Leave("exit", 1)
        /\ UNCHANGED heap
  /\ UNCHANGED <<setup, channels, log, time, result>>

-----------------------------------------------------------------------------
(***************************************************************************)
(* The user program.  cnt_cpu and cnt_cpu_last are 32 bits wide, clock()   *)
(* is wider.                                                               *)
(***************************************************************************)

\* Mutant: the time of the pause is not kept.
PauseCpuClock_NotKept ==
  /\ cnt_cpu' = Wrap(cnt_cpu + (clock - cnt_cpu_last))
  /\ UNCHANGED cnt_cpu_last

PauseCpuClock ==
  /\ cnt_cpu' = Wrap(cnt_cpu + (clock - cnt_cpu_last))
  /\ cnt_cpu_last' = Wrap(clock)

\* setjmp returns 0 and the program starts, or the arguments do not fit the
\* stack and main leaves with the 0 that setjmp returned.
CreateMainThread ==
  /\ stage = "thread"
  /\ ret_code' = 0
  /\ \/ /\ clock' \in StartClocks
        /\ cnt_cpu_last' = Wrap(clock')
        /\ Goto("user")
     \/ /\ Goto("done")
        /\ UNCHANGED <<clock, cnt_cpu_last>>
  /\ UNCHANGED <<setup, channels, log, heap, cnt_cpu, user_time, call_time, exit_status, report, exited>>

UserComputes ==
  /\ stage = "user" /\ clock < MaxClock
  /\ clock' = clock + 1
  /\ user_time' = user_time + 1
  /\ UNCHANGED <<setup, channels, log, heap, cnt_cpu, cnt_cpu_last, call_time, result, process>>

UserWritesLog ==
  /\ stage = "user" /\ log_buffer = "mapped"
  /\ log_text' \in 0 .. LogMax
  /\ UNCHANGED <<setup, channels, log_buffer, log_len, heap, time, result, process>>

\* A system call begins: NaClSyscallCSegHook stops the clock.
EnterCall ==
  /\ stage = "user"
  /\ PauseCpuClock
  /\ call_time' = 0
  /\ Goto("call")
  /\ UNCHANGED <<setup, channels, log, heap, clock, user_time, result>>

\* The runtime computes, during a call or behind the program's exit.
RuntimeComputes ==
  /\ stage \in {"call", "finish"} /\ clock < MaxClock
  /\ clock' = clock + 1
  /\ call_time' = call_time + 1
  /\ UNCHANGED <<setup, channels, log, heap, cnt_cpu, cnt_cpu_last, user_time, result, process>>

\* The call returns.  Without MemMax it may have been a munmap of the log.
ReturnFromCall ==
  /\ stage = "call"
  /\ \/ UNCHANGED log_buffer
     \/ log_buffer = "mapped" /\ ~manifest.max_mem /\ log_buffer' = "stale"
  /\ cnt_cpu_last' = Wrap(clock)
  /\ Goto("user")
  /\ UNCHANGED <<setup, channels, log_len, log_text, heap, clock, cnt_cpu, user_time, call_time, result>>

\* Mutant: setjmp returns what longjmp was given.
SetjmpValue_Given(code) == code

\* What setjmp returns after longjmp(user_exit, code).
SetjmpValue(code) == IF code = 0 THEN 1 ELSE code

\* TrapExitHandle and NaClSysExit.
Exit ==
  /\ stage = "call"
  /\ \E code \in UserCodes :
       /\ exit_status' = code
       /\ ret_code' = SetjmpValue(code)
  /\ exited' = TRUE
  /\ Goto("finish")
  /\ UNCHANGED <<setup, channels, log, heap, time, report>>

-----------------------------------------------------------------------------
(***************************************************************************)
(* The end of main.                                                        *)
(***************************************************************************)

StopClock ==
  /\ stage = "finish"
  /\ PauseCpuClock
  /\ Goto("report")
  /\ UNCHANGED <<setup, channels, log, heap, clock, user_time, call_time, result>>

\* Mutant: the fields of the report are filled the other way round.
ReportOf_Swapped == [written |-> TRUE, ret_code |-> exit_status, user_ret_code |-> 0]

ReportOf == [written |-> TRUE, ret_code |-> 0, user_ret_code |-> exit_status]

\* A report that cannot be opened ends the process without trimming the log.
WriteReport ==
  /\ stage = "report"
  /\ \/ ~manifest.report /\ Goto("trim") /\ UNCHANGED report
     \/ manifest.report /\ (Goto("done") \/ Leave("exit", 1)) /\ UNCHANGED report
     \/ manifest.report /\ Goto("trim") /\ report' = ReportOf
  /\ UNCHANGED <<setup, channels, log, heap, time, exit_status, ret_code, exited>>

\* strlen of the mapped log: a text that fills its pages has no end of its own.
LogLengths ==
  IF log_buffer = "mapped" /\ log_text < LogMax THEN {log_text}
  ELSE IF log_buffer = "mapped" THEN {LogMax, LogMax + 1}
  ELSE 0 .. LogMax

\* Mutant: an empty log is not told from one that holds text.
TrimmedTo_Keep(n) == n

\* An empty log is removed, any other cut to its text.
TrimmedTo(n) == IF n = 0 THEN Removed ELSE n

\* The buffer of a log that was never mapped is whatever malloc left there;
\* that of a log the program unmapped is gone or something else by now.
TrimLog ==
  /\ stage = "trim"
  /\ \/ /\ log_buffer = "null" \/ (log_buffer = "junk" /\ LogChannel \notin mounted)
        /\ Goto("exit")
        /\ UNCHANGED log_len
     \/ /\ log_buffer \in {"mapped", "stale"} \/ (log_buffer = "junk" /\ LogChannel \in mounted)
        /\ \E n \in LogLengths : log_len' = TrimmedTo(n)
        /\ Goto("exit")
     \/ /\ log_buffer \in {"junk", "stale"} \/ (log_buffer = "mapped" /\ log_text = LogMax)
        /\ Struck(SIGSEGV)
        /\ UNCHANGED log_len
  /\ UNCHANGED <<setup, channels, log_buffer, log_text, heap, time, result>>

\* NaClExit, from the end of main.
ExitProcess ==
  /\ stage = "exit"
  /\ Leave("exit", ret_code)
  /\ UNCHANGED <<setup, channels, log, heap, time, result>>

\* Mutant: the process only exits where the signal handlers are removed.
Done_OnlyWithSignals ==
  /\ stage = "done"
  /\ option.signals
  /\ handlers' = FALSE
  /\ Leave("exit", ret_code)
  /\ UNCHANGED <<option, manifest, errcode, image, blob, sound, channels, log, heap, time, result>>

\* The label done.
Done ==
  /\ stage = "done"
  /\ handlers' = FALSE
  /\ Leave("exit", ret_code)
  /\ UNCHANGED <<option, manifest, errcode, image, blob, sound, channels, log, heap, time, result>>

\* A signal from outside, or a fault of the running code.
Signal ==
  /\ stage # "gone"
  /\ \E s \in Signals : Struck(s)
  /\ UNCHANGED <<setup, channels, log, heap, time, result>>

-----------------------------------------------------------------------------
Prepare ==
  \/ ParseCommandLine \/ AppCtor \/ SignalHandlerInit \/ Qualify \/ SettleSignals \/ OpenFiles
  \/ LoadNexe \/ QuitAfterLoad \/ SkipChannel \/ MountChannel \/ MountFails \/ AllMounted
  \/ LoadBlob \/ CheckErrcode \/ PreallocateUserMemory \/ CreateMainThread

Finish == StopClock \/ WriteReport \/ TrimLog \/ ExitProcess \/ Done

Next ==
  \/ Prepare
  \/ UserComputes \/ UserWritesLog \/ EnterCall \/ RuntimeComputes \/ ReturnFromCall \/ Exit
  \/ Finish
  \/ Signal

\* The runtime is one thread that is never blocked for good; nothing is asked
\* of the user program, which may run for ever.
Spec == Init /\ [][Next]_vars /\ WF_vars(Prepare) /\ WF_vars(ReturnFromCall \/ Exit) /\ WF_vars(Finish)

-----------------------------------------------------------------------------
(***************************************************************************)
(* Properties.                                                             *)
(***************************************************************************)

\* The user program only runs when every step before it succeeded: the nexe
\* passed the validator and is loaded whole, so is a blob the manifest names,
\* every channel the manifest names is mounted, MemMax has its memory, and the
\* signal handlers are as -S asked.  No option of the command line lets an
\* image run that does not validate (main goes to done at sel_main.c:489).
OnlyPreparedRuns ==
  stage \in Running =>
    /\ errcode = "OK"
    /\ sound /\ image = "loaded"
    /\ manifest.blob => blob
    /\ mounted = named
    /\ manifest.max_mem => heap
    /\ handlers = option.signals
    /\ ~option.fuzz

\* cnt_cpu is the cpu time of the user program, and of the user program alone,
\* modulo the width of an int32_t, across any number of calls and wraps of the
\* 32-bit cnt_cpu_last: PauseCpuClock and ResumeCpuClock alternate.  Only main's
\* second pause, behind the exit call, adds the time the runtime took since.
CpuAccounted ==
  /\ stage = "user" => Wrap(cnt_cpu + (clock - cnt_cpu_last)) = Wrap(user_time)
  /\ stage \in {"call", "finish"} => cnt_cpu = Wrap(user_time)
  /\ stage \in {"report", "trim", "exit"} => cnt_cpu = Wrap(user_time + call_time)

\* A report exists only for a program that made the exit call, and then its
\* ReportUserRetCode is the code of that call (sel_main.c:536).
ReportTruthful ==
  report.written => exited /\ report.user_ret_code = exit_status /\ exit_status \in UserCodes

\* A program that exits with 0 never makes the process exit with 0: setjmp turns
\* the 0 of longjmp into 1 (sel_main.c:504, trap.c:69).  With a program that made
\* the exit call, a status of 0 means a non-zero code whose low byte is 0.
ZeroIsNotSuccess ==
  ended = "exit" /\ status = 0 /\ exited => exit_status # 0 /\ exit_status % 256 = 0

\* A session that reached the end of main with the log still mapped has cut the
\* log's file to the text in it, and removed the file of an empty log; a log
\* that is full to the last byte loses nothing (sel_main.c:546-553).
LogTrimmed ==
  stage = "exit" /\ log_buffer = "mapped" =>
    /\ log_len = Removed <=> log_text = 0
    /\ log_text < LogMax /\ log_text > 0 => log_len = log_text
    /\ log_len # Removed => log_len >= log_text

\* Whatever fails, main gets to the user program or to the end of the process,
\* and a system call comes back or ends the process: only the program itself
\* can keep the process from ending.
ComesBack ==
  stage # "user" ~> stage \in {"user", "gone"}

\* A report's ReportRetCode is the exit code of ZeroVM, as doc/manifest.txt:65
\* says: the status main is about to exit with.
ReportsOwnExitCode ==
  report.written /\ stage = "exit" => report.ret_code = ret_code % 256
=============================================================================
