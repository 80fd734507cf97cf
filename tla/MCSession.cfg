SPECIFICATION Spec
CONSTANTS
  NChannels = 3
  LogChannel = 1
  NetChannels = {2}
  LogMax = 2
  UserCodes <- SomeCodes
  Signals = {11, 15}
  Caught = {11}
  SIGABRT = 6
  SIGSEGV = 11
  Half = 2
  StartClocks = {1}
  MaxClock = 4
INVARIANTS  CpuAccounted ReportTruthful ZeroIsNotSuccess LogTrimmed
PROPERTY ComesBack
CHECK_DEADLOCK FALSE
