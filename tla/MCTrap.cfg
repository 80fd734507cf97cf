SPECIFICATION Spec
CONSTANTS
  Channels <- AllChannels
  InputChannel = "Input"
  OutputChannel = "Output"
  LogChannel = "UserLog"
  Manifests <- SmallManifests
  GarbageCounts <- Garbage
  SysManifests <- SmallSys
  FileLengths = {0, 2}
  Hints <- SmallHints
  Sizes = {0, 2}
  Offsets <- SmallOffsets
  Half = 16
  Bundle = 4
  TextStart = 4
  TextEnd = 12
  DynTextStart = 16
  DynTextEnd = 20
  MemStart = 100
  MaxCalls = 4
INVARIANTS QuotaRespected CallbackMirror ViewCurrent SetupBudget CallsAccounted
PROPERTIES GrantWithinLimit PolicyOnlyTightens
CHECK_DEADLOCK FALSE
