SPECIFICATION Spec
CONSTANTS
  Channels <- AllChannels
  InputChannel = "Input"
  OutputChannel = "Output"
  LogChannel = "UserLog"
  Manifests <- WideManifests
  GarbageCounts <- Garbage
  SysManifests <- WideSys
  FileLengths = {2}
  Hints <- WideHints
  Sizes = {3}
  Offsets = {0}
  Half = 4
  Bundle = 4
  TextStart = 4
  TextEnd = 12
  DynTextStart = 16
  DynTextEnd = 20
  MemStart = 100
  MaxCalls = 5
INVARIANT QuotaRespected
CHECK_DEADLOCK FALSE
