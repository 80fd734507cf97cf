SPECIFICATION Spec
CONSTANTS
  PageSize = 2
  PagesPerMap = 2
  AddrPages = 14
  Layout <- SmallLayout
  DynTextEnd = 4
  DataEnd = 9
  StackSize = 4
  MemMax = {0}
  MemHints = {0, 1}
  MaxSetupCalls = 2
  MmapCalls <- SmallMmaps
  MunmapCalls <- SmallMunmaps
  Breaks <- SmallBreaks
  MaxCalls = 4
INVARIANTS MappingsBacked
CHECK_DEADLOCK FALSE
