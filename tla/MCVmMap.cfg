SPECIFICATION Spec
CONSTANTS
  PageSize = 2
  PagesPerMap = 2
  AddrPages = 14
  Layout <- SmallLayout
  DynTextEnd = 4
  DataEnd = 9
  StackSize = 4
  MemMax = {0, 12, 17, 21, 25, 28}
  MemHints = {1, 30}
  MaxSetupCalls = 2
  MmapCalls <- SmallMmaps
  MunmapCalls <- SmallMunmaps
  Breaks <- SmallBreaks
  MaxCalls = 3
INVARIANTS MapWellFormed MemLimitKept BreakKept TextKept OnlyTextExecutable HostCoversMap
PROPERTIES FreePagesTaken LimitFreezesHost ImplementsPageMap
CHECK_DEADLOCK FALSE
