SPECIFICATION Spec
CONSTANTS
  PagesPerMap = 2
  WordBits = 2
  AddrPages = 18
  Layout <- SmallLayout
  DynTextEnd = 4
  Handles = {3, 4, 5}
  FileSizes = {0, 5}
  MaxSizes = {2, 6}
  MmapCalls <- SmallMmaps
  MunmapCalls <- SmallMunmaps
  MaxCalls = 2
INVARIANTS RecordedIsMapped
CHECK_DEADLOCK FALSE
