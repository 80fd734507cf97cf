SPECIFICATION Spec
CONSTANTS
  PB = 3
  NPages = 9
  DynStart = 3
  DynEnd = 12
  HaltSled = 1
  Cutoff = 1
  UsedPages = {0, 1, 2, 3, 4, 8}
  Blobs <- SmallBlobs
INVARIANTS RegionsSorted SearchExact VisibleIsCode LoadedWhole
CHECK_DEADLOCK FALSE
