SPECIFICATION Spec
CONSTANTS
  PageSize = 2
  MapSize = 4
  SyscallStart = 4
  TrampolineEnd = 8
  AddrSpace = 32
  WordMod = 64
  HaltSled = 1
  Bundle = 2
  StackMax = 3
  Images <- SmallImages
  EntryPoints = {8, 9, 12}
  DynamicLoading = {TRUE, FALSE}
INVARIANTS EntriesDisjoint ReadsIntoImage SegmentsProtected SledOverNothing ReadyForUser
CHECK_DEADLOCK FALSE
