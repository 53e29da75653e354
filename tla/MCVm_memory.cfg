CONSTANTS
  MaxProc = 3
  MaxFrame = 2
  MaxSlot = 2
  MaxPage = 3
  StackStart = 3
  MmapBase = 1
  FilePages = 1
  Systems <- AllSystems
SPECIFICATION Spec
CHECK_DEADLOCK FALSE
INVARIANTS    FaultsServed
