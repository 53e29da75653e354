CONSTANTS
  MaxProc = 3
  MaxFrame = 2
  MaxSlot = 2
  MaxPage = 3
  StackStart = 3
  MmapBase = 1
  FilePages = 1
  Systems <- OnlyCopied
SPECIFICATION Spec
INVARIANT NoLockCycle
CHECK_DEADLOCK FALSE
