SPECIFICATION Spec
CONSTANTS
  t1 = t1
  t2 = t2
  Thread <- Threads
  FileId = {1, 2}
  DiskSize = 24
  WalSectors <- Wal
  SectorUnits = 2
  DIRECT_BLOCK_COUNT = 1
  PTRS_PER_BLOCK = 1
  Paths <- TreePaths
  Targets <- TreeTargets
  Sizes = {1}
  Offsets = {2}
  EntryCnt = 2
  MAX_SYMLINK_DEPTH = 2
  MAX_PATH_COMPONENTS = 4
  Setups <- TreeAndFull
  OldPaths <- OldPath
  Faults = {0, 1, 2, 3, 4, 5, 6, 7, 8, 9, 10, 11}
  MaxCalls = 3
  FaultCalls = 1
SYMMETRY Symm
CHECK_DEADLOCK FALSE
INVARIANTS CountsExact  
