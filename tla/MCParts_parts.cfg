SPECIFICATION Spec
CHECK_DEADLOCK FALSE
CONSTANTS
  RaidUsers = {u1, u2}
  RaidArrays <- Arrays
  MaxRaidWrites = 2
  MemUsers = {u1, u2}
  FREE_PAGES = 6
  USER_PAGE_LIMIT = 2
  PGSIZE = 10
  HEADER = 2
  MIN_BLOCK = 4
  MemSizes = {0, 4, 5, 9}
  MaxMemOps = 4
  VIRTIO_RING_SIZE = 4
  IndexSpan = 8
  VirtioSlots <- SlotSets
  VirtioSectors = {0, 1}
  MaxVirtioOps = 10
  STDIO_BUFSIZ = 2
  Bytes = {0, 1}
  Newline = 0
  MaxFile = 4
  StdioFiles <- Contents
  MaxStdioOps = 3
  PtPages = 7
  PtFrames = {1, 2, 3}
  Dirs = {1, 2}
  Addresses <- Vas
  MaxPtOps = 4
  HeapUsers = {u1, u2}
  HeapPages = 3
  ARENA_SIZE = 10
  ARENA_HEADER = 2
  MMAP_HEADER = 1
  size_classes <- TwoClasses
  HeapSizes = {0, 2, 4, 7, 10}
  MaxHeapOps = 4
  MIN_BUCKETS = 1
  BEST_ELEMS_PER_BUCKET = 1
  Elements <- Objects
INVARIANTS AllocationsExact StorageExact  MapsExact
