SPECIFICATION Spec
CHECK_DEADLOCK FALSE
CONSTANTS
  Writers = {w1, w2}
  Readers = {r1, r2}
  INTQ_BUFSIZE = 3
  RAW_BUFFER_SIZE = 3
  Keys = {"caps", "shift", "a"}
  ConsoleBudgets <- Budgets
  DiskUsers = {u1, u2}
  Channels <- Chans
  SectorSpan = 8
  MaxDiskOps = 2
  MaxNest = 3
INVARIANTS OutputExact InputExact 
 
