SPECIFICATION SoundSpec
CONSTANTS
  t1 = t1
  t2 = t2
  p1 = p1
  p2 = p2
  none = none
  Thread <- TwoThreads
  Page <- TwoPages
  Value <- Bits
  Blank = 0
  None = none
  BufRecs = 2
  MaxLsn = 5
  Setups <- Machines
INVARIANTS RecoveryExact RollbackExact LogExact
