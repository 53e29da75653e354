SPECIFICATION Spec
CONSTANTS
  a = a
  b = b
  Main = main
  Idle = idle
  None = none
  Thread = {main, idle, a, b}
  Lock = {1, 2}
  Policies <- AllPolicies
  Priorities = {30, 32}
  Nices <- NicesUp
  Naps = {1, 2}
  PRI_MAX = 63
  PRI_DEFAULT = 31
  TIME_SLICE = 1
  TIMER_FREQ = 3
  MaxTicks <- Ticks
  FIX_F = 1024
  MaxCalls <- Calls
SYMMETRY Symm
CHECK_DEADLOCK FALSE
INVARIANTS QueuesExact LocksExact DonationExact
PROPERTY AlarmExact
