SPECIFICATION Spec
CONSTANTS
  Models = {m1, m2}
  VirtPages = {v1, v2, v3}
  TotalPhy = 5
  WeightPages = 1
  MinReserved = 2
  MaxReserved = 2
  MaxFaults = 1
  PausedAtSleep = TRUE
  IdleAsleep = TRUE
  MaxSleeps = 3
SYMMETRY Symm
INVARIANTS
  PagesAccounted
  UsedIsExact
  NeverOvercommitted
  HandedOutIsMapped
  AsleepHoldsNothing
\* Deadlock is allowed: pages a failed broadcast leaves charged may leave none.
CHECK_DEADLOCK FALSE
