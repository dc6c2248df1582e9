\* The driver's answer compared with the other ranks' on a two-axis grid.
SPECIFICATION Spec
CONSTANTS
  Requests = {q1}
  Tp = {0, 1}
  Cp = {0, 1}
  Driver <- MCDriver
INVARIANTS DriverSpeaksForAll
CHECK_DEADLOCK FALSE
