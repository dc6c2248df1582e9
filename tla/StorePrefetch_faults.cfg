\* Two workers, units with optional blocks, one failure.
SPECIFICATION Spec
CONSTANTS
  Workers = {w1, w2}
  NumUnits = 2
  BatchSize = 1
  HasOptional = TRUE
  HasTimeout = FALSE
  HasStats = FALSE
  MaxFaults = 1
SYMMETRY WorkerSymmetry
INVARIANTS PublishedIsFetched CompleteMeansAll PublishedIsQuiet
CHECK_DEADLOCK FALSE
