\* One worker, a full and a short batch, measurements on, up to two failures.
SPECIFICATION FairSpec
CONSTANTS
  Workers = {w1}
  NumUnits = 3
  BatchSize = 2
  HasOptional = FALSE
  HasTimeout = TRUE
  HasStats = TRUE
  MaxFaults = 2
INVARIANTS ReportIsFinal
PROPERTIES NoReportAfterShutdown PrefetchEnds
CHECK_DEADLOCK FALSE
