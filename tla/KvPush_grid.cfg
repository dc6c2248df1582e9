\* Two tensor-parallel by two context-parallel ranks, one request.
SPECIFICATION FairSpec
CONSTANTS
  Requests = {q1}
  Tp = {0, 1}
  Cp = {0, 1}
  Driver <- MCDriver
INVARIANTS SourceKvStays OkMeansDelivered
PROPERTIES StepEnds
CHECK_DEADLOCK FALSE
