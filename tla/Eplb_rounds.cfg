\* One device and three layers: a further layer can be prepared while the one
\* pending slot is taken and an activation is not acknowledged yet.
SPECIFICATION FairSpec
CONSTANTS
  Devices = {d1}
  LayerNum = 3
  PlanNum = 2
  Overlap = FALSE
  Warmups = 1
  MaxToken = 3
INVARIANTS
  NoPlanLost
PROPERTIES
  RoundEnds
