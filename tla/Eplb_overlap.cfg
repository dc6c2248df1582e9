SPECIFICATION Spec
CONSTANTS
  Devices = {d1, d2}
  LayerNum = 2
  PlanNum = 2
  Overlap = TRUE
  Warmups = 0
  MaxToken = 2
SYMMETRY Symm
INVARIANTS
  SameStepSamePlacement
  ManagerKnowsPlacement
  PolicyAlone
  TransfersProposedPlan
