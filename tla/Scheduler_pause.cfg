SPECIFICATION Spec
CONSTANTS
  Requests = {1, 2}
  Capacity = 2
  Blocks = 4
  PrefillLimit = 4
  Prompt <- Prompts13
  MaxGen = 3
  MaxSeqs = 2
  Overlap = TRUE
  Unified = FALSE
  Leavers = {1}
  Modes = {"KEEP", "ABORT", "WAIT"}
  MaxPauses = 2
INVARIANTS
  UnfinishedIsQueued
  PausedHoldsNoKv
PROPERTIES
  ImplementsService
  PauseSettles
