SPECIFICATION SafeSpec
CONSTANTS
  Requests = {1, 2, 3}
  Capacity = 2
  Blocks = 3
  PrefillLimit = 3
  Prompt <- Prompts213
  MaxGen = 2
  MaxSeqs = 2
  Overlap = FALSE
  Unified = TRUE
  Leavers = {2}
  Modes = {}
  MaxPauses = 0
INVARIANTS
  UnfinishedIsQueued
  QueueNeverFull
