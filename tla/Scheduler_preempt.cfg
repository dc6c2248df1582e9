SPECIFICATION Spec
CONSTANTS
  Requests = {1, 2, 3}
  Capacity = 3
  Blocks = 3
  PrefillLimit = 3
  Prompt <- Prompts214
  MaxGen = 3
  MaxSeqs = 2
  Overlap = FALSE
  Unified = FALSE
  Leavers = {}
  Modes = {}
  MaxPauses = 0
PROPERTIES
  FailsOnlyIfTooBig
  AllAnswered
