CONSTANTS
  MAX_TASKS = 3
  UINT32_MAX = 3
  Priorities <- TwoPriorities
  Delays <- OneTick
  Calls <- SafeCalls
  initial_count = 1
  max_count = 2
  MaxGives = 2
SPECIFICATION SemSpec
INVARIANT TokensConserved
INVARIANT TakerInv
