CONSTANTS
  MAX_TASKS = 2
  UINT32_MAX = 3
  Priorities <- Boundary
  Delays <- DelaysWithYield
  Calls <- AllCalls
SPECIFICATION FairSpec
INVARIANT TypeOK
INVARIANT RunningIsCurrent
PROPERTY KernelReturns
