CONSTANTS
  MAX_TASKS = 3
  UINT32_MAX = 3
  Priorities <- OnePriority
  Delays <- YieldOnly
  Calls <- PlainCalls
  Bits = {x, y}
  ClearModes = {TRUE}
SPECIFICATION GroupSpec
INVARIANT SatisfiedAreAwake
INVARIANT WaitersAreListed
