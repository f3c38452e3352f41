CONSTANTS
  MAX_TASKS = 3
  UINT32_MAX = 3
  Priorities <- OnePriority
  Delays <- OneTick
  Calls <- SuspendAnyCalls
SPECIFICATION MutexSpec
INVARIANT MutualExclusion
