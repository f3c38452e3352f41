CONSTANTS
  MAX_TASKS = 2
  UINT32_MAX = 4
  Priorities <- OnePriority
  Delays <- ShortDelays
  Calls <- NoOverflowCalls
SPECIFICATION Spec
PROPERTY TimeMonotone
