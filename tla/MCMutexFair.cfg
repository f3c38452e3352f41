CONSTANTS
  MAX_TASKS = 4
  UINT32_MAX = 2
  Priorities <- OnePriority
  Delays <- YieldOrOneTick
  Calls <- CooperativeCalls
SPECIFICATION FairMutexSpec
PROPERTY OwnerProceeds
PROPERTY ReadyRuns
