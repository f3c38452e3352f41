CONSTANTS
  MAX_TASKS = 3
  UINT32_MAX = 4
  Priorities <- TwoPriorities
  Delays <- DelaysWithYield
  Calls <- SafeCalls
SPECIFICATION MutexSpec
INVARIANT MutualExclusion
INVARIANT WaiterInv
INVARIANT TimerInv
PROPERTY ServedByPriority
PROPERTY TimeMonotone
PROPERTY IdleOnlyWhenStuck
PROPERTY DeletedForGood
