CONSTANTS
  MAX_TASKS = 4
  UINT32_MAX = 2
  Priorities <- TwoPriorities
  Delays <- OneTick
  Calls <- PlainCalls
  N = 2
  Items = {a, b}
  NoItem = none
SYMMETRY Symmetry
SPECIFICATION QueueSpec
INVARIANT NoPriorityInversion
PROPERTY IsFIFO
INVARIANT NoLostWakeup
