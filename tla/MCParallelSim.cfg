CONSTANTS
  N = 3
  TaskLists <- ThreeLists
  Batch = 2
SPECIFICATION SimSpec
INVARIANT ResultsOutliveThreads
INVARIANT NoRecordLost
INVARIANT ResultsAreRight
PROPERTY RunEnds
CHECK_DEADLOCK FALSE
