---------------------------- MODULE MCSemaphore ----------------------------
(* The instance of Semaphore that TLC checks.                              *)
EXTENDS Semaphore

\* Every call but the suspension of a task that waits or sleeps, with an end
\* before the tick counter overflows.
SafeCalls ==
  {"return", "vTaskDelay", "vTaskSuspend", "vTaskResume", "vTaskDelete",
   "block_current", "unblock"}

TwoPriorities == {0, 1}
OneTick == {1}
============================================================================
