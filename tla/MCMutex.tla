------------------------------ MODULE MCMutex ------------------------------
(* The instances of Mutex that TLC checks.                                 *)
EXTENDS Mutex

\* Every call but the suspension of a task that waits or sleeps, with an end
\* before the tick counter overflows.
SafeCalls ==
  {"xTaskCreate", "return", "vTaskDelay", "vTaskSuspend", "vTaskResume",
   "vTaskDelete", "tick", "block_current", "unblock"}

\* Tasks that sleep, and suspend and resume each other in any state.
SuspendAnyCalls ==
  {"return", "vTaskDelay", "vTaskSuspend_any", "vTaskResume"}

\* Tasks that sleep, yield, end and create others.
CooperativeCalls == {"xTaskCreate", "return", "vTaskDelay", "tick"}

TwoPriorities == {0, 1}
OnePriority == {1}
OneTick == {1}
YieldOrOneTick == {0, 1}
DelaysWithYield == {0, 1, 2}
============================================================================
