------------------------------ MODULE MCQueue ------------------------------
(* The instance of Queue that TLC checks.                                  *)
EXTENDS Queue

LOCAL INSTANCE TLC

\* Tasks that sleep, end and let time pass, and the calls of the queue.
PlainCalls == {"return", "vTaskDelay", "tick", "block_current", "unblock"}

TwoPriorities == {0, 1}
OneTick == {1}

\* The queue treats all items alike, and only safety is checked here.
Symmetry == Permutations(Items)
============================================================================
