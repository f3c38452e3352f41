---------------------------- MODULE MCEventGroup ----------------------------
(* The instances of EventGroup that TLC checks.                            *)
EXTENDS EventGroup

\* Tasks that sleep and end, and the calls of the event group.
PlainCalls == {"return", "vTaskDelay", "block_current", "unblock"}

TwoPriorities == {0, 1}
OnePriority == {1}
OneTick == {1}
YieldOnly == {0}
=============================================================================
