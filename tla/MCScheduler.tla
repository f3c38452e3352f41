---------------------------- MODULE MCScheduler ----------------------------
(* The instances of Scheduler that TLC checks.                             *)
EXTENDS Scheduler

\* Every call, in every state of the target, up to and beyond overflow.
AllCalls == CallNames

\* Every call, with an end before the tick counter overflows.
NoOverflowCalls == CallNames \ {"wrap", "unblock_any"}

Boundary == {0, 1, 255}  \* 255 is the priority that is never chosen
OnePriority == {1}
ShortDelays == {1, 2}
DelaysWithYield == {0, 1, 2}
============================================================================
