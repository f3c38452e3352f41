------------------------------ MODULE Scheduler ------------------------------
(***************************************************************************)
(* The kernel of the simulated RTOS (rtos/scheduler.h, rtos/scheduler.cpp).*)
(*                                                                         *)
(* All tasks run on one thread: a task owns the processor until it calls   *)
(* the kernel, so an API call is one step.  What makes the kernel hard is  *)
(* that a call may switch to another task in its middle.  Such a call      *)
(* leaves the kernel inside schedule_from (or schedule_after_delete):      *)
(* `switching' is then TRUE and only the steps of that loop are enabled,   *)
(* one step per iteration, until a task is dispatched or the context that  *)
(* called vTaskStartScheduler is resumed.                                  *)
(*                                                                         *)
(* The bodies of the tasks are the environment: the running task makes any *)
(* call that Calls allows.  The primitives built on the kernel (Mutex,     *)
(* Semaphore, Queue, EventGroup) extend this module.                       *)
(***************************************************************************)
EXTENDS Naturals

CONSTANTS
  MAX_TASKS,    \* capacity of the task table
  UINT32_MAX,   \* largest tick; the tick counter wraps after it
  Priorities,   \* priorities passed to xTaskCreate, 0 is the highest
  Delays,       \* arguments of vTaskDelay and tick
  Calls         \* the calls the program makes, see CallNames

INVALID_TASK == 255   \* current_ while no task runs
NO_PRIORITY  == 255   \* the value best_prio starts from in select_next
PRI_LOWEST   == 7     \* the priority of a slot that was never created

(***************************************************************************)
(* "xTaskCreate" stands for creation by a running task (main always may    *)
(* create), "vTaskSuspend" for suspending a task that is READY or RUNNING, *)
(* "vTaskSuspend_any" for suspending a task in whatever state it is,       *)
(* "unblock" for unblocking a task that is inside block_current,           *)
(* "unblock_any" for unblocking any task, and "wrap" for programs that run *)
(* until the tick counter overflows.                                       *)
(***************************************************************************)
CallNames ==
  {"xTaskCreate", "return", "vTaskDelay", "vTaskSuspend", "vTaskSuspend_any",
   "vTaskResume", "vTaskDelete", "block_current", "unblock", "unblock_any",
   "tick", "wrap"}

ASSUME SchedulerAssumption ==
  /\ MAX_TASKS \in 1..INVALID_TASK
  /\ UINT32_MAX \in Nat \ {0}
  /\ Priorities \subseteq 0..NO_PRIORITY
  /\ Delays \subseteq 0..UINT32_MAX
  /\ Calls \subseteq CallNames

VARIABLES
  state,        \* TCB.state of every slot of tasks_
  priority,     \* TCB.priority
  resume_tick,  \* TCB.resume_tick; 0 means that no timer is set
  inside,       \* TCB.ctx: the call the task returns from when switched to
  task_count,   \* task_count_
  tick_count,   \* tick_count_
  current,      \* current_
  switching     \* the kernel is inside schedule_from/schedule_after_delete

tcb  == <<state, priority, resume_tick, inside>>
vars == <<state, priority, resume_tick, inside,
          task_count, tick_count, current, switching>>

Handles    == 0..(MAX_TASKS - 1)
Created    == 0..(task_count - 1)
TaskStates == {"READY", "RUNNING", "BLOCKED", "SUSPENDED", "DELETED"}
Contexts   == {"entry", "body", "vTaskDelay", "vTaskSuspend", "vTaskDelete",
               "block_current", "preempted", "returned"}

Running == ~switching /\ current # INVALID_TASK   \* a task's body executes
Idle    == ~switching /\ current = INVALID_TASK   \* main executes

-----------------------------------------------------------------------------
(* select_next: the READY tasks of the best priority, the first of them    *)
(* round-robin from the slot after current_.  best_prio starts at 0xFF, so *)
(* a task of that priority is never chosen.                                *)

Selectable(st) ==
  {t \in Created : st[t] = "READY" /\ priority[t] < NO_PRIORITY}

\* Mutant: the search starts at current_ instead of the slot after it.
DistanceFromSelf(t) ==
  IF current = INVALID_TASK THEN t
  ELSE (t + task_count - current) % task_count

\* How many slots select_next passes before it looks at t.
Distance(t) ==
  IF current = INVALID_TASK THEN t
  ELSE (t + task_count - ((current + 1) % task_count)) % task_count

\* select_next() returns t.
SelectNext(t) ==
  /\ t \in Selectable(state)
  /\ \A u \in Selectable(state) :
       \/ priority[t] < priority[u]
       \/ priority[t] = priority[u] /\ Distance(t) <= Distance(u)

-----------------------------------------------------------------------------
(* Timers: the loop of tick() and of the DES advance.                      *)

Sleeper(t) == t \in Created /\ state[t] = "BLOCKED" /\ resume_tick[t] > 0

\* Mutant: a timer fires one tick late.
DueLate(t, now) == Sleeper(t) /\ resume_tick[t] < now

Due(t, now) == Sleeper(t) /\ resume_tick[t] <= now

Woken(now) == [t \in Handles |-> IF Due(t, now) THEN "READY" ELSE state[t]]

\* Mutant: an expired timer is not cleared.
TimersKept(now) == resume_tick

TimersAfter(now) ==
  [t \in Handles |-> IF Due(t, now) THEN 0 ELSE resume_tick[t]]

\* The sum of two uint32_t.
AddTicks(a, b) == (a + b) % (UINT32_MAX + 1)

\* A program without "wrap" ends before the tick counter reaches its maximum.
InHorizon(ticks) == "wrap" \in Calls \/ tick_count + ticks < UINT32_MAX

-----------------------------------------------------------------------------
(* A value-initialised Scheduler.                                          *)

Init ==
  /\ state = [t \in Handles |-> "DELETED"]
  /\ priority = [t \in Handles |-> PRI_LOWEST]
  /\ resume_tick = [t \in Handles |-> 0]
  /\ inside = [t \in Handles |-> "entry"]
  /\ task_count = 0
  /\ tick_count = 0
  /\ current = INVALID_TASK
  /\ switching = FALSE

-----------------------------------------------------------------------------
(* The kernel's own steps: one iteration of the loop that schedule_from    *)
(* and schedule_after_delete share.                                        *)

\* Mutant: the task switched to is left READY.
SwitchUnmarked(t) ==
  /\ current' = t
  /\ inside' = [inside EXCEPT ![t] = "body"]
  /\ switching' = FALSE
  /\ UNCHANGED <<state, priority, resume_tick, task_count, tick_count>>

\* The processor is given to t, which continues where its context was saved.
SwitchTo(t) ==
  /\ current' = t
  /\ state' = [state EXCEPT ![t] = "RUNNING"]
  /\ inside' = [inside EXCEPT ![t] = "body"]
  /\ switching' = FALSE
  /\ UNCHANGED <<priority, resume_tick, task_count, tick_count>>

Dispatch ==
  /\ switching
  /\ \E t \in Created : SelectNext(t) /\ SwitchTo(t)

\* The value `earliest' has after the scan of the timers is e.
Earliest(e) ==
  /\ \A t \in Created : Sleeper(t) => e <= resume_tick[t]
  /\ \/ \E t \in Created : Sleeper(t) /\ resume_tick[t] = e
     \/ e = UINT32_MAX /\ \A t \in Created : ~Sleeper(t)

\* No task is READY: simulated time jumps to the first timer.
DesAdvance ==
  /\ switching
  /\ Selectable(state) = {}
  /\ \E e \in 0..UINT32_MAX :
       /\ Earliest(e)
       /\ e # UINT32_MAX
       /\ tick_count' = e
       /\ state' = Woken(e)
       /\ resume_tick' = TimersAfter(e)
  /\ UNCHANGED <<priority, inside, task_count, current, switching>>

\* Mutant: the scheduler gives up as soon as no task is READY.
GoIdleEarly ==
  /\ switching
  /\ Selectable(state) = {}
  /\ current' = INVALID_TASK
  /\ switching' = FALSE
  /\ UNCHANGED <<state, priority, resume_tick, inside, task_count, tick_count>>

\* No task is READY and no timer is set: vTaskStartScheduler returns.
GoIdle ==
  /\ switching
  /\ Selectable(state) = {}
  /\ Earliest(UINT32_MAX)
  /\ current' = INVALID_TASK
  /\ switching' = FALSE
  /\ UNCHANGED <<state, priority, resume_tick, inside, task_count, tick_count>>

KernelStep == Dispatch \/ DesAdvance \/ GoIdle

-----------------------------------------------------------------------------
(* The calls.  A call by the running task that has to give up the          *)
(* processor leaves it in state st, to return later from the call `name'.  *)

GiveUp(st, name) ==
  /\ state' = [state EXCEPT ![current] = st]
  /\ inside' = [inside EXCEPT ![current] = name]
  /\ switching' = TRUE

\* Mutant: off by one in the test of the table's capacity.
CreateUnchecked(p) ==
  /\ Idle
  /\ task_count <= MAX_TASKS
  /\ task_count' = task_count + 1
  /\ state' = [state EXCEPT ![task_count] = "READY"]
  /\ priority' = [priority EXCEPT ![task_count] = p]
  /\ UNCHANGED <<resume_tick, inside, tick_count, current, switching>>

\* A full task table returns INVALID_TASK and changes nothing.
xTaskCreate(p) ==
  /\ \/ Idle
     \/ Running /\ "xTaskCreate" \in Calls
  /\ task_count < MAX_TASKS
  /\ task_count' = task_count + 1
  /\ state' = [state EXCEPT ![task_count] = "READY"]
  /\ priority' = [priority EXCEPT ![task_count] = p]
  /\ resume_tick' = [resume_tick EXCEPT ![task_count] = 0]
  /\ inside' = [inside EXCEPT ![task_count] = "entry"]
  /\ UNCHANGED <<tick_count, current, switching>>

vTaskStartScheduler ==
  /\ Idle
  /\ \/ \E t \in Created : SelectNext(t) /\ SwitchTo(t)
     \/ Selectable(state) = {} /\ UNCHANGED vars

\* The end of task_entry: the task's function returned or threw.
TaskReturns ==
  /\ Running
  /\ GiveUp("DELETED", "returned")
  /\ UNCHANGED <<priority, resume_tick, task_count, tick_count, current>>

\* Mutant: the timer starts one tick too early.
DelayShort(ticks) ==
  /\ Running
  /\ InHorizon(ticks)
  /\ \/ /\ ticks = 0
        /\ GiveUp("READY", "vTaskDelay")
        /\ UNCHANGED resume_tick
     \/ /\ ticks > 0
        /\ resume_tick' =
             [resume_tick EXCEPT ![current] = AddTicks(tick_count, ticks - 1)]
        /\ GiveUp("BLOCKED", "vTaskDelay")
  /\ UNCHANGED <<priority, task_count, tick_count, current>>

vTaskDelay(ticks) ==
  /\ Running
  /\ InHorizon(ticks)
  /\ \/ /\ ticks = 0
        /\ GiveUp("READY", "vTaskDelay")
        /\ UNCHANGED resume_tick
     \/ /\ ticks > 0
        /\ resume_tick' =
             [resume_tick EXCEPT ![current] = AddTicks(tick_count, ticks)]
        /\ GiveUp("BLOCKED", "vTaskDelay")
  /\ UNCHANGED <<priority, task_count, tick_count, current>>

vTaskSuspend(t) ==
  /\ ~switching
  /\ t \in Created
  /\ \/ t = current /\ GiveUp("SUSPENDED", "vTaskSuspend")
     \/ /\ t # current
        /\ state' = [state EXCEPT ![t] = "SUSPENDED"]
        /\ UNCHANGED <<inside, switching>>
  /\ UNCHANGED <<priority, resume_tick, task_count, tick_count, current>>

\* Mutant: the state of the resumed task is not looked at.
ResumeAny(t) ==
  /\ ~switching
  /\ t \in Created \ {current}
  /\ state' = [state EXCEPT ![t] = "READY"]
  /\ UNCHANGED <<priority, resume_tick, inside,
                 task_count, tick_count, current, switching>>

vTaskResume(t) ==
  /\ ~switching
  /\ t \in Created
  /\ state[t] = "SUSPENDED"
  /\ state' = [state EXCEPT ![t] = "READY"]
  /\ UNCHANGED <<priority, resume_tick, inside,
                 task_count, tick_count, current, switching>>

vTaskDelete(t) ==
  /\ ~switching
  /\ t \in Created
  /\ \/ t = current /\ GiveUp("DELETED", "vTaskDelete")
     \/ /\ t # current
        /\ state' = [state EXCEPT ![t] = "DELETED"]
        /\ UNCHANGED <<inside, switching>>
  /\ UNCHANGED <<priority, resume_tick, task_count, tick_count, current>>

block_current ==
  /\ Running
  /\ GiveUp("BLOCKED", "block_current")
  /\ UNCHANGED <<priority, resume_tick, task_count, tick_count, current>>

\* t, which the running task has just made READY, is to take the processor.
Preempts(t) == current # INVALID_TASK /\ priority[t] < priority[current]

\* Mutant: the unblocked task never takes the processor.
UnblockQuietly(t) ==
  /\ ~switching
  /\ \/ ~(t \in Created /\ state[t] = "BLOCKED") /\ UNCHANGED vars
     \/ /\ t \in Created /\ state[t] = "BLOCKED"
        /\ state' = [state EXCEPT ![t] = "READY"]
        /\ UNCHANGED <<priority, resume_tick, inside,
                       task_count, tick_count, current, switching>>

unblock(t) ==
  /\ ~switching
  /\ \/ ~(t \in Created /\ state[t] = "BLOCKED") /\ UNCHANGED vars
     \/ /\ t \in Created /\ state[t] = "BLOCKED"
        /\ \/ /\ Preempts(t)
              /\ state' = [state EXCEPT ![t] = "READY", ![current] = "READY"]
              /\ inside' = [inside EXCEPT ![current] = "preempted"]
              /\ switching' = TRUE
           \/ /\ ~Preempts(t)
              /\ state' = [state EXCEPT ![t] = "READY"]
              /\ UNCHANGED <<inside, switching>>
        /\ UNCHANGED <<priority, resume_tick, task_count, tick_count, current>>

tick(ms) ==
  /\ ~switching
  /\ InHorizon(ms)
  /\ LET now    == AddTicks(tick_count, ms)
         better == {t \in Selectable(Woken(now)) : Preempts(t)}
     IN  /\ tick_count' = now
         /\ resume_tick' = TimersAfter(now)
         /\ \/ /\ better # {}
               /\ state' = [Woken(now) EXCEPT ![current] = "READY"]
               /\ inside' = [inside EXCEPT ![current] = "preempted"]
               /\ switching' = TRUE
            \/ /\ better = {}
               /\ state' = Woken(now)
               /\ UNCHANGED <<inside, switching>>
  /\ UNCHANGED <<priority, task_count, current>>

-----------------------------------------------------------------------------
(* What programs do: main creates tasks and starts the scheduler, and      *)
(* whoever runs makes the calls that Calls allows.                         *)

Suspendable ==
  {t \in Created : \/ "vTaskSuspend_any" \in Calls
                   \/ "vTaskSuspend" \in Calls /\ state[t] \in {"READY", "RUNNING"}}

Unblockable ==
  {t \in Created : \/ "unblock_any" \in Calls
                   \/ "unblock" \in Calls /\ inside[t] = "block_current"}

\* The calls by which the running task itself gives up the processor.
Relinquish ==
  \/ "return" \in Calls /\ TaskReturns
  \/ "vTaskDelay" \in Calls /\ \E ticks \in Delays : vTaskDelay(ticks)

\* The FreeRTOS API.
TaskCall ==
  \/ \E p \in Priorities : xTaskCreate(p)
  \/ vTaskStartScheduler
  \/ Relinquish
  \/ \E t \in Suspendable : vTaskSuspend(t)
  \/ "vTaskResume" \in Calls /\ \E t \in Created : vTaskResume(t)
  \/ "vTaskDelete" \in Calls /\ \E t \in Created : vTaskDelete(t)
  \/ "tick" \in Calls /\ \E ms \in Delays : tick(ms)

\* The calls of the synchronisation primitives.
BlockCall   == "block_current" \in Calls /\ block_current
UnblockCall == \E t \in Unblockable : unblock(t)

Next == KernelStep \/ TaskCall \/ BlockCall \/ UnblockCall

Spec == Init /\ [][Next]_vars

\* The kernel's loop is ordinary code; a task eventually gives up the
\* processor (the kernel is cooperative); main restarts the scheduler.
Fairness ==
  /\ WF_vars(KernelStep)
  /\ WF_vars(Relinquish \/ BlockCall)
  /\ WF_vars(vTaskStartScheduler)

FairSpec == Spec /\ Fairness

-----------------------------------------------------------------------------
(* Properties.                                                             *)

\* The slots that xTaskCreate has not handed out are as constructed: no call,
\* wake-up or clock advance reaches beyond task_count_.
Untouched ==
  \A t \in Handles \ Created :
    /\ state[t] = "DELETED" /\ priority[t] = PRI_LOWEST
    /\ resume_tick[t] = 0 /\ inside[t] = "entry"

\* Every field of the kernel keeps its type; a slot that was never created
\* is untouched, and no TCB but a created one is current.
TypeOK ==
  /\ state \in [Handles -> TaskStates]
  /\ priority \in [Handles -> 0..NO_PRIORITY]
  /\ resume_tick \in [Handles -> 0..UINT32_MAX]
  /\ inside \in [Handles -> Contexts]
  /\ task_count \in 0..MAX_TASKS
  /\ tick_count \in 0..UINT32_MAX
  /\ current \in Created \cup {INVALID_TASK}
  /\ switching \in BOOLEAN
  /\ Untouched

\* Whatever calls the tasks make, and through every context switch, exactly
\* the task that owns the processor is RUNNING: no second RUNNING task, and
\* no RUNNING task while the kernel is choosing or main executes.
RunningIsCurrent ==
  \A t \in Created : state[t] = "RUNNING" <=> (Running /\ t = current)

\* Priority preemption (select_next, unblock, tick): no task executes while a
\* task of a better priority is READY.
NoPriorityInversion ==
  Running => \A t \in Selectable(state) : priority[t] >= priority[current]

\* A timer belongs to a task that is inside vTaskDelay: a task blocked on a
\* primitive has no timer that could wake it (the conditions `resume_tick > 0'
\* of tick and of the DES scan rely on it).
TimersBelongToSleepers ==
  \A t \in Created : Sleeper(t) => inside[t] = "vTaskDelay"

\* No timer is in the past: every clock advance wakes all tasks that are due.
NoOverdueSleeper ==
  \A t \in Created : Sleeper(t) => resume_tick[t] > tick_count

\* The inductive invariant behind the two above: between calls a set timer
\* is one of a task that sleeps towards a later tick, or of a deleted task,
\* and a task that sleeps has its timer set.
TimerInvOf(t) ==
  /\ resume_tick[t] > 0 =>
       \/ state[t] = "DELETED"
       \/ /\ state[t] = "BLOCKED" /\ inside[t] = "vTaskDelay"
          /\ tick_count < resume_tick[t] /\ resume_tick[t] < UINT32_MAX
  /\ state[t] = "BLOCKED" =>
       \/ inside[t] = "block_current"
       \/ inside[t] = "vTaskDelay" /\ resume_tick[t] > 0

TimerInv ==
  /\ tick_count < UINT32_MAX
  /\ \A t \in Created : TimerInvOf(t)

\* Simulated time never runs backwards (schedule_from assigns tick_count_).
TimeMonotone == [][tick_count' >= tick_count]_vars

\* "Returns here when all tasks complete or deadlock": the scheduler returns
\* to main only when each task is deleted, suspended, or blocked on a
\* primitive, never while one is merely asleep.
\* A task of priority 0xFF is never chosen and is not counted.
IdleOnlyWhenStuck ==
  [][switching /\ Idle' =>
       \A t \in Created :
         \/ state[t] \in {"DELETED", "SUSPENDED"}
         \/ state[t] = "BLOCKED" /\ inside[t] = "block_current"
         \/ priority[t] = NO_PRIORITY]_vars

\* A deleted task never executes again.
DeletedForGood ==
  [][\A t \in Created : state[t] = "DELETED" => state'[t] = "DELETED"]_vars

\* The loop of schedule_from ends: simulated time jumps only finitely often
\* before a task is dispatched or main is resumed.
KernelReturns == switching ~> ~switching

\* Round-robin among equal priorities: a READY task gets the processor.
ReadyRuns ==
  \A t \in Handles : (t \in Created /\ state[t] = "READY") ~> state[t] = "RUNNING"
=============================================================================
