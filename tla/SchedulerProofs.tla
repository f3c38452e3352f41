--------------------------- MODULE SchedulerProofs ---------------------------
(***************************************************************************)
(* Theorems about the kernel, for every size of the task table, every      *)
(* width of the tick counter, every set of priorities and, where nothing   *)
(* else is said, every set of calls.                                       *)
(***************************************************************************)
EXTENDS WaitList, FiniteSetTheorems, TLAPS

(* Assertions about single steps.                                          *)

\* select_next returns a READY task of the table.
LEMMA SelectedIsReady ==
  ASSUME NEW t, SelectNext(t)
  PROVE  t \in Created /\ state[t] = "READY"
BY DEF SelectNext, Selectable

\* Waking the due tasks and clearing their timers keeps the types.
LEMMA WokenType ==
  ASSUME TypeOK, NEW now \in 0..UINT32_MAX
  PROVE  /\ Woken(now) \in [Handles -> TaskStates]
         /\ TimersAfter(now) \in [Handles -> 0..UINT32_MAX]
BY SchedulerAssumption DEF TypeOK, Woken, TimersAfter, TaskStates

\* Unsigned addition stays in the width of the tick counter.
LEMMA AddTicksType ==
  ASSUME NEW a \in 0..UINT32_MAX, NEW b \in 0..UINT32_MAX
  PROVE  AddTicks(a, b) \in 0..UINT32_MAX
<1>1. UINT32_MAX \in Nat
  BY SchedulerAssumption
<1> QED
  BY <1>1, SMT DEF AddTicks

\* Slots of the task table are never confused with INVALID_TASK.
LEMMA CreatedFacts ==
  ASSUME TypeOK
  PROVE  /\ Created \subseteq Handles
         /\ INVALID_TASK \notin Handles
         /\ task_count \in Nat
BY SchedulerAssumption DEF TypeOK, Created, Handles, INVALID_TASK

(***************************************************************************)
(* The kernel's fields keep their types.                                   *)
(***************************************************************************)
\* No step writes to a slot of the table that was not handed out.
LEMMA UntouchedStep == TypeOK /\ [Next]_vars => Untouched'
<1> SUFFICES ASSUME TypeOK, [Next]_vars, NEW t \in Handles \ Created'
             PROVE  /\ state'[t] = "DELETED" /\ priority'[t] = PRI_LOWEST
                    /\ resume_tick'[t] = 0 /\ inside'[t] = "entry"
  BY DEF Untouched
<1> DEFINE Same == /\ state'[t] = state[t] /\ priority'[t] = priority[t]
                   /\ resume_tick'[t] = resume_tick[t] /\ inside'[t] = inside[t]
<1>c. /\ Created \subseteq Handles
      /\ INVALID_TASK \notin Handles
      /\ task_count \in Nat
  BY CreatedFacts
<1>n. t \notin Created
  <2>1. task_count' = task_count \/ task_count' = task_count + 1
    BY DEF Next, vars, KernelStep, Dispatch, DesAdvance, GoIdle, SwitchTo,
       TaskCall, xTaskCreate, vTaskStartScheduler, Relinquish, TaskReturns,
       vTaskDelay, vTaskSuspend, vTaskResume, vTaskDelete, tick, BlockCall,
       block_current, UnblockCall, unblock
  <2> QED
    BY <1>c, <2>1 DEF Created
<1> SUFFICES Same
  BY <1>n DEF TypeOK, Untouched
<1>t. /\ state \in [Handles -> TaskStates] /\ inside \in [Handles -> Contexts]
      /\ priority \in [Handles -> 0..NO_PRIORITY]
      /\ resume_tick \in [Handles -> 0..UINT32_MAX]
      /\ current \in Created \cup {INVALID_TASK}
      /\ t # current /\ t \in Handles
  BY <1>c, <1>n DEF TypeOK
<1>w. ASSUME NEW now PROVE Woken(now)[t] = state[t] /\ TimersAfter(now)[t] = resume_tick[t]
  BY <1>n, <1>t DEF Woken, TimersAfter, Due, Sleeper
<1>0. CASE UNCHANGED vars
  BY <1>0 DEF vars
<1>s. ASSUME NEW u \in Created, SwitchTo(u) PROVE Same
  BY <1>s, <1>c, <1>n, <1>t DEF SwitchTo
<1>1. CASE Dispatch \/ vTaskStartScheduler
  BY <1>0, <1>1, <1>s DEF Dispatch, vTaskStartScheduler
<1>2. CASE DesAdvance
  BY <1>2, <1>w DEF DesAdvance
<1>3. CASE GoIdle
  BY <1>3 DEF GoIdle
<1>4. ASSUME NEW p \in Priorities, xTaskCreate(p) PROVE Same
  <2>1. t # task_count
    BY <1>4, <1>c DEF xTaskCreate, Created
  <2> QED
    BY <1>4, <1>t, <2>1 DEF xTaskCreate
<1>5. CASE Relinquish \/ BlockCall
  BY <1>5, <1>t DEF Relinquish, BlockCall, TaskReturns, vTaskDelay, block_current, GiveUp
<1>6. ASSUME NEW u \in Created, vTaskSuspend(u) \/ vTaskDelete(u) PROVE Same
  BY <1>6, <1>n, <1>t DEF vTaskSuspend, vTaskDelete, GiveUp
<1>7. ASSUME NEW u \in Created, vTaskResume(u) PROVE Same
  BY <1>7, <1>n, <1>t DEF vTaskResume
<1>8. ASSUME NEW u \in Created, unblock(u) PROVE Same
  BY <1>0, <1>8, <1>n, <1>t DEF unblock
<1>9. ASSUME NEW ms \in Delays, tick(ms) PROVE Same
  <2> DEFINE now == AddTicks(tick_count, ms)
  <2>1. /\ state' = Woken(now) \/ state' = [Woken(now) EXCEPT ![current] = "READY"]
        /\ inside' = inside \/ inside' = [inside EXCEPT ![current] = "preempted"]
        /\ resume_tick' = TimersAfter(now) /\ priority' = priority
    BY <1>9 DEF tick
  <2>2. DOMAIN Woken(now) = Handles
    BY DEF Woken
  <2>3. Woken(now)[t] = state[t] /\ TimersAfter(now)[t] = resume_tick[t]
    BY <1>w
  <2> HIDE DEF now
  <2>4. [Woken(now) EXCEPT ![current] = "READY"][t] = state[t]
    BY <1>t, <2>2, <2>3
  <2> QED
    BY <1>t, <2>1, <2>3, <2>4
<1> HIDE DEF Same
<1> QED
  BY <1>0, <1>1, <1>2, <1>3, <1>4, <1>5, <1>6, <1>7, <1>8, <1>9
  DEF Next, KernelStep, TaskCall, BlockCall, UnblockCall, Suspendable,
      Unblockable

LEMMA TypeStep == TypeOK /\ [Next]_vars => TypeOK'
<1> SUFFICES ASSUME TypeOK, [Next]_vars PROVE TypeOK'
  OBVIOUS
<1>c. /\ Created \subseteq Handles
      /\ INVALID_TASK \notin Handles
      /\ task_count \in Nat
  BY CreatedFacts
<1>d. /\ UINT32_MAX \in Nat
      /\ MAX_TASKS \in Nat
      /\ MAX_TASKS <= INVALID_TASK
      /\ Priorities \subseteq 0..NO_PRIORITY
      /\ Delays \subseteq 0..UINT32_MAX
  BY SchedulerAssumption DEF INVALID_TASK
<1>u. Untouched'
  BY UntouchedStep
<1>0. CASE UNCHANGED vars
  BY <1>u, <1>0 DEF TypeOK, vars, Created
<1>s. ASSUME NEW t \in Created, SwitchTo(t)
      PROVE  TypeOK'
  BY <1>u, <1>s, <1>c DEF TypeOK, SwitchTo, Created, TaskStates, Contexts
<1>1. CASE Dispatch
  BY <1>1, <1>s DEF Dispatch
<1>2. CASE DesAdvance
  <2> PICK e \in 0..UINT32_MAX :
        /\ tick_count' = e
        /\ state' = Woken(e)
        /\ resume_tick' = TimersAfter(e)
    BY <1>2 DEF DesAdvance
  <2> QED
    BY <1>u, <1>2, WokenType DEF DesAdvance, TypeOK, Created
<1>3. CASE GoIdle
  BY <1>u, <1>3 DEF GoIdle, TypeOK, Created
<1>4. ASSUME NEW p \in Priorities, xTaskCreate(p)
      PROVE  TypeOK'
  <2>1. task_count \in Handles /\ task_count' \in 0..MAX_TASKS
    BY <1>4, <1>c, <1>d DEF xTaskCreate, Handles, TypeOK
  <2>2. current' \in Created' \cup {INVALID_TASK}
    BY <1>4, <1>c DEF xTaskCreate, TypeOK, Created
  <2> QED
    BY <1>u, <1>4, <1>d, <2>1, <2>2
    DEF xTaskCreate, TypeOK, TaskStates, Contexts
<1>5. CASE vTaskStartScheduler
  BY <1>5, <1>s, <1>0 DEF vTaskStartScheduler
<1>g. ASSUME NEW st \in TaskStates, NEW name \in Contexts, GiveUp(st, name)
      PROVE  /\ state' \in [Handles -> TaskStates]
             /\ inside' \in [Handles -> Contexts]
             /\ switching' \in BOOLEAN
  BY <1>g DEF GiveUp, TypeOK
<1>6. CASE TaskReturns
  BY <1>u, <1>6, <1>g DEF TaskReturns, TypeOK, TaskStates, Contexts, Created
<1>7. ASSUME NEW ticks \in Delays, vTaskDelay(ticks)
      PROVE  TypeOK'
  <2>1. /\ state' \in [Handles -> TaskStates]
        /\ inside' \in [Handles -> Contexts]
        /\ switching' \in BOOLEAN
    BY <1>7, <1>g DEF vTaskDelay, TaskStates, Contexts
  <2>2. AddTicks(tick_count, ticks) \in 0..UINT32_MAX
    BY <1>d, AddTicksType DEF TypeOK
  <2>3. resume_tick' \in [Handles -> 0..UINT32_MAX]
    BY <1>7, <2>2 DEF vTaskDelay, TypeOK
  <2> QED
    BY <1>u, <1>7, <2>1, <2>3 DEF vTaskDelay, TypeOK, Created
<1>8. CASE block_current
  BY <1>u, <1>8, <1>g DEF block_current, TypeOK, TaskStates, Contexts, Created
<1>9. ASSUME NEW t \in Created, vTaskSuspend(t)
      PROVE  TypeOK'
  BY <1>u, <1>9, <1>g DEF vTaskSuspend, TypeOK, TaskStates, Contexts, Created
<1>10. ASSUME NEW t \in Created, vTaskResume(t)
       PROVE  TypeOK'
  BY <1>u, <1>10 DEF vTaskResume, TypeOK, TaskStates, Contexts, Created
<1>11. ASSUME NEW t \in Created, vTaskDelete(t)
       PROVE  TypeOK'
  BY <1>u, <1>11, <1>g DEF vTaskDelete, TypeOK, TaskStates, Contexts, Created
<1>12. ASSUME NEW t \in Created, unblock(t)
       PROVE  TypeOK'
  BY <1>u, <1>12, <1>0 DEF unblock, TypeOK, TaskStates, Contexts, Created
<1>13. ASSUME NEW ms \in Delays, tick(ms)
       PROVE  TypeOK'
  <2>1. AddTicks(tick_count, ms) \in 0..UINT32_MAX
    BY <1>d, AddTicksType DEF TypeOK
  <2>2. /\ Woken(AddTicks(tick_count, ms)) \in [Handles -> TaskStates]
        /\ TimersAfter(AddTicks(tick_count, ms)) \in [Handles -> 0..UINT32_MAX]
    BY <2>1, WokenType
  <2>3. /\ state' \in [Handles -> TaskStates]
        /\ inside' \in [Handles -> Contexts]
        /\ switching' \in BOOLEAN
    BY <1>13, <2>2 DEF tick, TypeOK, TaskStates, Contexts
  <2> QED
    BY <1>u, <1>13, <2>1, <2>2, <2>3 DEF tick, TypeOK, Created
<1> QED
  BY <1>0, <1>1, <1>2, <1>3, <1>4, <1>5, <1>6, <1>7, <1>8, <1>9, <1>10,
     <1>11, <1>12, <1>13
  DEF Next, KernelStep, TaskCall, BlockCall, UnblockCall, Relinquish,
      Suspendable, Unblockable

\* The invariants hold when the kernel is constructed.
LEMMA InitialInvariants ==
  Init => TypeOK /\ RunningIsCurrent /\ TimerInv
<1> SUFFICES ASSUME Init PROVE TypeOK /\ RunningIsCurrent /\ TimerInv
  OBVIOUS
<1>1. TypeOK
  <2>1. /\ task_count \in 0..MAX_TASKS
        /\ tick_count \in 0..UINT32_MAX
        /\ 0 \in 0..UINT32_MAX
        /\ PRI_LOWEST \in 0..NO_PRIORITY
    BY SchedulerAssumption DEF Init, INVALID_TASK, NO_PRIORITY, PRI_LOWEST
  <2>2. current = INVALID_TASK /\ switching \in BOOLEAN
    BY DEF Init
  <2>3. Untouched
    BY DEF Init, Untouched
  <2> QED
    BY <2>1, <2>2, <2>3 DEF Init, TypeOK, TaskStates, Contexts
<1>2. RunningIsCurrent
  BY DEF Init, RunningIsCurrent, Created
<1>3. TimerInv
  BY SchedulerAssumption DEF Init, TimerInv, Created
<1> QED
  BY <1>1, <1>2, <1>3

\* The fields of the kernel keep their types and current_ is a created task
\* or INVALID_TASK, through all calls and context switches.
THEOREM TypeCorrect == Spec => []TypeOK
BY InitialInvariants, TypeStep, PTL DEF Spec

(***************************************************************************)
(* Exactly the owner of the processor is RUNNING.                          *)
(***************************************************************************)
LEMMA RunningStep ==
  TypeOK /\ RunningIsCurrent /\ [Next]_vars => RunningIsCurrent'
<1> SUFFICES ASSUME TypeOK, RunningIsCurrent, [Next]_vars
             PROVE  RunningIsCurrent'
  OBVIOUS
<1>c. /\ Created \subseteq Handles
      /\ INVALID_TASK \notin Handles
      /\ task_count \in Nat
  BY CreatedFacts
<1>0. CASE UNCHANGED vars
  BY <1>0 DEF RunningIsCurrent, Running, Created, vars
\* Nobody was RUNNING before the switch, only t is after it.
<1>s. ASSUME NEW t \in Created, SwitchTo(t), ~Running
      PROVE  RunningIsCurrent'
  BY <1>s, <1>c DEF RunningIsCurrent, Running, SwitchTo, Created, TypeOK
<1>1. CASE Dispatch
  BY <1>1, <1>s DEF Dispatch, Running
<1>2. CASE DesAdvance
  <2> PICK e \in 0..UINT32_MAX : state' = Woken(e)
    BY <1>2 DEF DesAdvance
  <2> QED
    BY <1>2, <1>c DEF DesAdvance, Woken, RunningIsCurrent, Running, Created
<1>3. CASE GoIdle
  BY <1>3 DEF GoIdle, RunningIsCurrent, Running, Created
<1>4. ASSUME NEW p \in Priorities, xTaskCreate(p)
      PROVE  RunningIsCurrent'
  <2>1. task_count \notin Created /\ current # task_count
    BY <1>4, <1>c, SchedulerAssumption
    DEF xTaskCreate, Created, Handles, TypeOK, INVALID_TASK
  <2>2. \A t \in Created' : t \in Created \/ t = task_count
    BY <1>4, <1>c DEF xTaskCreate, Created
  <2>3. task_count \in Handles
    BY <1>4, <1>c, SchedulerAssumption DEF xTaskCreate, Handles
  <2> QED
    BY <1>4, <1>c, <2>1, <2>2, <2>3
    DEF xTaskCreate, RunningIsCurrent, Running, TypeOK
<1>5. CASE vTaskStartScheduler
  BY <1>5, <1>s, <1>0 DEF vTaskStartScheduler, Running, Idle
\* A task that gives up the processor is not RUNNING any more.
<1>g. ASSUME NEW st \in TaskStates \ {"RUNNING"}, NEW name, GiveUp(st, name),
             Running, current' = current, task_count' = task_count
      PROVE  RunningIsCurrent'
  BY <1>g, <1>c DEF GiveUp, RunningIsCurrent, Running, Created, TypeOK
<1>6. CASE TaskReturns
  BY <1>6, <1>g DEF TaskReturns, TaskStates
<1>7. ASSUME NEW ticks \in Delays, vTaskDelay(ticks)
      PROVE  RunningIsCurrent'
  BY <1>7, <1>g DEF vTaskDelay, TaskStates
<1>8. CASE block_current
  BY <1>8, <1>g DEF block_current, TaskStates
<1>9. ASSUME NEW t \in Created, vTaskSuspend(t)
      PROVE  RunningIsCurrent'
  <2>1. CASE t = current
    BY <1>9, <1>c, <1>g, <2>1 DEF vTaskSuspend, TaskStates, Running
  <2>2. CASE t # current
    BY <1>9, <1>c, <2>2
    DEF vTaskSuspend, RunningIsCurrent, Running, Created, TypeOK
  <2> QED
    BY <2>1, <2>2
<1>10. ASSUME NEW t \in Created, vTaskResume(t)
       PROVE  RunningIsCurrent'
  BY <1>10, <1>c DEF vTaskResume, RunningIsCurrent, Running, Created, TypeOK
<1>11. ASSUME NEW t \in Created, vTaskDelete(t)
       PROVE  RunningIsCurrent'
  <2>1. CASE t = current
    BY <1>11, <1>c, <1>g, <2>1 DEF vTaskDelete, TaskStates, Running
  <2>2. CASE t # current
    BY <1>11, <1>c, <2>2
    DEF vTaskDelete, RunningIsCurrent, Running, Created, TypeOK
  <2> QED
    BY <2>1, <2>2
<1>12. ASSUME NEW t \in Created, unblock(t)
       PROVE  RunningIsCurrent'
  BY <1>12, <1>0, <1>c
  DEF unblock, Preempts, RunningIsCurrent, Running, Created, TypeOK
<1>13. ASSUME NEW ms \in Delays, tick(ms)
       PROVE  RunningIsCurrent'
  <2> DEFINE now == AddTicks(tick_count, ms)
  <2>1. \A t \in Created : Woken(now)[t] = "RUNNING" <=> state[t] = "RUNNING"
    BY <1>c DEF Woken, Due, Sleeper
  <2>2. Woken(now) \in [Handles -> TaskStates]
    BY WokenType, AddTicksType, SchedulerAssumption DEF TypeOK
  <2> HIDE DEF now
  <2>3. CASE state' = Woken(now) /\ switching' = switching
    BY <1>13, <2>1, <2>3 DEF tick, RunningIsCurrent, Running, Created
  <2>4. CASE /\ state' = [Woken(now) EXCEPT ![current] = "READY"]
             /\ switching' = TRUE
    BY <1>13, <1>c, <2>1, <2>2, <2>4 DEF tick, RunningIsCurrent, Running, Created
  <2> QED
    BY <1>13, <2>3, <2>4 DEF tick, now
<1> QED
  BY <1>0, <1>1, <1>2, <1>3, <1>4, <1>5, <1>6, <1>7, <1>8, <1>9, <1>10,
     <1>11, <1>12, <1>13
  DEF Next, KernelStep, TaskCall, BlockCall, UnblockCall, Relinquish,
      Suspendable, Unblockable

\* Whatever the tasks call, the RUNNING task is the one that current_ names
\* while a task executes, and no task is RUNNING otherwise.
THEOREM RunningCorrect == Spec => []RunningIsCurrent
BY InitialInvariants, TypeCorrect, RunningStep, PTL DEF Spec

(***************************************************************************)
(* Priority preemption.  vTaskResume and a creation by a running task make *)
(* a task READY without comparing priorities; without them the running     *)
(* task is always one of the best.                                         *)
(***************************************************************************)
\* Only calls that compare priorities make a task READY.
ComparesPriorities == Calls \cap {"vTaskResume", "xTaskCreate"} = {}

LEMMA PreemptionStep ==
  ASSUME ComparesPriorities
  PROVE  TypeOK /\ NoPriorityInversion /\ [Next]_vars => NoPriorityInversion'
<1> SUFFICES ASSUME TypeOK, NoPriorityInversion, [Next]_vars
             PROVE  NoPriorityInversion'
  OBVIOUS
<1>c. /\ Created \subseteq Handles
      /\ INVALID_TASK \notin Handles
      /\ task_count \in Nat
  BY CreatedFacts
<1>p. /\ \A t \in Handles : priority[t] \in Nat
      /\ current \in Created \cup {INVALID_TASK}
  BY DEF TypeOK
<1>0. CASE UNCHANGED vars
  BY <1>0 DEF NoPriorityInversion, Running, Selectable, Created, vars
\* select_next compared the task switched to with every READY task.
<1>s. ASSUME NEW t \in Created, SelectNext(t), SwitchTo(t)
      PROVE  NoPriorityInversion'
  BY <1>s, <1>c, <1>p
  DEF SelectNext, SwitchTo, NoPriorityInversion, Running, Selectable, Created,
      TypeOK
\* After a step that leaves the kernel inside schedule_from nobody runs.
<1>k. ASSUME switching' = TRUE
      PROVE  NoPriorityInversion'
  BY <1>k DEF NoPriorityInversion, Running
\* A step that makes no task READY keeps the running task one of the best.
<1>r. ASSUME /\ UNCHANGED <<priority, task_count, current>>
             /\ switching' = switching
             /\ \A u \in Created : state'[u] = "READY" => state[u] = "READY"
      PROVE  NoPriorityInversion'
  BY <1>r DEF NoPriorityInversion, Running, Selectable, Created
<1>1. CASE Dispatch
  BY <1>1, <1>s DEF Dispatch
<1>2. CASE DesAdvance
  BY <1>2, <1>k DEF DesAdvance
<1>3. CASE GoIdle
  BY <1>3 DEF GoIdle, NoPriorityInversion, Running
<1>4. ASSUME NEW p \in Priorities, xTaskCreate(p)
      PROVE  NoPriorityInversion'
  BY <1>4 DEF xTaskCreate, ComparesPriorities, NoPriorityInversion, Running, Idle
<1>5. CASE vTaskStartScheduler
  BY <1>5, <1>s, <1>0 DEF vTaskStartScheduler
<1>6. CASE Relinquish \/ BlockCall
  BY <1>6, <1>k DEF Relinquish, BlockCall, TaskReturns, vTaskDelay, block_current, GiveUp
<1>7. ASSUME NEW t \in Created, vTaskSuspend(t) \/ vTaskDelete(t)
      PROVE  NoPriorityInversion'
  <2>1. CASE t = current
    BY <1>7, <1>k, <2>1 DEF vTaskSuspend, vTaskDelete, GiveUp
  <2>2. CASE t # current
    BY <1>7, <1>c, <1>r, <2>2 DEF vTaskSuspend, vTaskDelete, TypeOK
  <2> QED
    BY <2>1, <2>2
<1>8. ASSUME NEW t \in Created, unblock(t)
      PROVE  NoPriorityInversion'
  <2>1. CASE UNCHANGED vars
    BY <1>0, <2>1
  <2>2. CASE switching' = TRUE
    BY <1>k, <2>2
  <2>3. CASE /\ ~Preempts(t)
             /\ state' = [state EXCEPT ![t] = "READY"]
             /\ UNCHANGED <<priority, task_count, current, switching>>
    BY <1>c, <1>p, <2>3
    DEF Preempts, NoPriorityInversion, Running, Selectable, Created, TypeOK
  <2> QED
    BY <1>8, <2>1, <2>2, <2>3 DEF unblock
<1>9. ASSUME NEW ms \in Delays, tick(ms)
      PROVE  NoPriorityInversion'
  <2> DEFINE woken == Woken(AddTicks(tick_count, ms))
  <2>1. CASE switching' = TRUE
    BY <1>k, <2>1
  <2>2. CASE /\ {t \in Selectable(woken) : Preempts(t)} = {}
             /\ state' = woken
             /\ switching' = switching
    <3> HIDE DEF woken
    <3> QED
      BY <1>9, <1>c, <1>p, <2>2
      DEF tick, Preempts, NoPriorityInversion, Running, Selectable, Created
  <2> QED
    BY <1>9, <2>1, <2>2 DEF tick
<1> QED
  BY <1>0, <1>1, <1>2, <1>3, <1>4, <1>5, <1>6, <1>7, <1>8, <1>9
  DEF Next, KernelStep, TaskCall, UnblockCall, Suspendable, Unblockable,
      ComparesPriorities

\* Programs that use neither vTaskResume nor creation by a running task are
\* scheduled preemptively: no task executes while a better one is READY.
THEOREM PreemptionCorrect ==
  ASSUME ComparesPriorities
  PROVE  Spec => []NoPriorityInversion
<1>1. Init => NoPriorityInversion
  BY DEF Init, NoPriorityInversion, Running
<1> QED
  BY <1>1, TypeCorrect, PreemptionStep, PTL DEF Spec

(***************************************************************************)
(* Timers.  A sleeping task must leave vTaskDelay through its timer only,  *)
(* or the timer outlives the sleep; and the tick counter must not          *)
(* overflow.  NoOverdueSleeper alone is not inductive: a woken task could  *)
(* keep an old timer and block again on a primitive.  TimerInv excludes    *)
(* timers of READY, RUNNING and SUSPENDED tasks.                           *)
(***************************************************************************)
\* Nobody suspends or unblocks a sleeping task, and time does not overflow.
TimerDiscipline ==
  Calls \cap {"vTaskSuspend_any", "unblock_any", "wrap"} = {}

LEMMA TimerStep ==
  ASSUME TimerDiscipline
  PROVE  TypeOK /\ RunningIsCurrent /\ TimerInv /\ [Next]_vars => TimerInv'
<1> SUFFICES ASSUME TypeOK, RunningIsCurrent, TimerInv, [Next]_vars
             PROVE  TimerInv'
  OBVIOUS
<1>c. /\ Created \subseteq Handles
      /\ INVALID_TASK \notin Handles
      /\ task_count \in Nat
  BY CreatedFacts
<1>t. /\ tick_count \in Nat
      /\ UINT32_MAX \in Nat
      /\ \A t \in Handles : resume_tick[t] \in Nat
  BY SchedulerAssumption DEF TypeOK
<1>0. CASE UNCHANGED vars
  BY <1>0 DEF TimerInv, TimerInvOf, Created, vars
<1>s. ASSUME NEW t \in Created, SelectNext(t), SwitchTo(t)
      PROVE  TimerInv'
  <2>1. resume_tick[t] = 0
    BY <1>s, <1>c, <1>t, SelectedIsReady DEF TimerInv, TimerInvOf
  <2> QED
    BY <1>s, <1>c, <2>1 DEF SwitchTo, TimerInv, TimerInvOf, Created, TypeOK
\* Advancing the clock to a tick below the maximum wakes all that are due.
<1>w. ASSUME NEW e \in Nat, e < UINT32_MAX,
             resume_tick' = TimersAfter(e),
             tick_count' = e,
             UNCHANGED task_count,
             \A t \in Created :
               \/ state'[t] = Woken(e)[t] /\ inside'[t] = inside[t]
               \/ state[t] = "RUNNING" /\ state'[t] = "READY"
      PROVE  TimerInv'
  <2>1. Created' = Created
    BY <1>w DEF Created
  <2>2. ASSUME NEW t \in Created PROVE TimerInvOf(t)'
    <3>1. t \in Handles /\ TimerInvOf(t)
      BY <1>c DEF TimerInv
    <3>2. CASE Due(t, e)
      <4>1. state'[t] = "READY" /\ resume_tick'[t] = 0
        BY <1>w, <3>1, <3>2 DEF TimersAfter, Woken, Due, Sleeper
      <4> QED
        BY <4>1 DEF TimerInvOf
    <3>3. CASE ~Due(t, e)
      <4>1. resume_tick'[t] = resume_tick[t]
        BY <1>w, <3>1, <3>3 DEF TimersAfter
      <4>2. Woken(e)[t] = state[t]
        BY <3>1, <3>3 DEF Woken
      <4> QED
        BY <1>w, <1>t, <3>1, <3>3, <4>1, <4>2 DEF TimerInvOf, Due, Sleeper
    <3> QED
      BY <3>2, <3>3
  <2> QED
    BY <1>w, <2>1, <2>2 DEF TimerInv
<1>1. CASE Dispatch
  BY <1>1, <1>s DEF Dispatch
<1>2. CASE DesAdvance
  <2> PICK e \in 0..UINT32_MAX :
        /\ e # UINT32_MAX
        /\ tick_count' = e
        /\ state' = Woken(e)
        /\ resume_tick' = TimersAfter(e)
    BY <1>2 DEF DesAdvance
  <2> QED
    BY <1>2, <1>t, <1>w DEF DesAdvance
<1>3. CASE GoIdle
  BY <1>3 DEF GoIdle, TimerInv, TimerInvOf, Created
<1>4. ASSUME NEW p \in Priorities, xTaskCreate(p)
      PROVE  TimerInv'
  <2>1. \A t \in Created' : t \in Created \/ t = task_count
    BY <1>4, <1>c DEF xTaskCreate, Created
  <2>2. task_count \in Handles /\ task_count \notin Created
    BY <1>4, <1>c, SchedulerAssumption DEF xTaskCreate, Handles, Created
  <2>3. ASSUME NEW t \in Created PROVE TimerInvOf(t)'
    BY <1>4, <1>c, <2>2, <2>3 DEF xTaskCreate, TimerInv, TimerInvOf, TypeOK
  <2> PICK n \in Handles : n = task_count
    BY <2>2
  <2>4. resume_tick'[n] = 0 /\ state'[n] = "READY"
    BY <1>4 DEF xTaskCreate, TypeOK
  <2>5. TimerInvOf(n)'
    BY <2>4 DEF TimerInvOf
  <2> QED
    BY <1>4, <2>1, <2>3, <2>5 DEF xTaskCreate, TimerInv
<1>5. CASE vTaskStartScheduler
  BY <1>5, <1>s, <1>0 DEF vTaskStartScheduler
\* The running task has no timer.
<1>r. ASSUME Running
      PROVE  current \in Created /\ resume_tick[current] = 0
  BY <1>r, <1>c, <1>t DEF Running, TypeOK, RunningIsCurrent, TimerInv, TimerInvOf
<1>6. ASSUME NEW st \in {"READY", "SUSPENDED", "DELETED", "BLOCKED"}, NEW name,
             Running, GiveUp(st, name), st = "BLOCKED" => name = "block_current",
             UNCHANGED <<resume_tick, task_count, tick_count>>
      PROVE  TimerInv'
  BY <1>6, <1>c, <1>r DEF GiveUp, TimerInv, TimerInvOf, Created, TypeOK
<1>7. ASSUME NEW ticks \in Delays, vTaskDelay(ticks)
      PROVE  TimerInv'
  <2>1. CASE ticks = 0
    BY <1>6, <1>7, <2>1 DEF vTaskDelay
  <2>2. CASE ticks # 0
    <3>1. /\ ticks \in Nat
          /\ tick_count + ticks < UINT32_MAX
      BY <1>7, SchedulerAssumption DEF vTaskDelay, InHorizon, TimerDiscipline
    <3>2. AddTicks(tick_count, ticks) = tick_count + ticks
      BY <1>t, <3>1 DEF AddTicks
    <3> QED
      BY <1>7, <1>c, <1>t, <1>r, <2>2, <3>1, <3>2
      DEF vTaskDelay, GiveUp, TimerInv, TimerInvOf, Created, TypeOK
  <2> QED
    BY <2>1, <2>2
<1>8. CASE Relinquish \/ BlockCall
  BY <1>8, <1>6, <1>7 DEF Relinquish, BlockCall, TaskReturns, block_current
<1>9. ASSUME NEW t \in Suspendable, vTaskSuspend(t)
      PROVE  TimerInv'
  <2>1. t \in Created /\ resume_tick[t] = 0
    BY <1>c, <1>t DEF Suspendable, TimerDiscipline, TimerInv, TimerInvOf
  <2>2. CASE t = current
    BY <1>9, <1>c, <1>6, <2>1, <2>2 DEF vTaskSuspend, Running
  <2>3. CASE t # current
    BY <1>9, <1>c, <2>1, <2>3 DEF vTaskSuspend, TimerInv, TimerInvOf, Created, TypeOK
  <2> QED
    BY <2>2, <2>3
<1>10. ASSUME NEW t \in Created, vTaskResume(t)
       PROVE  TimerInv'
  BY <1>10, <1>c, <1>t DEF vTaskResume, TimerInv, TimerInvOf, Created, TypeOK
<1>11. ASSUME NEW t \in Created, vTaskDelete(t)
       PROVE  TimerInv'
  <2>1. CASE t = current
    BY <1>11, <1>c, <1>6, <2>1 DEF vTaskDelete, Running
  <2>2. CASE t # current
    BY <1>11, <1>c, <2>2 DEF vTaskDelete, TimerInv, TimerInvOf, Created, TypeOK
  <2> QED
    BY <2>1, <2>2
<1>12. ASSUME NEW t \in Unblockable, unblock(t)
       PROVE  TimerInv'
  <2>1. t \in Created /\ inside[t] = "block_current"
    BY DEF Unblockable, TimerDiscipline
  <2>2. CASE UNCHANGED vars
    BY <1>0, <2>2
  <2>3. CASE state[t] = "BLOCKED" /\ ~UNCHANGED vars
    <3>1. resume_tick[t] = 0
      BY <1>c, <1>t, <2>1, <2>3 DEF TimerInv, TimerInvOf
    <3>2. Preempts(t) => current \in Created /\ resume_tick[current] = 0
      BY <1>12, <1>r DEF Preempts, unblock, Running
    <3> QED
      BY <1>12, <1>c, <2>1, <2>3, <3>1, <3>2
      DEF unblock, TimerInv, TimerInvOf, Created, TypeOK
  <2> QED
    BY <1>12, <2>2, <2>3 DEF unblock
<1>13. ASSUME NEW ms \in Delays, tick(ms)
       PROVE  TimerInv'
  <2>1. ms \in Nat /\ tick_count + ms < UINT32_MAX
    BY <1>13, SchedulerAssumption DEF tick, InHorizon, TimerDiscipline
  <2>2. AddTicks(tick_count, ms) = tick_count + ms
    BY <1>t, <2>1 DEF AddTicks
  <2> DEFINE e == tick_count + ms
  <2>3. /\ e \in Nat /\ e < UINT32_MAX
        /\ resume_tick' = TimersAfter(e)
        /\ tick_count' = e
        /\ UNCHANGED task_count
    BY <1>13, <1>t, <2>1, <2>2 DEF tick
  <2>4. \/ state' = Woken(e) /\ inside' = inside
        \/ /\ current \in Created /\ state[current] = "RUNNING"
           /\ state' = [Woken(e) EXCEPT ![current] = "READY"]
           /\ inside' = [inside EXCEPT ![current] = "preempted"]
    BY <1>13, <2>2 DEF tick, Preempts, Running, RunningIsCurrent, TypeOK
  <2>5. Woken(e) \in [Handles -> TaskStates]
    BY <1>t, <2>3, WokenType
  <2> HIDE DEF e
  <2>6. \A t \in Created :
          \/ state'[t] = Woken(e)[t] /\ inside'[t] = inside[t]
          \/ state[t] = "RUNNING" /\ state'[t] = "READY"
    BY <1>c, <2>4, <2>5 DEF TypeOK
  <2> QED
    BY <1>w, <2>3, <2>6
<1> QED
  BY <1>0, <1>1, <1>2, <1>3, <1>4, <1>5, <1>8, <1>9, <1>10, <1>11, <1>12, <1>13
  DEF Next, KernelStep, TaskCall, UnblockCall

\* In a disciplined program every timer is one of a task asleep in vTaskDelay
\* until a later tick, or of a deleted task, and no task sleeps without one.
THEOREM TimerInvariant ==
  ASSUME TimerDiscipline
  PROVE  Spec => []TimerInv
BY InitialInvariants, TypeCorrect, RunningCorrect, TimerStep, PTL DEF Spec

\* In a disciplined program the clock wakes only tasks that sleep, and wakes
\* each of them as soon as it is due.
THEOREM TimersCorrect ==
  ASSUME TimerDiscipline
  PROVE  Spec => [](TimersBelongToSleepers /\ NoOverdueSleeper)
<1>1. TypeOK /\ TimerInv
      => TimersBelongToSleepers /\ NoOverdueSleeper
  BY CreatedFacts
  DEF TypeOK, TimerInv, TimerInvOf, Sleeper, TimersBelongToSleepers,
      NoOverdueSleeper
<1> QED
  BY <1>1, TypeCorrect, TimerInvariant, PTL

\* In a disciplined program simulated time never runs backwards, although
\* schedule_from assigns tick_count_ the earliest timer it finds.
THEOREM TimeCorrect ==
  ASSUME TimerDiscipline
  PROVE  Spec => TimeMonotone
<1>1. TypeOK /\ TimerInv /\ [Next]_vars => [tick_count' >= tick_count]_vars
  <2> SUFFICES ASSUME TypeOK, TimerInv, Next PROVE tick_count' >= tick_count
    OBVIOUS
  <2>1. tick_count \in Nat /\ UINT32_MAX \in Nat
    BY SchedulerAssumption DEF TypeOK
  <2>2. CASE DesAdvance
    <3> PICK e \in 0..UINT32_MAX : Earliest(e) /\ e # UINT32_MAX /\ tick_count' = e
      BY <2>2 DEF DesAdvance
    <3> PICK t \in Created : Sleeper(t) /\ resume_tick[t] = e
      BY DEF Earliest
    <3>1. tick_count < resume_tick[t]
      BY <2>1, CreatedFacts DEF TimerInv, TimerInvOf, Sleeper
    <3> QED
      BY <2>1, <3>1
  <2>3. ASSUME NEW ms \in Delays, tick(ms) PROVE tick_count' >= tick_count
    <3>1. ms \in Nat /\ tick_count + ms < UINT32_MAX
      BY <2>3, SchedulerAssumption DEF tick, InHorizon, TimerDiscipline
    <3>2. AddTicks(tick_count, ms) = tick_count + ms
      BY <2>1, <3>1 DEF AddTicks
    <3> QED
      BY <2>1, <2>3, <3>1, <3>2 DEF tick
  <2>4. CASE UNCHANGED tick_count
    BY <2>1, <2>4
  <2> QED
    BY <2>2, <2>3, <2>4
    DEF Next, KernelStep, Dispatch, SwitchTo, GoIdle, TaskCall, BlockCall,
        UnblockCall, Relinquish,
        xTaskCreate, vTaskStartScheduler, TaskReturns, vTaskDelay,
        block_current, vTaskSuspend, vTaskResume, vTaskDelete, unblock, vars
<1> QED
  BY <1>1, TypeCorrect, TimerInvariant, PTL DEF Spec, TimeMonotone

\* In a disciplined program vTaskStartScheduler returns only when no task can
\* ever become READY by itself: none is READY and none sleeps.
THEOREM IdleCorrect ==
  ASSUME TimerDiscipline
  PROVE  Spec => IdleOnlyWhenStuck
<1> DEFINE Stuck(t) ==
      \/ state[t] \in {"DELETED", "SUSPENDED"}
      \/ state[t] = "BLOCKED" /\ inside[t] = "block_current"
      \/ priority[t] = NO_PRIORITY
<1>1. TypeOK /\ RunningIsCurrent /\ TimerInv /\ [Next]_vars
      => [switching /\ Idle' => \A t \in Created : Stuck(t)]_vars
  <2> SUFFICES ASSUME TypeOK, RunningIsCurrent, TimerInv, Next,
                      switching, Idle', NEW t \in Created
               PROVE  Stuck(t)
    OBVIOUS
  <2>1. t \in Handles /\ INVALID_TASK \notin Handles
    BY CreatedFacts
  <2>2. GoIdle
    BY <2>1, CreatedFacts
    DEF Next, KernelStep, Dispatch, SwitchTo, DesAdvance, TaskCall,
        BlockCall, UnblockCall, Relinquish, Idle, Running, xTaskCreate, vTaskStartScheduler,
        TaskReturns, vTaskDelay, block_current, vTaskSuspend, vTaskResume,
        vTaskDelete, unblock, tick
  <2>3. state[t] # "RUNNING"
    BY DEF RunningIsCurrent, Running
  <2>4. CASE state[t] = "READY"
    BY <2>1, <2>2, <2>4 DEF GoIdle, Selectable, TypeOK, NO_PRIORITY
  <2>5. CASE state[t] = "BLOCKED"
    <3>1. ~(resume_tick[t] > 0)
      BY <2>1, <2>2, <2>5, SchedulerAssumption
      DEF GoIdle, Earliest, TimerInv, TimerInvOf, Sleeper, TypeOK
    <3> QED
      BY <2>5, <3>1 DEF TimerInv, TimerInvOf
  <2> QED
    BY <2>1, <2>3, <2>4, <2>5 DEF TypeOK, TaskStates
<1> QED
  BY <1>1, TypeCorrect, RunningCorrect, TimerInvariant, PTL
  DEF Spec, IdleOnlyWhenStuck

\* In a program that suspends only READY or RUNNING tasks, a deleted task,
\* and one whose function returned, stays deleted.
THEOREM DeletionCorrect ==
  ASSUME "vTaskSuspend_any" \notin Calls
  PROVE  Spec => DeletedForGood
<1>1. TypeOK /\ RunningIsCurrent /\ [Next]_vars
      => [\A t \in Created : state[t] = "DELETED" => state'[t] = "DELETED"]_vars
  <2> SUFFICES ASSUME TypeOK, RunningIsCurrent, Next,
                      NEW t \in Created, state[t] = "DELETED"
               PROVE  state'[t] = "DELETED"
    OBVIOUS
  <2>c. /\ Created \subseteq Handles
        /\ INVALID_TASK \notin Handles
        /\ task_count \in Nat
    BY CreatedFacts
  <2>r. Running => t # current
    BY DEF RunningIsCurrent
  <2>w. \A e : Woken(e)[t] = state[t] /\ DOMAIN Woken(e) = Handles
    BY <2>c DEF Woken, Due, Sleeper
  <2>1. ASSUME NEW u \in Created, SelectNext(u), SwitchTo(u)
        PROVE  state'[t] = state[t]
    BY <2>1, <2>c, SelectedIsReady DEF SwitchTo, TypeOK
  <2>2. CASE KernelStep
    BY <2>1, <2>2, <2>w DEF KernelStep, Dispatch, DesAdvance, GoIdle
  <2>3. ASSUME NEW p \in Priorities, xTaskCreate(p)
        PROVE  state'[t] = state[t]
    <3>1. t # task_count
      BY <2>c DEF Created
    <3> QED
      BY <2>3, <2>c, <3>1 DEF xTaskCreate, TypeOK
  <2>4. CASE vTaskStartScheduler
    BY <2>1, <2>4 DEF vTaskStartScheduler, vars
  <2>5. CASE Relinquish \/ BlockCall
    BY <2>5, <2>c, <2>r
    DEF Relinquish, BlockCall, TaskReturns, vTaskDelay, block_current, GiveUp,
        TypeOK
  <2>6. ASSUME NEW u \in Suspendable, vTaskSuspend(u)
        PROVE  state'[t] = state[t]
    BY <2>6, <2>c DEF Suspendable, vTaskSuspend, GiveUp, TypeOK
  <2>7. ASSUME NEW u \in Created, vTaskResume(u) \/ vTaskDelete(u)
        PROVE  state'[t] = "DELETED"
    BY <2>7, <2>c, <2>r DEF vTaskResume, vTaskDelete, GiveUp, TypeOK, Running
  <2>8. ASSUME NEW u \in Created, unblock(u)
        PROVE  state'[t] = state[t]
    BY <2>8, <2>c, <2>r DEF unblock, Preempts, vars, TypeOK, Running
  <2>9. ASSUME NEW ms \in Delays, tick(ms)
        PROVE  state'[t] = state[t]
    <3>1. current # INVALID_TASK => t # current
      BY <2>9, <2>r DEF tick, Running
    <3> QED
      BY <2>9, <2>c, <2>w, <3>1 DEF tick, Preempts
  <2> QED
    BY <2>2, <2>3, <2>4, <2>5, <2>6, <2>7, <2>8, <2>9
    DEF Next, TaskCall, UnblockCall, Unblockable
<1> QED
  BY <1>1, TypeCorrect, RunningCorrect, PTL DEF Spec, DeletedForGood

(***************************************************************************)
(* What the primitives built on the kernel need: the operations of a wait  *)
(* list, and that the kernel leaves their waiters alone.                   *)
(***************************************************************************)
\* What removing entry i leaves in a wait list.
LEMMA SwapRemoveFacts ==
  ASSUME NEW S, NEW w \in Seq(S), NEW i \in DOMAIN w
  PROVE  /\ SwapRemove(w, i) \in Seq(S)
         /\ DOMAIN SwapRemove(w, i) = 1..(Len(w) - 1)
         /\ \A k \in 1..(Len(w) - 1) :
              SwapRemove(w, i)[k] = IF k = i THEN w[Len(w)] ELSE w[k]
BY DEF SwapRemove

\* A list without repetitions that me is not in has room for me: at most the
\* other tasks are in it.
LEMMA ListHasRoom ==
  ASSUME NEW me \in Handles, NEW w \in Seq(Handles \ {me}),
         \A k, m \in DOMAIN w : m # k => w[m] # w[k]
  PROVE  Enqueued(w, me) = Append(w, me)
<1> DEFINE others == Handles \ {me}
<1>1. MAX_TASKS \in Nat \ {0}
  BY SchedulerAssumption
<1>2. IsFiniteSet(Handles) /\ Cardinality(Handles) = MAX_TASKS
  BY <1>1, FS_Interval DEF Handles
<1>3. IsFiniteSet(others) /\ Cardinality(others) = MAX_TASKS - 1
  BY <1>2, FS_RemoveElement
<1>4. Len(w) \in Nat /\ DOMAIN w = 1..Len(w) /\ w \in [1..Len(w) -> others]
  OBVIOUS
<1>5. IsFiniteSet(1..Len(w)) /\ Cardinality(1..Len(w)) = Len(w)
  <2>1. \A n \in Nat : IsFiniteSet(1..n) /\ Cardinality(1..n) = n
    BY FS_Interval
  <2> QED
    BY <1>4, <2>1
<1>6. ~(MAX_TASKS - 1 < Len(w))
  BY <1>3, <1>4, <1>5, FS_PigeonHole
<1>7. Len(w) < MAX_TASKS
  BY <1>1, <1>4, <1>6
<1> QED
  BY <1>7, Zenon DEF Enqueued

\* Removing entry i keeps the other members.
LEMMA SwapRemoveMembers ==
  ASSUME NEW S, NEW w \in Seq(S), NEW i \in DOMAIN w, NEW k \in DOMAIN w, k # i
  PROVE  w[k] \in Members(SwapRemove(w, i))
<1>0. DOMAIN w = 1..Len(w) /\ Len(w) \in Nat
  OBVIOUS
<1>f. /\ DOMAIN SwapRemove(w, i) = 1..(Len(w) - 1)
      /\ \A m \in 1..(Len(w) - 1) :
           SwapRemove(w, i)[m] = IF m = i THEN w[Len(w)] ELSE w[m]
  BY SwapRemoveFacts
<1>1. CASE k = Len(w)
  <2>1. i \in 1..(Len(w) - 1) /\ SwapRemove(w, i)[i] = w[k]
    BY <1>0, <1>1, <1>f
  <2> QED
    BY <1>f, <2>1 DEF Members
<1>2. CASE k # Len(w)
  <2>1. k \in 1..(Len(w) - 1) /\ SwapRemove(w, i)[k] = w[k]
    BY <1>0, <1>2, <1>f
  <2> QED
    BY <1>f, <2>1 DEF Members
<1> QED
  BY <1>1, <1>2

\* The kernel and its other callers do not touch a task that is blocked on a
\* primitive, except to delete it.
LEMMA BlockedStays ==
  ASSUME TimerDiscipline, TypeOK, RunningIsCurrent, TimerInv,
         NEW t \in Created,
         state[t] \in {"BLOCKED", "DELETED"}, inside[t] = "block_current",
         KernelStep \/ TaskCall
  PROVE  state'[t] \in {"BLOCKED", "DELETED"} /\ inside'[t] = "block_current"
<1>c. /\ Created \subseteq Handles
      /\ INVALID_TASK \notin Handles
      /\ task_count \in Nat
  BY CreatedFacts
<1>r. /\ Running => t # current
      /\ \A e : ~Due(t, e)
  BY <1>c DEF RunningIsCurrent, TimerInv, TimerInvOf, Due, Sleeper
<1>w. \A e : Woken(e)[t] = state[t]
  BY <1>c, <1>r DEF Woken
<1>s. ASSUME NEW u \in Created, SelectNext(u), SwitchTo(u)
      PROVE  state'[t] = state[t] /\ inside'[t] = inside[t]
  BY <1>s, <1>c, SelectedIsReady DEF SwitchTo, TypeOK
<1>1. CASE Dispatch
  BY <1>1, <1>s DEF Dispatch
<1>2. CASE DesAdvance
  BY <1>2, <1>w DEF DesAdvance
<1>3. CASE GoIdle
  BY <1>3 DEF GoIdle
<1>4. ASSUME NEW p \in Priorities, xTaskCreate(p)
      PROVE  state'[t] = state[t] /\ inside'[t] = inside[t]
  <2>1. t # task_count
    BY <1>c DEF Created
  <2> QED
    BY <1>4, <1>c, <2>1 DEF xTaskCreate, TypeOK
<1>5. CASE vTaskStartScheduler
  BY <1>5, <1>s DEF vTaskStartScheduler, vars
<1>6. CASE Relinquish
  BY <1>6, <1>c, <1>r DEF Relinquish, TaskReturns, vTaskDelay, GiveUp, TypeOK
<1>7. ASSUME NEW u \in Suspendable, vTaskSuspend(u)
      PROVE  state'[t] = state[t] /\ inside'[t] = inside[t]
  <2>1. u \in Created /\ u # t
    BY DEF Suspendable, TimerDiscipline
  <2> QED
    BY <1>7, <1>c, <2>1 DEF vTaskSuspend, GiveUp, TypeOK
<1>8. ASSUME NEW u \in Created, vTaskResume(u)
      PROVE  state'[t] = state[t] /\ inside'[t] = inside[t]
  BY <1>8, <1>c DEF vTaskResume, TypeOK
<1>9. ASSUME NEW u \in Created, vTaskDelete(u)
      PROVE  state'[t] \in {"BLOCKED", "DELETED"} /\ inside'[t] = "block_current"
  <2>1. u = t => u # current
    BY <1>9, <1>c, <1>r DEF vTaskDelete, Running
  <2> QED
    BY <1>9, <1>c, <2>1 DEF vTaskDelete, GiveUp, TypeOK
<1>10. ASSUME NEW ms \in Delays, tick(ms)
       PROVE  state'[t] = state[t] /\ inside'[t] = inside[t]
  <2>1. current # INVALID_TASK => t # current
    BY <1>10, <1>r DEF tick, Running
  <2>2. \E e : \/ state' = Woken(e) /\ inside' = inside
               \/ /\ current # INVALID_TASK
                  /\ state' = [Woken(e) EXCEPT ![current] = "READY"]
                  /\ inside' = [inside EXCEPT ![current] = "preempted"]
    BY <1>10 DEF tick, Preempts
  <2> QED
    BY <1>c, <1>w, <2>1, <2>2 DEF Woken, TypeOK
<1> QED
  BY <1>1, <1>2, <1>3, <1>4, <1>5, <1>6, <1>7, <1>8, <1>9, <1>10
  DEF KernelStep, TaskCall
\* A list that holds no task twice.
Distinct(w) == \A k, m \in DOMAIN w : w[k] = w[m] => k = m

\* Removing entry i removes that waiter and nobody else.
LEMMA SwapRemoveDistinct ==
  ASSUME NEW S, NEW w \in Seq(S), NEW i \in DOMAIN w, Distinct(w)
  PROVE  /\ Distinct(SwapRemove(w, i))
         /\ Members(SwapRemove(w, i)) = Members(w) \ {w[i]}
<1> DEFINE v == SwapRemove(w, i)
<1>0. DOMAIN w = 1..Len(w) /\ Len(w) \in Nat
  OBVIOUS
<1>1. /\ DOMAIN v = 1..(Len(w) - 1)
      /\ \A k \in 1..(Len(w) - 1) : v[k] = IF k = i THEN w[Len(w)] ELSE w[k]
  BY SwapRemoveFacts
<1> HIDE DEF v
\* The entry at k was at position p of the list before.
<1>2. ASSUME NEW k \in DOMAIN v
      PROVE  \E p \in DOMAIN w : /\ p # i /\ v[k] = w[p]
                                 /\ p = IF k = i THEN Len(w) ELSE k
  BY <1>0, <1>1
<1>3. Distinct(v)
  BY <1>1, <1>2 DEF Distinct
<1>4. ASSUME NEW x \in Members(v) PROVE x \in Members(w) \ {w[i]}
  BY <1>2 DEF Members, Distinct
<1>5. ASSUME NEW x \in Members(w) \ {w[i]} PROVE x \in Members(v)
  BY SwapRemoveMembers DEF Members, v
<1> QED
  BY <1>3, <1>4, <1>5 DEF v

\* A task that is not in the list enters it, once.
LEMMA EnqueuedDistinct ==
  ASSUME NEW me \in Handles, NEW w \in Seq(Handles), me \notin Members(w),
         Distinct(w)
  PROVE  /\ Enqueued(w, me) \in Seq(Handles)
         /\ Enqueued(w, me) # <<>>
         /\ Distinct(Enqueued(w, me))
         /\ Members(Enqueued(w, me)) = Members(w) \cup {me}
<1>1. w \in Seq(Handles \ {me})
  BY DEF Members
<1>2. Enqueued(w, me) = Append(w, me)
  BY <1>1, ListHasRoom DEF Distinct
<1>3. Members(Append(w, me)) = Members(w) \cup {me}
  BY DEF Members
<1>4. Distinct(Append(w, me))
  BY DEF Members, Distinct
<1> QED
  BY <1>2, <1>3, <1>4

\* The tasks of a list are tasks.
LEMMA MembersType ==
  ASSUME NEW w \in Seq(Handles)
  PROVE  Members(w) \subseteq Handles /\ (w = <<>> <=> Members(w) = {})
BY DEF Members

\* Sets of tasks can be counted.
LEMMA HandlesFinite ==
  ASSUME NEW S \in SUBSET Handles
  PROVE  IsFiniteSet(S) /\ Cardinality(S) \in Nat
<1>1. MAX_TASKS \in Nat
  BY SchedulerAssumption
<1>2. IsFiniteSet(Handles)
  BY <1>1, FS_Interval DEF Handles
<1>3. IsFiniteSet(S)
  BY <1>2, FS_Subset
<1> QED
  BY <1>3, FS_CardinalityType

\* The calls of the primitives' own code, and the discipline of their clients.
ClientDiscipline ==
  TimerDiscipline /\ {"block_current", "unblock"} \subseteq Calls

\* block_current and unblock as the other tasks see them.
LEMMA BlockUnblockEffect ==
  ASSUME TypeOK, NEW t \in Created,
         block_current \/ (\E u \in Created : u # t /\ unblock(u)),
         t # current
  PROVE  state'[t] = state[t] /\ inside'[t] = inside[t]
BY CreatedFacts DEF block_current, GiveUp, unblock, vars, TypeOK

\* A step of the kernel or of a task creates at most one task.
LEMMA CreatedGrows ==
  ASSUME TypeOK, [Next]_vars
  PROVE  Created \subseteq Created'
<1>1. task_count' = task_count \/ task_count' = task_count + 1
  BY
  DEF Next, KernelStep, Dispatch, SwitchTo, DesAdvance, GoIdle, TaskCall,
      Relinquish, xTaskCreate, vTaskStartScheduler, TaskReturns, vTaskDelay,
      vTaskSuspend, vTaskResume, vTaskDelete, tick, BlockCall, UnblockCall,
      block_current, unblock, vars
<1> QED
  BY <1>1, CreatedFacts DEF Created
=============================================================================
