--------------------------- MODULE EventGroupProofs ---------------------------
(***************************************************************************)
(* The event group of rtos/event_group.h for every set of bits and every   *)
(* number of tasks of one priority.  (Tasks of several priorities preempt  *)
(* the loop of check_waiters, which then loses waiters.)                   *)
(*                                                                         *)
(* With one priority, a task that is inside check_waiters keeps the        *)
(* processor until it has left it.  ListInv says what the list is in the   *)
(* meantime: the entries are the tasks that wait, each once, except the    *)
(* one that the loop has woken and not yet removed (the hole); and the     *)
(* entries that the loop has passed are not satisfied (Passed).            *)
(***************************************************************************)
EXTENDS EventGroup, SchedulerProofs

GroupDiscipline ==
  /\ ClientDiscipline
  /\ \A p, q \in Priorities : p = q

\* How far the loop has come, and the entry it has to remove.
Scanned == IF At("check") \/ At("compact") THEN i[current] ELSE wait_count
Hole    == IF At("compact") THEN i[current] ELSE wait_count

\* A list w of n entries, for the places p and the conditions c of the tasks.
ListInv(w, n, hole, p, c, st, ins) ==
  /\ n \in 0..MAX_TASKS /\ DOMAIN w = Handles
  /\ \A k \in 0..(n - 1) :
       /\ w[k].task \in Handles
       /\ w[k] = Entry(w[k].task, c[w[k].task])
       /\ p[w[k].task] = "wait"
       /\ k # hole => /\ st[w[k].task] \in {"BLOCKED", "DELETED"}
                      /\ ins[w[k].task] = "block_current"
       /\ k = hole => st[w[k].task] # "BLOCKED"
  /\ \A k, m \in 0..(n - 1) : w[k].task = w[m].task => k = m
  /\ \A t \in Handles : p[t] = "wait" /\ st[t] = "BLOCKED" =>
       \E k \in 0..(n - 1) : w[k].task = t

Passed == \A k \in 0..(Scanned - 1) : ~satisfied(waiters[k].cond)

PlaceInv ==
  /\ pc \in [Callers -> {"out", "check", "compact", "wait"}]
  /\ i \in [Callers -> Nat] /\ DOMAIN want = Handles
  /\ \A t \in Handles : pc[t] # "out" => t \in Created
  /\ \A t \in Callers : pc[t] \in {"check", "compact"} => ~switching /\ t = current
  /\ At("check") => i[current] <= wait_count
  /\ At("compact") => i[current] < wait_count

GroupInv ==
  /\ TypeOK /\ RunningIsCurrent /\ TimerInv
  /\ \A t \in Created : priority[t] \in Priorities
  /\ PlaceInv
  /\ ListInv(waiters, wait_count, Hole, pc, want, state, inside)
  /\ Passed

-----------------------------------------------------------------------------
(* The list.                                                               *)

\* The tasks of the entries.
Listed(w, n) == {w[k].task : k \in 0..(n - 1)}

LEMMA EntryFields ==
  ASSUME NEW t, NEW x
  PROVE  Entry(t, x).task = t /\ Entry(t, x).cond = x
BY DEF Entry

\* What is new about the tasks is right for the list as it is.
Fits(w, n, hole, p, c, st, p2, c2, st2, ins2) ==
  /\ \A k \in 0..(n - 1) :
       /\ p2[w[k].task] = "wait" /\ c2[w[k].task] = c[w[k].task]
       /\ k # hole => /\ st2[w[k].task] \in {"BLOCKED", "DELETED"}
                      /\ ins2[w[k].task] = "block_current"
       /\ k = hole => st2[w[k].task] # "BLOCKED"
  /\ \A t \in Handles : p2[t] = "wait" /\ st2[t] = "BLOCKED" =>
       p[t] = "wait" /\ (st[t] = "BLOCKED" \/ t \in Listed(w, n))

LEMMA ListStays ==
  ASSUME NEW w, NEW n, NEW hole, NEW p, NEW c, NEW st, NEW ins,
         ListInv(w, n, hole, p, c, st, ins),
         NEW hole2, NEW p2, NEW c2, NEW st2, NEW ins2,
         Fits(w, n, hole2, p, c, st, p2, c2, st2, ins2)
  PROVE  ListInv(w, n, hole2, p2, c2, st2, ins2)
<1>1. ASSUME NEW t \in Handles, p2[t] = "wait", st2[t] = "BLOCKED"
      PROVE  \E k \in 0..(n - 1) : w[k].task = t
  BY <1>1 DEF ListInv, Fits, Listed
<1>2. ASSUME NEW k \in 0..(n - 1)
      PROVE  /\ w[k].task \in Handles
             /\ w[k] = Entry(w[k].task, c2[w[k].task])
             /\ p2[w[k].task] = "wait"
             /\ k # hole2 => /\ st2[w[k].task] \in {"BLOCKED", "DELETED"}
                             /\ ins2[w[k].task] = "block_current"
             /\ k = hole2 => st2[w[k].task] # "BLOCKED"
  BY DEF ListInv, Fits
<1>3. /\ n \in 0..MAX_TASKS /\ DOMAIN w = Handles
      /\ \A k, m \in 0..(n - 1) : w[k].task = w[m].task => k = m
  BY DEF ListInv
<1> QED
  BY <1>1, <1>2, <1>3 DEF ListInv

\* A task that is not in the list has room there: only the others are in it.
LEMMA RoomForOne ==
  ASSUME NEW w, NEW n, NEW hole, NEW p, NEW c, NEW st, NEW ins,
         ListInv(w, n, hole, p, c, st, ins),
         NEW me \in Handles, me \notin Listed(w, n)
  PROVE  n < MAX_TASKS
<1>1. MAX_TASKS \in Nat \ {0} /\ n \in Nat
  BY SchedulerAssumption DEF ListInv
<1>2. IsFiniteSet(Handles) /\ Cardinality(Handles) = MAX_TASKS
  BY <1>1, FS_Interval DEF Handles
<1>3. IsFiniteSet(Handles \ {me}) /\ Cardinality(Handles \ {me}) = MAX_TASKS - 1
  BY <1>2, FS_RemoveElement
<1>4. IsFiniteSet(0..(n - 1)) /\ Cardinality(0..(n - 1)) = n
  BY <1>1, FS_Interval
<1> DEFINE f == [k \in 0..(n - 1) |-> w[k].task]
<1>5. f \in [0..(n - 1) -> Handles \ {me}]
  BY DEF ListInv, Listed
<1>6. \A k, m \in 0..(n - 1) : f[k] = f[m] => k = m
  BY DEF ListInv
<1> HIDE DEF f
<1>7. ~(MAX_TASKS - 1 < n)
  <2> SUFFICES ASSUME MAX_TASKS - 1 < n PROVE FALSE
    OBVIOUS
  <2>1. \E k, m \in 0..(n - 1) : k # m /\ f[k] = f[m]
    BY <1>3, <1>4, <1>5, FS_PigeonHole
  <2> QED
    BY <1>6, <2>1
<1> QED
  BY <1>1, <1>7

\* w2 is w with the entry e at k.
Puts(w, w2, k, e) == w2 = [w EXCEPT ![k] = e]

\* A task enters the list behind the others, and waits.
LEMMA ListAppend ==
  ASSUME NEW w, NEW n, NEW p, NEW c, NEW st, NEW ins,
         ListInv(w, n, n, p, c, st, ins),
         NEW me \in Handles, me \notin Listed(w, n), NEW x,
         NEW w2, Puts(w, w2, n, Entry(me, x)),
         NEW p2, NEW c2, NEW st2, NEW ins2,
         p2[me] = "wait", c2[me] = x, st2[me] = "BLOCKED", ins2[me] = "block_current",
         \A t \in Handles \ {me} : /\ p2[t] = p[t] /\ c2[t] = c[t]
                                   /\ st2[t] = st[t] /\ ins2[t] = ins[t]
  PROVE  ListInv(w2, n + 1, n + 1, p2, c2, st2, ins2)
<1>1. n \in 0..MAX_TASKS /\ MAX_TASKS \in Nat \ {0} /\ DOMAIN w = Handles
  BY SchedulerAssumption DEF ListInv
<1>2. n < MAX_TASKS
  BY RoomForOne
<1>3. /\ n \in Handles /\ n + 1 \in 0..MAX_TASKS
      /\ \A k \in 0..(n + 1 - 1) : k = n \/ (k \in 0..(n - 1) /\ k # n)
      /\ \A k \in 0..(n - 1) : k \in Handles /\ k # n
      /\ \A k \in 0..(n - 1) : k \in 0..(n + 1 - 1)
      /\ n \in 0..(n + 1 - 1)
      /\ \A k \in 0..(n + 1 - 1) : k # n + 1
  BY <1>1, <1>2 DEF Handles
<1>4. DOMAIN w2 = Handles /\ w2[n] = Entry(me, x)
  BY <1>1, <1>3 DEF Puts
<1>5. \A k \in 0..(n - 1) : w2[k] = w[k]
  BY <1>1, <1>3 DEF Puts
<1>6. w2[n].task = me
  BY <1>4, EntryFields
<1>7. ASSUME NEW k \in 0..(n - 1)
      PROVE  /\ w[k].task \in Handles \ {me}
             /\ w[k] = Entry(w[k].task, c[w[k].task])
             /\ p[w[k].task] = "wait"
             /\ st[w[k].task] \in {"BLOCKED", "DELETED"}
             /\ ins[w[k].task] = "block_current"
  BY <1>3 DEF ListInv, Listed
<1>8. ASSUME NEW k \in 0..(n + 1 - 1)
      PROVE  /\ w2[k].task \in Handles
             /\ w2[k] = Entry(w2[k].task, c2[w2[k].task])
             /\ p2[w2[k].task] = "wait"
             /\ st2[w2[k].task] \in {"BLOCKED", "DELETED"}
             /\ ins2[w2[k].task] = "block_current"
  <2>1. CASE k = n
    BY <1>4, <1>6, <2>1
  <2>2. CASE k \in 0..(n - 1)
    BY <1>5, <1>7, <2>2
  <2> QED
    BY <1>3, <2>1, <2>2
<1>9. \A k, m \in 0..(n + 1 - 1) : w2[k].task = w2[m].task => k = m
  <2>1. \A k, m \in 0..(n - 1) : w[k].task = w[m].task => k = m
    BY DEF ListInv
  <2> QED
    BY <1>3, <1>5, <1>6, <1>7, <2>1
<1>10. ASSUME NEW t \in Handles, p2[t] = "wait", st2[t] = "BLOCKED"
       PROVE  \E k \in 0..(n + 1 - 1) : w2[k].task = t
  <2>1. CASE t = me
    BY <1>3, <1>6, <2>1
  <2>2. CASE t # me
    <3>1. p[t] = "wait" /\ st[t] = "BLOCKED"
      BY <1>10, <2>2
    <3>2. PICK k \in 0..(n - 1) : w[k].task = t
      BY <3>1 DEF ListInv
    <3> QED
      BY <1>3, <1>5, <3>2
  <2> QED
    BY <2>1, <2>2
<1> QED
  BY <1>3, <1>4, <1>8, <1>9, <1>10 DEF ListInv

\* The last entry takes the place of the one that was woken.
LEMMA ListCompact ==
  ASSUME NEW w, NEW n, NEW hole, NEW p, NEW c, NEW st, NEW ins,
         ListInv(w, n, hole, p, c, st, ins), hole \in 0..(n - 1),
         NEW w2, Puts(w, w2, hole, w[n - 1])
  PROVE  /\ ListInv(w2, n - 1, n - 1, p, c, st, ins)
         /\ \A k \in 0..(hole - 1) : k < n - 1 => w2[k] = w[k]
<1>1. n \in 0..MAX_TASKS /\ MAX_TASKS \in Nat \ {0} /\ DOMAIN w = Handles
  BY SchedulerAssumption DEF ListInv
<1>2. /\ n - 1 \in 0..(n - 1) /\ n - 1 \in 0..MAX_TASKS /\ hole \in Handles
      /\ \A k \in 0..(n - 1 - 1) : k \in 0..(n - 1) /\ k \in Handles /\ k # n - 1
      /\ \A k \in 0..(n - 1) : k # n - 1 => k \in 0..(n - 1 - 1)
      /\ \A k \in 0..(hole - 1) : k \in Handles /\ k # hole
  BY <1>1 DEF Handles
<1>3. DOMAIN w2 = Handles /\ \A k \in Handles : w2[k] = IF k = hole THEN w[n - 1] ELSE w[k]
  BY <1>1 DEF Puts
\* The entry at k was at position from of the list before.
<1>4. ASSUME NEW k \in 0..(n - 1 - 1)
      PROVE  \E from \in 0..(n - 1) : /\ from # hole /\ w2[k] = w[from]
                                      /\ from = IF k = hole THEN n - 1 ELSE k
  BY <1>2, <1>3
<1>5. ASSUME NEW k \in 0..(n - 1 - 1)
      PROVE  /\ w2[k].task \in Handles
             /\ w2[k] = Entry(w2[k].task, c[w2[k].task])
             /\ p[w2[k].task] = "wait"
             /\ st[w2[k].task] \in {"BLOCKED", "DELETED"}
             /\ ins[w2[k].task] = "block_current"
  <2>1. PICK from \in 0..(n - 1) : from # hole /\ w2[k] = w[from]
    BY <1>4
  <2> QED
    BY <2>1 DEF ListInv
<1>6. ASSUME NEW k \in 0..(n - 1 - 1), NEW m \in 0..(n - 1 - 1),
             w2[k].task = w2[m].task
      PROVE  k = m
  <2>1. PICK a \in 0..(n - 1) : w2[k] = w[a] /\ a = IF k = hole THEN n - 1 ELSE k
    BY <1>4
  <2>2. PICK b \in 0..(n - 1) : w2[m] = w[b] /\ b = IF m = hole THEN n - 1 ELSE m
    BY <1>4
  <2>3. a = b
    BY <1>6, <2>1, <2>2 DEF ListInv
  <2>4. k # n - 1 /\ m # n - 1
    BY <1>2
  <2> QED
    BY <2>1, <2>2, <2>3, <2>4
<1>7. ASSUME NEW t \in Handles, p[t] = "wait", st[t] = "BLOCKED"
      PROVE  \E k \in 0..(n - 1 - 1) : w2[k].task = t
  <2>1. PICK k \in 0..(n - 1) : w[k].task = t
    BY <1>7 DEF ListInv
  <2>2. k # hole
    BY <1>7, <2>1 DEF ListInv
  <2>3. CASE k = n - 1
    <3>1. hole \in 0..(n - 1 - 1) /\ w2[hole] = w[k]
      BY <1>2, <1>3, <2>2, <2>3
    <3> QED
      BY <2>1, <3>1
  <2>4. CASE k # n - 1
    <3>1. k \in 0..(n - 1 - 1) /\ w2[k] = w[k]
      BY <1>2, <1>3, <2>2, <2>4
    <3> QED
      BY <2>1, <3>1
  <2> QED
    BY <2>3, <2>4
<1>8. ListInv(w2, n - 1, n - 1, p, c, st, ins)
  <2>1. \A k \in 0..(n - 1 - 1) : k # n - 1
    BY <1>2
  <2> QED
    BY <1>2, <1>3, <1>5, <1>6, <1>7, <2>1 DEF ListInv
<1> QED
  BY <1>2, <1>3, <1>8

-----------------------------------------------------------------------------
(* The kernel.                                                             *)

\* The entries are created tasks, and the running task is not one of them.
LEMMA GroupFacts ==
  ASSUME GroupInv
  PROVE  /\ Created \subseteq Handles
         /\ wait_count \in Nat /\ wait_count <= MAX_TASKS /\ MAX_TASKS \in 1..255
         /\ \A k \in 0..(wait_count - 1) :
              waiters[k].task \in Created /\ waiters[k].task \in Handles
         /\ Running => /\ current \in Created /\ current \in Handles
                       /\ state[current] = "RUNNING"
         /\ current \in Callers
         /\ ~switching => /\ current \notin Listed(waiters, wait_count)
                          /\ current \in Handles => Running
<1>1. Created \subseteq Handles /\ INVALID_TASK \notin Handles
  BY CreatedFacts DEF GroupInv
<1>0. current \in Callers
  BY <1>1 DEF GroupInv, TypeOK, Callers
<1>2. wait_count \in Nat /\ wait_count <= MAX_TASKS /\ MAX_TASKS \in 1..255
  BY SchedulerAssumption DEF GroupInv, ListInv, INVALID_TASK
<1>3. ASSUME NEW k \in 0..(wait_count - 1)
      PROVE  /\ waiters[k].task \in Handles /\ pc[waiters[k].task] = "wait"
             /\ k # Hole => state[waiters[k].task] \in {"BLOCKED", "DELETED"}
  BY DEF GroupInv, ListInv
<1>4. \A k \in 0..(wait_count - 1) : waiters[k].task \in Created
  BY <1>3 DEF GroupInv, PlaceInv
<1>5. ASSUME Running
      PROVE  current \in Created /\ current \in Handles /\ state[current] = "RUNNING"
  BY <1>1, <1>5 DEF Running, GroupInv, TypeOK, RunningIsCurrent
<1>6. ASSUME Running, NEW k \in 0..(wait_count - 1) PROVE waiters[k].task # current
  <2>1. CASE pc[current] # "wait"
    BY <1>3, <2>1
  <2>2. CASE pc[current] = "wait"
    <3>1. Hole = wait_count
      BY <2>2 DEF Hole, At
    <3>2. k # Hole
      BY <1>2, <3>1
    <3> QED
      BY <1>3, <1>5, <1>6, <3>2
  <2> QED
    BY <2>1, <2>2
<1>7. ~switching /\ ~Running => current = INVALID_TASK
  BY DEF Running
<1> QED
  BY <1>0, <1>1, <1>2, <1>3, <1>4, <1>5, <1>6, <1>7 DEF Listed

\* What check_waiters wakes: the task of the entry it is at, without giving up
\* the processor, because no task has a better priority.
LEMMA WakeOne ==
  ASSUME GroupDiscipline, GroupInv, ~switching, NEW k \in 0..(wait_count - 1),
         NEW u, u = waiters[k].task, unblock(u)
  PROVE  /\ UNCHANGED <<inside, priority, task_count, current, switching>>
         /\ state'[u] # "BLOCKED"
         /\ \A t \in Handles \ {u} : state'[t] = state[t]
<1>1. /\ u \in Created /\ u \in Handles /\ DOMAIN state = Handles
      /\ current # INVALID_TASK => current \in Created
  BY GroupFacts DEF GroupInv, TypeOK
<1>2. ~Preempts(u)
  <2> SUFFICES ASSUME current # INVALID_TASK PROVE ~Preempts(u)
    BY DEF Preempts
  <2>1. priority[u] = priority[current] /\ priority[u] \in 0..NO_PRIORITY
    BY <1>1, SchedulerAssumption DEF GroupDiscipline, GroupInv
  <2>2. \A p, q \in 0..NO_PRIORITY : p = q => ~(p < q)
    BY DEF NO_PRIORITY
  <2> QED
    BY <2>1, <2>2 DEF Preempts
<1> QED
  BY <1>1, <1>2 DEF unblock, vars

\* The event group and its clients make only the calls that the kernel's
\* specification provides for.
LEMMA GroupRefines ==
  ASSUME GroupDiscipline
  PROVE  GroupInv /\ [GroupNext]_allVars => [Next]_vars
<1> SUFFICES ASSUME GroupInv, [GroupNext]_allVars PROVE [Next]_vars
  OBVIOUS
<1>d. {"block_current", "unblock"} \subseteq Calls
  BY DEF GroupDiscipline, ClientDiscipline
<1>1. CASE UNCHANGED allVars
  BY <1>1 DEF allVars
<1>2. CASE \E b \in NonEmpty : set_bits(b) \/ clear_bits(b)
  BY <1>2 DEF set_bits, clear_bits
<1>3. CASE check_waiters
  <2>1. CASE UNCHANGED vars
    BY <2>1
  <2>2. ASSUME NEW w \in WaitersAt(i[current]), i[current] < wait_count, unblock(w.task),
               At("check")
        PROVE  [Next]_vars
    <3>1. i[current] \in Nat /\ wait_count \in Nat /\ wait_count <= MAX_TASKS
          /\ MAX_TASKS \in Nat
      BY <2>2, GroupFacts DEF At, GroupInv, PlaceInv
    <3>2. i[current] \in 0..(wait_count - 1) /\ i[current] \in Handles
      BY <2>2, <3>1 DEF Handles
    <3>3. w = waiters[i[current]]
      BY <3>2 DEF WaitersAt
    <3>4. w.task \in Created
      BY <3>2, <3>3, GroupFacts
    <3>5. i[current] # Hole
      BY <2>2, <3>1 DEF Hole, At
    <3>6. inside[w.task] = "block_current"
      BY <3>2, <3>3, <3>5 DEF GroupInv, ListInv
    <3> QED
      BY <1>d, <2>2, <3>4, <3>6 DEF Next, UnblockCall, Unblockable
  <2> QED
    BY <1>3, <2>1, <2>2 DEF check_waiters
<1>4. CASE Compact
  BY <1>4 DEF Compact
<1>5. ASSUME NEW c \in Requests, wait_bits(c) PROVE [Next]_vars
  BY <1>5, <1>d DEF wait_bits, Next, BlockCall
<1>6. CASE OtherStep
  BY <1>6 DEF OtherStep, Next
<1> QED
  BY <1>1, <1>2, <1>3, <1>4, <1>5, <1>6 DEF GroupNext

\* Tasks keep the priority they were created with.
LEMMA GroupPriorities ==
  ASSUME TypeOK, [Next]_vars, \A t \in Created : priority[t] \in Priorities
  PROVE  \A t \in Created' : priority'[t] \in Priorities
<1>c. /\ Created \subseteq Handles /\ task_count \in Nat
      /\ priority \in [Handles -> 0..NO_PRIORITY]
  BY CreatedFacts DEF TypeOK
<1>1. ASSUME NEW p \in Priorities, xTaskCreate(p)
      PROVE  \A t \in Created' : priority'[t] \in Priorities
  <2>1. task_count \in Handles
    BY <1>1, <1>c, SchedulerAssumption DEF xTaskCreate, Handles, INVALID_TASK
  <2>2. \A t \in Created' : t = task_count \/ t \in Created
    BY <1>1, <1>c DEF xTaskCreate, Created
  <2> QED
    BY <1>1, <1>c, <2>1, <2>2 DEF xTaskCreate
<1>2. ASSUME ~(\E p \in Priorities : xTaskCreate(p))
      PROVE  UNCHANGED <<task_count, priority>>
  BY <1>2
  DEF Next, KernelStep, Dispatch, SwitchTo, DesAdvance, GoIdle, TaskCall,
      Relinquish, vTaskStartScheduler, TaskReturns, vTaskDelay,
      vTaskSuspend, vTaskResume, vTaskDelete, tick, BlockCall, UnblockCall,
      block_current, unblock, vars
<1> QED
  BY <1>1, <1>2 DEF Created

\* Only its own call blocks a task.
LEMMA OthersBlockNobody ==
  ASSUME TypeOK, NEW t \in Created, KernelStep \/ (TaskCall /\ t # current),
         state'[t] = "BLOCKED"
  PROVE  state[t] = "BLOCKED"
<1>c. /\ Created \subseteq Handles /\ INVALID_TASK \notin Handles /\ task_count \in Nat
      /\ t \in Handles /\ DOMAIN state = Handles
  BY CreatedFacts DEF TypeOK
<1>w. \A e : Woken(e)[t] = state[t] \/ Woken(e)[t] = "READY"
  BY <1>c DEF Woken
<1>s. ASSUME NEW u \in Created, SwitchTo(u)
      PROVE  state'[t] = state[t] \/ state'[t] = "RUNNING"
  BY <1>s, <1>c DEF SwitchTo
<1>1. CASE KernelStep
  BY <1>1, <1>s, <1>w DEF KernelStep, Dispatch, DesAdvance, GoIdle
<1>2. ASSUME NEW p \in Priorities, xTaskCreate(p) PROVE state'[t] = state[t]
  <2>1. t # task_count
    BY <1>c DEF Created
  <2> QED
    BY <1>2, <1>c, <2>1 DEF xTaskCreate
<1>3. CASE vTaskStartScheduler
  BY <1>3, <1>s DEF vTaskStartScheduler, vars
<1>4. ASSUME Relinquish, t # current PROVE state'[t] = state[t]
  BY <1>4, <1>c DEF Relinquish, TaskReturns, vTaskDelay, GiveUp
<1>5. ASSUME NEW u \in Created, vTaskSuspend(u) \/ vTaskResume(u) \/ vTaskDelete(u),
             t # current
      PROVE  state'[t] = state[t] \/ state'[t] \in {"READY", "SUSPENDED", "DELETED"}
  BY <1>5, <1>c DEF vTaskSuspend, vTaskResume, vTaskDelete, GiveUp
<1>6. ASSUME NEW ms \in Delays, tick(ms), t # current
      PROVE  state'[t] = state[t] \/ state'[t] = "READY"
  <2>1. \E e : state' = Woken(e) \/ state' = [Woken(e) EXCEPT ![current] = "READY"]
    BY <1>6 DEF tick
  <2> QED
    BY <1>c, <1>6, <1>w, <2>1 DEF Woken
<1> QED
  BY <1>1, <1>2, <1>3, <1>4, <1>5, <1>6 DEF TaskCall, Suspendable

-----------------------------------------------------------------------------
(* The steps of the event group.                                           *)

\* The parts of GroupInv that speak of the group.
GroupPart ==
  /\ PlaceInv
  /\ ListInv(waiters, wait_count, Hole, pc, want, state, inside)
  /\ Passed

\* f has the value v for task me now, and is what it was for the others.
Moved(f, f2, me, v) ==
  f2[me] = v /\ \A t \in Handles \ {me} : f2[t] = f[t]

\* Where the running task is, and what it waits for, does not concern the list.
LEMMA CallerMoves ==
  ASSUME GroupInv, ~switching, NEW place, NEW x, NEW p2, NEW c2,
         Moved(pc, p2, current, place), Moved(want, c2, current, x)
  PROVE  ListInv(waiters, wait_count, Hole, p2, c2, state, inside)
<1>1. /\ current \notin Listed(waiters, wait_count)
      /\ current \in Handles => state[current] = "RUNNING"
      /\ \A k \in 0..(wait_count - 1) : waiters[k].task \in Handles
  BY GroupFacts
<1>2. \A k \in 0..(wait_count - 1) : waiters[k].task \in Handles \ {current}
  BY <1>1 DEF Listed
<1>3. ListInv(waiters, wait_count, Hole, pc, want, state, inside)
  BY DEF GroupInv
<1>4. \A k \in 0..(wait_count - 1) :
        /\ p2[waiters[k].task] = "wait"
        /\ c2[waiters[k].task] = want[waiters[k].task]
        /\ k # Hole => /\ state[waiters[k].task] \in {"BLOCKED", "DELETED"}
                       /\ inside[waiters[k].task] = "block_current"
        /\ k = Hole => state[waiters[k].task] # "BLOCKED"
  BY <1>2, <1>3 DEF ListInv, Moved
<1>5. \A t \in Handles : p2[t] = "wait" /\ state[t] = "BLOCKED" =>
        pc[t] = "wait" /\ state[t] = "BLOCKED"
  BY <1>1 DEF Moved
<1>6. Fits(waiters, wait_count, Hole, pc, want, state, p2, c2, state, inside)
  BY <1>4, <1>5 DEF Fits
<1> QED
  BY <1>3, <1>6, ListStays

\* A caller that keeps the processor moves to another place.
LEMMA PlaceStep ==
  ASSUME GroupInv, ~switching, UNCHANGED <<task_count, current, switching>>,
         NEW place \in {"out", "check", "compact", "wait"},
         pc' = [pc EXCEPT ![current] = place],
         i' \in [Callers -> Nat], DOMAIN want' = Handles,
         place = "check" => i'[current] <= wait_count',
         place = "compact" => i'[current] < wait_count'
  PROVE  /\ PlaceInv' /\ Moved(pc, pc', current, place)
         /\ Hole' = IF place = "compact" THEN i'[current] ELSE wait_count'
         /\ Scanned' = IF place \in {"check", "compact"} THEN i'[current] ELSE wait_count'
<1>1. /\ current \in Callers /\ (current \in Handles => current \in Created)
      /\ ~switching' /\ Created' = Created
  BY GroupFacts DEF Created
<1>2. /\ pc \in [Callers -> {"out", "check", "compact", "wait"}]
      /\ \A t \in Handles : t \in Callers /\ (pc[t] # "out" => t \in Created)
      /\ \A t \in Callers : pc[t] \in {"check", "compact"} => t = current
  BY DEF GroupInv, PlaceInv, Callers
<1>3. Moved(pc, pc', current, place)
  BY <1>1, <1>2 DEF Moved
<1>4. pc' \in [Callers -> {"out", "check", "compact", "wait"}]
  BY <1>2
<1>5. /\ \A t \in Handles : pc'[t] # "out" => t \in Created'
      /\ \A t \in Callers : pc'[t] \in {"check", "compact"} => ~switching' /\ t = current'
  BY <1>1, <1>2
<1>6. \A x : At(x)' <=> place = x
  BY <1>1, <1>3 DEF At, Moved
<1>7. (At("check") => i[current] <= wait_count)'
      /\ (At("compact") => i[current] < wait_count)'
  BY <1>6
<1> QED
  BY <1>3, <1>4, <1>5, <1>6, <1>7 DEF PlaceInv, Hole, Scanned

LEMMA SetBitsStep ==
  ASSUME GroupInv, NEW b, set_bits(b)
  PROVE  GroupPart'
<1>1. At("out") /\ ~switching /\ pc[current] = "out"
  BY DEF set_bits, At
<1>2. current \in Callers /\ wait_count \in Nat
  BY <1>1, GroupFacts
<1>3. i' \in [Callers -> Nat] /\ i'[current] = 0 /\ DOMAIN want' = Handles
  BY <1>2 DEF set_bits, GroupInv, PlaceInv
<1>4. /\ UNCHANGED <<task_count, current, switching, state, inside, waiters, wait_count, want>>
      /\ pc' = [pc EXCEPT ![current] = "check"]
  BY DEF set_bits, vars
<1>5. i'[current] <= wait_count'
  BY <1>2, <1>3, <1>4
<1>6. /\ PlaceInv' /\ Moved(pc, pc', current, "check")
      /\ Hole' = wait_count' /\ Scanned' = 0
  BY <1>1, <1>3, <1>4, <1>5, PlaceStep
<1>7. Hole = wait_count
  BY <1>1 DEF Hole, At
<1>8. ListInv(waiters, wait_count, Hole, pc', want', state, inside)
  <2>1. Moved(want, want', current, want[current])
    BY <1>4 DEF Moved
  <2> QED
    BY <1>1, <1>6, <2>1, CallerMoves
<1>9. ListInv(waiters, wait_count, Hole, pc, want, state, inside)'
  BY <1>4, <1>6, <1>7, <1>8
<1>10. Passed'
  BY <1>6 DEF Passed
<1> QED
  BY <1>6, <1>9, <1>10 DEF GroupPart

\* Bits that are cleared satisfy nobody: clear_bits, and the end of wait_bits.
LEMMA ClearStep ==
  ASSUME GroupInv, At("out") \/ At("wait"), bits' \subseteq bits,
         pc' = [pc EXCEPT ![current] = "out"], NEW x, Moved(want, want', current, x),
         DOMAIN want' = Handles,
         UNCHANGED <<vars, waiters, wait_count, i>>
  PROVE  GroupPart'
<1>1. ~switching /\ pc[current] \in {"out", "wait"}
  BY DEF At
<1>2. i' \in [Callers -> Nat]
  BY DEF GroupInv, PlaceInv
<1>3. UNCHANGED <<task_count, current, switching, state, inside>>
  BY DEF vars
<1>4. /\ PlaceInv' /\ Moved(pc, pc', current, "out")
      /\ Hole' = wait_count' /\ Scanned' = wait_count'
  BY <1>1, <1>2, <1>3, PlaceStep
<1>5. Hole = wait_count /\ Scanned = wait_count
  BY <1>1 DEF Hole, Scanned, At
<1>6. ListInv(waiters, wait_count, Hole, pc', want', state, inside)
  BY <1>1, <1>4, CallerMoves
<1>7. ListInv(waiters, wait_count, Hole, pc, want, state, inside)'
  BY <1>3, <1>4, <1>5, <1>6
<1>8. Passed'
  <2>1. \A k \in 0..(wait_count - 1) : ~satisfied(waiters[k].cond)
    BY <1>5 DEF GroupInv, Passed
  <2>2. \A k \in 0..(wait_count - 1) : ~satisfied(waiters[k].cond)'
    BY <2>1 DEF satisfied
  <2> QED
    BY <1>4, <2>2 DEF Passed
<1> QED
  BY <1>4, <1>7, <1>8 DEF GroupPart

\* The loop wakes the task of a satisfied entry.
LEMMA WakeStep ==
  ASSUME GroupDiscipline, GroupInv, At("check"), i[current] < wait_count,
         NEW w \in WaitersAt(i[current]), unblock(w.task),
         pc' = [pc EXCEPT ![current] = "compact"],
         UNCHANGED <<i, bits, waiters, wait_count, want>>
  PROVE  GroupPart'
<1> DEFINE h == i[current]
<1>1. ~switching /\ pc[current] = "check"
  BY DEF At
<1>2. /\ current \in Callers /\ current \notin Listed(waiters, wait_count)
      /\ wait_count \in Nat /\ wait_count <= MAX_TASKS /\ MAX_TASKS \in Nat
  BY <1>1, GroupFacts
<1>3. h \in Nat /\ i' \in [Callers -> Nat] /\ DOMAIN want' = Handles
  BY <1>2 DEF GroupInv, PlaceInv
<1>4. h \in 0..(wait_count - 1) /\ h \in Handles /\ h # wait_count
  BY <1>2, <1>3 DEF Handles
<1>5. w = waiters[h]
  BY <1>4 DEF WaitersAt
<1> HIDE DEF h
<1>6. /\ UNCHANGED <<inside, task_count, current, switching>>
      /\ state'[w.task] # "BLOCKED"
      /\ \A t \in Handles \ {w.task} : state'[t] = state[t]
  BY <1>1, <1>4, <1>5, WakeOne
<1>7. /\ PlaceInv' /\ Moved(pc, pc', current, "compact")
      /\ Hole' = h /\ Scanned' = h
  BY <1>1, <1>3, <1>6, PlaceStep DEF h
<1>8. Hole = wait_count /\ Scanned = h
  BY <1>1 DEF Hole, Scanned, At, h
<1>9. ListInv(waiters, wait_count, wait_count, pc, want, state, inside)
  BY <1>8 DEF GroupInv
<1>10. ASSUME NEW k \in 0..(wait_count - 1)
       PROVE  /\ pc'[waiters[k].task] = "wait"
              /\ k # h => /\ state'[waiters[k].task] \in {"BLOCKED", "DELETED"}
                          /\ inside'[waiters[k].task] = "block_current"
              /\ k = h => state'[waiters[k].task] # "BLOCKED"
  <2>1. /\ waiters[k].task \in Handles /\ pc[waiters[k].task] = "wait"
        /\ state[waiters[k].task] \in {"BLOCKED", "DELETED"}
        /\ inside[waiters[k].task] = "block_current"
    <3>1. k # wait_count
      BY <1>2
    <3> QED
      BY <1>9, <3>1 DEF ListInv
  <2>2. waiters[k].task # current
    BY <1>2 DEF Listed
  <2>3. k # h => waiters[k].task # waiters[h].task
    BY <1>4, <1>9 DEF ListInv
  <2> QED
    BY <1>5, <1>6, <1>7, <2>1, <2>2, <2>3 DEF Moved
<1>11. \A t \in Handles : pc'[t] = "wait" /\ state'[t] = "BLOCKED" =>
         pc[t] = "wait" /\ state[t] = "BLOCKED"
  BY <1>2, <1>6, <1>7 DEF Moved
<1>12. Fits(waiters, wait_count, h, pc, want, state, pc', want, state', inside')
  BY <1>10, <1>11 DEF Fits
<1>13. ListInv(waiters, wait_count, h, pc', want, state', inside')
  BY <1>9, <1>12, ListStays
<1>14. ListInv(waiters, wait_count, Hole, pc, want, state, inside)'
  BY <1>7, <1>13
<1>15. Passed'
  <2>1. \A k \in 0..(h - 1) : ~satisfied(waiters[k].cond)
    BY <1>8 DEF GroupInv, Passed
  <2>2. \A k \in 0..(h - 1) : ~satisfied(waiters[k].cond)'
    BY <2>1 DEF satisfied
  <2> QED
    BY <1>7, <2>2 DEF Passed
<1> QED
  BY <1>7, <1>14, <1>15 DEF GroupPart

\* The loop passes an entry that is not satisfied.
PassEntry ==
  /\ i' = [i EXCEPT ![current] = @ + 1]
  /\ UNCHANGED <<vars, pc, bits, waiters, wait_count, want>>

LEMMA PassStep ==
  ASSUME GroupInv, At("check"), i[current] < wait_count,
         NEW w \in WaitersAt(i[current]), ~satisfied(w.cond), PassEntry
  PROVE  GroupPart'
<1>1. ~switching /\ pc[current] = "check"
  BY DEF At
<1>2. /\ current \in Callers
      /\ wait_count \in Nat /\ wait_count <= MAX_TASKS /\ MAX_TASKS \in Nat
  BY <1>1, GroupFacts
<1>3. i[current] \in Nat /\ i \in [Callers -> Nat] /\ DOMAIN want' = Handles
  BY <1>2 DEF PassEntry, GroupInv, PlaceInv
<1>4. i[current] \in Handles
  BY <1>2, <1>3 DEF Handles
<1>5. w = waiters[i[current]]
  BY <1>4 DEF WaitersAt
<1>6. i' \in [Callers -> Nat] /\ i'[current] = i[current] + 1
  BY <1>2, <1>3 DEF PassEntry
<1>u. UNCHANGED <<vars, pc, bits, waiters, wait_count, want>>
  BY DEF PassEntry
<1>7. i'[current] <= wait_count'
  BY <1>2, <1>3, <1>6, <1>u
<1>8. /\ UNCHANGED <<task_count, current, switching, state, inside>>
      /\ pc' = [pc EXCEPT ![current] = "check"]
  BY <1>1, <1>u DEF vars, GroupInv, PlaceInv
<1>9. /\ PlaceInv' /\ Hole' = wait_count' /\ Scanned' = i[current] + 1
  BY <1>1, <1>3, <1>6, <1>7, <1>8, PlaceStep
<1>10. Hole = wait_count /\ Scanned = i[current]
  BY <1>1 DEF Hole, Scanned, At
<1>11. ListInv(waiters, wait_count, Hole, pc, want, state, inside)'
  <2>1. ListInv(waiters, wait_count, Hole, pc, want, state, inside)
    BY DEF GroupInv
  <2> QED
    BY <1>8, <1>9, <1>10, <1>u, <2>1
<1>12. Passed'
  <2>1. \A k \in 0..(i[current] - 1) : ~satisfied(waiters[k].cond)
    BY <1>10 DEF GroupInv, Passed
  <2>2. \A k \in 0..(i[current] + 1 - 1) : k = i[current] \/ k \in 0..(i[current] - 1)
    BY <1>3
  <2>3. \A k \in 0..(i[current] + 1 - 1) : ~satisfied(waiters[k].cond)
    BY <1>5, <2>1, <2>2
  <2>4. \A k \in 0..(i[current] + 1 - 1) : ~satisfied(waiters[k].cond)'
    BY <1>u, <2>3 DEF satisfied
  <2> QED
    BY <1>3, <1>9, <2>4 DEF Passed
<1> QED
  BY <1>9, <1>11, <1>12 DEF GroupPart

\* The loop ends: it has passed every entry.
LEMMA EndStep ==
  ASSUME GroupInv, At("check"), i[current] >= wait_count,
         pc' = [pc EXCEPT ![current] = "out"], i' = [i EXCEPT ![current] = 0],
         UNCHANGED <<vars, bits, waiters, wait_count, want>>
  PROVE  GroupPart'
<1>1. ~switching /\ pc[current] = "check"
  BY DEF At
<1>2. current \in Callers /\ wait_count \in Nat
  BY <1>1, GroupFacts
<1>3. /\ i[current] \in Nat /\ i' \in [Callers -> Nat] /\ DOMAIN want' = Handles
      /\ i[current] <= wait_count
  BY <1>2 DEF GroupInv, PlaceInv
<1>4. UNCHANGED <<task_count, current, switching, state, inside>>
  BY DEF vars
<1>5. /\ PlaceInv' /\ Moved(pc, pc', current, "out")
      /\ Hole' = wait_count' /\ Scanned' = wait_count'
  BY <1>1, <1>3, <1>4, PlaceStep
<1>6. Hole = wait_count /\ Scanned = i[current] /\ i[current] = wait_count
  BY <1>1, <1>2, <1>3 DEF Hole, Scanned, At
<1>7. Moved(want, want', current, want[current])
  BY DEF Moved
<1>8. ListInv(waiters, wait_count, Hole, pc', want', state, inside)
  BY <1>1, <1>5, <1>7, CallerMoves
<1>9. ListInv(waiters, wait_count, Hole, pc, want, state, inside)'
  BY <1>4, <1>5, <1>6, <1>8
<1>10. Passed'
  <2>1. \A k \in 0..(wait_count - 1) : ~satisfied(waiters[k].cond)
    BY <1>6 DEF GroupInv, Passed
  <2>2. \A k \in 0..(wait_count - 1) : ~satisfied(waiters[k].cond)'
    BY <2>1 DEF satisfied
  <2> QED
    BY <1>5, <2>2 DEF Passed
<1> QED
  BY <1>5, <1>9, <1>10 DEF GroupPart

\* The entry that was woken leaves the list.
LEMMA CompactStep ==
  ASSUME GroupInv, Compact
  PROVE  GroupPart'
<1> DEFINE h == i[current]
<1> DEFINE n == wait_count
<1>1. ~switching /\ pc[current] = "compact"
  BY DEF Compact, At
<1>2. current \in Callers /\ n \in Nat /\ n <= MAX_TASKS /\ MAX_TASKS \in 1..255
  BY <1>1, GroupFacts
<1>3. h \in Nat /\ i' \in [Callers -> Nat] /\ DOMAIN want' = Handles /\ h < n
  BY <1>1, <1>2 DEF Compact, GroupInv, PlaceInv, At
<1>4. n - 1 \in Nat /\ n - 1 \in Handles /\ h \in 0..(n - 1) /\ h <= n - 1
  BY <1>2, <1>3 DEF Handles
<1>5. (n + 255) % 256 = n - 1
  <2>1. n \in 1..255
    BY <1>2, <1>3
  <2>2. \A m \in 1..255 : (m + 255) % 256 = m - 1
    OBVIOUS
  <2> QED
    BY <2>1, <2>2
<1>6. wait_count' = n - 1
  BY <1>5 DEF Compact
<1>7. waiters' = [waiters EXCEPT ![h] = waiters[n - 1]]
  <2>1. PICK w \in WaitersAt(wait_count') : waiters' = [waiters EXCEPT ![i[current]] = w]
    BY DEF Compact
  <2>2. w = waiters[n - 1]
    BY <1>4, <1>6, <2>1 DEF WaitersAt
  <2> QED
    BY <2>1, <2>2
<1>8. /\ UNCHANGED <<task_count, current, switching, state, inside, bits, i, want>>
      /\ pc' = [pc EXCEPT ![current] = "check"]
  BY DEF Compact, vars
<1>9. Hole = h /\ Scanned = h
  BY <1>1 DEF Hole, Scanned, At
<1>10. i'[current] <= wait_count' /\ i'[current] = h
  BY <1>4, <1>6, <1>8
<1> HIDE DEF h, n
<1>11. /\ PlaceInv' /\ Moved(pc, pc', current, "check")
       /\ Hole' = wait_count' /\ Scanned' = h
  BY <1>1, <1>3, <1>8, <1>10, PlaceStep
<1>12. ListInv(waiters, n, h, pc, want, state, inside)
  BY <1>9 DEF GroupInv, n
<1>p. Puts(waiters, waiters', h, waiters[n - 1])
  BY <1>7 DEF Puts
<1>13. /\ ListInv(waiters', n - 1, n - 1, pc, want, state, inside)
       /\ \A k \in 0..(h - 1) : k < n - 1 => waiters'[k] = waiters[k]
  BY <1>4, <1>12, <1>p, ListCompact
<1>14. Fits(waiters', n - 1, n - 1, pc, want, state, pc', want, state, inside)
  <2>1. \A k \in 0..(n - 1 - 1) : /\ waiters'[k].task \in Handles
                                  /\ pc[waiters'[k].task] = "wait"
    BY <1>13 DEF ListInv
  <2>2. \A k \in 0..(n - 1 - 1) : pc'[waiters'[k].task] = "wait"
    BY <1>1, <1>11, <2>1 DEF Moved
  <2>3. \A t \in Handles : pc'[t] = "wait" => pc[t] = "wait"
    BY <1>11 DEF Moved
  <2>4. \A k \in 0..(n - 1 - 1) :
          /\ k # n - 1 => /\ state[waiters'[k].task] \in {"BLOCKED", "DELETED"}
                          /\ inside[waiters'[k].task] = "block_current"
          /\ k = n - 1 => state[waiters'[k].task] # "BLOCKED"
    BY <1>13 DEF ListInv
  <2> QED
    BY <2>2, <2>3, <2>4 DEF Fits
<1>15. ListInv(waiters', n - 1, n - 1, pc', want, state, inside)
  BY <1>13, <1>14, ListStays
<1>16. ListInv(waiters, wait_count, Hole, pc, want, state, inside)'
  BY <1>6, <1>8, <1>11, <1>15
<1>17. Passed'
  <2>1. \A k \in 0..(h - 1) : ~satisfied(waiters[k].cond)
    BY <1>9 DEF GroupInv, Passed
  <2>2. \A k \in 0..(h - 1) : k < n - 1
    BY <1>2, <1>3
  <2>3. \A k \in 0..(h - 1) : waiters'[k] = waiters[k]
    BY <1>13, <2>2
  <2>4. \A k \in 0..(h - 1) : ~satisfied(waiters[k].cond)'
    BY <1>8, <2>1, <2>3 DEF satisfied
  <2> QED
    BY <1>11, <2>4 DEF Passed
<1> QED
  BY <1>11, <1>16, <1>17 DEF GroupPart

\* A task whose condition does not hold enters the list and gives up the
\* processor.
LEMMA WaitStep ==
  ASSUME GroupInv, NEW c, wait_bits(c), ~satisfied(c)
  PROVE  GroupPart'
<1> DEFINE n == wait_count
<1>1. Running /\ pc[current] \in {"out", "wait"}
  BY DEF wait_bits, At
<1>2. /\ current \in Handles /\ current \in Created
      /\ current \notin Listed(waiters, n)
      /\ n \in Nat /\ MAX_TASKS \in Nat
  BY <1>1, GroupFacts DEF Running
<1>3. Hole = n /\ Scanned = n
  <2>1. ~At("check") /\ ~At("compact")
    BY <1>1 DEF At
  <2> QED
    BY <2>1 DEF Hole, Scanned
<1>4. ListInv(waiters, n, n, pc, want, state, inside)
  BY <1>3 DEF GroupInv
<1>5. n < MAX_TASKS
  BY <1>2, <1>4, RoomForOne
<1>6. Puts(waiters, waiters', n, Entry(current, c)) /\ wait_count' = n + 1
  BY <1>2, <1>5 DEF wait_bits, Puts
<1>7. /\ pc \in [Callers -> {"out", "check", "compact", "wait"}]
      /\ i \in [Callers -> Nat] /\ DOMAIN want = Handles
      /\ \A t \in Handles : t \in Callers /\ (pc[t] # "out" => t \in Created)
      /\ \A t \in Callers : pc[t] \in {"check", "compact"} => t = current
      /\ DOMAIN state = Handles /\ DOMAIN inside = Handles
  BY DEF GroupInv, PlaceInv, TypeOK, Callers
<1>8. /\ Moved(pc, pc', current, "wait") /\ Moved(want, want', current, c)
      /\ pc' = [pc EXCEPT ![current] = "wait"]
      /\ pc' \in [Callers -> {"out", "check", "compact", "wait"}]
      /\ DOMAIN want' = Handles
  BY <1>2, <1>7 DEF wait_bits, Moved
<1>9. /\ Moved(state, state', current, "BLOCKED")
      /\ Moved(inside, inside', current, "block_current")
      /\ switching' /\ UNCHANGED <<task_count, current>>
  BY <1>2, <1>7 DEF wait_bits, block_current, GiveUp, Moved, Running
<1>10. Hole' = n + 1 /\ Scanned' = n + 1
  BY <1>6, <1>9 DEF Hole, Scanned, At
<1>11. PlaceInv'
  <2>1. /\ \A t \in Handles : pc'[t] # "out" => t \in Created'
        /\ \A t \in Callers : pc'[t] \notin {"check", "compact"}
    BY <1>2, <1>7, <1>8, <1>9 DEF Created
  <2>2. ~At("check")' /\ ~At("compact")'
    BY <1>9 DEF At
  <2>3. i' \in [Callers -> Nat]
    BY <1>7 DEF wait_bits
  <2> QED
    BY <1>8, <2>1, <2>2, <2>3 DEF PlaceInv
<1>12. ListInv(waiters', n + 1, n + 1, pc', want', state', inside')
  <2> HIDE DEF n
  <2>1. /\ pc'[current] = "wait" /\ want'[current] = c
        /\ state'[current] = "BLOCKED" /\ inside'[current] = "block_current"
        /\ \A t \in Handles \ {current} : /\ pc'[t] = pc[t] /\ want'[t] = want[t]
                                          /\ state'[t] = state[t] /\ inside'[t] = inside[t]
    BY <1>8, <1>9 DEF Moved
  <2> QED
    BY <1>2, <1>4, <1>6, <2>1, ListAppend
<1>13. ListInv(waiters, wait_count, Hole, pc, want, state, inside)'
  BY <1>6, <1>10, <1>12
<1>14. Passed'
  <2>1. \A k \in 0..(n - 1) : ~satisfied(waiters[k].cond)
    BY <1>3 DEF GroupInv, Passed
  <2>2. n \in Handles /\ DOMAIN waiters = Handles
    BY <1>2, <1>4, <1>5 DEF Handles, ListInv
  <2>3. \A k \in 0..(n + 1 - 1) : k = n \/ (k \in 0..(n - 1) /\ k \in Handles /\ k # n)
    BY <1>2, <1>5 DEF Handles
  <2>4. waiters'[n].cond = c /\ \A k \in Handles : k # n => waiters'[k] = waiters[k]
    BY <1>6, <2>2, EntryFields DEF Puts
  <2>5. \A k \in 0..(n + 1 - 1) : ~satisfied(waiters'[k].cond)
    BY <2>1, <2>3, <2>4
  <2>6. \A k \in 0..(n + 1 - 1) : ~satisfied(waiters[k].cond)'
    BY <2>5 DEF wait_bits, satisfied
  <2> QED
    BY <1>2, <1>10, <2>6 DEF Passed
<1> QED
  BY <1>11, <1>13, <1>14 DEF GroupPart

\* Everything else leaves the group and the tasks that wait as they are.
LEMMA OutsideGroup ==
  ASSUME GroupDiscipline, GroupInv, OtherStep
  PROVE  GroupPart'
<1>0. /\ KernelStep \/ (TaskCall /\ At("out"))
      /\ UNCHANGED <<bits, waiters, wait_count, pc, i, want>>
  BY DEF OtherStep, groupVars
<1>1. [Next]_vars
  BY <1>0 DEF Next
<1>2. TypeOK' /\ Created \subseteq Created' /\ TimerDiscipline
  BY <1>1, TypeStep, CreatedGrows DEF GroupInv, GroupDiscipline, ClientDiscipline
<1>3. \A t \in Callers : pc[t] \notin {"check", "compact"}
  <2>1. KernelStep => switching
    BY DEF KernelStep, Dispatch, DesAdvance, GoIdle
  <2>2. switching \/ pc[current] = "out"
    BY <1>0, <2>1 DEF At
  <2> QED
    BY <2>2 DEF GroupInv, PlaceInv
<1>4. current \in Callers /\ current' \in Callers
  <2>0. \A m \in 0..MAX_TASKS : 0..(m - 1) \subseteq 0..(MAX_TASKS - 1)
    BY SchedulerAssumption
  <2>1. Created' \subseteq Handles
    BY <1>2, <2>0 DEF TypeOK, Handles, Created
  <2> QED
    BY <1>2, <2>1, GroupFacts DEF TypeOK, Callers
<1>5. Hole = wait_count /\ Scanned = wait_count /\ Hole' = wait_count /\ Scanned' = wait_count
  BY <1>0, <1>3, <1>4 DEF Hole, Scanned, At
<1>6. PlaceInv'
  <2>1. ~At("check")' /\ ~At("compact")'
    BY <1>0, <1>3, <1>4 DEF At
  <2> QED
    BY <1>0, <1>2, <1>3, <2>1 DEF GroupInv, PlaceInv
<1>7. ListInv(waiters, wait_count, wait_count, pc, want, state, inside)
  BY <1>5 DEF GroupInv
<1>8. ASSUME NEW k \in 0..(wait_count - 1)
      PROVE  /\ pc[waiters[k].task] = "wait"
             /\ state'[waiters[k].task] \in {"BLOCKED", "DELETED"}
             /\ inside'[waiters[k].task] = "block_current"
             /\ k # wait_count
  <2>1. wait_count \in Nat /\ waiters[k].task \in Created /\ k # wait_count
    BY GroupFacts
  <2>2. /\ pc[waiters[k].task] = "wait"
        /\ state[waiters[k].task] \in {"BLOCKED", "DELETED"}
        /\ inside[waiters[k].task] = "block_current"
    BY <1>7, <2>1 DEF ListInv
  <2>3. KernelStep \/ TaskCall
    BY <1>0
  <2> QED
    BY <1>2, <2>1, <2>2, <2>3, BlockedStays DEF GroupInv
<1>9. ASSUME NEW t \in Handles, pc[t] = "wait", state'[t] = "BLOCKED"
      PROVE  state[t] = "BLOCKED"
  <2>1. t \in Created /\ t # INVALID_TASK
    BY <1>9, CreatedFacts DEF GroupInv, PlaceInv
  <2>2. KernelStep \/ (TaskCall /\ t # current)
    BY <1>0, <1>9 DEF At
  <2> QED
    BY <1>9, <2>1, <2>2, OthersBlockNobody DEF GroupInv
<1>10. Fits(waiters, wait_count, wait_count, pc, want, state, pc, want, state', inside')
  BY <1>8, <1>9 DEF Fits
<1>11. ListInv(waiters, wait_count, wait_count, pc, want, state', inside')
  BY <1>7, <1>10, ListStays
<1>12. ListInv(waiters, wait_count, Hole, pc, want, state, inside)'
  BY <1>0, <1>5, <1>11
<1>13. Passed'
  <2>1. \A k \in 0..(wait_count - 1) : ~satisfied(waiters[k].cond)
    BY <1>5 DEF GroupInv, Passed
  <2>2. \A k \in 0..(wait_count - 1) : ~satisfied(waiters[k].cond)'
    BY <1>0, <2>1 DEF satisfied
  <2> QED
    BY <1>5, <2>2 DEF Passed
<1> QED
  BY <1>6, <1>12, <1>13 DEF GroupPart

-----------------------------------------------------------------------------
(* The invariant and what it implies.                                      *)

LEMMA GroupInitial == GroupInit => GroupInv
<1> SUFFICES ASSUME GroupInit PROVE GroupInv
  OBVIOUS
<1>1. Init /\ TypeOK /\ RunningIsCurrent /\ TimerInv
  BY InitialInvariants DEF GroupInit
<1>2. Created = {} /\ ~Running
  BY <1>1 DEF Init, Created, Running
<1>6. current = INVALID_TASK
  BY <1>1 DEF Init
<1>0. /\ current \in Callers /\ \A t \in Handles : t \in Callers
      /\ pc = [t \in Callers |-> "out"] /\ i = [t \in Callers |-> 0]
      /\ want = [t \in Handles |-> Nothing] /\ wait_count = 0
  BY <1>6 DEF GroupInit, Callers
<1>3. /\ PlaceInv /\ Hole = wait_count /\ Scanned = wait_count
  <2>1. ~At("check") /\ ~At("compact")
    BY <1>0 DEF At
  <2>2. PlaceInv
    <3>1. /\ pc \in [Callers -> {"out", "check", "compact", "wait"}]
          /\ i \in [Callers -> Nat] /\ DOMAIN want = Handles
          /\ \A t \in Callers : pc[t] = "out"
      BY <1>0
    <3> QED
      BY <1>0, <2>1, <3>1 DEF PlaceInv
  <2> QED
    BY <2>1, <2>2 DEF Hole, Scanned
<1>4. ListInv(waiters, wait_count, Hole, pc, want, state, inside)
  <2>1. /\ wait_count = 0 /\ wait_count \in 0..MAX_TASKS /\ DOMAIN waiters = Handles
        /\ \A t \in Handles : pc[t] # "wait"
    BY <1>0, SchedulerAssumption DEF GroupInit
  <2> QED
    BY <2>1 DEF ListInv
<1>5. Passed
  BY <1>3 DEF GroupInit, Passed
<1> QED
  BY <1>1, <1>2, <1>3, <1>4, <1>5 DEF GroupInv

LEMMA GroupStep ==
  ASSUME GroupDiscipline
  PROVE  GroupInv /\ [GroupNext]_allVars => GroupInv'
<1> SUFFICES ASSUME GroupInv, [GroupNext]_allVars PROVE GroupInv'
  OBVIOUS
<1>1. [Next]_vars
  BY GroupRefines
<1>2. TypeOK' /\ RunningIsCurrent' /\ TimerInv'
  BY <1>1, TypeStep, RunningStep, TimerStep
  DEF GroupInv, GroupDiscipline, ClientDiscipline
<1>3. \A t \in Created' : priority'[t] \in Priorities
  BY <1>1, GroupPriorities DEF GroupInv
<1>4. ASSUME NEW b, set_bits(b) PROVE GroupPart'
  BY <1>4, SetBitsStep
<1>5. ASSUME NEW b, clear_bits(b) PROVE GroupPart'
  <2>1. /\ At("out") /\ bits' \subseteq bits
        /\ UNCHANGED <<vars, waiters, wait_count, i>>
        /\ pc' = pc /\ want' = want
    BY <1>5 DEF clear_bits
  <2>2. /\ pc' = [pc EXCEPT ![current] = "out"] /\ Moved(want, want', current, want[current])
        /\ DOMAIN want' = Handles
    BY <2>1 DEF At, Moved, GroupInv, PlaceInv
  <2> QED
    BY <2>1, <2>2, ClearStep
<1>6. ASSUME check_waiters PROVE GroupPart'
  BY <1>6, WakeStep, PassStep, EndStep DEF check_waiters, PassEntry
<1>7. ASSUME Compact PROVE GroupPart'
  BY <1>7, CompactStep
<1>8. ASSUME NEW c \in Requests, wait_bits(c) PROVE GroupPart'
  <2>1. CASE ~satisfied(c)
    BY <1>8, <2>1, WaitStep
  <2>2. CASE satisfied(c)
    <3>1. /\ At("out") \/ At("wait")
          /\ bits' \subseteq bits
          /\ pc' = [pc EXCEPT ![current] = "out"]
          /\ UNCHANGED <<vars, waiters, wait_count, i>>
      BY <1>8, <2>2 DEF wait_bits
    <3>2. Moved(want, want', current, Nothing) /\ DOMAIN want' = Handles
      <4>1. current \in Handles /\ DOMAIN want = Handles
        BY <1>8, GroupFacts DEF wait_bits, GroupInv, PlaceInv
      <4> QED
        BY <1>8, <2>2, <4>1 DEF wait_bits, Moved
    <3> QED
      BY <3>1, <3>2, ClearStep
  <2> QED
    BY <2>1, <2>2
<1>9. ASSUME OtherStep PROVE GroupPart'
  BY <1>9, OutsideGroup
<1>10. ASSUME UNCHANGED allVars PROVE GroupPart'
  <2>1. /\ UNCHANGED <<state, inside, task_count, current, switching>>
        /\ UNCHANGED <<bits, waiters, wait_count, pc, i, want>>
    BY <1>10 DEF allVars, vars, groupVars
  <2>2. Hole' = Hole /\ Scanned' = Scanned
    BY <2>1 DEF Hole, Scanned, At, Running
  <2>3. PlaceInv'
    BY <2>1 DEF GroupInv, PlaceInv, At, Running, Created
  <2>4. ListInv(waiters, wait_count, Hole, pc, want, state, inside)'
    BY <2>1, <2>2 DEF GroupInv
  <2>5. Passed'
    BY <2>1, <2>2 DEF GroupInv, Passed, satisfied
  <2> QED
    BY <2>3, <2>4, <2>5 DEF GroupPart
<1>11. GroupPart'
  BY <1>4, <1>5, <1>6, <1>7, <1>8, <1>9, <1>10 DEF GroupNext
<1> QED
  BY <1>2, <1>3, <1>11 DEF GroupInv, GroupPart

\* While nobody is inside check_waiters, a blocked task is in the list with
\* its condition, and the condition does not hold.
LEMMA QuietFacts ==
  ASSUME GroupInv, Quiet, NEW t \in Handles, pc[t] = "wait", state[t] = "BLOCKED"
  PROVE  \E k \in 0..(wait_count - 1) : /\ waiters[k] = Entry(t, want[t])
                                        /\ ~satisfied(want[t])
<1>1. current \in Callers
  BY GroupFacts
<1>2. Scanned = wait_count
  BY <1>1 DEF Scanned, At, Quiet
<1>3. PICK k \in 0..(wait_count - 1) : waiters[k].task = t
  BY DEF GroupInv, ListInv
<1>4. waiters[k] = Entry(t, want[t])
  BY <1>3 DEF GroupInv, ListInv
<1>5. ~satisfied(waiters[k].cond)
  BY <1>2 DEF GroupInv, Passed
<1>6. waiters[k].cond = want[t]
  BY <1>4, EntryFields
<1> QED
  BY <1>4, <1>5, <1>6

\* Whatever bits are set and cleared, and however tasks enter, leave and are
\* deleted: when no set_bits is under way, no task is blocked in wait_bits
\* although its condition holds (event_group.h, set_bits and check_waiters).
THEOREM AwakeCorrect ==
  ASSUME GroupDiscipline
  PROVE  GroupSpec => []SatisfiedAreAwake
<1>1. GroupInv => SatisfiedAreAwake
  BY QuietFacts DEF SatisfiedAreAwake
<1> QED
  BY <1>1, GroupInitial, GroupStep, PTL DEF GroupSpec

\* wait_count_ never exceeds the array, and a task that is blocked in wait_bits
\* has exactly one entry, with its own condition: the place that check_waiters
\* fills after an unblock never loses or doubles a waiter.
THEOREM ListedCorrect ==
  ASSUME GroupDiscipline
  PROVE  GroupSpec => []WaitersAreListed
<1>1. GroupInv => WaitersAreListed
  <2> SUFFICES ASSUME GroupInv PROVE WaitersAreListed
    OBVIOUS
  <2>1. wait_count <= MAX_TASKS
    BY GroupFacts
  <2>2. \A k, m \in 0..(wait_count - 1) : waiters[k].task = waiters[m].task => k = m
    BY DEF GroupInv, ListInv
  <2> QED
    BY <2>1, <2>2, QuietFacts DEF WaitersAreListed
<1> QED
  BY <1>1, GroupInitial, GroupStep, PTL DEF GroupSpec

\* Tasks that use an event group behave as tasks of the kernel: everything
\* proved of Spec holds of them.
THEOREM GroupImplementsScheduler ==
  ASSUME GroupDiscipline
  PROVE  GroupSpec => Spec
<1>1. GroupInit => Init
  BY DEF GroupInit
<1> QED
  BY <1>1, GroupInitial, GroupStep, GroupRefines, PTL DEF GroupSpec, Spec
===============================================================================
