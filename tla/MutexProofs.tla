----------------------------- MODULE MutexProofs -----------------------------
(***************************************************************************)
(* Mutual exclusion of rtos/mutex.h for every number of tasks, in programs *)
(* that suspend no task while it waits or sleeps and end before the tick   *)
(* counter overflows.                                                      *)
(*                                                                         *)
(* Every step of the composition is a step of the kernel (MutexRefines),   *)
(* so the kernel's invariants hold here too.  WaiterInv adds that a task   *)
(* in lock() that does not own the mutex cannot be switched to: it is      *)
(* BLOCKED inside block_current, where no timer wakes it (TimerInv), and   *)
(* only unlock() unblocks it, after making it the owner; and that it is in *)
(* the list, which has room because it holds no task twice.                *)
(***************************************************************************)
EXTENDS Mutex, SchedulerProofs

MutexInv ==
  /\ TypeOK /\ RunningIsCurrent /\ TimerInv
  /\ MutexTypeOK /\ MutualExclusion /\ WaiterInv

\* A waiter is a created task that is inside block_current.
LEMMA WaiterFacts ==
  ASSUME MutexInv, NEW i \in DOMAIN waiters
  PROVE  /\ waiters[i] \in Created
         /\ waiters[i] \in Handles
         /\ inside[waiters[i]] = "block_current"
BY DEF MutexInv, WaiterInv, MutexTypeOK

\* The mutex and its clients make only the calls that the kernel's
\* specification provides for.
LEMMA MutexRefines ==
  ASSUME ClientDiscipline
  PROVE  MutexInv /\ [MutexNext]_allVars => [Next]_vars
<1> SUFFICES ASSUME MutexInv, [MutexNext]_allVars PROVE [Next]_vars
  OBVIOUS
<1>1. CASE UNCHANGED allVars
  BY <1>1 DEF allVars
<1>2. CASE lock
  BY <1>2 DEF lock, Next, BlockCall, ClientDiscipline
<1>3. CASE unlock
  <2>1. ASSUME NEW i \in DOMAIN waiters, unblock(waiters[i]) PROVE UnblockCall
    BY <2>1, WaiterFacts DEF UnblockCall, Unblockable, ClientDiscipline
  <2> QED
    BY <1>3, <2>1 DEF unlock, Next
<1>4. CASE LockReturns \/ try_lock
  BY <1>4 DEF LockReturns, try_lock
<1>5. CASE OtherStep
  BY <1>5 DEF OtherStep, Next
<1> QED
  BY <1>1, <1>2, <1>3, <1>4, <1>5 DEF MutexNext

LEMMA MutexStep ==
  ASSUME ClientDiscipline
  PROVE  MutexInv /\ [MutexNext]_allVars
         => MutexTypeOK' /\ MutualExclusion' /\ WaiterInv'
<1> SUFFICES ASSUME MutexInv, [MutexNext]_allVars
             PROVE  MutexTypeOK' /\ MutualExclusion' /\ WaiterInv'
  OBVIOUS
<1>c. /\ Created \subseteq Handles
      /\ INVALID_TASK \notin Handles
      /\ task_count \in Nat
  BY CreatedFacts DEF MutexInv
<1>o. At("out") \/ At("lock") \/ At("cs") =>
        current \in Created /\ current \in Handles /\ state[current] = "RUNNING"
  BY <1>c DEF At, Running, MutexInv, TypeOK, RunningIsCurrent
<1>0. CASE UNCHANGED allVars
  BY <1>0
  DEF allVars, vars, mutexVars, MutexInv, MutexTypeOK, MutualExclusion,
      WaiterInv, Created
\* The first test of lock(), and try_lock(), take a free mutex.
<1>1. ASSUME At("out"), owner = INVALID_TASK, owner' = current,
             pc' = [pc EXCEPT ![current] = "cs"], UNCHANGED <<vars, waiters>>
      PROVE  MutexTypeOK' /\ MutualExclusion' /\ WaiterInv'
  <2>1. waiters = <<>>
    BY <1>1 DEF MutexInv, WaiterInv
  <2>2. MutexTypeOK' /\ MutualExclusion'
    BY <1>1, <1>c, <1>o DEF MutexInv, MutexTypeOK, MutualExclusion
  <2>3. WaiterInv'
    BY <1>1, <1>c, <1>o, <2>1
    DEF MutexInv, MutexTypeOK, WaiterInv, vars, Created
  <2> QED
    BY <2>2, <2>3
<1>2. CASE lock
  <2>1. CASE owner = INVALID_TASK
    BY <1>1, <1>2, <2>1 DEF lock
  <2>2. CASE owner # INVALID_TASK
    <3>1. /\ At("out")
          /\ waiters' = Enqueued(waiters, current)
          /\ pc' = [pc EXCEPT ![current] = "lock"]
          /\ block_current
          /\ UNCHANGED owner
      BY <1>2, <2>2 DEF lock
    <3>0. waiters \in Seq(Handles) /\ current \in Handles
      BY <1>o, <3>1 DEF MutexInv, MutexTypeOK
    <3>r. waiters' = Append(waiters, current)
      <4>1. waiters \in Seq(Handles \ {current})
        BY <1>o, <3>0, <3>1 DEF At, MutexInv, WaiterInv
      <4> QED
        BY <3>0, <3>1, <4>1, ListHasRoom DEF MutexInv, WaiterInv
    <3>2. /\ waiters' \in Seq(Handles)
          /\ DOMAIN waiters' \subseteq 1..(Len(waiters) + 1)
          /\ \A k \in DOMAIN waiters' :
               waiters'[k] = IF k <= Len(waiters) THEN waiters[k] ELSE current
      BY <3>0, <3>r
    <3>3. MutexTypeOK' /\ MutualExclusion'
      BY <1>o, <3>1, <3>2 DEF MutexInv, MutexTypeOK, MutualExclusion
    <3>4. /\ state' = [state EXCEPT ![current] = "BLOCKED"]
          /\ inside' = [inside EXCEPT ![current] = "block_current"]
          /\ Created' = Created
      BY <3>1 DEF block_current, GiveUp, Created
    <3>5. pc[current] = "out" /\ owner # current
      BY <1>o, <2>2, <3>1 DEF At, MutexInv, WaiterInv
    <3>6. \A t \in Handles :
            pc'[t] = "lock" /\ owner' # t =>
              state'[t] \in {"BLOCKED", "DELETED"} /\ inside'[t] = "block_current"
      BY <1>o, <3>1, <3>4 DEF MutexInv, TypeOK, MutexTypeOK, WaiterInv
    <3>7. \A t \in Handles : pc'[t] # "out" => t \in Created'
      BY <1>o, <3>1, <3>4 DEF MutexInv, MutexTypeOK, WaiterInv
    <3>8. owner' # INVALID_TASK /\ pc'[owner'] # "out"
      BY <1>o, <2>2, <3>1 DEF MutexInv, MutexTypeOK, WaiterInv
    <3>9. \A k \in DOMAIN waiters :
            waiters[k] \in Handles /\ pc[waiters[k]] = "lock" /\ waiters[k] # owner
      BY DEF MutexInv, MutexTypeOK, WaiterInv
    <3>10. \A k \in DOMAIN waiters' :
             \/ k \in DOMAIN waiters /\ waiters'[k] = waiters[k]
             \/ k = Len(waiters) + 1 /\ waiters'[k] = current
      BY <3>2 DEF MutexInv, MutexTypeOK
    <3>11. \A k \in DOMAIN waiters' :
             /\ pc'[waiters'[k]] = "lock"
             /\ waiters'[k] # owner'
             /\ \A m \in DOMAIN waiters' : m # k => waiters'[m] # waiters'[k]
      BY <1>o, <3>1, <3>5, <3>9, <3>10 DEF MutexInv, MutexTypeOK, WaiterInv
    <3>12. Members(waiters') = Members(waiters) \cup {current}
      BY <3>0, <3>r DEF Members
    <3>13. \A t \in Handles :
             pc'[t] = "lock" /\ owner' # t => t \in Members(waiters')
      BY <1>o, <3>1, <3>12 DEF MutexInv, MutexTypeOK, WaiterInv
    <3> QED
      BY <3>3, <3>6, <3>7, <3>8, <3>11, <3>13 DEF WaiterInv, Members
  <2> QED
    BY <2>1, <2>2
<1>3. CASE try_lock
  BY <1>1, <1>3 DEF try_lock
\* Whoever runs inside lock() owns the mutex.
<1>4. CASE LockReturns
  <2>1. owner = current
    BY <1>4, <1>o DEF LockReturns, At, MutexInv, WaiterInv
  <2>2. \A k \in DOMAIN waiters : waiters[k] \in Handles /\ waiters[k] # current
    BY <2>1 DEF MutexInv, MutexTypeOK, WaiterInv
  <2>3. MutexTypeOK' /\ MutualExclusion'
    BY <1>4, <1>o, <2>1 DEF LockReturns, MutexInv, MutexTypeOK, MutualExclusion
  <2>4. WaiterInv'
    BY <1>4, <1>o, <2>1, <2>2
    DEF LockReturns, MutexInv, MutexTypeOK, WaiterInv, vars, Created
  <2> QED
    BY <2>3, <2>4
<1>5. CASE unlock
  <2>0. /\ At("cs") /\ owner = current
        /\ pc' = [pc EXCEPT ![current] = "out"]
    BY <1>5, <1>o DEF unlock, At, MutexInv, MutualExclusion
  <2>1. CASE waiters = <<>> /\ owner' = INVALID_TASK /\ UNCHANGED <<vars, waiters>>
    <3>1. MutexTypeOK' /\ MutualExclusion'
      BY <1>o, <2>0, <2>1 DEF MutexInv, MutexTypeOK, MutualExclusion
    <3>2. WaiterInv'
      BY <1>o, <2>0, <2>1 DEF MutexInv, MutexTypeOK, WaiterInv, vars, Created
    <3> QED
      BY <3>1, <3>2
  <2>2. ASSUME NEW i \in DOMAIN waiters,
               owner' = waiters[i],
               waiters' = SwapRemove(waiters, i),
               unblock(waiters[i])
        PROVE  MutexTypeOK' /\ MutualExclusion' /\ WaiterInv'
    <3>1. /\ waiters' \in Seq(Handles)
          /\ DOMAIN waiters' = 1..(Len(waiters) - 1)
          /\ \A k \in 1..(Len(waiters) - 1) :
               waiters'[k] = IF k = i THEN waiters[Len(waiters)] ELSE waiters[k]
      BY <2>2, SwapRemoveFacts DEF MutexInv, MutexTypeOK
    <3>2. /\ waiters[i] \in Created /\ waiters[i] \in Handles
          /\ pc[waiters[i]] = "lock" /\ waiters[i] # current
      BY <2>0, WaiterFacts DEF MutexInv, WaiterInv
    <3>3. MutexTypeOK' /\ MutualExclusion'
      BY <1>o, <2>0, <2>2, <3>1, <3>2 DEF MutexInv, MutexTypeOK, MutualExclusion
    <3>4. ASSUME NEW t \in Handles, t # waiters[i], t # current
          PROVE  state'[t] = state[t] /\ inside'[t] = inside[t]
      BY <2>2, <3>2, <3>4 DEF unblock, vars, MutexInv, TypeOK
    <3>5. \A t \in Handles :
            pc'[t] = "lock" /\ owner' # t =>
              state'[t] \in {"BLOCKED", "DELETED"} /\ inside'[t] = "block_current"
      BY <1>o, <2>0, <2>2, <3>4 DEF MutexInv, MutexTypeOK, WaiterInv
    <3>6. Created' = Created
      BY <2>2 DEF unblock, vars, Created
    <3>7. /\ \A t \in Handles : pc'[t] # "out" => t \in Created'
          /\ owner' # INVALID_TASK /\ pc'[owner'] # "out"
      BY <1>c, <1>o, <2>0, <2>2, <3>2, <3>6 DEF MutexInv, MutexTypeOK, WaiterInv
    \* The entry at k was at position p of the list before.
    <3>8. ASSUME NEW k \in DOMAIN waiters'
          PROVE  \E p \in DOMAIN waiters :
                   /\ p # i /\ waiters'[k] = waiters[p]
                   /\ p = IF k = i THEN Len(waiters) ELSE k
      BY <3>1 DEF MutexInv, MutexTypeOK
    <3>9. \A k \in DOMAIN waiters :
            /\ waiters[k] \in Handles /\ pc[waiters[k]] = "lock"
            /\ waiters[k] # current
            /\ \A m \in DOMAIN waiters : m # k => waiters[m] # waiters[k]
      BY <2>0 DEF MutexInv, MutexTypeOK, WaiterInv
    <3>10. \A k \in DOMAIN waiters' :
             pc'[waiters'[k]] = "lock" /\ waiters'[k] # owner'
      BY <1>o, <2>0, <2>2, <3>8, <3>9 DEF MutexInv, MutexTypeOK
    <3>11. \A k, m \in DOMAIN waiters' : m # k => waiters'[m] # waiters'[k]
      BY <3>1, <3>8, <3>9
    <3>12. \A t \in Handles :
             pc'[t] = "lock" /\ owner' # t => t \in Members(waiters')
      <4> SUFFICES ASSUME NEW t \in Handles, pc'[t] = "lock", owner' # t
                   PROVE  t \in Members(waiters')
        OBVIOUS
      <4>1. t # current /\ pc[t] = "lock"
        BY <1>o, <2>0 DEF MutexInv, MutexTypeOK
      <4>2. PICK k \in DOMAIN waiters : t = waiters[k]
        BY <2>0, <4>1 DEF MutexInv, WaiterInv, Members
      <4> QED
        BY <2>2, <4>2, SwapRemoveMembers DEF MutexInv, MutexTypeOK
    <3> QED
      BY <3>3, <3>5, <3>7, <3>10, <3>11, <3>12 DEF WaiterInv, Members
  <2> QED
    BY <1>5, <2>1, <2>2 DEF unlock
<1>6. CASE OtherStep
  <2>1. MutexTypeOK' /\ MutualExclusion'
    BY <1>6 DEF OtherStep, mutexVars, MutexInv, MutexTypeOK, MutualExclusion
  <2>2. KernelStep \/ TaskCall
    BY <1>6 DEF OtherStep
  <2>3. \A t \in Handles :
          pc[t] = "lock" /\ owner # t =>
            state'[t] \in {"BLOCKED", "DELETED"} /\ inside'[t] = "block_current"
    BY <2>2, BlockedStays DEF MutexInv, WaiterInv, ClientDiscipline
  <2>5. Created \subseteq Created'
    BY MutexRefines, CreatedGrows DEF MutexInv
  <2>6. WaiterInv'
    BY <1>6, <2>3, <2>5 DEF OtherStep, mutexVars, MutexInv, WaiterInv
  <2> QED
    BY <2>1, <2>6
<1> QED
  BY <1>0, <1>2, <1>3, <1>4, <1>5, <1>6 DEF MutexNext

LEMMA MutexInvariant ==
  ASSUME ClientDiscipline
  PROVE  MutexSpec => []MutexInv
<1>1. MutexInit => MutexInv
  <2> SUFFICES ASSUME MutexInit PROVE MutexInv
    OBVIOUS
  <2>1. TypeOK /\ RunningIsCurrent /\ TimerInv
    BY InitialInvariants DEF MutexInit
  <2>2. MutexTypeOK /\ MutualExclusion /\ WaiterInv
    BY DEF MutexInit, MutexTypeOK, MutualExclusion, WaiterInv
  <2> QED
    BY <2>1, <2>2 DEF MutexInv
<1>2. MutexInv /\ [MutexNext]_allVars => MutexInv'
  BY MutexStep, MutexRefines, TypeStep, RunningStep, TimerStep
  DEF MutexInv, ClientDiscipline
<1> QED
  BY <1>1, <1>2, PTL DEF MutexSpec

\* For every number of tasks: a task between lock() and unlock() owns the
\* mutex, also after being blocked, preempted and woken.
THEOREM MutexCorrect ==
  ASSUME ClientDiscipline
  PROVE  MutexSpec => []MutualExclusion
BY MutexInvariant, PTL DEF MutexInv

\* For every number of tasks: no task waits in lock() unrecorded, although
\* a full list would drop it, and none leaves lock() before it is the owner.
THEOREM WaitersCorrect ==
  ASSUME ClientDiscipline
  PROVE  MutexSpec => []WaiterInv
BY MutexInvariant, PTL DEF MutexInv

\* The mutex and its clients implement the kernel's specification: they take
\* no step that the kernel does not provide for.
THEOREM MutexImplementsScheduler ==
  ASSUME ClientDiscipline
  PROVE  MutexSpec => Spec
<1>1. MutexInit => Init
  BY DEF MutexInit
<1> QED
  BY <1>1, MutexInvariant, MutexRefines, PTL DEF MutexSpec, Spec

\* For every number of tasks and priorities: while a task waits in lock(),
\* nobody of a worse priority becomes the owner.  A free mutex has no waiter,
\* so that lock() and try_lock() overtake nobody, and the list from which
\* unlock() takes the best entry still holds everybody who waits.
THEOREM ServedCorrect ==
  ASSUME ClientDiscipline
  PROVE  MutexSpec => ServedByPriority
<1>1. MutexInv /\ [MutexNext]_allVars
      => [\A t \in Handles :
            pc[t] = "lock" /\ owner # t /\ owner' \notin {owner, t, INVALID_TASK}
              => priority[owner'] <= priority[t]]_allVars
  <2> SUFFICES ASSUME MutexInv, MutexNext, NEW t \in Handles,
                      pc[t] = "lock", owner # t,
                      owner' # owner, owner' # t, owner' # INVALID_TASK
               PROVE  priority[owner'] <= priority[t]
    OBVIOUS
  <2>1. PICK k \in DOMAIN waiters : t = waiters[k]
    BY DEF MutexInv, WaiterInv, Members
  <2>2. owner # INVALID_TASK
    BY <2>1 DEF MutexInv, MutexTypeOK, WaiterInv
  <2>3. unlock
    BY <2>2 DEF MutexNext, lock, LockReturns, try_lock, OtherStep, mutexVars
  <2>4. PICK i \in DOMAIN waiters : IsBest(waiters, i) /\ owner' = waiters[i]
    BY <2>3 DEF unlock
  <2>5. /\ waiters[i] \in Created /\ waiters[k] \in Created
        /\ waiters[i] \in Handles /\ waiters[k] \in Handles
    BY WaiterFacts
  <2>6. /\ get_priority(waiters[i]) = priority[waiters[i]]
        /\ get_priority(waiters[k]) = priority[waiters[k]]
    BY <2>5 DEF get_priority
  <2>7. priority[waiters[i]] \in Nat /\ priority[waiters[k]] \in Nat
    BY <2>5 DEF MutexInv, TypeOK
  <2> QED
    BY <2>1, <2>4, <2>6, <2>7 DEF IsBest
<1> QED
  BY <1>1, MutexInvariant, PTL DEF MutexSpec, ServedByPriority
=============================================================================
