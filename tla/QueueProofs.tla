---------------------------- MODULE QueueProofs ----------------------------
(***************************************************************************)
(* The queue of rtos/queue.h for every capacity, every number of tasks and *)
(* every set of items: it is a bounded FIFO, and no wake-up is lost.       *)
(*                                                                         *)
(* NoLostWakeup counts the tasks that were woken and have not yet tested   *)
(* the buffer again.  To preserve the count, every task inside a call must *)
(* be in the wait list and BLOCKED, or out of it and on its way to run:    *)
(* CallInv, which is stated once for the receivers, of which there should  *)
(* be one under way per item, and once for the senders, one per free slot. *)
(***************************************************************************)
EXTENDS Queue, SchedulerProofs, BasicFacts

\* No task is suspended or deleted while it is inside a call of the queue,
\* and every task has a priority that select_next takes.
QueueDiscipline ==
  /\ ClientDiscipline
  /\ Calls \cap {"vTaskSuspend", "vTaskSuspend_any", "vTaskDelete"} = {}
  /\ NO_PRIORITY \notin Priorities

\* The ring buffer.
RingInv ==
  /\ buf \in [0..(N - 1) -> Items \cup {NoItem}]
  /\ head \in 0..(N - 1) /\ tail \in 0..(N - 1) /\ count \in 0..N
  /\ tail = (head + count) % N

\* The tasks p says are inside that call, and which its list w does not hold.
Awake(call, w, p) == {t \in Handles : p[t] = call /\ t \notin Members(w)}

\* The tasks inside that call, with n items or free slots for them.
CallInv(call, w, st, ins, p, n) ==
  /\ w \in Seq(Handles) /\ Distinct(w)
  /\ \A t \in Members(w) :
       p[t] = call /\ st[t] = "BLOCKED" /\ ins[t] = "block_current"
  /\ \A t \in Awake(call, w, p) : st[t] \in {"READY", "RUNNING"}
  /\ w # <<>> => n <= Cardinality(Awake(call, w, p))

QueueInv ==
  /\ TypeOK /\ RunningIsCurrent /\ TimerInv
  /\ RingInv
  /\ pc \in [Handles -> {"out", "send", "receive"}]
  /\ \A t \in Handles : pc[t] # "out" => t \in Created
  /\ \A t \in Created : priority[t] < NO_PRIORITY
  /\ CallInv("receive", recv_waiters, state, inside, pc, count)
  /\ CallInv("send", send_waiters, state, inside, pc, N - count)

-----------------------------------------------------------------------------
(* How the steps change a call's list, the tasks' states and pc.           *)

\* The states of the tasks inside the call stay what they have to be.
Steady(call, w, p, st2, ins2) ==
  /\ \A t \in Members(w) : st2[t] = "BLOCKED" /\ ins2[t] = "block_current"
  /\ \A t \in Awake(call, w, p) : st2[t] \in {"READY", "RUNNING"}

SameCalls(call, p, p2) == \A t \in Handles : p2[t] = call <=> p[t] = call

\* f has the value v for task me now, and is what it was for the others.
Moves(f, f2, me, v) ==
  f2[me] = v /\ \A t \in Handles \ {me} : f2[t] = f[t]

\* Nobody enters or leaves the call, and there is not more to take than before.
LEMMA CallStays ==
  ASSUME NEW call, NEW w, NEW st, NEW ins, NEW p, NEW n \in Int,
         CallInv(call, w, st, ins, p, n),
         NEW st2, NEW ins2, NEW p2, NEW n2 \in Int,
         Steady(call, w, p, st2, ins2), SameCalls(call, p, p2),
         w # <<>> => n2 <= n
  PROVE  CallInv(call, w, st2, ins2, p2, n2)
<1>1. Members(w) \subseteq Handles
  BY MembersType DEF CallInv
<1>2. Awake(call, w, p2) = Awake(call, w, p)
  BY DEF SameCalls, Awake
<1>3. Awake(call, w, p) \in SUBSET Handles
  BY DEF Awake
<1>4. Cardinality(Awake(call, w, p)) \in Nat
  BY <1>3, HandlesFinite
<1>5. \A t \in Members(w) : p2[t] = call
  BY <1>1 DEF SameCalls, CallInv
<1>6. ASSUME w # <<>> PROVE n2 <= Cardinality(Awake(call, w, p))
  <2>1. n <= Cardinality(Awake(call, w, p)) /\ n2 <= n
    BY <1>6 DEF CallInv
  <2>2. \A k \in Nat : n <= k /\ n2 <= n => n2 <= k
    OBVIOUS
  <2> QED
    BY <1>4, <2>1, <2>2
<1> QED
  BY <1>2, <1>5, <1>6 DEF CallInv, Steady

\* A task that was under way leaves the call with what it came for.
LEMMA CallLeft ==
  ASSUME NEW call, NEW w, NEW st, NEW ins, NEW p, NEW n \in Int,
         CallInv(call, w, st, ins, p, n),
         NEW me \in Awake(call, w, p),
         NEW st2, NEW ins2, NEW p2,
         Steady(call, w, p, st2, ins2),
         NEW place, place # call, Moves(p, p2, me, place)
  PROVE  CallInv(call, w, st2, ins2, p2, n - 1)
<1>1. Members(w) \subseteq Handles
  BY MembersType DEF CallInv
<1>2. Awake(call, w, p2) = Awake(call, w, p) \ {me}
  BY DEF Awake, Moves
<1>3. Awake(call, w, p) \in SUBSET Handles
  BY DEF Awake
<1>4. /\ IsFiniteSet(Awake(call, w, p)) /\ Cardinality(Awake(call, w, p)) \in Nat
      /\ Cardinality(Awake(call, w, p2)) = Cardinality(Awake(call, w, p)) - 1
  BY <1>2, <1>3, HandlesFinite, FS_RemoveElement
<1>5. \A t \in Members(w) : p2[t] = call
  BY <1>1 DEF CallInv, Awake, Moves
<1>6. ASSUME w # <<>> PROVE n - 1 <= Cardinality(Awake(call, w, p2))
  <2>1. n <= Cardinality(Awake(call, w, p))
    BY <1>6 DEF CallInv
  <2>2. \A k \in Nat : n <= k => n - 1 <= k - 1
    OBVIOUS
  <2> QED
    BY <1>4, <2>1, <2>2
<1> QED
  BY <1>2, <1>5, <1>6 DEF CallInv, Steady

\* A task finds nothing and enters the list.
LEMMA CallEntered ==
  ASSUME NEW call, NEW w, NEW st, NEW ins, NEW p, NEW n,
         CallInv(call, w, st, ins, p, n),
         NEW me \in Handles, me \notin Members(w),
         NEW st2, Moves(st, st2, me, "BLOCKED"),
         NEW ins2, Moves(ins, ins2, me, "block_current"),
         NEW p2, Moves(p, p2, me, call)
  PROVE  CallInv(call, Enqueued(w, me), st2, ins2, p2, 0)
<1>1. w \in Seq(Handles) /\ Distinct(w) /\ Members(w) \subseteq Handles
  BY MembersType DEF CallInv
<1>2. /\ Enqueued(w, me) \in Seq(Handles) /\ Distinct(Enqueued(w, me))
      /\ Members(Enqueued(w, me)) = Members(w) \cup {me}
  BY <1>1, EnqueuedDistinct
<1>3. Awake(call, Enqueued(w, me), p2) = Awake(call, w, p) \ {me}
  BY <1>2 DEF Awake, Moves
<1>4. 0 <= Cardinality(Awake(call, Enqueued(w, me), p2))
  <2>1. Awake(call, Enqueued(w, me), p2) \in SUBSET Handles
    BY DEF Awake
  <2>2. Cardinality(Awake(call, Enqueued(w, me), p2)) \in Nat
    BY <2>1, HandlesFinite
  <2>3. \A k \in Nat : 0 <= k
    OBVIOUS
  <2> QED
    BY <2>2, <2>3
<1>5. \A t \in Members(w) \cup {me} :
        p2[t] = call /\ st2[t] = "BLOCKED" /\ ins2[t] = "block_current"
  BY <1>1 DEF CallInv, Moves
<1>6. \A t \in Awake(call, w, p) \ {me} : st2[t] \in {"READY", "RUNNING"}
  BY DEF CallInv, Awake, Moves
<1> QED
  BY <1>2, <1>3, <1>4, <1>5, <1>6 DEF CallInv

\* A waiter is woken for one item or slot more.
LEMMA CallWoken ==
  ASSUME NEW call, NEW w, NEW st, NEW ins, NEW p, NEW n \in Int,
         CallInv(call, w, st, ins, p, n),
         NEW u \in Members(w), NEW w2 \in Seq(Handles), Distinct(w2),
         Members(w2) = Members(w) \ {u},
         NEW st2, NEW ins2, NEW p2, NEW n2 \in Int,
         \A t \in Members(w2) : st2[t] = "BLOCKED" /\ ins2[t] = "block_current",
         \A t \in Awake(call, w, p) : st2[t] \in {"READY", "RUNNING"},
         st2[u] = "READY",
         SameCalls(call, p, p2), n2 = n + 1
  PROVE  CallInv(call, w2, st2, ins2, p2, n2)
<1>1. w \in Seq(Handles) /\ Members(w) \subseteq Handles /\ w # <<>>
  BY MembersType DEF CallInv
<1>2. /\ Awake(call, w2, p2) = Awake(call, w, p) \cup {u}
      /\ u \notin Awake(call, w, p)
  BY <1>1 DEF Awake, SameCalls, CallInv
<1>3. Awake(call, w, p) \in SUBSET Handles
  BY DEF Awake
<1>4. /\ IsFiniteSet(Awake(call, w, p)) /\ Cardinality(Awake(call, w, p)) \in Nat
      /\ Cardinality(Awake(call, w2, p2)) = Cardinality(Awake(call, w, p)) + 1
  BY <1>2, <1>3, HandlesFinite, FS_AddElement
<1>5. \A t \in Members(w2) : p2[t] = call
  BY <1>1 DEF CallInv, SameCalls
<1>6. n2 <= Cardinality(Awake(call, w2, p2))
  <2>1. n <= Cardinality(Awake(call, w, p))
    BY <1>1 DEF CallInv
  <2>2. \A k \in Nat : n <= k => n + 1 <= k + 1
    OBVIOUS
  <2> QED
    BY <1>4, <2>1, <2>2
<1> QED
  BY <1>2, <1>5, <1>6 DEF CallInv

-----------------------------------------------------------------------------
(* The kernel.                                                             *)

\* Steps of the kernel, and calls of another task, take no task out of READY
\* or RUNNING, and delete none.
LEMMA OthersStay ==
  ASSUME QueueDiscipline, TypeOK, NEW t \in Created,
         KernelStep \/ (TaskCall /\ t # current)
  PROVE  state'[t] = state[t] \/ state'[t] \in {"READY", "RUNNING"}
<1>c. /\ Created \subseteq Handles /\ INVALID_TASK \notin Handles /\ task_count \in Nat
      /\ t \in Handles
  BY CreatedFacts
<1>w. \A e : Woken(e)[t] = state[t] \/ Woken(e)[t] = "READY"
  BY <1>c DEF Woken
<1>s. ASSUME NEW u \in Created, SwitchTo(u)
      PROVE  state'[t] = state[t] \/ state'[t] \in {"READY", "RUNNING"}
  BY <1>s, <1>c DEF SwitchTo, TypeOK
<1>1. CASE KernelStep
  BY <1>1, <1>s, <1>w DEF KernelStep, Dispatch, DesAdvance, GoIdle
<1>2. ASSUME NEW p \in Priorities, xTaskCreate(p) PROVE state'[t] = state[t]
  <2>1. t # task_count
    BY <1>c DEF Created
  <2> QED
    BY <1>2, <1>c, <2>1 DEF xTaskCreate, TypeOK
<1>3. CASE vTaskStartScheduler
  BY <1>3, <1>s DEF vTaskStartScheduler, vars
<1>4. ASSUME Relinquish, t # current PROVE state'[t] = state[t]
  BY <1>4, <1>c DEF Relinquish, TaskReturns, vTaskDelay, GiveUp, TypeOK
<1>5. ASSUME NEW u \in Created, vTaskResume(u)
      PROVE  state'[t] = state[t] \/ state'[t] = "READY"
  BY <1>5, <1>c DEF vTaskResume, TypeOK
<1>6. ASSUME NEW ms \in Delays, tick(ms), t # current
      PROVE  state'[t] = state[t] \/ state'[t] = "READY"
  <2>1. \E e : state' = Woken(e) \/ state' = [Woken(e) EXCEPT ![current] = "READY"]
    BY <1>6 DEF tick
  <2> QED
    BY <1>c, <1>6, <1>w, <2>1 DEF Woken
<1>7. Suspendable = {} /\ "vTaskDelete" \notin Calls
  BY DEF QueueDiscipline, Suspendable
<1> QED
  BY <1>1, <1>2, <1>3, <1>4, <1>5, <1>6, <1>7 DEF TaskCall

\* A task gets the priority it is created with.
LEMMA PrioritiesStay ==
  ASSUME QueueDiscipline, TypeOK, [Next]_vars, \A t \in Created : priority[t] < NO_PRIORITY
  PROVE  \A t \in Created' : priority'[t] < NO_PRIORITY
<1>c. /\ Created \subseteq Handles /\ task_count \in Nat
      /\ priority \in [Handles -> 0..NO_PRIORITY]
  BY CreatedFacts DEF TypeOK
<1>1. ASSUME NEW p \in Priorities, xTaskCreate(p)
      PROVE  \A t \in Created' : priority'[t] < NO_PRIORITY
  <2>1. p < NO_PRIORITY /\ task_count \in Handles
    BY <1>1, <1>c, SchedulerAssumption
    DEF QueueDiscipline, NO_PRIORITY, xTaskCreate, Handles, INVALID_TASK
  <2>2. \A t \in Created' : t = task_count \/ t \in Created
    BY <1>1, <1>c DEF xTaskCreate, Created
  <2> QED
    BY <1>1, <1>c, <2>1, <2>2 DEF xTaskCreate
<1>2. ASSUME ~(\E p \in Priorities : xTaskCreate(p))
      PROVE  UNCHANGED <<task_count, priority>>
  BY <1>2
  DEF Next, KernelStep, Dispatch, SwitchTo, DesAdvance, GoIdle, TaskCall,
      Relinquish, vTaskStartScheduler, TaskReturns, vTaskDelay,
      vTaskSuspend, vTaskResume, vTaskDelete, tick, BlockCall, UnblockCall,
      block_current, unblock, vars
<1> QED
  BY <1>1, <1>2 DEF Created

\* unblock of a task that waits, as the tasks see it.
LEMMA WakeEffect ==
  ASSUME TypeOK, RunningIsCurrent, NEW u \in Created,
         state[u] = "BLOCKED", unblock(u)
  PROVE  /\ u # current /\ state'[u] = "READY" /\ inside'[u] = inside[u]
         /\ Running => state'[current] \in {"READY", "RUNNING"}
         /\ \A t \in Handles \ {u, current} : state'[t] = state[t] /\ inside'[t] = inside[t]
<1>c. Created \subseteq Handles /\ INVALID_TASK \notin Handles /\ ~switching
  BY CreatedFacts DEF unblock
<1>1. CASE Running
  <2>1. current \in Created /\ state[current] = "RUNNING" /\ u # current
    BY <1>1 DEF RunningIsCurrent, Running, TypeOK
  <2> QED
    BY <1>c, <2>1 DEF unblock, TypeOK
<1>2. CASE ~Running
  <2>1. current = INVALID_TASK /\ u # current
    BY <1>2, <1>c DEF Running
  <2>2. state' = [state EXCEPT ![u] = "READY"] /\ inside' = inside
    BY <2>1 DEF unblock, Preempts
  <2> QED
    BY <1>2, <1>c, <2>1, <2>2 DEF TypeOK
<1> QED
  BY <1>1, <1>2

-----------------------------------------------------------------------------
(* The ring buffer.                                                        *)

LEMMA StoreAdds ==
  ASSUME RingInv, count # N, NEW x \in Items, Store(x)
  PROVE  RingInv' /\ Adds(Contents, x, Contents') /\ count' = count + 1
<1> DEFINE S == Items \cup {NoItem}
<1>0. /\ N \in Nat \ {0} /\ x \in S
      /\ buf \in [0..(N - 1) -> S] /\ head \in 0..(N - 1) /\ count \in 0..N
      /\ tail \in 0..(N - 1) /\ tail = (head + count) % N
  BY QueueAssumption DEF RingInv
<1>1. /\ buf' = [buf EXCEPT ![tail] = x] /\ tail' = (tail + 1) % N
      /\ count' = count + 1 /\ head' = head
  BY DEF Store
<1>2. /\ count \in 0..(N - 1) /\ head + count \in 0..(2 * N - 2) /\ count + 1 \in 0..N
      /\ head + (count + 1) = head + count + 1 /\ tail + 1 \in 0..(2 * N - 1)
  BY <1>0
<1>3. tail' = (head + (count + 1)) % N /\ tail' \in 0..(N - 1)
  <2>1. (((head + count) % N) + 1) % N = (head + count + 1) % N
    BY <1>0, <1>2, TailMoves
  <2>2. (tail + 1) % N \in 0..(N - 1)
    BY <1>0, <1>2, Wrapped
  <2> QED
    BY <1>0, <1>1, <1>2, <2>1, <2>2
<1>4. buf' \in [0..(N - 1) -> S] /\ Stores(buf', buf, tail, x, N)
  BY <1>0, <1>1 DEF Stores
<1>5. RingInv'
  BY <1>0, <1>1, <1>2, <1>3, <1>4 DEF RingInv
<1>6. Adds(Window(buf, head, count, N), x, Window(buf', head, count + 1, N))
  <2>1. Stores(buf', buf, (head + count) % N, x, N)
    BY <1>0, <1>4
  <2> QED
    BY <1>0, <1>2, <1>4, <2>1, WindowPush
<1>7. Contents = Window(buf, head, count, N) /\ Contents' = Window(buf', head, count + 1, N)
  BY <1>1 DEF Contents, Window
<1> QED
  BY <1>1, <1>5, <1>6, <1>7

LEMMA FetchTakes ==
  ASSUME RingInv, count # 0, Fetch
  PROVE  RingInv' /\ Takes(Contents, got', Contents') /\ count' = count - 1
<1> DEFINE S == Items \cup {NoItem}
<1>0. /\ N \in Nat \ {0}
      /\ buf \in [0..(N - 1) -> S] /\ head \in 0..(N - 1) /\ count \in 0..N
      /\ tail \in 0..(N - 1) /\ tail = (head + count) % N
  BY QueueAssumption DEF RingInv
<1>1. /\ head' = (head + 1) % N /\ got' = buf[head]
      /\ count' = count - 1 /\ buf' = buf /\ tail' = tail
  BY DEF Fetch
<1>2. /\ count \in 1..N /\ count - 1 \in 0..N /\ count - 1 \in 0..(N - 1)
      /\ head + 1 \in 0..N /\ head + 1 \in 0..(2 * N - 1)
      /\ head + 1 + (count - 1) = head + count
  BY <1>0
<1>3. head' \in 0..(N - 1)
  BY <1>0, <1>1, <1>2, Wrapped
<1>4. tail' = (head' + count') % N
  <2>1. (((head + 1) % N) + (count - 1)) % N = (head + 1 + (count - 1)) % N
    BY <1>0, <1>2, HeadMoves
  <2> QED
    BY <1>0, <1>1, <1>2, <2>1
<1>5. RingInv'
  BY <1>0, <1>1, <1>2, <1>3, <1>4 DEF RingInv
<1>6. Takes(Window(buf, head, count, N), buf[head], Window(buf, (head + 1) % N, count - 1, N))
  BY <1>0, <1>2, WindowPop
<1>7. /\ Contents = Window(buf, head, count, N)
      /\ Contents' = Window(buf, (head + 1) % N, count - 1, N)
  BY <1>1 DEF Contents, Window
<1> QED
  BY <1>1, <1>5, <1>6, <1>7

\* One step of the queue is one of the FIFO, or does not touch it.
LEMMA FIFOStep ==
  ASSUME RingInv, [QueueNext]_allVars
  PROVE  RingInv' /\ [FIFO!FIFONext]_<<Contents, got>>
<1>0. N \in Nat \ {0} /\ count \in 0..N
  BY QueueAssumption DEF RingInv
<1>1. ASSUME NEW x \in Items, count # N, Store(x), got' = got
      PROVE  RingInv' /\ [FIFO!FIFONext]_<<Contents, got>>
  <2>1. RingInv' /\ Adds(Contents, x, Contents')
    BY <1>1, StoreAdds
  <2>2. Len(Contents) = count /\ count < N
    BY <1>0, <1>1 DEF Contents
  <2>3. FIFO!Put(x)
    BY <1>1, <2>1, <2>2 DEF FIFO!Put, Adds
  <2> QED
    BY <2>1, <2>3 DEF FIFO!FIFONext
<1>2. ASSUME count # 0, Fetch
      PROVE  RingInv' /\ [FIFO!FIFONext]_<<Contents, got>>
  <2>1. RingInv' /\ Takes(Contents, got', Contents')
    BY <1>2, FetchTakes
  <2>2. FIFO!Get
    BY <2>1 DEF FIFO!Get, Takes
  <2> QED
    BY <2>1, <2>2 DEF FIFO!FIFONext
<1>3. ASSUME UNCHANGED <<buf, head, tail, count, got>>
      PROVE  RingInv' /\ [FIFO!FIFONext]_<<Contents, got>>
  BY <1>3 DEF RingInv, Contents
<1>4. ASSUME NEW x \in Items, send(x) \/ try_send(x)
      PROVE  RingInv' /\ [FIFO!FIFONext]_<<Contents, got>>
  BY <1>1, <1>3, <1>4 DEF send, try_send
<1>5. CASE receive \/ try_receive
  BY <1>2, <1>3, <1>5 DEF receive, try_receive
<1>6. CASE OtherStep \/ UNCHANGED allVars
  BY <1>3, <1>6 DEF OtherStep, allVars, queueVars
<1> QED
  BY <1>4, <1>5, <1>6 DEF QueueNext

\* However senders and receivers block, preempt and overtake each other, items
\* are received in the order in which they were stored, each once, and never
\* more than N are held (queue.h, send to try_receive): the queue implements
\* BoundedFIFO for every N, every set of items, and whatever the tasks call.
THEOREM QueueIsFIFO == QueueSpec => IsFIFO
<1>1. QueueInit => RingInv /\ FIFO!FIFOInit
  <2> SUFFICES ASSUME QueueInit PROVE RingInv /\ FIFO!FIFOInit
    OBVIOUS
  <2>0. N \in Nat \ {0}
    BY QueueAssumption
  <2>1. RingInv
    <3>1. (0 + 0) % N = 0 /\ 0 \in 0..(N - 1) /\ 0 \in 0..N
      BY <2>0
    <3> QED
      BY <3>1 DEF QueueInit, RingInv
  <2>2. Contents = <<>> /\ got = NoItem
    BY DEF QueueInit, Contents
  <2> QED
    BY <2>1, <2>2 DEF FIFO!FIFOInit
<1> QED
  BY <1>1, FIFOStep, PTL DEF QueueSpec, IsFIFO, FIFO!FIFOSpec
-----------------------------------------------------------------------------
(* No wake-up is lost.                                                     *)

\* The members of the lists are waiters, and none of them runs.
LEMMA WaiterFacts ==
  ASSUME QueueInv, NEW w, w = recv_waiters \/ w = send_waiters
  PROVE  /\ Members(w) \subseteq Handles /\ Members(w) \subseteq Created
         /\ \A t \in Members(w) : state[t] = "BLOCKED" /\ inside[t] = "block_current"
         /\ Running => current \in Created /\ current \in Handles
                       /\ current \notin Members(w) /\ state[current] = "RUNNING"
         /\ Idle => current \notin Handles
<1>1. Created \subseteq Handles /\ (Idle => current \notin Handles)
  BY CreatedFacts DEF QueueInv, Idle
<1>2. w \in Seq(Handles)
  BY DEF QueueInv, CallInv
<1>3. Members(w) \subseteq Handles
  BY <1>2, MembersType
<1>4. \A t \in Members(w) : /\ state[t] = "BLOCKED" /\ inside[t] = "block_current"
                            /\ pc[t] # "out"
  BY DEF QueueInv, CallInv
<1>5. Running => current \in Created /\ state[current] = "RUNNING"
  BY DEF Running, QueueInv, TypeOK, RunningIsCurrent
<1> QED
  BY <1>1, <1>3, <1>4, <1>5 DEF QueueInv

\* The queue and its clients make only the calls that the kernel's
\* specification provides for.
LEMMA QueueRefines ==
  ASSUME QueueDiscipline
  PROVE  QueueInv /\ [QueueNext]_allVars => [Next]_vars
<1> SUFFICES ASSUME QueueInv, [QueueNext]_allVars PROVE [Next]_vars
  OBVIOUS
<1>d. {"block_current", "unblock"} \subseteq Calls
  BY DEF QueueDiscipline, ClientDiscipline
<1>w. ASSUME NEW w, w = recv_waiters \/ w = send_waiters,
             NEW w2, WakeBest(w, w2)
      PROVE  [Next]_vars
  <2>1. ASSUME NEW i \in DOMAIN w, unblock(w[i]) PROVE UnblockCall
    BY <1>d, <1>w, <2>1, WaiterFacts DEF UnblockCall, Unblockable, Members
  <2> QED
    BY <1>w, <2>1 DEF WakeBest, Next
<1>b. block_current => [Next]_vars
  BY <1>d DEF BlockCall, Next
<1>1. CASE UNCHANGED allVars
  BY <1>1 DEF allVars
<1>2. ASSUME NEW x \in Items, send(x) \/ try_send(x) PROVE [Next]_vars
  BY <1>b, <1>w, <1>2 DEF send, try_send
<1>3. CASE receive \/ try_receive
  BY <1>b, <1>w, <1>3 DEF receive, try_receive
<1>4. CASE OtherStep
  BY <1>4 DEF OtherStep, Next
<1> QED
  BY <1>1, <1>2, <1>3, <1>4 DEF QueueNext

\* What waking the best waiter of one list does to the tasks.
LEMMA WakeTasks ==
  ASSUME QueueInv, Running \/ Idle, NEW w, w = recv_waiters \/ w = send_waiters,
         NEW w2, WakeBest(w, w2)
  PROVE  /\ \/ w = <<>> /\ w2 = w
            \/ \E u \in Members(w) :
                 /\ w2 \in Seq(Handles) /\ Distinct(w2)
                 /\ Members(w2) = Members(w) \ {u}
                 /\ state'[u] = "READY"
                 /\ \A t \in Members(w2) : state'[t] = state[t] /\ inside'[t] = inside[t]
         /\ current \in Handles => state'[current] \in {"READY", "RUNNING"}
         /\ \A t \in Handles : t # current /\ t \notin Members(w) =>
              state'[t] = state[t] /\ inside'[t] = inside[t]
<1>f. /\ Members(w) \subseteq Handles /\ Members(w) \subseteq Created
      /\ \A t \in Members(w) : state[t] = "BLOCKED"
      /\ current \notin Members(w)
      /\ current \in Handles => Running /\ state[current] = "RUNNING"
  BY WaiterFacts
<1>s. w \in Seq(Handles) /\ Distinct(w)
  BY DEF QueueInv, CallInv
<1>1. CASE w = <<>> /\ w2 = w /\ UNCHANGED vars
  BY <1>1, <1>f DEF vars
<1>2. ASSUME NEW i \in DOMAIN w, w2 = SwapRemove(w, i), unblock(w[i])
      PROVE  /\ \E u \in Members(w) :
                 /\ w2 \in Seq(Handles) /\ Distinct(w2)
                 /\ Members(w2) = Members(w) \ {u}
                 /\ state'[u] = "READY"
                 /\ \A t \in Members(w2) : state'[t] = state[t] /\ inside'[t] = inside[t]
             /\ current \in Handles => state'[current] \in {"READY", "RUNNING"}
             /\ \A t \in Handles : t # current /\ t \notin Members(w) =>
                  state'[t] = state[t] /\ inside'[t] = inside[t]
  <2> DEFINE u == w[i]
  <2>1. u \in Members(w) /\ u \in Created /\ state[u] = "BLOCKED"
    BY <1>f DEF Members
  <2>2. /\ w2 \in Seq(Handles) /\ Distinct(w2)
        /\ Members(w2) = Members(w) \ {u}
    BY <1>2, <1>s, SwapRemoveFacts, SwapRemoveDistinct
  <2>3. /\ state'[u] = "READY"
        /\ current \in Handles => state'[current] \in {"READY", "RUNNING"}
        /\ \A t \in Handles \ {u, current} :
             state'[t] = state[t] /\ inside'[t] = inside[t]
    BY <1>2, <1>f, <2>1, WakeEffect DEF QueueInv
  <2> HIDE DEF u
  <2>4. \A t \in Members(w2) : t \in Handles \ {u, current}
    BY <1>f, <2>2
  <2> QED
    BY <2>1, <2>2, <2>3, <2>4
<1> QED
  BY <1>1, <1>2 DEF WakeBest

\* One item or slot more, and the best waiter for it woken.
LEMMA WakeKeeps ==
  ASSUME QueueInv, Running \/ Idle, NEW call, NEW n \in Int,
         NEW w, w = recv_waiters \/ w = send_waiters,
         CallInv(call, w, state, inside, pc, n),
         NEW w2, WakeBest(w, w2), NEW p2, SameCalls(call, pc, p2)
  PROVE  CallInv(call, w2, state', inside', p2, n + 1)
<1>f. /\ Members(w) \subseteq Handles
      /\ \A t \in Members(w) : state[t] = "BLOCKED" /\ inside[t] = "block_current"
  BY WaiterFacts
<1>a. \A t \in Awake(call, w, pc) :
        /\ t \in Handles /\ t \notin Members(w)
        /\ state[t] \in {"READY", "RUNNING"}
  BY DEF Awake, CallInv
<1>b. \A t \in Awake(call, w, pc) : state'[t] \in {"READY", "RUNNING"}
  BY <1>a, WakeTasks, Zenon
<1>n. n + 1 \in Int
  OBVIOUS
<1>1. CASE w = <<>> /\ w2 = w
  <2>1. Members(w) = {}
    BY <1>1 DEF Members
  <2>2. Steady(call, w, pc, state', inside')
    BY <1>b, <2>1 DEF Steady
  <2>3. CallInv(call, w, state', inside', p2, n + 1)
    BY <1>1, <1>n, <2>2, CallStays
  <2> QED
    BY <1>1, <2>3
<1>2. ASSUME NEW u \in Members(w),
             w2 \in Seq(Handles), Distinct(w2), Members(w2) = Members(w) \ {u},
             state'[u] = "READY",
             \A t \in Members(w2) : state'[t] = state[t] /\ inside'[t] = inside[t]
      PROVE  CallInv(call, w2, state', inside', p2, n + 1)
  <2>1. \A t \in Members(w2) : state'[t] = "BLOCKED" /\ inside'[t] = "block_current"
    BY <1>2, <1>f
  <2> QED
    BY <1>2, <1>b, <1>n, <2>1, CallWoken
<1> QED
  BY <1>1, <1>2, WakeTasks, Zenon

\* The tasks of the other call are not disturbed.
LEMMA WakeSteady ==
  ASSUME QueueInv, Running \/ Idle, NEW call, NEW n,
         NEW v, v = recv_waiters \/ v = send_waiters,
         CallInv(call, v, state, inside, pc, n),
         NEW w, w = recv_waiters \/ w = send_waiters,
         \A t \in Members(w) : pc[t] # call,
         NEW w2, WakeBest(w, w2)
  PROVE  Steady(call, v, pc, state', inside')
<1>f. /\ Members(v) \subseteq Handles /\ current \notin Members(v)
      /\ \A t \in Members(v) : state[t] = "BLOCKED" /\ inside[t] = "block_current"
  BY WaiterFacts
<1>1. \A t \in Members(v) : t \in Handles /\ t # current /\ t \notin Members(w)
  BY <1>f DEF CallInv
<1>2. \A t \in Awake(call, v, pc) : /\ t \in Handles /\ t \notin Members(w)
                                    /\ state[t] \in {"READY", "RUNNING"}
  BY DEF Awake, CallInv
<1>3. \A t \in Members(v) : state'[t] = "BLOCKED" /\ inside'[t] = "block_current"
  BY <1>1, <1>f, WakeTasks, Zenon
<1>4. \A t \in Awake(call, v, pc) : state'[t] \in {"READY", "RUNNING"}
  BY <1>2, WakeTasks, Zenon
<1> QED
  BY <1>3, <1>4 DEF Steady

\* The two lists, and the calls their members are inside of.
Paired(call, v, other, w) ==
  \/ call = "send" /\ v = send_waiters /\ other = "receive" /\ w = recv_waiters
  \/ call = "receive" /\ v = recv_waiters /\ other = "send" /\ w = send_waiters

\* send and receive with their loop ended, try_send and try_receive: the task
\* leaves its call, and wakes a task inside the other one.
LEMMA LeaveStep ==
  ASSUME QueueInv, Running, NEW call, NEW v, NEW other, NEW w,
         Paired(call, v, other, w), pc[current] \in {"out", call},
         NEW n \in Int, CallInv(call, v, state, inside, pc, n),
         NEW m \in Int, CallInv(other, w, state, inside, pc, m),
         NEW w2, WakeBest(w, w2),
         NEW p2, Moves(pc, p2, current, "out")
  PROVE  /\ CallInv(call, v, state', inside', p2, n - 1)
         /\ CallInv(other, w2, state', inside', p2, m + 1)
<1>p. /\ v = recv_waiters \/ v = send_waiters
      /\ w = recv_waiters \/ w = send_waiters
      /\ call # other /\ call # "out" /\ other # "out"
  BY DEF Paired
<1>c. current \in Handles /\ current \notin Members(v) /\ DOMAIN pc = Handles
  BY <1>p, WaiterFacts DEF QueueInv
<1>1. SameCalls(other, pc, p2)
  BY <1>c, <1>p DEF SameCalls, Moves
<1>2. CallInv(other, w2, state', inside', p2, m + 1)
  BY <1>1, <1>p, WakeKeeps
<1>3. \A t \in Members(w) : pc[t] # call
  BY <1>p DEF CallInv
<1>4. Steady(call, v, pc, state', inside')
  BY <1>3, <1>p, WakeSteady
<1>n. n - 1 \in Int /\ n - 1 <= n
  OBVIOUS
<1>5. CASE pc[current] = "out"
  <2>1. SameCalls(call, pc, p2)
    BY <1>5, <1>c, <1>p DEF SameCalls, Moves
  <2>2. CallInv(call, v, state', inside', p2, n - 1)
    BY <1>4, <1>n, <2>1, CallStays
  <2> QED
    BY <1>2, <2>2
<1>6. CASE pc[current] = call
  <2>1. current \in Awake(call, v, pc)
    BY <1>6, <1>c DEF Awake
  <2>2. CallInv(call, v, state', inside', p2, n - 1)
    BY <1>4, <1>p, <2>1, CallLeft
  <2> QED
    BY <1>2, <2>2
<1> QED
  BY <1>5, <1>6

\* try_send and try_receive by main: a task inside the other call is woken.
LEMMA MainStep ==
  ASSUME QueueInv, Idle, NEW call, NEW v, NEW other, NEW w,
         Paired(call, v, other, w),
         NEW n \in Int, CallInv(call, v, state, inside, pc, n),
         NEW m \in Int, CallInv(other, w, state, inside, pc, m),
         NEW w2, WakeBest(w, w2)
  PROVE  /\ CallInv(call, v, state', inside', pc, n - 1)
         /\ CallInv(other, w2, state', inside', pc, m + 1)
<1>p. /\ v = recv_waiters \/ v = send_waiters
      /\ w = recv_waiters \/ w = send_waiters
      /\ call # other
  BY DEF Paired
<1>1. SameCalls(other, pc, pc) /\ SameCalls(call, pc, pc)
  BY DEF SameCalls
<1>2. CallInv(other, w2, state', inside', pc, m + 1)
  BY <1>1, <1>p, WakeKeeps
<1>3. \A t \in Members(w) : pc[t] # call
  BY <1>p DEF CallInv
<1>4. Steady(call, v, pc, state', inside')
  BY <1>3, <1>p, WakeSteady
<1>n. n - 1 \in Int /\ n - 1 <= n
  OBVIOUS
<1>5. CallInv(call, v, state', inside', pc, n - 1)
  BY <1>1, <1>4, <1>n, CallStays
<1> QED
  BY <1>2, <1>5

\* send on a full and receive on an empty queue: the task enters the list.
LEMMA EnterStep ==
  ASSUME QueueInv, Running, NEW call, NEW v, NEW other, NEW w,
         Paired(call, v, other, w), pc[current] \in {"out", call},
         NEW n, CallInv(call, v, state, inside, pc, n),
         NEW m \in Int, CallInv(other, w, state, inside, pc, m),
         block_current,
         NEW p2, Moves(pc, p2, current, call)
  PROVE  /\ CallInv(call, Enqueued(v, current), state', inside', p2, 0)
         /\ CallInv(other, w, state', inside', p2, m)
<1>p. /\ v = recv_waiters \/ v = send_waiters
      /\ w = recv_waiters \/ w = send_waiters
      /\ call # other /\ call # "out" /\ other # "out"
  BY DEF Paired
<1>c. current \in Handles /\ current \notin Members(v) /\ DOMAIN pc = Handles
  BY <1>p, WaiterFacts DEF QueueInv
<1>d. /\ Members(w) \subseteq Handles /\ current \notin Members(w)
      /\ \A t \in Members(w) : state[t] = "BLOCKED" /\ inside[t] = "block_current"
  BY <1>p, WaiterFacts
<1>b. /\ Moves(state, state', current, "BLOCKED")
      /\ Moves(inside, inside', current, "block_current")
  BY <1>c DEF block_current, GiveUp, QueueInv, TypeOK, Moves
<1>1. CallInv(call, Enqueued(v, current), state', inside', p2, 0)
  BY <1>b, <1>c, CallEntered
<1>2. SameCalls(other, pc, p2)
  BY <1>c, <1>p DEF SameCalls, Moves
<1>3. Steady(other, w, pc, state', inside')
  <2>1. \A t \in Members(w) : state'[t] = "BLOCKED" /\ inside'[t] = "block_current"
    BY <1>b, <1>d DEF Moves
  <2>2. \A t \in Awake(other, w, pc) : /\ t \in Handles \ {current}
                                       /\ state[t] \in {"READY", "RUNNING"}
    BY <1>p DEF Awake, CallInv
  <2>3. \A t \in Awake(other, w, pc) : state'[t] \in {"READY", "RUNNING"}
    BY <1>b, <2>2 DEF Moves
  <2> QED
    BY <2>1, <2>3 DEF Steady
<1>m. m <= m
  OBVIOUS
<1>4. CallInv(other, w, state', inside', p2, m)
  BY <1>2, <1>3, <1>m, CallStays
<1> QED
  BY <1>1, <1>4

\* Everything else leaves the tasks inside the two calls as they have to be.
LEMMA OutsideStep ==
  ASSUME QueueDiscipline, QueueInv, OtherStep,
         NEW call, NEW v, NEW other, NEW w, Paired(call, v, other, w),
         NEW n \in Int, CallInv(call, v, state, inside, pc, n)
  PROVE  CallInv(call, v, state', inside', pc, n)
<1>p. (v = recv_waiters \/ v = send_waiters) /\ call # "out"
  BY DEF Paired
<1>d. /\ Members(v) \subseteq Created
      /\ \A t \in Members(v) : state[t] = "BLOCKED" /\ inside[t] = "block_current"
  BY <1>p, WaiterFacts
<1>t. TimerDiscipline
  BY DEF QueueDiscipline, ClientDiscipline
<1>k. KernelStep \/ (TaskCall /\ (Idle \/ At("out")))
  BY DEF OtherStep
<1>1. ASSUME NEW t \in Members(v)
      PROVE  state'[t] = "BLOCKED" /\ inside'[t] = "block_current"
  <2>0. t \in Created /\ state[t] = "BLOCKED" /\ inside[t] = "block_current"
    BY <1>1, <1>d
  <2>1. state'[t] \in {"BLOCKED", "DELETED"} /\ inside'[t] = "block_current"
    BY <1>k, <1>t, <2>0, BlockedStays DEF QueueInv
  <2>2. KernelStep \/ (TaskCall /\ t # current)
    BY <1>k, <2>0, CreatedFacts DEF Idle, At, QueueInv, RunningIsCurrent
  <2>3. state'[t] = state[t] \/ state'[t] \in {"READY", "RUNNING"}
    BY <2>0, <2>2, OthersStay DEF QueueInv
  <2> QED
    BY <2>0, <2>1, <2>3
<1>2. ASSUME NEW t \in Awake(call, v, pc)
      PROVE  state'[t] \in {"READY", "RUNNING"}
  <2>0. t \in Created /\ state[t] \in {"READY", "RUNNING"} /\ pc[t] # "out"
    BY <1>p DEF Awake, CallInv, QueueInv
  <2>2. KernelStep \/ (TaskCall /\ t # current)
    BY <1>k, <2>0, CreatedFacts DEF Idle, At, QueueInv
  <2>3. state'[t] = state[t] \/ state'[t] \in {"READY", "RUNNING"}
    BY <2>0, <2>2, OthersStay DEF QueueInv
  <2> QED
    BY <2>0, <2>3
<1>3. Steady(call, v, pc, state', inside')
  BY <1>1, <1>2 DEF Steady
<1>4. SameCalls(call, pc, pc) /\ n <= n
  BY DEF SameCalls
<1> QED
  BY <1>3, <1>4, CallStays

\* The parts of QueueInv that speak of the calls.
CallsInv ==
  /\ pc \in [Handles -> {"out", "send", "receive"}]
  /\ \A t \in Handles : pc[t] # "out" => t \in Created
  /\ CallInv("receive", recv_waiters, state, inside, pc, count)
  /\ CallInv("send", send_waiters, state, inside, pc, N - count)

LEMMA CallsStep ==
  ASSUME QueueDiscipline, QueueInv, [QueueNext]_allVars
  PROVE  CallsInv'
<1>n. N \in Nat \ {0} /\ count \in 0..N /\ N - count \in Int /\ count \in Int
  BY QueueAssumption DEF QueueInv, RingInv
<1>q. /\ pc \in [Handles -> {"out", "send", "receive"}]
      /\ \A t \in Handles : pc[t] # "out" => t \in Created
      /\ CallInv("receive", recv_waiters, state, inside, pc, count)
      /\ CallInv("send", send_waiters, state, inside, pc, N - count)
  BY DEF QueueInv
<1>g. Created \subseteq Created'
  BY QueueRefines, CreatedGrows DEF QueueInv
<1>c. Running => current \in Created /\ current \in Handles
  BY WaiterFacts
<1>w. /\ Paired("send", send_waiters, "receive", recv_waiters)
      /\ Paired("receive", recv_waiters, "send", send_waiters)
  BY DEF Paired
<1>p. ASSUME Running, NEW call \in {"out", "send", "receive"},
             pc' = [pc EXCEPT ![current] = call]
      PROVE  /\ pc' \in [Handles -> {"out", "send", "receive"}]
             /\ \A t \in Handles : pc'[t] # "out" => t \in Created'
             /\ Moves(pc, pc', current, call)
  BY <1>c, <1>g, <1>p, <1>q DEF Moves
<1>o. At("out") /\ pc' = pc => pc' = [pc EXCEPT ![current] = "out"]
  BY <1>c, <1>q DEF At
\* An item is stored.
<1>1. ASSUME \/ Idle /\ pc' = pc
             \/ At("out") /\ pc' = [pc EXCEPT ![current] = "out"]
             \/ At("send") /\ pc' = [pc EXCEPT ![current] = "out"],
             count' = count + 1,
             WakeBest(recv_waiters, recv_waiters'), send_waiters' = send_waiters
      PROVE  CallsInv'
  <2>2. /\ CallInv("send", send_waiters, state', inside', pc', N - count - 1)
        /\ CallInv("receive", recv_waiters', state', inside', pc', count + 1)
    <3>1. CASE Idle /\ pc' = pc
      BY <1>1, <1>n, <1>q, <1>w, <3>1, MainStep
    <3>2. CASE Running /\ pc[current] \in {"out", "send"} /\ Moves(pc, pc', current, "out")
      BY <1>1, <1>n, <1>q, <1>w, <3>2, LeaveStep
    <3> QED
      BY <1>1, <1>p, <3>1, <3>2 DEF At
  <2>3. N - count - 1 = N - (count + 1)
    BY <1>n
  <2>4. /\ CallInv("send", send_waiters', state', inside', pc', N - count')
        /\ CallInv("receive", recv_waiters', state', inside', pc', count')
    BY <1>1, <2>2, <2>3
  <2>5. /\ pc' \in [Handles -> {"out", "send", "receive"}]
        /\ \A t \in Handles : pc'[t] # "out" => t \in Created'
    BY <1>1, <1>g, <1>p, <1>q DEF At
  <2> QED
    BY <2>4, <2>5 DEF CallsInv
\* An item is fetched.
<1>2. ASSUME \/ Idle /\ pc' = pc
             \/ At("out") /\ pc' = [pc EXCEPT ![current] = "out"]
             \/ At("receive") /\ pc' = [pc EXCEPT ![current] = "out"],
             count' = count - 1,
             WakeBest(send_waiters, send_waiters'), recv_waiters' = recv_waiters
      PROVE  CallsInv'
  <2>2. /\ CallInv("receive", recv_waiters, state', inside', pc', count - 1)
        /\ CallInv("send", send_waiters', state', inside', pc', N - count + 1)
    <3>1. CASE Idle /\ pc' = pc
      BY <1>2, <1>n, <1>q, <1>w, <3>1, MainStep
    <3>2. CASE Running /\ pc[current] \in {"out", "receive"} /\ Moves(pc, pc', current, "out")
      BY <1>2, <1>n, <1>q, <1>w, <3>2, LeaveStep
    <3> QED
      BY <1>2, <1>p, <3>1, <3>2 DEF At
  <2>3. N - count + 1 = N - (count - 1)
    BY <1>n
  <2>4. /\ CallInv("send", send_waiters', state', inside', pc', N - count')
        /\ CallInv("receive", recv_waiters', state', inside', pc', count')
    BY <1>2, <2>2, <2>3
  <2>5. /\ pc' \in [Handles -> {"out", "send", "receive"}]
        /\ \A t \in Handles : pc'[t] # "out" => t \in Created'
    BY <1>2, <1>g, <1>p, <1>q DEF At
  <2> QED
    BY <2>4, <2>5 DEF CallsInv
\* A sender finds the queue full.
<1>3. ASSUME At("out") \/ At("send"), count = N, count' = count,
             send_waiters' = Enqueued(send_waiters, current),
             pc' = [pc EXCEPT ![current] = "send"],
             block_current, recv_waiters' = recv_waiters
      PROVE  CallsInv'
  <2>1. Running /\ pc[current] \in {"out", "send"}
    BY <1>3 DEF At
  <2>2. /\ CallInv("send", Enqueued(send_waiters, current), state', inside', pc', 0)
        /\ CallInv("receive", recv_waiters, state', inside', pc', count)
    BY <1>3, <1>n, <1>p, <1>q, <1>w, <2>1, EnterStep
  <2>3. N - count = 0
    BY <1>3, <1>n
  <2>4. /\ CallInv("send", send_waiters', state', inside', pc', N - count')
        /\ CallInv("receive", recv_waiters', state', inside', pc', count')
    BY <1>3, <2>2, <2>3
  <2>5. /\ pc' \in [Handles -> {"out", "send", "receive"}]
        /\ \A t \in Handles : pc'[t] # "out" => t \in Created'
    BY <1>3, <1>p, <2>1
  <2> QED
    BY <2>4, <2>5 DEF CallsInv
\* A receiver finds the queue empty.
<1>4. ASSUME At("out") \/ At("receive"), count = 0, count' = count,
             recv_waiters' = Enqueued(recv_waiters, current),
             pc' = [pc EXCEPT ![current] = "receive"],
             block_current, send_waiters' = send_waiters
      PROVE  CallsInv'
  <2>1. Running /\ pc[current] \in {"out", "receive"}
    BY <1>4 DEF At
  <2>2. /\ CallInv("receive", Enqueued(recv_waiters, current), state', inside', pc', 0)
        /\ CallInv("send", send_waiters, state', inside', pc', N - count)
    BY <1>4, <1>n, <1>p, <1>q, <1>w, <2>1, EnterStep
  <2>4. /\ CallInv("send", send_waiters', state', inside', pc', N - count')
        /\ CallInv("receive", recv_waiters', state', inside', pc', count')
    BY <1>4, <2>2
  <2>5. /\ pc' \in [Handles -> {"out", "send", "receive"}]
        /\ \A t \in Handles : pc'[t] # "out" => t \in Created'
    BY <1>4, <1>p, <2>1
  <2> QED
    BY <2>4, <2>5 DEF CallsInv
<1>5. ASSUME NEW x \in Items, send(x) PROVE CallsInv'
  BY <1>1, <1>3, <1>5 DEF send, Store
<1>6. ASSUME NEW x \in Items, try_send(x) PROVE CallsInv'
  BY <1>1, <1>6, <1>o DEF try_send, Store
<1>7. CASE receive
  BY <1>2, <1>4, <1>7 DEF receive, Fetch
<1>8. CASE try_receive
  BY <1>2, <1>8, <1>o DEF try_receive, Fetch
<1>9. CASE OtherStep
  <2>1. UNCHANGED <<count, recv_waiters, send_waiters, pc>>
    BY <1>9 DEF OtherStep, queueVars
  <2>2. CallInv("receive", recv_waiters, state', inside', pc, count)
    BY <1>9, <1>n, <1>q, <1>w, OutsideStep
  <2>3. CallInv("send", send_waiters, state', inside', pc, N - count)
    BY <1>9, <1>n, <1>q, <1>w, OutsideStep
  <2> QED
    BY <1>g, <1>q, <2>1, <2>2, <2>3 DEF CallsInv
<1>10. CASE UNCHANGED allVars
  BY <1>10, <1>g, <1>q DEF CallsInv, allVars, vars, queueVars
<1> QED
  BY <1>5, <1>6, <1>7, <1>8, <1>9, <1>10 DEF QueueNext

LEMMA QueueInvariant ==
  ASSUME QueueDiscipline
  PROVE  QueueSpec => []QueueInv
<1>1. QueueInit => QueueInv
  <2> SUFFICES ASSUME QueueInit PROVE QueueInv
    OBVIOUS
  <2>0. N \in Nat \ {0}
    BY QueueAssumption
  <2>1. TypeOK /\ RunningIsCurrent /\ TimerInv
    BY InitialInvariants DEF QueueInit
  <2>2. RingInv
    <3>1. (0 + 0) % N = 0 /\ 0 \in 0..(N - 1) /\ 0 \in 0..N
      BY <2>0
    <3> QED
      BY <3>1 DEF QueueInit, RingInv
  <2>3. \A t \in Created : priority[t] < NO_PRIORITY
    BY DEF QueueInit, Init, Created
  <2>4. /\ recv_waiters = <<>> /\ send_waiters = <<>>
        /\ pc = [t \in Handles |-> "out"]
    BY DEF QueueInit
  <2>5. \A call \in {"send", "receive"}, n \in Int :
          CallInv(call, <<>>, state, inside, pc, n)
    BY <2>4 DEF CallInv, Awake, Distinct, Members
  <2>6. N - count \in Int /\ count \in Int
    BY <2>0 DEF QueueInit
  <2> QED
    BY <2>1, <2>2, <2>3, <2>4, <2>5, <2>6 DEF QueueInv
<1>2. QueueInv /\ [QueueNext]_allVars => QueueInv'
  <2> SUFFICES ASSUME QueueInv, [QueueNext]_allVars PROVE QueueInv'
    OBVIOUS
  <2>1. [Next]_vars
    BY QueueRefines
  <2>2. TypeOK' /\ RunningIsCurrent' /\ TimerInv'
    BY <2>1, TypeStep, RunningStep, TimerStep
    DEF QueueInv, QueueDiscipline, ClientDiscipline
  <2>3. RingInv'
    BY FIFOStep DEF QueueInv
  <2>4. (\A t \in Created : priority[t] < NO_PRIORITY)'
    BY <2>1, PrioritiesStay DEF QueueInv
  <2>5. CallsInv'
    BY CallsStep
  <2> QED
    BY <2>2, <2>3, <2>4, <2>5 DEF QueueInv, CallsInv
<1> QED
  BY <1>1, <1>2, PTL DEF QueueSpec

\* For every capacity and every number of tasks that are neither suspended
\* nor deleted inside a call: send() and receive() wake a task for every item
\* and slot that a waiter could use, although a full list would drop a waiter
\* and another task may take what a woken one was woken for; so no task is
\* left waiting for what is there.
THEOREM WakeupsCorrect ==
  ASSUME QueueDiscipline
  PROVE  QueueSpec => []NoLostWakeup
<1>1. QueueInv => NoLostWakeup
  <2> SUFFICES ASSUME QueueInv PROVE NoLostWakeup
    OBVIOUS
  <2>n. N \in Nat \ {0} /\ count \in 0..N
    BY QueueAssumption DEF QueueInv, RingInv
  <2>1. /\ UnderWay("receive", recv_waiters) = Awake("receive", recv_waiters, pc)
        /\ UnderWay("send", send_waiters) = Awake("send", send_waiters, pc)
    BY DEF UnderWay, Awake, QueueInv, CallInv
  <2>2. /\ recv_waiters # <<>> =>
             count <= Cardinality(UnderWay("receive", recv_waiters))
        /\ send_waiters # <<>> =>
             N - count <= Cardinality(UnderWay("send", send_waiters))
    BY <2>1 DEF QueueInv, CallInv
  <2>3. ASSUME Idle, Selectable(state) = {},
               NEW call, NEW w, NEW n \in Int, n > 0, call # "out",
               CallInv(call, w, state, inside, pc, n)
        PROVE  \A t \in Handles : pc[t] # call
    <3>1. Awake(call, w, pc) = {}
      <4> SUFFICES ASSUME NEW t \in Awake(call, w, pc) PROVE FALSE
        OBVIOUS
      <4>1. t \in Created /\ state[t] \in {"READY", "RUNNING"}
        BY <2>3 DEF Awake, CallInv, QueueInv
      <4>2. state[t] # "RUNNING"
        BY <2>3, <4>1 DEF Idle, Running, QueueInv, RunningIsCurrent
      <4> QED
        BY <2>3, <4>1, <4>2 DEF Selectable, QueueInv
    <3>2. Cardinality(Awake(call, w, pc)) = 0
      BY <3>1, FS_EmptySet
    <3>3. w = <<>>
      BY <2>3, <3>2 DEF CallInv
    <3>4. Members(w) = {}
      BY <3>3 DEF Members
    <3> QED
      BY <3>1, <3>4 DEF Awake
  <2>4. ASSUME Idle, Selectable(state) = {}
        PROVE  /\ count > 0 => \A t \in Handles : pc[t] # "receive"
               /\ count < N => \A t \in Handles : pc[t] # "send"
    <3>1. /\ CallInv("receive", recv_waiters, state, inside, pc, count)
          /\ CallInv("send", send_waiters, state, inside, pc, N - count)
      BY DEF QueueInv
    <3>2. count \in Int /\ N - count \in Int /\ (count < N => N - count > 0)
      BY <2>n
    <3> QED
      BY <2>3, <2>4, <3>1, <3>2
  <2> QED
    BY <2>2, <2>4 DEF NoLostWakeup
<1> QED
  BY <1>1, QueueInvariant, PTL

\* The queue and its clients implement the kernel's specification.
THEOREM QueueImplementsScheduler ==
  ASSUME QueueDiscipline
  PROVE  QueueSpec => Spec
<1>1. QueueInit => Init
  BY DEF QueueInit
<1> QED
  BY <1>1, QueueInvariant, QueueRefines, PTL DEF QueueSpec, Spec
=============================================================================
