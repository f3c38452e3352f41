-------------------------------- MODULE Queue --------------------------------
(***************************************************************************)
(* rtos/queue.h: a ring buffer of N items with two wait lists, used by     *)
(* tasks that run on the kernel of module Scheduler.                       *)
(*                                                                         *)
(* send() and receive() wait in a loop: a task that is woken tests the     *)
(* buffer again, because another task may have come first, and enters the  *)
(* wait list again if it lost.  pc[t] is the call t is inside of.  Main    *)
(* uses the calls that do not block.                                       *)
(***************************************************************************)
EXTENDS WaitList, FiniteSets

CONSTANTS
  N,        \* the template parameter
  Items,    \* the values of T
  NoItem    \* a default-constructed T

ASSUME QueueAssumption == N \in Nat \ {0} /\ NoItem \notin Items

VARIABLES
  buf, head, tail, count,        \* the ring buffer
  recv_waiters, send_waiters,
  pc,     \* "send", "receive", or "out" for a task outside both
  arg,    \* the item a task inside send() wants to send
  got     \* history: the item that was received last

queueVars == <<buf, head, tail, count, recv_waiters, send_waiters, pc, arg, got>>
allVars   == <<vars, queueVars>>

QueueInit ==
  /\ Init
  /\ buf = [k \in 0..(N - 1) |-> NoItem]
  /\ head = 0 /\ tail = 0 /\ count = 0
  /\ recv_waiters = <<>> /\ send_waiters = <<>>
  /\ pc = [t \in Handles |-> "out"]
  /\ arg = [t \in Handles |-> NoItem]
  /\ got = NoItem

At(place) == Running /\ pc[current] = place

-----------------------------------------------------------------------------
(* wake_receiver and wake_sender: the effect on the kernel and on one list.*)

\* Mutant: the waiter leaves the list but is not unblocked.
WakeQuietly(w, w_next) ==
  /\ \/ w = <<>> /\ w_next = w
     \/ \E i \in DOMAIN w : IsBest(w, i) /\ w_next = SwapRemove(w, i)
  /\ UNCHANGED vars

WakeBest(w, w_next) ==
  \/ w = <<>> /\ w_next = w /\ UNCHANGED vars
  \/ \E i \in DOMAIN w :
       /\ IsBest(w, i)
       /\ w_next = SwapRemove(w, i)
       /\ unblock(w[i])

\* Mutant: the tail does not wrap with the head.
StoreShifted(x) ==
  /\ buf' = [buf EXCEPT ![tail] = x]
  /\ tail' = IF tail = N - 1 THEN 1 % N ELSE tail + 1
  /\ count' = count + 1
  /\ UNCHANGED head

Store(x) ==
  /\ buf' = [buf EXCEPT ![tail] = x]
  /\ tail' = (tail + 1) % N
  /\ count' = count + 1
  /\ UNCHANGED head

\* The item at head_ goes to the running task.
Fetch ==
  /\ got' = buf[head]
  /\ head' = (head + 1) % N
  /\ count' = count - 1
  /\ UNCHANGED <<buf, tail>>

\* One pass of the loop of send(x), and the rest of send when it ends.
send(x) ==
  /\ At("out") \/ (At("send") /\ arg[current] = x)
  /\ \/ /\ count = N
        /\ send_waiters' = Enqueued(send_waiters, current)
        /\ pc' = [pc EXCEPT ![current] = "send"]
        /\ arg' = [arg EXCEPT ![current] = x]
        /\ block_current
        /\ UNCHANGED <<buf, head, tail, count, recv_waiters, got>>
     \/ /\ count # N
        /\ Store(x)
        /\ pc' = [pc EXCEPT ![current] = "out"]
        /\ arg' = [arg EXCEPT ![current] = NoItem]
        /\ WakeBest(recv_waiters, recv_waiters')
        /\ UNCHANGED <<send_waiters, got>>

\* One pass of the loop of receive(), and the rest of it when it ends.
receive ==
  /\ At("out") \/ At("receive")
  /\ \/ /\ count = 0
        /\ recv_waiters' = Enqueued(recv_waiters, current)
        /\ pc' = [pc EXCEPT ![current] = "receive"]
        /\ block_current
        /\ UNCHANGED <<buf, head, tail, count, send_waiters, got>>
     \/ /\ count # 0
        /\ Fetch
        /\ pc' = [pc EXCEPT ![current] = "out"]
        /\ WakeBest(send_waiters, send_waiters')
        /\ UNCHANGED recv_waiters
  /\ UNCHANGED arg

\* On a full queue try_send returns false, which changes nothing.
try_send(x) ==
  /\ Idle \/ At("out")
  /\ count # N
  /\ Store(x)
  /\ WakeBest(recv_waiters, recv_waiters')
  /\ UNCHANGED <<send_waiters, pc, arg, got>>

\* On an empty queue try_receive returns false, which changes nothing.
try_receive ==
  /\ Idle \/ At("out")
  /\ count # 0
  /\ Fetch
  /\ WakeBest(send_waiters, send_waiters')
  /\ UNCHANGED <<recv_waiters, pc, arg>>

OtherStep ==
  /\ KernelStep \/ (TaskCall /\ (Idle \/ At("out")))
  /\ UNCHANGED queueVars

QueueNext ==
  \/ \E x \in Items : send(x) \/ try_send(x)
  \/ receive
  \/ try_receive
  \/ OtherStep

QueueSpec == QueueInit /\ [][QueueNext]_allVars

-----------------------------------------------------------------------------
(* Properties.                                                             *)

\* What the ring buffer holds, oldest first.
Contents == [k \in 1..count |-> buf[(head + k - 1) % N]]

FIFO == INSTANCE BoundedFIFO
          WITH Capacity <- N, fifo <- Contents

\* The ring buffer with its blocking calls is a bounded FIFO: however senders
\* and receivers block, preempt and overtake each other, items are received
\* in the order in which they were stored, each once, and never more than N
\* are held.
IsFIFO == FIFO!FIFOSpec

\* Tasks that were woken inside a call and have not yet tested the buffer.
UnderWay(call, w) ==
  {t \in Handles : /\ pc[t] = call
                   /\ t \notin Members(w)
                   /\ state[t] \in {"READY", "RUNNING"}}

\* No wake-up is lost: while a receiver waits, a woken receiver is under way
\* for every item in the buffer, and the same for senders and free slots; and
\* when the scheduler returns to main, no task is left in a call, listed or
\* not, for which an item or a free slot is there.
NoLostWakeup ==
  /\ recv_waiters # <<>> =>
       count <= Cardinality(UnderWay("receive", recv_waiters))
  /\ send_waiters # <<>> =>
       N - count <= Cardinality(UnderWay("send", send_waiters))
  /\ Idle /\ Selectable(state) = {} =>
       /\ count > 0 => \A t \in Handles : pc[t] # "receive"
       /\ count < N => \A t \in Handles : pc[t] # "send"
=============================================================================
