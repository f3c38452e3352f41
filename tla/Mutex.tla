-------------------------------- MODULE Mutex --------------------------------
(***************************************************************************)
(* rtos/mutex.h, used by tasks that run on the kernel of module Scheduler. *)
(*                                                                         *)
(* lock() blocks inside the kernel and returns when the kernel switches    *)
(* back to the task; unlock() hands the mutex to the best waiter before it *)
(* wakes it, and the wake-up may switch to the waiter at once.  pc[t] is   *)
(* where task t is: "out" of the mutex, inside "lock", or in the critical  *)
(* section, "cs".                                                          *)
(*                                                                         *)
(* A client locks only outside and unlocks only inside its critical        *)
(* section (Mutex::Guard); in between it makes any call of the kernel that *)
(* Calls allows.                                                           *)
(***************************************************************************)
EXTENDS WaitList

VARIABLES
  owner,     \* owner_
  waiters,   \* waiters_[0 .. wait_count_ - 1]
  pc         \* the position of every task

mutexVars == <<owner, waiters, pc>>
allVars   == <<vars, mutexVars>>

MutexInit ==
  /\ Init
  /\ owner = INVALID_TASK
  /\ waiters = <<>>
  /\ pc = [t \in Handles |-> "out"]

At(place) == Running /\ pc[current] = place

\* Mutant: a locked mutex is taken over instead of waited for.
LockUnchecked ==
  /\ At("out")
  /\ owner' = current
  /\ pc' = [pc EXCEPT ![current] = "cs"]
  /\ UNCHANGED <<vars, waiters>>

lock ==
  /\ At("out")
  /\ \/ /\ owner = INVALID_TASK
        /\ owner' = current
        /\ pc' = [pc EXCEPT ![current] = "cs"]
        /\ UNCHANGED <<vars, waiters>>
     \/ /\ owner # INVALID_TASK
        /\ waiters' = Enqueued(waiters, current)
        /\ pc' = [pc EXCEPT ![current] = "lock"]
        /\ block_current
        /\ UNCHANGED owner

\* The kernel has switched back to a task that waited in lock().
LockReturns ==
  /\ At("lock")
  /\ pc' = [pc EXCEPT ![current] = "cs"]
  /\ UNCHANGED <<vars, owner, waiters>>

\* Mutant: the mutex is released before the waiter is woken, as if lock()
\* tested it again.
UnlockReleases ==
  /\ At("cs")
  /\ pc' = [pc EXCEPT ![current] = "out"]
  /\ owner' = INVALID_TASK
  /\ \/ waiters = <<>> /\ UNCHANGED <<vars, waiters>>
     \/ \E i \in DOMAIN waiters :
          /\ IsBest(waiters, i)
          /\ waiters' = SwapRemove(waiters, i)
          /\ unblock(waiters[i])

\* Mutant: the new owner is not woken.
UnlockQuietly ==
  /\ At("cs")
  /\ pc' = [pc EXCEPT ![current] = "out"]
  /\ \/ /\ waiters = <<>>
        /\ owner' = INVALID_TASK
        /\ UNCHANGED <<vars, waiters>>
     \/ \E i \in DOMAIN waiters :
          /\ IsBest(waiters, i)
          /\ owner' = waiters[i]
          /\ waiters' = SwapRemove(waiters, i)
          /\ UNCHANGED vars

unlock ==
  /\ At("cs")
  /\ pc' = [pc EXCEPT ![current] = "out"]
  /\ \/ /\ waiters = <<>>
        /\ owner' = INVALID_TASK
        /\ UNCHANGED <<vars, waiters>>
     \/ \E i \in DOMAIN waiters :
          /\ IsBest(waiters, i)
          /\ owner' = waiters[i]
          /\ waiters' = SwapRemove(waiters, i)
          /\ unblock(waiters[i])

\* A locked mutex makes try_lock return false, which changes nothing.
try_lock ==
  /\ At("out")
  /\ owner = INVALID_TASK
  /\ owner' = current
  /\ pc' = [pc EXCEPT ![current] = "cs"]
  /\ UNCHANGED <<vars, waiters>>

-----------------------------------------------------------------------------
(* A step of the kernel, or a call to it from outside the mutex's code.    *)

OtherStep ==
  /\ KernelStep \/ (TaskCall /\ ~At("lock"))
  /\ UNCHANGED mutexVars

MutexNext == lock \/ LockReturns \/ unlock \/ try_lock \/ OtherStep

MutexSpec == MutexInit /\ [][MutexNext]_allVars

\* As in Scheduler, and lock() returns to its caller.
FairMutexSpec ==
  /\ MutexSpec
  /\ WF_allVars(KernelStep /\ UNCHANGED mutexVars)
  /\ WF_allVars(Relinquish /\ ~At("lock") /\ UNCHANGED mutexVars)
  /\ WF_allVars(vTaskStartScheduler /\ UNCHANGED mutexVars)
  /\ WF_allVars(LockReturns)

-----------------------------------------------------------------------------
(* Properties.                                                             *)

\* Every variable keeps its type.
MutexTypeOK ==
  /\ owner \in Handles \cup {INVALID_TASK}
  /\ waiters \in Seq(Handles)
  /\ pc \in [Handles -> {"out", "lock", "cs"}]

\* "Returns here owning the mutex (set by unlock())": a task in its critical
\* section owns the mutex, so that no two tasks are in one.
MutualExclusion == \A t \in Handles : pc[t] = "cs" => owner = t

\* No waiter is lost, and none gets away: a task in lock() that does not own
\* the mutex cannot run and is in the list, once, and while the list is not
\* empty there is somebody to unlock.  It is the inductive invariant too.
WaiterInv ==
  /\ \A t \in Handles :
       pc[t] = "lock" /\ owner # t =>
         state[t] \in {"BLOCKED", "DELETED"} /\ inside[t] = "block_current"
  /\ \A t \in Handles : pc[t] = "lock" /\ owner # t => t \in Members(waiters)
  /\ \A t \in Handles : pc[t] # "out" => t \in Created
  /\ owner # INVALID_TASK => pc[owner] # "out"
  /\ \A k \in DOMAIN waiters :
       /\ pc[waiters[k]] = "lock"
       /\ waiters[k] # owner
       /\ \A m \in DOMAIN waiters : m # k => waiters[m] # waiters[k]
  /\ waiters # <<>> => owner # INVALID_TASK

\* "Priority-order wake-up: highest-priority waiter gets the mutex first":
\* from the time a task has entered lock() until the mutex is its own, nobody
\* of a worse priority becomes the owner, whether by lock, try_lock or the
\* unlock of another, and whatever happened to the list in between.
ServedByPriority ==
  [][\A t \in Handles :
       pc[t] = "lock" /\ owner # t /\ owner' \notin {owner, t, INVALID_TASK}
         => priority[owner'] <= priority[t]]_allVars

\* A task that was handed the mutex gets to its critical section, unless it
\* is deleted or suspended first: the others block on the mutex or sleep.
OwnerProceeds ==
  \A t \in Handles :
    (pc[t] = "lock" /\ owner = t) ~>
      (pc[t] = "cs" \/ state[t] \in {"DELETED", "SUSPENDED"})
=============================================================================
