------------------------------ MODULE Semaphore ------------------------------
(***************************************************************************)
(* rtos/semaphore.h, used by tasks that run on the kernel of module        *)
(* Scheduler, and by main, which may give before it starts the scheduler   *)
(* and after the scheduler has returned.                                   *)
(*                                                                         *)
(* give() with a waiter does not touch count_: the token goes straight to  *)
(* the waiter it wakes, which returns from take() without looking at       *)
(* count_ again.  pc[t] = "take" while t is inside take().                 *)
(*                                                                         *)
(* given and taken are history variables: the tokens that entered the      *)
(* semaphore and the calls of take and try_take that obtained one.         *)
(***************************************************************************)
EXTENDS WaitList, FiniteSets

CONSTANTS
  initial_count, max_count,   \* the arguments of the constructor
  MaxGives                    \* bound on the tokens that are given

ASSUME SemaphoreAssumption ==
  /\ initial_count \in Nat /\ max_count \in Nat
  /\ initial_count <= max_count
  /\ MaxGives \in Nat

VARIABLES
  count,     \* count_
  waiters,   \* waiters_[0 .. wait_count_ - 1]
  pc,        \* "take" for a task inside take(), "out" for the others
  given, taken

semVars == <<count, waiters, pc, given, taken>>
allVars == <<vars, semVars>>

SemInit ==
  /\ Init
  /\ count = initial_count
  /\ waiters = <<>>
  /\ pc = [t \in Handles |-> "out"]
  /\ given = 0
  /\ taken = 0

At(place) == Running /\ pc[current] = place

take ==
  /\ At("out")
  /\ \/ /\ count > 0
        /\ count' = count - 1
        /\ taken' = taken + 1
        /\ UNCHANGED <<vars, waiters, pc>>
     \/ /\ count <= 0
        /\ waiters' = Enqueued(waiters, current)
        /\ pc' = [pc EXCEPT ![current] = "take"]
        /\ block_current
        /\ UNCHANGED <<count, taken>>
  /\ UNCHANGED given

\* The kernel has switched back to a task that waited in take().
TakeReturns ==
  /\ At("take")
  /\ pc' = [pc EXCEPT ![current] = "out"]
  /\ taken' = taken + 1
  /\ UNCHANGED <<vars, count, waiters, given>>

\* Mutant: the count is incremented for a waiter, too.
GiveTwice ==
  /\ Idle \/ At("out")
  /\ given < MaxGives
  /\ given' = given + 1
  /\ count' = count + 1
  /\ \/ waiters = <<>> /\ UNCHANGED <<vars, waiters>>
     \/ \E i \in DOMAIN waiters :
          /\ IsBest(waiters, i)
          /\ waiters' = SwapRemove(waiters, i)
          /\ unblock(waiters[i])
  /\ UNCHANGED <<pc, taken>>

\* A give at max_count without a waiter changes nothing.
give ==
  /\ Idle \/ At("out")
  /\ given < MaxGives
  /\ given' = given + 1
  /\ \/ \E i \in DOMAIN waiters :
          /\ IsBest(waiters, i)
          /\ waiters' = SwapRemove(waiters, i)
          /\ unblock(waiters[i])
          /\ UNCHANGED count
     \/ /\ waiters = <<>>
        /\ count < max_count
        /\ count' = count + 1
        /\ UNCHANGED <<vars, waiters>>
  /\ UNCHANGED <<pc, taken>>

\* try_take at zero returns false, which changes nothing.
try_take ==
  /\ Idle \/ At("out")
  /\ count > 0
  /\ count' = count - 1
  /\ taken' = taken + 1
  /\ UNCHANGED <<vars, waiters, pc, given>>

OtherStep ==
  /\ KernelStep \/ (TaskCall /\ ~At("take"))
  /\ UNCHANGED semVars

SemNext == take \/ TakeReturns \/ give \/ try_take \/ OtherStep

SemSpec == SemInit /\ [][SemNext]_allVars

-----------------------------------------------------------------------------
(* Properties.                                                             *)

\* Every variable keeps its type; the count never exceeds max_count.
SemTypeOK ==
  /\ count \in 0..max_count
  /\ waiters \in Seq(Handles)
  /\ pc \in [Handles -> {"out", "take"}]
  /\ given \in 0..MaxGives
  /\ taken \in 0..(initial_count + MaxGives)

\* Tasks that a give() has chosen and that have not yet returned from take().
Handed == {t \in Handles : pc[t] = "take" /\ t \notin Members(waiters)}

\* "Returns here after give() decremented count for us": every token is in
\* the count, on its way to a chosen waiter, or was taken, and no call of
\* take returns without one.
TokensConserved ==
  count + Cardinality(Handed) + taken = initial_count + given

\* A task that waits in take() and was not chosen cannot run, and waits once;
\* and no task waits while a token is available.
TakerInv ==
  /\ SemTypeOK
  /\ waiters # <<>> => count = 0
  /\ \A t \in Members(waiters) :
       /\ pc[t] = "take"
       /\ state[t] \in {"BLOCKED", "DELETED"} /\ inside[t] = "block_current"
  /\ \A k, m \in DOMAIN waiters : waiters[k] = waiters[m] => k = m
  /\ \A t \in Handles : pc[t] # "out" => t \in Created
=============================================================================
