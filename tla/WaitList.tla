------------------------------ MODULE WaitList ------------------------------
(***************************************************************************)
(* The wait list that Mutex, Semaphore and Queue each implement with the   *)
(* members waiters_ and wait_count_ and the same three fragments of code:  *)
(* enqueue at the end if there is room, find the best waiter, and remove   *)
(* it by moving the last entry into its place.                             *)
(* A list is the sequence waiters_[0], ..., waiters_[wait_count_ - 1].     *)
(***************************************************************************)
EXTENDS Scheduler, Sequences

get_priority(t) == IF t \in Created THEN priority[t] ELSE NO_PRIORITY

\* A full list drops the waiter, which then blocks unrecorded.
Enqueued(w, me) == IF Len(w) < MAX_TASKS THEN Append(w, me) ELSE w

\* The scan for the smallest priority, which keeps the first of equals,
\* ends with best_idx at position i.
IsBest(w, i) ==
  /\ i \in DOMAIN w
  /\ \A j \in DOMAIN w :
       \/ get_priority(w[i]) < get_priority(w[j])
       \/ get_priority(w[i]) = get_priority(w[j]) /\ i <= j

\* Mutant: the last entry is dropped whoever was woken.
DropLast(w, i) == [k \in 1..(Len(w) - 1) |-> w[k]]

\* waiters_[best_idx] = waiters_[--wait_count_]
SwapRemove(w, i) ==
  [k \in 1..(Len(w) - 1) |-> IF k = i THEN w[Len(w)] ELSE w[k]]

Members(w) == {w[k] : k \in DOMAIN w}
=============================================================================
