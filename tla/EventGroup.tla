------------------------------ MODULE EventGroup ------------------------------
(***************************************************************************)
(* rtos/event_group.h: event bits that tasks of the kernel of module       *)
(* Scheduler wait for.                                                     *)
(*                                                                         *)
(* set_bits() ends with check_waiters(), a loop over waiters_ that         *)
(* unblocks each satisfied waiter and then fills its place with the last   *)
(* entry.  The kernel may switch to the unblocked task before the place is *)
(* filled, and that task may enter check_waiters() or wait_bits() itself:  *)
(* the loop is therefore modelled iteration by iteration, and each task    *)
(* has its own loop index i[t].  Main, which sets and clears bits but does *)
(* not wait, is the caller INVALID_TASK.                                   *)
(*                                                                         *)
(* pc[t] is "out", inside the loop of check_waiters ("check", or           *)
(* "compact" between the unblock and the assignment after it), or inside   *)
(* the loop of wait_bits ("wait").                                         *)
(***************************************************************************)
EXTENDS Scheduler

CONSTANTS
  Bits,          \* the bits of the group
  ClearModes     \* values of the argument clear_on_exit of wait_bits

ASSUME EventGroupAssumption == ClearModes \subseteq BOOLEAN

VARIABLES
  bits,        \* bits_, as the set of its bits
  waiters,     \* the array waiters_
  wait_count,  \* wait_count_
  pc, i,       \* position of each caller; 0 once the loop variable is gone
  want         \* what a task inside wait_bits waits for

groupVars == <<bits, waiters, wait_count, pc, i, want>>
allVars   == <<vars, groupVars>>

\* The tasks, and main.
Callers == Handles \cup {INVALID_TASK}

\* The arguments of wait_bits.
Conditions ==
  [wait_bits : SUBSET Bits, all : BOOLEAN, clear_on_exit : BOOLEAN]
Nothing     == [wait_bits |-> {}, all |-> FALSE, clear_on_exit |-> FALSE]
Entry(t, c) == [task |-> t, cond |-> c]

\* What reading waiters_[k] may give: anything past the end of the array.
WaitersAt(k) ==
  IF k \in Handles THEN {waiters[k]}
  ELSE [task : Handles \cup {INVALID_TASK}, cond : Conditions]

GroupInit ==
  /\ Init
  /\ bits = {}
  /\ waiters = [k \in Handles |-> Entry(0, Nothing)]
  /\ wait_count = 0
  /\ pc = [t \in Callers |-> "out"]
  /\ i = [t \in Callers |-> 0]
  /\ want = [t \in Handles |-> Nothing]

At(place) == ~switching /\ pc[current] = place

satisfied(c) ==
  IF c.all THEN c.wait_bits \subseteq bits ELSE c.wait_bits \cap bits # {}

\* bits_ |= b, and the call of check_waiters.
set_bits(b) ==
  /\ At("out")
  /\ bits' = bits \cup b
  /\ pc' = [pc EXCEPT ![current] = "check"]
  /\ i' = [i EXCEPT ![current] = 0]
  /\ UNCHANGED <<vars, waiters, wait_count, want>>

clear_bits(b) ==
  /\ At("out")
  /\ bits' = bits \ b
  /\ UNCHANGED <<vars, waiters, wait_count, pc, i, want>>

\* Mutant: the loop ends after the first waiter that is not satisfied.
CheckFirst ==
  /\ At("check")
  /\ \E w \in WaitersAt(i[current]) :
       \/ /\ i[current] < wait_count /\ satisfied(w.cond)
          /\ pc' = [pc EXCEPT ![current] = "compact"]
          /\ unblock(w.task)
       \/ /\ ~(i[current] < wait_count /\ satisfied(w.cond))
          /\ pc' = [pc EXCEPT ![current] = "out"]
          /\ UNCHANGED vars
  /\ UNCHANGED <<bits, waiters, wait_count, i, want>>

\* One iteration of the loop, up to the unblock; the loop variable is compared
\* with the wait_count_ of the moment.
check_waiters ==
  /\ At("check")
  /\ \/ \E w \in WaitersAt(i[current]) :
          /\ i[current] < wait_count
          /\ \/ /\ satisfied(w.cond)
                /\ pc' = [pc EXCEPT ![current] = "compact"]
                /\ unblock(w.task)
                /\ UNCHANGED i
             \/ /\ ~satisfied(w.cond)
                /\ i' = [i EXCEPT ![current] = @ + 1]
                /\ UNCHANGED <<vars, pc>>
     \/ /\ i[current] >= wait_count
        /\ pc' = [pc EXCEPT ![current] = "out"]
        /\ i' = [i EXCEPT ![current] = 0]
        /\ UNCHANGED vars
  /\ UNCHANGED <<bits, waiters, wait_count, want>>

\* waiters_[i] = waiters_[--wait_count_].  wait_count_ is a uint8_t: it wraps
\* when another task has emptied the list since the loop's test.
Compact ==
  /\ At("compact")
  /\ wait_count' = (wait_count + 255) % 256
  /\ \E w \in WaitersAt(wait_count') :
       waiters' = [waiters EXCEPT ![i[current]] = w]
  /\ pc' = [pc EXCEPT ![current] = "check"]
  /\ UNCHANGED <<vars, bits, i, want>>

\* Mutant: a woken task does not enter the list again.
WaitRegistersOnce(c) ==
  /\ Running
  /\ At("out") \/ (At("wait") /\ want[current] = c)
  /\ \/ /\ ~satisfied(c)
        /\ \/ /\ At("out")
              /\ waiters' = [waiters EXCEPT ![wait_count] = Entry(current, c)]
              /\ wait_count' = wait_count + 1
           \/ At("wait") /\ UNCHANGED <<waiters, wait_count>>
        /\ pc' = [pc EXCEPT ![current] = "wait"]
        /\ want' = [want EXCEPT ![current] = c]
        /\ block_current
        /\ UNCHANGED bits
     \/ /\ satisfied(c)
        /\ bits' = IF c.clear_on_exit THEN bits \ c.wait_bits ELSE bits
        /\ pc' = [pc EXCEPT ![current] = "out"]
        /\ want' = [want EXCEPT ![current] = Nothing]
        /\ UNCHANGED <<vars, waiters, wait_count>>
  /\ UNCHANGED i

\* One pass of the loop of wait_bits, and the rest of it when it ends.
wait_bits(c) ==
  /\ Running
  /\ At("out") \/ (At("wait") /\ want[current] = c)
  /\ \/ /\ ~satisfied(c)
        /\ \/ /\ wait_count < MAX_TASKS
              /\ waiters' = [waiters EXCEPT ![wait_count] = Entry(current, c)]
              /\ wait_count' = wait_count + 1
           \/ wait_count >= MAX_TASKS /\ UNCHANGED <<waiters, wait_count>>
        /\ pc' = [pc EXCEPT ![current] = "wait"]
        /\ want' = [want EXCEPT ![current] = c]
        /\ block_current
        /\ UNCHANGED bits
     \/ /\ satisfied(c)
        /\ bits' = IF c.clear_on_exit THEN bits \ c.wait_bits ELSE bits
        /\ pc' = [pc EXCEPT ![current] = "out"]
        /\ want' = [want EXCEPT ![current] = Nothing]
        /\ UNCHANGED <<vars, waiters, wait_count>>
  /\ UNCHANGED i

OtherStep ==
  /\ KernelStep \/ (TaskCall /\ At("out"))
  /\ UNCHANGED groupVars

NonEmpty == SUBSET Bits \ {{}}
Requests == [wait_bits : NonEmpty, all : BOOLEAN, clear_on_exit : ClearModes]

GroupNext ==
  \/ \E b \in NonEmpty : set_bits(b) \/ clear_bits(b)
  \/ check_waiters
  \/ Compact
  \/ \E c \in Requests : wait_bits(c)
  \/ OtherStep

GroupSpec == GroupInit /\ [][GroupNext]_allVars

-----------------------------------------------------------------------------
(* Properties.                                                             *)

\* Nobody is inside check_waiters.
Quiet == \A t \in Callers : pc[t] \notin {"check", "compact"}

\* "sets bits, wakes satisfied waiters": whenever no set_bits is under way,
\* no task is blocked in wait_bits although its condition holds.
SatisfiedAreAwake ==
  Quiet => \A t \in Handles :
             pc[t] = "wait" /\ state[t] = "BLOCKED" => ~satisfied(want[t])

\* wait_count_ stays within the array, and a task that is blocked in wait_bits
\* is in the list once, with the condition it waits for, so that the next
\* set_bits finds it.
WaitersAreListed ==
  /\ wait_count <= MAX_TASKS
  /\ Quiet => \A t \in Handles :
                pc[t] = "wait" /\ state[t] = "BLOCKED" =>
                  /\ \E k \in 0..(wait_count - 1) : waiters[k] = Entry(t, want[t])
                  /\ \A k, m \in 0..(wait_count - 1) :
                       waiters[k].task = t /\ waiters[m].task = t => k = m
=============================================================================
