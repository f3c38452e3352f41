----------------------------- MODULE ParallelSim -----------------------------
(***************************************************************************)
(* src/parallel_sim.h: SimulationRunner::run starts one jthread per task;  *)
(* each runs a CPU of its own, writes to its own slot of the vector        *)
(* results, which is a local of run, and pushes records to the             *)
(* TraceCollector, which a consumer may drain at any time.                 *)
(*                                                                         *)
(* The locals of run are destroyed in reverse order of declaration: first  *)
(* the threads, which joins them, then results.  That holds for a normal   *)
(* return, where results is the returned object itself (the compilers      *)
(* elide the copy), and when starting a thread throws.                     *)
(*                                                                         *)
(* A program executes `length' instructions and then one that halts the    *)
(* CPU or throws.  Loading one that does not fit into the memory throws,   *)
(* whatever the number of steps it was given, 0 included.                  *)
(***************************************************************************)
EXTENDS Naturals, Sequences

CONSTANTS
  N,          \* the number of tasks
  TaskLists,  \* the vectors of that many SimTask that run() may be given
  Batch       \* instructions between two checkpoints (10'000 in the code)

TaskType ==
  [max_steps : Nat, checkpoint : BOOLEAN, fits : BOOLEAN, length : Nat,
   ends : {"halt", "throw"}]

Sims == 1..N

ASSUME ParallelSimAssumption ==
  /\ N \in Nat
  /\ TaskLists \subseteq [Sims -> TaskType]
  /\ Batch \in Nat \ {0}

VARIABLES
  tasks,      \* the argument of run()
  main,       \* where run() is
  started,    \* threads started
  joined,     \* threads joined
  results,    \* the vector results, [cycles, completed, exception] per task
  pc,         \* where each thread is in run_one
  remaining,  \* its local variable
  cycles,     \* cpu.cycle_count()
  event,      \* the event it is pushing
  m_log,      \* TraceCollector::m_log
  m_mtx,      \* the thread that holds TraceCollector::m_mtx, 0 if none
  end,        \* where the thread inside push_back is going to store
  drained,    \* history: what drain() has returned, per task
  pushed,     \* history: what each thread has pushed
  total_run   \* m_total_run

mainVars   == <<tasks, main, started, joined>>
threadVars == <<results, pc, remaining, cycles, event>>
traceVars  == <<m_log, m_mtx, end, drained, pushed>>
allVars    == <<mainVars, threadVars, traceVars, total_run>>

NoResult == [cycles |-> 0, completed |-> FALSE, exception |-> FALSE]

SimInit ==
  /\ tasks \in TaskLists
  /\ main = "start" /\ started = 0 /\ joined = 0
  /\ results = [i \in Sims |-> NoResult]
  /\ pc = [i \in Sims |-> "none"]
  /\ remaining = [i \in Sims |-> tasks[i].max_steps]
  /\ cycles = [i \in Sims |-> 0]
  /\ event = [i \in Sims |-> "START"]
  /\ m_log = <<>> /\ m_mtx = 0
  /\ end = [i \in Sims |-> 0]
  /\ drained = [i \in Sims |-> <<>>]
  /\ pushed = [i \in Sims |-> <<>>]
  /\ total_run = 0

-----------------------------------------------------------------------------
(* run().                                                                  *)

\* threads.emplace_back: the thread enters run_one, which pushes "START".
StartThread ==
  /\ main = "start" /\ started < N
  /\ started' = started + 1
  /\ pc' = [pc EXCEPT ![started + 1] = "push"]
  /\ UNCHANGED <<tasks, main, joined, results, remaining, cycles, event,
                 traceVars, total_run>>

\* The system refuses another thread: emplace_back throws.
StartFails ==
  /\ main = "start" /\ started < N
  /\ main' = "unwind"
  /\ UNCHANGED <<tasks, started, joined, threadVars, traceVars, total_run>>

AllStarted ==
  /\ main = "start" /\ started = N
  /\ main' = "return"
  /\ UNCHANGED <<tasks, started, joined, threadVars, traceVars, total_run>>

\* The destructor of the next jthread.
Join ==
  /\ main \in {"return", "unwind"} /\ joined < started
  /\ pc[joined + 1] = "done"
  /\ joined' = joined + 1
  /\ UNCHANGED <<tasks, main, started, threadVars, traceVars, total_run>>

\* Mutant: results goes to the caller, or away, before the threads end.
LeaveUnjoined ==
  /\ main \in {"return", "unwind"}
  /\ main' = IF main = "return" THEN "returned" ELSE "threw"
  /\ UNCHANGED <<tasks, started, joined, threadVars, traceVars, total_run>>

\* The end of run(): results goes to the caller or is destroyed.
Leave ==
  /\ main \in {"return", "unwind"} /\ joined = started
  /\ main' = IF main = "return" THEN "returned" ELSE "threw"
  /\ UNCHANGED <<tasks, started, joined, threadVars, traceVars, total_run>>

-----------------------------------------------------------------------------
(* TraceCollector.                                                         *)

Record(i) == [sim |-> i, event |-> event[i], cycles |-> cycles[i]]

\* Mutant: push() does not wait for the lock.
PushUnlocked(i) ==
  /\ pc[i] = "push"
  /\ m_mtx' = i
  /\ end' = [end EXCEPT ![i] = Len(m_log)]
  /\ pc' = [pc EXCEPT ![i] = "store"]
  /\ UNCHANGED <<mainVars, results, remaining, cycles, event,
                 m_log, drained, pushed, total_run>>

\* push() enters its critical section and push_back finds the end.
PushLocks(i) ==
  /\ pc[i] = "push"
  /\ m_mtx = 0
  /\ m_mtx' = i
  /\ end' = [end EXCEPT ![i] = Len(m_log)]
  /\ pc' = [pc EXCEPT ![i] = "store"]
  /\ UNCHANGED <<mainVars, results, remaining, cycles, event,
                 m_log, drained, pushed, total_run>>

\* Mutant: the lock is not released.
PushKeepsLock(i) ==
  /\ pc[i] = "store"
  /\ m_log' = Append(SubSeq(m_log, 1, end[i]), Record(i))
  /\ pushed' = [pushed EXCEPT ![i] = Append(@, Record(i))]
  /\ end' = [end EXCEPT ![i] = 0]
  /\ pc' = [pc EXCEPT
              ![i] = IF event[i] \in {"DONE", "EXCEPTION"} THEN "count" ELSE "run"]
  /\ UNCHANGED <<mainVars, results, remaining, cycles, event, m_mtx, drained,
                 total_run>>

\* push_back stores the record, and the lock is released.
PushStores(i) ==
  /\ pc[i] = "store"
  /\ m_log' = Append(SubSeq(m_log, 1, end[i]), Record(i))
  /\ pushed' = [pushed EXCEPT ![i] = Append(@, Record(i))]
  /\ m_mtx' = 0
  /\ end' = [end EXCEPT ![i] = 0]
  /\ pc' = [pc EXCEPT
              ![i] = IF event[i] \in {"DONE", "EXCEPTION"} THEN "count" ELSE "run"]
  /\ UNCHANGED <<mainVars, results, remaining, cycles, event, drained, total_run>>

\* The records of thread i, in the order they are logged in: those of the
\* first n records, for every n, and those of the log.
With(s, r, i) == IF r.sim = i THEN Append(s, r) ELSE s

RecordsOf(log, i) ==
  LET upTo[n \in 0..Len(log)] ==
        IF n = 0 THEN <<>> ELSE With(upTo[n - 1], log[n], i)
  IN  upTo[Len(log)]

drain ==
  /\ m_mtx = 0
  /\ m_log # <<>>
  /\ drained' = [i \in Sims |-> drained[i] \o RecordsOf(m_log, i)]
  /\ m_log' = <<>>
  /\ UNCHANGED <<mainVars, threadVars, m_mtx, end, pushed, total_run>>

-----------------------------------------------------------------------------
(* run_one().  A call of cpu.run touches nothing that is shared.           *)

\* The argument of the next call of cpu.run.
Limit(i) ==
  IF tasks[i].checkpoint /\ Batch < remaining[i] THEN Batch ELSE remaining[i]

\* Mutant: the last instruction of a batch is taken for the next one's.
EndsLate(i, limit) == tasks[i].length + 1 < cycles[i] + limit

\* cpu.run(limit) comes to the program's last instruction.
Ends(i, limit) == tasks[i].length < cycles[i] + limit

\* Between two calls of cpu.run, with the program loaded.
Runs(i) == pc[i] = "run" /\ tasks[i].fits

\* mem.write16 throws while the program is loaded.
LoadThrows(i) ==
  /\ pc[i] = "run"
  /\ ~tasks[i].fits
  /\ results' = [results EXCEPT ![i].exception = TRUE]
  /\ pc' = [pc EXCEPT ![i] = "collect"]
  /\ UNCHANGED <<mainVars, remaining, cycles, event, traceVars, total_run>>

\* The CPU throws; the instruction that throws is not counted.
RunThrows(i) ==
  /\ Runs(i)
  /\ Ends(i, Limit(i))
  /\ tasks[i].ends = "throw"
  /\ cycles' = [cycles EXCEPT ![i] = tasks[i].length]
  /\ results' = [results EXCEPT ![i].exception = TRUE]
  /\ pc' = [pc EXCEPT ![i] = "collect"]
  /\ UNCHANGED <<mainVars, remaining, event, traceVars, total_run>>

\* The CPU halts: cpu.run returns less than its argument.
RunHalts(i) ==
  /\ Runs(i)
  /\ Ends(i, Limit(i))
  /\ tasks[i].ends = "halt"
  /\ cycles' = [cycles EXCEPT ![i] = tasks[i].length + 1]
  /\ results' = [results EXCEPT ![i].completed = TRUE]
  /\ pc' = [pc EXCEPT ![i] = "collect"]
  /\ UNCHANGED <<mainVars, remaining, event, traceVars, total_run>>

\* cpu.run executes all the steps it was given.
RunToLimit(i) ==
  /\ Runs(i)
  /\ ~Ends(i, Limit(i))
  /\ Limit(i) > 0
  /\ cycles' = [cycles EXCEPT ![i] = @ + Limit(i)]
  /\ remaining' = [remaining EXCEPT ![i] = @ - Limit(i)]
  /\ event' = [event EXCEPT ![i] = "CHECKPOINT"]
  /\ pc' = [pc EXCEPT ![i] = IF tasks[i].checkpoint THEN "push" ELSE "run"]
  /\ UNCHANGED <<mainVars, results, traceVars, total_run>>

\* No step remains.
RunIsOver(i) ==
  /\ Runs(i)
  /\ Limit(i) = 0
  /\ results' = [results EXCEPT ![i].completed = FALSE]
  /\ pc' = [pc EXCEPT ![i] = "collect"]
  /\ UNCHANGED <<mainVars, remaining, cycles, event, traceVars, total_run>>

\* The final state goes to the result, and the last record to the log.
Collect(i) ==
  /\ pc[i] = "collect"
  /\ results' = [results EXCEPT ![i].cycles = cycles[i]]
  /\ event' = [event EXCEPT
                 ![i] = IF results[i].exception THEN "EXCEPTION" ELSE "DONE"]
  /\ pc' = [pc EXCEPT ![i] = "push"]
  /\ UNCHANGED <<mainVars, remaining, cycles, traceVars, total_run>>

Count(i) ==
  /\ pc[i] = "count"
  /\ total_run' = total_run + 1
  /\ pc' = [pc EXCEPT ![i] = "done"]
  /\ UNCHANGED <<mainVars, results, remaining, cycles, event, traceVars>>

-----------------------------------------------------------------------------
Main == StartThread \/ StartFails \/ AllStarted \/ Join \/ Leave

Thread(i) ==
  \/ PushLocks(i) \/ PushStores(i)
  \/ LoadThrows(i)
  \/ RunThrows(i) \/ RunHalts(i) \/ RunToLimit(i) \/ RunIsOver(i)
  \/ Collect(i) \/ Count(i)

Runner  == Main \/ \E i \in Sims : Thread(i)
SimNext == Runner \/ drain

\* The system runs main or some thread as long as one of them can go on; it
\* need not be fair between them, nor the lock of the log between the threads.
SimSpec ==
  /\ SimInit /\ [][SimNext]_allVars
  /\ WF_allVars(Runner)

-----------------------------------------------------------------------------
(* Properties.                                                             *)

\* Threads write to results and to the collector through references: none
\* is alive after run() has been left, by return or by exception.
ResultsOutliveThreads ==
  main \in {"returned", "threw"} => \A i \in Sims : pc[i] \in {"none", "done"}

\* "safe for N simultaneous writers": whatever the interleaving of pushes and
\* drains, each record that was pushed is in the log or was drained, once,
\* and the records of one simulation stay in order.
NoRecordLost ==
  \A i \in Sims : drained[i] \o RecordsOf(m_log, i) = pushed[i]

\* What the steps of program p come to, whether they are run in one piece
\* or in batches.
Expected(p) ==
  LET last == p.fits /\ p.length < p.max_steps
  IN  [cycles    |-> CASE ~p.fits -> 0
                       [] last /\ p.ends = "halt" -> p.length + 1
                       [] last /\ p.ends = "throw" -> p.length
                       [] OTHER -> p.max_steps,
       completed |-> last /\ p.ends = "halt",
       exception |-> ~p.fits \/ (last /\ p.ends = "throw")]

\* "true = halted cleanly; false = hit max_steps", and "results indexed by
\* task order": when run() returns, each slot holds the outcome of its own
\* program, the checkpoints do not change it, and the last record says so.
ResultsAreRight ==
  main = "returned" =>
    /\ \A i \in Sims :
         /\ results[i] = Expected(tasks[i])
         /\ pushed[i][Len(pushed[i])] =
              [sim |-> i, cycles |-> Expected(tasks[i]).cycles,
               event |-> IF Expected(tasks[i]).exception THEN "EXCEPTION" ELSE "DONE"]
    /\ total_run = N

\* "Blocks until all threads finish", and no longer.
RunEnds == <>(main \in {"returned", "threw"})
=============================================================================
