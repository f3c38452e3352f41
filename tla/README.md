# A TLA+ model of mcu-simulator

The repository simulates an ARM Cortex-M0 microcontroller: a CPU with its memory
and program loader, a set of memory-mapped peripherals, a small real-time kernel
in the style of FreeRTOS with four synchronisation primitives, and a runner that
executes many simulations in parallel.  This directory models all of them except
the demos and the text that is read from the command line or printed.  TLC checks the
modules on small instances; TLAPS proves every safety property of the runs for all
instances: the kernel, its four primitives, the parallel runner, the peripherals, and the
machine with its loader, CPU, stack and trace.

## 1. Inventory

| Part | State | Operations | Interacts with | What is hard |
|---|---|---|---|---|
| Kernel `rtos/scheduler.*` | task table (state, priority, timer, saved context), tick counter, current task | create, start, delay, suspend, resume, delete, tick; `block_current` and `unblock` for primitives | tasks call it; it switches between them, in the middle of a call | preemption inside `unblock` and `tick`; the jump of simulated time when all sleep; timers of tasks that are suspended or woken otherwise; tick overflow; priority 0xFF |
| `rtos/mutex.h` | owner, wait list | lock, unlock, try_lock, Guard | kernel | hand-over to a task that has not run yet; trust in being switched to |
| `rtos/semaphore.h` | count, wait list | take, give, try_take | kernel | a token under way is in no counter |
| `rtos/queue.h` | ring of N items, two wait lists | send, receive, try_send, try_receive | kernel | woken tasks that are overtaken and wait again; two-sided waiting |
| `rtos/event_group.h` | bits, list of waiters with conditions | set_bits, clear_bits, wait_bits | kernel | the loop over the waiters is preempted and re-entered |
| `src/parallel_sim.h` | results, threads, locked log, counter | run, push, drain | threads, CPU | lifetime of `results`, failure to start a thread, concurrent push and drain |
| `peripherals/peripheral.h` | table of address windows | attach, read, write | CPU side and peripherals | overlapping windows, wrap-around |
| `peripherals/uart.*` | two FIFOs, control, threshold | register accesses, line side, reset | firmware, line | limits and wrap of the rings, interrupt threshold |
| `peripherals/spi.*` | chip select, burst registers, flash state machine | register accesses | firmware | mixtures of single bytes and bursts; state that survives a transaction |
| `peripherals/i2c.*` | status, receive queue, sensor registers | transfers through CR, direct transfers | firmware, sensor | stale bytes, overlapping bit fields, sign of temperatures |
| `peripherals/can.*` | bus list, receive rings, filters, status | construct, destroy, send, pop, set filters | other controllers | pointers to destroyed controllers, overflow |
| `src/cpu.*` | registers, flags, `bl_offset_`, halted, cycle count | reset, step, run, 19 groups of instructions | memory, trace | carry and overflow at boundaries, shifts by the word's width, calls in two halves, faults in the middle of an instruction |
| `src/memory.*` | flat array behind two windows | accesses of 1, 2 and 4 bytes, load, clear | CPU, loader | ends of windows, aliases |
| `src/loader.*` | base address and entry point while loading | binary and Intel HEX loading | memory, main | base addresses that stay in force, overlapping records, malformed lines |
| `src/trace.h` | the active tracer | disassembly, printing | CPU (callback) | a second decoder that must agree with the first |
| `src/main.cpp` | the configuration | command line, `run_simulation` | loader, CPU, trace | exceptions out of each stage |
| `demo/` | none of their own | two example programs | kernel, peripherals | nothing beyond what their parts have |

Properties that make the parts correct, and the hazards behind them, are listed
in `PROJECT.json` (`hazards`), each with the properties that cover it.

## 2. Modules

```
Scheduler <- WaitList <- Mutex, Semaphore, Queue        RingBuffer <- Uart, Can
          <- EventGroup                                 Spi, I2c, PeripheralBus
BoundedFIFO (abstract)                                  ParallelSim
                                                        Alu, Memory <- Cpu <- Loader

SchedulerProofs   (EXTENDS Scheduler)
MutexProofs, SemaphoreProofs, QueueProofs, EventGroupProofs
                  (EXTENDS the primitive and SchedulerProofs)
DeviceProofs      (EXTENDS Uart, I2c, Spi, Can, PeripheralBus, BasicFacts)
CoreProofs        (EXTENDS Loader, ParallelSim, BasicFacts)
BasicFacts        induction over numbers, division, circular arrays
```

`MC*.tla` with the `.cfg` files instantiate them for TLC.  Operators whose
comment begins with "Mutant:" are plausible bugs of the definition that follows
them.  They are not used by any specification; putting one in place of its
original makes TLC report the property named in `PROJECT.json`.

**Scheduler.**  All tasks share one thread of the host, so a call of the API is
one step, except that a call which gives up the processor leaves the kernel in
`switching`; then each iteration of the loop of `schedule_from` and
`schedule_after_delete` is a step (`Dispatch`, `DesAdvance`, `GoIdle`).
`inside[t]` is the saved context, reduced to the call from which the task will
return.  The bodies of tasks are the environment: the running task makes any
call in the constant `Calls`.  Names, stacks and task functions are left out.
`UINT32_MAX` is a parameter, so that overflow happens in small instances.

`Calls` also states what a program refrains from.  `vTaskSuspend` stands for the
suspension of tasks that are READY or RUNNING, `vTaskSuspend_any` for that of
tasks in any state; `unblock` is called by primitives only for tasks inside
`block_current`, `unblock_any` for any; a program without `wrap` ends before the
tick counter overflows.

**WaitList, Mutex, Semaphore, Queue, EventGroup.**  Each extends Scheduler; its
`Next` consists of its own operations, which take kernel actions as conjuncts,
and of the other steps of the kernel.  `pc[t]` is where task t is in the
primitive's code.  A blocking call is two actions, before and after
`block_current` (`lock`, `LockReturns`), or one action per pass of its loop
(`send`, `receive`, `wait_bits`).  Main, which is no task, makes the calls that do not
block: `give` and `try_take`, `try_send` and `try_receive`, `set_bits` and `clear_bits`;
its `set_bits` goes through the loop as a task's does (`Callers`).  `check_waiters` is modelled iteration by
iteration, with a separate step (`Compact`) for the statement after `unblock`,
because the kernel may switch in between.  Reading past the end of the list there
has an arbitrary result.  `BoundedFIFO` is the abstract queue which Queue is
shown to implement under `fifo <- Contents`.  `Semaphore` counts in the history
variables `given` and `taken`; `MaxGives` bounds the first.

**ParallelSim.**  `main` is where `run` is: starting threads, destroying its
locals after the `return` or after an exception, left.  Locals are destroyed in
reverse order of declaration, so the threads are joined before `results` dies.
That `return results` is elided, so that the caller's vector is the one the threads write
to, is an assumption of the module.  `push` is two steps, so that its lock matters.
`tasks` is the argument of `run`, one of the lists in `TaskLists`: each of its N tasks has a
limit (`max_steps`, 0 allowed), a program that fits into the memory or does not
(`LoadThrows`), a number of instructions and a way to end.  `Batch` stands for the 10'000
steps between checkpoints.

**Uart, Spi, I2c, Can, PeripheralBus.**  One action per register access or call
that changes state.  Sizes are constants.  SPI bytes carry a command and a one-bit
value; `burst_rx_` is the operator `BurstRx`, since nothing but the firmware reads it;
`sent` is the history of the open transaction, against which the answers are checked.
`TestWrites` stands for the functions by which tests write to the flash.  CAN
identifiers are sets of bits, frames are numbered; `lost` is history.  Controllers are
attached by their constructor and detached by their destructor, and both can be done
directly (`CanAttach`, `CanDetach`).

**Alu, Memory, Cpu, Loader.**  The machine that `run_simulation` builds.  `Alu` is the
arithmetic of words as pure operators, `Memory` the array behind its two windows.  In
`Cpu` each instruction is an operator from a machine to the machine after it; a fault
keeps what was done before, as the exception does (a PUSH that faults has moved the
stack pointer).  `step` is one pass of the loop of `run`: fetch, trace callback,
execute, count.  Opcodes are the 16-bit numbers of the code and `execute` decodes them
bit by bit.  Words are narrower than in the code (16 bits, with bytes of 4, so that
four bytes still are a word), so memory cannot hold opcodes: which one is fetched is a
choice of the environment among `Instrs`, and only whether the fetch faults depends on
memory.  `disassemble` is what the trace says: mnemonic and branch target, not the
operands.  `printed` keeps the last two lines.  `Loader` reads a binary, or a HEX file
line by line; a line is the sequence of its bytes, and one with other characters is
`garbled`.  `Launch` is the rest of `run_simulation`.  `file` is the history of the
records read.  Where the code has a loop over bits or over the registers of a list, the
model has a recursive function (`Pow2`, `Word`, `PushList`, `PopList`, and `after` in
`exec_ldm_stm`); the bytes of a word are few and are written out (`Read`, `Weight`,
`EntryAfter`).  `MachineSpec` is the specification of the machine alone.

`MCDevices` is the union of the peripherals, the bus and the machine: they share no
state (the code never connects the CPU to the peripheral bus), so each behaviour
exercises one of them.

## 3. Runs

| Run | Instance | Distinct states |
|---|---|---|
| `sched_any` | 2 tasks, priorities 0, 1, 255, all calls, ticks 0..3 with overflow | 134,802 |
| `sched_backwards` (violation) | 2 tasks, suspension in any state | |
| `mutex` | 3 tasks, 2 priorities, all calls but suspension of waiting tasks, ticks 0..4 | 1,114,287 |
| `mutex_fair` | 4 tasks, 1 priority, cooperative calls, fairness | 11,401 |
| `mutex_suspended` (violation) | 3 tasks, suspension in any state | |
| `semaphore` | 3 tasks and main, 2 priorities, 1 of 2 tokens, 2 gives | 1,215,300 |
| `queue` | 4 tasks and main, 2 priorities, 2 slots, 2 items (symmetric) | 4,047,094 |
| `event_group` | 3 tasks and main, 1 priority, 2 bits | 5,500,461 |
| `event_group_preempted` (violation) | 3 tasks, 2 priorities, 2 bits | |
| `parallel_sim` | 3 lists of 3 tasks: they halt on the last step of a batch, throw, are cut off, have no step to execute, do not fit | 317,227 |
| `devices` | rings of 2, flash of 4 cells in 2 sectors, 3 controllers on a bus for 2, 3 windows; 16-bit words, 16 cells of memory, 70 register files, 2 instructions, 3 records | 1,383,446 |
| `i2c_resolution` (violation) | temperatures on both sides of 0 | |

*Kernel.*  `sched_any` checks what holds whatever tasks do: types, exactly the
owner of the processor is RUNNING, the switching loop ends.  `mutex`, whose tasks also
sleep, suspend READY tasks and delete each other, checks what disciplined programs may
rely on of the kernel: timers belong to sleeping tasks and are
never overdue (`TimerInv`), time does not run backwards, the scheduler returns to
main only when no task can run or sleeps, deletion is final.

*Mutex.*  A task in its critical section owns the mutex; no waiter is lost
(`WaiterInv`); while a task waits,
nobody of a worse priority becomes the owner (`ServedByPriority`); a task that was handed the mutex gets to its critical
section, and a READY task gets its turn.
*Semaphore.*  `TokensConserved`: count + tokens under way + taken = initial +
given.
*Queue.*  It implements `BoundedFIFO`; while a receiver waits, a woken receiver is
under way for every item in the buffer (and the same for senders); when everything
stops nobody waits for what is there; preemption is by priority.
*Event group.*  When no `set_bits` is under way, no task is blocked although its
condition holds, and every blocked task is listed once with its condition.

*Parallel runner.*  No thread is alive once `run` is left, by return or exception;
no record is lost or duplicated; checkpoints do not change a result; `run` ends.
*Devices.*  FIFO order through every wrap of the indices; a full receive FIFO
always raises the enabled interrupt; the flash changes only when enabled, once per
enable, only by clearing bits of a page or erasing a sector (`FlashProtected`), and
only for a command of the present transaction; it answers each byte by its position
in the transaction, sent singly or in a burst (`AnswersAreRight`); DR returns the bytes
of the last transfer; the CAN bus never holds a destroyed controller, and the status
tells of frames that wait and of frames lost; a new window never takes an address from
an older one, overlapping windows leave no gap, and the offset handed to a peripheral lies
in its window (`WindowsAnswer`).
*Machine.*  Flags of every addition, subtraction and comparison are those of exact
arithmetic and the conditions mean what they are named for (`FlagsAreExact`); a shift
by n is n shifts by one, in result and carry (`ShiftsAreExact`); `BX LR` continues
behind a BL or BLX (`CallsReturn`); POP undoes PUSH (`StackRoundTrip`); the two
decoders agree (`TraceIsTrue`): for every opcode, on where control goes and on whether
flags change; for every opcode but those listed in `Misprinted`, for which the README of the
repository calls the disassembly approximate, on stores, on BX, and on how far PUSH and POP
move SP; each
cell holds the byte of the last HEX record that covers it, and the program starts
where the file says (`ImageIsRight`).

### Bounds

Two tasks show every pairwise interaction with the kernel, three are needed for a
task that is affected by a switch between two others, four for a woken task that is
overtaken while another waits (queue) and for the round robin.  Two priorities
suffice for preemption; 255 is the boundary value of `select_next`.  Ticks up to 3
or 4 let two timers be set, one expire before the other, and, where `wrap` is
allowed, the counter overflow.  Rings of two slots wrap and are empty, partly filled
and full.  Three CAN controllers on a bus for two show a controller the bus refused;
`MaxFrames = 3` overflows a ring of two.  `MayFilter` lets one controller filter at
a time, as a receiver's own filter is the only one that matters for it; a controller
is constructed under the least free name, and one without a bus is alone, since it
meets no other.  The direct calls of attach and detach come while a frame can still be
sent and missed (`Early`).  `Sendable` limits transfers to one byte more than a page or than the
identification holds, and numbers other than 0 to where they have a meaning; one answer
waits in DR (`MaxRx`), the queue being unbounded in the code.

The machine starts with register files at the boundaries of the word, of the sign and
of shift amounts (0, 1, 2, 15, 16, 17, 255, 256), and with stack pointers at and beyond
the ends of both windows.  `Opcodes` has every group of the decoder with every operation
of it, shifts by 0, 1 and 15, branches forwards and backwards, and undefined ones.  Two
instructions in a row (`MaxCycles`) let one set what the next one reads: flags, the
link register, the first half of a BL; a CPU that has halted is run again.  Files of up to three records (`MaxLines`) have data before and after a change of
the base, overlaps, both windows and two start records.

### Fairness

The kernel's loop is ordinary code (WF of `KernelStep`).  The kernel is cooperative:
a task that never gives up the processor starves all of equal and lower priority, so
liveness is stated for tasks that eventually do (WF of `Relinquish`, or blocking),
and for a main that calls `vTaskStartScheduler` again.  `lock()` returns
(WF of `LockReturns`).  Threads of the parallel runner are scheduled by the system
(WF of `Runner`: some of them goes on while one can); nothing is assumed of who among
them does, nor of the mutex of the log, since each takes finitely many steps.  Runs with a safety property only use no fairness.

Deadlock is checked in the runs of the kernel and its primitives, where main can always go on;
it is not in `parallel_sim`, which ends, and in `devices`, where the table of the bus
fills up.

## 4. Proofs

### Premises

The theorems hold for every value of the constants that the modules' assumptions
allow: all sizes of the task table up to 255, all widths of the tick counter,
priorities and delays (`SchedulerAssumption`), all capacities of queues, FIFOs, pages
and sectors, all numbers of controllers, windows and programs.  For the machine: words of
every width of which a byte is a quarter and that an 8-bit immediate fits in
(`CpuAssumption`), every set of opcodes, every file, and memories with a gap of at least
a word behind each of the two windows (`MemoryAssumption`, `CpuAssumption`).  The code has
such gaps: the array ends at 0x10000, the SRAM window goes from 0x20000000 to 0x20004000.
Without them the word next to one at the end of a window could lie in the other window,
and the stack would not be contiguous.  `ShiftAssumption` says that an immediate shift is
shorter than a word: in the code five bits against 32, in a smaller word a restriction of
the opcodes.
What is assumed of programs is a premise of the theorem:

| Premise | Theorems |
|---|---|
| none | `TypeCorrect`, `RunningCorrect`, `QueueIsFIFO`; the runner, the peripherals and the machine |
| `ComparesPriorities`: no `vTaskResume`, no creation by running tasks | `PreemptionCorrect` |
| `TimerDiscipline`: sleeping tasks are not suspended or unblocked, and no overflow | `TimerInvariant`, `TimersCorrect`, `TimeCorrect`, `IdleCorrect` |
| no suspension of tasks in arbitrary states | `DeletionCorrect` |
| `ClientDiscipline`: `TimerDiscipline`, and the program includes the calls of the primitive | `MutexCorrect`, `WaitersCorrect`, `ServedCorrect`, `MutexImplementsScheduler`; `TokensCorrect`, `TakersCorrect`, `SemaphoreImplementsScheduler` |
| `QueueDiscipline`: `ClientDiscipline`, no suspension, no deletion, priorities below 255 | `WakeupsCorrect`, `QueueImplementsScheduler` |
| `GroupDiscipline`: `ClientDiscipline`, one priority | `AwakeCorrect`, `ListedCorrect`, `GroupImplementsScheduler` |

The premises are those of the passing runs; `mutex_suspended` and
`event_group_preempted` show that two of them cannot be dropped, and priority 255 is
never selected by `select_next`.

### The kernel and its primitives

*Kernel.*  `NoOverdueSleeper` is not inductive: nothing in it says that a task blocked
on a primitive has no timer, and such a timer would fire.  `TimerInv` adds that a set
timer belongs to a task inside `vTaskDelay` or to a deleted one, lies between the
clock and `UINT32_MAX`, and that each sleeping task has one; with `TypeOK` and
`RunningIsCurrent` it is preserved by every action.

Each primitive's proof first shows that every step of the composition is a step of the
kernel (`MutexRefines`, `SemRefines`, ...; listed as `...ImplementsScheduler`), so that
the kernel's invariants hold in it, and then goes through the actions.

*Mutex.*  `MutualExclusion` is not inductive: `lock()` does not look at `owner_` after
`block_current`, so it is right only if a waiter is never switched to before it was
made the owner.  `WaiterInv` says so: a task in `lock()` that is not the owner is
BLOCKED (or deleted) inside `block_current`.  Timers cannot wake it because of
`TimerInv`, and `unlock` unblocks only the task it has just made owner.
`WaitersCorrect` is the whole of `WaiterInv`: besides the above, a waiter is in the
list.  The list holds at most `MAX_TASKS` entries and silently drops one more, so
this needs an argument by counting: entries are distinct and none is the task that
calls `lock()`, so there are fewer of them than tasks (`ListHasRoom`, from the
cardinality theorems of the library).  `SwapRemoveMembers` says that filling the gap
with the last entry removes exactly the entry chosen.  `ServedCorrect` needs it too: that
the chosen entry is the best of the list says something about the tasks that wait only if
all of them are in the list.

*Semaphore.*  `TokensConserved` counts tasks that were taken off the list and have not
returned.  It is preserved only together with `TakerInv` (who waits is listed once and BLOCKED,
or deleted, inside the `block_current` of `take()`; nobody waits while there are tokens), by
following each token from `give` to the return of `take` and the cardinality of the
set of its takers.

*Queue.*  `QueueIsFIFO` is the refinement of `BoundedFIFO` under `fifo <- Contents`.
Its invariant (`RingInv`) is that the tail is the head plus the count, modulo the
capacity; `WindowPush` and `WindowPop` of `BasicFacts` then say that storing and
taking append and remove, through every wrap.  `NoLostWakeup` compares numbers: woken
receivers under way, and items.  `QueueInv` says which tasks are under way: in a list
exactly while they are BLOCKED in the call (`CallInv`); all others in the call are READY
or RUNNING.  A step moves at most one task and one item, and the lemmas on cardinality
give the new counts.

*Event group.*  `check_waiters` is preempted in each iteration and may be re-entered,
so the invariant speaks about a list in a half-finished state.  `GroupInv` says, while a
task is inside the loop at index i: entries before i are not satisfied (`Scanned`,
`Passed`); between `unblock` and the statement after it one entry is stale (`Hole`); and
every other entry is a task that is BLOCKED with that condition (`ListInv`).  With one
priority no other task runs before the hole is closed.  That the list of `MAX_TASKS`
entries has room for one more waiter is the pigeonhole argument `RoomForOne`.

### Runner, peripherals and machine

*Parallel runner.*  `Outcome` ties, for each thread, where it is in its loop to what it
has counted, stored and logged; `ThreadsAreJoined` and `ResultsCorrect` follow.  For
`RecordsCorrect`, `RecordsOf` is a function defined by recursion over the log.  Its
values for one record more are found by induction.  The library's induction theorems have
an operator as a parameter, which the provers cannot instantiate; `Induction` of
`BasicFacts` states it with a set instead (a set of numbers with 0 and each successor
is Nat), and is proved from well-foundedness.

*UART and CAN.*  The two modules use the same ring as the queue, and the same lemmas.
`IrqCorrect` needs that the threshold lies between 1 and the size; `FramesCorrect` that
numbers of frames increase along each ring and do not exceed the last one sent;
`NoDanglingCorrect` that the bus has a controller at most once, as the destructor
removes one pointer.  *I2C*: `ReadyCorrect` relates status bits and the queue.  `TemperatureCorrect` says
how close the register comes for every temperature of the range: nearer than half a degree from
0 upwards, never below the temperature and less than a degree above it under 0.  *Bus*:
`TargetsCorrect` and `WindowsCorrect`, from the order in which `find` looks at the windows
and from its test for the end of a window.

*Flash.*  `FlashInv` has the two facts that keep a stale `cmd_` harmless: while
SECTOR_ERASE is latched and enabled the transaction that sent it is open, and
`buf_` is empty unless the flash receives data.  `FlashCorrect` adds the geometry
(`Block`: the cells with one quotient are those of one page or sector).  `Track` says
where the state machine is after the first n bytes of a transaction, and
`ResponseRight` what it then answers; `BurstSteps` carries both through the bytes of a
burst by induction, which gives `AnswersCorrect`.  Bursts are defined by recursion
over their bytes, as the loop of `do_burst` is.

*Arithmetic.*  The theorems compare the code's way to compute flags (one addition with
the complement, overflow from three signs) with the exact integers, for all operands
and flags.  `AddFacts` says that
the sum is the exact one or that minus 2^w; then each flag is a case distinction on
the signs of operands and result.  SUB, SBC and NEG are reduced to it by
Not(b) = 2^w - 1 - b, and the conditions by expressing each comparison through the sign
of the difference and V.

*Machine.*  Loader, CPU and trace are proved about in `MachineSpec`.  The properties of
single instructions are action properties, and rest on `MachineInv`: the machine and the
last line of the trace have their types; no fault is pending unless the simulation has
failed; and after the first half of a BL `bl_offset` is the one of that half (`HalfDone`).
Each `exec_` function has a lemma that says what it changes (`...Frame`).  `ExecuteIs` and
`DisassembleIs` take the two decoders apart: an instruction is named by the upper byte k
of its opcode, and the lemmas say which arm each decoder takes for k.

* `LoaderCorrect`.  `ImageIsRight` is not inductive: it says nothing about `base_addr`.
  `LoadInv` adds that the base is that of the last extended record read, and that
  the CPU is a new one while the file is read.  What the property says about the file is
  written as functions of it (`BaseOf`, `CellValue`, `EntryOf`), and one record more
  changes them as one iteration of `load_ihex` changes base, memory and entry point
  (`OneMore`).  Four shifts of `entry_point` by a byte leave nothing of an earlier start
  record.
* `FlagsCorrect`: each instruction that adds, subtracts or compares, found by `ExecuteIs`,
  reaches the theorems on arithmetic with the operands that the opcode names.
* `TraceCorrect`: `Effects` (what an instruction may change, by k) and `Shows` (what
  the disassembler says, by k) are compared for all k.  That PUSH and POP move SP by the
  number of registers listed follows their recursion over the list (the `Sunk` lemmas).
* `CallsCorrect`: the two halves of a BL, each with its own sign extension, add up to
  the one extension of 22 bits (`HalvesGo`), and LR leads behind the second half.
* `StackCorrect`: memory is followed slot by slot.  `ReadWritten` says that a word that
  is written byte by byte is read as the word, `PushKeeps` that a push does not touch the
  slots above it; `Grows` and `Framed` carry this through the at most nine pushes of a list,
  `Back` through the pops in the opposite order.  The lists are unrolled: their
  recursion has eight steps.
* `ShiftsCorrect`: a shift by one is repeated n times by a recursion in the property. Its
  closed form for each kind of shift (`Leads`, `Follows`) is shown by induction over n
  and then compared with the code's expressions and its special cases.

`Pow2`, `Word` and the recursions in the properties are functions: the provers know their
equations only once a function that satisfies them is shown to exist.  This, and each
closed form, is an induction over the set of numbers for which the statement holds
(`Induction`).

### Only model-checked

Liveness (`KernelReturns`, `ReadyRuns`, `OwnerProceeds`, `RunEnds`) is outside the reach
of the prover: it needs fairness and ENABLED.  Every other property of the passing runs is
proved.  What is proved about the machine is proved of opcodes chosen by the environment,
as in the model: that a program's bytes are fetched as the opcodes they are is not part
of it.

## 5. Where the code departs from what it says

Four departures have runs of their own (`findings`):

* `sched_backwards`: a task suspended and resumed while it sleeps keeps its timer;
  once it is blocked on a primitive, the next jump of time goes back to that tick.
* `mutex_suspended`: a waiter that is suspended and resumed returns from `lock()`
  without owning the mutex.  `take()` of the semaphore has the same flaw.
* `event_group_preempted`: `set_bits` is preempted by the task it wakes, before it has
  removed that task's entry.  The woken task calls `set_bits` itself, whose loop finds the
  stale entry still satisfied and removes it; then it waits for another bit and its new entry
  takes the same place.  The interrupted loop goes on and removes the new entry: nobody will
  wake the task.  Waiting again alone does no harm, as the new entry is then moved over the
  stale one.
* `i2c_resolution`: `i2c.h:32` gives the LM75 a resolution of half a degree; the division of
  tenths rounds towards zero, so that -0.9 to -0.5 degrees are read as 0.0 and a negative
  temperature is read up to 0.9 degrees too high.

Met while modelling, without a run:

* `vTaskDelay` whose sum is `UINT32_MAX` or wraps to 0 is lost: the scheduler
  returns to main while the task sleeps (`scheduler.cpp:83`, `:204`).
* `vTaskResume`, and `xTaskCreate` by a running task, do not preempt.
* A deleted task that is suspended and resumed runs again (`scheduler.cpp:91`).
* `mutex.h:12` speaks of priority inheritance; no priority ever changes.
* A waiter that was deleted can still be handed the mutex or a token.  From four
  tasks on, a waiter may be overtaken for ever by others of its priority, since the
  last entry fills the gap.
* A task that polls with `vTaskDelay(0)` stops simulated time.
* Loader: `loader.h` calls the start record ":04" and the code tests 0x05.  A pair of
  characters of which only the first is a hex digit counts as a byte.  The count is not
  compared with the length of the line, so that the checksum may be read as data.  The
  test for short records comes before the CR is removed.
* Memory: `memory.h` mentions misaligned accesses, which never fault.  A comment in
  `memory.cpp` names a window for peripherals, which faults.  Accesses are checked
  against the end of the array, so one that begins in the SRAM window may run past it;
  `check_bounds` is not called.
* CPU: the README speaks of all 19 Thumb formats; formats 8 and 17 are undefined.
  Opcodes 0xB1 to 0xBD that are not PUSH or POP (UXTB, REV, CPS...) are executed as one
  of them.  LDM writes its base back although it was loaded, STM does not if it stores
  it (`cpu.cpp:441`).  ADD and MOV to the PC keep bit 0, and read the PC as the address
  plus 2.  `run` "Returns number of steps executed" (`cpu.h:70`) and does not count the
  instruction that halts.
* Trace: ADD and SUB of SP are shown as push (the branch for them comes too late),
  a hint as pop, LDRH as LDR with a word's offset, BLX as bx; loads with a register
  offset or relative to the PC, and ADD Rd,SP/PC, as ??.
* The README gives 10000 as the default number of steps; it is 100,000 (`main.cpp:11`).
* UART: the level of a full receive FIFO overlaps the transmit level in FIFO_LVL;
  `uart.h` speaks of 16 bytes.
* Flash: SECTOR_ERASE with an incomplete address erases; PAGE_PROGRAM ignores the
  offset in the page; BURST_LEN counts words, not bytes.
* I2C: in a write through CR, bits 15:8 are the register number and hold START and
  STOP, so a write with STOP is acknowledged and always names a register above 3,
  which ignores it.
* CAN: RX_OVERFLOW is never cleared.
* A window of the peripheral bus that ends at 2^32 is never found.

## 6. Not modelled

Argument parsing, and the text of what is printed, operands in the disassembly included:
pure I/O.  Which tracer is the process's active one.  The demos, which are clients of
the kernel and the peripherals like the ones modelled: what their tasks call is among
what the clients of the modules may call at any time.  From main: blocking calls (`lock`,
`take`, `send`, `receive` and `wait_bits` outside a task switch the kernel without a current
task), and `try_lock`, which would make no task the owner.  On the CAN bus: a second attach of a
controller that is listed, attaching one that was built without a bus, and a bus destroyed
before its controllers, all of which leave pointers that no destructor removes.  CAN payloads
beyond their identity.  More than one call of `SimulationRunner::run`, wall times, final
registers.  Reads of registers without an effect.

## 7. Plan

1. Done: kernel, primitives, parallel runner, peripherals, and the machine; proofs of
   kernel, primitives, runner, peripherals and machine.  Every safety property that a
   passing run checks is proved.
2. Left: opcodes that are fetched from memory, which needs bytes of 8 bits and words of
   32 in the instances; calls from main that block; the active tracer.
