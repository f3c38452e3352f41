--------------------------------- MODULE Cpu ---------------------------------
(***************************************************************************)
(* src/cpu.h, cpu.cpp and trace.h: the CPU, its decoder and instructions,  *)
(* and the disassembler that prints what it does.                          *)
(*                                                                         *)
(* Opcodes are the 16-bit numbers of the code.  Which opcode is fetched is *)
(* up to the environment (constant Instrs): words are narrower in a model  *)
(* than opcodes, so memory cannot hold them.  Every instruction operator   *)
(* is a machine after the instruction; a fault keeps what was done before  *)
(* it, as an exception does.                                               *)
(***************************************************************************)
EXTENDS Alu, Memory

CONSTANTS
  RESET_SP,    \* initial stack pointer
  Instrs,      \* opcodes the program may hold
  Starts,      \* register files with which run() is called
  RunSteps,    \* arguments of run()
  MaxCycles    \* bound on the instructions of a behaviour

Halfwords == 0..65535              \* the values of an opcode
RegFiles  == [0..15 -> WordSet]

ASSUME CpuAssumption ==
  /\ CELL * CELL * CELL * CELL = Span
  /\ 256 <= Span                        \* an immediate of 8 bits is a word
  /\ SRAM_BASE + SRAM_SIZE + 4 <= Span  \* no word lies across the end
  /\ RESET_SP \in WordSet
  /\ Instrs \subseteq Halfwords /\ Starts \subseteq RegFiles
  /\ RunSteps \subseteq Nat /\ MaxCycles \in Nat

VARIABLES
  core,        \* the members of CortexM0, its memory, and the exception thrown
  phase,       \* "idle", "load", inside "run", "done", or "failed" by exception
  steps,       \* local of run()
  max_steps,   \* argument of run()
  printed      \* the last two lines that the trace callback printed

cpuVars == <<core, phase, steps, max_steps, printed>>

SP == 13
LR == 14
PC == 15

\* The constructors of CortexM0, with reset(), and of the memory.
Reset ==
  [regs |-> [r \in 0..15 |-> IF r = SP THEN RESET_SP ELSE 0],
   apsr |-> NoFlags, halted |-> FALSE, bl_offset |-> 0, cycles |-> 0,
   mem |-> EmptyMemory, fault |-> "none"]

NoLine == [pc |-> 0, instr |-> 0]

CpuInit ==
  /\ core = Reset /\ phase = "idle"
  /\ steps = 0 /\ max_steps = 0
  /\ printed = <<NoLine, NoLine>>

-----------------------------------------------------------------------------
(* Parts of opcodes and of machines.                                       *)

\* The n bits of i from bit lo, and a bit as a Boolean.
Field(i, lo, n) == (i \div 2^lo) % 2^n
Flag(i, b)      == Field(i, b, 1) = 1
Sext(x, n)      == IF x >= 2^(n - 1) THEN x - 2^n ELSE x

\* An opcode shifts by less than the width of a word.
ASSUME ShiftAssumption ==
  \A i \in Instrs : Field(i, 11, 5) <= 2 => Field(i, 6, 5) < WORD_BITS

Wrap(x)         == x % Span
Even(x)         == x - (x % 2)       \* x & ~1u
OddOf(x)        == Even(x) + 1       \* x | 1u
Aligned(x)      == x - (x % 4)       \* x & ~3u

SetReg(s, r, v)     == [s EXCEPT !.regs[r] = v]
set_pc(s, v)        == SetReg(s, PC, Even(v))
Result(s, rd, v, f) == [s EXCEPT !.regs[rd] = v, !.apsr = f]
Fault(s, what)      == [s EXCEPT !.fault = what]

Load(s, rd, addr, n) ==
  IF Accessible(addr, n) THEN SetReg(s, rd, Read(s.mem, addr, n))
  ELSE Fault(s, "BusFault")

Store(s, addr, n, v) ==
  IF Accessible(addr, n) THEN [s EXCEPT !.mem = Write(@, addr, n, v)]
  ELSE Fault(s, "BusFault")

-----------------------------------------------------------------------------
(* Data processing.                                                        *)

Shifted(s, rd, shift) ==
  Result(s, rd, shift.res, update_nz([s.apsr EXCEPT !.C = shift.carry], shift.res))

exec_shift_imm(s, i) ==
  Shifted(s, Field(i, 0, 3),
          ShiftImm(Field(i, 11, 2), s.regs[Field(i, 3, 3)], Field(i, 6, 5), s.apsr.C))

Sum(s, rd, a, b, cin) ==
  Result(s, rd, add32(a, b, cin).res, AddFlags(s.apsr, a, b, cin))

Difference(s, rd, a, b) == Result(s, rd, sub32(a, b).res, SubFlags(s.apsr, a, b))

Compare(s, a, b) == [s EXCEPT !.apsr = SubFlags(@, a, b)]

exec_add_sub(s, i) ==
  LET a  == s.regs[Field(i, 3, 3)]
      b  == IF Flag(i, 10) THEN Field(i, 6, 3) ELSE s.regs[Field(i, 6, 3)]
      rd == Field(i, 0, 3)
  IN  IF Flag(i, 9) THEN Difference(s, rd, a, b) ELSE Sum(s, rd, a, b, FALSE)

exec_imm8(s, i) ==
  LET op == Field(i, 11, 2)  rd == Field(i, 8, 3)  imm8 == Field(i, 0, 8)
  IN  CASE op = 0 -> Result(s, rd, imm8, update_nz(s.apsr, imm8))
        [] op = 1 -> Compare(s, s.regs[rd], imm8)
        [] op = 2 -> Sum(s, rd, s.regs[rd], imm8, FALSE)
        [] op = 3 -> Difference(s, rd, s.regs[rd], imm8)

exec_alu_shift(s, op, rd, a, b) == Shifted(s, rd, ShiftReg(op, a, b % 256, s.apsr.C))

exec_alu_arith(s, op, rd, a, b) ==
  CASE op = 5  -> Sum(s, rd, a, b, s.apsr.C)
    [] op = 6  -> Sum(s, rd, a, Not(b), s.apsr.C)
    [] op = 9  -> Result(s, rd, sub32(0, b).res, NegFlags(s.apsr, b))
    [] op = 10 -> Compare(s, a, b)
    [] op = 11 -> [s EXCEPT !.apsr = AddFlags(@, a, b, FALSE)]

\* The product is formed of signed factors, which are congruent to the
\* unsigned ones.
Logical(op, a, b) ==
  CASE op \in {0, 8} -> And(a, b)
    [] op = 1  -> Eor(a, b)
    [] op = 12 -> Orr(a, b)
    [] op = 13 -> Wrap(Signed(a) * Signed(b))
    [] op = 14 -> And(a, Not(b))
    [] op = 15 -> Not(b)

exec_alu(s, i) ==
  LET op == Field(i, 6, 4)  rd == Field(i, 0, 3)
      a  == s.regs[rd]      b  == s.regs[Field(i, 3, 3)]
  IN  CASE op \in {2, 3, 4, 7}      -> exec_alu_shift(s, op, rd, a, b)
        [] op \in {5, 6, 9, 10, 11} -> exec_alu_arith(s, op, rd, a, b)
        [] op = 8 -> [s EXCEPT !.apsr = update_nz(@, Logical(op, a, b))]
        [] op \in {0, 1} \cup 12..15 ->
             LET res == Logical(op, a, b) IN Result(s, rd, res, update_nz(s.apsr, res))

\* BX or POP to an even address ends the simulation.
JumpTo(s, v) == [set_pc(s, v) EXCEPT !.halted = @ \/ v % 2 = 0]

\* ADD and MOV to the PC keep bit 0.
exec_hi_reg_bx(s, i) ==
  LET op == Field(i, 8, 2)
      rd == 8 * Field(i, 7, 1) + Field(i, 0, 3)
      a  == s.regs[rd]
      b  == s.regs[Field(i, 3, 4)]
  IN  CASE op = 0 -> SetReg(s, rd, Wrap(a + b))
        [] op = 1 -> Compare(s, a, b)
        [] op = 2 -> SetReg(s, rd, b)
        [] op = 3 /\ Flag(i, 7)  -> JumpTo(SetReg(s, LR, OddOf(s.regs[PC])), b)
        [] op = 3 /\ ~Flag(i, 7) -> JumpTo(s, b)

-----------------------------------------------------------------------------
(* Loads, stores and the stack.                                            *)

exec_ldr_pc(s, i) ==
  Load(s, Field(i, 8, 3), Wrap(Aligned(Wrap(s.regs[PC] + 2)) + 4 * Field(i, 0, 8)), 4)

\* One access of n bytes, a load if load holds.
Transfer(s, load, rd, addr, n) ==
  IF load THEN Load(s, rd, Wrap(addr), n) ELSE Store(s, Wrap(addr), n, s.regs[rd])

exec_ldr_str_reg(s, i) ==
  Transfer(s, Flag(i, 11), Field(i, 0, 3),
           s.regs[Field(i, 3, 3)] + s.regs[Field(i, 6, 3)], IF Flag(i, 10) THEN 1 ELSE 4)

exec_ldr_str_imm(s, i) ==
  LET n == IF Flag(i, 12) THEN 1 ELSE 4
  IN  Transfer(s, Flag(i, 11), Field(i, 0, 3),
               s.regs[Field(i, 3, 3)] + n * Field(i, 6, 5), n)

exec_ldrh_strh_imm(s, i) ==
  Transfer(s, Flag(i, 11), Field(i, 0, 3),
           s.regs[Field(i, 3, 3)] + 2 * Field(i, 6, 5), 2)

exec_ldr_str_sp(s, i) ==
  Transfer(s, Flag(i, 11), Field(i, 8, 3), s.regs[SP] + 4 * Field(i, 0, 8), 4)

exec_add_sp_pc(s, i) ==
  LET base == IF Flag(i, 11) THEN s.regs[SP] ELSE Aligned(Wrap(s.regs[PC] + 2))
  IN  SetReg(s, Field(i, 8, 3), Wrap(base + 4 * Field(i, 0, 8)))

exec_sp_ops(s, i) ==
  LET imm == 4 * Field(i, 0, 7)
  IN  SetReg(s, SP, Wrap(s.regs[SP] + (IF Flag(i, 7) THEN -imm ELSE imm)))

\* Nothing more happens once an exception is thrown.
Unless(s, next) == IF s.fault # "none" THEN s ELSE next

Push(s, r) ==
  LET low == SetReg(s, SP, Wrap(s.regs[SP] - 4))
  IN  Unless(s, Store(low, low.regs[SP], 4, s.regs[r]))

Pop(s, r) ==
  LET got == Load(s, r, s.regs[SP], 4)
  IN  Unless(s, Unless(got, SetReg(got, SP, Wrap(s.regs[SP] + 4))))

\* POP's last word, the new PC.
PopPC(s) ==
  LET got == Pop(s, PC) IN Unless(got, JumpTo(got, got.regs[PC]))

\* The registers of the list i, popped in ascending order.
PopList(s, i) ==
  LET after[k \in 0..8] ==
        IF k = 0 THEN s
        ELSE IF Flag(i, k - 1) THEN Pop(after[k - 1], k - 1) ELSE after[k - 1]
  IN  after[8]

\* Mutant: they are pushed in ascending order.
PushAscending(s, i) ==
  LET after[k \in 0..8] ==
        IF k = 0 THEN s
        ELSE IF Flag(i, k - 1) THEN Push(after[k - 1], k - 1) ELSE after[k - 1]
  IN  after[8]

\* Pushed in descending order.
PushList(s, i) ==
  LET after[k \in 0..8] ==
        IF k = 0 THEN s
        ELSE IF Flag(i, 8 - k) THEN Push(after[k - 1], 8 - k) ELSE after[k - 1]
  IN  after[8]

exec_push_pop(s, i) ==
  IF Flag(i, 11)
  THEN LET popped == PopList(s, i) IN IF Flag(i, 8) THEN PopPC(popped) ELSE popped
  ELSE PushList(IF Flag(i, 8) THEN Push(s, LR) ELSE s, i)

\* LDM and STM: register r, at the address that the registers before it have
\* come to.
Moving(m, i, r) ==
  IF m.cpu.fault # "none" \/ ~Flag(i, r) THEN m
  ELSE [cpu |-> Transfer(m.cpu, Flag(i, 11), r, m.addr, 4), addr |-> Wrap(m.addr + 4)]

\* The base is written back unless STM stores it.
exec_ldm_stm(s, i) ==
  LET rb == Field(i, 8, 3)
      after[k \in 0..8] ==
        IF k = 0 THEN [cpu |-> s, addr |-> s.regs[rb]] ELSE Moving(after[k - 1], i, k - 1)
      moved == after[8]
  IN  IF moved.cpu.fault = "none" /\ (Flag(i, 11) \/ ~Flag(i, rb))
      THEN SetReg(moved.cpu, rb, moved.addr) ELSE moved.cpu

-----------------------------------------------------------------------------
(* Branches.  The PC is already at the next instruction.                   *)

\* Mutant: the offset counts from the next instruction.
BranchShort(s, i) == set_pc(s, Wrap(s.regs[PC] + 2 * Sext(Field(i, 0, 11), 11)))

exec_branch(s, i) == set_pc(s, Wrap(s.regs[PC] + 2 + 2 * Sext(Field(i, 0, 11), 11)))

exec_branch_cond(s, i) ==
  IF condition_passes(s.apsr, Field(i, 8, 4))
  THEN set_pc(s, Wrap(s.regs[PC] + 2 + 2 * Sext(Field(i, 0, 8), 8)))
  ELSE s

exec_bl_upper(s, i) ==
  [s EXCEPT !.bl_offset = Wrap(s.regs[PC] + 2 + 4096 * Sext(Field(i, 0, 11), 11))]

\* Mutant: the link register is set after the jump.
BlLinksLate(s, i) ==
  LET jumped == set_pc(s, Wrap(s.bl_offset + 2 * Field(i, 0, 11)))
  IN  SetReg(jumped, LR, OddOf(jumped.regs[PC]))

exec_bl_lower(s, i) ==
  set_pc(SetReg(s, LR, OddOf(s.regs[PC])), Wrap(s.bl_offset + 2 * Field(i, 0, 11)))

-----------------------------------------------------------------------------
(* Decoding.                                                               *)

execute(s, i) ==
  LET top4 == Field(i, 12, 4)  top5 == Field(i, 11, 5)
      top6 == Field(i, 10, 6)  top8 == Field(i, 8, 8)
  IN  CASE top5 <= 2               -> exec_shift_imm(s, i)
        [] top5 = 3                -> exec_add_sub(s, i)
        [] top5 \in 4..7           -> exec_imm8(s, i)
        [] top6 = 16               -> exec_alu(s, i)
        [] top6 = 17               -> exec_hi_reg_bx(s, i)
        [] top5 = 9                -> exec_ldr_pc(s, i)
        [] top4 = 5 /\ ~Flag(i, 9) -> exec_ldr_str_reg(s, i)
        [] top4 \in {6, 7}         -> exec_ldr_str_imm(s, i)
        [] top4 = 8                -> exec_ldrh_strh_imm(s, i)
        [] top4 = 9                -> exec_ldr_str_sp(s, i)
        [] top4 = 10               -> exec_add_sp_pc(s, i)
        [] top8 = 176              -> exec_sp_ops(s, i)
        [] top8 \in {190, 191}     -> s   \* BKPT and hints
        [] top4 = 11 /\ top8 \notin {176, 190, 191} -> exec_push_pop(s, i)
        [] top4 = 12               -> exec_ldm_stm(s, i)
        [] top4 = 13 /\ top8 # 223 -> exec_branch_cond(s, i)
        [] top5 = 28               -> exec_branch(s, i)
        [] top5 = 30               -> exec_bl_upper(s, i)
        [] top5 = 31               -> exec_bl_lower(s, i)
        [] OTHER                   -> Fault(s, "Undefined")

\* What a line of the trace says: the mnemonic and, of a branch, the address.
Disassembly(mnemonic, target) == [mnemonic |-> mnemonic, target |-> target]

disassemble(pc, i) ==
  LET top4 == Field(i, 12, 4)  top5 == Field(i, 11, 5)  top6 == Field(i, 10, 6)
      Shown(m) == Disassembly(m, 0)
      Of(names, k) == Shown(names[k + 1])
  IN  CASE top5 <= 2     -> Of(<<"lsl", "lsr", "asr">>, top5)
        [] top5 = 3      -> Of(<<"add", "sub">>, Field(i, 9, 1))
        [] top5 \in 4..7 -> Of(<<"mov", "cmp", "add", "sub">>, top5 - 4)
        [] top6 = 16 -> Of(<<"and", "eor", "lsl", "lsr", "asr", "adc", "sbc", "ror",
                             "tst", "neg", "cmp", "cmn", "orr", "mul", "bic", "mvn">>,
                           Field(i, 6, 4))
        [] top6 = 17 -> Of(<<"add", "cmp", "mov", "bx">>, Field(i, 8, 2))
        [] top4 = 11 -> Of(<<"push", "pop">>, Field(i, 11, 1))
        [] top4 = 13 /\ Field(i, 8, 4) # 15 ->
             Disassembly("b<cond>", Wrap(pc + 4 + 2 * Sext(Field(i, 0, 8), 8)))
        [] top5 = 28 -> Disassembly("b", Wrap(pc + 4 + 2 * Sext(Field(i, 0, 11), 11)))
        [] top5 = 30 -> Shown("bl_h")
        [] top5 = 31 -> Shown("bl_l")
        [] top4 \in 6..9 -> Of(<<"str", "ldr">>, Field(i, 11, 1))
        [] top4 = 12 -> Of(<<"stm", "ldm">>, Field(i, 11, 1))
        [] OTHER     -> Shown("??")

-----------------------------------------------------------------------------
(* Running.                                                                *)

StartRun(n) == phase' = "run" /\ steps' = 0 /\ max_steps' = n

\* A caller sets the registers of a new CPU and calls run.
Begin(start, n) ==
  /\ phase = "idle"
  /\ n <= MaxCycles
  /\ core' = [core EXCEPT !.regs = start]
  /\ StartRun(n)
  /\ UNCHANGED printed

\* run() again.  The bound lets pass a CPU that has halted, which does nothing.
RunAgain(n) ==
  /\ phase = "done"
  /\ core.halted \/ core.cycles + n <= MaxCycles
  /\ StartRun(n)
  /\ UNCHANGED <<core, printed>>

\* One step() of run's loop, with the opcode i, and the loop's test after it.
step(i) ==
  LET pc   == core.regs[PC]
      next == SetReg(core, PC, Wrap(pc + 2))
      done == execute(next, i)
  IN  /\ phase = "run" /\ steps < max_steps /\ ~core.halted
      /\ \/ /\ ~Accessible(pc, 2)
            /\ core' = Fault(core, "BusFault")
            /\ phase' = "failed"
            /\ UNCHANGED <<steps, printed>>
         \/ /\ Accessible(pc, 2)
            /\ printed' = <<printed[2], [pc |-> pc, instr |-> i]>>
            /\ IF done.fault # "none"
               THEN core' = done /\ phase' = "failed" /\ UNCHANGED steps
               ELSE /\ core' = [done EXCEPT !.cycles = @ + 1]
                    /\ steps' = IF done.halted THEN steps ELSE steps + 1
                    /\ phase' = IF done.halted \/ steps' = max_steps THEN "done" ELSE "run"
      /\ UNCHANGED max_steps

\* The loop ends at once: nothing to do, or the CPU has halted before.
RunReturns ==
  /\ phase = "run" /\ (steps >= max_steps \/ core.halted)
  /\ phase' = "done"
  /\ UNCHANGED <<core, steps, max_steps, printed>>

\* Memory is cleared and the CPU reset.
StartOver ==
  /\ phase \in {"done", "failed"}
  /\ core' = Reset /\ phase' = "idle"
  /\ steps' = 0 /\ max_steps' = 0
  /\ printed' = <<NoLine, NoLine>>

-----------------------------------------------------------------------------
(* Properties: each looks at the instruction a step has executed without   *)
(* an exception, and at the registers it read.                             *)

Executed == core'.cycles > core.cycles
Opcode   == printed'[2].instr
Operand  == [core.regs EXCEPT ![PC] = Wrap(@ + 2)]

\* The operands of an addition a + b + k or subtraction a - b - k.
Arithmetic(i) ==
  LET top5 == Field(i, 11, 5)
      op   == Field(i, 6, 4)
      lo   == Operand[Field(i, 0, 3)]
      rs   == Operand[Field(i, 3, 3)]
      Of(sub, a, b, k) == {[sub |-> sub, a |-> a, b |-> b, k |-> k]}
      carry == Carry(core.apsr.C)
  IN  CASE top5 = 3 ->
             Of(Flag(i, 9), rs, IF Flag(i, 10) THEN Field(i, 6, 3) ELSE Operand[Field(i, 6, 3)], 0)
        [] top5 \in 5..7 -> Of(top5 # 6, Operand[Field(i, 8, 3)], Field(i, 0, 8), 0)
        [] Field(i, 8, 8) = 69 ->
             Of(TRUE, Operand[8 * Field(i, 7, 1) + Field(i, 0, 3)], Operand[Field(i, 3, 4)], 0)
        [] Field(i, 10, 6) = 16 /\ op \in {5, 11} -> Of(FALSE, lo, rs, IF op = 5 THEN carry ELSE 0)
        [] Field(i, 10, 6) = 16 /\ op \in {6, 10} -> Of(TRUE, lo, rs, IF op = 6 THEN 1 - carry ELSE 0)
        [] Field(i, 10, 6) = 16 /\ op = 9 -> Of(TRUE, 0, rs, 0)
        [] OTHER -> {}

\* The flags that an addition, subtraction or comparison leaves are those of
\* exact arithmetic: C is unsigned overflow (or no borrow) and V signed
\* overflow, also when a carry is taken in, at the boundaries of the word and
\* of the sign; after a comparison every condition of a branch means the
\* unsigned or signed comparison it is named for.
FlagsAreExact ==
  [][Executed => \A o \in Arithmetic(Opcode) :
       /\ ~o.sub => ExactSum(core'.apsr, o.a, o.b, o.k)
       /\ o.sub  => ExactDifference(core'.apsr, o.a, o.b, o.k)
       /\ o.sub /\ o.k = 0 => MeansComparison(core'.apsr, o.a, o.b)]_cpuVars

\* A shift by one bit.
ShiftOnce(op, x) ==
  CASE op = "lsl" -> Shift(Wrap(2 * x), x >= MSB)
    [] op = "lsr" -> Shift(x \div 2, x % 2 = 1)
    [] op = "asr" -> Shift((x \div 2) + (IF x >= MSB THEN MSB ELSE 0), x % 2 = 1)
    [] op = "ror" -> Shift((x \div 2) + (x % 2) * MSB, x % 2 = 1)

\* n times; one bit more than the width empties a word, and rotations repeat.
ShiftBy(op, x, n, c) ==
  LET times == IF n <= WORD_BITS THEN n
               ELSE IF op = "ror" THEN 1 + ((n - 1) % WORD_BITS) ELSE WORD_BITS + 1
      after[k \in 0..times] ==
        IF k = 0 THEN Shift(x, c) ELSE ShiftOnce(op, after[k - 1].res)
  IN  after[times]

\* The operand and the amount of a shift; 0 in the opcode of LSR and ASR means
\* the width of the word.
ShiftOperands(i) ==
  IF Field(i, 10, 6) = 16
  THEN [x |-> Operand[Field(i, 0, 3)], n |-> Operand[Field(i, 3, 3)] % 256]
  ELSE [x |-> Operand[Field(i, 3, 3)],
        n |-> IF Field(i, 11, 5) # 0 /\ Field(i, 6, 5) = 0 THEN WORD_BITS ELSE Field(i, 6, 5)]

\* A shift or rotation by any amount, also 0, the width of the word and more,
\* has the result and the carry of that many shifts by one bit; an amount of 0
\* keeps the carry.
ShiftsAreExact ==
  [][Executed =>
       LET op == disassemble(0, Opcode).mnemonic
       IN  op \in {"lsl", "lsr", "asr", "ror"} =>
             LET o == ShiftOperands(Opcode)
                 want == ShiftBy(op, o.x, o.n, core.apsr.C)
             IN  /\ core'.regs[Field(Opcode, 0, 3)] = want.res
                 /\ core'.apsr.C = want.carry
                 /\ core'.apsr.Z = (want.res = 0)]_cpuVars

BX_LR == 18288   \* 0x4770

\* A call comes back: BX LR after a BLX, or after the second half of a BL,
\* continues behind the call.  The halves of a BL that follow each other go to
\* the 22-bit offset that they hold together, whatever was left in bl_offset_.
CallsReturn ==
  [][Executed /\ core.regs[PC] % 2 = 0 =>
       LET upper == printed[2].instr
           lower == Opcode
           far   == Sext(2048 * Field(upper, 0, 11) + Field(lower, 0, 11), 22)
           back  == execute(core', BX_LR)
       IN  /\ (Field(lower, 11, 5) = 31 \/ Field(lower, 7, 9) = 143) /\ ~core'.halted =>
                back.regs[PC] = Operand[PC] /\ ~back.halted
           /\ /\ Field(upper, 11, 5) = 30 /\ Field(lower, 11, 5) = 31
              /\ core.regs[PC] = Wrap(printed[2].pc + 2)
              => core'.regs[PC] = Wrap(printed[2].pc + 4 + 2 * far)]_cpuVars

\* POP undoes PUSH: after a PUSH that did not fault, the POP of the same list
\* finds each register's value and the stack pointer as it was, and comes to
\* the address in LR, halting exactly if that is not a Thumb address.
StackRoundTrip ==
  [][Executed /\ Field(Opcode, 9, 7) = 90 =>
       LET back  == execute(core', Opcode + 2048)
           saved == {r \in 0..7 : Flag(Opcode, r)} \cup {SP}
       IN  /\ back.fault = "none"
           /\ \A r \in saved : back.regs[r] = core.regs[r]
           /\ Flag(Opcode, 8) =>
                /\ back.regs[PC] = Even(core.regs[LR])
                /\ back.halted <=> core.regs[LR] % 2 = 0]_cpuVars

Branching == {"b", "b<cond>", "bx", "bl_l", "pop"}
Storing   == {"str", "stm", "push"}
Flagging  == {"lsl", "lsr", "asr", "ror", "and", "eor", "orr", "mul", "bic", "mvn",
              "adc", "sbc", "neg", "tst", "cmp", "cmn", "add", "sub", "mov"}

\* The opcodes for which the disassembler is only approximate (README.md,
\* Limitations): loads relative to the PC, register offsets and ADD Rd, SP|PC
\* are shown as ??, SP adjustments as push, BKPT and hints as pop, BLX as bx.
Misprinted(i) ==
  \/ Field(i, 8, 8) \in 72..95 \cup 160..176 \cup {190, 191}
  \/ Field(i, 7, 9) = 143

\* The number of registers in the list of a PUSH or POP.
ListLength(i) ==
  Field(i, 0, 1) + Field(i, 1, 1) + Field(i, 2, 1) + Field(i, 3, 1) + Field(i, 4, 1)
    + Field(i, 5, 1) + Field(i, 6, 1) + Field(i, 7, 1) + Field(i, 8, 1)

\* The trace and the CPU decode alike.  For every opcode: control leaves the
\* sequence only in lines that show a branch or a write to the PC, the address
\* printed for a branch is the one it goes to, and flags change only in lines
\* that show an instruction which sets them.  For every opcode that is not
\* Misprinted: some instruction is shown, memory changes only in lines that
\* show a store, bx leaves LR alone, and push and pop move SP by the list.
TraceIsTrue ==
  [][Executed =>
       LET line  == disassemble(core.regs[PC], Opcode)
           moves == core'.regs[PC] # Operand[PC]
           high  == line.mnemonic \in {"add", "mov"} /\ Field(Opcode, 7, 1) = 1 /\ Field(Opcode, 0, 3) = 7
           words == ListLength(Opcode)
       IN  /\ moves => line.mnemonic \in Branching \/ high
           /\ line.mnemonic = "b" \/ (line.mnemonic = "b<cond>" /\ moves) =>
                core'.regs[PC] = Even(line.target)
           /\ core'.apsr # core.apsr => line.mnemonic \in Flagging
           /\ ~Misprinted(Opcode) =>
                /\ line.mnemonic # "??"
                /\ core'.mem # core.mem => line.mnemonic \in Storing
                /\ line.mnemonic = "bx" => core'.regs[LR] = core.regs[LR]
                /\ line.mnemonic = "push" => core'.regs[SP] = Wrap(core.regs[SP] - 4 * words)
                /\ line.mnemonic = "pop" => core'.regs[SP] = Wrap(core.regs[SP] + 4 * words)]_cpuVars
=============================================================================
