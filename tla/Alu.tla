--------------------------------- MODULE Alu ---------------------------------
(***************************************************************************)
(* src/cpu.cpp: the arithmetic of the CPU.  Words are numbers below        *)
(* 2^WORD_BITS; the code has WORD_BITS = 32.  MSB is the weight of the     *)
(* topmost bit, a constant of its own so that theorems need no powers.     *)
(***************************************************************************)
EXTENDS Integers

CONSTANTS WORD_BITS, MSB

Pow2[n \in Nat] == IF n = 0 THEN 1 ELSE 2 * Pow2[n - 1]

ASSUME MsbAssumption == MSB \in Nat \ {0}
ASSUME AluAssumption == WORD_BITS \in Nat \ {0} /\ MSB = Pow2[WORD_BITS - 1]

Span      == 2 * MSB
WordSet   == 0..(Span - 1)
NoFlags   == [N |-> FALSE, Z |-> FALSE, C |-> FALSE, V |-> FALSE]
FlagSets  == [N : BOOLEAN, Z : BOOLEAN, C : BOOLEAN, V : BOOLEAN]

\* The topmost bit.
Negative(x) == x >= MSB
Signed(x)   == IF Negative(x) THEN x - Span ELSE x
Not(x)      == Span - 1 - x

update_nz(f, res) == [f EXCEPT !.N = Negative(res), !.Z = (res = 0)]

-----------------------------------------------------------------------------
(* Addition and subtraction.                                               *)

Carry(cin) == IF cin THEN 1 ELSE 0

add32(a, b, cin) ==
  LET sum == a + b + Carry(cin)
  IN  [res |-> IF sum >= Span THEN sum - Span ELSE sum, carry |-> sum >= Span]

\* Mutant: a subtraction without the carry that completes the complement.
SubShort(a, b) == add32(a, Not(b), FALSE)

sub32(a, b) == add32(a, Not(b), TRUE)

\* The flags of an addition: overflow if the operands agree in sign and the
\* result does not.
AddFlags(f, a, b, cin) ==
  LET s == add32(a, b, cin)
  IN  [update_nz(f, s.res) EXCEPT
         !.C = s.carry,
         !.V = Negative(a) # Negative(s.res) /\ Negative(b) # Negative(s.res)]

\* The flags of a subtraction or comparison.
SubFlags(f, a, b) ==
  LET s == sub32(a, b)
  IN  [update_nz(f, s.res) EXCEPT
         !.C = s.carry,
         !.V = Negative(a) # Negative(b) /\ Negative(a) # Negative(s.res)]

\* The flags of NEG.
NegFlags(f, b) ==
  LET s == sub32(0, b)
  IN  [update_nz(f, s.res) EXCEPT
         !.C = s.carry, !.V = Negative(b) /\ Negative(s.res)]

condition_passes(f, cond) ==
  CASE cond = 0  -> f.Z
    [] cond = 1  -> ~f.Z
    [] cond = 2  -> f.C
    [] cond = 3  -> ~f.C
    [] cond = 4  -> f.N
    [] cond = 5  -> ~f.N
    [] cond = 6  -> f.V
    [] cond = 7  -> ~f.V
    [] cond = 8  -> f.C /\ ~f.Z
    [] cond = 9  -> ~f.C \/ f.Z
    [] cond = 10 -> f.N = f.V
    [] cond = 11 -> f.N # f.V
    [] cond = 12 -> ~f.Z /\ f.N = f.V
    [] cond = 13 -> f.Z \/ f.N # f.V
    [] cond = 14 -> TRUE
    [] OTHER     -> FALSE

-----------------------------------------------------------------------------
(* Bits and shifts.  A shift yields the result and the carry flag.         *)

Bit(x, n) == (x \div Pow2[n]) % 2 = 1
lsl(x, n) == (x * Pow2[n]) % Span
lsr(x, n) == x \div Pow2[n]
asr(x, n) == IF Negative(x) THEN Not(Not(x) \div Pow2[n]) ELSE x \div Pow2[n]
Shift(res, carry) == [res |-> res, carry |-> carry]

\* The word whose bits are those in S.
Word(S) ==
  LET low[n \in 0..WORD_BITS] ==
        IF n = 0 THEN 0 ELSE low[n - 1] + (IF n - 1 \in S THEN Pow2[n - 1] ELSE 0)
  IN  low[WORD_BITS]

Bits(x)   == {n \in 0..(WORD_BITS - 1) : Bit(x, n)}
And(a, b) == Word(Bits(a) \cap Bits(b))
Eor(a, b) == Word((Bits(a) \ Bits(b)) \cup (Bits(b) \ Bits(a)))
Orr(a, b) == Word(Bits(a) \cup Bits(b))

\* By an immediate: LSR and ASR #0 stand for a shift by the whole word.
ShiftImm(op, x, n, c) ==
  CASE op = 0 /\ n = 0 -> Shift(x, c)
    [] op = 0 /\ n > 0 -> Shift(lsl(x, n), Bit(x, WORD_BITS - n))
    [] op = 1 /\ n = 0 -> Shift(0, Negative(x))
    [] op = 1 /\ n > 0 -> Shift(lsr(x, n), Bit(x, n - 1))
    [] op = 2 /\ n = 0 -> Shift(asr(x, WORD_BITS - 1), Negative(x))
    [] op = 2 /\ n > 0 -> Shift(asr(x, n), Bit(x, n - 1))

\* Mutant: a rotation by a multiple of the word's width leaves the carry.
RotateKeepsCarry(x, sh, c) ==
  LET n == sh % WORD_BITS
  IN  IF n = 0 THEN Shift(x, c)
      ELSE Shift(lsr(x, n) + lsl(x, WORD_BITS - n), Bit(x, n - 1))

\* ROR by sh > 0.
Rotate(x, sh, c) ==
  LET n == sh % WORD_BITS
  IN  IF n = 0 THEN Shift(x, Negative(x))
      ELSE Shift(lsr(x, n) + lsl(x, WORD_BITS - n), Bit(x, n - 1))

\* By the low byte of a register, sh.
ShiftReg(op, x, sh, c) ==
  CASE sh = 0 -> Shift(x, c)
    [] op = 2 /\ sh > 0 ->
         IF sh < WORD_BITS THEN Shift(lsl(x, sh), Bit(x, WORD_BITS - sh))
         ELSE Shift(0, sh = WORD_BITS /\ Bit(x, 0))
    [] op = 3 /\ sh > 0 ->
         IF sh < WORD_BITS THEN Shift(lsr(x, sh), Bit(x, sh - 1))
         ELSE Shift(0, sh = WORD_BITS /\ Negative(x))
    [] op = 4 /\ sh > 0 ->
         IF sh < WORD_BITS THEN Shift(asr(x, sh), Bit(x, sh - 1))
         ELSE Shift(asr(x, WORD_BITS - 1), Negative(x))
    [] op = 7 /\ sh > 0 -> Rotate(x, sh, c)

-----------------------------------------------------------------------------
(* What the flags promise.                                                 *)

Representable == (-MSB)..(MSB - 1)

\* The flags of the sum a + b + k of exact arithmetic: C is unsigned and V
\* signed overflow.
ExactSum(f, a, b, k) ==
  /\ f.C <=> a + b + k >= Span
  /\ f.V <=> Signed(a) + Signed(b) + k \notin Representable
  /\ f.Z <=> a + b + k \in {0, Span}
  /\ f.N <=> a + b + k \in MSB..(Span - 1) \/ a + b + k >= Span + MSB

\* The flags of the difference a - b - k: C is the absence of a borrow.
ExactDifference(f, a, b, k) ==
  /\ f.C <=> a - b - k >= 0
  /\ f.V <=> Signed(a) - Signed(b) - k \notin Representable
  /\ f.Z <=> a - b - k \in {0, -Span}
  /\ f.N <=> a - b - k >= MSB \/ a - b - k \in (-MSB)..(-1)

\* What the condition codes promise after the comparison of a with b.
MeansComparison(f, a, b) ==
  /\ condition_passes(f, 0)  <=> a = b
  /\ condition_passes(f, 1)  <=> a # b
  /\ condition_passes(f, 2)  <=> a >= b
  /\ condition_passes(f, 3)  <=> a < b
  /\ condition_passes(f, 8)  <=> a > b
  /\ condition_passes(f, 9)  <=> a <= b
  /\ condition_passes(f, 10) <=> Signed(a) >= Signed(b)
  /\ condition_passes(f, 11) <=> Signed(a) < Signed(b)
  /\ condition_passes(f, 12) <=> Signed(a) > Signed(b)
  /\ condition_passes(f, 13) <=> Signed(a) <= Signed(b)
=============================================================================
