------------------------------ MODULE CoreProofs ------------------------------
(***************************************************************************)
(* Theorems about the simulator itself (src/): the arithmetic of the CPU,  *)
(* the loader, the machine that executes what it loaded, and the runner of *)
(* parallel simulations.                                                   *)
(***************************************************************************)
EXTENDS Loader, ParallelSim, BasicFacts, FiniteSetTheorems, SequenceTheorems

(***************************************************************************)
(* The flags of src/cpu.cpp are those of exact arithmetic, for every width *)
(* of the word, the code's 32 bits included.  The code computes C from the *)
(* sum of its complement and V from signs of operands and result; the      *)
(* proofs compare both with the numbers that the operands stand for, by    *)
(* cases on the signs and on whether the sum wraps.                        *)
(***************************************************************************)
\* What add32 returns.
LEMMA AddFacts ==
  ASSUME NEW a \in WordSet, NEW b \in WordSet, NEW cin \in BOOLEAN
  PROVE  /\ Carry(cin) \in 0..1
         /\ add32(a, b, cin).res =
              IF a + b + Carry(cin) >= Span THEN a + b + Carry(cin) - Span
                                            ELSE a + b + Carry(cin)
         /\ add32(a, b, cin).carry <=> a + b + Carry(cin) >= Span
<1>1. Carry(cin) \in 0..1
  BY DEF Carry
<1>2. a \in Int /\ b \in Int /\ Span \in Int
  BY MsbAssumption DEF WordSet, Span
<1>3. add32(a, b, cin).res =
        IF a + b + Carry(cin) >= Span THEN a + b + Carry(cin) - Span
                                      ELSE a + b + Carry(cin)
  BY <1>1, <1>2 DEF add32
<1>4. add32(a, b, cin).carry = (a + b + Carry(cin) >= Span)
  BY <1>1, <1>2 DEF add32
<1> QED
  BY <1>1, <1>3, <1>4

\* ADD, ADC and CMN, and SBC with the complement of its operand: the flags are
\* those of a + b + carry.
THEOREM AdditionCorrect ==
  ASSUME NEW f \in FlagSets, NEW a \in WordSet, NEW b \in WordSet, NEW cin \in BOOLEAN
  PROVE  ExactSum(AddFlags(f, a, b, cin), a, b, Carry(cin))
<1> DEFINE k == Carry(cin)
           r == add32(a, b, cin).res
           g == AddFlags(f, a, b, cin)
<1>1. /\ MSB \in Nat \ {0} /\ Span = 2 * MSB
      /\ a \in 0..(Span - 1) /\ b \in 0..(Span - 1) /\ k \in 0..1
  BY MsbAssumption, AddFacts DEF Span, WordSet
<1>2. /\ r = IF a + b + k >= Span THEN a + b + k - Span ELSE a + b + k
      /\ add32(a, b, cin).carry <=> a + b + k >= Span
  BY AddFacts
<1>3. /\ g.N = (r >= MSB)
      /\ g.Z = (r = 0)
      /\ g.C = add32(a, b, cin).carry
      /\ g.V = ((a >= MSB) # (r >= MSB) /\ (b >= MSB) # (r >= MSB))
  BY DEF AddFlags, update_nz, Negative, FlagSets
<1> HIDE DEF g, r, k
<1>4. g.C <=> a + b + k >= Span
  BY <1>1, <1>2, <1>3
<1>5. g.Z <=> a + b + k \in {0, Span}
  <2>1. r = 0 <=> a + b + k \in {0, Span}
    BY <1>1, <1>2
  <2> QED
    BY <1>3, <2>1
<1>6. g.N <=> a + b + k \in MSB..(Span - 1) \/ a + b + k >= Span + MSB
  <2>1. r >= MSB <=> a + b + k \in MSB..(Span - 1) \/ a + b + k >= Span + MSB
    BY <1>1, <1>2
  <2> QED
    BY <1>3, <2>1
<1>7. g.V <=> Signed(a) + Signed(b) + k \notin Representable
  <2>1. (a >= MSB) # (r >= MSB) /\ (b >= MSB) # (r >= MSB)
        <=> Signed(a) + Signed(b) + k \notin Representable
    BY <1>1, <1>2 DEF Signed, Negative, Representable
  <2> QED
    BY <1>3, <2>1
<1> QED
  BY <1>4, <1>5, <1>6, <1>7 DEF ExactSum, g, k

\* What sub32 returns: the sum with the complement and a carry.
LEMMA SubFacts ==
  ASSUME NEW a \in WordSet, NEW b \in WordSet
  PROVE  /\ sub32(a, b).res = IF a >= b THEN a - b ELSE a - b + Span
         /\ sub32(a, b).carry <=> a >= b
<1>1. /\ MSB \in Nat /\ Span = 2 * MSB /\ a \in 0..(Span - 1) /\ b \in 0..(Span - 1)
      /\ Not(b) \in WordSet /\ Not(b) = Span - 1 - b
      /\ Carry(TRUE) = 1
  BY MsbAssumption DEF Not, WordSet, Span, Carry
<1>2. /\ sub32(a, b).res =
           IF a + Not(b) + 1 >= Span THEN a + Not(b) + 1 - Span ELSE a + Not(b) + 1
      /\ sub32(a, b).carry <=> a + Not(b) + 1 >= Span
  <2>1. /\ add32(a, Not(b), TRUE).res =
             IF a + Not(b) + Carry(TRUE) >= Span THEN a + Not(b) + Carry(TRUE) - Span
                                                 ELSE a + Not(b) + Carry(TRUE)
        /\ add32(a, Not(b), TRUE).carry <=> a + Not(b) + Carry(TRUE) >= Span
    BY <1>1, AddFacts, Zenon
  <2> QED
    BY <1>1, <2>1 DEF sub32
<1> QED
  BY <1>1, <1>2

\* The flags after a subtraction in terms of its operands.
LEMMA SubFlagsFacts ==
  ASSUME NEW f \in FlagSets, NEW a \in WordSet, NEW b \in WordSet
  PROVE  /\ SubFlags(f, a, b).C <=> a >= b
         /\ SubFlags(f, a, b).Z <=> a = b
         /\ SubFlags(f, a, b).N <=> a - b >= MSB \/ a - b \in (-MSB)..(-1)
         /\ SubFlags(f, a, b).V <=> Signed(a) - Signed(b) \notin Representable
         /\ SubFlags(f, a, b).N \in BOOLEAN /\ SubFlags(f, a, b).V \in BOOLEAN
<1> DEFINE r == sub32(a, b).res
           g == SubFlags(f, a, b)
<1>1. /\ MSB \in Nat \ {0} /\ Span = 2 * MSB
      /\ a \in 0..(Span - 1) /\ b \in 0..(Span - 1)
  BY MsbAssumption DEF Span, WordSet
<1>2. /\ r = IF a >= b THEN a - b ELSE a - b + Span
      /\ sub32(a, b).carry <=> a >= b
  BY SubFacts
<1>3. /\ g.N = (r >= MSB)
      /\ g.Z = (r = 0)
      /\ g.C = sub32(a, b).carry
      /\ g.V = ((a >= MSB) # (b >= MSB) /\ (a >= MSB) # (r >= MSB))
  BY DEF SubFlags, update_nz, Negative, FlagSets
<1>t. g.N \in BOOLEAN /\ g.V \in BOOLEAN
  BY <1>3
<1> HIDE DEF g, r
<1>4. g.C <=> a >= b
  BY <1>1, <1>2, <1>3
<1>5. g.Z <=> a = b
  <2>1. r = 0 <=> a = b
    BY <1>1, <1>2
  <2> QED
    BY <1>3, <2>1
<1>6. g.N <=> a - b >= MSB \/ a - b \in (-MSB)..(-1)
  <2>1. r >= MSB <=> a - b >= MSB \/ a - b \in (-MSB)..(-1)
    BY <1>1, <1>2
  <2> QED
    BY <1>3, <2>1
<1>7. g.V <=> Signed(a) - Signed(b) \notin Representable
  <2>1. (a >= MSB) # (b >= MSB) /\ (a >= MSB) # (r >= MSB)
        <=> Signed(a) - Signed(b) \notin Representable
    BY <1>1, <1>2 DEF Signed, Negative, Representable
  <2> QED
    BY <1>3, <2>1
<1> QED
  BY <1>4, <1>5, <1>6, <1>7, <1>t DEF g

\* SUB and CMP: the flags are those of a - b.
THEOREM SubtractionCorrect ==
  ASSUME NEW f \in FlagSets, NEW a \in WordSet, NEW b \in WordSet
  PROVE  ExactDifference(SubFlags(f, a, b), a, b, 0)
<1> DEFINE g == SubFlags(f, a, b)
<1>1. /\ MSB \in Nat \ {0} /\ Span = 2 * MSB
      /\ a \in 0..(Span - 1) /\ b \in 0..(Span - 1)
      /\ Signed(a) \in Int /\ Signed(b) \in Int
  BY MsbAssumption DEF Span, WordSet, Signed
<1>2. /\ g.C <=> a >= b
      /\ g.Z <=> a = b
      /\ g.N <=> a - b >= MSB \/ a - b \in (-MSB)..(-1)
      /\ g.V <=> Signed(a) - Signed(b) \notin Representable
  BY SubFlagsFacts
<1> HIDE DEF g
<1>3. /\ a >= b <=> a - b - 0 >= 0
      /\ a = b <=> a - b - 0 \in {0, -Span}
      /\ a - b - 0 = a - b
      /\ Signed(a) - Signed(b) - 0 = Signed(a) - Signed(b)
  BY <1>1
<1> QED
  BY <1>2, <1>3, Zenon DEF ExactDifference, g

\* SBC is an addition of the complement: its flags are those of a - b - borrow,
\* the borrow being the absence of the carry.
THEOREM BorrowCorrect ==
  ASSUME NEW f \in FlagSets, NEW a \in WordSet, NEW b \in WordSet, NEW cin \in BOOLEAN
  PROVE  ExactDifference(AddFlags(f, a, Not(b), cin), a, b, 1 - Carry(cin))
<1> DEFINE k == Carry(cin)
           g == AddFlags(f, a, Not(b), cin)
<1>1. /\ MSB \in Nat \ {0} /\ Span = 2 * MSB
      /\ a \in 0..(Span - 1) /\ b \in 0..(Span - 1) /\ k \in 0..1
      /\ Not(b) = Span - 1 - b /\ Not(b) \in WordSet
  BY MsbAssumption DEF Span, WordSet, Not, Carry
<1>2. ExactSum(g, a, Not(b), k)
  BY <1>1, AdditionCorrect
<1> HIDE DEF g, k
<1>3. /\ g.C <=> a + Not(b) + k >= Span
      /\ g.V <=> Signed(a) + Signed(Not(b)) + k \notin Representable
      /\ g.Z <=> a + Not(b) + k \in {0, Span}
      /\ g.N <=> a + Not(b) + k \in MSB..(Span - 1) \/ a + Not(b) + k >= Span + MSB
  BY <1>2 DEF ExactSum
<1>4. a + Not(b) + k = a - b - (1 - k) + Span
  BY <1>1
<1>5. Signed(a) + Signed(Not(b)) + k = Signed(a) - Signed(b) - (1 - k)
  BY <1>1 DEF Signed, Negative
<1>6. /\ a + Not(b) + k >= Span <=> a - b - (1 - k) >= 0
      /\ a + Not(b) + k \in {0, Span} <=> a - b - (1 - k) \in {0, -Span}
      /\ a + Not(b) + k \in MSB..(Span - 1) \/ a + Not(b) + k >= Span + MSB
         <=> a - b - (1 - k) >= MSB \/ a - b - (1 - k) \in (-MSB)..(-1)
  BY <1>1, <1>4
<1> QED
  BY <1>3, <1>5, <1>6, Zenon DEF ExactDifference, g, k

\* NEG: the flags are those of 0 - b, with a test for overflow of its own.
THEOREM NegationCorrect ==
  ASSUME NEW f \in FlagSets, NEW b \in WordSet
  PROVE  ExactDifference(NegFlags(f, b), 0, b, 0)
<1> DEFINE r == sub32(0, b).res
           g == NegFlags(f, b)
<1>1. /\ MSB \in Nat \ {0} /\ Span = 2 * MSB
      /\ 0 \in WordSet /\ b \in 0..(Span - 1)
  BY MsbAssumption DEF Span, WordSet
<1>2. /\ r = IF 0 >= b THEN 0 - b ELSE 0 - b + Span
      /\ sub32(0, b).carry <=> 0 >= b
  BY <1>1, SubFacts
<1>3. /\ g.N = (r >= MSB)
      /\ g.Z = (r = 0)
      /\ g.C = sub32(0, b).carry
      /\ g.V = (b >= MSB /\ r >= MSB)
  BY DEF NegFlags, update_nz, Negative, FlagSets
<1> HIDE DEF g, r
<1>4. /\ 0 >= b <=> 0 - b - 0 >= 0
      /\ r = 0 <=> 0 - b - 0 \in {0, -Span}
      /\ r >= MSB <=> 0 - b - 0 >= MSB \/ 0 - b - 0 \in (-MSB)..(-1)
      /\ b >= MSB /\ r >= MSB <=> Signed(0) - Signed(b) - 0 \notin Representable
  BY <1>1, <1>2 DEF Signed, Negative, Representable
<1> QED
  BY <1>2, <1>3, <1>4, Zenon DEF ExactDifference, g

\* A conditional branch after CMP is taken exactly if the comparison that its
\* condition is named for holds, unsigned (HS, LO, HI, LS) or signed (GE, LT,
\* GT, LE): the sign of the difference is wrong exactly when V says so.
THEOREM ComparisonCorrect ==
  ASSUME NEW f \in FlagSets, NEW a \in WordSet, NEW b \in WordSet
  PROVE  MeansComparison(SubFlags(f, a, b), a, b)
<1> DEFINE g == SubFlags(f, a, b)
<1>1. /\ MSB \in Nat \ {0} /\ Span = 2 * MSB
      /\ a \in 0..(Span - 1) /\ b \in 0..(Span - 1)
  BY MsbAssumption DEF Span, WordSet
<1>2. /\ g.C <=> a >= b
      /\ g.Z <=> a = b
      /\ g.N <=> a - b >= MSB \/ a - b \in (-MSB)..(-1)
      /\ g.V <=> Signed(a) - Signed(b) \notin Representable
      /\ g.N \in BOOLEAN /\ g.V \in BOOLEAN
  BY SubFlagsFacts
<1> HIDE DEF g
<1>3. Signed(a) >= Signed(b) <=>
        ((a - b >= MSB \/ a - b \in (-MSB)..(-1)) <=> Signed(a) - Signed(b) \notin Representable)
  BY <1>1 DEF Signed, Negative, Representable
<1>4. (g.N <=> g.V) <=> Signed(a) >= Signed(b)
  BY <1>2, <1>3, Zenon
<1>5. /\ Signed(a) = Signed(b) <=> a = b
      /\ Signed(a) < Signed(b) <=> ~(Signed(a) >= Signed(b))
      /\ Signed(a) > Signed(b) <=> Signed(a) >= Signed(b) /\ a # b
      /\ Signed(a) <= Signed(b) <=> ~(Signed(a) >= Signed(b)) \/ a = b
      /\ a < b <=> ~(a >= b)
      /\ a > b <=> a >= b /\ a # b
      /\ a <= b <=> ~(a >= b) \/ a = b
  BY <1>1 DEF Signed, Negative
<1>6. /\ condition_passes(g, 0)  = g.Z
      /\ condition_passes(g, 1)  = ~g.Z
      /\ condition_passes(g, 2)  = g.C
      /\ condition_passes(g, 3)  = ~g.C
      /\ condition_passes(g, 8)  = (g.C /\ ~g.Z)
      /\ condition_passes(g, 9)  = (~g.C \/ g.Z)
      /\ condition_passes(g, 10) = (g.N = g.V)
      /\ condition_passes(g, 11) = (g.N # g.V)
      /\ condition_passes(g, 12) = (~g.Z /\ g.N = g.V)
      /\ condition_passes(g, 13) = (g.Z \/ g.N # g.V)
  BY DEF condition_passes
<1>7. g.N = g.V <=> Signed(a) >= Signed(b)
  BY <1>2, <1>4
<1> QED
  BY <1>2, <1>5, <1>6, <1>7 DEF MeansComparison, g

(***************************************************************************)
(* The machine that run_simulation builds: what its parts hold, for every  *)
(* size of word, byte and memory that the assumptions allow.               *)
(***************************************************************************)

Memories == [Index -> Octets]
Faults   == {"none", "BusFault", "Undefined"}

Machines ==
  [regs : RegFiles, apsr : FlagSets, halted : BOOLEAN, bl_offset : WordSet, cycles : Nat,
   mem : Memories, fault : Faults]

\* The parts of a machine have their types.
LEMMA MachineFields ==
  ASSUME NEW s \in Machines
  PROVE  /\ s.regs \in RegFiles /\ s.apsr \in FlagSets /\ s.halted \in BOOLEAN
         /\ s.bl_offset \in WordSet /\ s.cycles \in Nat /\ s.mem \in Memories
         /\ s.fault \in Faults
         /\ \A r \in 0..15 : s.regs[r] \in WordSet
         /\ s.apsr.N \in BOOLEAN /\ s.apsr.Z \in BOOLEAN /\ s.apsr.C \in BOOLEAN /\ s.apsr.V \in BOOLEAN
<1>1. /\ s.regs \in RegFiles /\ s.apsr \in FlagSets /\ s.halted \in BOOLEAN
         /\ s.bl_offset \in WordSet /\ s.cycles \in Nat /\ s.mem \in Memories
         /\ s.fault \in Faults
  BY DEF Machines
<1>2. \A r \in 0..15 : s.regs[r] \in WordSet
  BY <1>1 DEF RegFiles
<1>3. s.apsr.N \in BOOLEAN /\ s.apsr.Z \in BOOLEAN /\ s.apsr.C \in BOOLEAN /\ s.apsr.V \in BOOLEAN
  BY <1>1 DEF FlagSets
<1> QED
  BY <1>1, <1>2, <1>3

\* t has the fields of s but those that are named.
SameButRegs(t, s) ==
  /\ t.apsr = s.apsr /\ t.halted = s.halted /\ t.bl_offset = s.bl_offset
  /\ t.cycles = s.cycles /\ t.mem = s.mem /\ t.fault = s.fault

\* t is s with v in register r.
Puts(t, s, r, v) ==
  /\ SameButRegs(t, s) /\ t.regs[r] = v
  /\ \A q \in 0..15 : q # r => t.regs[q] = s.regs[q]

\* Assigning a register.
LEMMA SetRegFacts ==
  ASSUME NEW s \in Machines, NEW r \in 0..15, NEW v \in WordSet
  PROVE  SetReg(s, r, v) \in Machines /\ Puts(SetReg(s, r, v), s, r, v)
<1> DEFINE g == [s.regs EXCEPT ![r] = v]
<1>1. s.regs \in RegFiles
  BY MachineFields
<1>2. /\ g \in RegFiles /\ g[r] = v
      /\ \A q \in 0..15 : q # r => g[q] = s.regs[q]
  BY <1>1 DEF RegFiles
<1>3. SetReg(s, r, v) = [s EXCEPT !.regs = g]
  BY DEF SetReg
<1> HIDE DEF g
<1>4. [s EXCEPT !.regs = g] \in Machines
  BY <1>2 DEF Machines
<1>5. [s EXCEPT !.regs = g].regs = g
  BY DEF Machines
<1>6. SameButRegs([s EXCEPT !.regs = g], s)
  BY DEF Machines, SameButRegs
<1>7. Puts([s EXCEPT !.regs = g], s, r, v)
  BY <1>2, <1>5, <1>6 DEF Puts
<1> QED
  BY <1>3, <1>4, <1>7

\* t is s with v in register r and the flags f.
Sets(t, s, r, v, f) ==
  /\ t.apsr = f /\ t.cycles = s.cycles /\ t.mem = s.mem
  /\ t.regs[r] = v
  /\ \A q \in 0..15 : q # r => t.regs[q] = s.regs[q]

\* Assigning a register and the flags.
LEMMA ResultFacts ==
  ASSUME NEW s \in Machines, NEW r \in 0..15, NEW v \in WordSet, NEW f \in FlagSets
  PROVE  Result(s, r, v, f) \in Machines /\ Sets(Result(s, r, v, f), s, r, v, f)
<1> DEFINE g == [s.regs EXCEPT ![r] = v]
<1>1. s.regs \in RegFiles
  BY MachineFields
<1>2. /\ g \in RegFiles /\ g[r] = v
      /\ \A q \in 0..15 : q # r => g[q] = s.regs[q]
  BY <1>1 DEF RegFiles
<1>3. Result(s, r, v, f) = [s EXCEPT !.regs = g, !.apsr = f]
  BY DEF Result
<1> HIDE DEF g
<1>4. [s EXCEPT !.regs = g, !.apsr = f] \in Machines
  BY <1>2 DEF Machines
<1>5. /\ [s EXCEPT !.regs = g, !.apsr = f].regs = g
      /\ [s EXCEPT !.regs = g, !.apsr = f].apsr = f
      /\ [s EXCEPT !.regs = g, !.apsr = f].cycles = s.cycles
      /\ [s EXCEPT !.regs = g, !.apsr = f].mem = s.mem
  BY DEF Machines
<1>6. Sets([s EXCEPT !.regs = g, !.apsr = f], s, r, v, f)
  BY <1>2, <1>5 DEF Sets
<1> QED
  BY <1>3, <1>4, <1>6

\* t is s with the exception w thrown.
Throws(t, s, w) ==
  /\ t.fault = w /\ t.regs = s.regs /\ t.apsr = s.apsr /\ t.mem = s.mem
  /\ t.cycles = s.cycles /\ t.bl_offset = s.bl_offset

\* t is s with the memory m.
Fills(t, s, m) ==
  /\ t.mem = m /\ t.regs = s.regs /\ t.apsr = s.apsr /\ t.cycles = s.cycles
  /\ t.fault = s.fault /\ t.bl_offset = s.bl_offset /\ t.halted = s.halted

\* The other updates.
LEMMA UpdateFacts ==
  ASSUME NEW s \in Machines
  PROVE  /\ \A f \in FlagSets :
              /\ [s EXCEPT !.apsr = f] \in Machines /\ [s EXCEPT !.apsr = f].apsr = f
              /\ [s EXCEPT !.apsr = f].regs = s.regs /\ [s EXCEPT !.apsr = f].mem = s.mem
              /\ [s EXCEPT !.apsr = f].cycles = s.cycles
         /\ \A m \in Memories :
              [s EXCEPT !.mem = m] \in Machines /\ Fills([s EXCEPT !.mem = m], s, m)
         /\ \A w \in Faults : Fault(s, w) \in Machines /\ Throws(Fault(s, w), s, w)
         /\ \A w \in WordSet :
              /\ [s EXCEPT !.bl_offset = w] \in Machines
              /\ [s EXCEPT !.bl_offset = w].regs = s.regs
              /\ [s EXCEPT !.bl_offset = w].apsr = s.apsr
              /\ [s EXCEPT !.bl_offset = w].mem = s.mem
              /\ [s EXCEPT !.bl_offset = w].cycles = s.cycles
              /\ [s EXCEPT !.bl_offset = w].bl_offset = w
              /\ [s EXCEPT !.bl_offset = w].fault = s.fault
              /\ [s EXCEPT !.bl_offset = w].halted = s.halted
         /\ \A n \in Nat :
              /\ [s EXCEPT !.cycles = n] \in Machines
              /\ [s EXCEPT !.cycles = n].regs = s.regs
              /\ [s EXCEPT !.cycles = n].apsr = s.apsr
              /\ [s EXCEPT !.cycles = n].mem = s.mem
              /\ [s EXCEPT !.cycles = n].cycles = n
              /\ [s EXCEPT !.cycles = n].halted = s.halted
              /\ [s EXCEPT !.cycles = n].bl_offset = s.bl_offset
              /\ [s EXCEPT !.cycles = n].fault = s.fault
         /\ \A b \in BOOLEAN :
              /\ [s EXCEPT !.halted = b] \in Machines
              /\ [s EXCEPT !.halted = b].regs = s.regs
              /\ [s EXCEPT !.halted = b].apsr = s.apsr
              /\ [s EXCEPT !.halted = b].mem = s.mem
              /\ [s EXCEPT !.halted = b].cycles = s.cycles
              /\ [s EXCEPT !.halted = b].bl_offset = s.bl_offset
              /\ [s EXCEPT !.halted = b].halted = b
              /\ [s EXCEPT !.halted = b].fault = s.fault
BY DEF Machines, Fault, Fills, Throws

(***************************************************************************)
(* Words by their bits.  The recursions over bit numbers (Pow2, Word) are  *)
(* functions, which the provers know only once their existence is shown:   *)
(* by induction over the set of bounds for which there is one.             *)
(***************************************************************************)

Doubles(g, m) == g = [n \in 0..m |-> IF n = 0 THEN 1 ELSE 2 * g[n - 1]]

\* The recursive function Pow2 exists: by induction over its domain.
LEMMA DoublesExist == \A m \in Nat : \E g : Doubles(g, m)
<1> DEFINE S == {m \in Nat : \E g : Doubles(g, m)}
<1>1. 0 \in S
  <2> DEFINE g == [n \in 0..0 |-> 1]
  <2>1. g = [n \in 0..0 |-> IF n = 0 THEN 1 ELSE 2 * g[n - 1]]
    OBVIOUS
  <2> QED
    BY <2>1 DEF Doubles
<1>2. ASSUME NEW m \in S PROVE m + 1 \in S
  <2>1. PICK g : Doubles(g, m)
    BY <1>2
  <2>m. m \in Nat
    BY <1>2
  <2> DEFINE h == [n \in 0..(m + 1) |-> IF n = m + 1 THEN 2 * g[m] ELSE g[n]]
  <2>2. \A n \in 0..m : g[n] = IF n = 0 THEN 1 ELSE 2 * g[n - 1]
    BY <2>1 DEF Doubles
  <2>3. \A n \in 0..(m + 1) : h[n] = IF n = 0 THEN 1 ELSE 2 * h[n - 1]
    BY <2>m, <2>2
  <2>4. h = [n \in 0..(m + 1) |-> IF n = 0 THEN 1 ELSE 2 * h[n - 1]]
    BY <2>3
  <2>5. Doubles(h, m + 1)
    BY <2>4 DEF Doubles
  <2> QED
    BY <2>m, <2>5
<1>3. S = Nat
  <2>1. S \subseteq Nat
    OBVIOUS
  <2> HIDE DEF S
  <2> QED
    BY <1>1, <1>2, <2>1, Induction
<1> QED
  BY <1>3

\* Two tables of the powers of two agree where both are defined.
LEMMA DoublesAgree ==
  ASSUME NEW m \in Nat, NEW g, Doubles(g, m), NEW k \in Nat, m <= k, NEW h, Doubles(h, k)
  PROVE  \A n \in 0..m : g[n] = h[n]
<1> DEFINE S == {n \in Nat : n <= m => g[n] = h[n]}
<1>g. \A n \in 0..m : g[n] = IF n = 0 THEN 1 ELSE 2 * g[n - 1]
  BY DEF Doubles
<1>h. \A n \in 0..k : h[n] = IF n = 0 THEN 1 ELSE 2 * h[n - 1]
  BY DEF Doubles
<1>1. 0 \in S
  BY <1>g, <1>h
<1>2. ASSUME NEW n \in S PROVE n + 1 \in S
  <2>1. CASE n + 1 <= m
    <3>1. /\ n \in Nat /\ n + 1 \in 0..m /\ n + 1 \in 0..k /\ n + 1 # 0 /\ n + 1 - 1 = n
      BY <2>1
    <3>2. g[n] = h[n]
      BY <2>1, <3>1
    <3>3. g[n + 1] = 2 * g[n] /\ h[n + 1] = 2 * h[n]
      BY <1>g, <1>h, <3>1
    <3> QED
      BY <3>1, <3>2, <3>3
  <2>2. CASE ~(n + 1 <= m)
    BY <2>2
  <2> QED
    BY <2>1, <2>2
<1>3. S = Nat
  <2>1. S \subseteq Nat
    OBVIOUS
  <2> HIDE DEF S
  <2> QED
    BY <1>1, <1>2, <2>1, Induction
<1> QED
  BY <1>3

\* Pow2 satisfies its recursive definition.
LEMMA Pow2Def == \A n \in Nat : Pow2[n] = IF n = 0 THEN 1 ELSE 2 * Pow2[n - 1]
<1> DEFINE G(m) == CHOOSE g : Doubles(g, m)
           f == [n \in Nat |-> G(n)[n]]
<1>1. \A m \in Nat : Doubles(G(m), m)
  BY DoublesExist, Zenon
<1> HIDE DEF G
<1>2. ASSUME NEW n \in Nat PROVE f[n] = IF n = 0 THEN 1 ELSE 2 * f[n - 1]
  <2>1. G(n)[n] = IF n = 0 THEN 1 ELSE 2 * G(n)[n - 1]
    <3>1. G(n) = [j \in 0..n |-> IF j = 0 THEN 1 ELSE 2 * G(n)[j - 1]]
      BY <1>1 DEF Doubles
    <3>2. n \in 0..n
      OBVIOUS
    <3> QED
      BY <3>1, <3>2
  <2>2. CASE n = 0
    BY <2>1, <2>2
  <2>3. CASE n # 0
    <3>1. n - 1 \in Nat /\ n - 1 <= n /\ n - 1 \in 0..(n - 1)
      BY <2>3
    <3>2. G(n - 1)[n - 1] = G(n)[n - 1]
      BY <1>1, <3>1, DoublesAgree
    <3> QED
      BY <2>1, <2>3, <3>1, <3>2
  <2> QED
    BY <2>2, <2>3
<1>3. f = [n \in Nat |-> IF n = 0 THEN 1 ELSE 2 * f[n - 1]]
  BY <1>2
<1>4. Pow2 = [n \in Nat |-> IF n = 0 THEN 1 ELSE 2 * Pow2[n - 1]]
  BY <1>3 DEF Pow2
<1> QED
  BY <1>4

\* Powers of two are positive.
LEMMA Pow2Type == \A n \in Nat : Pow2[n] \in Nat \ {0}
<1> DEFINE S == {n \in Nat : Pow2[n] \in Nat \ {0}}
<1>1. 0 \in S
  BY Pow2Def
<1>2. ASSUME NEW n \in S PROVE n + 1 \in S
  <2>1. n + 1 \in Nat /\ n + 1 # 0 /\ n + 1 - 1 = n
    BY <1>2
  <2>2. Pow2[n + 1] = 2 * Pow2[n]
    BY <2>1, Pow2Def
  <2> QED
    BY <1>2, <2>1, <2>2
<1>3. S = Nat
  <2>1. S \subseteq Nat
    OBVIOUS
  <2> HIDE DEF S
  <2> QED
    BY <1>1, <1>2, <2>1, Induction
<1> QED
  BY <1>3

\* The next power of two.
LEMMA Pow2Next ==
  ASSUME NEW n \in Nat
  PROVE  Pow2[n + 1] = 2 * Pow2[n] /\ Pow2[n] \in Nat \ {0} /\ Pow2[n + 1] \in Nat \ {0}
<1>1. n + 1 \in Nat /\ n + 1 # 0 /\ n + 1 - 1 = n
  OBVIOUS
<1>2. Pow2[n + 1] = 2 * Pow2[n]
  BY <1>1, Pow2Def
<1> QED
  BY <1>1, <1>2, Pow2Type

\* Powers multiply as their exponents add.
LEMMA Pow2Sum == \A n \in Nat : \A k \in Nat : Pow2[k + n] = Pow2[k] * Pow2[n]
<1> DEFINE S == {n \in Nat : \A k \in Nat : Pow2[k + n] = Pow2[k] * Pow2[n]}
<1>1. 0 \in S
  <2>1. Pow2[0] = 1
    BY Pow2Def
  <2>2. ASSUME NEW k \in Nat PROVE Pow2[k + 0] = Pow2[k] * Pow2[0]
    <3>1. k + 0 = k /\ Pow2[k] \in Nat
      BY Pow2Type
    <3> QED
      BY <2>1, <3>1
  <2> QED
    BY <2>2
<1>2. ASSUME NEW n \in S PROVE n + 1 \in S
  <2>0. n \in Nat
    BY <1>2
  <2>1. ASSUME NEW k \in Nat PROVE Pow2[k + (n + 1)] = Pow2[k] * Pow2[n + 1]
    <3>1. k + (n + 1) = (k + n) + 1 /\ k + n \in Nat
      BY <2>0
    <3>2. Pow2[(k + n) + 1] = 2 * Pow2[k + n] /\ Pow2[n + 1] = 2 * Pow2[n]
      BY <2>0, <3>1, Pow2Next
    <3>3. Pow2[k + n] = Pow2[k] * Pow2[n]
      BY <1>2
    <3>4. Pow2[k] \in Nat /\ Pow2[n] \in Nat
      BY <2>0, Pow2Type
    <3> DEFINE a == Pow2[k]
               b == Pow2[n]
    <3>5. 2 * (a * b) = a * (2 * b)
      <4> HIDE DEF a, b
      <4> QED
        BY <3>4 DEF a, b
    <3> QED
      BY <3>1, <3>2, <3>3, <3>5
  <2> QED
    BY <2>0, <2>1
<1>3. S = Nat
  <2>1. S \subseteq Nat
    OBVIOUS
  <2> HIDE DEF S
  <2> QED
    BY <1>1, <1>2, <2>1, Induction
<1> QED
  BY <1>3

\* The words are the numbers below a power of two.
LEMMA SpanPower ==
  /\ WORD_BITS \in Nat \ {0} /\ MSB \in Nat \ {0} /\ Span \in Nat \ {0} /\ Span = 2 * MSB
  /\ Span = Pow2[WORD_BITS] /\ MSB = Pow2[WORD_BITS - 1]
<1>1. WORD_BITS \in Nat /\ WORD_BITS # 0 /\ MSB = Pow2[WORD_BITS - 1] /\ MSB \in Nat \ {0}
  BY AluAssumption, MsbAssumption
<1>2. Pow2[WORD_BITS] = 2 * Pow2[WORD_BITS - 1]
  BY <1>1, Pow2Def
<1> QED
  BY <1>1, <1>2 DEF Span

-----------------------------------------------------------------------------
(* The results of the ALU are words.                                       *)

\* Words are numbers below the span, and Wrap and Not return words.
LEMMA WordFacts ==
  /\ Span \in Nat \ {0} /\ 0 \in WordSet
  /\ \A x : x \in WordSet <=> x \in Int /\ 0 <= x /\ x < Span
  /\ \A x \in Int : x % Span \in WordSet /\ Wrap(x) \in WordSet
  /\ \A x \in WordSet : Not(x) \in WordSet
<1>1. Span \in Nat \ {0}
  BY SpanPower
<1>2. \A x : x \in WordSet <=> x \in Int /\ 0 <= x /\ x < Span
  BY <1>1 DEF WordSet
<1>3. \A x \in Int : x % Span \in WordSet
  BY <1>1, <1>2
<1>4. \A x \in WordSet : Not(x) \in WordSet
  BY <1>1, <1>2 DEF Not
<1> QED
  BY <1>1, <1>2, <1>3, <1>4 DEF Wrap

\* A quotient is not above the dividend.
LEMMA QuotientBound ==
  ASSUME NEW x \in Nat, NEW p \in Nat \ {0}
  PROVE  x \div p \in Nat /\ x \div p <= x
<1> DEFINE q == x \div p
           r == x % p
<1>1. q \in Nat /\ r \in 0..(p - 1) /\ x = p * q + r
  BY DivMod
<1> HIDE DEF q, r
<1>2. p * q >= q
  BY <1>1
<1> QED
  BY <1>1, <1>2 DEF q

\* low[n] of Word(S), the number of the bits below n.
Lows(g, S, m) ==
  g = [n \in 0..m |-> IF n = 0 THEN 0 ELSE g[n - 1] + (IF n - 1 \in S THEN Pow2[n - 1] ELSE 0)]

\* The recursion of Word exists.
LEMMA LowsExist ==
  ASSUME NEW B
  PROVE  \A m \in Nat : \E g : Lows(g, B, m)
<1> DEFINE S == {m \in Nat : \E g : Lows(g, B, m)}
           Bit1(n) == IF n - 1 \in B THEN Pow2[n - 1] ELSE 0
<1>1. 0 \in S
  <2> DEFINE g == [n \in 0..0 |-> 0]
  <2>1. g = [n \in 0..0 |-> IF n = 0 THEN 0 ELSE g[n - 1] + Bit1(n)]
    OBVIOUS
  <2>2. Lows(g, B, 0)
    BY <2>1 DEF Lows
  <2> QED
    BY <2>2
<1>2. ASSUME NEW m \in S PROVE m + 1 \in S
  <2>1. PICK g : Lows(g, B, m)
    BY <1>2
  <2>m. m \in Nat
    BY <1>2
  <2> DEFINE h == [n \in 0..(m + 1) |-> IF n = m + 1 THEN g[m] + Bit1(n) ELSE g[n]]
  <2>2. \A n \in 0..m : g[n] = IF n = 0 THEN 0 ELSE g[n - 1] + Bit1(n)
    BY <2>1 DEF Lows
  <2>3. \A n \in 0..(m + 1) : h[n] = IF n = 0 THEN 0 ELSE h[n - 1] + Bit1(n)
    <3> HIDE DEF Bit1
    <3> QED
      BY <2>m, <2>2
  <2>4. h = [n \in 0..(m + 1) |-> IF n = 0 THEN 0 ELSE h[n - 1] + Bit1(n)]
    BY <2>3
  <2>5. Lows(h, B, m + 1)
    BY <2>4 DEF Lows
  <2> QED
    BY <2>m, <2>5
<1>3. S = Nat
  <2>1. S \subseteq Nat
    OBVIOUS
  <2> HIDE DEF S
  <2> QED
    BY <1>1, <1>2, <2>1, Induction
<1> QED
  BY <1>3

\* The lowest n bits are below the nth power of two.
LEMMA LowsBound ==
  ASSUME NEW B, NEW m \in Nat, NEW g, Lows(g, B, m)
  PROVE  \A n \in 0..m : g[n] \in 0..(Pow2[n] - 1)
<1> DEFINE S == {n \in Nat : n <= m => g[n] \in 0..(Pow2[n] - 1)}
           Bit1(n) == IF n - 1 \in B THEN Pow2[n - 1] ELSE 0
<1>g. \A n \in 0..m : g[n] = IF n = 0 THEN 0 ELSE g[n - 1] + Bit1(n)
  BY DEF Lows
<1>1. 0 \in S
  <2>1. Pow2[0] = 1
    BY Pow2Def
  <2> QED
    BY <1>g, <2>1
<1>2. ASSUME NEW n \in S PROVE n + 1 \in S
  <2>1. CASE n + 1 <= m
    <3>1. n \in Nat /\ n + 1 \in 0..m /\ n + 1 # 0 /\ n + 1 - 1 = n
      BY <2>1
    <3>2. g[n] \in 0..(Pow2[n] - 1)
      BY <2>1, <3>1
    <3>3. g[n + 1] = g[n] + Bit1(n + 1) /\ Bit1(n + 1) \in {Pow2[n], 0}
      BY <1>g, <3>1
    <3>4. Pow2[n + 1] = 2 * Pow2[n] /\ Pow2[n] \in Nat
      BY <3>1, Pow2Next
    <3>5. g[n + 1] \in 0..(Pow2[n + 1] - 1)
      <4> HIDE DEF Bit1
      <4> QED
        BY <3>2, <3>3, <3>4
    <3> QED
      BY <3>1, <3>5
  <2>2. CASE ~(n + 1 <= m)
    BY <2>2
  <2> QED
    BY <2>1, <2>2
<1>3. S = Nat
  <2>1. S \subseteq Nat
    OBVIOUS
  <2> HIDE DEF S
  <2> QED
    BY <1>1, <1>2, <2>1, Induction
<1> QED
  BY <1>3

\* Any set of bits makes a word.
LEMMA WordType == ASSUME NEW S PROVE Word(S) \in WordSet
<1> DEFINE low == CHOOSE g : Lows(g, S, WORD_BITS)
<1>1. WORD_BITS \in Nat /\ Span = Pow2[WORD_BITS] /\ WORD_BITS \in 0..WORD_BITS
  BY SpanPower
<1>2. Lows(low, S, WORD_BITS)
  BY <1>1, LowsExist, Zenon
<1>3. Word(S) = low[WORD_BITS]
  BY DEF Word, Lows
<1> HIDE DEF low
<1>4. low[WORD_BITS] \in 0..(Pow2[WORD_BITS] - 1)
  BY <1>1, <1>2, LowsBound
<1> QED
  BY <1>1, <1>3, <1>4 DEF WordSet

\* The logical operations and the product return words.
LEMMA LogicalType ==
  ASSUME NEW a \in WordSet, NEW b \in WordSet, NEW op \in {0, 1, 8} \cup 12..15
  PROVE  Logical(op, a, b) \in WordSet
<1>1. And(a, b) \in WordSet /\ Eor(a, b) \in WordSet /\ Orr(a, b) \in WordSet
      /\ And(a, Not(b)) \in WordSet
  BY WordType DEF And, Eor, Orr
<1>2. Not(b) \in WordSet
  BY WordFacts
<1>3. Wrap(Signed(a) * Signed(b)) \in WordSet
  <2>0. a \in Int /\ b \in Int /\ Span \in Int
    BY WordFacts
  <2>1. Signed(a) \in Int /\ Signed(b) \in Int
    BY <2>0 DEF Signed
  <2>2. Signed(a) * Signed(b) \in Int
    BY <2>1
  <2> QED
    BY <2>2, WordFacts
<1>4. op \in {0, 8} \/ op = 1 \/ op = 12 \/ op = 13 \/ op = 14 \/ op = 15
  OBVIOUS
<1> QED
  BY <1>1, <1>2, <1>3, <1>4 DEF Logical

\* The bits that a right shift loses, and where a left shift brings them.
LEMMA RotateFits ==
  ASSUME NEW x \in WordSet, NEW n \in 0..WORD_BITS
  PROVE  /\ lsr(x, n) \in Nat /\ lsl(x, WORD_BITS - n) = (x % Pow2[n]) * Pow2[WORD_BITS - n]
         /\ lsr(x, n) + lsl(x, WORD_BITS - n) \in WordSet
<1> DEFINE p == Pow2[n]
           c == Pow2[WORD_BITS - n]
           q == x \div p
           r == x % p
<1>1. n \in Nat /\ WORD_BITS - n \in Nat /\ (WORD_BITS - n) + n = WORD_BITS
  BY SpanPower
<1>2. p \in Nat \ {0} /\ c \in Nat \ {0} /\ Span = c * p /\ x \in Nat /\ x < Span
  <2>1. Pow2[(WORD_BITS - n) + n] = c * p
    BY <1>1, Pow2Sum
  <2>2. p \in Nat \ {0} /\ c \in Nat \ {0}
    BY <1>1, Pow2Type, Zenon
  <2>3. Span = Pow2[(WORD_BITS - n) + n]
    BY <1>1, SpanPower
  <2>4. x \in Nat /\ x < Span
    BY WordFacts
  <2> QED
    BY <2>1, <2>2, <2>3, <2>4, Zenon
<1>3. lsr(x, n) = q /\ lsl(x, WORD_BITS - n) = (x * c) % Span
  BY DEF lsr, lsl
<1> HIDE DEF p, c
<1>4. q \in Nat /\ r \in 0..(p - 1) /\ x = p * q + r
  BY <1>2, DivMod
<1> HIDE DEF q, r
<1>5. x * c = (c * p) * q + r * c
  BY <1>2, <1>4
<1>6. c * p \in Nat \ {0} /\ r * c \in Nat
  BY <1>2, <1>4
<1>7. r * c + c <= c * p
  <2>1. r + 1 <= p /\ r \in Nat
    BY <1>2, <1>4
  <2>2. (r + 1) * c <= p * c
    BY <1>2, <2>1
  <2> QED
    BY <1>2, <2>1, <2>2
<1>8. r * c \in 0..(c * p - 1)
  BY <1>2, <1>6, <1>7
<1>9. (x * c) % Span = r * c
  <2>1. ((c * p) * q + r * c) % (c * p) = r * c
    <3> DEFINE y == r * c
               z == c * p
    <3>1. z \in Nat \ {0} /\ y \in 0..(z - 1) /\ q \in Nat
      BY <1>4, <1>6, <1>8
    <3> HIDE DEF y, z
    <3>2. (z * q + y) % z = y
      BY <3>1, Unique
    <3> QED
      BY <3>2 DEF y, z
  <2> QED
    BY <1>2, <1>5, <2>1
<1>10. q <= c - 1
  <2> SUFFICES ASSUME ~(q <= c - 1) PROVE FALSE
    OBVIOUS
  <2>1. q >= c
    BY <1>2, <1>4
  <2>2. p * q >= p * c
    BY <1>2, <1>4, <2>1
  <2> QED
    BY <1>2, <1>4, <2>2
<1>11. q + r * c \in 0..(Span - 1)
  BY <1>2, <1>4, <1>6, <1>7, <1>10
<1> QED
  BY <1>3, <1>4, <1>9, <1>11 DEF WordSet, r, p, c

\* Shifts return words.
LEMMA ShiftTypes ==
  ASSUME NEW x \in WordSet, NEW n \in Nat
  PROVE  lsl(x, n) \in WordSet /\ lsr(x, n) \in WordSet /\ asr(x, n) \in WordSet
<1> DEFINE p == Pow2[n]
<1>1. p \in Nat \ {0} /\ x \in Nat /\ Not(x) \in Nat /\ Not(x) \in WordSet /\ x < Span
  BY Pow2Type, WordFacts
<1> HIDE DEF p
<1>2. x * p \in Int
  BY <1>1
<1>3. x \div p \in WordSet /\ Not(x) \div p \in WordSet
  <2>1. ASSUME NEW y \in WordSet PROVE y \div p \in WordSet
    <3>1. y \in Nat /\ y < Span /\ Span \in Nat
      BY WordFacts
    <3>2. y \div p \in Nat /\ y \div p <= y
      BY <1>1, <3>1, QuotientBound
    <3> DEFINE z == y \div p
    <3> HIDE DEF z
    <3>3. z \in WordSet
      BY <3>1, <3>2, WordFacts DEF z
    <3> QED
      BY <3>3 DEF z
  <2> QED
    BY <1>1, <2>1
<1>4. Not(Not(x) \div p) \in WordSet
  BY <1>3, WordFacts
<1> QED
  BY <1>2, <1>3, <1>4, WordFacts DEF lsl, lsr, asr, p

IsShift(s) == s.res \in WordSet /\ s.carry \in BOOLEAN

\* A word and a carry make the outcome of a shift.
LEMMA IsShiftOf ==
  ASSUME NEW v \in WordSet, NEW c \in BOOLEAN PROVE IsShift(Shift(v, c))
BY DEF IsShift, Shift

\* A shift by an immediate has an outcome.
LEMMA ShiftImmType ==
  ASSUME NEW op \in 0..2, NEW x \in WordSet, NEW n \in Nat, NEW c \in BOOLEAN
  PROVE  IsShift(ShiftImm(op, x, n, c))
<1>1. 0 \in WordSet /\ WORD_BITS - 1 \in Nat
  BY WordFacts, SpanPower
<1>2. lsl(x, n) \in WordSet /\ lsr(x, n) \in WordSet /\ asr(x, n) \in WordSet
      /\ asr(x, WORD_BITS - 1) \in WordSet
  BY <1>1, ShiftTypes
<1>3. Negative(x) \in BOOLEAN /\ \A k : Bit(x, k) \in BOOLEAN
  BY DEF Negative, Bit
<1>4. /\ IsShift(Shift(x, c)) /\ IsShift(Shift(lsl(x, n), Bit(x, WORD_BITS - n)))
      /\ IsShift(Shift(0, Negative(x))) /\ IsShift(Shift(lsr(x, n), Bit(x, n - 1)))
      /\ IsShift(Shift(asr(x, WORD_BITS - 1), Negative(x)))
      /\ IsShift(Shift(asr(x, n), Bit(x, n - 1)))
  BY <1>1, <1>2, <1>3, IsShiftOf
<1> QED
  BY <1>4 DEF ShiftImm

\* A shift by a register has an outcome.
LEMMA ShiftRegType ==
  ASSUME NEW op \in {2, 3, 4, 7}, NEW x \in WordSet, NEW n \in Nat, NEW c \in BOOLEAN
  PROVE  IsShift(ShiftReg(op, x, n, c))
<1>1. 0 \in WordSet /\ WORD_BITS - 1 \in Nat /\ WORD_BITS \in Nat \ {0}
  BY WordFacts, SpanPower
<1>2. lsl(x, n) \in WordSet /\ lsr(x, n) \in WordSet /\ asr(x, n) \in WordSet
      /\ asr(x, WORD_BITS - 1) \in WordSet
  BY <1>1, ShiftTypes
<1>3. Negative(x) \in BOOLEAN /\ \A k : Bit(x, k) \in BOOLEAN
  BY DEF Negative, Bit
<1> DEFINE k == n % WORD_BITS
<1>4. k \in 0..WORD_BITS
  BY <1>1, DivMod
<1> HIDE DEF k
<1>5. lsr(x, k) + lsl(x, WORD_BITS - k) \in WordSet
  BY <1>4, RotateFits
<1>6. IsShift(Rotate(x, n, c))
  <2>1. IsShift(Shift(lsr(x, k) + lsl(x, WORD_BITS - k), Bit(x, k - 1)))
        /\ IsShift(Shift(x, Negative(x)))
    BY <1>3, <1>5, IsShiftOf
  <2> QED
    BY <2>1 DEF Rotate, k
<1>7. /\ IsShift(Shift(x, c)) /\ IsShift(Shift(lsl(x, n), Bit(x, WORD_BITS - n)))
      /\ IsShift(Shift(0, n = WORD_BITS /\ Bit(x, 0)))
      /\ IsShift(Shift(0, n = WORD_BITS /\ Negative(x)))
      /\ IsShift(Shift(lsr(x, n), Bit(x, n - 1)))
      /\ IsShift(Shift(asr(x, n), Bit(x, n - 1)))
      /\ IsShift(Shift(asr(x, WORD_BITS - 1), Negative(x)))
  BY <1>1, <1>2, <1>3, IsShiftOf
<1> QED
  BY <1>6, <1>7 DEF ShiftReg

\* Sums and differences are words.
LEMMA AddTypes ==
  ASSUME NEW a \in WordSet, NEW b \in WordSet, NEW cin \in BOOLEAN
  PROVE  add32(a, b, cin).res \in WordSet /\ sub32(a, b).res \in WordSet
<1>1. ASSUME NEW x \in WordSet, NEW y \in WordSet, NEW c \in BOOLEAN
      PROVE  add32(x, y, c).res \in WordSet
  <2>1. /\ Carry(c) \in 0..1 /\ x \in 0..(Span - 1) /\ y \in 0..(Span - 1)
        /\ Span \in Nat \ {0}
    BY SpanPower DEF Carry, WordSet
  <2>2. add32(x, y, c).res = IF x + y + Carry(c) >= Span THEN x + y + Carry(c) - Span
                             ELSE x + y + Carry(c)
    BY <2>1 DEF add32
  <2> QED
    BY <2>1, <2>2 DEF WordSet
<1>2. Not(b) \in WordSet
  BY WordFacts
<1> QED
  BY <1>1, <1>2 DEF sub32

\* Assigning two flags, or the carry.
LEMMA FlagUpdates ==
  ASSUME NEW f \in FlagSets, NEW x \in BOOLEAN, NEW y \in BOOLEAN
  PROVE  /\ [f EXCEPT !.N = x, !.Z = y] \in FlagSets
         /\ [f EXCEPT !.C = x, !.V = y] \in FlagSets
         /\ [f EXCEPT !.C = x] \in FlagSets
BY DEF FlagSets

\* The flags that each operation leaves.
LEMMA FlagTypes ==
  ASSUME NEW f \in FlagSets, NEW a, NEW b, NEW c
  PROVE  /\ update_nz(f, a) \in FlagSets
         /\ (c \in BOOLEAN => [f EXCEPT !.C = c] \in FlagSets)
         /\ AddFlags(f, a, b, c) \in FlagSets
         /\ SubFlags(f, a, b) \in FlagSets /\ NegFlags(f, b) \in FlagSets
<1>1. ASSUME NEW x PROVE update_nz(f, x) \in FlagSets
  <2>1. Negative(x) \in BOOLEAN /\ (x = 0) \in BOOLEAN
    BY DEF Negative
  <2>2. [f EXCEPT !.N = Negative(x), !.Z = (x = 0)] \in FlagSets
    BY <2>1, FlagUpdates, Zenon
  <2> QED
    BY <2>2, Zenon DEF update_nz
<1>2. ASSUME NEW x, NEW y \in BOOLEAN, NEW z \in BOOLEAN
      PROVE  [update_nz(f, x) EXCEPT !.C = y, !.V = z] \in FlagSets
  BY <1>1, FlagUpdates, Zenon
<1>3. \A x, y, z : add32(x, y, z).carry \in BOOLEAN
  BY DEF add32
<1>4. \A x, y : sub32(x, y).carry \in BOOLEAN
  BY <1>3 DEF sub32
<1> DEFINE va == Negative(a) # Negative(add32(a, b, c).res) /\ Negative(b) # Negative(add32(a, b, c).res)
           vs == Negative(a) # Negative(b) /\ Negative(a) # Negative(sub32(a, b).res)
           vn == Negative(b) /\ Negative(sub32(0, b).res)
<1>5. va \in BOOLEAN /\ vs \in BOOLEAN /\ vn \in BOOLEAN
  BY DEF Negative
<1>6. /\ AddFlags(f, a, b, c) =
           [update_nz(f, add32(a, b, c).res) EXCEPT !.C = add32(a, b, c).carry, !.V = va]
      /\ SubFlags(f, a, b) =
           [update_nz(f, sub32(a, b).res) EXCEPT !.C = sub32(a, b).carry, !.V = vs]
      /\ NegFlags(f, b) =
           [update_nz(f, sub32(0, b).res) EXCEPT !.C = sub32(0, b).carry, !.V = vn]
  BY DEF AddFlags, SubFlags, NegFlags
<1> HIDE DEF va, vs, vn
<1>7. AddFlags(f, a, b, c) \in FlagSets
  <2>1. add32(a, b, c).carry \in BOOLEAN
    BY <1>3
  <2>2. [update_nz(f, add32(a, b, c).res) EXCEPT !.C = add32(a, b, c).carry, !.V = va] \in FlagSets
    BY <1>2, <1>5, <2>1
  <2> QED
    BY <1>6, <2>2, Zenon
<1>8. SubFlags(f, a, b) \in FlagSets
  <2>1. sub32(a, b).carry \in BOOLEAN
    BY <1>4
  <2>2. [update_nz(f, sub32(a, b).res) EXCEPT !.C = sub32(a, b).carry, !.V = vs] \in FlagSets
    BY <1>2, <1>5, <2>1
  <2> QED
    BY <1>6, <2>2, Zenon
<1>9. NegFlags(f, b) \in FlagSets
  <2>1. sub32(0, b).carry \in BOOLEAN
    BY <1>4
  <2>2. [update_nz(f, sub32(0, b).res) EXCEPT !.C = sub32(0, b).carry, !.V = vn] \in FlagSets
    BY <1>2, <1>5, <2>1
  <2> QED
    BY <1>6, <2>2, Zenon
<1>10. c \in BOOLEAN => [f EXCEPT !.C = c] \in FlagSets
  BY FlagUpdates, Zenon
<1> QED
  BY <1>1, <1>7, <1>8, <1>9, <1>10

-----------------------------------------------------------------------------
(* Memory.                                                                 *)

\* An accessible address, and those next to it, are cells of the memory.
LEMMA AccessFacts ==
  ASSUME NEW addr \in WordSet, NEW n \in {1, 2, 4}, Accessible(addr, n)
  PROVE  /\ translate(addr) \in Nat
         /\ \A k \in 0..(n - 1) : translate(addr) + k \in Index
<1>1. addr \in Nat
  BY WordFacts
<1>2. translate(addr) \in Nat /\ translate(addr) + n <= SIZE
  BY <1>1, MemoryAssumption DEF Accessible, Mapped, InSram, translate
<1> QED
  BY <1>2, MemoryAssumption DEF Index

\* Cells in little-endian order make a number below the span.
LEMMA FourDigits ==
  ASSUME NEW a \in Octets, NEW b \in Octets, NEW c \in Octets, NEW d \in Octets
  PROVE  a + CELL * (b + CELL * (c + CELL * d)) \in WordSet
<1> DEFINE C == CELL
<1>1. /\ C \in Nat \ {0} /\ a \in 0..(C - 1) /\ b \in 0..(C - 1) /\ c \in 0..(C - 1)
      /\ d \in 0..(C - 1) /\ Span = C * C * C * C
  BY MemoryAssumption, CpuAssumption DEF Octets
<1> HIDE DEF C
<1>2. ASSUME NEW x \in Nat, NEW p \in Nat, x < p, NEW e \in 0..(C - 1)
      PROVE  e + C * x \in Nat /\ e + C * x < C * p
  <2>1. x + 1 <= p
    BY <1>2
  <2>2. C * (x + 1) <= C * p
    BY <1>1, <2>1
  <2>3. C * (x + 1) = C * x + C
    BY <1>1
  <2>4. C * x \in Nat /\ C * p \in Nat
    BY <1>1
  <2> QED
    BY <1>1, <2>2, <2>3, <2>4
<1>3. d \in Nat /\ d < C /\ C \in Nat /\ C * C \in Nat
  BY <1>1
<1> DEFINE x == c + C * d
<1>4. x \in Nat /\ x < C * C
  BY <1>1, <1>2, <1>3
<1> HIDE DEF x
<1> DEFINE y == b + C * x
<1>5. y \in Nat /\ y < C * (C * C)
  BY <1>1, <1>2, <1>3, <1>4
<1> HIDE DEF y
<1>6. C * (C * C) \in Nat
  BY <1>1
<1>7. a + C * y \in Nat /\ a + C * y < C * (C * (C * C))
  BY <1>1, <1>2, <1>5, <1>6
<1>8. C * (C * (C * C)) = Span
  BY <1>1
<1>9. a + C * y \in WordSet
  BY <1>7, <1>8, WordFacts
<1> QED
  BY <1>9 DEF y, x, C

\* A read returns a word.
LEMMA ReadType ==
  ASSUME NEW m \in Memories, NEW addr \in WordSet, NEW n \in {1, 2, 4}, Accessible(addr, n)
  PROVE  Read(m, addr, n) \in WordSet
<1> DEFINE B(k) == IF k < n THEN m[translate(addr) + k] ELSE 0
<1>1. \A k \in 0..(n - 1) : translate(addr) + k \in Index
  BY AccessFacts
<1>2. 0 \in Octets
  BY MemoryAssumption DEF Octets
<1>3. \A k \in {0, 1, 2, 3} : B(k) \in Octets
  BY <1>1, <1>2 DEF Memories
<1>4. Read(m, addr, n) = B(0) + CELL * (B(1) + CELL * (B(2) + CELL * B(3)))
  BY DEF Read
<1> HIDE DEF B
<1> QED
  BY <1>3, <1>4, FourDigits

\* Bytes copied into a memory leave a memory.
LEMMA LoadedType ==
  ASSUME NEW m \in Memories, NEW addr, translate(addr) \in Int, NEW bytes,
         Len(bytes) \in Nat, \A k \in 1..Len(bytes) : bytes[k] \in Octets
  PROVE  Loaded(m, addr, bytes) \in Memories
<1> DEFINE c == translate(addr)
           n == Len(bytes)
<1>1. c \in Int /\ n \in Nat
  OBVIOUS
<1> HIDE DEF c, n
<1>2. ASSUME NEW k \in Index
      PROVE  (IF k >= c /\ k < c + n THEN bytes[k - c + 1] ELSE m[k]) \in Octets
  <2>1. k \in Int
    BY MemoryAssumption DEF Index
  <2>2. CASE k >= c /\ k < c + n
    <3>1. k - c + 1 \in 1..n
      BY <1>1, <2>1, <2>2
    <3> QED
      BY <2>2, <3>1 DEF n
  <2>3. CASE ~(k >= c /\ k < c + n)
    BY <2>3 DEF Memories
  <2> QED
    BY <2>2, <2>3
<1> QED
  BY <1>2 DEF Loaded, Memories, c, n

\* A write leaves a memory.
LEMMA WriteType ==
  ASSUME NEW m \in Memories, NEW addr \in WordSet, NEW n \in {1, 2, 4}, Accessible(addr, n),
         NEW val \in WordSet
  PROVE  Write(m, addr, n, val) \in Memories
<1> DEFINE bytes == [k \in 1..n |-> (val \div Weight[k]) % CELL]
<1>1. CELL \in Nat \ {0} /\ val \in Nat
  BY MemoryAssumption, WordFacts
<1>2. CELL * CELL \in Nat \ {0}
  BY <1>1
<1>3. CELL * CELL * CELL \in Nat \ {0}
  <2> DEFINE d == CELL * CELL
  <2> HIDE DEF d
  <2>1. d * CELL \in Nat \ {0}
    BY <1>1, <1>2 DEF d
  <2> QED
    BY <2>1 DEF d
<1>4. \A k \in 1..4 : Weight[k] \in Nat \ {0}
  BY <1>1, <1>2, <1>3 DEF Weight
<1>5. ASSUME NEW k \in 1..4 PROVE (val \div Weight[k]) % CELL \in Octets
  <2> DEFINE w == Weight[k]
  <2>1. w \in Nat \ {0}
    BY <1>4
  <2> HIDE DEF w
  <2>2. val \div w \in Nat
    BY <1>1, <2>1, DivMod
  <2>3. (val \div w) % CELL \in 0..(CELL - 1)
    BY <1>1, <2>2, DivMod
  <2> QED
    BY <2>3 DEF w, Octets
<1>6. Len(bytes) = n /\ \A k \in 1..n : bytes[k] = (val \div Weight[k]) % CELL
  OBVIOUS
<1>7. \A k \in 1..n : k \in 1..4
  OBVIOUS
<1>8. translate(addr) \in Int
  BY AccessFacts
<1>9. Write(m, addr, n, val) = Loaded(m, addr, bytes)
  BY DEF Write
<1> HIDE DEF bytes
<1> QED
  BY <1>5, <1>6, <1>7, <1>8, <1>9, LoadedType

(***************************************************************************)
(* What each instruction of src/cpu.cpp does to the machine s that has     *)
(* fetched it: one lemma for every exec_ function, in the words below. The *)
(* result t is a machine, and what is not said to change is kept.          *)
(***************************************************************************)

\* Opcodes and the registers a program starts with.
LEMMA InputTypes ==
  /\ \A i \in Instrs : i \in Halfwords
  /\ \A start \in Starts : start \in RegFiles
BY CpuAssumption

\* The bits of an opcode.
LEMMA FieldTypes ==
  ASSUME NEW i \in Halfwords
  PROVE  /\ Field(i, 0, 3) \in 0..7 /\ Field(i, 3, 3) \in 0..7 /\ Field(i, 6, 3) \in 0..7
         /\ Field(i, 8, 3) \in 0..7 /\ Field(i, 6, 5) \in 0..31 /\ Field(i, 0, 8) \in 0..255
         /\ Field(i, 3, 4) \in 0..15 /\ Field(i, 7, 1) \in 0..1 /\ Field(i, 6, 4) \in 0..15
         /\ Field(i, 8, 2) \in 0..3 /\ Field(i, 11, 2) \in 0..3 /\ Field(i, 0, 7) \in 0..127
         /\ Field(i, 0, 11) \in 0..2047 /\ Field(i, 8, 4) \in 0..15
         /\ Field(i, 9, 1) \in 0..1 /\ Field(i, 11, 1) \in 0..1
BY DEF Field, Halfwords

OK(t, s)         == t \in Machines /\ t.cycles = s.cycles
KeepsMem(t, s)   == t.mem = s.mem
KeepsFlags(t, s) == t.apsr = s.apsr
KeepsPC(t, s)    == t.regs[PC] = s.regs[PC]

\* Data processing.
Computes(t, s) == OK(t, s) /\ KeepsMem(t, s) /\ KeepsPC(t, s)

\* A result in a low register leaves memory and PC alone.
LEMMA ResultComputes ==
  ASSUME NEW s \in Machines, NEW rd \in 0..7, NEW v \in WordSet, NEW f \in FlagSets
  PROVE  Computes(Result(s, rd, v, f), s) /\ Result(s, rd, v, f).apsr = f
<1>1. rd \in 0..15 /\ PC # rd /\ PC \in 0..15
  BY DEF PC
<1> DEFINE t == Result(s, rd, v, f)
<1>2. t \in Machines /\ Sets(t, s, rd, v, f)
  BY <1>1, ResultFacts
<1> HIDE DEF t
<1>3. t.apsr = f /\ t.cycles = s.cycles /\ t.mem = s.mem /\ t.regs[PC] = s.regs[PC]
  BY <1>1, <1>2 DEF Sets
<1> QED
  BY <1>2, <1>3 DEF Computes, OK, KeepsMem, KeepsPC, t

\* So do new flags.
LEMMA FlagsCompute ==
  ASSUME NEW s \in Machines, NEW f \in FlagSets
  PROVE  Computes([s EXCEPT !.apsr = f], s) /\ [s EXCEPT !.apsr = f].apsr = f
BY UpdateFacts DEF Computes, OK, KeepsMem, KeepsPC

\* So does a shift.
LEMMA ShiftedComputes ==
  ASSUME NEW s \in Machines, NEW rd \in 0..7, NEW shift, IsShift(shift)
  PROVE  Computes(Shifted(s, rd, shift), s)
<1>1. [s.apsr EXCEPT !.C = shift.carry] \in FlagSets
  BY MachineFields, FlagTypes DEF IsShift
<1> DEFINE g == [s.apsr EXCEPT !.C = shift.carry]
<1> HIDE DEF g
<1>2. update_nz(g, shift.res) \in FlagSets
  BY <1>1, FlagTypes DEF g
<1>3. Shifted(s, rd, shift) = Result(s, rd, shift.res, update_nz(g, shift.res))
  BY DEF Shifted, g
<1> QED
  BY <1>2, <1>3, ResultComputes DEF IsShift

\* So do an addition and a subtraction.
LEMMA SumComputes ==
  ASSUME NEW s \in Machines, NEW rd \in 0..7, NEW a \in WordSet, NEW b \in WordSet,
         NEW cin \in BOOLEAN
  PROVE  /\ Computes(Sum(s, rd, a, b, cin), s)
         /\ Sum(s, rd, a, b, cin).apsr = AddFlags(s.apsr, a, b, cin)
         /\ Computes(Difference(s, rd, a, b), s)
         /\ Difference(s, rd, a, b).apsr = SubFlags(s.apsr, a, b)
<1>1. add32(a, b, cin).res \in WordSet /\ sub32(a, b).res \in WordSet
  BY AddTypes
<1>2. s.apsr \in FlagSets
  BY MachineFields
<1>3. AddFlags(s.apsr, a, b, cin) \in FlagSets /\ SubFlags(s.apsr, a, b) \in FlagSets
  BY <1>2, FlagTypes
<1> QED
  BY <1>1, <1>3, ResultComputes DEF Sum, Difference

\* So does a comparison.
LEMMA CompareComputes ==
  ASSUME NEW s \in Machines, NEW a, NEW b
  PROVE  Computes(Compare(s, a, b), s) /\ Compare(s, a, b).apsr = SubFlags(s.apsr, a, b)
<1>1. SubFlags(s.apsr, a, b) \in FlagSets
  BY MachineFields, FlagTypes
<1>2. Compare(s, a, b) = [s EXCEPT !.apsr = SubFlags(s.apsr, a, b)]
  BY DEF Compare
<1> QED
  BY <1>1, <1>2, FlagsCompute

\* exec_shift_imm.
LEMMA ShiftImmComputes ==
  ASSUME NEW s \in Machines, NEW i \in Halfwords, Field(i, 11, 2) \in 0..2
  PROVE  Computes(exec_shift_imm(s, i), s)
<1>1. /\ Field(i, 0, 3) \in 0..7 /\ Field(i, 3, 3) \in 0..15 /\ Field(i, 6, 5) \in Nat
      /\ s.apsr.C \in BOOLEAN
  BY FieldTypes, MachineFields
<1>2. s.regs[Field(i, 3, 3)] \in WordSet
  BY <1>1, MachineFields
<1>3. IsShift(ShiftImm(Field(i, 11, 2), s.regs[Field(i, 3, 3)], Field(i, 6, 5), s.apsr.C))
  BY <1>1, <1>2, ShiftImmType
<1> QED
  BY <1>1, <1>3, ShiftedComputes DEF exec_shift_imm

\* A small number is a word.
LEMMA ByteIsWord == ASSUME NEW x \in 0..255 PROVE x \in WordSet
<1>1. 256 <= Span /\ Span \in Nat
  BY WordFacts, CpuAssumption
<1> QED
  BY <1>1 DEF WordSet

\* exec_add_sub, and the flags it leaves.
LEMMA AddSubComputes ==
  ASSUME NEW s \in Machines, NEW i \in Halfwords
  PROVE  LET a == s.regs[Field(i, 3, 3)]
             b == IF Flag(i, 10) THEN Field(i, 6, 3) ELSE s.regs[Field(i, 6, 3)]
         IN  /\ Computes(exec_add_sub(s, i), s)
             /\ a \in WordSet /\ b \in WordSet
             /\ exec_add_sub(s, i).apsr =
                  IF Flag(i, 9) THEN SubFlags(s.apsr, a, b) ELSE AddFlags(s.apsr, a, b, FALSE)
<1> DEFINE a == s.regs[Field(i, 3, 3)]
           b == IF Flag(i, 10) THEN Field(i, 6, 3) ELSE s.regs[Field(i, 6, 3)]
           rd == Field(i, 0, 3)
<1>1. rd \in 0..7 /\ Field(i, 3, 3) \in 0..15 /\ Field(i, 6, 3) \in 0..15 /\ Field(i, 6, 3) \in 0..255
  BY FieldTypes
<1>2. a \in WordSet /\ s.regs[Field(i, 6, 3)] \in WordSet /\ Field(i, 6, 3) \in WordSet
  BY <1>1, MachineFields, ByteIsWord
<1>3. b \in WordSet
  BY <1>2
<1>4. exec_add_sub(s, i) = IF Flag(i, 9) THEN Difference(s, rd, a, b) ELSE Sum(s, rd, a, b, FALSE)
  BY DEF exec_add_sub
<1> HIDE DEF a, b, rd
<1>5. /\ Computes(Sum(s, rd, a, b, FALSE), s)
      /\ Sum(s, rd, a, b, FALSE).apsr = AddFlags(s.apsr, a, b, FALSE)
      /\ Computes(Difference(s, rd, a, b), s)
      /\ Difference(s, rd, a, b).apsr = SubFlags(s.apsr, a, b)
  BY <1>1, <1>2, <1>3, SumComputes
<1>6. Computes(exec_add_sub(s, i), s)
  BY <1>4, <1>5
<1>7. exec_add_sub(s, i).apsr =
        IF Flag(i, 9) THEN SubFlags(s.apsr, a, b) ELSE AddFlags(s.apsr, a, b, FALSE)
  BY <1>4, <1>5
<1> QED
  BY <1>2, <1>3, <1>6, <1>7 DEF a, b

\* exec_imm8, and the flags it leaves.
LEMMA Imm8Computes ==
  ASSUME NEW s \in Machines, NEW i \in Halfwords
  PROVE  LET op == Field(i, 11, 2)  a == s.regs[Field(i, 8, 3)]  b == Field(i, 0, 8)
         IN  /\ Computes(exec_imm8(s, i), s)
             /\ a \in WordSet /\ b \in WordSet
             /\ op \in {1, 3} => exec_imm8(s, i).apsr = SubFlags(s.apsr, a, b)
             /\ op = 2 => exec_imm8(s, i).apsr = AddFlags(s.apsr, a, b, FALSE)
<1> DEFINE op == Field(i, 11, 2)
           rd == Field(i, 8, 3)
           a  == s.regs[rd]
           b  == Field(i, 0, 8)
           t  == exec_imm8(s, i)
<1>1. rd \in 0..7 /\ rd \in 0..15 /\ b \in 0..255 /\ op \in 0..3
  BY FieldTypes
<1>2. a \in WordSet /\ b \in WordSet
  BY <1>1, MachineFields, ByteIsWord
<1>3. /\ op = 0 => t = Result(s, rd, b, update_nz(s.apsr, b))
      /\ op = 1 => t = Compare(s, a, b)
      /\ op = 2 => t = Sum(s, rd, a, b, FALSE)
      /\ op = 3 => t = Difference(s, rd, a, b)
  <2> DEFINE E(o) == CASE o = 0 -> Result(s, rd, b, update_nz(s.apsr, b))
                       [] o = 1 -> Compare(s, a, b)
                       [] o = 2 -> Sum(s, rd, a, b, FALSE)
                       [] o = 3 -> Difference(s, rd, a, b)
  <2>1. t = E(op)
    BY DEF exec_imm8
  <2> HIDE DEF op, rd, a, b, t
  <2>2. op = 0 => t = Result(s, rd, b, update_nz(s.apsr, b))
    BY <2>1
  <2>3. op = 1 => t = Compare(s, a, b)
    BY <2>1
  <2>4. op = 2 => t = Sum(s, rd, a, b, FALSE)
    BY <2>1
  <2>5. op = 3 => t = Difference(s, rd, a, b)
    BY <2>1
  <2> QED
    BY <2>2, <2>3, <2>4, <2>5
<1> HIDE DEF op, rd, a, b, t
<1>4. update_nz(s.apsr, b) \in FlagSets
  BY MachineFields, FlagTypes
<1>5. Computes(Result(s, rd, b, update_nz(s.apsr, b)), s)
  BY <1>1, <1>2, <1>4, ResultComputes
<1>6. Computes(Compare(s, a, b), s) /\ Compare(s, a, b).apsr = SubFlags(s.apsr, a, b)
  BY CompareComputes
<1>7. /\ Computes(Sum(s, rd, a, b, FALSE), s)
      /\ Sum(s, rd, a, b, FALSE).apsr = AddFlags(s.apsr, a, b, FALSE)
      /\ Computes(Difference(s, rd, a, b), s)
      /\ Difference(s, rd, a, b).apsr = SubFlags(s.apsr, a, b)
  BY <1>1, <1>2, SumComputes
<1>8. op = 0 \/ op = 1 \/ op = 2 \/ op = 3
  BY <1>1
<1>9. Computes(t, s)
  BY <1>3, <1>5, <1>6, <1>7, <1>8, Zenon
<1>10. /\ op \in {1, 3} => t.apsr = SubFlags(s.apsr, a, b)
       /\ op = 2 => t.apsr = AddFlags(s.apsr, a, b, FALSE)
  BY <1>3, <1>6, <1>7
<1> QED
  BY <1>2, <1>9, <1>10 DEF op, rd, a, b, t

\* exec_alu, and the flags it leaves.
LEMMA AluComputes ==
  ASSUME NEW s \in Machines, NEW i \in Halfwords
  PROVE  LET op == Field(i, 6, 4)  a == s.regs[Field(i, 0, 3)]  b == s.regs[Field(i, 3, 3)]
             f  == exec_alu(s, i).apsr
         IN  /\ Computes(exec_alu(s, i), s)
             /\ a \in WordSet /\ b \in WordSet
             /\ op = 5  => f = AddFlags(s.apsr, a, b, s.apsr.C)
             /\ op = 6  => f = AddFlags(s.apsr, a, Not(b), s.apsr.C)
             /\ op = 9  => f = NegFlags(s.apsr, b)
             /\ op = 10 => f = SubFlags(s.apsr, a, b)
             /\ op = 11 => f = AddFlags(s.apsr, a, b, FALSE)
<1> DEFINE op == Field(i, 6, 4)
           rd == Field(i, 0, 3)
           a  == s.regs[rd]
           b  == s.regs[Field(i, 3, 3)]
           t  == exec_alu(s, i)
<1>1. rd \in 0..7 /\ rd \in 0..15 /\ Field(i, 3, 3) \in 0..15 /\ op \in 0..15
  BY FieldTypes
<1>2. a \in WordSet /\ b \in WordSet /\ s.apsr \in FlagSets /\ s.apsr.C \in BOOLEAN
  BY <1>1, MachineFields
<1>3. Not(b) \in WordSet /\ 0 \in WordSet /\ b \in Nat
  BY <1>2, WordFacts
<1>4. /\ op \in {2, 3, 4, 7} => t = Shifted(s, rd, ShiftReg(op, a, b % 256, s.apsr.C))
      /\ op = 5  => t = Sum(s, rd, a, b, s.apsr.C)
      /\ op = 6  => t = Sum(s, rd, a, Not(b), s.apsr.C)
      /\ op = 9  => t = Result(s, rd, sub32(0, b).res, NegFlags(s.apsr, b))
      /\ op = 10 => t = Compare(s, a, b)
      /\ op = 11 => t = [s EXCEPT !.apsr = AddFlags(s.apsr, a, b, FALSE)]
      /\ op = 8  => t = [s EXCEPT !.apsr = update_nz(s.apsr, Logical(op, a, b))]
      /\ op \in {0, 1} \cup 12..15 =>
           t = Result(s, rd, Logical(op, a, b), update_nz(s.apsr, Logical(op, a, b)))
  BY <1>1 DEF exec_alu, exec_alu_shift, exec_alu_arith
<1> HIDE DEF op, rd, a, b, t
<1>5. ASSUME op \in {2, 3, 4, 7} PROVE Computes(t, s)
  <2>1. b % 256 \in Nat
    BY <1>3
  <2>2. IsShift(ShiftReg(op, a, b % 256, s.apsr.C))
    BY <1>2, <1>5, <2>1, ShiftRegType
  <2>3. Computes(Shifted(s, rd, ShiftReg(op, a, b % 256, s.apsr.C)), s)
    BY <1>1, <2>2, ShiftedComputes
  <2> QED
    BY <1>4, <1>5, <2>3
<1>6. /\ Computes(Sum(s, rd, a, b, s.apsr.C), s)
      /\ Sum(s, rd, a, b, s.apsr.C).apsr = AddFlags(s.apsr, a, b, s.apsr.C)
  BY <1>1, <1>2, SumComputes
<1>7. /\ Computes(Sum(s, rd, a, Not(b), s.apsr.C), s)
      /\ Sum(s, rd, a, Not(b), s.apsr.C).apsr = AddFlags(s.apsr, a, Not(b), s.apsr.C)
  BY <1>1, <1>2, <1>3, SumComputes
<1>8. ASSUME op = 9 PROVE Computes(t, s) /\ t.apsr = NegFlags(s.apsr, b)
  <2>1. sub32(0, b).res \in WordSet
    BY <1>2, <1>3, AddTypes
  <2>2. NegFlags(s.apsr, b) \in FlagSets
    BY <1>2, FlagTypes
  <2>3. LET r == Result(s, rd, sub32(0, b).res, NegFlags(s.apsr, b))
        IN  Computes(r, s) /\ r.apsr = NegFlags(s.apsr, b)
    BY <1>1, <2>1, <2>2, ResultComputes
  <2> QED
    BY <1>4, <1>8, <2>3
<1>9. Computes(Compare(s, a, b), s) /\ Compare(s, a, b).apsr = SubFlags(s.apsr, a, b)
  BY CompareComputes
<1>10. ASSUME op = 11 PROVE Computes(t, s) /\ t.apsr = AddFlags(s.apsr, a, b, FALSE)
  <2>1. AddFlags(s.apsr, a, b, FALSE) \in FlagSets
    BY <1>2, FlagTypes
  <2>2. LET r == [s EXCEPT !.apsr = AddFlags(s.apsr, a, b, FALSE)]
        IN  Computes(r, s) /\ r.apsr = AddFlags(s.apsr, a, b, FALSE)
    BY <2>1, FlagsCompute
  <2> QED
    BY <1>4, <1>10, <2>2
<1>11. ASSUME op \in {0, 1, 8} \cup 12..15 PROVE Computes(t, s)
  <2> DEFINE v == Logical(op, a, b)
             f == update_nz(s.apsr, v)
  <2>1. v \in WordSet
    BY <1>2, <1>11, LogicalType
  <2>2. f \in FlagSets
    BY <1>2, FlagTypes
  <2>3. t = Result(s, rd, v, f) \/ t = [s EXCEPT !.apsr = f]
    BY <1>4, <1>11
  <2> HIDE DEF v, f
  <2>4. Computes(Result(s, rd, v, f), s) /\ Computes([s EXCEPT !.apsr = f], s)
    BY <1>1, <2>1, <2>2, ResultComputes, FlagsCompute
  <2> QED
    BY <2>3, <2>4
<1>12. Computes(t, s)
  <2>1. op \in {2, 3, 4, 7} \/ op = 5 \/ op = 6 \/ op = 9 \/ op = 10 \/ op = 11
        \/ op \in {0, 1, 8} \cup 12..15
    BY <1>1
  <2> QED
    BY <1>4, <1>5, <1>6, <1>7, <1>8, <1>9, <1>10, <1>11, <2>1, Zenon
<1>13. /\ op = 5  => t.apsr = AddFlags(s.apsr, a, b, s.apsr.C)
       /\ op = 6  => t.apsr = AddFlags(s.apsr, a, Not(b), s.apsr.C)
       /\ op = 10 => t.apsr = SubFlags(s.apsr, a, b)
  BY <1>4, <1>6, <1>7, <1>9, Zenon
<1> QED
  BY <1>2, <1>8, <1>10, <1>12, <1>13 DEF op, rd, a, b, t

-----------------------------------------------------------------------------
(* Loads, stores and jumps.                                                *)

Moves(t, s) == OK(t, s) /\ KeepsFlags(t, s) /\ KeepsPC(t, s)
Quiet(t, s) == Moves(t, s) /\ KeepsMem(t, s)
Jumps(t, s) == OK(t, s) /\ KeepsMem(t, s) /\ KeepsFlags(t, s)

\* What two steps leave alone, both together do.
LEMMA FramesCompose ==
  ASSUME NEW s \in Machines
  PROVE  /\ Quiet(s, s) /\ Moves(s, s) /\ Jumps(s, s)
         /\ \A t, u : Moves(t, s) /\ Moves(u, t) => Moves(u, s)
         /\ \A t, u : Quiet(t, s) /\ Quiet(u, t) => Quiet(u, s)
         /\ \A t, u : Jumps(t, s) /\ Jumps(u, t) => Jumps(u, s)
         /\ \A t : Quiet(t, s) => Jumps(t, s)
         /\ \A t : Moves(t, s) => t \in Machines
         /\ \A t : Quiet(t, s) => t \in Machines
         /\ \A t : Jumps(t, s) => t \in Machines
BY DEF Moves, Quiet, Jumps, OK, KeepsMem, KeepsFlags, KeepsPC

\* What an assignment to a register leaves alone.
LEMMA SetRegFrame ==
  ASSUME NEW s \in Machines, NEW r \in 0..15, NEW v \in WordSet
  PROVE  /\ Jumps(SetReg(s, r, v), s) /\ SetReg(s, r, v) \in Machines
         /\ r # PC => Quiet(SetReg(s, r, v), s) /\ Moves(SetReg(s, r, v), s)
<1> DEFINE t == SetReg(s, r, v)
<1>1. t \in Machines /\ Puts(t, s, r, v)
  BY SetRegFacts
<1> HIDE DEF t
<1>2. /\ t.cycles = s.cycles /\ t.mem = s.mem /\ t.apsr = s.apsr
      /\ \A q \in 0..15 : q # r => t.regs[q] = s.regs[q]
  BY <1>1 DEF Puts, SameButRegs
<1>3. PC \in 0..15
  BY DEF PC
<1> QED
  BY <1>1, <1>2, <1>3 DEF Jumps, Quiet, Moves, OK, KeepsMem, KeepsFlags, KeepsPC, t

\* What an exception leaves alone.
LEMMA FaultFrame ==
  ASSUME NEW s \in Machines, NEW w \in Faults
  PROVE  /\ Quiet(Fault(s, w), s) /\ Fault(s, w).fault = w /\ Fault(s, w) \in Machines
<1> DEFINE t == Fault(s, w)
<1>1. t \in Machines /\ Throws(t, s, w)
  BY UpdateFacts
<1> HIDE DEF t
<1> QED
  BY <1>1 DEF Throws, Quiet, Moves, OK, KeepsMem, KeepsFlags, KeepsPC, t

\* What a load leaves alone.
LEMMA LoadFrame ==
  ASSUME NEW s \in Machines, NEW r \in 0..15, NEW addr \in WordSet, NEW n \in {1, 2, 4}
  PROVE  /\ Jumps(Load(s, r, addr, n), s)
         /\ r # PC => Quiet(Load(s, r, addr, n), s)
<1>1. CASE Accessible(addr, n)
  <2>1. Read(s.mem, addr, n) \in WordSet
    BY <1>1, ReadType, MachineFields
  <2>2. Load(s, r, addr, n) = SetReg(s, r, Read(s.mem, addr, n))
    BY <1>1 DEF Load
  <2> QED
    BY <2>1, <2>2, SetRegFrame
<1>2. CASE ~Accessible(addr, n)
  <2>1. Load(s, r, addr, n) = Fault(s, "BusFault") /\ "BusFault" \in Faults
    BY <1>2 DEF Load, Faults
  <2>2. Quiet(Fault(s, "BusFault"), s)
    BY <2>1, FaultFrame
  <2> QED
    BY <2>1, <2>2, FramesCompose
<1> QED
  BY <1>1, <1>2

\* What a store leaves alone.
LEMMA StoreFrame ==
  ASSUME NEW s \in Machines, NEW addr \in WordSet, NEW n \in {1, 2, 4}, NEW v \in WordSet
  PROVE  Moves(Store(s, addr, n, v), s)
<1>1. CASE Accessible(addr, n)
  <2> DEFINE m == Write(s.mem, addr, n, v)
             t == [s EXCEPT !.mem = m]
  <2>1. m \in Memories
    BY <1>1, WriteType, MachineFields
  <2>2. Store(s, addr, n, v) = t
    BY <1>1 DEF Store
  <2> HIDE DEF m
  <2>3. t \in Machines /\ Fills(t, s, m)
    BY <2>1, UpdateFacts
  <2> HIDE DEF t
  <2>4. Moves(t, s)
    BY <2>3 DEF Fills, Moves, OK, KeepsFlags, KeepsPC
  <2> QED
    BY <2>2, <2>4
<1>2. CASE ~Accessible(addr, n)
  <2>1. Store(s, addr, n, v) = Fault(s, "BusFault") /\ "BusFault" \in Faults
    BY <1>2 DEF Store, Faults
  <2>2. Quiet(Fault(s, "BusFault"), s)
    BY <2>1, FaultFrame
  <2> QED
    BY <2>1, <2>2 DEF Quiet
<1> QED
  BY <1>1, <1>2

\* What a load or store leaves alone.
LEMMA TransferFrame ==
  ASSUME NEW s \in Machines, NEW load \in BOOLEAN, NEW rd \in 0..7, NEW addr \in Int,
         NEW n \in {1, 2, 4}
  PROVE  /\ Moves(Transfer(s, load, rd, addr, n), s)
         /\ load => Quiet(Transfer(s, load, rd, addr, n), s)
<1>1. Wrap(addr) \in WordSet /\ rd \in 0..15 /\ rd # PC
  BY WordFacts DEF PC
<1>2. s.regs[rd] \in WordSet
  BY <1>1, MachineFields
<1>3. CASE load
  <2>1. Quiet(Load(s, rd, Wrap(addr), n), s)
    BY <1>1, LoadFrame
  <2>2. Transfer(s, load, rd, addr, n) = Load(s, rd, Wrap(addr), n)
    BY <1>3 DEF Transfer
  <2> QED
    BY <2>1, <2>2 DEF Quiet
<1>4. CASE ~load
  <2>1. Moves(Store(s, Wrap(addr), n, s.regs[rd]), s)
    BY <1>1, <1>2, StoreFrame
  <2>2. Transfer(s, load, rd, addr, n) = Store(s, Wrap(addr), n, s.regs[rd])
    BY <1>4 DEF Transfer
  <2> QED
    BY <1>4, <2>1, <2>2
<1> QED
  BY <1>3, <1>4

\* Rounding an address leaves a word.
LEMMA RoundingTypes ==
  ASSUME NEW x \in WordSet
  PROVE  Even(x) \in WordSet /\ OddOf(x) \in WordSet /\ Aligned(x) \in WordSet
         /\ Even(x) % 2 = 0 /\ OddOf(x) % 2 = 1 /\ Even(OddOf(x)) = Even(x)
<1>1. x \in Nat /\ x < 2 * MSB /\ MSB \in Nat /\ Span = 2 * MSB
  BY WordFacts, SpanPower
<1> DEFINE e == Even(x)
<1>2. e \in Nat /\ e <= x /\ e + 1 < 2 * MSB /\ e % 2 = 0 /\ (e + 1) % 2 = 1
  BY <1>1 DEF Even
<1>3. Aligned(x) \in Nat /\ Aligned(x) <= x
  BY <1>1 DEF Aligned
<1>4. OddOf(x) = e + 1
  BY DEF OddOf
<1> HIDE DEF e
<1>5. Even(OddOf(x)) = e
  BY <1>2, <1>4 DEF Even
<1> QED
  BY <1>1, <1>2, <1>3, <1>4, <1>5 DEF WordSet, e

\* The instructions that load or store one register.
LEMMA SingleTransfers ==
  ASSUME NEW s \in Machines, NEW i \in Halfwords
  PROVE  /\ Quiet(exec_ldr_pc(s, i), s)
         /\ Moves(exec_ldr_str_reg(s, i), s)
         /\ Moves(exec_ldr_str_imm(s, i), s)
         /\ Flag(i, 11) => Quiet(exec_ldr_str_imm(s, i), s)
         /\ Moves(exec_ldrh_strh_imm(s, i), s)
         /\ Flag(i, 11) => Quiet(exec_ldrh_strh_imm(s, i), s)
         /\ Moves(exec_ldr_str_sp(s, i), s)
         /\ Flag(i, 11) => Quiet(exec_ldr_str_sp(s, i), s)
         /\ Quiet(exec_add_sp_pc(s, i), s)
         /\ Quiet(exec_sp_ops(s, i), s)
<1>1. /\ Field(i, 0, 3) \in 0..7 /\ Field(i, 3, 3) \in 0..15 /\ Field(i, 6, 3) \in 0..15
      /\ Field(i, 8, 3) \in 0..7 /\ Field(i, 8, 3) \in 0..15 /\ Field(i, 8, 3) # PC
      /\ Field(i, 6, 5) \in Nat /\ Field(i, 0, 8) \in Nat
      /\ Field(i, 0, 7) \in Nat /\ SP \in 0..15 /\ PC \in 0..15 /\ SP # PC
  BY FieldTypes DEF SP, PC
<1>2. \A b : Flag(i, b) \in BOOLEAN
  BY DEF Flag
<1>3. \A r \in 0..15 : s.regs[r] \in WordSet /\ s.regs[r] \in Int
  BY MachineFields, WordFacts
<1>4. Aligned(Wrap(s.regs[PC] + 2)) \in WordSet /\ Aligned(Wrap(s.regs[PC] + 2)) \in Int
  <2>0. s.regs[PC] + 2 \in Int
    BY <1>1, <1>3
  <2>1. Wrap(s.regs[PC] + 2) \in WordSet
    BY <2>0, WordFacts
  <2> QED
    BY <2>1, RoundingTypes, WordFacts
<1>5. Quiet(exec_ldr_pc(s, i), s)
  <2> DEFINE a == Wrap(Aligned(Wrap(s.regs[PC] + 2)) + 4 * Field(i, 0, 8))
  <2>1. a \in WordSet
    BY <1>1, <1>4, WordFacts
  <2> HIDE DEF a
  <2>2. Quiet(Load(s, Field(i, 8, 3), a, 4), s)
    BY <1>1, <2>1, LoadFrame
  <2> QED
    BY <2>2 DEF exec_ldr_pc, a
<1>6. Moves(exec_ldr_str_reg(s, i), s)
  <2> DEFINE a == s.regs[Field(i, 3, 3)] + s.regs[Field(i, 6, 3)]
             n == IF Flag(i, 10) THEN 1 ELSE 4
  <2>1. a \in Int /\ n \in {1, 2, 4}
    BY <1>1, <1>3
  <2> HIDE DEF a, n
  <2>2. Moves(Transfer(s, Flag(i, 11), Field(i, 0, 3), a, n), s)
    BY <1>1, <1>2, <2>1, TransferFrame
  <2> QED
    BY <2>2 DEF exec_ldr_str_reg, a, n
<1>7. Moves(exec_ldr_str_imm(s, i), s) /\ (Flag(i, 11) => Quiet(exec_ldr_str_imm(s, i), s))
  <2> DEFINE n == IF Flag(i, 12) THEN 1 ELSE 4
  <2> DEFINE a == s.regs[Field(i, 3, 3)] + n * Field(i, 6, 5)
  <2>1. a \in Int /\ n \in {1, 2, 4}
    BY <1>1, <1>3
  <2> HIDE DEF a, n
  <2>2. LET t == Transfer(s, Flag(i, 11), Field(i, 0, 3), a, n)
        IN  Moves(t, s) /\ (Flag(i, 11) => Quiet(t, s))
    BY <1>1, <1>2, <2>1, TransferFrame
  <2> QED
    BY <2>2 DEF exec_ldr_str_imm, a, n
<1>8. Moves(exec_ldrh_strh_imm(s, i), s) /\ (Flag(i, 11) => Quiet(exec_ldrh_strh_imm(s, i), s))
  <2> DEFINE a == s.regs[Field(i, 3, 3)] + 2 * Field(i, 6, 5)
  <2>1. a \in Int
    BY <1>1, <1>3
  <2> HIDE DEF a
  <2>2. LET t == Transfer(s, Flag(i, 11), Field(i, 0, 3), a, 2)
        IN  Moves(t, s) /\ (Flag(i, 11) => Quiet(t, s))
    BY <1>1, <1>2, <2>1, TransferFrame
  <2> QED
    BY <2>2 DEF exec_ldrh_strh_imm, a
<1>9. Moves(exec_ldr_str_sp(s, i), s) /\ (Flag(i, 11) => Quiet(exec_ldr_str_sp(s, i), s))
  <2> DEFINE a == s.regs[SP] + 4 * Field(i, 0, 8)
  <2>1. a \in Int
    BY <1>1, <1>3
  <2> HIDE DEF a
  <2>2. LET t == Transfer(s, Flag(i, 11), Field(i, 8, 3), a, 4)
        IN  Moves(t, s) /\ (Flag(i, 11) => Quiet(t, s))
    BY <1>1, <1>2, <2>1, TransferFrame
  <2> QED
    BY <2>2 DEF exec_ldr_str_sp, a
<1>10. Quiet(exec_add_sp_pc(s, i), s)
  <2> DEFINE base == IF Flag(i, 11) THEN s.regs[SP] ELSE Aligned(Wrap(s.regs[PC] + 2))
  <2>1. base \in Int
    BY <1>1, <1>3, <1>4
  <2> HIDE DEF base
  <2>2. Wrap(base + 4 * Field(i, 0, 8)) \in WordSet
    BY <1>1, <2>1, WordFacts
  <2>3. Quiet(SetReg(s, Field(i, 8, 3), Wrap(base + 4 * Field(i, 0, 8))), s)
    BY <1>1, <2>2, SetRegFrame
  <2> QED
    BY <2>3 DEF exec_add_sp_pc, base
<1>11. Quiet(exec_sp_ops(s, i), s)
  <2> DEFINE imm == 4 * Field(i, 0, 7)
             a == s.regs[SP] + (IF Flag(i, 7) THEN -imm ELSE imm)
  <2>1. a \in Int
    BY <1>1, <1>3
  <2>2. exec_sp_ops(s, i) = SetReg(s, SP, Wrap(a))
    BY DEF exec_sp_ops
  <2> HIDE DEF a
  <2>3. Wrap(a) \in WordSet
    BY <2>1, WordFacts
  <2> QED
    BY <1>1, <2>2, <2>3, SetRegFrame
<1> QED
  BY <1>5, <1>6, <1>7, <1>8, <1>9, <1>10, <1>11

\* t has jumped to the address v, and has halted there or not.
Arrives(t, s, v) ==
  /\ t.regs[PC] = v
  /\ \A q \in 0..15 : q # PC => t.regs[q] = s.regs[q]
  /\ t.bl_offset = s.bl_offset /\ t.fault = s.fault

\* A jump by BX or POP.
LEMMA JumpFrame ==
  ASSUME NEW s \in Machines, NEW v \in WordSet
  PROVE  /\ Jumps(set_pc(s, v), s) /\ Arrives(set_pc(s, v), s, Even(v))
         /\ set_pc(s, v).halted = s.halted
         /\ Jumps(JumpTo(s, v), s) /\ Arrives(JumpTo(s, v), s, Even(v))
         /\ JumpTo(s, v).halted = (s.halted \/ v % 2 = 0)
<1> DEFINE t == set_pc(s, v)
           b == s.halted \/ v % 2 = 0
           u == [t EXCEPT !.halted = b]
<1>1. Even(v) \in WordSet /\ PC \in 0..15
  BY RoundingTypes DEF PC
<1>2. Jumps(t, s) /\ t \in Machines /\ Puts(t, s, PC, Even(v))
  BY <1>1, SetRegFacts, SetRegFrame DEF set_pc
<1>3. b \in BOOLEAN /\ s.halted \in BOOLEAN
  BY MachineFields
<1>4. t.halted = s.halted
  BY <1>2 DEF Puts, SameButRegs
<1>5. JumpTo(s, v) = u
  BY <1>4 DEF JumpTo
<1> HIDE DEF t, b
<1>6. Arrives(t, s, Even(v))
  BY <1>2 DEF Puts, SameButRegs, Arrives
<1>7. /\ u \in Machines /\ u.regs = t.regs /\ u.apsr = t.apsr /\ u.mem = t.mem
      /\ u.cycles = t.cycles /\ u.bl_offset = t.bl_offset /\ u.halted = b /\ u.fault = t.fault
  BY <1>2, <1>3, UpdateFacts
<1> HIDE DEF u
<1>8. Arrives(u, s, Even(v))
  BY <1>6, <1>7 DEF Arrives
<1>9. Jumps(u, s)
  BY <1>2, <1>7 DEF Jumps, OK, KeepsMem, KeepsFlags
<1> QED
  BY <1>2, <1>4, <1>5, <1>6, <1>7, <1>8, <1>9 DEF t, b

\* The branches, and the upper half of BL.
LEMMA BranchFrame ==
  ASSUME NEW s \in Machines, NEW i \in Halfwords
  PROVE  /\ Jumps(exec_branch(s, i), s)
         /\ exec_branch(s, i).regs[PC] = Even(Wrap(s.regs[PC] + 2 + 2 * Sext(Field(i, 0, 11), 11)))
         /\ Jumps(exec_branch_cond(s, i), s)
         /\ \/ exec_branch_cond(s, i).regs[PC] = s.regs[PC]
            \/ exec_branch_cond(s, i).regs[PC] = Even(Wrap(s.regs[PC] + 2 + 2 * Sext(Field(i, 0, 8), 8)))
         /\ Quiet(exec_bl_upper(s, i), s)
         /\ exec_bl_upper(s, i).fault = s.fault
         /\ exec_bl_upper(s, i).bl_offset = Wrap(s.regs[PC] + 2 + 4096 * Sext(Field(i, 0, 11), 11))
<1>1. PC \in 0..15 /\ Field(i, 0, 11) \in 0..2047 /\ Field(i, 0, 8) \in 0..255
  BY FieldTypes DEF PC
<1>2. s.regs[PC] \in Int
  <2>1. s.regs[PC] \in WordSet
    BY <1>1, MachineFields
  <2> QED
    BY <2>1, WordFacts
<1>3. Sext(Field(i, 0, 11), 11) \in Int /\ Sext(Field(i, 0, 8), 8) \in Int
  <2> DEFINE x == Field(i, 0, 11)
             y == Field(i, 0, 8)
  <2>1. x \in 0..2047 /\ y \in 0..255
    BY <1>1
  <2> HIDE DEF x, y
  <2>2. Sext(x, 11) \in Int /\ Sext(y, 8) \in Int
    BY <2>1 DEF Sext
  <2> QED
    BY <2>2 DEF x, y
<1> DEFINE a == Wrap(s.regs[PC] + 2 + 2 * Sext(Field(i, 0, 11), 11))
           b == Wrap(s.regs[PC] + 2 + 2 * Sext(Field(i, 0, 8), 8))
           c == Wrap(s.regs[PC] + 2 + 4096 * Sext(Field(i, 0, 11), 11))
<1>4. a \in WordSet /\ b \in WordSet /\ c \in WordSet
  <2> DEFINE x == s.regs[PC]
             y == Sext(Field(i, 0, 11), 11)
             z == Sext(Field(i, 0, 8), 8)
  <2> HIDE DEF x, y, z
  <2>1. x + 2 + 2 * y \in Int /\ x + 2 + 2 * z \in Int /\ x + 2 + 4096 * y \in Int
    BY <1>2, <1>3 DEF x, y, z
  <2>2. Wrap(x + 2 + 2 * y) \in WordSet /\ Wrap(x + 2 + 2 * z) \in WordSet
        /\ Wrap(x + 2 + 4096 * y) \in WordSet
    BY <2>1, WordFacts
  <2> QED
    BY <2>2 DEF x, y, z
<1>5. /\ exec_branch(s, i) = set_pc(s, a)
      /\ exec_branch_cond(s, i) = set_pc(s, b) \/ exec_branch_cond(s, i) = s
      /\ exec_bl_upper(s, i) = [s EXCEPT !.bl_offset = c]
  BY DEF exec_branch, exec_branch_cond, exec_bl_upper
<1> HIDE DEF a, b, c
<1>6. /\ Jumps(set_pc(s, a), s) /\ Arrives(set_pc(s, a), s, Even(a))
      /\ Jumps(set_pc(s, b), s) /\ Arrives(set_pc(s, b), s, Even(b))
  BY <1>4, JumpFrame
<1>7. set_pc(s, a).regs[PC] = Even(a) /\ set_pc(s, b).regs[PC] = Even(b)
  BY <1>6 DEF Arrives
<1>8. Jumps(s, s)
  BY FramesCompose
<1> DEFINE t == [s EXCEPT !.bl_offset = c]
<1>9. /\ t \in Machines /\ t.regs = s.regs /\ t.apsr = s.apsr /\ t.mem = s.mem
      /\ t.cycles = s.cycles /\ t.bl_offset = c /\ t.fault = s.fault
  BY <1>4, UpdateFacts
<1> HIDE DEF t
<1>10. Quiet(t, s)
  BY <1>9 DEF Quiet, Moves, OK, KeepsMem, KeepsFlags, KeepsPC
<1>11. Jumps(exec_branch(s, i), s) /\ exec_branch(s, i).regs[PC] = Even(a)
  BY <1>5, <1>6, <1>7
<1>12. /\ Jumps(exec_branch_cond(s, i), s)
       /\ \/ exec_branch_cond(s, i).regs[PC] = s.regs[PC]
          \/ exec_branch_cond(s, i).regs[PC] = Even(b)
  BY <1>5, <1>6, <1>7, <1>8
<1>13. /\ Quiet(exec_bl_upper(s, i), s) /\ exec_bl_upper(s, i).fault = s.fault
       /\ exec_bl_upper(s, i).bl_offset = c
  BY <1>5, <1>9, <1>10 DEF t
<1> QED
  BY <1>11, <1>12, <1>13 DEF a, b, c

\* BL's second half and BLX: a jump, and the link to the instruction after it.
Calls(t, s, v) ==
  /\ Jumps(t, s) /\ t.regs[PC] = Even(v) /\ t.regs[LR] = OddOf(s.regs[PC])

\* BLX, and a jump that leaves the address behind it in LR.
LEMMA CallFrame ==
  ASSUME NEW s \in Machines, NEW v \in WordSet
  PROVE  LET t == SetReg(s, LR, OddOf(s.regs[PC]))
         IN  /\ Calls(set_pc(t, v), s, v) /\ set_pc(t, v).halted = s.halted
             /\ Calls(JumpTo(t, v), s, v)
<1> DEFINE t == SetReg(s, LR, OddOf(s.regs[PC]))
           x == OddOf(s.regs[PC])
<1>1. PC \in 0..15 /\ LR \in 0..15 /\ LR # PC
  BY DEF PC, LR
<1>2. x \in WordSet
  BY <1>1, MachineFields, RoundingTypes
<1>3. t \in Machines /\ Jumps(t, s) /\ Puts(t, s, LR, x)
  <2> HIDE DEF x
  <2>1. SetReg(s, LR, x) \in Machines /\ Jumps(SetReg(s, LR, x), s) /\ Puts(SetReg(s, LR, x), s, LR, x)
    BY <1>1, <1>2, SetRegFacts, SetRegFrame
  <2> QED
    BY <2>1 DEF x
<1> HIDE DEF t, x
<1>4. t.regs[LR] = x /\ t.halted = s.halted
  BY <1>3 DEF Puts, SameButRegs
<1>5. /\ Jumps(set_pc(t, v), t) /\ Arrives(set_pc(t, v), t, Even(v))
      /\ set_pc(t, v).halted = t.halted
      /\ Jumps(JumpTo(t, v), t) /\ Arrives(JumpTo(t, v), t, Even(v))
  BY <1>3, JumpFrame
<1>6. Jumps(set_pc(t, v), s) /\ Jumps(JumpTo(t, v), s)
  BY <1>3, <1>5, FramesCompose
<1>7. /\ set_pc(t, v).regs[PC] = Even(v) /\ set_pc(t, v).regs[LR] = x
      /\ JumpTo(t, v).regs[PC] = Even(v) /\ JumpTo(t, v).regs[LR] = x
  BY <1>1, <1>4, <1>5 DEF Arrives
<1> QED
  BY <1>4, <1>5, <1>6, <1>7 DEF Calls, t, x

\* The lower half of BL.
LEMMA BlLowerFrame ==
  ASSUME NEW s \in Machines, NEW i \in Halfwords
  PROVE  LET v == Wrap(s.bl_offset + 2 * Field(i, 0, 11))
         IN  /\ Calls(exec_bl_lower(s, i), s, v) /\ exec_bl_lower(s, i).halted = s.halted
             /\ v \in WordSet
<1> DEFINE v == Wrap(s.bl_offset + 2 * Field(i, 0, 11))
<1>1. s.bl_offset \in Int /\ Field(i, 0, 11) \in Int
  <2>1. s.bl_offset \in WordSet /\ Field(i, 0, 11) \in 0..2047
    BY MachineFields, FieldTypes
  <2>2. \A x \in WordSet : x \in Int
    BY WordFacts
  <2> QED
    BY <2>1, <2>2
<1>2. s.bl_offset + 2 * Field(i, 0, 11) \in Int
  BY <1>1
<1>3. v \in WordSet
  BY <1>2, WordFacts
<1>4. exec_bl_lower(s, i) = set_pc(SetReg(s, LR, OddOf(s.regs[PC])), v)
  BY DEF exec_bl_lower
<1> HIDE DEF v
<1> QED
  BY <1>3, <1>4, CallFrame DEF v

\* exec_hi_reg_bx.
LEMMA HiRegFrame ==
  ASSUME NEW s \in Machines, NEW i \in Halfwords
  PROVE  LET op == Field(i, 8, 2)
             rd == 8 * Field(i, 7, 1) + Field(i, 0, 3)
             a  == s.regs[rd]
             b  == s.regs[Field(i, 3, 4)]
             t  == exec_hi_reg_bx(s, i)
         IN  /\ OK(t, s) /\ KeepsMem(t, s) /\ a \in WordSet /\ b \in WordSet
             /\ op # 1 => KeepsFlags(t, s)
             /\ op = 1 => KeepsPC(t, s) /\ t.apsr = SubFlags(s.apsr, a, b)
             /\ op \in {0, 2} => rd = PC \/ KeepsPC(t, s)
             /\ op = 3 /\ Flag(i, 7) => Calls(t, s, b)
             /\ op = 3 /\ ~Flag(i, 7) => t = JumpTo(s, b)
<1> DEFINE op == Field(i, 8, 2)
           rd == 8 * Field(i, 7, 1) + Field(i, 0, 3)
           a  == s.regs[rd]
           b  == s.regs[Field(i, 3, 4)]
           t  == exec_hi_reg_bx(s, i)
<1>1. rd \in 0..15 /\ Field(i, 3, 4) \in 0..15 /\ op \in 0..3
  BY FieldTypes
<1>2. a \in WordSet /\ b \in WordSet
  BY <1>1, MachineFields
<1>3. /\ op = 0 => t = SetReg(s, rd, Wrap(a + b))
      /\ op = 1 => t = Compare(s, a, b)
      /\ op = 2 => t = SetReg(s, rd, b)
      /\ op = 3 /\ Flag(i, 7) => t = JumpTo(SetReg(s, LR, OddOf(s.regs[PC])), b)
      /\ op = 3 /\ ~Flag(i, 7) => t = JumpTo(s, b)
  <2> DEFINE E(o) == CASE o = 0 -> SetReg(s, rd, Wrap(a + b))
                       [] o = 1 -> Compare(s, a, b)
                       [] o = 2 -> SetReg(s, rd, b)
                       [] o = 3 /\ Flag(i, 7)  -> JumpTo(SetReg(s, LR, OddOf(s.regs[PC])), b)
                       [] o = 3 /\ ~Flag(i, 7) -> JumpTo(s, b)
  <2>1. t = E(op)
    BY DEF exec_hi_reg_bx
  <2> HIDE DEF op, rd, a, b, t
  <2>2. op = 0 => t = SetReg(s, rd, Wrap(a + b))
    BY <2>1
  <2>3. op = 1 => t = Compare(s, a, b)
    BY <2>1
  <2>4. op = 2 => t = SetReg(s, rd, b)
    BY <2>1
  <2>5. op = 3 /\ Flag(i, 7) => t = JumpTo(SetReg(s, LR, OddOf(s.regs[PC])), b)
    BY <2>1
  <2>6. op = 3 /\ ~Flag(i, 7) => t = JumpTo(s, b)
    BY <2>1
  <2> QED
    BY <2>2, <2>3, <2>4, <2>5, <2>6
<1> HIDE DEF op, rd, a, b, t
<1>4. Wrap(a + b) \in WordSet
  <2>1. a + b \in Int
    BY <1>2, WordFacts
  <2> QED
    BY <2>1, WordFacts
<1>5. ASSUME op \in {0, 2} PROVE Jumps(t, s) /\ (rd = PC \/ Quiet(t, s))
  <2>1. /\ Jumps(SetReg(s, rd, Wrap(a + b)), s) /\ (rd # PC => Quiet(SetReg(s, rd, Wrap(a + b)), s))
        /\ Jumps(SetReg(s, rd, b), s) /\ (rd # PC => Quiet(SetReg(s, rd, b), s))
    BY <1>1, <1>2, <1>4, SetRegFrame
  <2> QED
    BY <1>3, <1>5, <2>1
<1>6. ASSUME op = 1 PROVE Computes(t, s) /\ t.apsr = SubFlags(s.apsr, a, b)
  BY <1>3, <1>6, CompareComputes
<1>7. ASSUME op = 3, Flag(i, 7) PROVE Calls(t, s, b)
  BY <1>2, <1>3, <1>7, CallFrame
<1>8. ASSUME op = 3, ~Flag(i, 7) PROVE Jumps(t, s) /\ t = JumpTo(s, b)
  BY <1>2, <1>3, <1>8, JumpFrame
<1>9. op = 0 \/ op = 1 \/ op = 2 \/ op = 3
  BY <1>1
<1>10. OK(t, s) /\ KeepsMem(t, s) /\ (op # 1 => KeepsFlags(t, s))
  <2>1. CASE op = 1
    BY <1>6, <2>1 DEF Computes
  <2>2. CASE op # 1
    <3>1. Jumps(t, s)
      BY <1>5, <1>7, <1>8, <1>9, <2>2 DEF Calls
    <3> QED
      BY <2>2, <3>1 DEF Jumps
  <2> QED
    BY <2>1, <2>2
<1>11. op = 1 => KeepsPC(t, s) /\ t.apsr = SubFlags(s.apsr, a, b)
  BY <1>6 DEF Computes
<1>12. op \in {0, 2} => rd = PC \/ KeepsPC(t, s)
  BY <1>5 DEF Quiet, Moves
<1> QED
  BY <1>2, <1>7, <1>8, <1>10, <1>11, <1>12 DEF op, rd, a, b, t

-----------------------------------------------------------------------------
(* Register lists.                                                         *)

\* One PUSH.
LEMMA PushFrame ==
  ASSUME NEW s \in Machines, NEW r \in 0..15
  PROVE  Moves(Push(s, r), s)
<1> DEFINE v == Wrap(s.regs[SP] - 4)
           low == SetReg(s, SP, v)
<1>1. SP \in 0..15 /\ SP # PC
  BY DEF SP, PC
<1>2. v \in WordSet /\ s.regs[r] \in WordSet
  <2>1. s.regs[SP] \in WordSet /\ s.regs[r] \in WordSet
    BY <1>1, MachineFields
  <2>2. s.regs[SP] - 4 \in Int
    BY <2>1, WordFacts
  <2> QED
    BY <2>1, <2>2, WordFacts
<1>3. Push(s, r) = IF s.fault # "none" THEN s ELSE Store(low, low.regs[SP], 4, s.regs[r])
  BY DEF Push, Unless
<1> HIDE DEF v
<1>4. low \in Machines /\ Moves(low, s) /\ Puts(low, s, SP, v)
  BY <1>1, <1>2, SetRegFacts, SetRegFrame
<1> HIDE DEF low
<1>5. low.regs[SP] = v
  BY <1>4 DEF Puts
<1>6. Moves(Store(low, v, 4, s.regs[r]), low)
  BY <1>2, <1>4, StoreFrame
<1>7. Moves(Store(low, v, 4, s.regs[r]), s) /\ Moves(s, s)
  BY <1>4, <1>6, FramesCompose
<1> QED
  BY <1>3, <1>5, <1>7

\* One POP.
LEMMA PopFrame ==
  ASSUME NEW s \in Machines, NEW r \in 0..15
  PROVE  Jumps(Pop(s, r), s) /\ (r # PC => Quiet(Pop(s, r), s))
<1> DEFINE sp == s.regs[SP]
           got == Load(s, r, sp, 4)
           up == SetReg(got, SP, Wrap(sp + 4))
<1>1. SP \in 0..15 /\ SP # PC
  BY DEF SP, PC
<1>2. sp \in WordSet /\ Wrap(sp + 4) \in WordSet
  <2>1. sp \in WordSet
    BY <1>1, MachineFields
  <2>2. sp + 4 \in Int
    BY <2>1, WordFacts
  <2> QED
    BY <2>1, <2>2, WordFacts
<1>3. Pop(s, r) = s \/ Pop(s, r) = got \/ Pop(s, r) = up
  BY DEF Pop, Unless
<1> HIDE DEF sp
<1>4. Jumps(got, s) /\ (r # PC => Quiet(got, s))
  BY <1>2, LoadFrame
<1> HIDE DEF got
<1>5. got \in Machines
  BY <1>4, FramesCompose
<1>6. Jumps(up, got) /\ Quiet(up, got)
  BY <1>1, <1>2, <1>5, SetRegFrame
<1> HIDE DEF up
<1>7. /\ Jumps(up, s) /\ (r # PC => Quiet(up, s))
      /\ Jumps(s, s) /\ Quiet(s, s)
  BY <1>4, <1>6, FramesCompose
<1> QED
  BY <1>3, <1>4, <1>7

\* POP to the PC.
LEMMA PopPCFrame ==
  ASSUME NEW s \in Machines
  PROVE  Jumps(PopPC(s), s)
<1> DEFINE got == Pop(s, PC)
<1>1. PC \in 0..15
  BY DEF PC
<1>2. PopPC(s) = got \/ PopPC(s) = JumpTo(got, got.regs[PC])
  BY DEF PopPC, Unless
<1>3. Jumps(got, s)
  BY <1>1, PopFrame
<1> HIDE DEF got
<1>4. got \in Machines
  BY <1>3, FramesCompose
<1>5. Jumps(JumpTo(got, got.regs[PC]), got)
  BY <1>1, <1>4, MachineFields, JumpFrame
<1>6. Jumps(JumpTo(got, got.regs[PC]), s)
  BY <1>3, <1>5, FramesCompose
<1> QED
  BY <1>2, <1>3, <1>6

\* One register of a list.
PopOne(t, i, r)  == IF Flag(i, r) THEN Pop(t, r) ELSE t
PushOne(t, i, r) == IF Flag(i, r) THEN Push(t, r) ELSE t

\* The lists are worked off one register after the other.
LEMMA PopListIs ==
  ASSUME NEW s, NEW i
  PROVE  PopList(s, i) =
           PopOne(PopOne(PopOne(PopOne(PopOne(PopOne(PopOne(PopOne(
             s, i, 0), i, 1), i, 2), i, 3), i, 4), i, 5), i, 6), i, 7)
<1> DEFINE a1 == PopOne(s, i, 0)
           a2 == PopOne(a1, i, 1)
           a3 == PopOne(a2, i, 2)
           a4 == PopOne(a3, i, 3)
           a5 == PopOne(a4, i, 4)
           a6 == PopOne(a5, i, 5)
           a7 == PopOne(a6, i, 6)
           a8 == PopOne(a7, i, 7)
           Eq(g) == g = [k \in 0..8 |-> IF k = 0 THEN s ELSE PopOne(g[k - 1], i, k - 1)]
           h == [k \in 0..8 |-> IF k = 0 THEN s ELSE IF k = 1 THEN a1 ELSE IF k = 2 THEN a2
                  ELSE IF k = 3 THEN a3 ELSE IF k = 4 THEN a4 ELSE IF k = 5 THEN a5
                  ELSE IF k = 6 THEN a6 ELSE IF k = 7 THEN a7 ELSE a8]
           g == CHOOSE x : Eq(x)
<1>1. \A k \in 0..8 : h[k] = IF k = 0 THEN s ELSE PopOne(h[k - 1], i, k - 1)
  <2>1. /\ h[0] = s /\ h[1] = PopOne(h[0], i, 0) /\ h[2] = PopOne(h[1], i, 1)
        /\ h[3] = PopOne(h[2], i, 2) /\ h[4] = PopOne(h[3], i, 3) /\ h[5] = PopOne(h[4], i, 4)
        /\ h[6] = PopOne(h[5], i, 5) /\ h[7] = PopOne(h[6], i, 6) /\ h[8] = PopOne(h[7], i, 7)
    OBVIOUS
  <2> HIDE DEF h
  <2> QED
    BY <2>1
<1>2. Eq(h)
  BY <1>1
<1>3. Eq(g)
  <2> HIDE DEF Eq, h
  <2> QED
    BY <1>2, Zenon
<1>4. PopList(s, i) = g[8]
  BY DEF PopList, PopOne
<1> HIDE DEF g
<1>5. g = [k \in 0..8 |-> IF k = 0 THEN s ELSE PopOne(g[k - 1], i, k - 1)]
  BY <1>3
<1>6. /\ g[0] = s /\ g[1] = PopOne(g[0], i, 0) /\ g[2] = PopOne(g[1], i, 1)
      /\ g[3] = PopOne(g[2], i, 2) /\ g[4] = PopOne(g[3], i, 3) /\ g[5] = PopOne(g[4], i, 4)
      /\ g[6] = PopOne(g[5], i, 5) /\ g[7] = PopOne(g[6], i, 6) /\ g[8] = PopOne(g[7], i, 7)
  BY <1>5
<1> QED
  BY <1>4, <1>6, Zenon

\* The recursion over the list, unrolled.
LEMMA PushListIs ==
  ASSUME NEW s, NEW i
  PROVE  PushList(s, i) =
           PushOne(PushOne(PushOne(PushOne(PushOne(PushOne(PushOne(PushOne(
             s, i, 7), i, 6), i, 5), i, 4), i, 3), i, 2), i, 1), i, 0)
<1> DEFINE a1 == PushOne(s, i, 7)
           a2 == PushOne(a1, i, 6)
           a3 == PushOne(a2, i, 5)
           a4 == PushOne(a3, i, 4)
           a5 == PushOne(a4, i, 3)
           a6 == PushOne(a5, i, 2)
           a7 == PushOne(a6, i, 1)
           a8 == PushOne(a7, i, 0)
           Eq(g) == g = [k \in 0..8 |-> IF k = 0 THEN s ELSE PushOne(g[k - 1], i, 8 - k)]
           h == [k \in 0..8 |-> IF k = 0 THEN s ELSE IF k = 1 THEN a1 ELSE IF k = 2 THEN a2
                  ELSE IF k = 3 THEN a3 ELSE IF k = 4 THEN a4 ELSE IF k = 5 THEN a5
                  ELSE IF k = 6 THEN a6 ELSE IF k = 7 THEN a7 ELSE a8]
           g == CHOOSE x : Eq(x)
<1>1. \A k \in 0..8 : h[k] = IF k = 0 THEN s ELSE PushOne(h[k - 1], i, 8 - k)
  <2>1. /\ h[0] = s /\ h[1] = PushOne(h[0], i, 7) /\ h[2] = PushOne(h[1], i, 6)
        /\ h[3] = PushOne(h[2], i, 5) /\ h[4] = PushOne(h[3], i, 4) /\ h[5] = PushOne(h[4], i, 3)
        /\ h[6] = PushOne(h[5], i, 2) /\ h[7] = PushOne(h[6], i, 1) /\ h[8] = PushOne(h[7], i, 0)
    OBVIOUS
  <2> HIDE DEF h
  <2> QED
    BY <2>1
<1>2. Eq(h)
  BY <1>1
<1>3. Eq(g)
  <2> HIDE DEF Eq, h
  <2> QED
    BY <1>2, Zenon
<1>4. PushList(s, i) = g[8]
  BY DEF PushList, PushOne
<1> HIDE DEF g
<1>5. g = [k \in 0..8 |-> IF k = 0 THEN s ELSE PushOne(g[k - 1], i, 8 - k)]
  BY <1>3
<1>6. /\ g[0] = s /\ g[1] = PushOne(g[0], i, 7) /\ g[2] = PushOne(g[1], i, 6)
      /\ g[3] = PushOne(g[2], i, 5) /\ g[4] = PushOne(g[3], i, 4) /\ g[5] = PushOne(g[4], i, 3)
      /\ g[6] = PushOne(g[5], i, 2) /\ g[7] = PushOne(g[6], i, 1) /\ g[8] = PushOne(g[7], i, 0)
  BY <1>5
<1> QED
  BY <1>4, <1>6, Zenon

\* POP of a list.
LEMMA PopFrames ==
  ASSUME NEW s \in Machines, NEW i
  PROVE  Quiet(PopList(s, i), s)
<1>1. ASSUME NEW t, Quiet(t, s), NEW r \in 0..7 PROVE Quiet(PopOne(t, i, r), s)
  <2>1. t \in Machines /\ r \in 0..15 /\ r # PC
    BY <1>1, FramesCompose DEF PC
  <2>2. Quiet(Pop(t, r), t)
    BY <2>1, PopFrame
  <2> QED
    BY <1>1, <2>2, FramesCompose DEF PopOne
<1>2. Quiet(s, s)
  BY FramesCompose
<1> DEFINE a1 == PopOne(s, i, 0)
           a2 == PopOne(a1, i, 1)
           a3 == PopOne(a2, i, 2)
           a4 == PopOne(a3, i, 3)
           a5 == PopOne(a4, i, 4)
           a6 == PopOne(a5, i, 5)
           a7 == PopOne(a6, i, 6)
           a8 == PopOne(a7, i, 7)
<1>3. PopList(s, i) = a8
  BY PopListIs
<1>4. 0 \in 0..7 /\ 1 \in 0..7 /\ 2 \in 0..7 /\ 3 \in 0..7 /\ 4 \in 0..7 /\ 5 \in 0..7 /\ 6 \in 0..7
      /\ 7 \in 0..7
  OBVIOUS
<1>5. Quiet(a1, s)
  BY <1>1, <1>2, <1>4
<1>6. Quiet(a2, s)
  <2> HIDE DEF a1
  <2> QED
    BY <1>1, <1>4, <1>5
<1>7. Quiet(a3, s)
  <2> HIDE DEF a2
  <2> QED
    BY <1>1, <1>4, <1>6
<1>8. Quiet(a4, s)
  <2> HIDE DEF a3
  <2> QED
    BY <1>1, <1>4, <1>7
<1>9. Quiet(a5, s)
  <2> HIDE DEF a4
  <2> QED
    BY <1>1, <1>4, <1>8
<1>10. Quiet(a6, s)
  <2> HIDE DEF a5
  <2> QED
    BY <1>1, <1>4, <1>9
<1>11. Quiet(a7, s)
  <2> HIDE DEF a6
  <2> QED
    BY <1>1, <1>4, <1>10
<1>12. Quiet(a8, s)
  <2> HIDE DEF a7
  <2> QED
    BY <1>1, <1>4, <1>11
<1> QED
  BY <1>3, <1>12

\* PUSH of a list.
LEMMA PushFrames ==
  ASSUME NEW s \in Machines, NEW i
  PROVE  Moves(PushList(s, i), s)
<1>1. ASSUME NEW t, Moves(t, s), NEW r \in 0..7 PROVE Moves(PushOne(t, i, r), s)
  <2>1. t \in Machines /\ r \in 0..15
    BY <1>1, FramesCompose
  <2>2. Moves(Push(t, r), t)
    BY <2>1, PushFrame
  <2> QED
    BY <1>1, <2>2, FramesCompose DEF PushOne
<1>2. Moves(s, s)
  BY FramesCompose
<1> DEFINE a1 == PushOne(s, i, 7)
           a2 == PushOne(a1, i, 6)
           a3 == PushOne(a2, i, 5)
           a4 == PushOne(a3, i, 4)
           a5 == PushOne(a4, i, 3)
           a6 == PushOne(a5, i, 2)
           a7 == PushOne(a6, i, 1)
           a8 == PushOne(a7, i, 0)
<1>3. PushList(s, i) = a8
  BY PushListIs
<1>4. 0 \in 0..7 /\ 1 \in 0..7 /\ 2 \in 0..7 /\ 3 \in 0..7 /\ 4 \in 0..7 /\ 5 \in 0..7 /\ 6 \in 0..7
      /\ 7 \in 0..7
  OBVIOUS
<1>5. Moves(a1, s)
  BY <1>1, <1>2, <1>4
<1>6. Moves(a2, s)
  <2> HIDE DEF a1
  <2> QED
    BY <1>1, <1>4, <1>5
<1>7. Moves(a3, s)
  <2> HIDE DEF a2
  <2> QED
    BY <1>1, <1>4, <1>6
<1>8. Moves(a4, s)
  <2> HIDE DEF a3
  <2> QED
    BY <1>1, <1>4, <1>7
<1>9. Moves(a5, s)
  <2> HIDE DEF a4
  <2> QED
    BY <1>1, <1>4, <1>8
<1>10. Moves(a6, s)
  <2> HIDE DEF a5
  <2> QED
    BY <1>1, <1>4, <1>9
<1>11. Moves(a7, s)
  <2> HIDE DEF a6
  <2> QED
    BY <1>1, <1>4, <1>10
<1>12. Moves(a8, s)
  <2> HIDE DEF a7
  <2> QED
    BY <1>1, <1>4, <1>11
<1> QED
  BY <1>3, <1>12

\* exec_push_pop.
LEMMA PushPopFrame ==
  ASSUME NEW s \in Machines, NEW i \in Halfwords
  PROVE  /\ Flag(i, 11) => Jumps(exec_push_pop(s, i), s)
         /\ ~Flag(i, 11) => Moves(exec_push_pop(s, i), s)
<1>1. ASSUME Flag(i, 11) PROVE Jumps(exec_push_pop(s, i), s)
  <2> DEFINE t == PopList(s, i)
  <2>1. exec_push_pop(s, i) = IF Flag(i, 8) THEN PopPC(t) ELSE t
    BY <1>1 DEF exec_push_pop
  <2>2. Quiet(t, s)
    BY PopFrames
  <2> HIDE DEF t
  <2>3. Jumps(t, s) /\ t \in Machines
    BY <2>2, FramesCompose
  <2>4. Jumps(PopPC(t), t)
    BY <2>3, PopPCFrame
  <2> QED
    BY <2>1, <2>3, <2>4, FramesCompose
<1>2. ASSUME ~Flag(i, 11) PROVE Moves(exec_push_pop(s, i), s)
  <2> DEFINE t == IF Flag(i, 8) THEN Push(s, LR) ELSE s
  <2>1. exec_push_pop(s, i) = PushList(t, i)
    BY <1>2 DEF exec_push_pop
  <2>2. Moves(t, s)
    <3>1. LR \in 0..15
      BY DEF LR
    <3>2. Moves(Push(s, LR), s) /\ Moves(s, s)
      BY <3>1, PushFrame, FramesCompose
    <3> QED
      BY <3>2
  <2> HIDE DEF t
  <2>3. t \in Machines
    BY <2>2, FramesCompose
  <2>4. Moves(PushList(t, i), t)
    BY <2>3, PushFrames
  <2> QED
    BY <2>1, <2>2, <2>4, FramesCompose
<1> QED
  BY <1>1, <1>2

\* One register of LDM or STM.
LEMMA MovingIs ==
  ASSUME NEW m, NEW i, NEW r
  PROVE  \/ Moving(m, i, r) = m
         \/ Moving(m, i, r) = [cpu  |-> Transfer(m.cpu, Flag(i, 11), r, m.addr, 4),
                               addr |-> Wrap(m.addr + 4)]
BY DEF Moving

\* The recursion of exec_ldm_stm, unrolled.
LEMMA LdmStmIs ==
  ASSUME NEW s, NEW i
  PROVE  LET rb == Field(i, 8, 3)
             m  == Moving(Moving(Moving(Moving(Moving(Moving(Moving(Moving(
                     [cpu |-> s, addr |-> s.regs[rb]],
                     i, 0), i, 1), i, 2), i, 3), i, 4), i, 5), i, 6), i, 7)
         IN  exec_ldm_stm(s, i) = m.cpu \/ exec_ldm_stm(s, i) = SetReg(m.cpu, rb, m.addr)
<1> DEFINE a0 == [cpu |-> s, addr |-> s.regs[Field(i, 8, 3)]]
           a1 == Moving(a0, i, 0)
           a2 == Moving(a1, i, 1)
           a3 == Moving(a2, i, 2)
           a4 == Moving(a3, i, 3)
           a5 == Moving(a4, i, 4)
           a6 == Moving(a5, i, 5)
           a7 == Moving(a6, i, 6)
           a8 == Moving(a7, i, 7)
           Eq(g) == g = [k \in 0..8 |-> IF k = 0 THEN a0 ELSE Moving(g[k - 1], i, k - 1)]
           h == [k \in 0..8 |-> IF k = 0 THEN a0 ELSE IF k = 1 THEN a1 ELSE IF k = 2 THEN a2
                  ELSE IF k = 3 THEN a3 ELSE IF k = 4 THEN a4 ELSE IF k = 5 THEN a5
                  ELSE IF k = 6 THEN a6 ELSE IF k = 7 THEN a7 ELSE a8]
           g == CHOOSE x : Eq(x)
<1>4. exec_ldm_stm(s, i) = g[8].cpu \/ exec_ldm_stm(s, i) = SetReg(g[8].cpu, Field(i, 8, 3), g[8].addr)
  BY DEF exec_ldm_stm
<1> HIDE DEF a0
<1>1. \A k \in 0..8 : h[k] = IF k = 0 THEN a0 ELSE Moving(h[k - 1], i, k - 1)
  <2>1. /\ h[0] = a0 /\ h[1] = Moving(h[0], i, 0) /\ h[2] = Moving(h[1], i, 1)
        /\ h[3] = Moving(h[2], i, 2) /\ h[4] = Moving(h[3], i, 3) /\ h[5] = Moving(h[4], i, 4)
        /\ h[6] = Moving(h[5], i, 5) /\ h[7] = Moving(h[6], i, 6) /\ h[8] = Moving(h[7], i, 7)
    OBVIOUS
  <2> HIDE DEF h
  <2> QED
    BY <2>1
<1>2. Eq(h)
  BY <1>1
<1>3. Eq(g)
  <2> HIDE DEF Eq, h
  <2> QED
    BY <1>2, Zenon
<1> HIDE DEF g
<1>5. g = [k \in 0..8 |-> IF k = 0 THEN a0 ELSE Moving(g[k - 1], i, k - 1)]
  BY <1>3
<1>6. /\ g[0] = a0 /\ g[1] = Moving(g[0], i, 0) /\ g[2] = Moving(g[1], i, 1)
      /\ g[3] = Moving(g[2], i, 2) /\ g[4] = Moving(g[3], i, 3) /\ g[5] = Moving(g[4], i, 4)
      /\ g[6] = Moving(g[5], i, 5) /\ g[7] = Moving(g[6], i, 6) /\ g[8] = Moving(g[7], i, 7)
  BY <1>5
<1>7. g[8] = a8
  BY <1>6, Zenon
<1> QED
  BY <1>4, <1>7, Zenon DEF a0

\* A transfer of a list on its way.
OnWay(m, s, load) ==
  /\ Moves(m.cpu, s) /\ m.addr \in WordSet
  /\ load => Quiet(m.cpu, s)

\* exec_ldm_stm.
LEMMA LdmStmFrame ==
  ASSUME NEW s \in Machines, NEW i \in Halfwords
  PROVE  /\ Moves(exec_ldm_stm(s, i), s)
         /\ Flag(i, 11) => Quiet(exec_ldm_stm(s, i), s)
<1> DEFINE rb == Field(i, 8, 3)
<1>0. rb \in 0..15 /\ rb # PC /\ Flag(i, 11) \in BOOLEAN
  BY FieldTypes DEF PC, Flag
<1>1. ASSUME NEW m, OnWay(m, s, Flag(i, 11)), NEW r \in 0..7
      PROVE  OnWay(Moving(m, i, r), s, Flag(i, 11))
  <2> DEFINE t == m.cpu
             a == m.addr
             u == Transfer(t, Flag(i, 11), r, a, 4)
  <2>1. t \in Machines /\ a \in WordSet /\ Moves(t, s) /\ (Flag(i, 11) => Quiet(t, s))
    BY <1>1, FramesCompose DEF OnWay
  <2>2. Moving(m, i, r) = m \/ Moving(m, i, r) = [cpu |-> u, addr |-> Wrap(a + 4)]
    BY MovingIs
  <2> HIDE DEF t, a
  <2>3. a \in Int /\ a + 4 \in Int
    BY <2>1, WordFacts
  <2>4. Wrap(a + 4) \in WordSet
    BY <2>3, WordFacts
  <2>5. Moves(u, t) /\ (Flag(i, 11) => Quiet(u, t))
    BY <1>0, <2>1, <2>3, TransferFrame
  <2> HIDE DEF u
  <2>6. Moves(u, s) /\ (Flag(i, 11) => Quiet(u, s))
    BY <2>1, <2>5, FramesCompose
  <2>7. OnWay([cpu |-> u, addr |-> Wrap(a + 4)], s, Flag(i, 11))
    BY <2>4, <2>6 DEF OnWay
  <2> QED
    BY <1>1, <2>2, <2>7
<1> DEFINE a0 == [cpu |-> s, addr |-> s.regs[rb]]
           a1 == Moving(a0, i, 0)
           a2 == Moving(a1, i, 1)
           a3 == Moving(a2, i, 2)
           a4 == Moving(a3, i, 3)
           a5 == Moving(a4, i, 4)
           a6 == Moving(a5, i, 5)
           a7 == Moving(a6, i, 6)
           a8 == Moving(a7, i, 7)
<1>2. OnWay(a0, s, Flag(i, 11))
  <2>1. s.regs[rb] \in WordSet /\ Moves(s, s) /\ Quiet(s, s)
    BY <1>0, MachineFields, FramesCompose
  <2> QED
    BY <2>1 DEF OnWay
<1>3. exec_ldm_stm(s, i) = a8.cpu \/ exec_ldm_stm(s, i) = SetReg(a8.cpu, rb, a8.addr)
  BY LdmStmIs
<1>4. 0 \in 0..7 /\ 1 \in 0..7 /\ 2 \in 0..7 /\ 3 \in 0..7 /\ 4 \in 0..7 /\ 5 \in 0..7 /\ 6 \in 0..7
      /\ 7 \in 0..7
  OBVIOUS
<1> HIDE DEF a0
<1>5. OnWay(a1, s, Flag(i, 11))
  BY <1>1, <1>2, <1>4
<1> HIDE DEF a1
<1>6. OnWay(a2, s, Flag(i, 11))
  BY <1>1, <1>4, <1>5
<1> HIDE DEF a2
<1>7. OnWay(a3, s, Flag(i, 11))
  BY <1>1, <1>4, <1>6
<1> HIDE DEF a3
<1>8. OnWay(a4, s, Flag(i, 11))
  BY <1>1, <1>4, <1>7
<1> HIDE DEF a4
<1>9. OnWay(a5, s, Flag(i, 11))
  BY <1>1, <1>4, <1>8
<1> HIDE DEF a5
<1>10. OnWay(a6, s, Flag(i, 11))
  BY <1>1, <1>4, <1>9
<1> HIDE DEF a6
<1>11. OnWay(a7, s, Flag(i, 11))
  BY <1>1, <1>4, <1>10
<1> HIDE DEF a7
<1>12. OnWay(a8, s, Flag(i, 11))
  BY <1>1, <1>4, <1>11
<1> HIDE DEF a8, rb
<1> DEFINE t == a8.cpu
           v == a8.addr
<1>13. Moves(t, s) /\ (Flag(i, 11) => Quiet(t, s)) /\ t \in Machines /\ v \in WordSet
  BY <1>12, FramesCompose DEF OnWay
<1>14. exec_ldm_stm(s, i) = t \/ exec_ldm_stm(s, i) = SetReg(t, rb, v)
  BY <1>3
<1> HIDE DEF t, v
<1>15. Moves(SetReg(t, rb, v), t) /\ Quiet(SetReg(t, rb, v), t)
  BY <1>0, <1>13, SetRegFrame
<1>16. Moves(SetReg(t, rb, v), s) /\ (Flag(i, 11) => Quiet(SetReg(t, rb, v), s))
  BY <1>13, <1>15, FramesCompose
<1> QED
  BY <1>13, <1>14, <1>16

\* The parts of an opcode that the decoder looks at, from its upper byte.
LEMMA TopFields ==
  ASSUME NEW i \in Halfwords
  PROVE  /\ Field(i, 8, 8) \in 0..255
         /\ Field(i, 10, 6) = Field(i, 8, 8) \div 4
         /\ Field(i, 11, 5) = Field(i, 8, 8) \div 8
         /\ Field(i, 12, 4) = Field(i, 8, 8) \div 16
         /\ Field(i, 9, 1) = (Field(i, 8, 8) \div 2) % 2
         /\ Field(i, 11, 1) = (Field(i, 8, 8) \div 8) % 2
         /\ Field(i, 8, 2) = Field(i, 8, 8) % 4
         /\ Field(i, 11, 2) = (Field(i, 8, 8) \div 8) % 4
         /\ Field(i, 8, 4) = Field(i, 8, 8) % 16
<1>1. i \in Int /\ 0 <= i /\ i <= 65535
  BY DEF Halfwords
<1>2. /\ Field(i, 8, 8) = (i \div 256) % 256 /\ Field(i, 10, 6) = (i \div 1024) % 64
      /\ Field(i, 11, 5) = (i \div 2048) % 32 /\ Field(i, 12, 4) = (i \div 4096) % 16
      /\ Field(i, 9, 1) = (i \div 512) % 2 /\ Field(i, 11, 1) = (i \div 2048) % 2
      /\ Field(i, 8, 2) = (i \div 256) % 4 /\ Field(i, 11, 2) = (i \div 2048) % 4
      /\ Field(i, 8, 4) = (i \div 256) % 16
  BY DEF Field
<1>3. (i \div 256) % 256 = i \div 256 /\ i \div 256 \in 0..255
  BY <1>1
<1>4. /\ (i \div 1024) % 64 = i \div 1024 /\ i \div 1024 = (i \div 256) \div 4
      /\ (i \div 2048) % 32 = i \div 2048 /\ i \div 2048 = (i \div 256) \div 8
      /\ (i \div 4096) % 16 = i \div 4096 /\ i \div 4096 = (i \div 256) \div 16
      /\ i \div 512 = (i \div 256) \div 2
  BY <1>1
<1> QED
  BY <1>2, <1>3, <1>4

\* The decoder, by the upper byte of the opcode.
LEMMA ExecuteIs ==
  ASSUME NEW s, NEW i \in Halfwords
  PROVE  LET k == Field(i, 8, 8)
         IN  /\ k \in 0..23 => execute(s, i) = exec_shift_imm(s, i)
             /\ k \in 24..31 => execute(s, i) = exec_add_sub(s, i)
             /\ k \in 32..63 => execute(s, i) = exec_imm8(s, i)
             /\ k \in 64..67 => execute(s, i) = exec_alu(s, i)
             /\ k \in 68..71 => execute(s, i) = exec_hi_reg_bx(s, i)
             /\ k \in 72..79 => execute(s, i) = exec_ldr_pc(s, i)
             /\ k \in 80..95 => execute(s, i) \in {exec_ldr_str_reg(s, i), Fault(s, "Undefined")}
             /\ k \in 96..127 => execute(s, i) = exec_ldr_str_imm(s, i)
             /\ k \in 128..143 => execute(s, i) = exec_ldrh_strh_imm(s, i)
             /\ k \in 144..159 => execute(s, i) = exec_ldr_str_sp(s, i)
             /\ k \in 160..175 => execute(s, i) = exec_add_sp_pc(s, i)
             /\ k \in {176} => execute(s, i) = exec_sp_ops(s, i)
             /\ k \in 190..191 => execute(s, i) = s
             /\ k \in 177..189 => execute(s, i) = exec_push_pop(s, i)
             /\ k \in 192..207 => execute(s, i) = exec_ldm_stm(s, i)
             /\ k \in 208..222 => execute(s, i) = exec_branch_cond(s, i)
             /\ k \in 224..231 => execute(s, i) = exec_branch(s, i)
             /\ k \in {223} \cup 232..239 => execute(s, i) = Fault(s, "Undefined")
             /\ k \in 240..247 => execute(s, i) = exec_bl_upper(s, i)
             /\ k \in 248..255 => execute(s, i) = exec_bl_lower(s, i)
<1> DEFINE k  == Field(i, 8, 8)
           a4 == Field(i, 12, 4)
           a5 == Field(i, 11, 5)
           a6 == Field(i, 10, 6)
           b  == Flag(i, 9)
<1>1. execute(s, i) =
        CASE a5 <= 2               -> exec_shift_imm(s, i)
          [] a5 = 3                -> exec_add_sub(s, i)
          [] a5 \in 4..7           -> exec_imm8(s, i)
          [] a6 = 16               -> exec_alu(s, i)
          [] a6 = 17               -> exec_hi_reg_bx(s, i)
          [] a5 = 9                -> exec_ldr_pc(s, i)
          [] a4 = 5 /\ ~b          -> exec_ldr_str_reg(s, i)
          [] a4 \in {6, 7}         -> exec_ldr_str_imm(s, i)
          [] a4 = 8                -> exec_ldrh_strh_imm(s, i)
          [] a4 = 9                -> exec_ldr_str_sp(s, i)
          [] a4 = 10               -> exec_add_sp_pc(s, i)
          [] k = 176               -> exec_sp_ops(s, i)
          [] k \in {190, 191}      -> s
          [] a4 = 11 /\ k \notin {176, 190, 191} -> exec_push_pop(s, i)
          [] a4 = 12               -> exec_ldm_stm(s, i)
          [] a4 = 13 /\ k # 223    -> exec_branch_cond(s, i)
          [] a5 = 28               -> exec_branch(s, i)
          [] a5 = 30               -> exec_bl_upper(s, i)
          [] a5 = 31               -> exec_bl_lower(s, i)
          [] OTHER                 -> Fault(s, "Undefined")
  BY DEF execute
<1>2. k \in 0..255
  BY TopFields
<1>3. a4 = k \div 16 /\ a5 = k \div 8 /\ a6 = k \div 4
  BY TopFields
<1> HIDE DEF k, a4, a5, a6, b
<1>4. k \in 0..23 => execute(s, i) = exec_shift_imm(s, i)
  BY <1>1, <1>2, <1>3
<1>5. k \in 24..31 => execute(s, i) = exec_add_sub(s, i)
  BY <1>1, <1>2, <1>3
<1>6. k \in 32..63 => execute(s, i) = exec_imm8(s, i)
  BY <1>1, <1>2, <1>3
<1>7. k \in 64..67 => execute(s, i) = exec_alu(s, i)
  BY <1>1, <1>2, <1>3
<1>8. k \in 68..71 => execute(s, i) = exec_hi_reg_bx(s, i)
  BY <1>1, <1>2, <1>3
<1>9. k \in 72..79 => execute(s, i) = exec_ldr_pc(s, i)
  BY <1>1, <1>2, <1>3
<1>10. k \in 80..95 => execute(s, i) \in {exec_ldr_str_reg(s, i), Fault(s, "Undefined")}
  <2>1. k \in 80..95 /\ b => execute(s, i) = Fault(s, "Undefined")
    BY <1>1, <1>2, <1>3
  <2>2. k \in 80..95 /\ ~b => execute(s, i) = exec_ldr_str_reg(s, i)
    BY <1>1, <1>2, <1>3
  <2> QED
    BY <2>1, <2>2
<1>11. k \in 96..127 => execute(s, i) = exec_ldr_str_imm(s, i)
  BY <1>1, <1>2, <1>3
<1>12. k \in 128..143 => execute(s, i) = exec_ldrh_strh_imm(s, i)
  BY <1>1, <1>2, <1>3
<1>13. k \in 144..159 => execute(s, i) = exec_ldr_str_sp(s, i)
  BY <1>1, <1>2, <1>3
<1>14. k \in 160..175 => execute(s, i) = exec_add_sp_pc(s, i)
  BY <1>1, <1>2, <1>3
<1>15. k \in {176} => execute(s, i) = exec_sp_ops(s, i)
  BY <1>1, <1>2, <1>3
<1>16. k \in 190..191 => execute(s, i) = s
  BY <1>1, <1>2, <1>3
<1>17. k \in 177..189 => execute(s, i) = exec_push_pop(s, i)
  BY <1>1, <1>2, <1>3
<1>18. k \in 192..207 => execute(s, i) = exec_ldm_stm(s, i)
  BY <1>1, <1>2, <1>3
<1>19. k \in 208..222 => execute(s, i) = exec_branch_cond(s, i)
  BY <1>1, <1>2, <1>3
<1>20. k \in 224..231 => execute(s, i) = exec_branch(s, i)
  BY <1>1, <1>2, <1>3
<1>21. k \in {223} \cup 232..239 => execute(s, i) = Fault(s, "Undefined")
  BY <1>1, <1>2, <1>3
<1>22. k \in 240..247 => execute(s, i) = exec_bl_upper(s, i)
  BY <1>1, <1>2, <1>3
<1>23. k \in 248..255 => execute(s, i) = exec_bl_lower(s, i)
  BY <1>1, <1>2, <1>3
<1> QED
  BY <1>4, <1>5, <1>6, <1>7, <1>8, <1>9, <1>10, <1>11, <1>12, <1>13, <1>14,
     <1>15, <1>16, <1>17, <1>18, <1>19, <1>20, <1>21, <1>22, <1>23 DEF k

\* Division with remainder.
LEMMA IntDivMod ==
  ASSUME NEW s \in Nat \ {0}, NEW a \in Int
  PROVE  /\ a \div s \in Int /\ a % s \in 0..(s - 1) /\ a = s * (a \div s) + (a % s)
OBVIOUS

\* Quotient and remainder are unique.
LEMMA IntUnique ==
  ASSUME NEW s \in Nat \ {0}, NEW q \in Int, NEW r \in 0..(s - 1)
  PROVE  (s * q + r) % s = r
OBVIOUS

\* Words may be reduced before or after an addition, and keep their parity.
LEMMA WrapAdds ==
  ASSUME NEW a \in Int, NEW b \in Int
  PROVE  /\ Wrap(a) \in WordSet /\ Wrap(Wrap(a) + b) = Wrap(a + b)
         /\ Wrap(a) % 2 = a % 2
<1> DEFINE S == Span
<1>0. S \in Nat \ {0} /\ S = 2 * MSB /\ MSB \in Nat
  BY WordFacts, MsbAssumption DEF Span
<1> HIDE DEF S
<1> DEFINE p == a \div S
           x == a % S
           q == (x + b) \div S
           y == (x + b) % S
<1>1. p \in Int /\ x \in 0..(S - 1) /\ a = S * p + x
  BY <1>0, IntDivMod
<1>2. q \in Int /\ y \in 0..(S - 1) /\ x + b = S * q + y
  <2>1. x + b \in Int
    BY <1>1
  <2> QED
    BY <1>0, <2>1, IntDivMod
<1> HIDE DEF p, x, q, y
<1>3. a + b = S * (p + q) + y
  <2>1. S * (p + q) = S * p + S * q
    BY <1>0, <1>1, <1>2
  <2> QED
    BY <1>0, <1>1, <1>2, <2>1
<1>4. (a + b) % S = y
  <2>1. p + q \in Int
    BY <1>1, <1>2
  <2> QED
    BY <1>0, <1>2, <1>3, <2>1, IntUnique
<1>5. x % 2 = a % 2
  <2>1. a = 2 * (MSB * p) + x /\ MSB * p \in Int
    BY <1>0, <1>1
  <2> DEFINE n == MSB * p
  <2> HIDE DEF n
  <2>2. n \in Int /\ a = 2 * n + x /\ x \in Int
    BY <1>1, <2>1 DEF n
  <2> QED
    BY <2>2
<1> QED
  BY <1>0, <1>1, <1>4, <1>5, WordFacts DEF Wrap, S, x, y

\* A set of line numbers has a last one, and Latest is it.
LEMMA LatestOne ==
  ASSUME NEW n \in Nat, NEW L, L \subseteq 1..n, L # {}
  PROVE  Latest(L) \in L /\ \A e \in L : e <= Latest(L)
<1> DEFINE H == {n - e : e \in L}
<1>0. \A e \in L : e \in 1..n
  OBVIOUS
<1>1. H \subseteq Nat /\ H # {}
  <2>1. PICK e \in L : TRUE
    OBVIOUS
  <2>2. n - e \in H
    BY <2>1
  <2>3. ASSUME NEW h \in H PROVE h \in Nat
    BY <1>0
  <2> QED
    BY <2>2, <2>3
<1>2. PICK k \in H : \A m \in H : k <= m
  BY <1>1, LeastOne
<1>3. PICK j \in L : k = n - j
  BY <1>2
<1>4. \A e \in L : e <= j
  <2> SUFFICES ASSUME NEW e \in L PROVE e <= j
    OBVIOUS
  <2>1. n - e \in H
    OBVIOUS
  <2>2. k <= n - e /\ e \in Int /\ j \in Int
    BY <1>2, <2>1
  <2> QED
    BY <1>3, <2>2
<1>5. \E x \in L : \A e \in L : e <= x
  BY <1>4
<1> QED
  BY <1>5, Zenon DEF Latest

\* It is the only number of that kind.
LEMMA LatestIs ==
  ASSUME NEW n \in Nat, NEW L, L \subseteq 1..n, NEW j \in L, \A e \in L : e <= j
  PROVE  Latest(L) = j
<1>1. Latest(L) \in L /\ \A e \in L : e <= Latest(L)
  BY LatestOne
<1>2. Latest(L) <= j /\ j <= Latest(L)
  BY <1>1
<1>3. Latest(L) \in 1..n /\ j \in 1..n
  BY <1>1
<1> QED
  BY <1>2, <1>3

\* A base C number loses its high digits to a power of C.
LEMMA DropHigh ==
  ASSUME NEW c \in Nat \ {0}, NEW p \in Nat \ {0}, NEW x \in Nat, NEW b \in 0..(c - 1)
  PROVE  (c * x + b) % (c * p) = c * (x % p) + b
<1> DEFINE q == x \div p
           r == x % p
<1>1. q \in Nat /\ r \in 0..(p - 1) /\ x = p * q + r
  BY DivMod
<1> HIDE DEF q, r
<1>2. c * p \in Nat \ {0} /\ c * r + b \in Nat
  BY <1>1
<1>3. c * r + b \in 0..(c * p - 1)
  <2>1. r + 1 <= p
    BY <1>1
  <2>2. c * (r + 1) <= c * p
    BY <1>1, <2>1
  <2>3. c * (r + 1) = c * r + c
    BY <1>1
  <2> QED
    BY <1>1, <1>2, <2>2, <2>3
<1>4. c * x + b = (c * p) * q + (c * r + b)
  BY <1>1
<1>5. ((c * p) * q + (c * r + b)) % (c * p) = c * r + b
  BY <1>1, <1>2, <1>3, Unique
<1> QED
  BY <1>4, <1>5 DEF r

Into(v, b) == Wrap(v * CELL) + b

\* Four bytes shifted into a word are all that is left of it.
LEMMA FourBytes ==
  ASSUME NEW v \in Nat, NEW a \in Octets, NEW b \in Octets, NEW c \in Octets, NEW d \in Octets
  PROVE  Into(Into(Into(Into(v, a), b), c), d) = ((a * CELL + b) * CELL + c) * CELL + d
<1> DEFINE C == CELL
<1> DEFINE P2 == C * C
<1> DEFINE P3 == C * P2
<1>1. /\ C \in Nat \ {0} /\ a \in 0..(C - 1) /\ b \in 0..(C - 1) /\ c \in 0..(C - 1)
      /\ d \in 0..(C - 1) /\ 0 \in 0..(C - 1)
  BY MemoryAssumption DEF Octets
<1>2. P2 \in Nat \ {0}
  BY <1>1
<1>3. P3 \in Nat \ {0}
  BY <1>1, <1>2
<1>4. Span = C * P3
  <2>1. Span = CELL * CELL * CELL * CELL
    BY CpuAssumption
  <2> QED
    BY <1>1, <2>1
<1> HIDE DEF C
<1>5. ASSUME NEW x \in Nat, NEW e \in 0..(C - 1)
      PROVE  /\ Into(x, e) = C * (x % P3) + e
             /\ x % P3 \in Nat /\ Into(x, e) \in Nat
  <2>1. (C * x + 0) % (C * P3) = C * (x % P3) + 0
    <3> HIDE DEF P3
    <3> QED
      BY <1>1, <1>3, DropHigh
  <2>2. x * CELL = C * x + 0
    BY <1>1 DEF C
  <2>3. Into(x, e) = ((C * x + 0) % (C * P3)) + e
    BY <1>4, <2>2 DEF Into, Wrap
  <2>4. x % P3 \in Nat
    BY <1>3, DivMod
  <2> HIDE DEF P3
  <2> QED
    BY <1>1, <2>1, <2>3, <2>4
<1> DEFINE y == v % P3
<1> DEFINE z == (y % P2) % C
<1>6. y \in Nat /\ y % P2 \in Nat /\ z \in Nat
  <2>1. y \in Nat
    BY <1>3, DivMod
  <2>2. y % P2 \in Nat
    <3> HIDE DEF y, P2
    <3> QED
      BY <1>2, <2>1, DivMod
  <2>3. (y % P2) % C \in Nat
    <3> HIDE DEF y, P2
    <3> QED
      BY <1>1, <2>2, DivMod
  <2> QED
    BY <2>1, <2>2, <2>3
<1> DEFINE v1 == Into(v, a)
<1> DEFINE v2 == Into(v1, b)
<1> DEFINE v3 == Into(v2, c)
<1>7. v1 = C * y + a /\ v1 \in Nat
  BY <1>1, <1>5
<1> HIDE DEF P2, y, v1
<1>8. v1 % P3 = C * (y % P2) + a
  BY <1>1, <1>2, <1>6, <1>7, DropHigh DEF P3
<1>9. v2 = C * (C * (y % P2) + a) + b /\ v2 \in Nat
  BY <1>1, <1>5, <1>7, <1>8
<1> HIDE DEF v2
<1>10. v2 % P3 = C * (C * z + a) + b
  <2> DEFINE w == y % P2
  <2>1. w \in Nat /\ C * w + a \in Nat
    BY <1>1, <1>6
  <2> HIDE DEF w
  <2>2. (C * (C * w + a) + b) % (C * P2) = C * ((C * w + a) % P2) + b
    BY <1>1, <1>2, <2>1, DropHigh
  <2>3. (C * w + a) % (C * C) = C * (w % C) + a
    BY <1>1, <2>1, DropHigh
  <2> QED
    BY <1>9, <2>2, <2>3 DEF w, z, P2, P3
<1>11. v3 = C * (C * (C * z + a) + b) + c /\ v3 \in Nat
  BY <1>1, <1>5, <1>9, <1>10
<1> HIDE DEF v3, z
<1>12. v3 % P3 = C * (C * a + b) + c
  <2>1. C * z + a \in Nat /\ C * (C * z + a) + b \in Nat
    BY <1>1, <1>6
  <2>2. (C * (C * (C * z + a) + b) + c) % (C * P2) = C * ((C * (C * z + a) + b) % P2) + c
    BY <1>1, <1>2, <2>1, DropHigh
  <2>3. (C * (C * z + a) + b) % (C * C) = C * ((C * z + a) % C) + b
    BY <1>1, <2>1, DropHigh
  <2>4. (C * z + a) % C = a
    BY <1>1, <1>6, Unique
  <2> QED
    BY <1>11, <2>2, <2>3, <2>4 DEF P2, P3
<1>13. Into(v3, d) = C * (C * (C * a + b) + c) + d
  BY <1>1, <1>5, <1>11, <1>12
<1>14. C * (C * (C * a + b) + c) + d = ((a * C + b) * C + c) * C + d
  BY <1>1
<1> QED
  BY <1>13, <1>14 DEF v1, v2, v3, C

(***************************************************************************)
(* The loader.  ImageIsRight speaks about the file as a whole, and the     *)
(* code reads it line by line with a base address that stays in force.     *)
(* Below, what the property says is written as functions of the file; a    *)
(* line more changes each of them the way one iteration of load_ihex       *)
(* changes base_addr, memory and entry_point.  LoadInv is ImageIsRight     *)
(* with what makes it inductive: while a file is read the base address is  *)
(* that of its last extended record, and the CPU is a new one but for the  *)
(* memory.                                                                 *)
(***************************************************************************)

BytesAt(f, j) == f[j].bytes

Extended(f, j) == {e \in 1..(j - 1) : RecType(BytesAt(f, e)) \in {2, 4}}

BaseBy(b) == (b[5] * CELL + b[6]) * (IF RecType(b) = 2 THEN SEG ELSE CELL * CELL)

BaseOf(f, j) ==
  IF Extended(f, j) = {} THEN 0 ELSE BaseBy(BytesAt(f, Latest(Extended(f, j))))

CellOf(f, j) == translate((BaseOf(f, j) + Offset(BytesAt(f, j))) % Span)

Covers(f, j, k) ==
  /\ RecType(BytesAt(f, j)) = 0
  /\ k >= CellOf(f, j) /\ k < CellOf(f, j) + ByteCount(BytesAt(f, j))

CoveringIn(f, k) == {j \in DOMAIN f : Covers(f, j, k)}

ByteIn(f, k, j) == BytesAt(f, j)[5 + k - CellOf(f, j)]

CellValue(f, k) ==
  IF CoveringIn(f, k) = {} THEN 0 ELSE ByteIn(f, k, Latest(CoveringIn(f, k)))

StartsIn(f) == {j \in DOMAIN f : RecType(BytesAt(f, j)) = 5}

EntryBy(b) == ((b[5] * CELL + b[6]) * CELL + b[7]) * CELL + b[8]

EntryOf(f) == IF StartsIn(f) = {} THEN 0 ELSE EntryBy(BytesAt(f, Latest(StartsIn(f))))

\* The records that a file can hold.
IsRecord(b) ==
  /\ b \in Seq(Octets) /\ Len(b) >= 5
  /\ RecType(b) \in {0, 2, 4, 5}
  /\ Len(b) >= 4 + Needed(b)

IsFile(f) ==
  /\ Len(f) \in Nat /\ DOMAIN f = 1..Len(f)
  /\ \A j \in 1..Len(f) : IsRecord(BytesAt(f, j))

\* g is f with one more line, of those bytes.
OneMore(g, f, b) ==
  /\ IsFile(f) /\ IsRecord(b)
  /\ Len(g) = Len(f) + 1 /\ DOMAIN g = 1..Len(g)
  /\ \A j \in 1..Len(f) : BytesAt(g, j) = BytesAt(f, j)
  /\ BytesAt(g, Len(g)) = b

\* A line more makes a file.
LEMMA OneMoreFile ==
  ASSUME NEW f, NEW g, NEW b, OneMore(g, f, b)
  PROVE  IsFile(g) /\ Len(f) \in Nat /\ Len(g) = Len(f) + 1 /\ Len(g) \in Nat
<1>1. Len(f) \in Nat /\ Len(g) = Len(f) + 1 /\ DOMAIN g = 1..Len(g)
  BY DEF OneMore, IsFile
<1>2. ASSUME NEW j \in 1..Len(g) PROVE IsRecord(BytesAt(g, j))
  <2>1. j \in 1..Len(f) \/ j = Len(g)
    BY <1>1
  <2> QED
    BY <2>1, Zenon DEF OneMore, IsFile
<1> QED
  BY <1>1, <1>2 DEF IsFile

\* What a line means does not depend on the lines after it.
LEMMA BaseBefore ==
  ASSUME NEW f, NEW g, NEW b, OneMore(g, f, b), NEW j \in 1..Len(g)
  PROVE  BaseOf(g, j) = BaseOf(f, j)
<1>1. Len(f) \in Nat /\ Len(g) = Len(f) + 1
  BY OneMoreFile
<1>2. \A e \in 1..(j - 1) : BytesAt(g, e) = BytesAt(f, e)
  BY <1>1 DEF OneMore
<1>3. Extended(g, j) = Extended(f, j)
  BY <1>2, Zenon DEF Extended
<1>4. CASE Extended(f, j) = {}
  BY <1>3, <1>4 DEF BaseOf
<1>5. CASE Extended(f, j) # {}
  <2>1. Extended(f, j) \subseteq 1..(j - 1) /\ j - 1 \in Nat
    BY <1>1 DEF Extended
  <2>2. Latest(Extended(f, j)) \in Extended(f, j)
    BY <1>5, <2>1, LatestOne
  <2>3. BytesAt(g, Latest(Extended(f, j))) = BytesAt(f, Latest(Extended(f, j)))
    BY <1>2, <2>1, <2>2
  <2> QED
    BY <1>3, <2>3 DEF BaseOf
<1> QED
  BY <1>4, <1>5

\* The base address after the last line.
LEMMA BaseAfterLine ==
  ASSUME NEW f, NEW g, NEW b, OneMore(g, f, b)
  PROVE  BaseOf(g, Len(g) + 1) =
           IF RecType(b) \in {2, 4} THEN BaseBy(b) ELSE BaseOf(f, Len(g))
<1> DEFINE n == Len(g)
<1>1. Len(f) \in Nat /\ n = Len(f) + 1 /\ n \in Nat
  BY OneMoreFile
<1>2. Extended(g, n + 1) = Extended(g, n) \cup {e \in {n} : RecType(b) \in {2, 4}}
  <2>1. 1..(n + 1 - 1) = (1..(n - 1)) \cup {n}
    BY <1>1
  <2>2. BytesAt(g, n) = b
    BY DEF OneMore
  <2> HIDE DEF n
  <2> QED
    BY <2>1, <2>2 DEF Extended
<1>3. CASE RecType(b) \in {2, 4}
  <2>1. n \in Extended(g, n + 1) /\ Extended(g, n + 1) \subseteq 1..n
    <3>1. Extended(g, n + 1) \subseteq 1..(n + 1 - 1) /\ n + 1 - 1 = n
      BY <1>1 DEF Extended
    <3> QED
      BY <1>2, <1>3, <3>1
  <2>2. \A e \in Extended(g, n + 1) : e <= n
    BY <1>1, <2>1
  <2>3. Latest(Extended(g, n + 1)) = n
    <3> HIDE DEF n
    <3> QED
      BY <1>1, <2>1, <2>2, LatestIs
  <2>4. BytesAt(g, n) = b
    BY DEF OneMore
  <2>5. Extended(g, n + 1) # {}
    BY <2>1
  <2> QED
    BY <1>3, <2>3, <2>4, <2>5 DEF BaseOf
<1>4. CASE ~(RecType(b) \in {2, 4})
  <2>1. Extended(g, n + 1) = Extended(g, n)
    BY <1>2, <1>4
  <2>2. BaseOf(g, n + 1) = BaseOf(g, n)
    BY <2>1 DEF BaseOf
  <2>3. BaseOf(g, n) = BaseOf(f, n)
    BY <1>1, BaseBefore
  <2> QED
    BY <1>4, <2>2, <2>3
<1> QED
  BY <1>3, <1>4

\* The parts of a data record.
LEMMA RecordFacts ==
  ASSUME NEW b, IsRecord(b)
  PROVE  /\ Offset(b) \in Nat /\ ByteCount(b) \in Nat
         /\ RecType(b) \in {2, 4} => BaseBy(b) \in Nat /\ b[5] \in Nat /\ b[6] \in Nat
         /\ RecType(b) = 5 => \A k \in 5..8 : b[k] \in Octets
         /\ RecType(b) = 0 =>
              /\ Len(Data(b)) = ByteCount(b)
              /\ \A k \in 1..ByteCount(b) : Data(b)[k] = b[4 + k] /\ b[4 + k] \in Octets
<1>1. /\ CELL \in Nat \ {0} /\ SEG \in Nat \ {0}
      /\ \A k \in 1..Len(b) : b[k] \in 0..(CELL - 1)
      /\ Len(b) \in Nat /\ Len(b) >= 5 /\ b \in Seq(Octets)
  BY MemoryAssumption, LoaderAssumption, SMTT(30) DEF IsRecord, Octets
<1>2. b[1] \in Nat /\ b[2] \in Nat /\ b[3] \in Nat
  BY <1>1
<1>3. Offset(b) \in Nat /\ ByteCount(b) \in Nat
  <2> DEFINE x == b[2]
             y == b[3]
  <2>1. Offset(b) = x * CELL + y
    BY DEF Offset, Number
  <2>2. x \in Nat /\ y \in Nat /\ CELL \in Nat
    BY <1>1, <1>2
  <2>3. ByteCount(b) \in Nat
    BY <1>2 DEF ByteCount
  <2> HIDE DEF x, y
  <2>4. x * CELL + y \in Nat
    BY <2>2
  <2> QED
    BY <2>1, <2>3, <2>4, Zenon
<1>4. ASSUME RecType(b) \in {2, 4} PROVE BaseBy(b) \in Nat /\ b[5] \in Nat /\ b[6] \in Nat
  <2>1. Needed(b) = 2
    BY <1>4 DEF Needed
  <2>2. Len(b) >= 6
    BY <1>1, <2>1 DEF IsRecord
  <2>3. b[5] \in Nat /\ b[6] \in Nat
    BY <1>1, <2>2
  <2> DEFINE x == b[5]
             y == b[6]
             t == IF RecType(b) = 2 THEN SEG ELSE CELL * CELL
  <2>4. t \in Nat /\ x * CELL + y \in Nat
    BY <1>1, <2>3
  <2>5. BaseBy(b) = (x * CELL + y) * t
    BY DEF BaseBy
  <2> HIDE DEF x, y, t
  <2>6. (x * CELL + y) * t \in Nat
    BY <2>4
  <2> QED
    BY <2>3, <2>5, <2>6
<1>5. ASSUME RecType(b) = 5 PROVE \A k \in 5..8 : b[k] \in Octets
  <2>1. Needed(b) = 4
    BY <1>5 DEF Needed
  <2>2. Len(b) >= 8
    BY <1>1, <2>1 DEF IsRecord
  <2> QED
    BY <1>1, <2>2 DEF Octets
<1>6. ASSUME RecType(b) = 0
      PROVE  /\ Len(Data(b)) = ByteCount(b)
             /\ \A k \in 1..ByteCount(b) : Data(b)[k] = b[4 + k] /\ b[4 + k] \in Octets
  <2>1. Needed(b) = ByteCount(b)
    BY <1>6 DEF Needed
  <2> DEFINE n == ByteCount(b)
  <2>2. n \in Nat /\ 4 + n <= Len(b)
    BY <1>1, <1>3, <2>1 DEF IsRecord
  <2> HIDE DEF n
  <2>3. /\ Len(SubSeq(b, 5, 4 + n)) = n
        /\ \A k \in 1..n : SubSeq(b, 5, 4 + n)[k] = b[4 + k]
    <3>1. /\ Len(SubSeq(b, 5, 4 + n)) = IF 5 <= 4 + n THEN 4 + n - 5 + 1 ELSE 0
          /\ \A k \in 1..(4 + n - 5 + 1) : SubSeq(b, 5, 4 + n)[k] = b[5 + k - 1]
      BY <1>1, <2>2
    <3>2. 4 + n - 5 + 1 = n /\ (~(5 <= 4 + n) => n = 0)
      BY <2>2
    <3>3. \A k \in 1..n : 5 + k - 1 = 4 + k
      BY <2>2
    <3> QED
      BY <3>1, <3>2, <3>3
  <2>4. Data(b) = SubSeq(b, 5, 4 + n)
    BY DEF Data, n
  <2>5. \A k \in 1..n : b[4 + k] \in Octets
    BY <1>1, <2>2 DEF Octets
  <2> QED
    BY <2>3, <2>4, <2>5 DEF n
<1> QED
  BY <1>3, <1>4, <1>5, <1>6

\* Base addresses are numbers.
LEMMA BaseType ==
  ASSUME NEW f, IsFile(f), NEW j \in 1..(Len(f) + 1)
  PROVE  BaseOf(f, j) \in Nat
<1>1. Len(f) \in Nat /\ \A e \in 1..Len(f) : IsRecord(BytesAt(f, e))
  BY DEF IsFile
<1>2. Extended(f, j) \subseteq 1..(j - 1) /\ j - 1 \in Nat /\ j - 1 <= Len(f)
  BY <1>1 DEF Extended
<1>3. CASE Extended(f, j) = {}
  BY <1>3 DEF BaseOf
<1>4. CASE Extended(f, j) # {}
  <2> DEFINE e == Latest(Extended(f, j))
  <2>1. e \in Extended(f, j)
    BY <1>2, <1>4, LatestOne
  <2>2. e \in 1..Len(f) /\ RecType(BytesAt(f, e)) \in {2, 4}
    <3>1. e \in 1..(j - 1) /\ RecType(BytesAt(f, e)) \in {2, 4}
      BY <2>1 DEF Extended
    <3> QED
      BY <1>1, <1>2, <3>1
  <2>3. BaseBy(BytesAt(f, e)) \in Nat
    BY <1>1, <2>2, RecordFacts
  <2> QED
    BY <1>4, <2>3 DEF BaseOf
<1> QED
  BY <1>3, <1>4

\* translate returns a number.
LEMMA TranslateType ==
  ASSUME NEW x \in Nat
  PROVE  translate(x % Span) \in Int /\ x % Span \in WordSet
<1>1. Span \in Nat \ {0}
  BY MsbAssumption DEF Span
<1>2. x % Span \in 0..(Span - 1)
  BY <1>1, DivMod
<1> DEFINE y == x % Span
<1> HIDE DEF y
<1>3. y \in Nat => translate(y) \in Int
  BY MemoryAssumption DEF translate
<1> QED
  BY <1>1, <1>2, <1>3 DEF y, WordSet

\* The cell at which a line begins is a number.
LEMMA CellType ==
  ASSUME NEW f, IsFile(f), NEW j \in 1..Len(f)
  PROVE  CellOf(f, j) \in Int
<1>1. Len(f) \in Nat /\ IsRecord(BytesAt(f, j)) /\ j \in 1..(Len(f) + 1)
  BY DEF IsFile
<1>2. BaseOf(f, j) \in Nat /\ Offset(BytesAt(f, j)) \in Nat
  BY <1>1, BaseType, RecordFacts
<1>3. BaseOf(f, j) + Offset(BytesAt(f, j)) \in Nat
  BY <1>2
<1> QED
  BY <1>3, TranslateType DEF CellOf

\* The cells after one more line.
LEMMA ImageAfterLine ==
  ASSUME NEW f, NEW g, NEW b, OneMore(g, f, b), NEW k \in Index
  PROVE  CellValue(g, k) =
           IF Covers(g, Len(g), k) THEN ByteIn(g, k, Len(g)) ELSE CellValue(f, k)
<1> DEFINE n == Len(g)
<1>1. IsFile(f) /\ IsFile(g) /\ Len(f) \in Nat /\ n = Len(f) + 1 /\ n \in Nat
  BY OneMoreFile DEF OneMore
<1>2. DOMAIN f = 1..Len(f) /\ DOMAIN g = 1..n
  BY <1>1 DEF IsFile
<1>3. ASSUME NEW j \in 1..Len(f)
      PROVE  CellOf(g, j) = CellOf(f, j) /\ BytesAt(g, j) = BytesAt(f, j)
  <2>1. j \in 1..n
    BY <1>1
  <2>2. BaseOf(g, j) = BaseOf(f, j)
    BY <2>1, BaseBefore
  <2>3. BytesAt(g, j) = BytesAt(f, j)
    BY DEF OneMore
  <2> QED
    BY <2>2, <2>3 DEF CellOf
<1>4. CoveringIn(g, k) = CoveringIn(f, k) \cup {j \in {n} : Covers(g, n, k)}
  <2>1. 1..n = (1..Len(f)) \cup {n}
    BY <1>1
  <2>2. \A j \in 1..Len(f) : Covers(g, j, k) <=> Covers(f, j, k)
    BY <1>3 DEF Covers
  <2> HIDE DEF n
  <2> QED
    BY <1>2, <2>1, <2>2 DEF CoveringIn
<1>5. CoveringIn(f, k) \subseteq 1..Len(f) /\ CoveringIn(g, k) \subseteq 1..n
  BY <1>2 DEF CoveringIn
<1>6. CASE Covers(g, n, k)
  <2>1. n \in CoveringIn(g, k)
    BY <1>4, <1>6
  <2>2. \A e \in CoveringIn(g, k) : e <= n
    BY <1>1, <1>5
  <2>3. Latest(CoveringIn(g, k)) = n
    <3> HIDE DEF n
    <3> QED
      BY <1>1, <1>5, <2>1, <2>2, LatestIs
  <2>4. CoveringIn(g, k) # {}
    BY <2>1
  <2> QED
    BY <1>6, <2>3, <2>4 DEF CellValue
<1>7. CASE ~Covers(g, n, k)
  <2>1. CoveringIn(g, k) = CoveringIn(f, k)
    BY <1>4, <1>7
  <2>2. CASE CoveringIn(f, k) = {}
    BY <1>7, <2>1, <2>2 DEF CellValue
  <2>3. CASE CoveringIn(f, k) # {}
    <3> DEFINE j == Latest(CoveringIn(f, k))
    <3>1. j \in 1..Len(f)
      <4>1. j \in CoveringIn(f, k)
        BY <1>1, <1>5, <2>3, LatestOne
      <4> QED
        BY <1>5, <4>1
    <3>2. ByteIn(g, k, j) = ByteIn(f, k, j)
      BY <1>3, <3>1 DEF ByteIn
    <3> QED
      BY <1>7, <2>1, <2>3, <3>2 DEF CellValue
  <2> QED
    BY <2>2, <2>3
<1> QED
  BY <1>6, <1>7

\* The start address after one more line.
LEMMA EntryAfterLine ==
  ASSUME NEW f, NEW g, NEW b, OneMore(g, f, b)
  PROVE  EntryOf(g) = IF RecType(b) = 5 THEN EntryBy(b) ELSE EntryOf(f)
<1> DEFINE n == Len(g)
<1>1. IsFile(f) /\ IsFile(g) /\ Len(f) \in Nat /\ n = Len(f) + 1 /\ n \in Nat
  BY OneMoreFile DEF OneMore
<1>2. DOMAIN f = 1..Len(f) /\ DOMAIN g = 1..n
  BY <1>1 DEF IsFile
<1>3. (\A j \in 1..Len(f) : BytesAt(g, j) = BytesAt(f, j)) /\ BytesAt(g, n) = b
  BY DEF OneMore
<1>4. StartsIn(g) = StartsIn(f) \cup {j \in {n} : RecType(b) = 5}
  <2>1. 1..n = (1..Len(f)) \cup {n}
    BY <1>1
  <2> HIDE DEF n
  <2> QED
    BY <1>2, <1>3, <2>1 DEF StartsIn
<1>5. StartsIn(f) \subseteq 1..Len(f) /\ StartsIn(g) \subseteq 1..n
  BY <1>2 DEF StartsIn
<1>6. CASE RecType(b) = 5
  <2>1. n \in StartsIn(g)
    BY <1>4, <1>6
  <2>2. \A e \in StartsIn(g) : e <= n
    BY <1>1, <1>5
  <2>3. Latest(StartsIn(g)) = n
    <3> HIDE DEF n
    <3> QED
      BY <1>1, <1>5, <2>1, <2>2, LatestIs
  <2>4. StartsIn(g) # {}
    BY <2>1
  <2> QED
    BY <1>3, <1>6, <2>3, <2>4 DEF EntryOf
<1>7. CASE RecType(b) # 5
  <2>1. StartsIn(g) = StartsIn(f)
    BY <1>4, <1>7
  <2>2. CASE StartsIn(f) = {}
    BY <1>7, <2>1, <2>2 DEF EntryOf
  <2>3. CASE StartsIn(f) # {}
    <3> DEFINE j == Latest(StartsIn(f))
    <3>1. j \in 1..Len(f)
      <4>1. j \in StartsIn(f)
        BY <1>1, <1>5, <2>3, LatestOne
      <4> QED
        BY <1>5, <4>1
    <3>2. BytesAt(g, j) = BytesAt(f, j)
      BY <1>3, <3>1
    <3> QED
      BY <1>7, <2>1, <2>3, <3>2 DEF EntryOf
  <2> QED
    BY <2>2, <2>3
<1> QED
  BY <1>6, <1>7

-----------------------------------------------------------------------------
(* The invariant of loading.                                               *)

Phases == {"idle", "load", "run", "done", "failed"}

\* A reset machine with memory m.
Fresh(m) == [Reset EXCEPT !.mem = m]

Image(f, ph, mem, regs, entry) ==
  f # <<>> \/ ph = "load" =>
    /\ \A k \in Index : mem[k] = CellValue(f, k)
    /\ entry = EntryOf(f)
    /\ ph = "run" => regs[PC] = Even(EntryOf(f))

LoadInv ==
  /\ phase \in Phases
  /\ phase = "idle" => core = Reset /\ file = <<>>
  /\ phase = "load" => core = Fresh(core.mem) /\ base_addr = BaseOf(file, Len(file) + 1)
  /\ phase = "done" => file = <<>>
  /\ file \in Seq(Lines) /\ IsFile(file) /\ entry_point \in Nat
  /\ Image(file, phase, core.mem, core.regs, entry_point)

\* Image says what ImageIsRight asks.
LEMMA ImageMeans ==
  Image(file, phase, core.mem, core.regs, entry_point) <=> ImageIsRight
<1>1. \A j : BaseAt(j) = BaseOf(file, j)
  BY DEF BaseAt, BaseOf, BaseBy, Extended, BytesAt
<1>2. \A j : FirstCell(j) = CellOf(file, j)
  BY <1>1 DEF FirstCell, CellOf, BytesAt
<1>3. \A k : Covering(k) = CoveringIn(file, k)
  BY <1>2 DEF Covering, CoveringIn, Covers, BytesAt
<1>4. \A k, j : ByteIn(file, k, j) = file[j].bytes[5 + k - FirstCell(j)]
  BY <1>2 DEF ByteIn, BytesAt
<1>5. \A k : CellValue(file, k) =
        IF Covering(k) = {} THEN 0
        ELSE LET j == Latest(Covering(k)) IN file[j].bytes[5 + k - FirstCell(j)]
  BY <1>3, <1>4 DEF CellValue
<1>6. EntryOf(file) =
        LET starts == {j \in DOMAIN file : RecType(file[j].bytes) = 5}
            b      == file[Latest(starts)].bytes
        IN  IF starts = {} THEN 0 ELSE ((b[5] * CELL + b[6]) * CELL + b[7]) * CELL + b[8]
  BY DEF EntryOf, EntryBy, StartsIn, BytesAt
<1> QED
  BY <1>5, <1>6 DEF Image, ImageIsRight

\* Before the first line.
LEMMA EmptyFile ==
  /\ IsFile(<<>>) /\ EntryOf(<<>>) = 0 /\ BaseOf(<<>>, Len(<<>>) + 1) = 0
  /\ \A k : CellValue(<<>>, k) = 0
<1>1. IsFile(<<>>)
  BY DEF IsFile
<1>2. Extended(<<>>, Len(<<>>) + 1) = {}
  BY DEF Extended
<1>3. StartsIn(<<>>) = {} /\ \A k : CoveringIn(<<>>, k) = {}
  BY DEF StartsIn, CoveringIn
<1> QED
  BY <1>1, <1>2, <1>3 DEF EntryOf, BaseOf, CellValue

\* The parts of a new CPU with the memory m.
LEMMA FreshFacts ==
  ASSUME NEW m, NEW v
  PROVE  /\ Fresh(m).mem = m
         /\ SetReg(Fresh(m), PC, v).mem = m
         /\ SetReg(Fresh(m), PC, v).regs[PC] = v
         /\ Reset = Fresh(EmptyMemory) /\ Reset.mem = EmptyMemory
BY DEF Fresh, Reset, SetReg, PC, SP

\* Bytes loaded into a new CPU.
LEMMA FreshLoaded ==
  ASSUME NEW m, NEW addr, NEW bytes
  PROVE  [Fresh(m) EXCEPT !.mem = Loaded(@, addr, bytes)] = Fresh(Loaded(m, addr, bytes))
BY DEF Fresh, Reset

\* An empty memory is the image of an empty file.
LEMMA EmptyImage ==
  ASSUME NEW regs, NEW ph
  PROVE  ph # "run" => Image(<<>>, ph, EmptyMemory, regs, 0)
BY EmptyFile DEF Image, EmptyMemory

\* Outside a load there is nothing to compare.
LEMMA NothingLoaded ==
  ASSUME NEW ph, ph # "load", NEW mem, NEW regs, NEW entry
  PROVE  Image(<<>>, ph, mem, regs, entry)
BY DEF Image

\* The loader's code for one record.
LEMMA RecordLoads ==
  ASSUME LoadInv, NEW line \in Lines, phase = "load",
         WellFormed(line), RecType(line.bytes) # 1,
         NEW mem, mem = IF RecType(line.bytes) # 0 THEN core.mem
                        ELSE Loaded(core.mem, DataAddr(line.bytes), Data(line.bytes))
  PROVE  /\ IsFile(Append(file, line))
         /\ BaseAfter(line.bytes) = BaseOf(Append(file, line), Len(Append(file, line)) + 1)
         /\ EntryAfter(line.bytes) = EntryOf(Append(file, line))
         /\ EntryAfter(line.bytes) \in Nat
         /\ \A k \in Index : mem[k] = CellValue(Append(file, line), k)
<1> DEFINE g == Append(file, line)
           b == line.bytes
<1>0. /\ file \in Seq(Lines) /\ IsFile(file) /\ entry_point \in Nat
      /\ base_addr = BaseOf(file, Len(file) + 1)
      /\ \A k \in Index : core.mem[k] = CellValue(file, k)
      /\ entry_point = EntryOf(file)
  BY DEF LoadInv, Image
<1>1. IsRecord(b)
  BY LoaderAssumption DEF WellFormed, IsRecord
<1>2. OneMore(g, file, b)
  <2>1. /\ Len(g) = Len(file) + 1 /\ DOMAIN g = 1..Len(g) /\ Len(file) \in Nat
        /\ \A j \in 1..Len(file) : g[j] = file[j]
        /\ g[Len(g)] = line
    BY <1>0
  <2> HIDE DEF g
  <2> QED
    BY <1>0, <1>1, <2>1 DEF OneMore, BytesAt
<1>3. IsFile(g) /\ Len(file) \in Nat /\ Len(g) = Len(file) + 1 /\ Len(g) \in Nat
  BY <1>2, OneMoreFile
<1> HIDE DEF g
<1>4. BaseAfter(b) = BaseOf(g, Len(g) + 1)
  <2>1. BaseOf(g, Len(g) + 1) =
          IF RecType(b) \in {2, 4} THEN BaseBy(b) ELSE BaseOf(file, Len(g))
    BY <1>2, BaseAfterLine
  <2>2. CASE ~(RecType(b) \in {2, 4})
    BY <1>0, <1>3, <2>1, <2>2 DEF BaseAfter
  <2>3. CASE RecType(b) \in {2, 4}
    <3>2. b[5] \in Nat /\ b[6] \in Nat /\ CELL \in Nat
      BY <1>1, <2>3, RecordFacts, MemoryAssumption
    <3> DEFINE x == b[5]
               y == b[6]
    <3>3. (x * CELL + y) * (CELL * CELL) = (x * CELL + y) * CELL * CELL
      <4> HIDE DEF x, y
      <4> QED
        BY <3>2 DEF x, y
    <3>4. BaseAfter(b) = BaseBy(b)
      BY <2>3, <3>3 DEF BaseAfter, BaseBy, Number
    <3> QED
      BY <2>1, <2>3, <3>4
  <2> QED
    BY <2>2, <2>3
<1>5. EntryAfter(b) = EntryOf(g) /\ EntryAfter(b) \in Nat
  <2>1. EntryOf(g) = IF RecType(b) = 5 THEN EntryBy(b) ELSE EntryOf(file)
    BY <1>2, EntryAfterLine
  <2>2. CASE RecType(b) # 5
    BY <1>0, <2>1, <2>2 DEF EntryAfter
  <2>3. CASE RecType(b) = 5
    <3>1. b[5] \in Octets /\ b[6] \in Octets /\ b[7] \in Octets /\ b[8] \in Octets
      BY <1>1, <2>3, RecordFacts
    <3>2. EntryAfter(b) = Into(Into(Into(Into(entry_point, b[5]), b[6]), b[7]), b[8])
      BY <2>3 DEF EntryAfter, Into
    <3>3. EntryAfter(b) = EntryBy(b)
      BY <1>0, <3>1, <3>2, FourBytes DEF EntryBy
    <3>4. EntryBy(b) \in Nat
      BY <3>1, MemoryAssumption DEF EntryBy, Octets
    <3> QED
      BY <2>1, <2>3, <3>3, <3>4
  <2> QED
    BY <2>2, <2>3
<1>6. ASSUME NEW k \in Index PROVE mem[k] = CellValue(g, k)
  <2>1. CellValue(g, k) =
          IF Covers(g, Len(g), k) THEN ByteIn(g, k, Len(g)) ELSE CellValue(file, k)
    BY <1>2, ImageAfterLine
  <2>2. BytesAt(g, Len(g)) = b
    BY <1>2 DEF OneMore
  <2>3. CASE RecType(b) # 0
    BY <1>0, <2>1, <2>2, <2>3 DEF Covers
  <2>4. CASE RecType(b) = 0
    <3> DEFINE c == CellOf(g, Len(g))
    <3>1. c = translate(DataAddr(b))
      <4>1. Len(g) \in 1..Len(g)
        BY <1>3
      <4>2. BaseOf(g, Len(g)) = base_addr
        BY <1>0, <1>2, <1>3, <4>1, BaseBefore
      <4> QED
        BY <2>2, <4>2 DEF CellOf, DataAddr, Wrap
    <3>2. c \in Int
      BY <1>3, CellType
    <3>3. ByteCount(b) \in Nat /\ Len(Data(b)) = ByteCount(b)
          /\ \A x \in 1..ByteCount(b) : Data(b)[x] = b[4 + x]
      BY <1>1, <2>4, RecordFacts
    <3>4. k \in Int
      BY MemoryAssumption DEF Index
    <3>5. mem[k] = IF k >= c /\ k < c + ByteCount(b) THEN Data(b)[k - c + 1] ELSE core.mem[k]
      BY <2>4, <3>1, <3>3 DEF Loaded
    <3>6. Covers(g, Len(g), k) <=> k >= c /\ k < c + ByteCount(b)
      BY <2>2, <2>4 DEF Covers
    <3>7. ByteIn(g, k, Len(g)) = b[5 + k - c]
      BY <2>2 DEF ByteIn
    <3> HIDE DEF c
    <3>8. CASE k >= c /\ k < c + ByteCount(b)
      <4>1. k - c + 1 \in 1..ByteCount(b) /\ 4 + (k - c + 1) = 5 + k - c
        BY <3>2, <3>3, <3>4, <3>8
      <4>2. Data(b)[k - c + 1] = b[5 + k - c]
        BY <3>3, <4>1
      <4> QED
        BY <2>1, <3>5, <3>6, <3>7, <3>8, <4>2
    <3>9. CASE ~(k >= c /\ k < c + ByteCount(b))
      BY <1>0, <2>1, <3>5, <3>6, <3>9
    <3> QED
      BY <3>8, <3>9
  <2> QED
    BY <2>3, <2>4
<1> QED
  BY <1>3, <1>4, <1>5, <1>6 DEF g

\* It holds initially.
LEMMA LoadInit == CpuInit /\ LoaderInit => LoadInv
<1> SUFFICES ASSUME CpuInit, LoaderInit PROVE LoadInv
  OBVIOUS
<1>1. phase = "idle" /\ core = Reset /\ file = <<>> /\ entry_point = 0
  BY DEF CpuInit, LoaderInit
<1>2. file \in Seq(Lines) /\ IsFile(file)
  BY <1>1, EmptyFile
<1>3. Image(file, phase, core.mem, core.regs, entry_point)
  BY <1>1, NothingLoaded
<1> QED
  BY <1>1, <1>2, <1>3 DEF LoadInv, Phases

\* Nothing is loaded, and no file is being read.
Unloaded ==
  /\ phase \in Phases \ {"idle", "load"}
  /\ file = <<>> /\ entry_point \in Nat

\* It holds whenever nothing is being loaded.
LEMMA UnloadedHolds == Unloaded => LoadInv
<1> SUFFICES ASSUME Unloaded PROVE LoadInv
  OBVIOUS
<1>1. phase \in Phases /\ phase # "idle" /\ phase # "load" /\ file = <<>> /\ entry_point \in Nat
  BY DEF Unloaded
<1>2. file \in Seq(Lines) /\ IsFile(file)
  BY <1>1, EmptyFile
<1>3. Image(file, phase, core.mem, core.regs, entry_point)
  BY <1>1, NothingLoaded
<1> QED
  BY <1>1, <1>2, <1>3 DEF LoadInv

\* A failed load keeps it.
LEMMA LoadFailsKeeps == LoadInv /\ phase \in {"idle", "load"} /\ LoadFails => LoadInv'
<1> SUFFICES ASSUME LoadInv, LoadFails PROVE LoadInv'
  OBVIOUS
<1>1. phase' = "failed" /\ core' = core /\ file' = file /\ entry_point' = entry_point
  BY DEF LoadFails, loaderVars
<1>2. /\ file \in Seq(Lines) /\ IsFile(file) /\ entry_point \in Nat
      /\ Image(file, phase, core.mem, core.regs, entry_point)
  BY DEF LoadInv
<1>3. Image(file, "failed", core.mem, core.regs, entry_point)
  <2>1. CASE file = <<>>
    BY <2>1, NothingLoaded
  <2>2. CASE file # <<>>
    BY <1>2, <2>2 DEF Image
  <2> QED
    BY <2>1, <2>2
<1> QED
  BY <1>1, <1>2, <1>3 DEF LoadInv, Phases

\* run_simulation starts the CPU at the entry point.
LEMMA LaunchKeeps == LoadInv /\ phase = "load" /\ Launch(core, entry_point) => LoadInv'
<1> SUFFICES ASSUME LoadInv, phase = "load", Launch(core, entry_point) PROVE LoadInv'
  OBVIOUS
<1>1. /\ phase' = "run" /\ core' = SetReg(core, PC, Even(entry_point))
      /\ file' = file /\ entry_point' = entry_point
  BY DEF Launch, StartRun, loaderVars
<1>2. /\ file \in Seq(Lines) /\ IsFile(file) /\ entry_point \in Nat
      /\ core = Fresh(core.mem)
      /\ \A k \in Index : core.mem[k] = CellValue(file, k)
      /\ entry_point = EntryOf(file)
  BY DEF LoadInv, Image
<1>3. core'.mem = core.mem /\ core'.regs[PC] = Even(entry_point)
  <2>1. /\ SetReg(Fresh(core.mem), PC, Even(entry_point)).mem = core.mem
        /\ SetReg(Fresh(core.mem), PC, Even(entry_point)).regs[PC] = Even(entry_point)
    BY FreshFacts
  <2> QED
    BY <1>1, <1>2, <2>1, Zenon
<1>4. Image(file, "run", core'.mem, core'.regs, entry_point)
  BY <1>2, <1>3 DEF Image
<1> QED
  BY <1>1, <1>2, <1>4 DEF LoadInv, Phases

\* A line of the file keeps it.
LEMMA ReadLineKeeps ==
  ASSUME LoadInv, NEW line \in Lines, phase = "load", ReadLine(line) PROVE LoadInv'
<1>1. CASE UNCHANGED <<cpuVars, loaderVars>>
  BY <1>1 DEF LoadInv, cpuVars, loaderVars
<1>2. CASE LoadFails
  BY <1>2, LoadFailsKeeps
<1>3. CASE Launch(core, entry_point)
  BY <1>3, LaunchKeeps
<1>4. CASE /\ WellFormed(line) /\ RecType(line.bytes) # 1
           /\ core' = IF RecType(line.bytes) # 0 THEN core
                      ELSE [core EXCEPT !.mem = Loaded(@, DataAddr(line.bytes), Data(line.bytes))]
           /\ base_addr' = BaseAfter(line.bytes)
           /\ entry_point' = EntryAfter(line.bytes)
           /\ file' = Append(file, line)
           /\ UNCHANGED <<phase, steps, max_steps, printed>>
  <2> DEFINE mem == IF RecType(line.bytes) # 0 THEN core.mem
                    ELSE Loaded(core.mem, DataAddr(line.bytes), Data(line.bytes))
             g == Append(file, line)
  <2>1. /\ IsFile(g) /\ BaseAfter(line.bytes) = BaseOf(g, Len(g) + 1)
        /\ EntryAfter(line.bytes) = EntryOf(g) /\ EntryAfter(line.bytes) \in Nat
        /\ \A k \in Index : mem[k] = CellValue(g, k)
    <3> HIDE DEF g
    <3> QED
      BY <1>4, RecordLoads, Zenon DEF g
  <2>2. core = Fresh(core.mem) /\ file \in Seq(Lines)
    BY DEF LoadInv
  <2>3. core' = Fresh(mem)
    <3>1. CASE RecType(line.bytes) # 0
      BY <1>4, <2>2, <3>1
    <3>2. CASE RecType(line.bytes) = 0
      <4>1. [Fresh(core.mem) EXCEPT !.mem = Loaded(@, DataAddr(line.bytes), Data(line.bytes))]
              = Fresh(Loaded(core.mem, DataAddr(line.bytes), Data(line.bytes)))
        BY FreshLoaded
      <4>2. core' = [core EXCEPT !.mem = Loaded(@, DataAddr(line.bytes), Data(line.bytes))]
        BY <1>4, <3>2
      <4>3. core' = [Fresh(core.mem) EXCEPT !.mem = Loaded(@, DataAddr(line.bytes), Data(line.bytes))]
        BY <2>2, <4>2, Zenon
      <4> QED
        BY <3>2, <4>1, <4>3
    <3> QED
      BY <3>1, <3>2
  <2> HIDE DEF mem
  <2>4. core'.mem = mem /\ core' = Fresh(core'.mem)
    BY <2>3, FreshFacts
  <2>5. phase' = "load" /\ file' = g /\ base_addr' = BaseAfter(line.bytes)
        /\ entry_point' = EntryAfter(line.bytes)
    BY <1>4
  <2>6. g \in Seq(Lines)
    BY <2>2
  <2> HIDE DEF g
  <2>7. Image(g, "load", mem, core'.regs, EntryAfter(line.bytes))
    BY <2>1 DEF Image
  <2> QED
    BY <2>1, <2>4, <2>5, <2>6, <2>7 DEF LoadInv, Phases
<1> QED
  BY <1>1, <1>2, <1>3, <1>4 DEF ReadLine

\* Every step of the machine keeps it.
LEMMA LoadNext == LoadInv /\ [MachineNext]_simVars => LoadInv'
<1> SUFFICES ASSUME LoadInv, [MachineNext]_simVars PROVE LoadInv'
  OBVIOUS
<1>0. /\ phase = "idle" => core = Reset /\ file = <<>>
      /\ phase = "done" => file = <<>>
      /\ entry_point \in Nat
  BY DEF LoadInv
<1>1. ASSUME phase = "idle", UNCHANGED loaderVars, NEW start, NEW n, Begin(start, n)
      PROVE  LoadInv'
  <2>1. Unloaded'
    BY <1>0, <1>1 DEF Begin, StartRun, Unloaded, Phases, loaderVars
  <2> QED
    BY <2>1, UnloadedHolds, PTL
<1>2. ASSUME NEW bytes, NEW addr, load_binary(bytes, addr) PROVE LoadInv'
  <2>1. Unloaded'
    BY <1>0, <1>2 DEF load_binary, LoadFails, Launch, StartRun, Unloaded, Phases, loaderVars
  <2> QED
    BY <2>1, UnloadedHolds, PTL
<1>3. CASE load_ihex
  <2>1. /\ phase' = "load" /\ core' = Reset /\ file' = <<>> /\ base_addr' = 0
        /\ entry_point' = 0
    BY <1>0, <1>3 DEF load_ihex
  <2>2. core'.mem = EmptyMemory /\ core' = Fresh(core'.mem)
    BY <2>1, FreshFacts
  <2>3. Image(<<>>, "load", EmptyMemory, core'.regs, 0)
    BY EmptyImage
  <2>4. <<>> \in Seq(Lines)
    OBVIOUS
  <2> QED
    BY <2>1, <2>2, <2>3, <2>4, EmptyFile DEF LoadInv, Phases
<1>4. ASSUME phase = "load", NEW line \in Lines, ReadLine(line) PROVE LoadInv'
  BY <1>4, ReadLineKeeps
<1>5. CASE EndOfFile
  BY <1>5, LaunchKeeps DEF EndOfFile
<1>6. ASSUME NEW i, step(i), Forget PROVE LoadInv'
  <2>1. phase' \in {"failed", "done", "run"}
    BY <1>6 DEF step
  <2>2. Unloaded'
    BY <1>6, <2>1 DEF Forget, Unloaded, Phases
  <2> QED
    BY <2>2, UnloadedHolds, PTL
<1>7. CASE RunReturns /\ Forget
  <2>1. Unloaded'
    BY <1>7 DEF RunReturns, Forget, Unloaded, Phases
  <2> QED
    BY <2>1, UnloadedHolds, PTL
<1>8. ASSUME NEW n, RunAgain(n), UNCHANGED loaderVars PROVE LoadInv'
  <2>1. Unloaded'
    BY <1>0, <1>8 DEF RunAgain, StartRun, Unloaded, Phases, loaderVars
  <2> QED
    BY <2>1, UnloadedHolds, PTL
<1>9. CASE StartOver /\ Forget
  <2>1. phase' = "idle" /\ core' = Reset /\ file' = <<>> /\ entry_point' = 0
    BY <1>9 DEF StartOver, Forget
  <2>2. <<>> \in Seq(Lines)
    OBVIOUS
  <2>3. Image(file', phase', core'.mem, core'.regs, entry_point')
    BY <2>1, NothingLoaded
  <2> QED
    BY <2>1, <2>2, <2>3, EmptyFile DEF LoadInv, Phases
<1>10. CASE UNCHANGED simVars
  BY <1>10 DEF LoadInv, simVars, cpuVars, loaderVars
<1> QED
  BY <1>1, <1>2, <1>3, <1>4, <1>5, <1>6, <1>7, <1>8, <1>9, <1>10 DEF MachineNext

\* src/loader.cpp puts every byte of a HEX file where its record and the base
\* address then in force say, later records over earlier ones, and main.cpp
\* starts at the address of the last start record.
THEOREM LoaderCorrect == MachineSpec => []ImageIsRight
<1>1. LoadInv => ImageIsRight
  BY ImageMeans DEF LoadInv
<1> QED
  BY LoadInit, LoadNext, <1>1, PTL DEF MachineSpec

(***************************************************************************)
(* The decoder.  Both decoders test the opcode's bits from the top down,   *)
(* in different orders.  The proofs name an instruction by the upper byte  *)
(* k of its opcode: ExecuteIs and DisassembleIs say which arm each of the  *)
(* two takes for k, and Effects what the instruction may change.           *)
(***************************************************************************)

Effects(t, s, i, k) ==
  /\ OK(t, s)
  /\ KeepsFlags(t, s) \/ k \in 0..67 \/ k = 69
  /\ \/ KeepsMem(t, s)
     \/ k \in 80..95 \/ k \in 177..183
     \/ k \in 96..159 \cup 192..207 /\ ~Flag(i, 11)
  /\ \/ KeepsPC(t, s)
     \/ k \in {68, 70} /\ 8 * Field(i, 7, 1) + Field(i, 0, 3) = PC
     \/ k \in {71} \cup 184..189 \cup 208..222 \cup 224..231 \cup 248..255

\* The effects of each kind of instruction.
LEMMA FrameEffects ==
  ASSUME NEW t, NEW s, NEW i, NEW k \in 0..255
  PROVE  /\ Computes(t, s) /\ k \in 0..67 => Effects(t, s, i, k)
         /\ Quiet(t, s) => Effects(t, s, i, k)
         /\ Jumps(t, s) /\ k \in {71} \cup 184..189 \cup 208..222 \cup 224..231 \cup 248..255
              => Effects(t, s, i, k)
         /\ Moves(t, s) /\ k \in 80..95 \cup 177..183 => Effects(t, s, i, k)
         /\ /\ Moves(t, s) /\ (Flag(i, 11) => Quiet(t, s))
            /\ k \in 96..159 \cup 192..207
            => Effects(t, s, i, k)
BY DEF Effects, Computes, Quiet, Jumps, Moves

\* Every opcode has the effects of its kind.
LEMMA ExecuteEffects ==
  ASSUME NEW s \in Machines, NEW i \in Halfwords
  PROVE  Effects(execute(s, i), s, i, Field(i, 8, 8))
<1> DEFINE k == Field(i, 8, 8)
           t == execute(s, i)
<1>1. k \in 0..255
  BY TopFields
<1>2. ASSUME k \in 0..23 PROVE Effects(t, s, i, k)
  <2> DEFINE u == exec_shift_imm(s, i)
  <2>1. t = u
    BY <1>2, ExecuteIs
  <2>0. Field(i, 11, 2) \in 0..2
    BY <1>2, TopFields
  <2>2. Computes(u, s)
    BY <2>0, ShiftImmComputes
  <2> HIDE DEF u, k, t
  <2>3. k \in 0..67
    BY <1>2
  <2> QED
    BY <1>1, <2>1, <2>2, <2>3, FrameEffects
<1>3. ASSUME k \in 24..31 PROVE Effects(t, s, i, k)
  <2> DEFINE u == exec_add_sub(s, i)
  <2>1. t = u
    BY <1>3, ExecuteIs
  <2>2. Computes(u, s)
    BY AddSubComputes
  <2> HIDE DEF u, k, t
  <2>3. k \in 0..67
    BY <1>3
  <2> QED
    BY <1>1, <2>1, <2>2, <2>3, FrameEffects
<1>4. ASSUME k \in 32..63 PROVE Effects(t, s, i, k)
  <2> DEFINE u == exec_imm8(s, i)
  <2>1. t = u
    BY <1>4, ExecuteIs
  <2>2. Computes(u, s)
    BY Imm8Computes
  <2> HIDE DEF u, k, t
  <2>3. k \in 0..67
    BY <1>4
  <2> QED
    BY <1>1, <2>1, <2>2, <2>3, FrameEffects
<1>5. ASSUME k \in 64..67 PROVE Effects(t, s, i, k)
  <2> DEFINE u == exec_alu(s, i)
  <2>1. t = u
    BY <1>5, ExecuteIs
  <2>2. Computes(u, s)
    BY AluComputes
  <2> HIDE DEF u, k, t
  <2>3. k \in 0..67
    BY <1>5
  <2> QED
    BY <1>1, <2>1, <2>2, <2>3, FrameEffects
<1>6. ASSUME k \in 68..71 PROVE Effects(t, s, i, k)
  <2> DEFINE u == exec_hi_reg_bx(s, i)
             p == Field(i, 8, 2)
             r == 8 * Field(i, 7, 1) + Field(i, 0, 3)
             b == s.regs[Field(i, 3, 4)]
  <2>1. t = u
    BY <1>6, ExecuteIs
  <2>2. p = k - 68
    BY <1>6, TopFields
  <2>3. /\ OK(u, s) /\ KeepsMem(u, s)
        /\ p # 1 => KeepsFlags(u, s)
        /\ p = 1 => KeepsPC(u, s)
        /\ p \in {0, 2} => r = PC \/ KeepsPC(u, s)
    BY HiRegFrame
  <2> HIDE DEF u, p, b, k, t
  <2> QED
    BY <1>6, <2>1, <2>2, <2>3 DEF Effects
<1>7. ASSUME k \in 72..79 PROVE Effects(t, s, i, k)
  <2> DEFINE u == exec_ldr_pc(s, i)
  <2>1. t = u
    BY <1>7, ExecuteIs
  <2>2. Quiet(u, s)
    BY SingleTransfers
  <2> HIDE DEF u, k, t
  <2> QED
    BY <1>1, <2>1, <2>2, FrameEffects
<1>8. ASSUME k \in 80..95 PROVE Effects(t, s, i, k)
  <2> DEFINE u == exec_ldr_str_reg(s, i)
             v == Fault(s, "Undefined")
  <2>1. t \in {u, v}
    BY <1>8, ExecuteIs
  <2>2. Moves(u, s)
    BY SingleTransfers
  <2>3. Quiet(v, s)
    BY FaultFrame DEF Faults
  <2> HIDE DEF u, v, k, t
  <2>4. k \in 80..95 \cup 177..183
    BY <1>8
  <2> QED
    BY <1>1, <2>1, <2>2, <2>3, <2>4, FrameEffects
<1>9. ASSUME k \in 96..127 PROVE Effects(t, s, i, k)
  <2> DEFINE u == exec_ldr_str_imm(s, i)
  <2>1. t = u
    BY <1>9, ExecuteIs
  <2>2. Moves(u, s) /\ (Flag(i, 11) => Quiet(u, s))
    BY SingleTransfers
  <2> HIDE DEF u, k, t
  <2>3. k \in 96..159 \cup 192..207
    BY <1>9
  <2> QED
    BY <1>1, <2>1, <2>2, <2>3, FrameEffects
<1>10. ASSUME k \in 128..143 PROVE Effects(t, s, i, k)
  <2> DEFINE u == exec_ldrh_strh_imm(s, i)
  <2>1. t = u
    BY <1>10, ExecuteIs
  <2>2. Moves(u, s) /\ (Flag(i, 11) => Quiet(u, s))
    BY SingleTransfers
  <2> HIDE DEF u, k, t
  <2>3. k \in 96..159 \cup 192..207
    BY <1>10
  <2> QED
    BY <1>1, <2>1, <2>2, <2>3, FrameEffects
<1>11. ASSUME k \in 144..159 PROVE Effects(t, s, i, k)
  <2> DEFINE u == exec_ldr_str_sp(s, i)
  <2>1. t = u
    BY <1>11, ExecuteIs
  <2>2. Moves(u, s) /\ (Flag(i, 11) => Quiet(u, s))
    BY SingleTransfers
  <2> HIDE DEF u, k, t
  <2>3. k \in 96..159 \cup 192..207
    BY <1>11
  <2> QED
    BY <1>1, <2>1, <2>2, <2>3, FrameEffects
<1>12. ASSUME k \in 160..175 PROVE Effects(t, s, i, k)
  <2> DEFINE u == exec_add_sp_pc(s, i)
  <2>1. t = u
    BY <1>12, ExecuteIs
  <2>2. Quiet(u, s)
    BY SingleTransfers
  <2> HIDE DEF u, k, t
  <2> QED
    BY <1>1, <2>1, <2>2, FrameEffects
<1>13. ASSUME k \in {176} PROVE Effects(t, s, i, k)
  <2> DEFINE u == exec_sp_ops(s, i)
  <2>1. t = u
    BY <1>13, ExecuteIs
  <2>2. Quiet(u, s)
    BY SingleTransfers
  <2> HIDE DEF u, k, t
  <2> QED
    BY <1>1, <2>1, <2>2, FrameEffects
<1>14. ASSUME k \in 190..191 PROVE Effects(t, s, i, k)
  <2>1. t = s
    BY <1>14, ExecuteIs
  <2>2. Quiet(s, s)
    BY FramesCompose
  <2> HIDE DEF k, t
  <2> QED
    BY <1>1, <2>1, <2>2, FrameEffects
<1>15. ASSUME k \in 177..189 PROVE Effects(t, s, i, k)
  <2> DEFINE u == exec_push_pop(s, i)
  <2>1. t = u
    BY <1>15, ExecuteIs
  <2>2. (Flag(i, 11) => Jumps(u, s)) /\ (~Flag(i, 11) => Moves(u, s))
    BY PushPopFrame
  <2>3. Flag(i, 11) <=> k >= 184
    BY <1>15, TopFields DEF Flag
  <2> HIDE DEF u, k, t
  <2>4. CASE Flag(i, 11)
    <3>1. Jumps(u, s) /\ k \in {71} \cup 184..189 \cup 208..222 \cup 224..231 \cup 248..255
      BY <1>15, <2>2, <2>3, <2>4
    <3> QED
      BY <1>1, <2>1, <3>1, FrameEffects
  <2>5. CASE ~Flag(i, 11)
    <3>1. Moves(u, s) /\ k \in 80..95 \cup 177..183
      BY <1>15, <2>2, <2>3, <2>5
    <3> QED
      BY <1>1, <2>1, <3>1, FrameEffects
  <2> QED
    BY <2>4, <2>5
<1>16. ASSUME k \in 192..207 PROVE Effects(t, s, i, k)
  <2> DEFINE u == exec_ldm_stm(s, i)
  <2>1. t = u
    BY <1>16, ExecuteIs
  <2>2. Moves(u, s) /\ (Flag(i, 11) => Quiet(u, s))
    BY LdmStmFrame
  <2> HIDE DEF u, k, t
  <2>3. k \in 96..159 \cup 192..207
    BY <1>16
  <2> QED
    BY <1>1, <2>1, <2>2, <2>3, FrameEffects
<1>17. ASSUME k \in 208..222 PROVE Effects(t, s, i, k)
  <2> DEFINE u == exec_branch_cond(s, i)
  <2>1. t = u
    BY <1>17, ExecuteIs
  <2>2. Jumps(u, s)
    BY BranchFrame
  <2> HIDE DEF u, k, t
  <2>3. k \in {71} \cup 184..189 \cup 208..222 \cup 224..231 \cup 248..255
    BY <1>17
  <2> QED
    BY <1>1, <2>1, <2>2, <2>3, FrameEffects
<1>18. ASSUME k \in 224..231 PROVE Effects(t, s, i, k)
  <2> DEFINE u == exec_branch(s, i)
  <2>1. t = u
    BY <1>18, ExecuteIs
  <2>2. Jumps(u, s)
    BY BranchFrame
  <2> HIDE DEF u, k, t
  <2>3. k \in {71} \cup 184..189 \cup 208..222 \cup 224..231 \cup 248..255
    BY <1>18
  <2> QED
    BY <1>1, <2>1, <2>2, <2>3, FrameEffects
<1>19. ASSUME k \in {223} \cup 232..239 PROVE Effects(t, s, i, k)
  <2> DEFINE u == Fault(s, "Undefined")
  <2>1. t = u
    BY <1>19, ExecuteIs
  <2>2. Quiet(u, s)
    BY FaultFrame DEF Faults
  <2> HIDE DEF u, k, t
  <2> QED
    BY <1>1, <2>1, <2>2, FrameEffects
<1>20. ASSUME k \in 240..247 PROVE Effects(t, s, i, k)
  <2> DEFINE u == exec_bl_upper(s, i)
  <2>1. t = u
    BY <1>20, ExecuteIs
  <2>2. Quiet(u, s)
    BY BranchFrame
  <2> HIDE DEF u, k, t
  <2> QED
    BY <1>1, <2>1, <2>2, FrameEffects
<1>21. ASSUME k \in 248..255 PROVE Effects(t, s, i, k)
  <2> DEFINE u == exec_bl_lower(s, i)
  <2>1. t = u
    BY <1>21, ExecuteIs
  <2>2. Jumps(u, s)
    BY BlLowerFrame DEF Calls
  <2> HIDE DEF u, k, t
  <2>3. k \in {71} \cup 184..189 \cup 208..222 \cup 224..231 \cup 248..255
    BY <1>21
  <2> QED
    BY <1>1, <2>1, <2>2, <2>3, FrameEffects
<1> HIDE DEF k, t
<1>22. Effects(t, s, i, k)
  BY <1>1, <1>2, <1>3, <1>4, <1>5, <1>6, <1>7, <1>8, <1>9, <1>10, <1>11,
     <1>12, <1>13, <1>14, <1>15, <1>16, <1>17, <1>18, <1>19, <1>20, <1>21
<1> QED
  BY <1>22 DEF k, t

(***************************************************************************)
(* The states of the machine.  Besides types, MachineInv has the two facts *)
(* that the properties of steps rest on: while the program runs no fault   *)
(* is pending, and after the first half of a BL, bl_offset is that half's, *)
(* so that the second half finds what it needs.                            *)
(***************************************************************************)

TraceLines == [pc : WordSet, instr : Halfwords]

\* After the first half l of a BL the upper bits of the offset b are its.
HalfDone(l, b) ==
  Field(l.instr, 11, 5) = 30 =>
    b = Wrap(l.pc + 4 + 4096 * Sext(Field(l.instr, 0, 11), 11))

MachineInv ==
  /\ core \in Machines /\ entry_point \in WordSet
  /\ printed[2] \in TraceLines /\ HalfDone(printed[2], core.bl_offset)
  /\ core.fault = "none" \/ phase = "failed"

\* A new CPU.
LEMMA ResetType == Reset \in Machines /\ Reset.fault = "none" /\ Reset.bl_offset = 0 /\ Reset.cycles = 0
<1> DEFINE g == [r \in 0..15 |-> IF r = SP THEN RESET_SP ELSE 0]
<1>1. g \in RegFiles
  BY WordFacts, CpuAssumption DEF RegFiles
<1>2. NoFlags \in FlagSets
  BY DEF NoFlags, FlagSets
<1>3. EmptyMemory \in Memories
  <2>1. 0 \in Octets
    BY MemoryAssumption DEF Octets
  <2> QED
    BY <2>1 DEF EmptyMemory, Memories
<1>4. 0 \in WordSet /\ "none" \in Faults
  BY WordFacts DEF Faults
<1>5. Reset = [regs |-> g, apsr |-> NoFlags, halted |-> FALSE, bl_offset |-> 0, cycles |-> 0,
               mem |-> EmptyMemory, fault |-> "none"]
  BY DEF Reset
<1> HIDE DEF g
<1> QED
  BY <1>1, <1>2, <1>3, <1>4, <1>5 DEF Machines

\* Before the first line of the trace.
LEMMA NoLineFacts == NoLine \in TraceLines /\ \A b : HalfDone(NoLine, b)
<1>1. NoLine \in TraceLines
  BY WordFacts DEF NoLine, TraceLines, Halfwords
<1>2. NoLine.instr = 0
  BY DEF NoLine
<1>3. Field(0, 11, 5) = 0
  BY DEF Field
<1> QED
  BY <1>1, <1>2, <1>3 DEF HalfDone

\* The invariant of the machine holds initially.
LEMMA MachineStart == CpuInit /\ LoaderInit => MachineInv
<1> SUFFICES ASSUME CpuInit, LoaderInit PROVE MachineInv
  OBVIOUS
<1>1. core = Reset /\ printed[2] = NoLine /\ entry_point = 0
  BY DEF CpuInit, LoaderInit
<1> QED
  BY <1>1, ResetType, NoLineFacts, WordFacts DEF MachineInv

\* A step that leaves the trace and the offset alone.
Kept ==
  /\ core' \in Machines /\ core'.bl_offset = core.bl_offset /\ core'.fault = core.fault
  /\ core'.cycles = core.cycles
  /\ printed' = printed /\ entry_point' \in WordSet
  /\ phase # "failed" \/ phase' = "failed"

\* A step that executes nothing keeps it.
LEMMA KeptHolds == MachineInv /\ Kept => MachineInv' /\ ~Executed
<1> SUFFICES ASSUME MachineInv, Kept PROVE MachineInv' /\ ~Executed
  OBVIOUS
<1>1. core.cycles \in Nat
  BY MachineFields DEF MachineInv
<1> QED
  BY <1>1 DEF MachineInv, Kept, Executed

\* The start of a run executes nothing.
LEMMA LaunchTypes ==
  ASSUME NEW s \in Machines, s.bl_offset = core.bl_offset, s.fault = core.fault,
         s.cycles = core.cycles, NEW entry \in WordSet, MachineInv, Launch(s, entry), phase # "failed"
  PROVE  Kept
<1>1. Even(entry) \in WordSet /\ PC \in 0..15
  BY RoundingTypes DEF PC
<1>2. core' \in Machines /\ Puts(core', s, PC, Even(entry))
  BY <1>1, SetRegFacts DEF Launch
<1>3. core'.bl_offset = s.bl_offset /\ core'.fault = s.fault /\ core'.cycles = s.cycles
  BY <1>2 DEF Puts, SameButRegs
<1>4. printed' = printed /\ entry_point' = entry_point
  BY DEF Launch, loaderVars
<1> QED
  BY <1>2, <1>3, <1>4 DEF Kept, MachineInv

\* translate returns a number.
LEMMA TranslateInt == ASSUME NEW a \in WordSet PROVE translate(a) \in Int
<1>1. a \in Int
  BY WordFacts
<1> QED
  BY <1>1, MemoryAssumption DEF translate

\* Nor does the load of a binary.
LEMMA BinaryTypes ==
  ASSUME MachineInv, NEW bytes \in Binaries, NEW addr \in LoadAddrs, load_binary(bytes, addr)
  PROVE  Kept
<1>1. core \in Machines /\ core.mem \in Memories /\ entry_point \in WordSet
  BY MachineFields DEF MachineInv
<1>2. addr \in WordSet /\ bytes \in Seq(Octets)
  BY LoaderAssumption
<1>3. Loaded(core.mem, addr, bytes) \in Memories
  <2>1. Len(bytes) \in Nat /\ \A k \in 1..Len(bytes) : bytes[k] \in Octets
    BY <1>2
  <2> QED
    BY <1>1, <1>2, <2>1, TranslateInt, LoadedType
<1>4. CASE LoadFails
  BY <1>1, <1>4 DEF LoadFails, Kept, loaderVars
<1>5. CASE Launch([core EXCEPT !.mem = Loaded(@, addr, bytes)], addr)
  <2> DEFINE m == Loaded(core.mem, addr, bytes)
             s == [core EXCEPT !.mem = m]
  <2>0. Launch(s, addr) /\ phase # "failed"
    BY <1>5 DEF load_binary
  <2> HIDE DEF m
  <2>1. s \in Machines /\ Fills(s, core, m)
    BY <1>1, <1>3, UpdateFacts DEF m
  <2> HIDE DEF s
  <2>2. s.bl_offset = core.bl_offset /\ s.fault = core.fault /\ s.cycles = core.cycles
    BY <2>1 DEF Fills
  <2> QED
    BY <1>2, <2>0, <2>1, <2>2, LaunchTypes
<1> QED
  BY <1>4, <1>5 DEF load_binary

\* A start address of four bytes is a word.
LEMMA EntryType ==
  ASSUME NEW b, IsRecord(b), RecType(b) = 5 PROVE EntryBy(b) \in WordSet
<1> DEFINE p == b[5]
           q == b[6]
           r == b[7]
           s == b[8]
           C == CELL
<1>1. p \in Octets /\ q \in Octets /\ r \in Octets /\ s \in Octets
  BY RecordFacts
<1>2. EntryBy(b) = ((p * C + q) * C + r) * C + s
  BY DEF EntryBy
<1>3. C \in Nat /\ Octets = 0..(C - 1)
  BY MemoryAssumption DEF Octets
<1> HIDE DEF p, q, r, s
<1>4. s + C * (r + C * (q + C * p)) \in WordSet
  BY <1>1, FourDigits
<1> HIDE DEF C
<1>5. p \in Int /\ q \in Int /\ r \in Int /\ s \in Int
  BY <1>1, <1>3
<1>6. ((p * C + q) * C + r) * C + s = s + C * (r + C * (q + C * p))
  BY <1>3, <1>5
<1> QED
  BY <1>2, <1>4, <1>6

\* Nor does a line of a hex file.
LEMMA ReadLineTypes ==
  ASSUME LoadInv, MachineInv, NEW line \in Lines, phase = "load", ReadLine(line)
  PROVE  Kept
<1>1. core \in Machines /\ core.mem \in Memories /\ entry_point \in WordSet
  BY MachineFields DEF MachineInv
<1>2. CASE UNCHANGED <<cpuVars, loaderVars>>
  BY <1>1, <1>2 DEF cpuVars, loaderVars, Kept
<1>3. CASE LoadFails
  BY <1>1, <1>3 DEF LoadFails, Kept, loaderVars
<1>4. CASE Launch(core, entry_point)
  BY <1>1, <1>4, LaunchTypes
<1>5. CASE /\ WellFormed(line) /\ RecType(line.bytes) # 1
           /\ core' = IF RecType(line.bytes) # 0 THEN core
                      ELSE [core EXCEPT !.mem = Loaded(@, DataAddr(line.bytes), Data(line.bytes))]
           /\ entry_point' = EntryAfter(line.bytes)
           /\ UNCHANGED <<phase, steps, max_steps, printed>>
  <2> DEFINE b == line.bytes
  <2>1. IsRecord(b)
    BY <1>5, LoaderAssumption DEF WellFormed, IsRecord
  <2>2. entry_point' \in WordSet
    <3>1. CASE RecType(b) # 5
      BY <1>1, <1>5, <3>1 DEF EntryAfter
    <3>2. CASE RecType(b) = 5
      <4>1. b[5] \in Octets /\ b[6] \in Octets /\ b[7] \in Octets /\ b[8] \in Octets
        BY <2>1, <3>2, RecordFacts
      <4>2. EntryAfter(b) = Into(Into(Into(Into(entry_point, b[5]), b[6]), b[7]), b[8])
        BY <3>2 DEF EntryAfter, Into
      <4>3. entry_point \in Nat
        BY DEF LoadInv
      <4>4. EntryAfter(b) = EntryBy(b)
        BY <4>1, <4>2, <4>3, FourBytes DEF EntryBy
      <4> QED
        BY <1>5, <2>1, <3>2, <4>4, EntryType
    <3> QED
      BY <3>1, <3>2
  <2>3. printed' = printed /\ phase' = phase
    BY <1>5
  <2>4. CASE RecType(b) # 0
    BY <1>1, <1>5, <2>2, <2>3, <2>4 DEF Kept
  <2>5. CASE RecType(b) = 0
    <3> DEFINE a == DataAddr(b)
               m == Loaded(core.mem, a, Data(b))
               s == [core EXCEPT !.mem = m]
    <3>1. core' = s
      BY <1>5, <2>5
    <3>2. a \in WordSet
      <4>1. Len(file) \in Nat /\ IsFile(file) /\ base_addr = BaseOf(file, Len(file) + 1)
        BY DEF LoadInv
      <4>2. base_addr \in Nat
        <5>1. Len(file) + 1 \in 1..(Len(file) + 1)
          BY <4>1
        <5> QED
          BY <4>1, <5>1, BaseType
      <4>3. Offset(b) \in Nat
        BY <2>1, RecordFacts
      <4>4. base_addr + Offset(b) \in Int
        BY <4>2, <4>3
      <4> QED
        BY <4>4, WordFacts DEF DataAddr
    <3>3. m \in Memories
      <4>1. /\ Len(Data(b)) \in Nat
            /\ \A k \in 1..Len(Data(b)) : Data(b)[k] \in Octets
        BY <2>1, <2>5, RecordFacts
      <4> HIDE DEF a
      <4> QED
        BY <1>1, <3>2, <4>1, TranslateInt, LoadedType
    <3> HIDE DEF m
    <3>4. s \in Machines /\ Fills(s, core, m)
      BY <1>1, <3>3, UpdateFacts
    <3> HIDE DEF s
    <3>5. s.bl_offset = core.bl_offset /\ s.fault = core.fault /\ s.cycles = core.cycles
      BY <3>4 DEF Fills
    <3> QED
      BY <1>1, <2>2, <2>3, <3>1, <3>4, <3>5 DEF Kept
  <2> QED
    BY <2>4, <2>5
<1> QED
  BY <1>2, <1>3, <1>4, <1>5 DEF ReadLine

-----------------------------------------------------------------------------
(* One instruction.                                                        *)

\* The machine with the PC at the next instruction, on which execute works.
Fetched(c) == SetReg(c, PC, Wrap(c.regs[PC] + 2))

\* The machine that execute is given.
LEMMA FetchedFacts ==
  ASSUME NEW c \in Machines
  PROVE  /\ Fetched(c) \in Machines /\ SameButRegs(Fetched(c), c)
         /\ Fetched(c).regs = [c.regs EXCEPT ![PC] = Wrap(@ + 2)]
         /\ Fetched(c).regs[PC] = Wrap(c.regs[PC] + 2)
         /\ \A r \in 0..15 : r # PC => Fetched(c).regs[r] = c.regs[r]
<1>1. PC \in 0..15 /\ c.regs[PC] \in WordSet
  BY MachineFields DEF PC
<1>2. Wrap(c.regs[PC] + 2) \in WordSet
  <2> DEFINE x == c.regs[PC]
  <2>1. x \in Int
    BY <1>1, WordFacts
  <2> HIDE DEF x
  <2>2. x + 2 \in Int
    BY <2>1
  <2>3. Wrap(x + 2) \in WordSet
    BY <2>2, WordFacts
  <2> QED
    BY <2>3 DEF x
<1>3. Fetched(c) \in Machines /\ Puts(Fetched(c), c, PC, Wrap(c.regs[PC] + 2))
  BY <1>1, <1>2, SetRegFacts DEF Fetched
<1>4. Fetched(c).regs = [c.regs EXCEPT ![PC] = Wrap(c.regs[PC] + 2)]
  BY DEF Fetched, SetReg, Machines
<1> QED
  BY <1>3, <1>4 DEF Puts

\* After the upper half of a BL, bl_offset_ is what the trace line says.
LEMMA HalfDoneHolds ==
  ASSUME NEW c \in Machines, NEW i \in Halfwords, NEW l, l.instr = i, l.pc = c.regs[PC]
  PROVE  HalfDone(l, execute(Fetched(c), i).bl_offset)
<1> SUFFICES ASSUME Field(i, 11, 5) = 30
             PROVE  execute(Fetched(c), i).bl_offset
                      = Wrap(c.regs[PC] + 4 + 4096 * Sext(Field(i, 0, 11), 11))
  BY DEF HalfDone
<1> DEFINE f == Fetched(c)
           x == c.regs[PC]
           y == Sext(Field(i, 0, 11), 11)
<1>1. f \in Machines /\ f.regs[PC] = Wrap(x + 2)
  BY FetchedFacts
<1>2. Field(i, 8, 8) \in 240..247
  BY TopFields
<1>3. execute(f, i) = exec_bl_upper(f, i)
  BY <1>2, ExecuteIs
<1>4. exec_bl_upper(f, i).bl_offset = Wrap(f.regs[PC] + 2 + 4096 * y)
  BY <1>1, BranchFrame
<1>5. x \in Int
  <2>1. x \in WordSet
    BY MachineFields DEF PC
  <2> QED
    BY <2>1, WordFacts
<1>6. y \in Int
  <2> DEFINE z == Field(i, 0, 11)
  <2>1. z \in 0..2047
    BY FieldTypes
  <2> HIDE DEF z
  <2>2. Sext(z, 11) \in Int
    BY <2>1 DEF Sext
  <2> QED
    BY <2>2 DEF z
<1> HIDE DEF f, x, y
<1>7. Wrap(Wrap(x + 2) + 2 + 4096 * y) = Wrap(x + 4 + 4096 * y)
  <2> DEFINE p == x + 2
             q == 2 + 4096 * y
  <2>1. p \in Int /\ q \in Int /\ p + q = x + 4 + 4096 * y
    BY <1>5, <1>6
  <2>2. Wrap(p) \in Int /\ Wrap(p) + 2 + 4096 * y = Wrap(p) + q
    <3>1. Wrap(p) \in Int
      BY <2>1, WordFacts
    <3> QED
      BY <1>6, <3>1
  <2>3. Wrap(Wrap(p) + q) = Wrap(p + q)
    BY <2>1, WrapAdds
  <2> QED
    BY <2>1, <2>2, <2>3
<1> QED
  BY <1>1, <1>3, <1>4, <1>7 DEF f, x, y

\* The instruction i has been executed.
Ran(i) ==
  LET t == execute(Fetched(core), i)
  IN  /\ core.fault = "none" /\ t.fault = "none" /\ ~core.halted
      /\ printed'[2] = [pc |-> core.regs[PC], instr |-> i]
      /\ core' \in Machines /\ core'.regs = t.regs /\ core'.apsr = t.apsr
      /\ core'.mem = t.mem /\ core'.halted = t.halted /\ core'.bl_offset = t.bl_offset
      /\ core'.fault = t.fault /\ i \in Instrs

\* A step of the CPU keeps the invariant, and executes its opcode.
LEMMA StepTypes ==
  ASSUME MachineInv, NEW i \in Instrs, step(i), Forget
  PROVE  /\ MachineInv'
         /\ Executed => Ran(i)
<1> DEFINE f == Fetched(core)
           t == execute(f, i)
           l == [pc |-> core.regs[PC], instr |-> i]
<1>0. core \in Machines /\ i \in Halfwords /\ core.cycles \in Nat /\ core.regs[PC] \in WordSet
  <2>1. PC \in 0..15 /\ core \in Machines
    BY DEF PC, MachineInv
  <2> QED
    BY <2>1, MachineFields, InputTypes
<1>1. core.fault = "none" /\ ~core.halted /\ entry_point' = 0
  BY DEF step, MachineInv, Forget
<1>2. f \in Machines /\ SameButRegs(f, core)
  BY <1>0, FetchedFacts
<1>3. t \in Machines /\ t.cycles = core.cycles
  <2>1. Effects(t, f, i, Field(i, 8, 8))
    BY <1>0, <1>2, ExecuteEffects
  <2>2. OK(t, f)
    BY <2>1 DEF Effects
  <2> HIDE DEF f, t
  <2> QED
    BY <1>2, <2>2 DEF OK, SameButRegs
<1>4. l \in TraceLines /\ l.instr = i /\ l.pc = core.regs[PC]
  BY <1>0 DEF TraceLines
<1>5. HalfDone(l, t.bl_offset)
  <2> HIDE DEF l, t
  <2> QED
    BY <1>0, <1>4, HalfDoneHolds DEF t
<1>6. \/ /\ core' = Fault(core, "BusFault") /\ phase' = "failed" /\ printed' = printed
      \/ /\ printed' = <<printed[2], l>> /\ core' = t /\ phase' = "failed"
      \/ /\ printed' = <<printed[2], l>> /\ core' = [t EXCEPT !.cycles = @ + 1]
         /\ t.fault = "none"
  BY DEF step, Fetched
<1> HIDE DEF f, t, l
<1>7. CASE core' = Fault(core, "BusFault") /\ phase' = "failed" /\ printed' = printed
  <2>1. core' \in Machines /\ Throws(core', core, "BusFault")
    BY <1>0, <1>7, UpdateFacts DEF Faults
  <2>2. core'.bl_offset = core.bl_offset /\ core'.cycles = core.cycles
    BY <2>1 DEF Throws
  <2> QED
    BY <1>0, <1>1, <1>7, <2>1, <2>2, WordFacts DEF MachineInv, Executed
<1>8. CASE printed' = <<printed[2], l>> /\ core' = t /\ phase' = "failed"
  BY <1>0, <1>1, <1>3, <1>4, <1>5, <1>8, WordFacts DEF MachineInv, Executed
<1>9. CASE /\ printed' = <<printed[2], l>> /\ core' = [t EXCEPT !.cycles = @ + 1]
           /\ t.fault = "none"
  <2> DEFINE n == t.cycles + 1
             u == [t EXCEPT !.cycles = n]
  <2>1. n \in Nat /\ core' = u
    BY <1>0, <1>3, <1>9
  <2> HIDE DEF n
  <2>2. /\ u \in Machines /\ u.regs = t.regs /\ u.apsr = t.apsr /\ u.mem = t.mem
        /\ u.halted = t.halted /\ u.bl_offset = t.bl_offset /\ u.fault = t.fault
    BY <1>3, <2>1, UpdateFacts
  <2> HIDE DEF u
  <2>3. printed'[2] = l
    BY <1>9
  <2>4. MachineInv'
    BY <1>1, <1>4, <1>5, <1>9, <2>1, <2>2, <2>3, WordFacts DEF MachineInv
  <2>5. Ran(i)
    BY <1>1, <1>9, <2>1, <2>2, <2>3 DEF Ran, t, f, l
  <2> QED
    BY <2>4, <2>5
<1> QED
  BY <1>6, <1>7, <1>8, <1>9

\* Every step keeps it, and what was executed was an opcode.
LEMMA MachineNextTypes ==
  ASSUME LoadInv, MachineInv, [MachineNext]_simVars
  PROVE  /\ MachineInv'
         /\ Executed => \E i \in Halfwords : Ran(i)
<1>0. core \in Machines /\ entry_point \in WordSet
  BY DEF MachineInv
<1>1. ASSUME NEW start \in Starts, NEW n \in RunSteps, Begin(start, n), UNCHANGED loaderVars
      PROVE  Kept
  <2>1. start \in RegFiles
    BY InputTypes
  <2>2. core' = [core EXCEPT !.regs = start] /\ printed' = printed /\ phase # "failed"
        /\ entry_point' = entry_point
    BY <1>1 DEF Begin, loaderVars
  <2>3. core' \in Machines /\ core'.bl_offset = core.bl_offset /\ core'.fault = core.fault
        /\ core'.cycles = core.cycles
    BY <1>0, <2>1, <2>2 DEF Machines
  <2> QED
    BY <1>0, <2>2, <2>3 DEF Kept
<1>2. ASSUME NEW bytes \in Binaries, NEW addr \in LoadAddrs, load_binary(bytes, addr) PROVE Kept
  BY <1>2, BinaryTypes
<1>3. CASE load_ihex
  <2>1. Kept
    BY <1>0, <1>3, WordFacts DEF load_ihex, Kept
  <2> QED
    BY <2>1, KeptHolds
<1>4. ASSUME phase = "load", NEW line \in Lines, ReadLine(line) PROVE Kept
  BY <1>4, ReadLineTypes
<1>5. CASE EndOfFile
  <2>1. Kept
    BY <1>0, <1>5, LaunchTypes DEF EndOfFile
  <2> QED
    BY <2>1, KeptHolds
<1>6. ASSUME NEW i \in Instrs, step(i), Forget
      PROVE  MachineInv' /\ (Executed => \E j \in Halfwords : Ran(j))
  <2>1. i \in Halfwords
    BY InputTypes
  <2> QED
    BY <1>6, <2>1, StepTypes
<1>7. CASE RunReturns /\ Forget
  <2>1. Kept
    BY <1>0, <1>7, WordFacts DEF RunReturns, Forget, Kept
  <2> QED
    BY <2>1, KeptHolds
<1>8. ASSUME NEW n, RunAgain(n), UNCHANGED loaderVars PROVE Kept
  BY <1>0, <1>8 DEF RunAgain, StartRun, loaderVars, Kept
<1>9. CASE StartOver /\ Forget
  <2>1. core' = Reset /\ printed'[2] = NoLine /\ entry_point' = 0
    BY <1>9 DEF StartOver, Forget
  <2>2. core.cycles \in Nat
    BY <1>0, MachineFields
  <2> QED
    BY <2>1, <2>2, ResetType, NoLineFacts, WordFacts DEF MachineInv, Executed
<1>10. CASE UNCHANGED simVars
  <2>1. Kept
    BY <1>0, <1>10 DEF Kept, simVars, cpuVars, loaderVars
  <2> QED
    BY <2>1, KeptHolds
<1> QED
  BY <1>1, <1>2, <1>3, <1>4, <1>5, <1>6, <1>7, <1>8, <1>9, <1>10, KeptHolds DEF MachineNext

(***************************************************************************)
(* The trace.  The mnemonic that is shown, by k, next to what the          *)
(* instruction changes, by k.                                              *)
(***************************************************************************)

ShiftNames == <<"lsl", "lsr", "asr">>
SumNames   == <<"add", "sub">>
ByteNames  == <<"mov", "cmp", "add", "sub">>
AluNames   == <<"and", "eor", "lsl", "lsr", "asr", "adc", "sbc", "ror",
                "tst", "neg", "cmp", "cmn", "orr", "mul", "bic", "mvn">>
HighNames  == <<"add", "cmp", "mov", "bx">>
StackNames == <<"push", "pop">>
LoadNames  == <<"str", "ldr">>
ListNames  == <<"stm", "ldm">>

\* What the tables of mnemonics hold.
LEMMA NameFacts ==
  /\ \A x \in 0..2 : ShiftNames[x + 1] \in Flagging
  /\ \A x \in 0..1 : SumNames[x + 1] \in Flagging
  /\ \A x \in 0..3 : ByteNames[x + 1] \in Flagging
  /\ \A x \in 0..15 : AluNames[x + 1] \in Flagging
  /\ HighNames[1] = "add" /\ HighNames[2] = "cmp" /\ HighNames[3] = "mov" /\ HighNames[4] = "bx"
  /\ \A x \in 0..1 : /\ StackNames[x + 1] = IF x = 0 THEN "push" ELSE "pop"
                     /\ LoadNames[x + 1] = IF x = 0 THEN "str" ELSE "ldr"
                     /\ ListNames[x + 1] = IF x = 0 THEN "stm" ELSE "ldm"
<1>1. \A x \in 0..2 : x = 0 \/ x = 1 \/ x = 2
  OBVIOUS
<1>2. \A x \in 0..1 : x = 0 \/ x = 1
  OBVIOUS
<1>3. \A x \in 0..3 : x = 0 \/ x = 1 \/ x = 2 \/ x = 3
  OBVIOUS
<1>4. \A x \in 0..15 : x = 0 \/ x = 1 \/ x = 2 \/ x = 3 \/ x = 4 \/ x = 5 \/ x = 6 \/ x = 7
        \/ x = 8 \/ x = 9 \/ x = 10 \/ x = 11 \/ x = 12 \/ x = 13 \/ x = 14 \/ x = 15
  OBVIOUS
<1>5. \A x \in 0..2 : ShiftNames[x + 1] \in Flagging
  BY <1>1 DEF ShiftNames, Flagging
<1>6. \A x \in 0..1 : SumNames[x + 1] \in Flagging
  BY <1>2 DEF SumNames, Flagging
<1>7. \A x \in 0..3 : ByteNames[x + 1] \in Flagging
  BY <1>3 DEF ByteNames, Flagging
<1>8. \A x \in 0..15 : AluNames[x + 1] \in Flagging
  <2>1. /\ AluNames[1] \in Flagging /\ AluNames[2] \in Flagging /\ AluNames[3] \in Flagging
        /\ AluNames[4] \in Flagging /\ AluNames[5] \in Flagging /\ AluNames[6] \in Flagging
        /\ AluNames[7] \in Flagging /\ AluNames[8] \in Flagging /\ AluNames[9] \in Flagging
        /\ AluNames[10] \in Flagging /\ AluNames[11] \in Flagging /\ AluNames[12] \in Flagging
        /\ AluNames[13] \in Flagging /\ AluNames[14] \in Flagging /\ AluNames[15] \in Flagging
        /\ AluNames[16] \in Flagging
    BY DEF AluNames, Flagging
  <2> QED
    BY <1>4, <2>1
<1>9. HighNames[1] = "add" /\ HighNames[2] = "cmp" /\ HighNames[3] = "mov" /\ HighNames[4] = "bx"
  BY DEF HighNames
<1>10. \A x \in 0..1 : /\ StackNames[x + 1] = IF x = 0 THEN "push" ELSE "pop"
                       /\ LoadNames[x + 1] = IF x = 0 THEN "str" ELSE "ldr"
                       /\ ListNames[x + 1] = IF x = 0 THEN "stm" ELSE "ldm"
  BY <1>2 DEF StackNames, LoadNames, ListNames
<1> QED
  BY <1>5, <1>6, <1>7, <1>8, <1>9, <1>10

\* The disassembler, by the upper byte of the opcode.
LEMMA DisassembleIs ==
  ASSUME NEW p, NEW i \in Halfwords
  PROVE  LET k == Field(i, 8, 8)
             d == disassemble(p, i)
         IN  /\ k \in 0..23 => d = Disassembly(ShiftNames[Field(i, 11, 5) + 1], 0)
             /\ k \in 24..31 => d = Disassembly(SumNames[Field(i, 9, 1) + 1], 0)
             /\ k \in 32..63 => d = Disassembly(ByteNames[(Field(i, 11, 5) - 4) + 1], 0)
             /\ k \in 64..67 => d = Disassembly(AluNames[Field(i, 6, 4) + 1], 0)
             /\ k \in 68..71 => d = Disassembly(HighNames[Field(i, 8, 2) + 1], 0)
             /\ k \in 176..191 => d = Disassembly(StackNames[Field(i, 11, 1) + 1], 0)
             /\ k \in 208..222 =>
                  d = Disassembly("b<cond>", Wrap(p + 4 + 2 * Sext(Field(i, 0, 8), 8)))
             /\ k \in 224..231 =>
                  d = Disassembly("b", Wrap(p + 4 + 2 * Sext(Field(i, 0, 11), 11)))
             /\ k \in 240..247 => d = Disassembly("bl_h", 0)
             /\ k \in 248..255 => d = Disassembly("bl_l", 0)
             /\ k \in 96..159 => d = Disassembly(LoadNames[Field(i, 11, 1) + 1], 0)
             /\ k \in 192..207 => d = Disassembly(ListNames[Field(i, 11, 1) + 1], 0)
             /\ k \in 72..95 \cup 160..175 \cup {223} \cup 232..239 => d = Disassembly("??", 0)
<1> DEFINE k   == Field(i, 8, 8)
           a4  == Field(i, 12, 4)
           a5  == Field(i, 11, 5)
           a6  == Field(i, 10, 6)
           c   == Field(i, 8, 4)
           d1  == Disassembly(ShiftNames[a5 + 1], 0)
           d2  == Disassembly(SumNames[Field(i, 9, 1) + 1], 0)
           d3  == Disassembly(ByteNames[(a5 - 4) + 1], 0)
           d4  == Disassembly(AluNames[Field(i, 6, 4) + 1], 0)
           d5  == Disassembly(HighNames[Field(i, 8, 2) + 1], 0)
           d6  == Disassembly(StackNames[Field(i, 11, 1) + 1], 0)
           d7  == Disassembly("b<cond>", Wrap(p + 4 + 2 * Sext(Field(i, 0, 8), 8)))
           d8  == Disassembly("b", Wrap(p + 4 + 2 * Sext(Field(i, 0, 11), 11)))
           d9  == Disassembly("bl_h", 0)
           d10 == Disassembly("bl_l", 0)
           d11 == Disassembly(LoadNames[Field(i, 11, 1) + 1], 0)
           d12 == Disassembly(ListNames[Field(i, 11, 1) + 1], 0)
           d13 == Disassembly("??", 0)
           d   == disassemble(p, i)
<1>1. d = CASE a5 <= 2           -> d1
            [] a5 = 3            -> d2
            [] a5 \in 4..7       -> d3
            [] a6 = 16           -> d4
            [] a6 = 17           -> d5
            [] a4 = 11           -> d6
            [] a4 = 13 /\ c # 15 -> d7
            [] a5 = 28           -> d8
            [] a5 = 30           -> d9
            [] a5 = 31           -> d10
            [] a4 \in 6..9       -> d11
            [] a4 = 12           -> d12
            [] OTHER             -> d13
  BY DEF disassemble, ShiftNames, SumNames, ByteNames, AluNames, HighNames, StackNames, LoadNames,
         ListNames
<1>2. k \in 0..255 /\ c = k % 16
  BY TopFields
<1>3. a4 = k \div 16 /\ a5 = k \div 8 /\ a6 = k \div 4
  BY TopFields
<1> HIDE DEF k, a4, a5, a6, c, d1, d2, d3, d4, d5, d6, d7, d8, d9, d10, d11, d12, d13, d
<1>4. k \in 0..23 => d = d1
  BY <1>1, <1>2, <1>3
<1>5. k \in 24..31 => d = d2
  BY <1>1, <1>2, <1>3
<1>6. k \in 32..63 => d = d3
  BY <1>1, <1>2, <1>3
<1>7. k \in 64..67 => d = d4
  BY <1>1, <1>2, <1>3
<1>8. k \in 68..71 => d = d5
  BY <1>1, <1>2, <1>3
<1>9. k \in 176..191 => d = d6
  BY <1>1, <1>2, <1>3
<1>10. k \in 208..222 => d = d7
  BY <1>1, <1>2, <1>3
<1>11. k \in 224..231 => d = d8
  BY <1>1, <1>2, <1>3
<1>12. k \in 240..247 => d = d9
  BY <1>1, <1>2, <1>3
<1>13. k \in 248..255 => d = d10
  BY <1>1, <1>2, <1>3
<1>14. k \in 96..159 => d = d11
  BY <1>1, <1>2, <1>3
<1>15. k \in 192..207 => d = d12
  BY <1>1, <1>2, <1>3
<1>16. k \in 72..95 \cup 160..175 \cup {223} \cup 232..239 => d = d13
  BY <1>1, <1>2, <1>3
<1> QED
  BY <1>4, <1>5, <1>6, <1>7, <1>8, <1>9, <1>10, <1>11, <1>12, <1>13, <1>14, <1>15, <1>16
     DEF k, a5, d, d1, d2, d3, d4, d5, d6, d7, d8, d9, d10, d11, d12, d13

\* The parts of a line.
LEMMA DisassemblyFacts ==
  ASSUME NEW m, NEW a PROVE Disassembly(m, a).mnemonic = m /\ Disassembly(m, a).target = a
BY DEF Disassembly

\* What a line of the trace shows.
Shows(m, i, k) ==
  /\ k \in 0..67 \cup {69} => m \in Flagging
  /\ k \in {68, 70} => m \in {"add", "mov"}
  /\ k = 71 => m = "bx"
  /\ k \in 80..95 => m = "??"
  /\ k \in 96..159 /\ ~Flag(i, 11) => m = "str"
  /\ k \in 192..207 /\ ~Flag(i, 11) => m = "stm"
  /\ k \in 177..183 => m = "push"
  /\ k \in 184..189 => m = "pop"
  /\ k \in 248..255 => m = "bl_l"
  /\ k \in 208..222 <=> m = "b<cond>"
  /\ k \in 224..231 <=> m = "b"
  /\ m = "bx" => k = 71
  /\ m = "push" => k \in 176..183
  /\ m = "pop" => k \in 184..191
  /\ m = "??" => k \in 72..95 \cup 160..175 \cup {223} \cup 232..239

\* No branch, push or pop sets flags.
LEMMA FlaggingFacts ==
  \A m \in Flagging : m # "b" /\ m # "b<cond>" /\ m # "bx" /\ m # "push" /\ m # "pop" /\ m # "??"
BY DEF Flagging

\* Every opcode is shown as one of its kind.
LEMMA LineShows ==
  ASSUME NEW p, NEW i \in Halfwords
  PROVE  Shows(disassemble(p, i).mnemonic, i, Field(i, 8, 8))
<1> DEFINE k == Field(i, 8, 8)
           d == disassemble(p, i)
           m == d.mnemonic
<1>1. k \in 0..255 /\ Field(i, 11, 1) = (k \div 8) % 2 /\ Field(i, 8, 2) = k % 4
      /\ Field(i, 11, 5) = k \div 8 /\ Field(i, 11, 1) \in 0..1
  BY TopFields
<1>2. ASSUME k \in 0..23 PROVE Shows(m, i, k)
  <2> DEFINE x == Field(i, 11, 5)
  <2>1. x \in 0..2
    BY <1>1, <1>2, FieldTypes
  <2>2. d = Disassembly(ShiftNames[Field(i, 11, 5) + 1], 0)
    BY <1>2, DisassembleIs
  <2> HIDE DEF x, k, d
  <2>3. m = ShiftNames[x + 1]
    BY <2>2, DisassemblyFacts DEF x
  <2>4. m \in Flagging
    BY <2>1, <2>3, NameFacts
  <2> HIDE DEF m
  <2>5. m # "b" /\ m # "b<cond>" /\ m # "bx" /\ m # "push" /\ m # "pop" /\ m # "??"
    BY <2>4, FlaggingFacts
  <2> QED
    BY <1>2, <2>4, <2>5 DEF Shows
<1>3. ASSUME k \in 24..31 PROVE Shows(m, i, k)
  <2> DEFINE x == Field(i, 9, 1)
  <2>1. x \in 0..1
    BY <1>1, <1>3, FieldTypes
  <2>2. d = Disassembly(SumNames[Field(i, 9, 1) + 1], 0)
    BY <1>3, DisassembleIs
  <2> HIDE DEF x, k, d
  <2>3. m = SumNames[x + 1]
    BY <2>2, DisassemblyFacts DEF x
  <2>4. m \in Flagging
    BY <2>1, <2>3, NameFacts
  <2> HIDE DEF m
  <2>5. m # "b" /\ m # "b<cond>" /\ m # "bx" /\ m # "push" /\ m # "pop" /\ m # "??"
    BY <2>4, FlaggingFacts
  <2> QED
    BY <1>3, <2>4, <2>5 DEF Shows
<1>4. ASSUME k \in 32..63 PROVE Shows(m, i, k)
  <2> DEFINE x == Field(i, 11, 5) - 4
  <2>1. x \in 0..3
    BY <1>1, <1>4, FieldTypes
  <2>2. d = Disassembly(ByteNames[(Field(i, 11, 5) - 4) + 1], 0)
    BY <1>4, DisassembleIs
  <2> HIDE DEF x, k, d
  <2>3. m = ByteNames[x + 1]
    BY <2>2, DisassemblyFacts DEF x
  <2>4. m \in Flagging
    BY <2>1, <2>3, NameFacts
  <2> HIDE DEF m
  <2>5. m # "b" /\ m # "b<cond>" /\ m # "bx" /\ m # "push" /\ m # "pop" /\ m # "??"
    BY <2>4, FlaggingFacts
  <2> QED
    BY <1>4, <2>4, <2>5 DEF Shows
<1>5. ASSUME k \in 64..67 PROVE Shows(m, i, k)
  <2> DEFINE x == Field(i, 6, 4)
  <2>1. x \in 0..15
    BY <1>1, <1>5, FieldTypes
  <2>2. d = Disassembly(AluNames[Field(i, 6, 4) + 1], 0)
    BY <1>5, DisassembleIs
  <2> HIDE DEF x, k, d
  <2>3. m = AluNames[x + 1]
    BY <2>2, DisassemblyFacts DEF x
  <2>4. m \in Flagging
    BY <2>1, <2>3, NameFacts
  <2> HIDE DEF m
  <2>5. m # "b" /\ m # "b<cond>" /\ m # "bx" /\ m # "push" /\ m # "pop" /\ m # "??"
    BY <2>4, FlaggingFacts
  <2> QED
    BY <1>5, <2>4, <2>5 DEF Shows
<1>6. ASSUME k \in 68..71 PROVE Shows(m, i, k)
  <2> DEFINE x == Field(i, 8, 2)
  <2>1. x = k - 68
    BY <1>1, <1>6
  <2>2. d = Disassembly(HighNames[x + 1], 0)
    BY <1>6, DisassembleIs
  <2> HIDE DEF x, k, d
  <2>3. m = HighNames[x + 1]
    BY <2>2, DisassemblyFacts
  <2> HIDE DEF m
  <2>4. /\ k = 68 => m = "add"
        /\ k = 69 => m = "cmp"
        /\ k = 70 => m = "mov"
        /\ k = 71 => m = "bx"
    BY <2>1, <2>3, NameFacts
  <2>5. "cmp" \in Flagging
    BY DEF Flagging
  <2> QED
    BY <1>6, <2>4, <2>5 DEF Shows
<1>7. ASSUME k \in 176..191 PROVE Shows(m, i, k)
  <2> DEFINE x == Field(i, 11, 1)
  <2>1. x \in 0..1 /\ x = (k \div 8) % 2 /\ (Flag(i, 11) <=> x = 1)
    BY <1>1 DEF Flag
  <2>2. d = Disassembly(StackNames[x + 1], 0)
    BY <1>7, DisassembleIs
  <2> HIDE DEF x, k, d
  <2>3. m = StackNames[x + 1]
    BY <2>2, DisassemblyFacts
  <2> HIDE DEF m
  <2>4. m = IF x = 0 THEN "push" ELSE "pop"
    BY <2>1, <2>3, NameFacts
  <2> QED
    BY <1>7, <2>1, <2>4 DEF Shows
<1>8. ASSUME k \in 96..159 PROVE Shows(m, i, k)
  <2> DEFINE x == Field(i, 11, 1)
  <2>1. x \in 0..1 /\ x = (k \div 8) % 2 /\ (Flag(i, 11) <=> x = 1)
    BY <1>1 DEF Flag
  <2>2. d = Disassembly(LoadNames[x + 1], 0)
    BY <1>8, DisassembleIs
  <2> HIDE DEF x, k, d
  <2>3. m = LoadNames[x + 1]
    BY <2>2, DisassemblyFacts
  <2> HIDE DEF m
  <2>4. m = IF x = 0 THEN "str" ELSE "ldr"
    BY <2>1, <2>3, NameFacts
  <2> QED
    BY <1>8, <2>1, <2>4 DEF Shows
<1>9. ASSUME k \in 192..207 PROVE Shows(m, i, k)
  <2> DEFINE x == Field(i, 11, 1)
  <2>1. x \in 0..1 /\ x = (k \div 8) % 2 /\ (Flag(i, 11) <=> x = 1)
    BY <1>1 DEF Flag
  <2>2. d = Disassembly(ListNames[x + 1], 0)
    BY <1>9, DisassembleIs
  <2> HIDE DEF x, k, d
  <2>3. m = ListNames[x + 1]
    BY <2>2, DisassemblyFacts
  <2> HIDE DEF m
  <2>4. m = IF x = 0 THEN "stm" ELSE "ldm"
    BY <2>1, <2>3, NameFacts
  <2> QED
    BY <1>9, <2>1, <2>4 DEF Shows
<1>10. ASSUME k \in 208..222 PROVE Shows(m, i, k)
  <2> DEFINE a == Wrap(p + 4 + 2 * Sext(Field(i, 0, 8), 8))
  <2>1. d = Disassembly("b<cond>", a)
    BY <1>10, DisassembleIs
  <2> HIDE DEF a, k, d
  <2>2. m = "b<cond>"
    BY <2>1, DisassemblyFacts
  <2> HIDE DEF m
  <2> QED
    BY <1>10, <2>2 DEF Shows
<1>11. ASSUME k \in 224..231 PROVE Shows(m, i, k)
  <2> DEFINE a == Wrap(p + 4 + 2 * Sext(Field(i, 0, 11), 11))
  <2>1. d = Disassembly("b", a)
    BY <1>11, DisassembleIs
  <2> HIDE DEF a, k, d
  <2>2. m = "b"
    BY <2>1, DisassemblyFacts
  <2> HIDE DEF m
  <2> QED
    BY <1>11, <2>2 DEF Shows
<1>12. ASSUME k \in 240..247 PROVE Shows(m, i, k)
  <2> DEFINE a == 0
  <2>1. d = Disassembly("bl_h", a)
    BY <1>12, DisassembleIs
  <2> HIDE DEF a, k, d
  <2>2. m = "bl_h"
    BY <2>1, DisassemblyFacts
  <2> HIDE DEF m
  <2> QED
    BY <1>12, <2>2 DEF Shows
<1>13. ASSUME k \in 248..255 PROVE Shows(m, i, k)
  <2> DEFINE a == 0
  <2>1. d = Disassembly("bl_l", a)
    BY <1>13, DisassembleIs
  <2> HIDE DEF a, k, d
  <2>2. m = "bl_l"
    BY <2>1, DisassemblyFacts
  <2> HIDE DEF m
  <2> QED
    BY <1>13, <2>2 DEF Shows
<1>14. ASSUME k \in 72..95 \cup 160..175 \cup {223} \cup 232..239 PROVE Shows(m, i, k)
  <2> DEFINE a == 0
  <2>1. d = Disassembly("??", a)
    BY <1>14, DisassembleIs
  <2> HIDE DEF a, k, d
  <2>2. m = "??"
    BY <2>1, DisassemblyFacts
  <2> HIDE DEF m
  <2> QED
    BY <1>14, <2>2 DEF Shows
<1> HIDE DEF k, m
<1>15. Shows(m, i, k)
  BY <1>1, <1>2, <1>3, <1>4, <1>5, <1>6, <1>7, <1>8, <1>9, <1>10, <1>11, <1>12, <1>13, <1>14
<1> QED
  BY <1>15 DEF k, m

\* The address of a branch is counted from the instruction or from the next.
LEMMA TargetsAgree ==
  ASSUME NEW x \in Int, NEW y \in Int
  PROVE  Wrap(Wrap(x + 2) + 2 + 2 * y) = Wrap(x + 4 + 2 * y)
<1> DEFINE p == x + 2
           q == 2 + 2 * y
<1>1. p \in Int /\ q \in Int /\ p + q = x + 4 + 2 * y
  OBVIOUS
<1>2. Wrap(p) \in Int
  BY <1>1, WordFacts
<1>3. Wrap(p) + 2 + 2 * y = Wrap(p) + q
  BY <1>2
<1>4. Wrap(Wrap(p) + q) = Wrap(p + q)
  BY <1>1, WrapAdds
<1> QED
  BY <1>1, <1>3, <1>4

\* Offsets of branches.
LEMMA OffsetTypes ==
  ASSUME NEW i \in Halfwords
  PROVE  Sext(Field(i, 0, 11), 11) \in Int /\ Sext(Field(i, 0, 8), 8) \in Int
<1> DEFINE x == Field(i, 0, 11)
           y == Field(i, 0, 8)
<1>1. x \in 0..2047 /\ y \in 0..255
  BY FieldTypes
<1> HIDE DEF x, y
<1>2. Sext(x, 11) \in Int /\ Sext(y, 8) \in Int
  BY <1>1 DEF Sext
<1> QED
  BY <1>2 DEF x, y

\* A branch goes where its line says, or to the next instruction.
LEMMA BranchesGo ==
  ASSUME NEW c \in Machines, NEW i \in Halfwords
  PROVE  LET k == Field(i, 8, 8)
             t == execute(Fetched(c), i)
             d == disassemble(c.regs[PC], i)
         IN  /\ k \in 224..231 => t.regs[PC] = Even(d.target)
             /\ k \in 208..222 => t.regs[PC] = Fetched(c).regs[PC] \/ t.regs[PC] = Even(d.target)
<1> DEFINE f == Fetched(c)
           t == execute(f, i)
           x == c.regs[PC]
           d == disassemble(x, i)
           y == Sext(Field(i, 0, 11), 11)
           z == Sext(Field(i, 0, 8), 8)
           k == Field(i, 8, 8)
<1>1. f \in Machines /\ f.regs[PC] = Wrap(x + 2)
  BY FetchedFacts
<1>2. x \in Int /\ y \in Int /\ z \in Int
  <2>1. x \in WordSet
    BY MachineFields DEF PC
  <2> QED
    BY <2>1, WordFacts, OffsetTypes
<1>3. ASSUME k \in 224..231 PROVE t.regs[PC] = Even(d.target)
  <2>1. t = exec_branch(f, i)
    BY <1>3, ExecuteIs
  <2>2. exec_branch(f, i).regs[PC] = Even(Wrap(f.regs[PC] + 2 + 2 * y))
    BY <1>1, BranchFrame
  <2>3. d = Disassembly("b", Wrap(x + 4 + 2 * y))
    BY <1>3, DisassembleIs
  <2> HIDE DEF f, t, x, d, y
  <2>4. d.target = Wrap(x + 4 + 2 * y)
    BY <2>3, DisassemblyFacts
  <2>5. Wrap(Wrap(x + 2) + 2 + 2 * y) = Wrap(x + 4 + 2 * y)
    BY <1>2, TargetsAgree
  <2> QED
    BY <1>1, <2>1, <2>2, <2>4, <2>5
<1>4. ASSUME k \in 208..222 PROVE t.regs[PC] = f.regs[PC] \/ t.regs[PC] = Even(d.target)
  <2>1. t = exec_branch_cond(f, i)
    BY <1>4, ExecuteIs
  <2>2. \/ exec_branch_cond(f, i).regs[PC] = f.regs[PC]
        \/ exec_branch_cond(f, i).regs[PC] = Even(Wrap(f.regs[PC] + 2 + 2 * z))
    BY <1>1, BranchFrame
  <2>3. d = Disassembly("b<cond>", Wrap(x + 4 + 2 * z))
    BY <1>4, DisassembleIs
  <2> HIDE DEF f, t, x, d, z
  <2>4. d.target = Wrap(x + 4 + 2 * z)
    BY <2>3, DisassemblyFacts
  <2>5. Wrap(Wrap(x + 2) + 2 + 2 * z) = Wrap(x + 4 + 2 * z)
    BY <1>2, TargetsAgree
  <2> QED
    BY <1>1, <2>1, <2>2, <2>4, <2>5
<1> QED
  BY <1>3, <1>4

(***************************************************************************)
(* The flags.  Each instruction that adds, subtracts or compares hands its *)
(* operands to the operators of the first part.                            *)
(***************************************************************************)

\* The flags f are those of a + b + k or of a - b - k.
Exact(f, sub, a, b, k) ==
  /\ ~sub => ExactSum(f, a, b, k)
  /\ sub => ExactDifference(f, a, b, k)
  /\ sub /\ k = 0 => MeansComparison(f, a, b)

\* NEG and an SBC without a borrow set the flags of a comparison.
LEMMA SameFlags ==
  ASSUME NEW f \in FlagSets, NEW a \in WordSet, NEW b \in WordSet
  PROVE  /\ NegFlags(f, b) = SubFlags(f, 0, b)
         /\ AddFlags(f, a, Not(b), TRUE) = SubFlags(f, a, b)
<1> DEFINE r == sub32(0, b).res
           q == sub32(a, b).res
           g == update_nz(f, r)
           h == update_nz(f, q)
           c == sub32(0, b).carry
           e == sub32(a, b).carry
<1>1. /\ MSB \in Nat \ {0} /\ Span = 2 * MSB
      /\ \A x \in WordSet : x \in Int /\ 0 <= x /\ x < Span
  BY MsbAssumption DEF Span, WordSet
<1>2. (Negative(b) /\ Negative(r)) = (Negative(0) # Negative(b) /\ Negative(0) # Negative(r))
  <2>1. ~Negative(0)
    BY <1>1 DEF Negative
  <2>2. Negative(b) \in BOOLEAN /\ Negative(r) \in BOOLEAN /\ Negative(0) \in BOOLEAN
    BY DEF Negative
  <2> QED
    BY <2>1, <2>2
<1>3. (Negative(a) # Negative(q) /\ Negative(Not(b)) # Negative(q))
        = (Negative(a) # Negative(b) /\ Negative(a) # Negative(q))
  <2>1. Negative(Not(b)) <=> ~Negative(b)
    BY <1>1 DEF Negative, Not
  <2>2. Negative(a) \in BOOLEAN /\ Negative(b) \in BOOLEAN /\ Negative(q) \in BOOLEAN
        /\ Negative(Not(b)) \in BOOLEAN
    BY DEF Negative
  <2> HIDE DEF q
  <2> QED
    BY <2>1, <2>2
<1>4. NegFlags(f, b) = [g EXCEPT !.C = c, !.V = Negative(b) /\ Negative(r)]
  BY DEF NegFlags
<1>5. SubFlags(f, 0, b)
        = [g EXCEPT !.C = c, !.V = Negative(0) # Negative(b) /\ Negative(0) # Negative(r)]
  BY DEF SubFlags
<1>6. AddFlags(f, a, Not(b), TRUE)
        = [h EXCEPT !.C = e, !.V = Negative(a) # Negative(q) /\ Negative(Not(b)) # Negative(q)]
  BY DEF AddFlags, sub32
<1>7. SubFlags(f, a, b)
        = [h EXCEPT !.C = e, !.V = Negative(a) # Negative(b) /\ Negative(a) # Negative(q)]
  BY DEF SubFlags
<1> HIDE DEF r, q, g, h, c, e
<1>8. NegFlags(f, b) = SubFlags(f, 0, b)
  BY <1>2, <1>4, <1>5, Zenon
<1>9. AddFlags(f, a, Not(b), TRUE) = SubFlags(f, a, b)
  BY <1>3, <1>6, <1>7, Zenon
<1> QED
  BY <1>8, <1>9

\* The flags of each operation.
LEMMA ExactFlags ==
  ASSUME NEW f \in FlagSets, NEW a \in WordSet, NEW b \in WordSet, NEW cin \in BOOLEAN
  PROVE  /\ Exact(AddFlags(f, a, b, cin), FALSE, a, b, Carry(cin))
         /\ Exact(AddFlags(f, a, b, FALSE), FALSE, a, b, 0)
         /\ Exact(SubFlags(f, a, b), TRUE, a, b, 0)
         /\ Exact(AddFlags(f, a, Not(b), cin), TRUE, a, b, 1 - Carry(cin))
         /\ Exact(NegFlags(f, b), TRUE, 0, b, 0)
<1>0. 0 \in WordSet
  BY WordFacts
<1>1. Exact(AddFlags(f, a, b, cin), FALSE, a, b, Carry(cin))
  BY AdditionCorrect DEF Exact
<1>2. Exact(AddFlags(f, a, b, FALSE), FALSE, a, b, 0)
  <2>1. Carry(FALSE) = 0
    BY DEF Carry
  <2>2. ExactSum(AddFlags(f, a, b, FALSE), a, b, Carry(FALSE))
    BY AdditionCorrect
  <2> QED
    BY <2>1, <2>2 DEF Exact
<1>3. Exact(SubFlags(f, a, b), TRUE, a, b, 0)
  BY SubtractionCorrect, ComparisonCorrect DEF Exact
<1>4. Exact(AddFlags(f, a, Not(b), cin), TRUE, a, b, 1 - Carry(cin))
  <2>1. ExactDifference(AddFlags(f, a, Not(b), cin), a, b, 1 - Carry(cin))
    BY BorrowCorrect
  <2>2. 1 - Carry(cin) = 0 => cin = TRUE
    BY DEF Carry
  <2>3. MeansComparison(AddFlags(f, a, Not(b), TRUE), a, b)
    BY SameFlags, ComparisonCorrect
  <2> QED
    BY <2>1, <2>2, <2>3 DEF Exact
<1>5. Exact(NegFlags(f, b), TRUE, 0, b, 0)
  <2>1. ExactDifference(NegFlags(f, b), 0, b, 0)
    BY NegationCorrect
  <2>2. MeansComparison(NegFlags(f, b), 0, b)
    BY <1>0, SameFlags, ComparisonCorrect
  <2> QED
    BY <2>1, <2>2 DEF Exact
<1> QED
  BY <1>1, <1>2, <1>3, <1>4, <1>5

\* The operands of an instruction, as records.
Terms(sub, a, b, k) == {[sub |-> sub, a |-> a, b |-> b, k |-> k]}

\* The terms in a set of one.
LEMMA TermsFacts ==
  ASSUME NEW sub, NEW a, NEW b, NEW k, NEW f, Exact(f, sub, a, b, k), NEW o \in Terms(sub, a, b, k)
  PROVE  Exact(f, o.sub, o.a, o.b, o.k)
BY DEF Terms

\* The operands, by the upper byte of the opcode.
LEMMA ArithmeticIs ==
  ASSUME NEW i \in Halfwords
  PROVE  LET k  == Field(i, 8, 8)
             op == Field(i, 6, 4)
             lo == Operand[Field(i, 0, 3)]
             rs == Operand[Field(i, 3, 3)]
             cy == Carry(core.apsr.C)
         IN  \/ Arithmetic(i) = {}
             \/ /\ k \in 24..31
                /\ Arithmetic(i) = Terms(Flag(i, 9), rs,
                     IF Flag(i, 10) THEN Field(i, 6, 3) ELSE Operand[Field(i, 6, 3)], 0)
             \/ /\ k \in 40..63
                /\ Arithmetic(i) =
                     Terms(Field(i, 11, 5) # 6, Operand[Field(i, 8, 3)], Field(i, 0, 8), 0)
             \/ /\ k = 69
                /\ Arithmetic(i) = Terms(TRUE, Operand[8 * Field(i, 7, 1) + Field(i, 0, 3)],
                                         Operand[Field(i, 3, 4)], 0)
             \/ /\ k \in 64..67 /\ op \in {5, 11}
                /\ Arithmetic(i) = Terms(FALSE, lo, rs, IF op = 5 THEN cy ELSE 0)
             \/ /\ k \in 64..67 /\ op \in {6, 10}
                /\ Arithmetic(i) = Terms(TRUE, lo, rs, IF op = 6 THEN 1 - cy ELSE 0)
             \/ /\ k \in 64..67 /\ op = 9
                /\ Arithmetic(i) = Terms(TRUE, 0, rs, 0)
<1> DEFINE k  == Field(i, 8, 8)
           op == Field(i, 6, 4)
           a5 == Field(i, 11, 5)
           a6 == Field(i, 10, 6)
           lo == Operand[Field(i, 0, 3)]
           rs == Operand[Field(i, 3, 3)]
           cy == Carry(core.apsr.C)
           t1 == Terms(Flag(i, 9), rs,
                       IF Flag(i, 10) THEN Field(i, 6, 3) ELSE Operand[Field(i, 6, 3)], 0)
           t2 == Terms(a5 # 6, Operand[Field(i, 8, 3)], Field(i, 0, 8), 0)
           t3 == Terms(TRUE, Operand[8 * Field(i, 7, 1) + Field(i, 0, 3)],
                       Operand[Field(i, 3, 4)], 0)
           t4 == Terms(FALSE, lo, rs, IF op = 5 THEN cy ELSE 0)
           t5 == Terms(TRUE, lo, rs, IF op = 6 THEN 1 - cy ELSE 0)
           t6 == Terms(TRUE, 0, rs, 0)
           A  == Arithmetic(i)
<1>1. A = CASE a5 = 3                       -> t1
            [] a5 \in 5..7                  -> t2
            [] k = 69                       -> t3
            [] a6 = 16 /\ op \in {5, 11}    -> t4
            [] a6 = 16 /\ op \in {6, 10}    -> t5
            [] a6 = 16 /\ op = 9            -> t6
            [] OTHER                        -> {}
  BY DEF Arithmetic, Terms
<1>2. k \in 0..255 /\ a5 = k \div 8 /\ a6 = k \div 4 /\ op \in 0..15
  BY TopFields, FieldTypes
<1> HIDE DEF k, op, a5, a6, lo, rs, cy, t1, t2, t3, t4, t5, t6, A
<1>3. a5 = 3 => A = t1 /\ k \in 24..31
  BY <1>1, <1>2
<1>4. a5 \in 5..7 => A = t2 /\ k \in 40..63
  BY <1>1, <1>2
<1>5. k = 69 => A = t3
  BY <1>1, <1>2
<1>6. a6 = 16 /\ op \in {5, 11} => A = t4 /\ k \in 64..67
  BY <1>1, <1>2
<1>7. a6 = 16 /\ op \in {6, 10} => A = t5 /\ k \in 64..67
  BY <1>1, <1>2
<1>8. a6 = 16 /\ op = 9 => A = t6 /\ k \in 64..67
  BY <1>1, <1>2
<1>9. /\ a5 # 3 /\ ~(a5 \in 5..7) /\ k # 69 /\ ~(a6 = 16 /\ op \in {5, 11})
      /\ ~(a6 = 16 /\ op \in {6, 10}) /\ ~(a6 = 16 /\ op = 9)
      => A = {}
  BY <1>1, <1>2
<1>10. \/ A = {}
       \/ k \in 24..31 /\ A = t1
       \/ k \in 40..63 /\ A = t2
       \/ k = 69 /\ A = t3
       \/ k \in 64..67 /\ op \in {5, 11} /\ A = t4
       \/ k \in 64..67 /\ op \in {6, 10} /\ A = t5
       \/ k \in 64..67 /\ op = 9 /\ A = t6
  BY <1>3, <1>4, <1>5, <1>6, <1>7, <1>8, <1>9
<1> QED
  BY <1>10, Zenon DEF A, k, op, a5, lo, rs, cy, t1, t2, t3, t4, t5, t6

\* The flags after an instruction.
LEMMA FlagsStep ==
  ASSUME core \in Machines, NEW i \in Halfwords, Ran(i), NEW o \in Arithmetic(i)
  PROVE  Exact(core'.apsr, o.sub, o.a, o.b, o.k)
<1> DEFINE s == Fetched(core)
           t == execute(s, i)
           f == core.apsr
           g == Operand
           k == Field(i, 8, 8)
<1>1. core'.apsr = t.apsr
  BY DEF Ran
<1>2. s \in Machines /\ s.regs = g /\ s.apsr = f /\ f \in FlagSets /\ f.C \in BOOLEAN
  <2>1. s \in Machines /\ SameButRegs(s, core) /\ s.regs = g
    BY FetchedFacts DEF Operand
  <2>2. s.apsr = f
    BY <2>1 DEF SameButRegs
  <2> QED
    BY <2>1, <2>2, MachineFields
<1>3. ASSUME NEW sub, NEW a, NEW b, NEW c, Arithmetic(i) = Terms(sub, a, b, c),
             Exact(t.apsr, sub, a, b, c)
      PROVE  Exact(core'.apsr, o.sub, o.a, o.b, o.k)
  BY <1>1, <1>3, TermsFacts
<1> HIDE DEF s, t, f, g
<1>4. CASE Arithmetic(i) = {}
  BY <1>4
<1>5. ASSUME k \in 24..31,
             Arithmetic(i) = Terms(Flag(i, 9), g[Field(i, 3, 3)],
                               IF Flag(i, 10) THEN Field(i, 6, 3) ELSE g[Field(i, 6, 3)], 0)
      PROVE  Exact(core'.apsr, o.sub, o.a, o.b, o.k)
  <2> DEFINE a == g[Field(i, 3, 3)]
             b == IF Flag(i, 10) THEN Field(i, 6, 3) ELSE g[Field(i, 6, 3)]
  <2>1. t = exec_add_sub(s, i)
    BY <1>5, ExecuteIs DEF t
  <2>2. /\ a \in WordSet /\ b \in WordSet
        /\ exec_add_sub(s, i).apsr =
             IF Flag(i, 9) THEN SubFlags(f, a, b) ELSE AddFlags(f, a, b, FALSE)
    BY <1>2, AddSubComputes
  <2> HIDE DEF a, b
  <2>3. CASE Flag(i, 9)
    <3>1. Exact(t.apsr, TRUE, a, b, 0)
      BY <1>2, <2>1, <2>2, <2>3, ExactFlags
    <3>2. Flag(i, 9) = TRUE
      BY <2>3 DEF Flag
    <3> QED
      BY <1>3, <1>5, <3>1, <3>2 DEF a, b
  <2>4. CASE ~Flag(i, 9)
    <3>1. Exact(t.apsr, FALSE, a, b, 0)
      BY <1>2, <2>1, <2>2, <2>4, ExactFlags
    <3>2. Flag(i, 9) = FALSE
      BY <2>4 DEF Flag
    <3> QED
      BY <1>3, <1>5, <3>1, <3>2 DEF a, b
  <2> QED
    BY <2>3, <2>4
<1>6. ASSUME k \in 40..63,
             Arithmetic(i) = Terms(Field(i, 11, 5) # 6, g[Field(i, 8, 3)], Field(i, 0, 8), 0)
      PROVE  Exact(core'.apsr, o.sub, o.a, o.b, o.k)
  <2> DEFINE a == g[Field(i, 8, 3)]
             b == Field(i, 0, 8)
             p == Field(i, 11, 2)
             q == Field(i, 11, 5)
  <2>1. t = exec_imm8(s, i)
    BY <1>6, ExecuteIs DEF t
  <2>2. /\ a \in WordSet /\ b \in WordSet
        /\ p \in {1, 3} => exec_imm8(s, i).apsr = SubFlags(f, a, b)
        /\ p = 2 => exec_imm8(s, i).apsr = AddFlags(f, a, b, FALSE)
    BY <1>2, Imm8Computes
  <2>3. p = q - 4 /\ q \in 5..7
    BY <1>6, TopFields
  <2> HIDE DEF a, b, p, q
  <2>4. CASE q # 6
    <3>1. Exact(t.apsr, TRUE, a, b, 0)
      <4>1. p \in {1, 3}
        BY <2>3, <2>4
      <4> QED
        BY <1>2, <2>1, <2>2, <4>1, ExactFlags
    <3>2. (q # 6) = TRUE
      BY <2>4
    <3> QED
      BY <1>3, <1>6, <3>1, <3>2 DEF a, b, q
  <2>5. CASE q = 6
    <3>1. Exact(t.apsr, FALSE, a, b, 0)
      <4>1. p = 2
        BY <2>3, <2>5
      <4> QED
        BY <1>2, <2>1, <2>2, <4>1, ExactFlags
    <3>2. (q # 6) = FALSE
      BY <2>5
    <3> QED
      BY <1>3, <1>6, <3>1, <3>2 DEF a, b, q
  <2> QED
    BY <2>4, <2>5
<1>7. ASSUME k = 69,
             Arithmetic(i) = Terms(TRUE, g[8 * Field(i, 7, 1) + Field(i, 0, 3)],
                                   g[Field(i, 3, 4)], 0)
      PROVE  Exact(core'.apsr, o.sub, o.a, o.b, o.k)
  <2> DEFINE a == g[8 * Field(i, 7, 1) + Field(i, 0, 3)]
             b == g[Field(i, 3, 4)]
  <2>1. t = exec_hi_reg_bx(s, i)
    BY <1>7, ExecuteIs DEF t
  <2>2. Field(i, 8, 2) = 1
    BY <1>7, TopFields
  <2>3. /\ a \in WordSet /\ b \in WordSet
        /\ exec_hi_reg_bx(s, i).apsr = SubFlags(f, a, b)
    BY <1>2, <2>2, HiRegFrame
  <2> HIDE DEF a, b
  <2>4. Exact(t.apsr, TRUE, a, b, 0)
    BY <1>2, <2>1, <2>3, ExactFlags
  <2>5. Arithmetic(i) = Terms(TRUE, a, b, 0)
    BY <1>7, Zenon DEF a, b
  <2> QED
    BY <1>3, <2>4, <2>5
<1>8. ASSUME k \in 64..67, Field(i, 6, 4) \in {5, 6, 9, 10, 11},
             /\ Field(i, 6, 4) \in {5, 11} =>
                  Arithmetic(i) = Terms(FALSE, g[Field(i, 0, 3)], g[Field(i, 3, 3)],
                                        IF Field(i, 6, 4) = 5 THEN Carry(f.C) ELSE 0)
             /\ Field(i, 6, 4) \in {6, 10} =>
                  Arithmetic(i) = Terms(TRUE, g[Field(i, 0, 3)], g[Field(i, 3, 3)],
                                        IF Field(i, 6, 4) = 6 THEN 1 - Carry(f.C) ELSE 0)
             /\ Field(i, 6, 4) = 9 => Arithmetic(i) = Terms(TRUE, 0, g[Field(i, 3, 3)], 0)
      PROVE  Exact(core'.apsr, o.sub, o.a, o.b, o.k)
  <2> DEFINE a == g[Field(i, 0, 3)]
             b == g[Field(i, 3, 3)]
             op == Field(i, 6, 4)
             u == exec_alu(s, i)
  <2>1. t = u
    BY <1>8, ExecuteIs DEF t
  <2>2. /\ a \in WordSet /\ b \in WordSet
        /\ op = 5  => u.apsr = AddFlags(f, a, b, f.C)
        /\ op = 6  => u.apsr = AddFlags(f, a, Not(b), f.C)
        /\ op = 9  => u.apsr = NegFlags(f, b)
        /\ op = 10 => u.apsr = SubFlags(f, a, b)
        /\ op = 11 => u.apsr = AddFlags(f, a, b, FALSE)
    BY <1>2, AluComputes
  <2> DEFINE A == Arithmetic(i)
             c == Carry(f.C)
  <2>3. /\ op = 5  => A = Terms(FALSE, a, b, c)
        /\ op = 6  => A = Terms(TRUE, a, b, 1 - c)
        /\ op = 9  => A = Terms(TRUE, 0, b, 0)
        /\ op = 10 => A = Terms(TRUE, a, b, 0)
        /\ op = 11 => A = Terms(FALSE, a, b, 0)
    <3> HIDE DEF a, b, op, c
    <3>1. /\ op \in {5, 11} => A = Terms(FALSE, a, b, IF op = 5 THEN c ELSE 0)
          /\ op \in {6, 10} => A = Terms(TRUE, a, b, IF op = 6 THEN 1 - c ELSE 0)
          /\ op = 9 => A = Terms(TRUE, 0, b, 0)
      BY <1>8 DEF a, b, op, c
    <3> DEFINE x == IF op = 5 THEN c ELSE 0
               y == IF op = 6 THEN 1 - c ELSE 0
    <3>2. (op = 5 => x = c) /\ (op = 11 => x = 0) /\ (op = 6 => y = 1 - c) /\ (op = 10 => y = 0)
      OBVIOUS
    <3> HIDE DEF A, x, y
    <3>3. /\ op \in {5, 11} => A = Terms(FALSE, a, b, x)
          /\ op \in {6, 10} => A = Terms(TRUE, a, b, y)
          /\ op = 9 => A = Terms(TRUE, 0, b, 0)
      BY <3>1 DEF x, y
    <3> QED
      BY <3>2, <3>3
  <2>4. op \in {5, 6, 9, 10, 11}
    BY <1>8
  <2> HIDE DEF a, b, op, u, A, c
  <2>5. /\ Exact(AddFlags(f, a, b, f.C), FALSE, a, b, c)
        /\ Exact(AddFlags(f, a, b, FALSE), FALSE, a, b, 0)
        /\ Exact(SubFlags(f, a, b), TRUE, a, b, 0)
        /\ Exact(AddFlags(f, a, Not(b), f.C), TRUE, a, b, 1 - c)
        /\ Exact(NegFlags(f, b), TRUE, 0, b, 0)
    BY <1>2, <2>2, ExactFlags DEF c
  <2>6. CASE op = 5
    BY <1>3, <2>1, <2>2, <2>3, <2>5, <2>6 DEF A
  <2>7. CASE op = 6
    BY <1>3, <2>1, <2>2, <2>3, <2>5, <2>7 DEF A
  <2>8. CASE op = 9
    BY <1>3, <2>1, <2>2, <2>3, <2>5, <2>8 DEF A
  <2>9. CASE op = 10
    BY <1>3, <2>1, <2>2, <2>3, <2>5, <2>9 DEF A
  <2>10. CASE op = 11
    BY <1>3, <2>1, <2>2, <2>3, <2>5, <2>10 DEF A
  <2> QED
    BY <2>4, <2>6, <2>7, <2>8, <2>9, <2>10
<1>9. \/ Arithmetic(i) = {}
      \/ /\ k \in 24..31
         /\ Arithmetic(i) = Terms(Flag(i, 9), g[Field(i, 3, 3)],
                              IF Flag(i, 10) THEN Field(i, 6, 3) ELSE g[Field(i, 6, 3)], 0)
      \/ /\ k \in 40..63
         /\ Arithmetic(i) = Terms(Field(i, 11, 5) # 6, g[Field(i, 8, 3)], Field(i, 0, 8), 0)
      \/ /\ k = 69
         /\ Arithmetic(i) = Terms(TRUE, g[8 * Field(i, 7, 1) + Field(i, 0, 3)],
                                  g[Field(i, 3, 4)], 0)
      \/ /\ k \in 64..67 /\ Field(i, 6, 4) \in {5, 11}
         /\ Arithmetic(i) = Terms(FALSE, g[Field(i, 0, 3)], g[Field(i, 3, 3)],
                                  IF Field(i, 6, 4) = 5 THEN Carry(f.C) ELSE 0)
      \/ /\ k \in 64..67 /\ Field(i, 6, 4) \in {6, 10}
         /\ Arithmetic(i) = Terms(TRUE, g[Field(i, 0, 3)], g[Field(i, 3, 3)],
                                  IF Field(i, 6, 4) = 6 THEN 1 - Carry(f.C) ELSE 0)
      \/ /\ k \in 64..67 /\ Field(i, 6, 4) = 9
         /\ Arithmetic(i) = Terms(TRUE, 0, g[Field(i, 3, 3)], 0)
  BY ArithmeticIs DEF g, f
<1> DEFINE op == Field(i, 6, 4)
           A  == Arithmetic(i)
           t4 == Terms(FALSE, g[Field(i, 0, 3)], g[Field(i, 3, 3)],
                       IF op = 5 THEN Carry(f.C) ELSE 0)
           t5 == Terms(TRUE, g[Field(i, 0, 3)], g[Field(i, 3, 3)],
                       IF op = 6 THEN 1 - Carry(f.C) ELSE 0)
           t6 == Terms(TRUE, 0, g[Field(i, 3, 3)], 0)
<1>10. ASSUME k \in 64..67, \/ op \in {5, 11} /\ A = t4
                            \/ op \in {6, 10} /\ A = t5
                            \/ op = 9 /\ A = t6
       PROVE  Exact(core'.apsr, o.sub, o.a, o.b, o.k)
  <2>1. op \in {5, 6, 9, 10, 11}
    BY <1>10
  <2>2. (op \in {5, 11} => A = t4) /\ (op \in {6, 10} => A = t5) /\ (op = 9 => A = t6)
    <3> HIDE DEF op, A, t4, t5, t6
    <3> QED
      BY <1>10
  <2> QED
    BY <1>8, <1>10, <2>1, <2>2
<1> HIDE DEF k
<1> QED
  BY <1>4, <1>5, <1>6, <1>7, <1>9, <1>10

\* The flags of every addition, subtraction and comparison that cpu.cpp
\* executes are those of exact arithmetic, for every width of the word, every
\* opcode and every state in which it is executed.
THEOREM FlagsCorrect == MachineSpec => FlagsAreExact
<1>1. LoadInv /\ MachineInv /\ [MachineNext]_simVars => LoadInv' /\ MachineInv'
  BY LoadNext, MachineNextTypes
<1>2. ASSUME LoadInv, MachineInv, [MachineNext]_simVars, Executed
      PROVE  \A o \in Arithmetic(Opcode) :
               /\ ~o.sub => ExactSum(core'.apsr, o.a, o.b, o.k)
               /\ o.sub  => ExactDifference(core'.apsr, o.a, o.b, o.k)
               /\ o.sub /\ o.k = 0 => MeansComparison(core'.apsr, o.a, o.b)
  <2>1. core \in Machines
    BY <1>2 DEF MachineInv
  <2>2. PICK i \in Halfwords : Ran(i)
    BY <1>2, MachineNextTypes
  <2>3. Opcode = i
    BY <2>2 DEF Ran, Opcode
  <2>4. \A o \in Arithmetic(i) : Exact(core'.apsr, o.sub, o.a, o.b, o.k)
    BY <2>1, <2>2, FlagsStep
  <2> QED
    BY <2>3, <2>4 DEF Exact
<1> QED
  BY <1>1, <1>2, LoadInit, MachineStart, PTL DEF MachineSpec, FlagsAreExact

(***************************************************************************)
(* Calls.  BL computes its target in two halves and by two sign            *)
(* extensions; it must be the one that the disassembler computes at once,  *)
(* and the link register must lead behind the second half.                 *)
(***************************************************************************)

\* BX LR.
LEMMA ReturnIs ==
  ASSUME NEW c \in Machines
  PROVE  execute(c, BX_LR) = JumpTo(c, c.regs[LR])
<1> DEFINE i == BX_LR
<1>1. i = 18288 /\ i \in Halfwords
  BY DEF BX_LR, Halfwords
<1>2. /\ Field(i, 8, 8) = 71 /\ Field(i, 8, 2) = 3 /\ Field(i, 7, 1) = 0
      /\ Field(i, 3, 4) = 14
  BY <1>1 DEF Field
<1> HIDE DEF i
<1>3. execute(c, i) = exec_hi_reg_bx(c, i)
  BY <1>1, <1>2, ExecuteIs
<1>4. ~Flag(i, 7)
  BY <1>2 DEF Flag
<1>5. exec_hi_reg_bx(c, i) = JumpTo(c, c.regs[Field(i, 3, 4)])
  BY <1>1, <1>2, <1>4, HiRegFrame
<1> QED
  BY <1>2, <1>3, <1>5 DEF i, LR

\* Clearing and setting bit 0.
LEMMA EvenFacts ==
  ASSUME NEW x \in WordSet, x % 2 = 0
  PROVE  Even(x) = x /\ Even(OddOf(x)) = x /\ OddOf(x) % 2 = 1 /\ OddOf(x) \in WordSet
<1>1. x \in Int
  BY WordFacts
<1>2. Even(x) = x
  BY <1>1 DEF Even
<1> QED
  BY <1>2, RoundingTypes

\* The lower half of a BL, and BLX, leave the address behind them in LR.
LEMMA CallLinks ==
  ASSUME NEW s \in Machines, NEW i \in Halfwords,
         Field(i, 11, 5) = 31 \/ Field(i, 7, 9) = 143
  PROVE  execute(s, i).regs[LR] = OddOf(s.regs[PC])
<1>1. CASE Field(i, 11, 5) = 31
  <2>1. Field(i, 8, 8) \in 248..255
    BY <1>1, TopFields
  <2>2. execute(s, i) = exec_bl_lower(s, i)
    BY <2>1, ExecuteIs
  <2>3. exec_bl_lower(s, i).regs[LR] = OddOf(s.regs[PC])
    BY BlLowerFrame DEF Calls
  <2> QED
    BY <2>2, <2>3
<1>2. CASE Field(i, 7, 9) = 143
  <2>1. i \in Int /\ 0 <= i /\ i <= 65535
    BY DEF Halfwords
  <2>2. (i \div 128) % 512 = 143
    BY <1>2 DEF Field
  <2>3. i \div 128 = 143
    BY <2>1, <2>2
  <2>4. i \div 256 = 71 /\ (i \div 128) % 2 = 1
    BY <2>1, <2>3
  <2>5. Field(i, 8, 8) = 71 /\ Field(i, 7, 1) = 1 /\ Field(i, 8, 2) = 3
    BY <2>4 DEF Field
  <2>6. Flag(i, 7)
    BY <2>5 DEF Flag
  <2>7. execute(s, i) = exec_hi_reg_bx(s, i)
    BY <2>5, ExecuteIs
  <2>8. Calls(exec_hi_reg_bx(s, i), s, s.regs[Field(i, 3, 4)])
    BY <2>5, <2>6, HiRegFrame
  <2>9. exec_hi_reg_bx(s, i).regs[LR] = OddOf(s.regs[PC])
    BY <2>8 DEF Calls
  <2> QED
    BY <2>7, <2>9
<1> QED
  BY <1>1, <1>2

\* The second half of a BL at p comes to the target that its two halves encode.
Joined(p, h, l) ==
  Even(Wrap(Wrap(p + 4 + 4096 * Sext(h, 11)) + 2 * l))
    = Wrap(p + 4 + 2 * Sext(2048 * h + l, 22))

Halves == 0..2047
IsEven(v) == v % 2 = 0

\* The two halves of a BL add up.
LEMMA HalvesGo ==
  ASSUME NEW p \in WordSet, IsEven(p), NEW h \in Halves, NEW l \in Halves
  PROVE  Joined(p, h, l)
<1>a. h \in 0..2047 /\ l \in 0..2047 /\ p % 2 = 0
  BY DEF Halves, IsEven
<1> DEFINE e == Sext(h, 11)
           y == p + 4 + 4096 * e
           k == 2048 * h + l
           f == Sext(k, 22)
           z == p + 4 + 2 * f
<1>0. k \in Int /\ k = 2048 * h + l
  BY <1>a
<1> HIDE DEF k
<1>1. e \in Int /\ f \in Int /\ 2 * f = 4096 * e + 2 * l
  <2>1. e = IF h >= 1024 THEN h - 2048 ELSE h
    BY <1>a DEF Sext
  <2>2. f = IF k >= 2097152 THEN k - 4194304 ELSE k
    BY <1>0 DEF Sext
  <2> HIDE DEF e, f
  <2> QED
    BY <1>a, <1>0, <2>1, <2>2
<1>2. p \in Int
  BY WordFacts
<1> HIDE DEF e, f
<1>3. y \in Int /\ z \in Int /\ 2 * l \in Int /\ z = y + 2 * l
  BY <1>a, <1>1, <1>2
<1>4. Wrap(Wrap(y) + 2 * l) = Wrap(z)
  BY <1>3, WrapAdds
<1>5. Wrap(z) \in WordSet /\ Wrap(z) % 2 = z % 2
  <2> HIDE DEF z
  <2> QED
    BY <1>3, WrapAdds
<1>7. z % 2 = 0
  <2>1. z = p + 2 * (2 + 2048 * e + l)
    BY <1>a, <1>1, <1>2
  <2> DEFINE w == 2 + 2048 * e + l
  <2>2. w \in Int
    BY <1>a, <1>1
  <2> HIDE DEF w, z
  <2>3. z = p + 2 * w
    BY <2>1 DEF w
  <2> QED
    BY <1>a, <1>2, <2>2, <2>3
<1> HIDE DEF z
<1> DEFINE w == Wrap(z)
<1>8. w \in WordSet /\ w % 2 = 0
  BY <1>5, <1>7
<1> HIDE DEF w
<1>9. Even(w) = w
  BY <1>8, EvenFacts
<1>10. Even(Wrap(Wrap(y) + 2 * l)) = Wrap(z)
  BY <1>4, <1>9 DEF w
<1> QED
  BY <1>10 DEF e, z, f, k, Joined

\* A call comes back, and goes where its halves say.
LEMMA CallStep ==
  ASSUME MachineInv, NEW i \in Halfwords, Ran(i), core.regs[PC] % 2 = 0
  PROVE  LET upper == printed[2].instr
             lower == Opcode
             far   == Sext(2048 * Field(upper, 0, 11) + Field(lower, 0, 11), 22)
             back  == execute(core', BX_LR)
         IN  /\ (Field(lower, 11, 5) = 31 \/ Field(lower, 7, 9) = 143) /\ ~core'.halted =>
                  back.regs[PC] = Operand[PC] /\ ~back.halted
             /\ /\ Field(upper, 11, 5) = 30 /\ Field(lower, 11, 5) = 31
                /\ core.regs[PC] = Wrap(printed[2].pc + 2)
                => core'.regs[PC] = Wrap(printed[2].pc + 4 + 2 * far)
<1> DEFINE s == Fetched(core)
           t == execute(s, i)
           x == s.regs[PC]
           a == core.regs[PC]
<1>1. Opcode = i
  BY DEF Ran, Opcode
<1>2. core \in Machines
  BY DEF MachineInv
<1>3. core' \in Machines /\ core'.regs = t.regs
  BY DEF Ran
<1>4. s \in Machines /\ SameButRegs(s, core) /\ s.regs = Operand /\ x = Wrap(a + 2)
  BY <1>2, FetchedFacts DEF Operand
<1>5. a \in WordSet /\ x \in WordSet /\ x % 2 = 0
  <2>1. a \in WordSet
    BY <1>2, MachineFields DEF PC
  <2>2. a \in Int
    BY <2>1, WordFacts
  <2> HIDE DEF a, s
  <2>3. a + 2 \in Int /\ (a + 2) % 2 = a % 2
    BY <2>2
  <2>4. Wrap(a + 2) \in WordSet /\ Wrap(a + 2) % 2 = a % 2
    BY <2>3, WrapAdds
  <2>5. a % 2 = 0
    BY DEF a
  <2> QED
    BY <1>4, <2>1, <2>4, <2>5
<1>6. ASSUME Field(i, 11, 5) = 31 \/ Field(i, 7, 9) = 143, ~core'.halted
      PROVE  execute(core', BX_LR).regs[PC] = Operand[PC] /\ ~execute(core', BX_LR).halted
  <2> DEFINE c == core'
             v == c.regs[LR]
             b == JumpTo(c, v)
  <2>1. v = OddOf(x)
    BY <1>3, <1>4, <1>6, CallLinks
  <2>2. execute(c, BX_LR) = b
    BY <1>3, ReturnIs
  <2>3. Even(v) = x /\ v % 2 = 1 /\ v \in WordSet
    BY <1>5, <2>1, EvenFacts
  <2>4. c \in Machines /\ ~c.halted
    BY <1>3, <1>6
  <2> HIDE DEF c, v
  <2>5. Arrives(b, c, Even(v)) /\ b.halted = (c.halted \/ v % 2 = 0)
    BY <2>3, <2>4, JumpFrame
  <2> HIDE DEF b
  <2>6. b.regs[PC] = x
    BY <2>3, <2>5 DEF Arrives
  <2>6b. ~b.halted
    <3>1. ~(v % 2 = 0)
      BY <2>3
    <3> QED
      BY <2>4, <2>5, <3>1, Zenon
  <2> QED
    BY <1>4, <2>2, <2>6, <2>6b DEF c
<1>7. ASSUME Field(printed[2].instr, 11, 5) = 30, Field(i, 11, 5) = 31,
             core.regs[PC] = Wrap(printed[2].pc + 2)
      PROVE  core'.regs[PC] =
               Wrap(printed[2].pc + 4
                      + 2 * Sext(2048 * Field(printed[2].instr, 0, 11) + Field(i, 0, 11), 22))
  <2> DEFINE l == printed[2]
             h == Field(l.instr, 0, 11)
             o == Field(i, 0, 11)
  <2>1. l \in TraceLines /\ HalfDone(l, core.bl_offset)
    BY DEF MachineInv
  <2>2. l.instr \in Halfwords /\ l.pc \in WordSet
    BY <2>1 DEF TraceLines
  <2>3. h \in 0..2047 /\ o \in 0..2047
    BY <2>2, FieldTypes
  <2>4. s.bl_offset = Wrap(l.pc + 4 + 4096 * Sext(h, 11))
    <3>1. core.bl_offset = Wrap(l.pc + 4 + 4096 * Sext(h, 11))
      BY <1>7, <2>1 DEF HalfDone
    <3>2. s.bl_offset = core.bl_offset
      BY <1>4 DEF SameButRegs
    <3> QED
      BY <3>1, <3>2
  <2>5. Field(i, 8, 8) \in 248..255
    BY <1>7, TopFields
  <2>6. t = exec_bl_lower(s, i)
    BY <2>5, ExecuteIs
  <2>7. exec_bl_lower(s, i).regs[PC] = Even(Wrap(s.bl_offset + 2 * o))
    BY <1>4, BlLowerFrame DEF Calls
  <2> DEFINE p == l.pc
  <2>8. a % 2 = 0 /\ a = Wrap(p + 2)
    BY <1>7
  <2> HIDE DEF s, t, a, l, h, o, p
  <2>8b. a \in WordSet /\ p \in WordSet
    BY <1>5, <2>2 DEF p
  <2>9. Even(Wrap(Wrap(p + 4 + 4096 * Sext(h, 11)) + 2 * o)) = Wrap(p + 4 + 2 * Sext(2048 * h + o, 22))
    <3>1. p \in Int
      BY <2>8b, WordFacts
    <3>2. p + 2 \in Int
      BY <3>1
    <3>3. Wrap(p + 2) % 2 = (p + 2) % 2
      BY <3>2, WrapAdds
    <3>4. IsEven(p)
      BY <2>8, <3>1, <3>3 DEF IsEven
    <3>5. Joined(p, h, o)
      <4>1. h \in Halves /\ o \in Halves
        BY <2>3 DEF Halves
      <4> QED
        BY <2>8b, <3>4, <4>1, HalvesGo
    <3> QED
      BY <3>5 DEF Joined
  <2>10. core'.regs[PC] = Wrap(p + 4 + 2 * Sext(2048 * h + o, 22))
    BY <1>3, <2>4, <2>6, <2>7, <2>9 DEF p
  <2> QED
    BY <2>10 DEF p, h, o, l
<1> QED
  BY <1>1, <1>6, <1>7

\* The calls of cpu.cpp come back: BX LR continues behind every BL and BLX, and
\* a BL goes to the 22-bit offset of its halves, which exec_bl_upper leaves in
\* bl_offset_ until the next instruction, for every width of the word and every
\* program.
THEOREM CallsCorrect == MachineSpec => CallsReturn
<1>1. LoadInv /\ MachineInv /\ [MachineNext]_simVars => LoadInv' /\ MachineInv'
  BY LoadNext, MachineNextTypes
<1>2. ASSUME LoadInv, MachineInv, [MachineNext]_simVars, Executed, core.regs[PC] % 2 = 0
      PROVE  LET upper == printed[2].instr
                 lower == Opcode
                 far   == Sext(2048 * Field(upper, 0, 11) + Field(lower, 0, 11), 22)
                 back  == execute(core', BX_LR)
             IN  /\ (Field(lower, 11, 5) = 31 \/ Field(lower, 7, 9) = 143) /\ ~core'.halted =>
                      back.regs[PC] = Operand[PC] /\ ~back.halted
                 /\ /\ Field(upper, 11, 5) = 30 /\ Field(lower, 11, 5) = 31
                    /\ core.regs[PC] = Wrap(printed[2].pc + 2)
                    => core'.regs[PC] = Wrap(printed[2].pc + 4 + 2 * far)
  <2>1. PICK i \in Halfwords : Ran(i)
    BY <1>2, MachineNextTypes
  <2> QED
    BY <1>2, <2>1, CallStep
<1> QED
  BY <1>1, <1>2, LoadInit, MachineStart, PTL DEF MachineSpec, CallsReturn

(***************************************************************************)
(* The stack.  A PUSH that has not faulted leaves every register of its    *)
(* list in a slot of its own below the old stack pointer, and the slots of *)
(* later registers do not overlap with it (Grows, Framed).  The POP of the *)
(* same list meets the slots in the opposite order, and each Pop restores  *)
(* one register and gives the stack pointer of before that Push (Back).    *)
(***************************************************************************)

\* The digits of a word.
LEMMA NestedDiv ==
  ASSUME NEW v \in Nat, NEW c \in Nat \ {0}, NEW d \in Nat \ {0}
  PROVE  v \div (d * c) = (v \div d) \div c
<1> DEFINE p == v \div d
           q == v % d
           g == p \div c
           h == p % c
<1>1. p \in Nat /\ q \in 0..(d - 1) /\ v = d * p + q
  BY DivMod
<1> HIDE DEF p, q
<1>2. g \in Nat /\ h \in 0..(c - 1) /\ p = c * g + h
  BY <1>1, DivMod
<1> HIDE DEF g, h
<1> DEFINE r == d * h + q
           e == d * c
<1>3. e \in Nat \ {0}
  <2>1. d * c >= 1
    OBVIOUS
  <2> QED
    BY <2>1
<1>4. r \in 0..(e - 1)
  <2>1. h <= c - 1
    BY <1>2
  <2>2. d * h <= d * (c - 1)
    BY <1>2, <2>1
  <2>3. d * (c - 1) = d * c - d
    OBVIOUS
  <2>4. d * h \in Nat
    BY <1>2
  <2> QED
    BY <1>1, <2>2, <2>3, <2>4
<1>5. v = e * g + r
  <2>1. d * p = d * (c * g) + d * h
    BY <1>1, <1>2
  <2>2. d * (c * g) = (d * c) * g
    BY <1>2
  <2> QED
    BY <1>1, <1>2, <2>1, <2>2
<1> HIDE DEF r, e
<1>6. v \div e = g
  BY <1>2, <1>3, <1>4, <1>5, Unique
<1> QED
  BY <1>6 DEF e, g, p

\* Written and read back.
LEMMA DigitsJoin ==
  ASSUME NEW v \in WordSet
  PROVE  ((v \div 1) % CELL) + CELL * (((v \div CELL) % CELL)
           + CELL * (((v \div (CELL * CELL)) % CELL)
           + CELL * ((v \div (CELL * CELL * CELL)) % CELL))) = v
<1> DEFINE C == CELL
<1>1. C \in Nat \ {0} /\ v \in Nat /\ v < C * C * C * C
  BY MemoryAssumption, CpuAssumption, WordFacts
<1> HIDE DEF C
<1>2. C * C \in Nat \ {0}
  BY <1>1
<1> DEFINE D == C * C
           E == D * C
<1>3. D \in Nat \ {0} /\ D = C * C
  BY <1>2
<1> HIDE DEF D
<1>4. E \in Nat \ {0}
  <2>1. D * C >= 1
    BY <1>1, <1>3
  <2> QED
    BY <1>1, <1>3, <2>1
<1> DEFINE x == v \div C
           y == v \div D
           z == v \div E
<1>5. x \in Nat /\ v = C * x + (v % C)
  BY <1>1, DivMod
<1>6. y = x \div C
  BY <1>1, <1>3, NestedDiv
<1>7. z = y \div C
  BY <1>1, <1>3, NestedDiv
<1>8. z \in Nat /\ E * z <= v
  <2> HIDE DEF E
  <2>1. z \in Nat /\ v % E \in 0..(E - 1) /\ v = E * z + (v % E)
    BY <1>1, <1>4, DivMod
  <2>2. E * z \in Int
    BY <1>4, <2>1
  <2> HIDE DEF z
  <2> QED
    BY <1>1, <1>4, <2>1, <2>2
<1>9. v < E * C
  BY <1>1, <1>3
<1> HIDE DEF x
<1>10. y \in Nat /\ x = C * y + (x % C)
  BY <1>1, <1>5, <1>6, DivMod
<1> HIDE DEF y
<1>11. y = C * z + (y % C)
  BY <1>1, <1>7, <1>10, DivMod
<1>12. z < C
  <2> HIDE DEF E, z
  <2>1. ASSUME z >= C PROVE FALSE
    <3>1. E * C <= E * z
      BY <1>1, <1>4, <1>8, <2>1
    <3> QED
      BY <1>1, <1>4, <1>8, <1>9, <3>1
  <2> QED
    BY <1>1, <1>8, <2>1
<1>13. z % C = z /\ v \div 1 = v
  BY <1>1, <1>8, <1>12
<1>14. v = (v % C) + C * ((x % C) + C * ((y % C) + C * z))
  <2> DEFINE a == v % C
             b == x % C
             d == y % C
  <2>1. a \in Nat /\ b \in Nat /\ d \in Nat
    BY <1>1, <1>5, <1>10, DivMod
  <2> HIDE DEF a, b, d, z
  <2>2. C * x \in Int /\ C * y \in Int /\ C * z \in Int
    BY <1>1, <1>5, <1>8, <1>10
  <2>3. v = a + C * x
    BY <1>5, <2>1, <2>2 DEF a
  <2>4. x = b + C * y
    BY <1>10, <2>1, <2>2 DEF b
  <2>5. y = d + C * z
    BY <1>11, <2>1, <2>2 DEF d
  <2>6. v = a + C * (b + C * (d + C * z))
    BY <2>3, <2>4, <2>5, Zenon
  <2> QED
    BY <2>6 DEF a, b, d
<1>15. ((v \div 1) % C) + C * ((x % C) + C * ((y % C) + C * (z % C))) = v
  BY <1>13, <1>14
<1> QED
  BY <1>15, <1>3 DEF x, y, z, E, C

\* Where a word is written.
LEMMA WrittenCells ==
  ASSUME NEW m \in Memories, NEW addr \in WordSet, Accessible(addr, 4), NEW val
  PROVE  LET c == translate(addr)
             w == Write(m, addr, 4, val)
         IN  /\ c \in Nat
             /\ \A k \in Index : ~(c <= k /\ k < c + 4) => w[k] = m[k]
             /\ \A k \in 0..3 : w[c + k] = (val \div Weight[k + 1]) % CELL
<1> DEFINE c == translate(addr)
           w == Write(m, addr, 4, val)
           bytes == [k \in 1..4 |-> (val \div Weight[k]) % CELL]
<1>1. c \in Nat /\ \A k \in 0..3 : c + k \in Index
  BY AccessFacts
<1>2. Len(bytes) = 4 /\ \A k \in 1..4 : bytes[k] = (val \div Weight[k]) % CELL
  OBVIOUS
<1>3. w = Loaded(m, addr, bytes)
  BY DEF Write
<1> HIDE DEF bytes, w
<1>4. w = [k \in Index |-> IF k >= c /\ k < c + 4 THEN bytes[k - c + 1] ELSE m[k]]
  BY <1>2, <1>3 DEF Loaded
<1> HIDE DEF c
<1>5. \A k \in Index : k \in Int
  BY MemoryAssumption DEF Index
<1>6. \A k \in Index : ~(c <= k /\ k < c + 4) => w[k] = m[k]
  BY <1>1, <1>4, <1>5
<1>7. ASSUME NEW k \in 0..3 PROVE w[c + k] = (val \div Weight[k + 1]) % CELL
  <2> DEFINE q == c + k
  <2>1. q \in Index /\ q >= c /\ q < c + 4 /\ q - c + 1 = k + 1 /\ k + 1 \in 1..4
    BY <1>1
  <2>2. w[q] = bytes[q - c + 1]
    <3> HIDE DEF q
    <3> QED
      BY <1>4, <2>1
  <2>3. w[q] = bytes[k + 1]
    BY <2>1, <2>2
  <2> QED
    BY <1>2, <2>1, <2>3
<1> QED
  BY <1>1, <1>6, <1>7 DEF c, w

\* A word is read as it was written, and the ones above it as before.
LEMMA ReadWritten ==
  ASSUME NEW m \in Memories, NEW addr \in WordSet, Accessible(addr, 4), NEW val \in WordSet
  PROVE  /\ Read(Write(m, addr, 4, val), addr, 4) = val
         /\ \A a \in WordSet : Accessible(a, 4) /\ translate(addr) + 4 <= translate(a) =>
              Read(Write(m, addr, 4, val), a, 4) = Read(m, a, 4)
<1> DEFINE c == translate(addr)
           w == Write(m, addr, 4, val)
<1>1. /\ c \in Nat
      /\ \A k \in Index : ~(c <= k /\ k < c + 4) => w[k] = m[k]
      /\ \A k \in 0..3 : w[c + k] = (val \div Weight[k + 1]) % CELL
  BY WrittenCells
<1>2. Weight[1] = 1 /\ Weight[2] = CELL /\ Weight[3] = CELL * CELL /\ Weight[4] = CELL * CELL * CELL
  BY DEF Weight
<1> HIDE DEF w
<1>3. \A a : Read(w, a, 4) = w[translate(a) + 0] + CELL * (w[translate(a) + 1]
                + CELL * (w[translate(a) + 2] + CELL * w[translate(a) + 3]))
  BY DEF Read
<1>4. \A a : Read(m, a, 4) = m[translate(a) + 0] + CELL * (m[translate(a) + 1]
                + CELL * (m[translate(a) + 2] + CELL * m[translate(a) + 3]))
  BY DEF Read
<1>5. Read(w, addr, 4) = val
  <2>1. Read(w, addr, 4) = w[c + 0] + CELL * (w[c + 1] + CELL * (w[c + 2] + CELL * w[c + 3]))
    BY <1>3
  <2> HIDE DEF c
  <2>2. /\ w[c + 0] = (val \div Weight[0 + 1]) % CELL
        /\ w[c + 1] = (val \div Weight[1 + 1]) % CELL
        /\ w[c + 2] = (val \div Weight[2 + 1]) % CELL
        /\ w[c + 3] = (val \div Weight[3 + 1]) % CELL
    BY <1>1
  <2>3. /\ w[c + 0] = (val \div 1) % CELL
        /\ w[c + 1] = (val \div CELL) % CELL
        /\ w[c + 2] = (val \div (CELL * CELL)) % CELL
        /\ w[c + 3] = (val \div (CELL * CELL * CELL)) % CELL
    BY <1>2, <2>2
  <2>4. Read(w, addr, 4) = ((val \div 1) % CELL) + CELL * (((val \div CELL) % CELL)
           + CELL * (((val \div (CELL * CELL)) % CELL)
           + CELL * ((val \div (CELL * CELL * CELL)) % CELL)))
    BY <2>1, <2>3, Zenon
  <2>5. ((val \div 1) % CELL) + CELL * (((val \div CELL) % CELL)
           + CELL * (((val \div (CELL * CELL)) % CELL)
           + CELL * ((val \div (CELL * CELL * CELL)) % CELL))) = val
    BY DigitsJoin, Zenon
  <2> QED
    BY <2>4, <2>5, Zenon
<1>6. ASSUME NEW a \in WordSet, Accessible(a, 4), c + 4 <= translate(a)
      PROVE  Read(w, a, 4) = Read(m, a, 4)
  <2> DEFINE b == translate(a)
  <2>1. b \in Nat /\ \A k \in 0..3 : b + k \in Index
    BY <1>6, AccessFacts
  <2>2. c + 4 <= b
    BY <1>6
  <2> HIDE DEF b, c
  <2>3. \A k \in 0..3 : w[b + k] = m[b + k]
    <3> TAKE k \in 0..3
    <3> DEFINE q == b + k
    <3>1. q \in Index /\ ~(c <= q /\ q < c + 4)
      BY <1>1, <2>1, <2>2
    <3> HIDE DEF q
    <3>2. w[q] = m[q]
      BY <1>1, <3>1
    <3> QED
      BY <3>2 DEF q
  <2>4. w[b + 0] = m[b + 0] /\ w[b + 1] = m[b + 1] /\ w[b + 2] = m[b + 2] /\ w[b + 3] = m[b + 3]
    BY <2>3
  <2>5. /\ Read(w, a, 4) = w[b + 0] + CELL * (w[b + 1] + CELL * (w[b + 2] + CELL * w[b + 3]))
        /\ Read(m, a, 4) = m[b + 0] + CELL * (m[b + 1] + CELL * (m[b + 2] + CELL * m[b + 3]))
    BY <1>3, <1>4 DEF b
  <2> QED
    BY <2>4, <2>5, Zenon
<1> QED
  BY <1>5, <1>6 DEF w, c

\* Two words that lie next to each other lie in one window.
LEMMA NextWord ==
  ASSUME NEW a \in WordSet, Accessible(a, 4), Accessible(Wrap(a - 4), 4)
  PROVE  translate(Wrap(a - 4)) + 4 = translate(a)
<1> DEFINE b == Wrap(a - 4)
           S == Span
<1>1. /\ S \in Nat /\ a \in 0..(S - 1) /\ SRAM_BASE + SRAM_SIZE + 4 <= S /\ 256 <= S
      /\ SIZE \in Nat /\ SRAM_BASE \in Nat /\ SRAM_SIZE \in Nat /\ FLASH_SIZE \in Nat
      /\ SIZE + 4 <= SRAM_BASE
  BY MemoryAssumption, CpuAssumption, WordFacts
<1>2. b = IF a >= 4 THEN a - 4 ELSE a - 4 + S
  <2>1. (a - 4) % S = IF a >= 4 THEN a - 4 ELSE a - 4 + S
    <3> HIDE DEF S
    <3>1. CASE a >= 4
      <4> DEFINE r == a - 4
                 n == 0
      <4>1. r \in 0..(S - 1) /\ n \in Int /\ S \in Nat \ {0} /\ S * n = 0
        BY <1>1, <3>1
      <4> HIDE DEF r, n
      <4>2. (S * n + r) % S = r
        BY <4>1, IntUnique
      <4>3. S * n + r = r
        BY <4>1
      <4>4. r % S = r
        BY <4>2, <4>3, Zenon
      <4>5. (a - 4) % S = a - 4
        BY <4>4 DEF r
      <4> QED
        BY <3>1, <4>5
    <3>2. CASE a < 4
      <4>1. a - 4 = S * (-1) + (a - 4 + S) /\ a - 4 + S \in 0..(S - 1)
        BY <1>1, <3>2
      <4>2. (S * (-1) + (a - 4 + S)) % S = a - 4 + S
        <5> DEFINE r == a - 4 + S
                   n == -1
        <5>1. r \in 0..(S - 1) /\ n \in Int /\ S \in Nat \ {0}
          BY <1>1, <4>1
        <5> HIDE DEF r, n
        <5>2. (S * n + r) % S = r
          BY <5>1, IntUnique
        <5> QED
          BY <5>2 DEF r, n
      <4>3. (a - 4) % S = a - 4 + S
        BY <4>1, <4>2, Zenon
      <4> QED
        BY <1>1, <3>2, <4>3
    <3> QED
      BY <1>1, <3>1, <3>2
  <2> QED
    BY <2>1 DEF Wrap
<1>3. Mapped(a) /\ Mapped(b)
  BY DEF Accessible
<1> HIDE DEF b, S
<1>4. translate(b) + 4 = translate(a)
  BY <1>1, <1>2, <1>3 DEF Mapped, InSram, translate
<1> QED
  BY <1>4 DEF b

\* The registers but the ones that are named are those of s.
KeepsRegs(t, s, S) == \A q \in (0..15) \ S : t.regs[q] = s.regs[q]

\* What a Push that does not fault has done.
Pushed(t, s, r) ==
  LET sp == Wrap(s.regs[SP] - 4)
  IN  /\ s.fault = "none" /\ t.regs[SP] = sp /\ Accessible(sp, 4)
      /\ t.mem = Write(s.mem, sp, 4, s.regs[r])
      /\ KeepsRegs(t, s, {SP}) /\ t.halted = s.halted

\* A PUSH that does not fault.
LEMMA PushDoes ==
  ASSUME NEW s \in Machines, NEW r \in 0..15, Push(s, r).fault = "none"
  PROVE  Push(s, r) \in Machines /\ Pushed(Push(s, r), s, r)
<1> DEFINE v == Wrap(s.regs[SP] - 4)
           low == SetReg(s, SP, v)
           t == Push(s, r)
           m == Write(low.mem, v, 4, s.regs[r])
           u == [low EXCEPT !.mem = m]
<1>0. Moves(t, s)
  BY PushFrame
<1>1. SP \in 0..15 /\ t \in Machines
  BY <1>0, FramesCompose DEF SP
<1>2. v \in WordSet /\ s.regs[r] \in WordSet
  <2>1. s.regs[SP] \in WordSet /\ s.regs[r] \in WordSet
    BY <1>1, MachineFields
  <2>2. s.regs[SP] - 4 \in Int
    BY <2>1, WordFacts
  <2> QED
    BY <2>1, <2>2, WordFacts
<1>3. t = IF s.fault # "none" THEN s ELSE Store(low, low.regs[SP], 4, s.regs[r])
  BY DEF Push, Unless
<1> HIDE DEF v
<1>4. low \in Machines /\ Puts(low, s, SP, v)
  BY <1>1, <1>2, SetRegFacts
<1> HIDE DEF low
<1>5. low.regs[SP] = v /\ low.mem = s.mem /\ low.halted = s.halted /\ low.fault = s.fault
      /\ \A q \in 0..15 : q # SP => low.regs[q] = s.regs[q]
  BY <1>4 DEF Puts, SameButRegs
<1>6. s.fault = "none" /\ t = Store(low, v, 4, s.regs[r])
  <2> HIDE DEF t
  <2>1. t.fault = "none"
    BY DEF t
  <2> QED
    BY <1>3, <1>5, <2>1
<1>7. Accessible(v, 4) /\ t = u
  <2>1. ASSUME ~Accessible(v, 4) PROVE FALSE
    <3>1. t = Fault(low, "BusFault")
      BY <1>6, <2>1 DEF Store
    <3>2. Throws(Fault(low, "BusFault"), low, "BusFault")
      BY <1>4, UpdateFacts DEF Faults
    <3>3. Throws(t, low, "BusFault")
      BY <3>1, <3>2
    <3> HIDE DEF t
    <3>4. t.fault = "BusFault"
      BY <3>3 DEF Throws
    <3> QED
      BY <3>4 DEF t
  <2> QED
    BY <1>6, <2>1 DEF Store
<1>8. m \in Memories
  BY <1>2, <1>4, <1>7, WriteType, MachineFields
<1> HIDE DEF m
<1>9. Fills(u, low, m)
  BY <1>4, <1>8, UpdateFacts
<1> HIDE DEF u
<1>10. u.mem = m /\ u.regs = low.regs /\ u.halted = low.halted
  BY <1>9 DEF Fills
<1>11. m = Write(s.mem, v, 4, s.regs[r])
  BY <1>5 DEF m
<1>12. KeepsRegs(u, s, {SP})
  BY <1>5, <1>10 DEF KeepsRegs
<1>13. u.regs[SP] = v /\ u.halted = s.halted
  BY <1>5, <1>10
<1>14. Pushed(u, s, r)
  BY <1>6, <1>7, <1>10, <1>11, <1>12, <1>13, Zenon DEF Pushed, v
<1> QED
  BY <1>1, <1>7, <1>14 DEF t

\* What a Pop that finds its word has done.
Popped(t, s, r) ==
  /\ t \in Machines /\ t.fault = "none" /\ t.mem = s.mem /\ t.halted = s.halted
  /\ t.regs[SP] = Wrap(s.regs[SP] + 4) /\ t.regs[r] = Read(s.mem, s.regs[SP], 4)
  /\ KeepsRegs(t, s, {SP, r})

\* A POP from an accessible address.
LEMMA PopDoes ==
  ASSUME NEW s \in Machines, NEW r \in (0..15) \ {SP}, s.fault = "none",
         Accessible(s.regs[SP], 4)
  PROVE  Popped(Pop(s, r), s, r)
<1> DEFINE sp == s.regs[SP]
           v == Read(s.mem, sp, 4)
           w == Wrap(sp + 4)
           got == SetReg(s, r, v)
           up == SetReg(got, SP, w)
<1>1. SP \in 0..15 /\ r \in 0..15 /\ r # SP
  BY DEF SP
<1>2. sp \in WordSet /\ w \in WordSet
  <2>1. sp \in WordSet
    BY <1>1, MachineFields
  <2>2. sp + 4 \in Int
    BY <2>1, WordFacts
  <2> QED
    BY <2>1, <2>2, WordFacts
<1>3. v \in WordSet
  <2> HIDE DEF sp
  <2> QED
    BY <1>2, ReadType, MachineFields DEF sp
<1>4. Load(s, r, sp, 4) = got
  BY DEF Load
<1> HIDE DEF v
<1>5. got \in Machines /\ Puts(got, s, r, v)
  BY <1>1, <1>3, SetRegFacts
<1> HIDE DEF got
<1>6. Pop(s, r) = Unless(s, Unless(got, up))
  BY <1>4, Zenon DEF Pop
<1> HIDE DEF w
<1>7. up \in Machines /\ Puts(up, got, SP, w)
  BY <1>1, <1>2, <1>5, SetRegFacts
<1> HIDE DEF up
<1>8. /\ got.mem = s.mem /\ got.halted = s.halted /\ got.fault = s.fault /\ got.regs[r] = v
      /\ \A q \in 0..15 : q # r => got.regs[q] = s.regs[q]
  BY <1>5 DEF Puts, SameButRegs
<1>9. /\ up.mem = got.mem /\ up.halted = got.halted /\ up.fault = got.fault /\ up.regs[SP] = w
      /\ \A q \in 0..15 : q # SP => up.regs[q] = got.regs[q]
  BY <1>7 DEF Puts, SameButRegs
<1>10. Pop(s, r) = up
  BY <1>6, <1>8 DEF Unless
<1>11. /\ up.mem = s.mem /\ up.halted = s.halted /\ up.fault = "none" /\ up.regs[SP] = w
       /\ up.regs[r] = v
  BY <1>1, <1>8, <1>9
<1>12. KeepsRegs(up, s, {SP, r})
  BY <1>8, <1>9 DEF KeepsRegs
<1>13. Popped(up, s, r)
  BY <1>7, <1>11, <1>12, Zenon DEF Popped, v, w, sp
<1> QED
  BY <1>10, <1>13

\* The word v is on the stack of t, at a or above it.
Slot(t, a, v) ==
  /\ a \in WordSet /\ Accessible(a, 4) /\ Read(t.mem, a, 4) = v
  /\ Accessible(t.regs[SP], 4) /\ translate(t.regs[SP]) <= translate(a)

\* A PUSH keeps the words above it.
LEMMA PushKeeps ==
  ASSUME NEW s \in Machines, NEW t \in Machines, NEW r \in 0..15, Pushed(t, s, r)
  PROVE  /\ Slot(t, t.regs[SP], s.regs[r])
         /\ \A a, v : Slot(s, a, v) => Slot(t, a, v)
         /\ Wrap(t.regs[SP] + 4) = s.regs[SP]
<1> DEFINE p == s.regs[SP]
           b == Wrap(p - 4)
           x == s.regs[r]
           m == s.mem
<1>1. SP \in 0..15
  BY DEF SP
<1>2. p \in WordSet /\ x \in WordSet /\ m \in Memories
  BY <1>1, MachineFields
<1>3. t.regs[SP] = b /\ Accessible(b, 4) /\ t.mem = Write(m, b, 4, x)
  BY DEF Pushed
<1> HIDE DEF p, x, m
<1>4. p \in Int /\ p - 4 \in Int /\ p = Wrap(p)
  <2>1. p \in Int /\ p \in 0..(Span - 1) /\ Span \in Nat \ {0}
    BY <1>2, WordFacts
  <2>2. p % Span = p
    <3> DEFINE S == Span
               n == 0
    <3>1. p \in 0..(S - 1) /\ n \in Int /\ S \in Nat \ {0} /\ S * n = 0
      BY <2>1
    <3> HIDE DEF S, n
    <3>2. (S * n + p) % S = p
      BY <3>1, IntUnique
    <3>3. S * n + p = p
      BY <2>1, <3>1
    <3>4. p % S = p
      BY <3>2, <3>3, Zenon
    <3> QED
      BY <3>4 DEF S
  <2> QED
    BY <2>1, <2>2 DEF Wrap
<1>5. b \in WordSet /\ Wrap(b + 4) = p
  <2> DEFINE d == p - 4
             f == 4
  <2>1. d \in Int /\ f \in Int /\ d + f = p
    BY <1>4
  <2> HIDE DEF d, f
  <2>2. Wrap(d) \in WordSet /\ Wrap(Wrap(d) + f) = Wrap(d + f)
    BY <2>1, WrapAdds
  <2>3. Wrap(d) \in WordSet /\ Wrap(Wrap(d) + f) = Wrap(p)
    BY <2>1, <2>2, Zenon
  <2> QED
    BY <1>4, <2>3, Zenon DEF d, f
<1>6. b \in WordSet /\ translate(b) \in Nat
  BY <1>3, <1>5, AccessFacts
<1>7. Slot(t, b, x)
  <2> HIDE DEF b
  <2>1. Read(Write(m, b, 4, x), b, 4) = x
    BY <1>2, <1>3, <1>6, ReadWritten
  <2>2. Read(t.mem, b, 4) = x
    BY <1>3, <2>1
  <2>3. translate(b) <= translate(b)
    BY <1>6
  <2> QED
    BY <1>3, <1>6, <2>2, <2>3, Zenon DEF Slot
<1>8. ASSUME NEW a, NEW v, Slot(s, a, v) PROVE Slot(t, a, v)
  <2>1. /\ a \in WordSet /\ Accessible(a, 4) /\ Read(m, a, 4) = v
        /\ Accessible(p, 4) /\ translate(p) <= translate(a)
    BY <1>8 DEF Slot, m, p
  <2>2. translate(b) + 4 = translate(p)
    BY <1>2, <1>3, <2>1, NextWord
  <2>3. translate(a) \in Nat /\ translate(p) \in Nat
    BY <1>2, <2>1, AccessFacts
  <2> HIDE DEF b
  <2>4. translate(b) + 4 <= translate(a) /\ translate(b) <= translate(a)
    BY <1>6, <2>1, <2>2, <2>3
  <2>5. Read(Write(m, b, 4, x), a, 4) = Read(m, a, 4)
    BY <1>2, <1>3, <1>6, <2>1, <2>4, ReadWritten
  <2>6. Read(t.mem, a, 4) = v
    BY <1>3, <2>1, <2>5
  <2> QED
    BY <1>3, <2>1, <2>4, <2>6, Zenon DEF Slot
<1> QED
  BY <1>3, <1>5, <1>7, <1>8 DEF x, p

\* The stack of t has grown from that of s, if t has not faulted.
Grows(t, s) ==
  /\ t \in Machines
  /\ t.fault = "none" =>
       /\ s.fault = "none" /\ t.halted = s.halted /\ KeepsRegs(t, s, {SP})
       /\ \A a, v : Slot(s, a, v) => Slot(t, a, v)

\* A stack that has grown twice has grown.
LEMMA GrowsOn ==
  ASSUME NEW s \in Machines
  PROVE  /\ Grows(s, s)
         /\ \A t, u : Grows(t, s) /\ Grows(u, t) => Grows(u, s)
BY Zenon DEF Grows, KeepsRegs

\* The registers that a PUSH may save.
Saved == (0..7) \cup {LR}

\* A PUSH lets the stack grow.
LEMMA PushGrows ==
  ASSUME NEW s \in Machines, NEW i, NEW r \in Saved
  PROVE  /\ Grows(Push(s, r), s) /\ Grows(PushOne(s, i, r), s)
         /\ Push(s, r) \in Machines /\ PushOne(s, i, r) \in Machines
<1> DEFINE t == Push(s, r)
<1>1. r \in 0..15
  BY DEF Saved, LR
<1>2. t \in Machines
  BY <1>1, PushFrame, FramesCompose
<1>3. ASSUME t.fault = "none" PROVE Pushed(t, s, r)
  BY <1>1, <1>3, PushDoes
<1> HIDE DEF t
<1>4. ASSUME t.fault = "none"
      PROVE  /\ s.fault = "none" /\ t.halted = s.halted /\ KeepsRegs(t, s, {SP})
             /\ \A a, v : Slot(s, a, v) => Slot(t, a, v)
  <2>1. Pushed(t, s, r)
    BY <1>3, <1>4
  <2>2. \A a, v : Slot(s, a, v) => Slot(t, a, v)
    BY <1>1, <1>2, <2>1, PushKeeps
  <2> QED
    BY <2>1, <2>2 DEF Pushed
<1>5. Grows(t, s)
  BY <1>2, <1>4, Zenon DEF Grows
<1>6. PushOne(s, i, r) = t \/ PushOne(s, i, r) = s
  BY DEF PushOne, t
<1> QED
  BY <1>2, <1>5, <1>6, GrowsOn DEF t

\* A word v of a list, pushed from the stack pointer p to b if yes, as z holds it.
Framed(z, b, p, yes, v) ==
  IF yes THEN Accessible(b, 4) /\ Read(z.mem, b, 4) = v /\ p = Wrap(b + 4) ELSE b = p

\* A PUSH leaves its word on the stack, below which later words go.
LEMMA PushFramed ==
  ASSUME NEW s \in Machines, NEW i, NEW r \in Saved, NEW z, Grows(z, PushOne(s, i, r)),
         z.fault = "none"
  PROVE  Framed(z, PushOne(s, i, r).regs[SP], s.regs[SP], Flag(i, r), s.regs[r])
<1> DEFINE t == PushOne(s, i, r)
<1>1. r \in 0..15 /\ t \in Machines
  BY PushGrows DEF Saved, LR
<1>2. CASE ~Flag(i, r)
  <2>1. t = s
    BY <1>2 DEF PushOne
  <2> QED
    BY <1>2, <2>1 DEF Framed
<1>3. CASE Flag(i, r)
  <2>1. t = Push(s, r)
    BY <1>3 DEF PushOne
  <2> HIDE DEF t
  <2>2. Grows(z, t)
    BY DEF t
  <2>3. t.fault = "none" \/ t.fault # "none"
    OBVIOUS
  <2>4. t.fault = "none" /\ \A a, v : Slot(t, a, v) => Slot(z, a, v)
    BY <2>2, Zenon DEF Grows
  <2>5. Pushed(t, s, r)
    BY <1>1, <2>1, <2>4, PushDoes
  <2>6. Slot(t, t.regs[SP], s.regs[r]) /\ Wrap(t.regs[SP] + 4) = s.regs[SP]
    BY <1>1, <2>5, PushKeeps
  <2>7. Slot(z, t.regs[SP], s.regs[r])
    BY <2>4, <2>6, Zenon
  <2>8. Framed(z, t.regs[SP], s.regs[SP], Flag(i, r), s.regs[r])
    BY <1>3, <2>6, <2>7, Zenon DEF Framed, Slot
  <2> QED
    BY <2>8 DEF t
<1> QED
  BY <1>2, <1>3

\* x has come back to the stack pointer p, with the registers of s.
Back(x, z, s, p) ==
  /\ x \in Machines /\ x.fault = "none" /\ x.mem = z.mem /\ x.halted = z.halted
  /\ x.regs[SP] = p /\ KeepsRegs(x, s, {SP, PC})

\* A POP takes it back.
LEMMA PopBack ==
  ASSUME NEW s, NEW z, NEW b, NEW p, NEW x, Back(x, z, s, b), NEW i, NEW r \in 0..7,
         Framed(z, b, p, Flag(i, r), s.regs[r])
  PROVE  Back(PopOne(x, i, r), z, s, p)
<1>1. CASE ~Flag(i, r)
  <2>1. PopOne(x, i, r) = x /\ b = p
    BY <1>1 DEF PopOne, Framed
  <2> QED
    BY <2>1
<1>2. CASE Flag(i, r)
  <2> DEFINE t == Pop(x, r)
  <2>1. PopOne(x, i, r) = t
    BY <1>2 DEF PopOne
  <2>2. /\ x \in Machines /\ x.fault = "none" /\ x.mem = z.mem /\ x.halted = z.halted
        /\ x.regs[SP] = b /\ KeepsRegs(x, s, {SP, PC})
    BY DEF Back
  <2>3. Accessible(b, 4) /\ Read(z.mem, b, 4) = s.regs[r] /\ p = Wrap(b + 4)
    BY <1>2 DEF Framed
  <2>4. Accessible(x.regs[SP], 4) /\ r \in (0..15) \ {SP}
    BY <2>2, <2>3 DEF SP
  <2>5. Popped(t, x, r)
    BY <2>2, <2>4, PopDoes
  <2> HIDE DEF t
  <2>6. /\ t \in Machines /\ t.fault = "none" /\ t.mem = x.mem /\ t.halted = x.halted
        /\ t.regs[SP] = Wrap(x.regs[SP] + 4) /\ t.regs[r] = Read(x.mem, x.regs[SP], 4)
        /\ KeepsRegs(t, x, {SP, r})
    BY <2>5 DEF Popped
  <2>7. t.regs[SP] = p /\ t.regs[r] = s.regs[r]
    BY <2>2, <2>3, <2>6, Zenon
  <2>8. KeepsRegs(t, s, {SP, PC})
    BY <2>2, <2>6, <2>7 DEF KeepsRegs
  <2>9. Back(t, z, s, p)
    BY <2>2, <2>6, <2>7, <2>8, Zenon DEF Back
  <2> QED
    BY <2>1, <2>9
<1> QED
  BY <1>1, <1>2

\* Opcodes with the same list of registers.
SameList(j, i) == \A r \in 0..8 : Flag(j, r) = Flag(i, r)

\* POP of a list finds what PUSH has left.
LEMMA ListBack ==
  ASSUME NEW s \in Machines, NEW i, NEW z, z = PushList(s, i), z.fault = "none",
         NEW j, SameList(j, i)
  PROVE  /\ Grows(z, s)
         /\ \A x : Back(x, z, s, z.regs[SP]) => Back(PopList(x, j), z, s, s.regs[SP])
<1>1. /\ 0 \in Saved /\ 1 \in Saved /\ 2 \in Saved /\ 3 \in Saved /\ 4 \in Saved
      /\ 5 \in Saved /\ 6 \in Saved /\ 7 \in Saved
  BY DEF Saved
<1>2. ASSUME NEW t, Grows(t, s), NEW r \in Saved
      PROVE  Grows(PushOne(t, i, r), t) /\ Grows(PushOne(t, i, r), s)
  <2>1. t \in Machines
    BY <1>2 DEF Grows
  <2> QED
    BY <1>2, <2>1, PushGrows, GrowsOn
<1>3. ASSUME NEW t, Grows(t, s), NEW r \in 0..7, Grows(z, PushOne(t, i, r))
      PROVE  /\ Framed(z, PushOne(t, i, r).regs[SP], t.regs[SP], Flag(j, r), s.regs[r])
             /\ Grows(z, t)
  <2>1. t \in Machines /\ r \in Saved /\ r \in 0..8
    BY <1>3 DEF Grows, Saved
  <2>2. Framed(z, PushOne(t, i, r).regs[SP], t.regs[SP], Flag(i, r), t.regs[r])
    BY <1>3, <2>1, PushFramed
  <2>3. Grows(z, t)
    BY <1>3, <2>1, PushGrows, GrowsOn
  <2>4. t.fault = "none"
    BY <2>3, Zenon DEF Grows
  <2>5. KeepsRegs(t, s, {SP})
    BY <1>3, <2>4, Zenon DEF Grows
  <2>6. t.regs[r] = s.regs[r]
    BY <2>5 DEF KeepsRegs, SP
  <2>7. Flag(j, r) = Flag(i, r)
    BY <2>1, Zenon DEF SameList
  <2> QED
    BY <2>2, <2>3, <2>6, <2>7, Zenon
<1> DEFINE a0 == s
           a1 == PushOne(a0, i, 7)
           a2 == PushOne(a1, i, 6)
           a3 == PushOne(a2, i, 5)
           a4 == PushOne(a3, i, 4)
           a5 == PushOne(a4, i, 3)
           a6 == PushOne(a5, i, 2)
           a7 == PushOne(a6, i, 1)
           a8 == PushOne(a7, i, 0)
<1>4. z = a8
  BY PushListIs
<1>5. Grows(a0, s)
  BY GrowsOn
<1>6. Grows(a1, s)
  <2> HIDE DEF a0
  <2> QED
    BY <1>1, <1>2, <1>5
<1>7. Grows(a2, s)
  <2> HIDE DEF a1
  <2> QED
    BY <1>1, <1>2, <1>6
<1>8. Grows(a3, s)
  <2> HIDE DEF a2
  <2> QED
    BY <1>1, <1>2, <1>7
<1>9. Grows(a4, s)
  <2> HIDE DEF a3
  <2> QED
    BY <1>1, <1>2, <1>8
<1>10. Grows(a5, s)
  <2> HIDE DEF a4
  <2> QED
    BY <1>1, <1>2, <1>9
<1>11. Grows(a6, s)
  <2> HIDE DEF a5
  <2> QED
    BY <1>1, <1>2, <1>10
<1>12. Grows(a7, s)
  <2> HIDE DEF a6
  <2> QED
    BY <1>1, <1>2, <1>11
<1>13. Grows(a8, s)
  <2> HIDE DEF a7
  <2> QED
    BY <1>1, <1>2, <1>12
<1>14. Grows(z, a8)
  <2> HIDE DEF a8
  <2>1. a8 \in Machines
    BY <1>13 DEF Grows
  <2> QED
    BY <1>4, <2>1, GrowsOn
<1>15. /\ Framed(z, a8.regs[SP], a7.regs[SP], Flag(j, 0), s.regs[0])
       /\ Grows(z, a7)
  <2> HIDE DEF a7
  <2>1. 0 \in 0..7
    OBVIOUS
  <2> QED
    BY <1>3, <1>12, <1>14, <2>1
<1>16. /\ Framed(z, a7.regs[SP], a6.regs[SP], Flag(j, 1), s.regs[1])
       /\ Grows(z, a6)
  <2> HIDE DEF a6
  <2>1. 1 \in 0..7
    OBVIOUS
  <2> QED
    BY <1>3, <1>11, <1>15, <2>1
<1>17. /\ Framed(z, a6.regs[SP], a5.regs[SP], Flag(j, 2), s.regs[2])
       /\ Grows(z, a5)
  <2> HIDE DEF a5
  <2>1. 2 \in 0..7
    OBVIOUS
  <2> QED
    BY <1>3, <1>10, <1>16, <2>1
<1>18. /\ Framed(z, a5.regs[SP], a4.regs[SP], Flag(j, 3), s.regs[3])
       /\ Grows(z, a4)
  <2> HIDE DEF a4
  <2>1. 3 \in 0..7
    OBVIOUS
  <2> QED
    BY <1>3, <1>9, <1>17, <2>1
<1>19. /\ Framed(z, a4.regs[SP], a3.regs[SP], Flag(j, 4), s.regs[4])
       /\ Grows(z, a3)
  <2> HIDE DEF a3
  <2>1. 4 \in 0..7
    OBVIOUS
  <2> QED
    BY <1>3, <1>8, <1>18, <2>1
<1>20. /\ Framed(z, a3.regs[SP], a2.regs[SP], Flag(j, 5), s.regs[5])
       /\ Grows(z, a2)
  <2> HIDE DEF a2
  <2>1. 5 \in 0..7
    OBVIOUS
  <2> QED
    BY <1>3, <1>7, <1>19, <2>1
<1>21. /\ Framed(z, a2.regs[SP], a1.regs[SP], Flag(j, 6), s.regs[6])
       /\ Grows(z, a1)
  <2> HIDE DEF a1
  <2>1. 6 \in 0..7
    OBVIOUS
  <2> QED
    BY <1>3, <1>6, <1>20, <2>1
<1>22. /\ Framed(z, a1.regs[SP], a0.regs[SP], Flag(j, 7), s.regs[7])
       /\ Grows(z, a0)
  <2> HIDE DEF a0
  <2>1. 7 \in 0..7
    OBVIOUS
  <2> QED
    BY <1>3, <1>5, <1>21, <2>1
<1> HIDE DEF a0, a1, a2, a3, a4, a5, a6, a7, a8
<1>23. ASSUME NEW x, Back(x, z, s, z.regs[SP]) PROVE Back(PopList(x, j), z, s, s.regs[SP])
  <2> DEFINE x0 == x
             x1 == PopOne(x0, j, 0)
             x2 == PopOne(x1, j, 1)
             x3 == PopOne(x2, j, 2)
             x4 == PopOne(x3, j, 3)
             x5 == PopOne(x4, j, 4)
             x6 == PopOne(x5, j, 5)
             x7 == PopOne(x6, j, 6)
             x8 == PopOne(x7, j, 7)
  <2>1. PopList(x, j) = x8
    BY PopListIs
  <2>2. Back(x0, z, s, a8.regs[SP])
    BY <1>4, <1>23
  <2>3. Back(x1, z, s, a7.regs[SP])
    <3> DEFINE b == a8.regs[SP]
               p == a7.regs[SP]
               r == 0
    <3>1. r \in 0..7 /\ Framed(z, b, p, Flag(j, r), s.regs[r]) /\ Back(x0, z, s, b)
      BY <1>15, <2>2
    <3> HIDE DEF x0, b, p, r
    <3>2. Back(PopOne(x0, j, r), z, s, p)
      BY <3>1, PopBack
    <3> QED
      BY <3>2 DEF p, r
  <2>4. Back(x2, z, s, a6.regs[SP])
    <3> DEFINE b == a7.regs[SP]
               p == a6.regs[SP]
               r == 1
    <3>1. r \in 0..7 /\ Framed(z, b, p, Flag(j, r), s.regs[r]) /\ Back(x1, z, s, b)
      BY <1>16, <2>3
    <3> HIDE DEF x1, b, p, r
    <3>2. Back(PopOne(x1, j, r), z, s, p)
      BY <3>1, PopBack
    <3> QED
      BY <3>2 DEF p, r
  <2>5. Back(x3, z, s, a5.regs[SP])
    <3> DEFINE b == a6.regs[SP]
               p == a5.regs[SP]
               r == 2
    <3>1. r \in 0..7 /\ Framed(z, b, p, Flag(j, r), s.regs[r]) /\ Back(x2, z, s, b)
      BY <1>17, <2>4
    <3> HIDE DEF x2, b, p, r
    <3>2. Back(PopOne(x2, j, r), z, s, p)
      BY <3>1, PopBack
    <3> QED
      BY <3>2 DEF p, r
  <2>6. Back(x4, z, s, a4.regs[SP])
    <3> DEFINE b == a5.regs[SP]
               p == a4.regs[SP]
               r == 3
    <3>1. r \in 0..7 /\ Framed(z, b, p, Flag(j, r), s.regs[r]) /\ Back(x3, z, s, b)
      BY <1>18, <2>5
    <3> HIDE DEF x3, b, p, r
    <3>2. Back(PopOne(x3, j, r), z, s, p)
      BY <3>1, PopBack
    <3> QED
      BY <3>2 DEF p, r
  <2>7. Back(x5, z, s, a3.regs[SP])
    <3> DEFINE b == a4.regs[SP]
               p == a3.regs[SP]
               r == 4
    <3>1. r \in 0..7 /\ Framed(z, b, p, Flag(j, r), s.regs[r]) /\ Back(x4, z, s, b)
      BY <1>19, <2>6
    <3> HIDE DEF x4, b, p, r
    <3>2. Back(PopOne(x4, j, r), z, s, p)
      BY <3>1, PopBack
    <3> QED
      BY <3>2 DEF p, r
  <2>8. Back(x6, z, s, a2.regs[SP])
    <3> DEFINE b == a3.regs[SP]
               p == a2.regs[SP]
               r == 5
    <3>1. r \in 0..7 /\ Framed(z, b, p, Flag(j, r), s.regs[r]) /\ Back(x5, z, s, b)
      BY <1>20, <2>7
    <3> HIDE DEF x5, b, p, r
    <3>2. Back(PopOne(x5, j, r), z, s, p)
      BY <3>1, PopBack
    <3> QED
      BY <3>2 DEF p, r
  <2>9. Back(x7, z, s, a1.regs[SP])
    <3> DEFINE b == a2.regs[SP]
               p == a1.regs[SP]
               r == 6
    <3>1. r \in 0..7 /\ Framed(z, b, p, Flag(j, r), s.regs[r]) /\ Back(x6, z, s, b)
      BY <1>21, <2>8
    <3> HIDE DEF x6, b, p, r
    <3>2. Back(PopOne(x6, j, r), z, s, p)
      BY <3>1, PopBack
    <3> QED
      BY <3>2 DEF p, r
  <2>10. Back(x8, z, s, a0.regs[SP])
    <3> DEFINE b == a1.regs[SP]
               p == a0.regs[SP]
               r == 7
    <3>1. r \in 0..7 /\ Framed(z, b, p, Flag(j, r), s.regs[r]) /\ Back(x7, z, s, b)
      BY <1>22, <2>9
    <3> HIDE DEF x7, b, p, r
    <3>2. Back(PopOne(x7, j, r), z, s, p)
      BY <3>1, PopBack
    <3> QED
      BY <3>2 DEF p, r
  <2>11. a0 = s
    BY DEF a0
  <2> HIDE DEF x8
  <2> QED
    BY <2>1, <2>10, <2>11
<1> QED
  BY <1>22, <1>23 DEF a0

\* What POP must find after a PUSH from s.
Restored(b, s, i) ==
  /\ b.fault = "none" /\ b.regs[SP] = s.regs[SP]
  /\ \A r \in 0..7 : b.regs[r] = s.regs[r]
  /\ Flag(i, 8) => /\ b.regs[PC] = Even(s.regs[LR])
                   /\ b.halted <=> s.regs[LR] % 2 = 0

\* POP of a list after PUSH of the list.
LEMMA StackBack ==
  ASSUME NEW s \in Machines, NEW i, ~Flag(i, 11), ~s.halted,
         NEW z, z = exec_push_pop(s, i), z.fault = "none",
         NEW c \in Machines, c.regs = z.regs, c.mem = z.mem, c.halted = z.halted,
         c.fault = "none",
         NEW j, SameList(j, i), Flag(j, 11)
  PROVE  Restored(exec_push_pop(c, j), s, i)
<1> DEFINE a == IF Flag(i, 8) THEN Push(s, LR) ELSE s
           y == PopList(c, j)
           q == a.regs[SP]
<1>1. z = PushList(a, i)
  BY DEF exec_push_pop
<1>2. LR \in Saved /\ LR \in 0..15
  BY DEF Saved, LR
<1>3. Grows(a, s) /\ a \in Machines
  BY <1>2, PushGrows, GrowsOn
<1> HIDE DEF a
<1>4. /\ Grows(z, a)
      /\ \A x : Back(x, z, a, z.regs[SP]) => Back(PopList(x, j), z, a, q)
  BY <1>1, <1>3, ListBack
<1>5. /\ a.fault = "none" /\ z.halted = a.halted /\ KeepsRegs(z, a, {SP})
      /\ \A d, v : Slot(a, d, v) => Slot(z, d, v)
  BY <1>4, Zenon DEF Grows
<1>6. s.fault = "none" /\ a.halted = s.halted /\ KeepsRegs(a, s, {SP})
  BY <1>3, <1>5, Zenon DEF Grows
<1>7. Back(c, z, a, z.regs[SP])
  <2>1. KeepsRegs(c, a, {SP, PC})
    BY <1>5 DEF KeepsRegs
  <2> QED
    BY <2>1 DEF Back
<1>8. Back(y, z, a, q)
  BY <1>4, <1>7, Zenon
<1>9. exec_push_pop(c, j) = IF Flag(j, 8) THEN PopPC(y) ELSE y
  BY DEF exec_push_pop
<1> HIDE DEF y
<1>10. /\ y \in Machines /\ y.fault = "none" /\ y.mem = z.mem /\ y.halted = z.halted
       /\ y.regs[SP] = q /\ KeepsRegs(y, a, {SP, PC})
  BY <1>8 DEF Back
<1>11. \A r \in 0..7 : y.regs[r] = s.regs[r]
  BY <1>6, <1>10 DEF KeepsRegs, SP, PC
<1>12. ~y.halted
  BY <1>5, <1>6, <1>10
<1>13. Flag(j, 8) = Flag(i, 8)
  BY DEF SameList
<1>14. CASE ~Flag(i, 8)
  <2>1. a = s /\ exec_push_pop(c, j) = y
    BY <1>9, <1>13, <1>14 DEF a
  <2>2. Restored(y, s, i)
    BY <1>10, <1>11, <1>14, <2>1, Zenon DEF Restored, q
  <2> QED
    BY <2>1, <2>2
<1>15. CASE Flag(i, 8)
  <2> DEFINE v == s.regs[LR]
             g == Pop(y, PC)
             b == JumpTo(g, g.regs[PC])
  <2>1. a = Push(s, LR) /\ exec_push_pop(c, j) = PopPC(y)
    BY <1>9, <1>13, <1>15 DEF a
  <2>2. Pushed(a, s, LR)
    BY <1>2, <1>5, <2>1, PushDoes
  <2>3. Slot(a, q, v) /\ Wrap(q + 4) = s.regs[SP]
    BY <1>2, <1>3, <2>2, PushKeeps
  <2>4. Slot(z, q, v)
    BY <1>5, <2>3, Zenon
  <2>5. Accessible(q, 4) /\ Read(z.mem, q, 4) = v
    BY <2>4 DEF Slot
  <2>6. PC \in (0..15) \ {SP} /\ Accessible(y.regs[SP], 4)
    BY <1>10, <2>5 DEF PC, SP
  <2>7. Popped(g, y, PC)
    BY <1>10, <2>6, PopDoes
  <2>8. PopPC(y) = Unless(g, b)
    BY DEF PopPC
  <2> HIDE DEF g, q
  <2>9. /\ g \in Machines /\ g.fault = "none" /\ g.halted = y.halted
        /\ g.regs[SP] = s.regs[SP] /\ g.regs[PC] = v /\ KeepsRegs(g, y, {SP, PC})
    BY <1>10, <2>3, <2>5, <2>7, Zenon DEF Popped
  <2>10. PopPC(y) = b
    BY <2>8, <2>9 DEF Unless
  <2>11. v \in WordSet
    BY <1>2, MachineFields
  <2> HIDE DEF v
  <2>12. b = JumpTo(g, v)
    BY <2>9
  <2>13. /\ Arrives(JumpTo(g, v), g, Even(v))
         /\ JumpTo(g, v).halted = (g.halted \/ v % 2 = 0)
    BY <2>9, <2>11, JumpFrame
  <2> HIDE DEF b
  <2>14. Arrives(b, g, Even(v)) /\ b.halted = (g.halted \/ v % 2 = 0)
    BY <2>12, <2>13
  <2>15. /\ b.regs[PC] = Even(v) /\ b.fault = "none"
         /\ \A r \in 0..15 : r # PC => b.regs[r] = g.regs[r]
    BY <2>9, <2>14 DEF Arrives
  <2>16. b.halted <=> v % 2 = 0
    BY <1>12, <2>9, <2>14, Zenon
  <2>17. b.regs[SP] = s.regs[SP]
    BY <2>9, <2>15 DEF SP, PC
  <2>18. \A r \in 0..7 : b.regs[r] = s.regs[r]
    BY <1>11, <2>9, <2>15 DEF KeepsRegs, SP, PC
  <2>19. Restored(b, s, i)
    BY <2>15, <2>16, <2>17, <2>18, Zenon DEF Restored, v
  <2> QED
    BY <2>1, <2>10, <2>19
<1> QED
  BY <1>14, <1>15

\* The opcode of the POP that belongs to a PUSH.
LEMMA PushOpcodes ==
  ASSUME NEW i \in Halfwords, Field(i, 9, 7) = 90
  PROVE  /\ Field(i, 8, 8) \in 177..189 /\ ~Flag(i, 11)
         /\ i + 2048 \in Halfwords /\ Field(i + 2048, 8, 8) \in 177..189 /\ Flag(i + 2048, 11)
         /\ SameList(i + 2048, i)
<1>1. i \in Int /\ 0 <= i /\ i <= 65535
  BY DEF Halfwords
<1>2. (i \div 512) % 128 = 90
  BY DEF Field
<1>3. i \div 512 = 90
  BY <1>1, <1>2
<1> DEFINE j == i + 2048
<1>4. j \in Int /\ 0 <= j /\ j <= 65535
  BY <1>1, <1>3
<1>5. i \div 2048 = 22 /\ j \div 2048 = 23
  BY <1>1, <1>3
<1>6. i \div 256 \in 180..181 /\ j \div 256 \in 188..189
  BY <1>1, <1>3, SMTT(30)
<1>7. /\ (j \div 1) % 2 = (i \div 1) % 2 /\ (j \div 2) % 2 = (i \div 2) % 2
      /\ (j \div 4) % 2 = (i \div 4) % 2 /\ (j \div 8) % 2 = (i \div 8) % 2
      /\ (j \div 16) % 2 = (i \div 16) % 2 /\ (j \div 32) % 2 = (i \div 32) % 2
      /\ (j \div 64) % 2 = (i \div 64) % 2 /\ (j \div 128) % 2 = (i \div 128) % 2
      /\ (j \div 256) % 2 = (i \div 256) % 2
  BY <1>1, SMTT(30)
<1>13. j \in Halfwords
  <2> DEFINE n == 65535
  <2>0. Halfwords = 0..n
    BY DEF Halfwords
  <2>1. j \in Int /\ n \in Int /\ 0 <= j /\ j <= n
    BY <1>4
  <2> HIDE DEF n, j
  <2>2. j \in 0..n
    BY <2>1
  <2> QED
    BY <2>0, <2>2, Zenon
<1> HIDE DEF j
<1>8. ~Flag(i, 11) /\ Flag(j, 11)
  BY <1>5 DEF Flag, Field
<1>9. Field(i, 8, 8) \in 177..189 /\ Field(j, 8, 8) \in 177..189
  BY <1>6 DEF Field
<1>10. /\ Field(j, 0, 1) = Field(i, 0, 1) /\ Field(j, 1, 1) = Field(i, 1, 1)
       /\ Field(j, 2, 1) = Field(i, 2, 1) /\ Field(j, 3, 1) = Field(i, 3, 1)
       /\ Field(j, 4, 1) = Field(i, 4, 1) /\ Field(j, 5, 1) = Field(i, 5, 1)
       /\ Field(j, 6, 1) = Field(i, 6, 1) /\ Field(j, 7, 1) = Field(i, 7, 1)
       /\ Field(j, 8, 1) = Field(i, 8, 1)
  BY <1>7, SMTT(30) DEF Field
<1>11. ASSUME NEW r \in 0..8 PROVE Field(j, r, 1) = Field(i, r, 1)
  <2>1. \/ r = 0 \/ r = 1 \/ r = 2 \/ r = 3 \/ r = 4 \/ r = 5 \/ r = 6 \/ r = 7 \/ r = 8
    OBVIOUS
  <2> QED
    BY <1>10, <2>1, Zenon
<1>12. SameList(j, i)
  BY <1>11, Zenon DEF SameList, Flag
<1> QED
  BY <1>8, <1>9, <1>12, <1>13 DEF j

\* POP undoes the PUSH that was executed.
LEMMA StackStep ==
  ASSUME MachineInv, NEW i \in Halfwords, Ran(i), Field(i, 9, 7) = 90
  PROVE  Restored(execute(core', i + 2048), core, i)
<1> DEFINE s == Fetched(core)
           z == execute(s, i)
           c == core'
           j == i + 2048
<1>1. core \in Machines
  BY DEF MachineInv
<1>2. s \in Machines /\ SameButRegs(s, core) /\ s.regs = Operand
  BY <1>1, FetchedFacts DEF Operand
<1>3. /\ core.fault = "none" /\ z.fault = "none" /\ ~core.halted /\ c \in Machines
      /\ c.regs = z.regs /\ c.mem = z.mem /\ c.halted = z.halted /\ c.fault = z.fault
  BY DEF Ran
<1>4. /\ Field(i, 8, 8) \in 177..189 /\ ~Flag(i, 11)
      /\ j \in Halfwords /\ Field(j, 8, 8) \in 177..189 /\ Flag(j, 11) /\ SameList(j, i)
  BY PushOpcodes
<1> HIDE DEF j
<1>5. z = exec_push_pop(s, i)
  BY <1>4, ExecuteIs
<1>6. execute(c, j) = exec_push_pop(c, j)
  BY <1>4, ExecuteIs
<1>7. ~s.halted
  BY <1>2, <1>3 DEF SameButRegs
<1> HIDE DEF s, z, c
<1>8. Restored(exec_push_pop(c, j), s, i)
  BY <1>2, <1>3, <1>4, <1>5, <1>7, StackBack
<1>9. \A r \in 0..15 : r # PC => s.regs[r] = core.regs[r]
  <2>1. core.regs \in RegFiles
    BY <1>1, MachineFields
  <2> QED
    BY <1>2, <2>1 DEF Operand, RegFiles
<1>10. /\ s.regs[SP] = core.regs[SP] /\ s.regs[LR] = core.regs[LR]
       /\ \A r \in 0..7 : s.regs[r] = core.regs[r]
  BY <1>9 DEF SP, LR, PC
<1>11. Restored(exec_push_pop(c, j), core, i)
  BY <1>8, <1>10, Zenon DEF Restored
<1> QED
  BY <1>6, <1>11 DEF c, j

\* POP undoes PUSH, whatever the list, the stack pointer and the memory: every
\* saved register, the stack pointer and the return address come back, in each
\* of the two windows through which memory.cpp shows the same cells.
THEOREM StackCorrect == MachineSpec => StackRoundTrip
<1>1. LoadInv /\ MachineInv /\ [MachineNext]_simVars => LoadInv' /\ MachineInv'
  BY LoadNext, MachineNextTypes
<1>2. ASSUME LoadInv, MachineInv, [MachineNext]_simVars, Executed, Field(Opcode, 9, 7) = 90
      PROVE  LET back  == execute(core', Opcode + 2048)
                 saved == {r \in 0..7 : Flag(Opcode, r)} \cup {SP}
             IN  /\ back.fault = "none"
                 /\ \A r \in saved : back.regs[r] = core.regs[r]
                 /\ Flag(Opcode, 8) =>
                      /\ back.regs[PC] = Even(core.regs[LR])
                      /\ back.halted <=> core.regs[LR] % 2 = 0
  <2>1. PICK i \in Halfwords : Ran(i)
    BY <1>2, MachineNextTypes
  <2>2. Opcode = i
    BY <2>1 DEF Ran, Opcode
  <2> DEFINE b == execute(core', Opcode + 2048)
  <2>3. Restored(b, core, Opcode)
    BY <1>2, <2>1, <2>2, StackStep
  <2> HIDE DEF b
  <2>4. /\ b.fault = "none" /\ b.regs[SP] = core.regs[SP]
        /\ \A r \in 0..7 : b.regs[r] = core.regs[r]
        /\ Flag(Opcode, 8) => /\ b.regs[PC] = Even(core.regs[LR])
                              /\ b.halted <=> core.regs[LR] % 2 = 0
    BY <2>3 DEF Restored
  <2>5. \A r \in {q \in 0..7 : Flag(Opcode, q)} \cup {SP} : b.regs[r] = core.regs[r]
    BY <2>4, Zenon
  <2> QED
    BY <2>4, <2>5 DEF b
<1> QED
  BY <1>1, <1>2, LoadInit, MachineStart, PTL DEF MachineSpec, StackRoundTrip

(***************************************************************************)
(* What the trace shows of an instruction is true of it.  PUSH and POP     *)
(* move the stack pointer by the length of their list.                     *)
(***************************************************************************)

\* From s to t the stack pointer has moved by n, unless t has faulted.
Sunk(t, s, n) ==
  /\ t \in Machines
  /\ t.fault = "none" => s.fault = "none" /\ t.regs[SP] = Wrap(s.regs[SP] + n)

LEMMA SunkOn ==
  ASSUME NEW s \in Machines, NEW t, NEW u, NEW n \in Int, NEW m \in Int,
         Sunk(t, s, n), Sunk(u, t, m)
  PROVE  Sunk(u, s, n + m)
<1> DEFINE p == s.regs[SP]
           q == p + n
<1>1. p \in Int /\ q \in Int /\ q + m = p + (n + m)
  <2>1. p \in WordSet
    BY MachineFields DEF SP
  <2> QED
    BY <2>1, WordFacts
<1> HIDE DEF p, q
<1>2. Wrap(Wrap(q) + m) = Wrap(p + (n + m))
  <2>1. Wrap(Wrap(q) + m) = Wrap(q + m)
    BY <1>1, WrapAdds
  <2> QED
    BY <1>1, <2>1, Zenon
<1>3. u \in Machines
  BY DEF Sunk
<1>4. ASSUME u.fault = "none" PROVE s.fault = "none" /\ u.regs[SP] = Wrap(p + (n + m))
  <2>1. t.fault = "none" /\ u.regs[SP] = Wrap(t.regs[SP] + m)
    BY <1>4 DEF Sunk
  <2>2. s.fault = "none" /\ t.regs[SP] = Wrap(q)
    BY <2>1 DEF Sunk, p, q
  <2> QED
    BY <1>2, <2>1, <2>2
<1> QED
  BY <1>3, <1>4 DEF Sunk, p

\* Nothing happens.
LEMMA SunkNot ==
  ASSUME NEW s \in Machines PROVE Sunk(s, s, 0)
<1> DEFINE p == s.regs[SP]
           S == Span
<1>1. p \in 0..(S - 1) /\ S \in Nat \ {0}
  <2>1. p \in WordSet
    BY MachineFields DEF SP
  <2> QED
    BY <2>1, WordFacts
<1> HIDE DEF p, S
<1>2. (S * 0 + p) % S = p /\ S * 0 + p = p + 0
  BY <1>1, IntUnique
<1>3. Wrap(p + 0) = p
  BY <1>2 DEF Wrap, S
<1> QED
  BY <1>3 DEF Sunk, p

\* The bits of a list.
LEMMA ListBits ==
  ASSUME NEW i \in Halfwords, NEW r \in 0..8
  PROVE  Field(i, r, 1) \in 0..1 /\ (Flag(i, r) <=> Field(i, r, 1) = 1)
<1>1. r \in {0, 1, 2, 3, 4, 5, 6, 7, 8}
  OBVIOUS
<1>2. /\ Field(i, 0, 1) \in 0..1 /\ Field(i, 1, 1) \in 0..1 /\ Field(i, 2, 1) \in 0..1
      /\ Field(i, 3, 1) \in 0..1 /\ Field(i, 4, 1) \in 0..1 /\ Field(i, 5, 1) \in 0..1
      /\ Field(i, 6, 1) \in 0..1 /\ Field(i, 7, 1) \in 0..1 /\ Field(i, 8, 1) \in 0..1
  BY DEF Field, Halfwords
<1>3. Field(i, r, 1) \in 0..1
  BY <1>1, <1>2
<1> QED
  BY <1>3 DEF Flag

\* One register is pushed.
LEMMA PushSinks ==
  ASSUME NEW s \in Machines, NEW r \in 0..15
  PROVE  Sunk(Push(s, r), s, -4)
<1>1. Push(s, r) \in Machines
  BY PushFrame, FramesCompose
<1>2. ASSUME Push(s, r).fault = "none"
      PROVE  s.fault = "none" /\ Push(s, r).regs[SP] = Wrap(s.regs[SP] + (-4))
  <2>1. Pushed(Push(s, r), s, r)
    BY <1>2, PushDoes
  <2> DEFINE t == Push(s, r)
             p == s.regs[SP]
  <2>2. s.fault = "none" /\ t.regs[SP] = Wrap(p - 4)
    BY <2>1 DEF Pushed
  <2>3. p \in WordSet
    BY MachineFields DEF SP
  <2> HIDE DEF t, p
  <2>4. p - 4 = p + (-4)
    BY <2>3, WordFacts
  <2>5. s.fault = "none" /\ t.regs[SP] = Wrap(p + (-4))
    BY <2>2, <2>4
  <2> QED
    BY <2>5 DEF t, p
<1> DEFINE t == Push(s, r)
<1>3. t \in Machines /\ (t.fault = "none" => s.fault = "none" /\ t.regs[SP] = Wrap(s.regs[SP] + (-4)))
  BY <1>1, <1>2
<1> HIDE DEF t
<1>4. Sunk(t, s, -4)
  BY <1>3, Zenon DEF Sunk
<1> QED
  BY <1>4 DEF t

\* One register is popped; from an address that is not accessible it faults.
LEMMA PopSinks ==
  ASSUME NEW s \in Machines, NEW r \in (0..15) \ {SP}
  PROVE  Sunk(Pop(s, r), s, 4)
<1> DEFINE t == Pop(s, r)
           got == Load(s, r, s.regs[SP], 4)
<1>1. t \in Machines
  BY PopFrame, FramesCompose
<1>2. ASSUME s.fault # "none" PROVE t.fault # "none"
  BY <1>2 DEF Pop, Unless
<1>3. ASSUME s.fault = "none", ~Accessible(s.regs[SP], 4) PROVE t.fault # "none"
  <2>1. got = Fault(s, "BusFault")
    BY <1>3 DEF Load
  <2>2. Throws(Fault(s, "BusFault"), s, "BusFault")
    BY UpdateFacts DEF Faults
  <2> HIDE DEF got
  <2>3. got.fault = "BusFault"
    BY <2>1, <2>2 DEF Throws
  <2>4. t = got
    BY <1>3, <2>3 DEF Pop, Unless, got
  <2> HIDE DEF t
  <2> QED
    BY <2>3, <2>4
<1>4. ASSUME s.fault = "none", Accessible(s.regs[SP], 4) PROVE t.regs[SP] = Wrap(s.regs[SP] + 4)
  BY <1>4, PopDoes DEF Popped
<1> HIDE DEF t
<1>5. Sunk(t, s, 4)
  BY <1>1, <1>2, <1>3, <1>4, Zenon DEF Sunk
<1> QED
  BY <1>5 DEF t

\* POP to the PC.
LEMMA PopPCSinks ==
  ASSUME NEW s \in Machines
  PROVE  Sunk(PopPC(s), s, 4)
<1> DEFINE got == Pop(s, PC)
           v == got.regs[PC]
           u == JumpTo(got, v)
<1>1. PC \in (0..15) \ {SP} /\ SP \in 0..15 /\ SP # PC
  BY DEF PC, SP
<1>2. Sunk(got, s, 4)
  BY <1>1, PopSinks
<1>3. PopPC(s) = IF got.fault # "none" THEN got ELSE u
  BY DEF PopPC, Unless
<1> HIDE DEF got
<1>4. got \in Machines
  BY <1>2 DEF Sunk
<1>5. v \in WordSet
  BY <1>1, <1>4, MachineFields
<1> HIDE DEF v
<1>6. Jumps(u, got) /\ Arrives(u, got, Even(v))
  BY <1>4, <1>5, JumpFrame
<1> HIDE DEF u
<1>7. u \in Machines /\ u.fault = got.fault /\ u.regs[SP] = got.regs[SP]
  BY <1>1, <1>4, <1>6, FramesCompose DEF Arrives
<1>8. Sunk(u, s, 4)
  BY <1>2, <1>7, Zenon DEF Sunk
<1> QED
  BY <1>2, <1>3, <1>8

\* One register of a list, if its bit is set.
LEMMA OneSinks ==
  ASSUME NEW s \in Machines, NEW i \in Halfwords, NEW r \in 0..7
  PROVE  /\ Sunk(PushOne(s, i, r), s, -4 * Field(i, r, 1))
         /\ Sunk(PopOne(s, i, r), s, 4 * Field(i, r, 1))
<1> DEFINE b == Field(i, r, 1)
<1>1. b \in 0..1 /\ (Flag(i, r) <=> b = 1)
  BY ListBits
<1>2. r \in 0..15 /\ r \in (0..15) \ {SP}
  BY DEF SP
<1> HIDE DEF b
<1>3. CASE Flag(i, r)
  <2>1. -4 * b = -4 /\ 4 * b = 4
    BY <1>1, <1>3
  <2>2. PushOne(s, i, r) = Push(s, r) /\ PopOne(s, i, r) = Pop(s, r)
    BY <1>3 DEF PushOne, PopOne
  <2>3. Sunk(Push(s, r), s, -4) /\ Sunk(Pop(s, r), s, 4)
    BY <1>2, PushSinks, PopSinks
  <2>4. Sunk(PushOne(s, i, r), s, -4 * b) /\ Sunk(PopOne(s, i, r), s, 4 * b)
    BY <2>1, <2>2, <2>3, Zenon
  <2> QED
    BY <2>4, Zenon DEF b
<1>4. CASE ~Flag(i, r)
  <2>1. -4 * b = 0 /\ 4 * b = 0
    BY <1>1, <1>4
  <2>2. PushOne(s, i, r) = s /\ PopOne(s, i, r) = s
    BY <1>4 DEF PushOne, PopOne
  <2>3. Sunk(s, s, 0)
    BY SunkNot
  <2>4. Sunk(PushOne(s, i, r), s, -4 * b) /\ Sunk(PopOne(s, i, r), s, 4 * b)
    BY <2>1, <2>2, <2>3, Zenon
  <2> QED
    BY <2>4, Zenon DEF b
<1> QED
  BY <1>3, <1>4

\* The registers 0 to 7 of a list.
LowLength(i) ==
  Field(i, 0, 1) + Field(i, 1, 1) + Field(i, 2, 1) + Field(i, 3, 1) + Field(i, 4, 1)
    + Field(i, 5, 1) + Field(i, 6, 1) + Field(i, 7, 1)

\* PUSH of a list of low registers.
LEMMA PushListSinks ==
  ASSUME NEW s \in Machines, NEW i \in Halfwords
  PROVE  Sunk(PushList(s, i), s, -4 * LowLength(i))
<1> DEFINE a1 == PushOne(s, i, 7)
           a2 == PushOne(a1, i, 6)
           a3 == PushOne(a2, i, 5)
           a4 == PushOne(a3, i, 4)
           a5 == PushOne(a4, i, 3)
           a6 == PushOne(a5, i, 2)
           a7 == PushOne(a6, i, 1)
           a8 == PushOne(a7, i, 0)
           n1 == -4 * Field(i, 7, 1)
           n2 == -4 * Field(i, 6, 1)
           n3 == -4 * Field(i, 5, 1)
           n4 == -4 * Field(i, 4, 1)
           n5 == -4 * Field(i, 3, 1)
           n6 == -4 * Field(i, 2, 1)
           n7 == -4 * Field(i, 1, 1)
           n8 == -4 * Field(i, 0, 1)
<1>1. PushList(s, i) = a8
  BY PushListIs
<1>2. /\ Field(i, 0, 1) \in 0..1 /\ Field(i, 1, 1) \in 0..1 /\ Field(i, 2, 1) \in 0..1 /\ Field(i, 3, 1) \in 0..1
      /\ Field(i, 4, 1) \in 0..1 /\ Field(i, 5, 1) \in 0..1 /\ Field(i, 6, 1) \in 0..1 /\ Field(i, 7, 1) \in 0..1
  BY ListBits
<1>3. /\ n1 \in Int /\ n2 \in Int /\ n3 \in Int /\ n4 \in Int
      /\ n5 \in Int /\ n6 \in Int /\ n7 \in Int /\ n8 \in Int
  BY <1>2
<1>4. n1 + n2 + n3 + n4 + n5 + n6 + n7 + n8 = -4 * LowLength(i)
  BY <1>2 DEF LowLength
<1>5. Sunk(a1, s, n1)
  <2>1. 7 \in 0..7
    OBVIOUS
  <2> QED
    BY <2>1, OneSinks
<1>6. Sunk(a2, s, n1 + n2)
  <2> HIDE DEF a1, n1
  <2>1. a1 \in Machines /\ 6 \in 0..7
    BY <1>5 DEF Sunk
  <2>2. Sunk(a2, a1, n2)
    BY <2>1, OneSinks
  <2> HIDE DEF a2, n2
  <2>3. n1 \in Int
    BY <1>3
  <2> QED
    BY <1>3, <1>5, <2>2, <2>3, SunkOn
<1>7. Sunk(a3, s, n1 + n2 + n3)
  <2> HIDE DEF a2, n1, n2
  <2>1. a2 \in Machines /\ 5 \in 0..7
    BY <1>6 DEF Sunk
  <2>2. Sunk(a3, a2, n3)
    BY <2>1, OneSinks
  <2> HIDE DEF a3, n3
  <2>3. n1 + n2 \in Int
    BY <1>3
  <2> QED
    BY <1>3, <1>6, <2>2, <2>3, SunkOn
<1>8. Sunk(a4, s, n1 + n2 + n3 + n4)
  <2> HIDE DEF a3, n1, n2, n3
  <2>1. a3 \in Machines /\ 4 \in 0..7
    BY <1>7 DEF Sunk
  <2>2. Sunk(a4, a3, n4)
    BY <2>1, OneSinks
  <2> HIDE DEF a4, n4
  <2>3. n1 + n2 + n3 \in Int
    BY <1>3
  <2> QED
    BY <1>3, <1>7, <2>2, <2>3, SunkOn
<1>9. Sunk(a5, s, n1 + n2 + n3 + n4 + n5)
  <2> HIDE DEF a4, n1, n2, n3, n4
  <2>1. a4 \in Machines /\ 3 \in 0..7
    BY <1>8 DEF Sunk
  <2>2. Sunk(a5, a4, n5)
    BY <2>1, OneSinks
  <2> HIDE DEF a5, n5
  <2>3. n1 + n2 + n3 + n4 \in Int
    BY <1>3
  <2> QED
    BY <1>3, <1>8, <2>2, <2>3, SunkOn
<1>10. Sunk(a6, s, n1 + n2 + n3 + n4 + n5 + n6)
  <2> HIDE DEF a5, n1, n2, n3, n4, n5
  <2>1. a5 \in Machines /\ 2 \in 0..7
    BY <1>9 DEF Sunk
  <2>2. Sunk(a6, a5, n6)
    BY <2>1, OneSinks
  <2> HIDE DEF a6, n6
  <2>3. n1 + n2 + n3 + n4 + n5 \in Int
    BY <1>3
  <2> QED
    BY <1>3, <1>9, <2>2, <2>3, SunkOn
<1>11. Sunk(a7, s, n1 + n2 + n3 + n4 + n5 + n6 + n7)
  <2> HIDE DEF a6, n1, n2, n3, n4, n5, n6
  <2>1. a6 \in Machines /\ 1 \in 0..7
    BY <1>10 DEF Sunk
  <2>2. Sunk(a7, a6, n7)
    BY <2>1, OneSinks
  <2> HIDE DEF a7, n7
  <2>3. n1 + n2 + n3 + n4 + n5 + n6 \in Int
    BY <1>3
  <2> QED
    BY <1>3, <1>10, <2>2, <2>3, SunkOn
<1>12. Sunk(a8, s, n1 + n2 + n3 + n4 + n5 + n6 + n7 + n8)
  <2> HIDE DEF a7, n1, n2, n3, n4, n5, n6, n7
  <2>1. a7 \in Machines /\ 0 \in 0..7
    BY <1>11 DEF Sunk
  <2>2. Sunk(a8, a7, n8)
    BY <2>1, OneSinks
  <2> HIDE DEF a8, n8
  <2>3. n1 + n2 + n3 + n4 + n5 + n6 + n7 \in Int
    BY <1>3
  <2> QED
    BY <1>3, <1>11, <2>2, <2>3, SunkOn
<1> QED
  BY <1>1, <1>4, <1>12, Zenon

\* POP of a list of low registers.
LEMMA PopListSinks ==
  ASSUME NEW s \in Machines, NEW i \in Halfwords
  PROVE  Sunk(PopList(s, i), s, 4 * LowLength(i))
<1> DEFINE a1 == PopOne(s, i, 0)
           a2 == PopOne(a1, i, 1)
           a3 == PopOne(a2, i, 2)
           a4 == PopOne(a3, i, 3)
           a5 == PopOne(a4, i, 4)
           a6 == PopOne(a5, i, 5)
           a7 == PopOne(a6, i, 6)
           a8 == PopOne(a7, i, 7)
           n1 == 4 * Field(i, 0, 1)
           n2 == 4 * Field(i, 1, 1)
           n3 == 4 * Field(i, 2, 1)
           n4 == 4 * Field(i, 3, 1)
           n5 == 4 * Field(i, 4, 1)
           n6 == 4 * Field(i, 5, 1)
           n7 == 4 * Field(i, 6, 1)
           n8 == 4 * Field(i, 7, 1)
<1>1. PopList(s, i) = a8
  BY PopListIs
<1>2. /\ Field(i, 0, 1) \in 0..1 /\ Field(i, 1, 1) \in 0..1 /\ Field(i, 2, 1) \in 0..1 /\ Field(i, 3, 1) \in 0..1
      /\ Field(i, 4, 1) \in 0..1 /\ Field(i, 5, 1) \in 0..1 /\ Field(i, 6, 1) \in 0..1 /\ Field(i, 7, 1) \in 0..1
  BY ListBits
<1>3. /\ n1 \in Int /\ n2 \in Int /\ n3 \in Int /\ n4 \in Int
      /\ n5 \in Int /\ n6 \in Int /\ n7 \in Int /\ n8 \in Int
  BY <1>2
<1>4. n1 + n2 + n3 + n4 + n5 + n6 + n7 + n8 = 4 * LowLength(i)
  BY <1>2 DEF LowLength
<1>5. Sunk(a1, s, n1)
  <2>1. 0 \in 0..7
    OBVIOUS
  <2> QED
    BY <2>1, OneSinks
<1>6. Sunk(a2, s, n1 + n2)
  <2> HIDE DEF a1, n1
  <2>1. a1 \in Machines /\ 1 \in 0..7
    BY <1>5 DEF Sunk
  <2>2. Sunk(a2, a1, n2)
    BY <2>1, OneSinks
  <2> HIDE DEF a2, n2
  <2>3. n1 \in Int
    BY <1>3
  <2> QED
    BY <1>3, <1>5, <2>2, <2>3, SunkOn
<1>7. Sunk(a3, s, n1 + n2 + n3)
  <2> HIDE DEF a2, n1, n2
  <2>1. a2 \in Machines /\ 2 \in 0..7
    BY <1>6 DEF Sunk
  <2>2. Sunk(a3, a2, n3)
    BY <2>1, OneSinks
  <2> HIDE DEF a3, n3
  <2>3. n1 + n2 \in Int
    BY <1>3
  <2> QED
    BY <1>3, <1>6, <2>2, <2>3, SunkOn
<1>8. Sunk(a4, s, n1 + n2 + n3 + n4)
  <2> HIDE DEF a3, n1, n2, n3
  <2>1. a3 \in Machines /\ 3 \in 0..7
    BY <1>7 DEF Sunk
  <2>2. Sunk(a4, a3, n4)
    BY <2>1, OneSinks
  <2> HIDE DEF a4, n4
  <2>3. n1 + n2 + n3 \in Int
    BY <1>3
  <2> QED
    BY <1>3, <1>7, <2>2, <2>3, SunkOn
<1>9. Sunk(a5, s, n1 + n2 + n3 + n4 + n5)
  <2> HIDE DEF a4, n1, n2, n3, n4
  <2>1. a4 \in Machines /\ 4 \in 0..7
    BY <1>8 DEF Sunk
  <2>2. Sunk(a5, a4, n5)
    BY <2>1, OneSinks
  <2> HIDE DEF a5, n5
  <2>3. n1 + n2 + n3 + n4 \in Int
    BY <1>3
  <2> QED
    BY <1>3, <1>8, <2>2, <2>3, SunkOn
<1>10. Sunk(a6, s, n1 + n2 + n3 + n4 + n5 + n6)
  <2> HIDE DEF a5, n1, n2, n3, n4, n5
  <2>1. a5 \in Machines /\ 5 \in 0..7
    BY <1>9 DEF Sunk
  <2>2. Sunk(a6, a5, n6)
    BY <2>1, OneSinks
  <2> HIDE DEF a6, n6
  <2>3. n1 + n2 + n3 + n4 + n5 \in Int
    BY <1>3
  <2> QED
    BY <1>3, <1>9, <2>2, <2>3, SunkOn
<1>11. Sunk(a7, s, n1 + n2 + n3 + n4 + n5 + n6 + n7)
  <2> HIDE DEF a6, n1, n2, n3, n4, n5, n6
  <2>1. a6 \in Machines /\ 6 \in 0..7
    BY <1>10 DEF Sunk
  <2>2. Sunk(a7, a6, n7)
    BY <2>1, OneSinks
  <2> HIDE DEF a7, n7
  <2>3. n1 + n2 + n3 + n4 + n5 + n6 \in Int
    BY <1>3
  <2> QED
    BY <1>3, <1>10, <2>2, <2>3, SunkOn
<1>12. Sunk(a8, s, n1 + n2 + n3 + n4 + n5 + n6 + n7 + n8)
  <2> HIDE DEF a7, n1, n2, n3, n4, n5, n6, n7
  <2>1. a7 \in Machines /\ 7 \in 0..7
    BY <1>11 DEF Sunk
  <2>2. Sunk(a8, a7, n8)
    BY <2>1, OneSinks
  <2> HIDE DEF a8, n8
  <2>3. n1 + n2 + n3 + n4 + n5 + n6 + n7 \in Int
    BY <1>3
  <2> QED
    BY <1>3, <1>11, <2>2, <2>3, SunkOn
<1> QED
  BY <1>1, <1>4, <1>12, Zenon

\* PUSH and POP with LR or PC.
LEMMA PushPopSinks ==
  ASSUME NEW s \in Machines, NEW i \in Halfwords
  PROVE  /\ ~Flag(i, 11) => Sunk(exec_push_pop(s, i), s, -4 * ListLength(i))
         /\ Flag(i, 11) => Sunk(exec_push_pop(s, i), s, 4 * ListLength(i))
<1> DEFINE b == Field(i, 8, 1)
           l == LowLength(i)
<1>1. b \in 0..1 /\ (Flag(i, 8) <=> b = 1)
  BY ListBits
<1>2. l \in Int /\ ListLength(i) = l + b
  <2>1. /\ Field(i, 0, 1) \in 0..1 /\ Field(i, 1, 1) \in 0..1 /\ Field(i, 2, 1) \in 0..1
        /\ Field(i, 3, 1) \in 0..1 /\ Field(i, 4, 1) \in 0..1 /\ Field(i, 5, 1) \in 0..1
        /\ Field(i, 6, 1) \in 0..1 /\ Field(i, 7, 1) \in 0..1
    BY ListBits
  <2> QED
    BY <1>1, <2>1 DEF LowLength, ListLength
<1> HIDE DEF b, l
<1>3. -4 * b \in Int /\ 4 * b \in Int /\ -4 * l \in Int /\ 4 * l \in Int
  BY <1>1, <1>2
<1>4. /\ (-4 * b) + (-4 * l) = -4 * ListLength(i)
      /\ (4 * l) + (4 * b) = 4 * ListLength(i)
  BY <1>1, <1>2
<1>5. ASSUME ~Flag(i, 11) PROVE Sunk(exec_push_pop(s, i), s, -4 * ListLength(i))
  <2> DEFINE t == IF Flag(i, 8) THEN Push(s, LR) ELSE s
             z == PushList(t, i)
  <2>1. exec_push_pop(s, i) = z
    BY <1>5 DEF exec_push_pop
  <2>2. Sunk(t, s, -4 * b)
    <3>1. CASE Flag(i, 8)
      <4>1. -4 * b = -4 /\ LR \in 0..15
        BY <1>1, <3>1 DEF LR
      <4>2. Sunk(Push(s, LR), s, -4)
        BY <4>1, PushSinks
      <4> QED
        BY <3>1, <4>1, <4>2, Zenon
    <3>2. CASE ~Flag(i, 8)
      <4>1. -4 * b = 0
        BY <1>1, <3>2
      <4>2. Sunk(s, s, 0)
        BY SunkNot
      <4> QED
        BY <3>2, <4>1, <4>2, Zenon
    <3> QED
      BY <3>1, <3>2
  <2> HIDE DEF t
  <2>3. t \in Machines
    BY <2>2, Zenon DEF Sunk
  <2>4. Sunk(z, t, -4 * l)
    BY <2>3, PushListSinks DEF l
  <2> HIDE DEF z
  <2>5. Sunk(z, s, (-4 * b) + (-4 * l))
    <3> DEFINE n == -4 * b
               m == -4 * l
    <3>1. n \in Int /\ m \in Int /\ Sunk(t, s, n) /\ Sunk(z, t, m)
      BY <1>3, <2>2, <2>4
    <3> HIDE DEF n, m
    <3>2. Sunk(z, s, n + m)
      BY <3>1, SunkOn
    <3> QED
      BY <3>2 DEF n, m
  <2> QED
    BY <1>4, <2>1, <2>5, Zenon
<1>6. ASSUME Flag(i, 11) PROVE Sunk(exec_push_pop(s, i), s, 4 * ListLength(i))
  <2> DEFINE t == PopList(s, i)
             z == IF Flag(i, 8) THEN PopPC(t) ELSE t
  <2>1. exec_push_pop(s, i) = z
    BY <1>6 DEF exec_push_pop
  <2>2. Sunk(t, s, 4 * l)
    BY PopListSinks DEF l
  <2> HIDE DEF t
  <2>3. t \in Machines
    BY <2>2, Zenon DEF Sunk
  <2>4. Sunk(z, t, 4 * b)
    <3>1. CASE Flag(i, 8)
      <4>1. 4 * b = 4
        BY <1>1, <3>1
      <4>2. Sunk(PopPC(t), t, 4)
        BY <2>3, PopPCSinks
      <4> QED
        BY <3>1, <4>1, <4>2, Zenon
    <3>2. CASE ~Flag(i, 8)
      <4>1. 4 * b = 0
        BY <1>1, <3>2
      <4>2. Sunk(t, t, 0)
        BY <2>3, SunkNot
      <4> QED
        BY <3>2, <4>1, <4>2, Zenon
    <3> QED
      BY <3>1, <3>2
  <2> HIDE DEF z
  <2>5. Sunk(z, s, (4 * l) + (4 * b))
    <3> DEFINE n == 4 * l
               m == 4 * b
    <3>1. n \in Int /\ m \in Int /\ Sunk(t, s, n) /\ Sunk(z, t, m)
      BY <1>3, <2>2, <2>4
    <3> HIDE DEF n, m
    <3>2. Sunk(z, s, n + m)
      BY <3>1, SunkOn
    <3> QED
      BY <3>2 DEF n, m
  <2> QED
    BY <1>4, <2>1, <2>5, Zenon
<1> QED
  BY <1>5, <1>6

\* The upper nine bits of an opcode are its upper byte and the bit below.
LEMMA UpperNine ==
  ASSUME NEW i \in Halfwords
  PROVE  Field(i, 7, 9) = 2 * Field(i, 8, 8) + Field(i, 7, 1)
<1>1. i \in Int /\ 0 <= i /\ i <= 65535
  BY SMTT(30) DEF Halfwords
<1>2. /\ Field(i, 7, 9) = (i \div 128) % 512 /\ Field(i, 8, 8) = (i \div 256) % 256
      /\ Field(i, 7, 1) = (i \div 128) % 2
  BY DEF Field
<1>3. (i \div 128) % 512 = i \div 128 /\ (i \div 256) % 256 = i \div 256
  BY <1>1
<1>4. i \div 128 = 2 * (i \div 256) + ((i \div 128) % 2)
  BY <1>1
<1> QED
  BY <1>2, <1>3, <1>4

\* The line of the trace is true of the instruction.
LEMMA TraceStep ==
  ASSUME core \in Machines, NEW i \in Halfwords, Ran(i)
  PROVE  LET line  == disassemble(core.regs[PC], Opcode)
             moves == core'.regs[PC] # Operand[PC]
             high  == line.mnemonic \in {"add", "mov"} /\ Field(Opcode, 7, 1) = 1
                        /\ Field(Opcode, 0, 3) = 7
             words == ListLength(Opcode)
         IN  /\ moves => line.mnemonic \in Branching \/ high
             /\ line.mnemonic = "b" \/ (line.mnemonic = "b<cond>" /\ moves) =>
                  core'.regs[PC] = Even(line.target)
             /\ core'.apsr # core.apsr => line.mnemonic \in Flagging
             /\ ~Misprinted(Opcode) =>
                  /\ line.mnemonic # "??"
                  /\ core'.mem # core.mem => line.mnemonic \in Storing
                  /\ line.mnemonic = "bx" => core'.regs[LR] = core.regs[LR]
                  /\ line.mnemonic = "push" => core'.regs[SP] = Wrap(core.regs[SP] - 4 * words)
                  /\ line.mnemonic = "pop" => core'.regs[SP] = Wrap(core.regs[SP] + 4 * words)
<1> DEFINE f == Fetched(core)
           t == execute(f, i)
           d == disassemble(core.regs[PC], i)
           m == d.mnemonic
           k == Field(i, 8, 8)
           n == ListLength(i)
<1>1. Opcode = i
  BY DEF Ran, Opcode
<1>2. core'.regs = t.regs /\ core'.mem = t.mem /\ core'.apsr = t.apsr /\ t.fault = "none"
  BY DEF Ran
<1>3. f \in Machines /\ SameButRegs(f, core) /\ f.regs = Operand
  BY FetchedFacts DEF Operand
<1>4. f.mem = core.mem /\ f.apsr = core.apsr
  BY <1>3 DEF SameButRegs
<1>5. Effects(t, f, i, k)
  BY <1>3, ExecuteEffects
<1>6. Shows(m, i, k)
  BY LineShows
<1>7. /\ k \in 224..231 => t.regs[PC] = Even(d.target)
      /\ k \in 208..222 => t.regs[PC] = f.regs[PC] \/ t.regs[PC] = Even(d.target)
  BY BranchesGo
<1>8. Field(i, 7, 1) \in 0..1 /\ Field(i, 0, 3) \in 0..7
  BY FieldTypes
<1>9. /\ k \in 0..255 /\ Field(i, 11, 1) = (k \div 8) % 2 /\ Field(i, 8, 2) = k % 4
      /\ Field(i, 7, 9) = 2 * k + Field(i, 7, 1)
  BY TopFields, UpperNine
<1>10. k \notin {223} \cup 232..239
  <2>1. SUFFICES ASSUME k \in {223} \cup 232..239 PROVE FALSE
    OBVIOUS
  <2>2. t = Fault(f, "Undefined")
    BY <2>1, ExecuteIs
  <2>3. Throws(Fault(f, "Undefined"), f, "Undefined")
    BY <1>3, UpdateFacts DEF Faults
  <2> HIDE DEF t
  <2> QED
    BY <1>2, <2>2, <2>3 DEF Throws
<1>11. LR \in 0..15 /\ SP \in 0..15 /\ LR # PC /\ SP # PC
  BY DEF LR, SP, PC
<1>12. f.regs[LR] = core.regs[LR] /\ f.regs[SP] = core.regs[SP]
  BY <1>11, FetchedFacts
<1>13. k = 71 /\ ~Flag(i, 7) => t.regs[LR] = f.regs[LR]
  <2>1. SUFFICES ASSUME k = 71, ~Flag(i, 7) PROVE t.regs[LR] = f.regs[LR]
    OBVIOUS
  <2> DEFINE b == f.regs[Field(i, 3, 4)]
  <2>2. t = exec_hi_reg_bx(f, i)
    BY <2>1, ExecuteIs
  <2>3. Field(i, 8, 2) = 3
    BY <1>9, <2>1
  <2>4. b \in WordSet /\ exec_hi_reg_bx(f, i) = JumpTo(f, b)
    BY <1>3, <2>1, <2>3, HiRegFrame
  <2> HIDE DEF b, f, t
  <2>5. Arrives(JumpTo(f, b), f, Even(b))
    BY <1>3, <2>4, JumpFrame
  <2> QED
    BY <1>11, <2>2, <2>4, <2>5 DEF Arrives
<1>14. /\ k \in 177..183 => Sunk(t, f, -4 * n)
       /\ k \in 184..189 => Sunk(t, f, 4 * n)
  <2>1. /\ ~Flag(i, 11) => Sunk(exec_push_pop(f, i), f, -4 * n)
        /\ Flag(i, 11) => Sunk(exec_push_pop(f, i), f, 4 * n)
    BY <1>3, PushPopSinks
  <2>2. k \in 177..189 => t = exec_push_pop(f, i)
    BY ExecuteIs
  <2> HIDE DEF n, f, t, k
  <2>3. (k \in 177..183 => ~Flag(i, 11)) /\ (k \in 184..189 => Flag(i, 11))
    BY <1>9 DEF Flag
  <2>4. (k \in 177..183 => k \in 177..189) /\ (k \in 184..189 => k \in 177..189)
    OBVIOUS
  <2> DEFINE down == -4 * n
             up   == 4 * n
             x    == exec_push_pop(f, i)
  <2>5. k \in 177..183 => t = x /\ Sunk(x, f, down)
    BY <2>1, <2>2, <2>3, <2>4, ZenonT(30)
  <2>6. k \in 184..189 => t = x /\ Sunk(x, f, up)
    BY <2>1, <2>2, <2>3, <2>4, ZenonT(30)
  <2>7. (k \in 177..183 => Sunk(t, f, down)) /\ (k \in 184..189 => Sunk(t, f, up))
    <3> HIDE DEF down, up, x
    <3> QED
      BY <2>5, <2>6, ZenonT(30)
  <2> QED
    BY <2>7
<1>15. n \in Int
  <2>1. /\ Field(i, 0, 1) \in 0..1 /\ Field(i, 1, 1) \in 0..1 /\ Field(i, 2, 1) \in 0..1
        /\ Field(i, 3, 1) \in 0..1 /\ Field(i, 4, 1) \in 0..1 /\ Field(i, 5, 1) \in 0..1
        /\ Field(i, 6, 1) \in 0..1 /\ Field(i, 7, 1) \in 0..1 /\ Field(i, 8, 1) \in 0..1
    BY ListBits
  <2> QED
    BY <2>1 DEF ListLength
<1>16. core.regs[SP] \in Int
  <2>1. core.regs[SP] \in WordSet
    BY <1>11, MachineFields
  <2> QED
    BY <2>1, WordFacts
<1>17. ~Misprinted(i) =>
         k \notin 72..95 \cup 160..176 \cup {190, 191} /\ ~(k = 71 /\ Flag(i, 7))
  <2> HIDE DEF k
  <2>1. k = 71 /\ Flag(i, 7) => Field(i, 7, 9) = 143
    BY <1>9 DEF Flag
  <2> QED
    BY <2>1 DEF Misprinted, k
<1> HIDE DEF f, t, d, m, k, n
<1>18. t.regs[PC] # f.regs[PC] => m \in Branching \/ (m \in {"add", "mov"} /\ Field(i, 7, 1) = 1
                                                    /\ Field(i, 0, 3) = 7)
  <2> SUFFICES ASSUME t.regs[PC] # f.regs[PC]
               PROVE  m \in Branching \/ (m \in {"add", "mov"} /\ Field(i, 7, 1) = 1
                                            /\ Field(i, 0, 3) = 7)
    OBVIOUS
  <2>1. CASE k \in {68, 70} /\ 8 * Field(i, 7, 1) + Field(i, 0, 3) = PC
    <3>1. Field(i, 7, 1) = 1 /\ Field(i, 0, 3) = 7
      BY <1>8, <2>1 DEF PC
    <3> QED
      BY <1>6, <2>1, <3>1 DEF Shows
  <2>2. CASE k \in {71} \cup 184..189 \cup 208..222 \cup 224..231 \cup 248..255
    BY <1>6, <2>2 DEF Shows, Branching
  <2> QED
    BY <1>5, <2>1, <2>2 DEF Effects, KeepsPC
<1>19. m = "b" \/ (m = "b<cond>" /\ t.regs[PC] # f.regs[PC]) => t.regs[PC] = Even(d.target)
  BY <1>6, <1>7 DEF Shows
<1>20. t.apsr # f.apsr => m \in Flagging
  BY <1>5, <1>6 DEF Effects, KeepsFlags, Shows
<1>21. ASSUME ~Misprinted(i)
       PROVE  /\ m # "??"
              /\ t.mem # f.mem => m \in Storing
              /\ m = "bx" => t.regs[LR] = core.regs[LR]
              /\ m = "push" => t.regs[SP] = Wrap(core.regs[SP] - 4 * n)
              /\ m = "pop" => t.regs[SP] = Wrap(core.regs[SP] + 4 * n)
  <2>1. k \notin 72..95 \cup 160..176 \cup {190, 191} /\ ~(k = 71 /\ Flag(i, 7))
    BY <1>17, <1>21
  <2>2. m # "??"
    BY <1>6, <1>10, <2>1 DEF Shows
  <2>3. t.mem # f.mem => m \in Storing
    BY <1>5, <1>6, <2>1 DEF Effects, KeepsMem, Shows, Storing
  <2>4. m = "bx" => t.regs[LR] = core.regs[LR]
    BY <1>6, <1>12, <1>13, <2>1 DEF Shows
  <2>5. (m = "push" => k \in 177..183) /\ (m = "pop" => k \in 184..189)
    BY <1>6, <2>1 DEF Shows
  <2>6. Wrap(core.regs[SP] - 4 * n) = Wrap(core.regs[SP] + (-4 * n))
    <3> DEFINE p == core.regs[SP]
    <3> HIDE DEF p
    <3>1. p \in Int
      BY <1>16 DEF p
    <3>2. p - 4 * n = p + (-4 * n)
      BY <1>15, <3>1
    <3> QED
      BY <3>2, Zenon DEF p
  <2>7. m = "push" => t.regs[SP] = Wrap(core.regs[SP] + (-4 * n))
    BY <1>2, <1>12, <1>14, <2>5, Zenon DEF Sunk
  <2>8. m = "pop" => t.regs[SP] = Wrap(core.regs[SP] + 4 * n)
    BY <1>2, <1>12, <1>14, <2>5, Zenon DEF Sunk
  <2>9. m = "push" => t.regs[SP] = Wrap(core.regs[SP] - 4 * n)
    BY <2>6, <2>7, Zenon
  <2> QED
    BY <2>2, <2>3, <2>4, <2>8, <2>9, Zenon
<1> QED
  BY <1>1, <1>2, <1>3, <1>4, <1>18, <1>19, <1>20, <1>21, Zenon DEF m, d, n

\* trace.h prints what cpu.cpp does, for every opcode and every machine: a line
\* that shows no branch or flag-setting instruction stands for one that leaves
\* the sequence or the flags alone, and the address printed for a branch is the
\* one it goes to.  Outside the opcodes that trace.h only approximates, a line
\* that shows no store stands for an instruction which leaves memory alone, bx
\* is a BX, and push and pop move the stack pointer by the list.
THEOREM TraceCorrect == MachineSpec => TraceIsTrue
<1>1. LoadInv /\ MachineInv /\ [MachineNext]_simVars => LoadInv' /\ MachineInv'
  BY LoadNext, MachineNextTypes
<1>2. ASSUME LoadInv, MachineInv, [MachineNext]_simVars, Executed
      PROVE  LET line  == disassemble(core.regs[PC], Opcode)
                 moves == core'.regs[PC] # Operand[PC]
                 high  == line.mnemonic \in {"add", "mov"} /\ Field(Opcode, 7, 1) = 1
                            /\ Field(Opcode, 0, 3) = 7
                 words == ListLength(Opcode)
             IN  /\ moves => line.mnemonic \in Branching \/ high
                 /\ line.mnemonic = "b" \/ (line.mnemonic = "b<cond>" /\ moves) =>
                      core'.regs[PC] = Even(line.target)
                 /\ core'.apsr # core.apsr => line.mnemonic \in Flagging
                 /\ ~Misprinted(Opcode) =>
                      /\ line.mnemonic # "??"
                      /\ core'.mem # core.mem => line.mnemonic \in Storing
                      /\ line.mnemonic = "bx" => core'.regs[LR] = core.regs[LR]
                      /\ line.mnemonic = "push" =>
                           core'.regs[SP] = Wrap(core.regs[SP] - 4 * words)
                      /\ line.mnemonic = "pop" =>
                           core'.regs[SP] = Wrap(core.regs[SP] + 4 * words)
  <2>1. core \in Machines
    BY <1>2 DEF MachineInv
  <2>2. PICK i \in Halfwords : Ran(i)
    BY <1>2, MachineNextTypes
  <2> QED
    BY <2>1, <2>2, TraceStep, Zenon
<1> QED
  BY <1>1, <1>2, LoadInit, MachineStart, PTL DEF MachineSpec, TraceIsTrue

(***************************************************************************)
(* Shifts.  ShiftsAreExact compares a shift by n with n shifts by one. The *)
(* latter is a recursion, of which each kind of shift has a closed form    *)
(* (Leads: one more shift leads from the form for k to that for k + 1;     *)
(* Follows: hence the recursion follows the form).  The closed forms are   *)
(* then those of the code, with its cases for 0, for the word's width and  *)
(* beyond.                                                                 *)
(***************************************************************************)

\* The shifts by 0, 1, ..., m bits.
Steps(g, op, x, c, m) ==
  g = [k \in 0..m |-> IF k = 0 THEN Shift(x, c) ELSE ShiftOnce(op, g[k - 1].res)]

\* The recursion of ShiftBy exists.
LEMMA StepsExist ==
  ASSUME NEW op, NEW x, NEW c
  PROVE  \A m \in Nat : \E g : Steps(g, op, x, c, m)
<1> DEFINE S == {m \in Nat : \E g : Steps(g, op, x, c, m)}
           Next1(s) == ShiftOnce(op, s.res)
           start == Shift(x, c)
<1>1. 0 \in S
  <2> DEFINE g == [k \in 0..0 |-> start]
  <2> HIDE DEF Next1, start
  <2>1. g = [k \in 0..0 |-> IF k = 0 THEN start ELSE Next1(g[k - 1])]
    OBVIOUS
  <2>2. Steps(g, op, x, c, 0)
    BY <2>1 DEF Steps, Next1, start
  <2> QED
    BY <2>2
<1>2. ASSUME NEW m \in S PROVE m + 1 \in S
  <2>1. PICK g : Steps(g, op, x, c, m)
    BY <1>2
  <2>m. m \in Nat
    BY <1>2
  <2> DEFINE h == [k \in 0..(m + 1) |-> IF k = m + 1 THEN Next1(g[m]) ELSE g[k]]
  <2>2. \A k \in 0..m : g[k] = IF k = 0 THEN start ELSE Next1(g[k - 1])
    <3>1. g = [k \in 0..m |-> IF k = 0 THEN start ELSE Next1(g[k - 1])]
      BY <2>1 DEF Steps
    <3> HIDE DEF Next1, start
    <3> QED
      BY <3>1
  <2> HIDE DEF Next1, start
  <2>3. \A k \in 0..(m + 1) : h[k] = IF k = 0 THEN start ELSE Next1(h[k - 1])
    BY <2>m, <2>2
  <2>4. h = [k \in 0..(m + 1) |-> IF k = 0 THEN start ELSE Next1(h[k - 1])]
    BY <2>3
  <2>5. Steps(h, op, x, c, m + 1)
    BY <2>4 DEF Steps, Next1, start
  <2> QED
    BY <2>m, <2>5
<1>3. S = Nat
  <2>1. S \subseteq Nat
    OBVIOUS
  <2> HIDE DEF S
  <2> QED
    BY <1>1, <1>2, <2>1, Induction
<1> QED
  BY <1>3

\* The number of steps of a shift by n.
Times(op, n) ==
  IF n <= WORD_BITS THEN n
  ELSE IF op = "ror" THEN 1 + ((n - 1) % WORD_BITS) ELSE WORD_BITS + 1

\* ShiftBy is the last of its steps.
LEMMA ShiftByIs ==
  ASSUME NEW op, NEW x, NEW n \in Nat, NEW c
  PROVE  /\ Times(op, n) \in Nat
         /\ \E g : Steps(g, op, x, c, Times(op, n)) /\ ShiftBy(op, x, n, c) = g[Times(op, n)]
<1> DEFINE t == Times(op, n)
           g == CHOOSE h : Steps(h, op, x, c, t)
<1>1. t \in Nat
  <2>1. WORD_BITS \in Nat \ {0}
    BY SpanPower
  <2>2. n <= WORD_BITS \/ n - 1 \in Nat
    BY <2>1
  <2>3. n - 1 \in Nat => (n - 1) % WORD_BITS \in Nat
    BY <2>1, DivMod
  <2> QED
    BY <2>1, <2>2, <2>3 DEF Times
<1>2. ShiftBy(op, x, n, c) = g[t]
  BY DEF ShiftBy, Steps, Times
<1> HIDE DEF t
<1>3. Steps(g, op, x, c, t)
  BY <1>1, StepsExist, Zenon
<1> HIDE DEF g
<1> QED
  BY <1>1, <1>2, <1>3 DEF t

\* A step leads from each of the results R to the next.
Leads(R, op, m) == \A k \in 0..(m - 1) : ShiftOnce(op, R[k]).res = R[k + 1]

\* The steps g in closed form.
Follows(g, op, x, c, R, m) ==
  g[0] = Shift(x, c) /\ \A k \in 1..m : g[k] = ShiftOnce(op, R[k - 1])

\* The steps are the results R, if each of R leads to the next.
LEMMA StepsAre ==
  ASSUME NEW op, NEW x, NEW c, NEW m \in Nat, NEW g, Steps(g, op, x, c, m),
         NEW R, R[0] = x, Leads(R, op, m)
  PROVE  Follows(g, op, x, c, R, m)
<1> DEFINE S == {k \in Nat : k <= m => g[k].res = R[k]}
           Next1(v) == ShiftOnce(op, v)
           start == Shift(x, c)
<1>g. \A k \in 0..m : g[k] = IF k = 0 THEN start ELSE Next1(g[k - 1].res)
  <2>1. g = [k \in 0..m |-> IF k = 0 THEN start ELSE Next1(g[k - 1].res)]
    BY DEF Steps
  <2> HIDE DEF Next1, start
  <2> QED
    BY <2>1
<1>s. start.res = x
  BY DEF Shift
<1>n. \A k \in 0..(m - 1) : Next1(R[k]).res = R[k + 1]
  BY DEF Leads
<1> HIDE DEF Next1, start
<1>0. g[0] = start
  BY <1>g
<1>1. 0 \in S
  BY <1>0, <1>s
<1>2. ASSUME NEW k \in S PROVE k + 1 \in S
  <2>0. k \in Nat
    BY <1>2
  <2>1. CASE k + 1 <= m
    <3>1. k + 1 \in 0..m /\ k + 1 # 0 /\ k + 1 - 1 = k /\ k \in 0..(m - 1) /\ k <= m
      BY <2>0, <2>1
    <3>2. g[k].res = R[k]
      BY <1>2, <3>1
    <3>3. g[k + 1] = Next1(g[k].res)
      BY <1>g, <3>1
    <3>4. g[k + 1].res = R[k + 1]
      BY <1>n, <3>1, <3>2, <3>3
    <3> QED
      BY <2>0, <3>4
  <2>2. CASE ~(k + 1 <= m)
    BY <2>0, <2>2
  <2> QED
    BY <2>1, <2>2
<1>3. S = Nat
  <2>1. S \subseteq Nat
    OBVIOUS
  <2> HIDE DEF S
  <2> QED
    BY <1>1, <1>2, <2>1, Induction
<1>4. ASSUME NEW k \in 1..m PROVE g[k] = Next1(R[k - 1])
  <2>1. k \in 0..m /\ k # 0 /\ k - 1 \in Nat /\ k - 1 <= m
    BY <1>4
  <2>2. g[k] = Next1(g[k - 1].res)
    BY <1>g, <2>1
  <2>3. k - 1 \in S
    BY <1>3, <2>1
  <2>4. g[k - 1].res = R[k - 1]
    BY <2>1, <2>3
  <2> QED
    BY <2>2, <2>4
<1> QED
  BY <1>0, <1>4 DEF start, Next1, Follows

\* A word is below the span, and its own remainder.
LEMMA WordIs ==
  ASSUME NEW x \in WordSet
  PROVE  x \in Nat /\ x < Span /\ Wrap(x) = x /\ Pow2[0] = 1
<1> DEFINE S == Span
           n == 0
<1>1. x \in 0..(S - 1) /\ x \in Nat /\ n \in Nat /\ S \in Nat \ {0} /\ S * n = 0
  BY WordFacts
<1> HIDE DEF S, n
<1>2. (S * n + x) % S = x
  BY <1>1, Unique
<1>3. S * n + x = x
  BY <1>1
<1>4. x % S = x
  BY <1>2, <1>3, Zenon
<1>5. Wrap(x) = x
  BY <1>4, Zenon DEF Wrap, S
<1> QED
  BY <1>1, <1>5, Pow2Def DEF S

\* lsl(x, k) is k shifts to the left.
LEMMA LslSteps ==
  ASSUME NEW x \in WordSet
  PROVE  /\ lsl(x, 0) = x /\ lsl(x, WORD_BITS) = 0
         /\ \A k \in Nat : Wrap(2 * lsl(x, k)) = lsl(x, k + 1)
<1>1. x \in Nat /\ Wrap(x) = x /\ Pow2[0] = 1 /\ WORD_BITS \in Nat
  BY WordIs, SpanPower
<1>2. lsl(x, 0) = x
  <2>1. lsl(x, 0) = (x * Pow2[0]) % Span
    BY DEF lsl
  <2>2. x * Pow2[0] = x
    BY <1>1
  <2> QED
    BY <1>1, <2>1, <2>2, Zenon DEF Wrap
<1>3. lsl(x, WORD_BITS) = 0
  <2>1. 0 \in 0..WORD_BITS /\ WORD_BITS - 0 = WORD_BITS
    BY <1>1
  <2>2. lsl(x, WORD_BITS - 0) = (x % Pow2[0]) * Pow2[WORD_BITS - 0]
    BY <2>1, RotateFits
  <2>3. Pow2[WORD_BITS] \in Nat /\ x % 1 = 0
    BY <1>1, Pow2Type
  <2>4. lsl(x, WORD_BITS) = 0 * Pow2[WORD_BITS]
    BY <1>1, <2>1, <2>2, <2>3, Zenon
  <2> QED
    BY <2>3, <2>4
<1>4. ASSUME NEW k \in Nat PROVE Wrap(2 * lsl(x, k)) = lsl(x, k + 1)
  <2> DEFINE a == x * Pow2[k]
             y == Wrap(a)
  <2>1. a \in Int /\ Pow2[k + 1] = 2 * Pow2[k]
    BY <1>1, Pow2Type, Pow2Next
  <2>2. lsl(x, k) = y
    BY DEF lsl, Wrap
  <2>3. lsl(x, k + 1) = Wrap(a + a)
    <3>1. x * Pow2[k + 1] = a + a
      <4> DEFINE p == Pow2[k]
      <4>1. p \in Nat
        BY Pow2Type
      <4> HIDE DEF p
      <4>2. x * (2 * p) = x * p + x * p
        BY <1>1, <4>1
      <4> QED
        BY <2>1, <4>2 DEF p
    <3>2. lsl(x, k + 1) = (x * Pow2[k + 1]) % Span
      BY DEF lsl
    <3> QED
      BY <3>1, <3>2, Zenon DEF Wrap
  <2> HIDE DEF a
  <2>4. y \in WordSet
    BY <2>1, WrapAdds
  <2>5. y \in Int
    BY <2>4, WordFacts
  <2>6. Wrap(y + y) = Wrap(a + y)
    <3> DEFINE b == y
    <3>1. b \in Int
      BY <2>5
    <3> HIDE DEF b
    <3>2. Wrap(Wrap(a) + b) = Wrap(a + b)
      BY <2>1, <3>1, WrapAdds
    <3> QED
      BY <3>2, Zenon DEF b
  <2>7. Wrap(y + a) = Wrap(a + a)
    BY <2>1, WrapAdds
  <2> HIDE DEF y
  <2>8. a + y = y + a /\ 2 * y = y + y
    BY <2>1, <2>5
  <2>9. Wrap(2 * y) = Wrap(a + a)
    BY <2>6, <2>7, <2>8, Zenon
  <2> QED
    BY <2>2, <2>3, <2>9, Zenon
<1> QED
  BY <1>2, <1>3, <1>4

\* Doubling the modulus keeps one bit more.
LEMMA NextBit ==
  ASSUME NEW x \in Nat, NEW p \in Nat \ {0}
  PROVE  /\ x % (2 * p) \in Nat
         /\ (x % (2 * p) >= p) <=> ((x \div p) % 2 = 1)
         /\ x % (2 * p) = (x % p) + p * ((x \div p) % 2)
<1> DEFINE q == x \div p
           r == x % p
           h == q \div 2
           b == q % 2
           e == r + p * b
           d == 2 * p
<1>1. q \in Nat /\ r \in 0..(p - 1) /\ x = p * q + r
  BY DivMod
<1> HIDE DEF q, r
<1>2. h \in Nat /\ b \in 0..1 /\ q = 2 * h + b
  BY <1>1
<1> HIDE DEF h, b
<1>3. p * b = IF b = 1 THEN p ELSE 0
  BY <1>2
<1>4. e \in 0..(d - 1) /\ d \in Nat \ {0} /\ (e >= p <=> b = 1)
  BY <1>1, <1>2, <1>3
<1>5. x = d * h + e
  <2>1. p * q = p * (2 * h) + p * b
    BY <1>1, <1>2
  <2>2. p * (2 * h) = (2 * p) * h
    BY <1>2
  <2> QED
    BY <1>1, <1>2, <1>3, <2>1, <2>2
<1> HIDE DEF e, d
<1>6. x % d = e
  BY <1>2, <1>4, <1>5, Unique
<1> QED
  BY <1>4, <1>6 DEF d, e, b, q, r

\* The bit that the next shift to the left moves out.
LEMMA LslCarry ==
  ASSUME NEW x \in WordSet, NEW k \in 0..(WORD_BITS - 1)
  PROVE  lsl(x, k) >= MSB <=> Bit(x, WORD_BITS - (k + 1))
<1> DEFINE n == WORD_BITS - k
           j == WORD_BITS - (k + 1)
           p == Pow2[j]
           c == Pow2[k]
           r == x % (2 * p)
<1>1. /\ WORD_BITS \in Nat /\ n \in 0..WORD_BITS /\ WORD_BITS - n = k /\ n = j + 1 /\ j \in Nat
      /\ k \in Nat /\ j + k = WORD_BITS - 1
  BY SpanPower
<1>2. x \in Nat /\ p \in Nat \ {0} /\ c \in Nat \ {0} /\ Pow2[n] = 2 * p
  <2>1. Pow2[j + 1] = 2 * p /\ p \in Nat \ {0}
    BY <1>1, Pow2Next
  <2>2. c \in Nat \ {0} /\ x \in Nat
    BY <1>1, Pow2Type, WordIs
  <2> QED
    BY <1>1, <2>1, <2>2, Zenon
<1>3. lsl(x, k) = r * c
  <2>1. lsl(x, WORD_BITS - n) = (x % Pow2[n]) * Pow2[WORD_BITS - n]
    BY <1>1, RotateFits
  <2> QED
    BY <1>1, <1>2, <2>1, Zenon
<1>4. MSB = p * c
  <2>1. Pow2[j + k] = Pow2[j] * Pow2[k]
    BY <1>1, Pow2Sum
  <2>2. MSB = Pow2[WORD_BITS - 1]
    BY SpanPower
  <2> QED
    BY <1>1, <2>1, <2>2, Zenon
<1>5. Bit(x, j) <=> (x \div p) % 2 = 1
  BY DEF Bit
<1> HIDE DEF p, c, n, j
<1>6. r \in Nat /\ (r >= p <=> (x \div p) % 2 = 1)
  BY <1>2, NextBit
<1> HIDE DEF r
<1>7. r * c >= p * c <=> r >= p
  <2>1. ASSUME r >= p PROVE r * c >= p * c
    BY <1>2, <1>6, <2>1
  <2>2. ASSUME ~(r >= p) PROVE ~(r * c >= p * c)
    <3>1. r + 1 <= p
      BY <1>2, <1>6, <2>2
    <3>2. (r + 1) * c <= p * c
      BY <1>2, <1>6, <3>1
    <3>3. (r + 1) * c = r * c + c
      BY <1>2, <1>6
    <3>4. r * c \in Int /\ p * c \in Int
      BY <1>2, <1>6
    <3> QED
      BY <1>2, <3>2, <3>3, <3>4
  <2> QED
    BY <2>1, <2>2
<1>8. lsl(x, k) >= MSB <=> r * c >= p * c
  BY <1>3, <1>4
<1>9. lsl(x, k) >= MSB <=> Bit(x, j)
  BY <1>5, <1>6, <1>7, <1>8, Zenon
<1> QED
  BY <1>9 DEF j

\* lsr(x, k) is k shifts to the right.
LEMMA LsrSteps ==
  ASSUME NEW x \in WordSet
  PROVE  /\ lsr(x, 0) = x /\ lsr(x, WORD_BITS) = 0
         /\ \A k \in Nat : /\ lsr(x, k) \div 2 = lsr(x, k + 1)
                           /\ lsr(x, k) % 2 = 1 <=> Bit(x, k)
         /\ Bit(x, WORD_BITS - 1) <=> Negative(x)
<1>1. x \in Nat /\ x < Span /\ Pow2[0] = 1 /\ WORD_BITS \in Nat
  BY WordIs, SpanPower
<1>2. lsr(x, 0) = x
  BY <1>1 DEF lsr
<1>3. lsr(x, WORD_BITS) = 0
  <2> DEFINE S == Span
  <2>1. S \in Nat \ {0} /\ S = Pow2[WORD_BITS] /\ x < S
    BY <1>1, SpanPower
  <2>2. lsr(x, WORD_BITS) = x \div S
    BY <2>1, Zenon DEF lsr
  <2> HIDE DEF S
  <2>3. x \div S = 0
    <3> DEFINE n == 0
    <3>1. n \in Nat /\ x \in 0..(S - 1) /\ S * n = 0
      BY <1>1, <2>1
    <3> HIDE DEF n
    <3>2. (S * n + x) \div S = n
      BY <2>1, <3>1, Unique
    <3>3. S * n + x = x
      BY <1>1, <3>1
    <3>4. x \div S = n
      BY <3>2, <3>3, Zenon
    <3> QED
      BY <3>4 DEF n
  <2> QED
    BY <2>2, <2>3
<1>4. ASSUME NEW k \in Nat
      PROVE  lsr(x, k) \div 2 = lsr(x, k + 1) /\ (lsr(x, k) % 2 = 1 <=> Bit(x, k))
  <2> DEFINE p == Pow2[k]
             t == 2
  <2>1. p \in Nat \ {0} /\ t \in Nat \ {0} /\ Pow2[k + 1] = 2 * p /\ 2 * p = p * t
    BY Pow2Next
  <2>2. lsr(x, k) = x \div p /\ lsr(x, k + 1) = x \div Pow2[k + 1]
    BY DEF lsr
  <2> HIDE DEF p, t
  <2>3. x \div (p * t) = (x \div p) \div t
    BY <1>1, <2>1, NestedDiv
  <2>4. lsr(x, k + 1) = lsr(x, k) \div t
    BY <2>1, <2>2, <2>3, Zenon
  <2>5. lsr(x, k) % 2 = 1 <=> Bit(x, k)
    BY DEF lsr, Bit
  <2> QED
    BY <2>4, <2>5 DEF t
<1>5. Bit(x, WORD_BITS - 1) <=> Negative(x)
  <2> DEFINE p == MSB
  <2>1. p \in Nat \ {0} /\ p = Pow2[WORD_BITS - 1] /\ x < 2 * p
    BY <1>1, SpanPower
  <2>2. Bit(x, WORD_BITS - 1) <=> (x \div p) % 2 = 1
    BY <2>1, Zenon DEF Bit
  <2>3. Negative(x) <=> x >= p
    BY DEF Negative
  <2> HIDE DEF p
  <2>4. (x % (2 * p) >= p) <=> ((x \div p) % 2 = 1)
    BY <1>1, <2>1, NextBit
  <2>5. x % (2 * p) = x
    <3> DEFINE S == 2 * p
               n == 0
    <3>1. n \in Nat /\ S \in Nat \ {0} /\ x \in 0..(S - 1) /\ S * n = 0
      BY <1>1, <2>1
    <3> HIDE DEF n, S
    <3>2. (S * n + x) % S = x
      BY <3>1, Unique
    <3>3. S * n + x = x
      BY <1>1, <3>1
    <3>4. x % S = x
      BY <3>2, <3>3, Zenon
    <3> QED
      BY <3>4 DEF S
  <2> QED
    BY <2>2, <2>3, <2>4, <2>5, Zenon
<1> QED
  BY <1>2, <1>3, <1>4, <1>5

\* All bits equal to the topmost one.
Signs(x) == IF Negative(x) THEN Span - 1 ELSE 0

\* asr(x, k) is k shifts to the right that keep the sign.
LEMMA AsrSteps ==
  ASSUME NEW x \in WordSet
  PROVE  /\ asr(x, 0) = x /\ asr(x, WORD_BITS) = Signs(x) /\ asr(x, WORD_BITS - 1) = Signs(x)
         /\ \A k \in Nat :
              (asr(x, k) \div 2) + (IF asr(x, k) >= MSB THEN MSB ELSE 0) = asr(x, k + 1)
         /\ \A k \in 0..(WORD_BITS - 1) : asr(x, k) % 2 = 1 <=> Bit(x, k)
<1> DEFINE u == Not(x)
           M == MSB
<1>1. /\ x \in Nat /\ x < 2 * M /\ M \in Nat \ {0} /\ Span = 2 * M /\ u = 2 * M - 1 - x
      /\ u \in WordSet /\ WORD_BITS \in Nat \ {0} /\ M = Pow2[WORD_BITS - 1]
  BY WordIs, SpanPower, WordFacts DEF Not
<1>2. /\ Negative(x) <=> x >= M
      /\ \A y : Not(y) = 2 * M - 1 - y
  BY <1>1 DEF Negative, Not
<1>3. /\ \A k : Negative(x) => asr(x, k) = Not(lsr(u, k))
      /\ \A k : ~Negative(x) => asr(x, k) = lsr(x, k)
  BY DEF asr, lsr
<1>4. ASSUME NEW v \in WordSet, v < M
      PROVE  lsr(v, WORD_BITS - 1) = 0 /\ lsr(v, WORD_BITS) = 0
  <2>1. v \in Nat /\ lsr(v, WORD_BITS) = 0
    BY WordIs, LsrSteps
  <2>2. lsr(v, WORD_BITS - 1) = v \div M
    BY <1>1, Zenon DEF lsr
  <2> HIDE DEF M
  <2>3. v \div M = 0
    <3> DEFINE n == 0
    <3>1. n \in Nat /\ v \in 0..(M - 1) /\ M * n = 0
      BY <1>1, <1>4, <2>1
    <3> HIDE DEF n
    <3>2. (M * n + v) \div M = n
      BY <1>1, <3>1, Unique
    <3>3. M * n + v = v
      BY <2>1, <3>1
    <3>4. v \div M = n
      BY <3>2, <3>3, Zenon
    <3> QED
      BY <3>4 DEF n
  <2> QED
    BY <2>1, <2>2, <2>3
<1>5. ASSUME NEW v \in WordSet, NEW k \in Nat
      PROVE  lsr(v, k) \in Nat /\ lsr(v, k) <= v
  <2> DEFINE p == Pow2[k]
  <2>1. v \in Nat /\ p \in Nat \ {0} /\ lsr(v, k) = v \div p
    BY WordIs, Pow2Type DEF lsr
  <2> HIDE DEF p
  <2>2. v \div p \in Nat /\ v \div p <= v
    BY <2>1, QuotientBound
  <2> QED
    BY <2>1, <2>2
<1>6. CASE ~Negative(x)
  <2>1. x < M
    BY <1>1, <1>2, <1>6
  <2>2. Signs(x) = 0
    BY <1>6 DEF Signs
  <2>3. lsr(x, 0) = x /\ lsr(x, WORD_BITS) = 0 /\ lsr(x, WORD_BITS - 1) = 0
    BY <1>4, <2>1, LsrSteps
  <2>4. ASSUME NEW k \in Nat
        PROVE  (asr(x, k) \div 2) + (IF asr(x, k) >= MSB THEN MSB ELSE 0) = asr(x, k + 1)
    <3> DEFINE z == lsr(x, k)
    <3>1. z \in Nat /\ z <= x
      BY <1>5
    <3>2. lsr(x, k + 1) = z \div 2
      BY LsrSteps
    <3>3. asr(x, k) = z /\ asr(x, k + 1) = lsr(x, k + 1)
      BY <1>3, <1>6
    <3> HIDE DEF z
    <3>4. ~(z >= M) /\ z \div 2 \in Nat
      BY <1>1, <2>1, <3>1
    <3>5. (z \div 2) + (IF z >= M THEN M ELSE 0) = z \div 2
      BY <3>4
    <3> QED
      BY <3>2, <3>3, <3>5
  <2>5. ASSUME NEW k \in 0..(WORD_BITS - 1) PROVE asr(x, k) % 2 = 1 <=> Bit(x, k)
    <3>1. k \in Nat
      BY <1>1
    <3> QED
      BY <1>3, <1>6, <3>1, LsrSteps
  <2> QED
    BY <1>3, <1>6, <2>2, <2>3, <2>4, <2>5
<1>7. CASE Negative(x)
  <2>1. u < M /\ u \in Nat
    BY <1>1, <1>2, <1>7
  <2>2. Signs(x) = 2 * M - 1
    BY <1>1, <1>7 DEF Signs
  <2>3. lsr(u, 0) = u /\ lsr(u, WORD_BITS) = 0 /\ lsr(u, WORD_BITS - 1) = 0
    BY <1>1, <1>4, <2>1, LsrSteps
  <2>4. Not(u) = x /\ Not(0) = 2 * M - 1
    BY <1>1, <1>2
  <2>5. ASSUME NEW k \in Nat
        PROVE  (asr(x, k) \div 2) + (IF asr(x, k) >= MSB THEN MSB ELSE 0) = asr(x, k + 1)
    <3> DEFINE z == lsr(u, k)
    <3>1. z \in Nat /\ z <= u
      BY <1>1, <1>5
    <3>2. lsr(u, k + 1) = z \div 2
      BY <1>1, LsrSteps
    <3>3. asr(x, k) = Not(z) /\ asr(x, k + 1) = Not(z \div 2)
      BY <1>3, <1>7, <3>2
    <3>4. Not(z) = 2 * M - 1 - z /\ Not(z \div 2) = 2 * M - 1 - (z \div 2)
      BY <1>2
    <3> DEFINE y == 2 * M - 1 - z
    <3> HIDE DEF z, M, u
    <3>5. y >= M /\ y \in Int
      BY <1>1, <2>1, <3>1
    <3>6. y \div 2 = M - 1 - (z \div 2)
      <4> DEFINE a == z \div 2
                 e == z % 2
                 f == M - 1 - a
      <4>1. a \in Nat /\ e \in 0..1 /\ z = 2 * a + e
        BY <3>1
      <4> HIDE DEF a, e
      <4>2. y = 2 * f + (1 - e) /\ f \in Int /\ 1 - e \in 0..1
        BY <1>1, <4>1
      <4> HIDE DEF y, f
      <4>3. y \div 2 = f
        BY <4>2
      <4> QED
        BY <4>3 DEF f, a
    <3>7. (y \div 2) + M = 2 * M - 1 - (z \div 2)
      BY <1>1, <3>1, <3>6
    <3> HIDE DEF y
    <3>8. (y \div 2) + (IF y >= M THEN M ELSE 0) = 2 * M - 1 - (z \div 2)
      BY <3>5, <3>7
    <3>9. asr(x, k) = y /\ asr(x, k + 1) = 2 * M - 1 - (z \div 2)
      BY <3>3, <3>4 DEF y
    <3> QED
      BY <3>8, <3>9 DEF M
  <2>6. ASSUME NEW k \in 0..(WORD_BITS - 1) PROVE asr(x, k) % 2 = 1 <=> Bit(x, k)
    <3> DEFINE j == WORD_BITS - (k + 1)
               p == Pow2[k]
               d == Pow2[j]
               z == lsr(u, k)
               r == u % p
    <3>1. k \in Nat /\ j \in Nat /\ j + k = WORD_BITS - 1
      BY <1>1
    <3>2. p \in Nat \ {0} /\ d \in Nat \ {0} /\ M = d * p
      <4>1. Pow2[j + k] = d * p
        BY <3>1, Pow2Sum
      <4> QED
        BY <1>1, <3>1, <4>1, Pow2Type
    <3>3. z = u \div p /\ lsr(x, k) = x \div p
      BY DEF lsr
    <3>4. z \in Nat /\ r \in 0..(p - 1) /\ u = p * z + r
      BY <2>1, <3>2, <3>3, DivMod
    <3>5. asr(x, k) = 2 * M - 1 - z
      BY <1>2, <1>3, <1>7
    <3>6. Bit(x, k) <=> lsr(x, k) % 2 = 1
      BY <3>1, LsrSteps
    <3>7. x = 2 * M - 1 - u
      BY <1>1
    <3> HIDE DEF j, p, d, z, r, u, M
    <3> DEFINE q == 2 * d - 1 - z
               s == p - 1 - r
    <3>8. x = p * q + s
      <4>1. p * q = 2 * (d * p) - p - p * z
        BY <3>2, <3>4
      <4>2. p * z \in Int
        BY <3>2, <3>4
      <4> QED
        BY <1>1, <2>1, <3>2, <3>4, <3>7, <4>1, <4>2
    <3>9. s \in 0..(p - 1) /\ q \in Int
      BY <3>2, <3>4
    <3> HIDE DEF q, s
    <3>10. (p * q + s) \div p = q
      BY <3>2, <3>9, IntUnique
    <3>11. lsr(x, k) = q
      BY <3>3, <3>8, <3>10, Zenon
    <3>12. q % 2 = 1 <=> (2 * M - 1 - z) % 2 = 1
      BY <1>1, <3>2, <3>4 DEF q
    <3> QED
      BY <3>5, <3>6, <3>11, <3>12, Zenon
  <2>7. /\ asr(x, 0) = x /\ asr(x, WORD_BITS) = Signs(x) /\ asr(x, WORD_BITS - 1) = Signs(x)
    BY <1>3, <1>7, <2>2, <2>3, <2>4
  <2> QED
    BY <2>5, <2>6, <2>7
<1> QED
  BY <1>6, <1>7

\* The rotation by k bits.
Rotated(x, k) == lsr(x, k) + lsl(x, WORD_BITS - k)

\* Rotated(x, k) is k rotations by one bit.
LEMMA RorSteps ==
  ASSUME NEW x \in WordSet
  PROVE  /\ Rotated(x, 0) = x /\ Rotated(x, WORD_BITS) = x
         /\ \A k \in 0..(WORD_BITS - 1) :
              /\ (Rotated(x, k) \div 2) + (Rotated(x, k) % 2) * MSB = Rotated(x, k + 1)
              /\ Rotated(x, k) % 2 = 1 <=> Bit(x, k)
<1>1. x \in Nat /\ WORD_BITS \in Nat \ {0} /\ WORD_BITS - 0 = WORD_BITS /\ WORD_BITS - WORD_BITS = 0
  BY WordIs, SpanPower
<1>2. Rotated(x, 0) = x /\ Rotated(x, WORD_BITS) = x
  <2>1. lsr(x, 0) = x /\ lsr(x, WORD_BITS) = 0 /\ lsl(x, 0) = x /\ lsl(x, WORD_BITS) = 0
    BY LsrSteps, LslSteps
  <2> QED
    BY <1>1, <2>1 DEF Rotated
<1>3. ASSUME NEW k \in 0..(WORD_BITS - 1)
      PROVE  /\ (Rotated(x, k) \div 2) + (Rotated(x, k) % 2) * MSB = Rotated(x, k + 1)
             /\ Rotated(x, k) % 2 = 1 <=> Bit(x, k)
  <2> DEFINE j == WORD_BITS - (k + 1)
             p == Pow2[k]
             d == Pow2[j]
             q == x \div p
             r == x % p
             h == q \div 2
             b == q % 2
             y == Rotated(x, k)
             M == MSB
  <2>1. /\ k \in Nat /\ j \in Nat /\ k + j = WORD_BITS - 1 /\ k \in 0..WORD_BITS
        /\ k + 1 \in 0..WORD_BITS /\ WORD_BITS - k = j + 1
    BY <1>1
  <2>2. p \in Nat \ {0} /\ d \in Nat \ {0} /\ M = p * d
    <3>1. Pow2[k + j] = p * d
      BY <2>1, Pow2Sum
    <3> QED
      BY <2>1, <3>1, Pow2Type, SpanPower
  <2>3. Pow2[j + 1] = 2 * d /\ Pow2[k + 1] = 2 * p
    BY <2>1, Pow2Next
  <2>4. lsr(x, k) = q /\ lsr(x, k + 1) = h
    <3>1. lsr(x, k) = q
      BY DEF lsr
    <3> QED
      BY <2>1, <3>1, LsrSteps
  <2>5. y = q + r * (2 * d)
    <3>1. lsl(x, WORD_BITS - k) = (x % Pow2[k]) * Pow2[WORD_BITS - k]
      BY <2>1, RotateFits
    <3> QED
      BY <2>1, <2>3, <2>4, <3>1, Zenon DEF Rotated
  <2>6. Rotated(x, k + 1) = h + (x % (2 * p)) * d
    <3>1. lsl(x, WORD_BITS - (k + 1)) = (x % Pow2[k + 1]) * Pow2[WORD_BITS - (k + 1)]
      <4> DEFINE n == k + 1
      <4>1. n \in 0..WORD_BITS
        BY <2>1
      <4> HIDE DEF n
      <4>2. lsl(x, WORD_BITS - n) = (x % Pow2[n]) * Pow2[WORD_BITS - n]
        BY <4>1, RotateFits
      <4> QED
        BY <4>2 DEF n
    <3> QED
      BY <2>3, <2>4, <3>1, Zenon DEF Rotated
  <2>7. Bit(x, k) <=> b = 1
    BY DEF Bit
  <2> HIDE DEF j, p, d, M, y
  <2>8. x % (2 * p) = r + p * b
    BY <1>1, <2>2, NextBit
  <2>9. q \in Nat /\ r \in 0..(p - 1)
    BY <1>1, <2>2, DivMod
  <2> HIDE DEF q, r
  <2>10. h \in Nat /\ b \in 0..1 /\ q = 2 * h + b
    BY <2>9
  <2> HIDE DEF h, b
  <2> DEFINE e == r * d
  <2>11. e \in Int /\ r * (2 * d) = 2 * e
    BY <2>2, <2>9
  <2>12. (r + p * b) * d = e + b * M
    <3>1. CASE b = 0
      <4>1. p * b = 0 /\ b * M = 0
        BY <2>2, <3>1
      <4> QED
        BY <2>2, <2>9, <2>11, <4>1
    <3>2. CASE b = 1
      <4>1. p * b = p /\ b * M = p * d
        BY <2>2, <3>2
      <4>2. (r + p) * d = r * d + p * d
        BY <2>2, <2>9
      <4> QED
        BY <4>1, <4>2
    <3> QED
      BY <2>10, <3>1, <3>2
  <2> HIDE DEF e
  <2>13. y = 2 * (h + e) + b
    BY <2>5, <2>10, <2>11
  <2>14. y \div 2 = h + e /\ y % 2 = b
    BY <2>10, <2>11, <2>13
  <2>15. Rotated(x, k + 1) = h + (e + b * M)
    BY <2>6, <2>8, <2>12, Zenon
  <2>16. b * M \in Int
    BY <2>2, <2>10
  <2>17. (y \div 2) + (y % 2) * M = Rotated(x, k + 1)
    <3> DEFINE w == b * M
    <3> HIDE DEF w
    <3>1. h + (e + w) = (h + e) + w
      BY <2>10, <2>11, <2>16 DEF w
    <3>2. (y \div 2) + (y % 2) * M = (h + e) + b * M
      BY <2>14, Zenon
    <3> QED
      BY <2>15, <3>1, <3>2, Zenon DEF w
  <2> QED
    BY <2>7, <2>14, <2>17, Zenon DEF y, M
<1> QED
  BY <1>2, <1>3

\* A shift by one bit, by its mnemonic.
LEMMA OnceIs ==
  ASSUME NEW y
  PROVE  /\ ShiftOnce("lsl", y) = Shift(Wrap(2 * y), y >= MSB)
         /\ ShiftOnce("lsr", y) = Shift(y \div 2, y % 2 = 1)
         /\ ShiftOnce("asr", y) = Shift((y \div 2) + (IF y >= MSB THEN MSB ELSE 0), y % 2 = 1)
         /\ ShiftOnce("ror", y) = Shift((y \div 2) + (y % 2) * MSB, y % 2 = 1)
BY DEF ShiftOnce

\* The parts of an outcome.
LEMMA ShiftParts == ASSUME NEW v, NEW c PROVE Shift(v, c).res = v /\ Shift(v, c).carry = c
BY DEF Shift

\* A shift ends with the last of its steps.
LEMMA LastStep ==
  ASSUME NEW op, NEW x, NEW n \in Nat, NEW c, NEW R, R[0] = x, Leads(R, op, Times(op, n))
  PROVE  /\ n = 0 => ShiftBy(op, x, n, c) = Shift(x, c)
         /\ n > 0 => ShiftBy(op, x, n, c) = ShiftOnce(op, R[Times(op, n) - 1])
<1> DEFINE t == Times(op, n)
<1>1. t \in Nat /\ (n = 0 => t = 0) /\ (n > 0 => t \in 1..t)
  <2>1. WORD_BITS \in Nat \ {0}
    BY SpanPower
  <2>2. n > WORD_BITS => n - 1 \in Nat
    BY <2>1
  <2>3. n - 1 \in Nat => (n - 1) % WORD_BITS \in Nat
    BY <2>1, DivMod
  <2> QED
    BY <2>1, <2>2, <2>3 DEF Times
<1>2. PICK g : Steps(g, op, x, c, t) /\ ShiftBy(op, x, n, c) = g[t]
  BY ShiftByIs
<1>3. Leads(R, op, t)
  OBVIOUS
<1> HIDE DEF t
<1>4. g[0] = Shift(x, c) /\ \A k \in 1..t : g[k] = ShiftOnce(op, R[k - 1])
  <2>1. Follows(g, op, x, c, R, t)
    BY <1>1, <1>2, <1>3, StepsAre
  <2> QED
    BY <2>1 DEF Follows
<1>5. n = 0 => ShiftBy(op, x, n, c) = Shift(x, c)
  BY <1>1, <1>2, <1>4
<1>6. n > 0 => ShiftBy(op, x, n, c) = ShiftOnce(op, R[t - 1])
  BY <1>1, <1>2, <1>4
<1> QED
  BY <1>5, <1>6 DEF t

\* Any number of shifts to the left.
LEMMA LslBy ==
  ASSUME NEW x \in WordSet, NEW n \in Nat, NEW c
  PROVE  /\ n = 0 => ShiftBy("lsl", x, n, c) = Shift(x, c)
         /\ n \in 1..WORD_BITS =>
              ShiftBy("lsl", x, n, c) = Shift(lsl(x, n), Bit(x, WORD_BITS - n))
         /\ n > WORD_BITS => ShiftBy("lsl", x, n, c) = Shift(0, FALSE)
<1> DEFINE R == [k \in Nat |-> lsl(x, k)]
           t == Times("lsl", n)
<1>1. R[0] = x /\ \A k \in Nat : R[k] = lsl(x, k)
  BY LslSteps
<1>2. WORD_BITS \in Nat \ {0} /\ t = IF n <= WORD_BITS THEN n ELSE WORD_BITS + 1
  BY SpanPower DEF Times
<1> HIDE DEF R, t
<1>3. ASSUME NEW k \in 0..(t - 1) PROVE ShiftOnce("lsl", R[k]).res = R[k + 1]
  <2>1. k \in Nat /\ k + 1 \in Nat
    BY <1>2
  <2> QED
    BY <1>1, <2>1, LslSteps, OnceIs, ShiftParts
<1>4. /\ n = 0 => ShiftBy("lsl", x, n, c) = Shift(x, c)
      /\ n > 0 => ShiftBy("lsl", x, n, c) = ShiftOnce("lsl", R[t - 1])
  <2>1. Leads(R, "lsl", t)
    BY <1>3 DEF Leads
  <2> QED
    BY <1>1, <2>1, LastStep DEF t
<1>5. ASSUME n \in 1..WORD_BITS
      PROVE  ShiftBy("lsl", x, n, c) = Shift(lsl(x, n), Bit(x, WORD_BITS - n))
  <2> DEFINE k == n - 1
  <2>1. k \in Nat /\ k \in 0..(WORD_BITS - 1) /\ t - 1 = k /\ k + 1 = n /\ n > 0
    BY <1>2, <1>5
  <2> HIDE DEF k
  <2>2. Wrap(2 * lsl(x, k)) = lsl(x, n) /\ (lsl(x, k) >= MSB <=> Bit(x, WORD_BITS - n))
    BY <2>1, LslSteps, LslCarry
  <2>3. ShiftBy("lsl", x, n, c) = ShiftOnce("lsl", lsl(x, k))
    BY <1>1, <1>4, <2>1
  <2>4. ShiftOnce("lsl", lsl(x, k)) = Shift(Wrap(2 * lsl(x, k)), lsl(x, k) >= MSB)
    BY OnceIs
  <2>5. (lsl(x, k) >= MSB) = Bit(x, WORD_BITS - n)
    BY <2>2 DEF Bit
  <2> QED
    BY <2>2, <2>3, <2>4, <2>5, Zenon
<1>6. ASSUME n > WORD_BITS PROVE ShiftBy("lsl", x, n, c) = Shift(0, FALSE)
  <2>1. t - 1 = WORD_BITS /\ WORD_BITS \in Nat /\ n > 0
    BY <1>2, <1>6
  <2>2. ShiftBy("lsl", x, n, c) = ShiftOnce("lsl", 0)
    BY <1>1, <1>4, <2>1, LslSteps
  <2>3. ShiftOnce("lsl", 0) = Shift(Wrap(2 * 0), 0 >= MSB)
    BY OnceIs
  <2>4. Wrap(2 * 0) = 0 /\ ~(0 >= MSB)
    <3>1. 2 * 0 = 0 /\ 0 \in WordSet /\ MSB \in Nat \ {0}
      BY WordFacts, SpanPower
    <3>2. Wrap(0) = 0
      BY <3>1, WordIs
    <3> QED
      BY <3>1, <3>2
  <2>5. (0 >= MSB) = FALSE
    BY <2>4
  <2> QED
    BY <2>2, <2>3, <2>4, <2>5, Zenon
<1> QED
  BY <1>4, <1>5, <1>6

\* Any number of shifts to the right.
LEMMA LsrBy ==
  ASSUME NEW x \in WordSet, NEW n \in Nat, NEW c
  PROVE  /\ n = 0 => ShiftBy("lsr", x, n, c) = Shift(x, c)
         /\ n \in 1..WORD_BITS => ShiftBy("lsr", x, n, c) = Shift(lsr(x, n), Bit(x, n - 1))
         /\ n > WORD_BITS => ShiftBy("lsr", x, n, c) = Shift(0, FALSE)
<1> DEFINE R == [k \in Nat |-> lsr(x, k)]
           t == Times("lsr", n)
<1>1. R[0] = x /\ \A k \in Nat : R[k] = lsr(x, k)
  BY LsrSteps
<1>2. WORD_BITS \in Nat \ {0} /\ t = IF n <= WORD_BITS THEN n ELSE WORD_BITS + 1
  BY SpanPower DEF Times
<1> HIDE DEF R, t
<1>3. ASSUME NEW k \in 0..(t - 1) PROVE ShiftOnce("lsr", R[k]).res = R[k + 1]
  <2>1. k \in Nat /\ k + 1 \in Nat
    BY <1>2
  <2> QED
    BY <1>1, <2>1, LsrSteps, OnceIs, ShiftParts
<1>4. /\ n = 0 => ShiftBy("lsr", x, n, c) = Shift(x, c)
      /\ n > 0 => ShiftBy("lsr", x, n, c) = ShiftOnce("lsr", R[t - 1])
  <2>1. Leads(R, "lsr", t)
    BY <1>3 DEF Leads
  <2> QED
    BY <1>1, <2>1, LastStep DEF t
<1>5. ASSUME n \in 1..WORD_BITS
      PROVE  ShiftBy("lsr", x, n, c) = Shift(lsr(x, n), Bit(x, n - 1))
  <2> DEFINE k == n - 1
  <2>1. k \in Nat /\ t - 1 = k /\ k + 1 = n /\ n > 0
    BY <1>2, <1>5
  <2>0. k = n - 1
    OBVIOUS
  <2> HIDE DEF k
  <2>2. lsr(x, k) \div 2 = lsr(x, n) /\ (lsr(x, k) % 2 = 1 <=> Bit(x, k))
    BY <2>1, LsrSteps
  <2>3. ShiftBy("lsr", x, n, c) = ShiftOnce("lsr", lsr(x, k))
    BY <1>1, <1>4, <2>1
  <2>4. ShiftOnce("lsr", lsr(x, k)) = Shift(lsr(x, k) \div 2, lsr(x, k) % 2 = 1)
    BY OnceIs
  <2>5. (lsr(x, k) % 2 = 1) = Bit(x, k)
    BY <2>2 DEF Bit
  <2> QED
    BY <2>0, <2>2, <2>3, <2>4, <2>5, Zenon
<1>6. ASSUME n > WORD_BITS PROVE ShiftBy("lsr", x, n, c) = Shift(0, FALSE)
  <2>1. t - 1 = WORD_BITS /\ WORD_BITS \in Nat /\ n > 0
    BY <1>2, <1>6
  <2>2. ShiftBy("lsr", x, n, c) = ShiftOnce("lsr", 0)
    BY <1>1, <1>4, <2>1, LsrSteps
  <2>3. ShiftOnce("lsr", 0) = Shift(0 \div 2, 0 % 2 = 1)
    BY OnceIs
  <2>4. 0 \div 2 = 0 /\ (0 % 2 = 1) = FALSE
    OBVIOUS
  <2> QED
    BY <2>2, <2>3, <2>4, Zenon
<1> QED
  BY <1>4, <1>5, <1>6

\* Any number of arithmetic shifts.
LEMMA AsrBy ==
  ASSUME NEW x \in WordSet, NEW n \in Nat, NEW c
  PROVE  /\ n = 0 => ShiftBy("asr", x, n, c) = Shift(x, c)
         /\ n \in 1..WORD_BITS => ShiftBy("asr", x, n, c) = Shift(asr(x, n), Bit(x, n - 1))
         /\ n > WORD_BITS => ShiftBy("asr", x, n, c) = Shift(Signs(x), Negative(x))
<1> DEFINE R == [k \in Nat |-> asr(x, k)]
           t == Times("asr", n)
           Up(y) == (y \div 2) + (IF y >= MSB THEN MSB ELSE 0)
<1>1. R[0] = x /\ \A k \in Nat : R[k] = asr(x, k)
  BY AsrSteps
<1>2. WORD_BITS \in Nat \ {0} /\ t = IF n <= WORD_BITS THEN n ELSE WORD_BITS + 1
  BY SpanPower DEF Times
<1>u. /\ \A y : ShiftOnce("asr", y) = Shift(Up(y), y % 2 = 1)
      /\ \A k \in Nat : Up(asr(x, k)) = asr(x, k + 1)
  BY OnceIs, AsrSteps
<1> HIDE DEF R, t, Up
<1>3. ASSUME NEW k \in 0..(t - 1) PROVE ShiftOnce("asr", R[k]).res = R[k + 1]
  <2>1. k \in Nat /\ k + 1 \in Nat
    BY <1>2
  <2> QED
    BY <1>1, <1>u, <2>1, ShiftParts
<1>4. /\ n = 0 => ShiftBy("asr", x, n, c) = Shift(x, c)
      /\ n > 0 => ShiftBy("asr", x, n, c) = ShiftOnce("asr", R[t - 1])
  <2>1. Leads(R, "asr", t)
    BY <1>3 DEF Leads
  <2> QED
    BY <1>1, <2>1, LastStep DEF t
<1>5. ASSUME n \in 1..WORD_BITS
      PROVE  ShiftBy("asr", x, n, c) = Shift(asr(x, n), Bit(x, n - 1))
  <2> DEFINE k == n - 1
  <2>1. k \in Nat /\ k \in 0..(WORD_BITS - 1) /\ t - 1 = k /\ k + 1 = n /\ n > 0
    BY <1>2, <1>5
  <2>0. k = n - 1
    OBVIOUS
  <2> HIDE DEF k
  <2>2. Up(asr(x, k)) = asr(x, n) /\ (asr(x, k) % 2 = 1 <=> Bit(x, k))
    BY <1>u, <2>1, AsrSteps
  <2>3. ShiftBy("asr", x, n, c) = ShiftOnce("asr", asr(x, k))
    BY <1>1, <1>4, <2>1
  <2>4. ShiftOnce("asr", asr(x, k)) = Shift(Up(asr(x, k)), asr(x, k) % 2 = 1)
    BY <1>u
  <2>5. (asr(x, k) % 2 = 1) = Bit(x, k)
    BY <2>2 DEF Bit
  <2> QED
    BY <2>0, <2>2, <2>3, <2>4, <2>5, Zenon
<1>6. ASSUME n > WORD_BITS PROVE ShiftBy("asr", x, n, c) = Shift(Signs(x), Negative(x))
  <2> DEFINE w == Signs(x)
  <2>1. t - 1 = WORD_BITS /\ WORD_BITS \in Nat /\ n > 0
    BY <1>2, <1>6
  <2>2. ShiftBy("asr", x, n, c) = ShiftOnce("asr", w)
    BY <1>1, <1>4, <2>1, AsrSteps
  <2>3. ShiftOnce("asr", w) = Shift(Up(w), w % 2 = 1)
    BY <1>u
  <2>4. Up(w) = w /\ (w % 2 = 1) = Negative(x)
    <3> DEFINE M == MSB
    <3>1. M \in Nat \ {0} /\ w = IF Negative(x) THEN 2 * M - 1 ELSE 0
      BY SpanPower DEF Signs
    <3>2. Up(w) = (w \div 2) + (IF w >= M THEN M ELSE 0) /\ Negative(x) \in BOOLEAN
      BY DEF Up, Negative
    <3> HIDE DEF w, M
    <3>3. CASE Negative(x)
      <4>1. w = 2 * (M - 1) + 1 /\ M - 1 \in Nat /\ w >= M
        BY <3>1, <3>3
      <4>2. w \div 2 = M - 1 /\ w % 2 = 1
        BY <4>1
      <4>3. (w \div 2) + (IF w >= M THEN M ELSE 0) = w
        BY <3>1, <3>3, <4>1, <4>2
      <4>4. Up(w) = w
        BY <3>2, <4>3
      <4> QED
        BY <3>2, <3>3, <4>2, <4>4, Zenon
    <3>4. CASE ~Negative(x)
      <4>1. w = 0 /\ ~(w >= M)
        BY <3>1, <3>4
      <4>2. w \div 2 = 0 /\ w % 2 # 1
        BY <4>1
      <4>3. (w \div 2) + (IF w >= M THEN M ELSE 0) = w
        BY <4>1, <4>2
      <4>4. Up(w) = w
        BY <3>2, <4>3
      <4> QED
        BY <3>2, <3>4, <4>2, <4>4, Zenon
    <3> QED
      BY <3>3, <3>4
  <2> QED
    BY <2>2, <2>3, <2>4, Zenon
<1> QED
  BY <1>4, <1>5, <1>6

\* Any number of rotations.
LEMMA RorBy ==
  ASSUME NEW x \in WordSet, NEW n \in Nat \ {0}, NEW c
  PROVE  ShiftBy("ror", x, n, c) = Rotate(x, n, c)
<1> DEFINE R == [k \in Nat |-> Rotated(x, k)]
           t == Times("ror", n)
           W == WORD_BITS
           m == n % W
           Up(y) == (y \div 2) + (y % 2) * MSB
<1>1. R[0] = x /\ \A k \in Nat : R[k] = Rotated(x, k)
  BY RorSteps
<1>2. W \in Nat \ {0}
  BY SpanPower
<1>3. t = (IF m = 0 THEN W ELSE m) /\ t \in 1..W /\ m \in 0..(W - 1)
  <2>1. t = IF n <= W THEN n ELSE 1 + ((n - 1) % W)
    BY DEF Times
  <2> DEFINE q == n \div W
  <2>2. q \in Nat /\ m \in 0..(W - 1) /\ n = W * q + m
    BY <1>2, DivMod
  <2> HIDE DEF q, m, t, W
  <2>3. CASE m = 0
    <3>1. q >= 1
      <4>1. q = 0 => W * q = 0
        BY <1>2
      <4> QED
        BY <2>2, <2>3, <4>1
    <3> DEFINE h == q - 1
               r == W - 1
    <3>2. h \in Nat /\ r \in 0..(W - 1) /\ n - 1 = W * h + r
      <4>1. W * h = W * q - W
        BY <1>2, <2>2, <3>1
      <4>2. W * q \in Int
        BY <1>2, <2>2
      <4> QED
        BY <1>2, <2>2, <2>3, <3>1, <4>1, <4>2
    <3> HIDE DEF h, r
    <3>3. (W * h + r) % W = r
      BY <1>2, <3>2, Unique
    <3>4. (n - 1) % W = r
      BY <3>2, <3>3, Zenon
    <3>5. n >= W
      <4>1. W * q >= W
        BY <1>2, <2>2, <3>1
      <4>2. W * q \in Int
        BY <1>2, <2>2
      <4> QED
        BY <1>2, <2>2, <2>3, <4>1, <4>2
    <3>6. t = W
      BY <1>2, <2>1, <3>4, <3>5 DEF r
    <3> QED
      BY <1>2, <2>2, <2>3, <3>6
  <2>4. CASE m # 0
    <3> DEFINE r == m - 1
    <3>2. r \in 0..(W - 1) /\ n - 1 = W * q + r
      <4>2. W * q \in Int
        BY <1>2, <2>2
      <4> QED
        BY <1>2, <2>2, <2>4, <4>2
    <3> HIDE DEF r
    <3>3. (W * q + r) % W = r
      BY <1>2, <2>2, <3>2, Unique
    <3>4. (n - 1) % W = r
      BY <3>2, <3>3, Zenon
    <3>5. n <= W => n = m
      <4>1. q >= 1 => W * q >= W
        BY <1>2, <2>2
      <4>2. W * q \in Int /\ (q = 0 => W * q = 0)
        BY <1>2, <2>2
      <4> QED
        BY <1>2, <2>2, <2>4, <4>1, <4>2
    <3>6. 1 + r = m
      BY <2>2 DEF r
    <3>7. t = m
      BY <1>2, <2>1, <3>4, <3>5, <3>6
    <3> QED
      BY <1>2, <2>2, <2>4, <3>7
  <2> QED
    BY <2>3, <2>4
<1>u. /\ \A y : ShiftOnce("ror", y) = Shift(Up(y), y % 2 = 1)
      /\ \A k \in 0..(W - 1) : /\ Up(Rotated(x, k)) = Rotated(x, k + 1)
                               /\ Rotated(x, k) % 2 = 1 <=> Bit(x, k)
  BY OnceIs, RorSteps
<1> HIDE DEF R, t, Up, W, m
<1>4. ASSUME NEW k \in 0..(t - 1) PROVE ShiftOnce("ror", R[k]).res = R[k + 1]
  <2>1. k \in Nat /\ k + 1 \in Nat /\ k \in 0..(W - 1)
    BY <1>2, <1>3
  <2> QED
    BY <1>1, <1>u, <2>1, ShiftParts
<1>5. ShiftBy("ror", x, n, c) = ShiftOnce("ror", R[t - 1])
  <2>1. n \in Nat /\ n > 0
    OBVIOUS
  <2>2. Leads(R, "ror", t)
    BY <1>4 DEF Leads
  <2> QED
    BY <1>1, <2>1, <2>2, LastStep DEF t
<1> DEFINE k == t - 1
<1>6. k \in Nat /\ k \in 0..(W - 1) /\ k + 1 = t /\ k = t - 1
  BY <1>2, <1>3
<1> HIDE DEF k
<1>7. ShiftBy("ror", x, n, c) = Shift(Up(Rotated(x, k)), Rotated(x, k) % 2 = 1)
  BY <1>1, <1>5, <1>6, <1>u
<1>8. Up(Rotated(x, k)) = Rotated(x, t) /\ (Rotated(x, k) % 2 = 1) = Bit(x, t - 1)
  <2>1. Up(Rotated(x, k)) = Rotated(x, k + 1) /\ (Rotated(x, k) % 2 = 1 <=> Bit(x, k))
    BY <1>6, <1>u
  <2>2. (Rotated(x, k) % 2 = 1) = Bit(x, k)
    BY <2>1 DEF Bit
  <2> QED
    BY <1>6, <2>1, <2>2
<1>9. ShiftBy("ror", x, n, c) = Shift(Rotated(x, t), Bit(x, t - 1))
  BY <1>7, <1>8, Zenon
<1>10. Rotate(x, n, c) = IF m = 0 THEN Shift(x, Negative(x)) ELSE Shift(Rotated(x, m), Bit(x, m - 1))
  BY DEF Rotate, m, W, Rotated
<1>11. CASE m = 0
  <2>1. Rotated(x, W) = x /\ (Bit(x, W - 1) <=> Negative(x))
    BY RorSteps, LsrSteps DEF W
  <2>2. Bit(x, W - 1) = Negative(x)
    BY <2>1 DEF Bit, Negative
  <2> QED
    BY <1>3, <1>9, <1>10, <1>11, <2>1, <2>2, Zenon
<1>12. CASE m # 0
  BY <1>3, <1>9, <1>10, <1>12, Zenon
<1> QED
  BY <1>11, <1>12

\* A shift by nothing.
LEMMA ZeroShift ==
  ASSUME NEW op, NEW x, NEW c PROVE ShiftBy(op, x, 0, c) = Shift(x, c)
<1> DEFINE R == [k \in {0} |-> x]
           n == 0
<1>1. R[0] = x /\ n \in Nat /\ n = 0
  OBVIOUS
<1>2. Times(op, n) = 0
  <2>1. 0 <= WORD_BITS
    BY SpanPower
  <2> QED
    BY <2>1 DEF Times
<1> HIDE DEF R, n
<1>3. Leads(R, op, Times(op, n))
  <2>1. 0..(Times(op, n) - 1) = {}
    BY <1>2
  <2> QED
    BY <2>1 DEF Leads
<1>4. n = 0 => ShiftBy(op, x, n, c) = Shift(x, c)
  BY <1>1, <1>3, LastStep
<1> QED
  BY <1>1, <1>4

\* A shift by the width of the word.
LEMMA WholeShift ==
  ASSUME NEW x \in WordSet
  PROVE  /\ lsl(x, WORD_BITS) = 0 /\ lsr(x, WORD_BITS) = 0
         /\ asr(x, WORD_BITS) = asr(x, WORD_BITS - 1) /\ Signs(x) = asr(x, WORD_BITS - 1)
         /\ Bit(x, WORD_BITS - 1) = Negative(x)
<1>1. Bit(x, WORD_BITS - 1) <=> Negative(x)
  BY LsrSteps
<1>2. Bit(x, WORD_BITS - 1) = Negative(x)
  BY <1>1 DEF Bit, Negative
<1> QED
  BY <1>2, LslSteps, LsrSteps, AsrSteps

\* The amount of a shift by an immediate.
Amount(op, n) == IF op # 0 /\ n = 0 THEN WORD_BITS ELSE n

\* ShiftImm is as many shifts by one bit.
LEMMA ImmExact ==
  ASSUME NEW op \in 0..2, NEW x \in WordSet, NEW n \in 0..(WORD_BITS - 1), NEW c
  PROVE  ShiftImm(op, x, n, c) = ShiftBy(ShiftNames[op + 1], x, Amount(op, n), c)
<1> DEFINE W == WORD_BITS
           a == Amount(op, n)
           s0 == Shift(x, c)
           s1 == Shift(lsl(x, n), Bit(x, W - n))
           s2 == Shift(0, Negative(x))
           s3 == Shift(lsr(x, n), Bit(x, n - 1))
           s4 == Shift(asr(x, W - 1), Negative(x))
           s5 == Shift(asr(x, n), Bit(x, n - 1))
           t  == ShiftImm(op, x, n, c)
<1>1. t = CASE op = 0 /\ n = 0 -> s0
            [] op = 0 /\ n > 0 -> s1
            [] op = 1 /\ n = 0 -> s2
            [] op = 1 /\ n > 0 -> s3
            [] op = 2 /\ n = 0 -> s4
            [] op = 2 /\ n > 0 -> s5
  BY DEF ShiftImm
<1>2. W \in Nat \ {0} /\ W \in 1..W /\ n \in Nat /\ (n > 0 => n \in 1..W) /\ (op # 0 /\ n = 0 => a = W)
      /\ (op = 0 \/ n > 0 => a = n)
  BY SpanPower DEF Amount
<1>3. ShiftNames[0 + 1] = "lsl" /\ ShiftNames[1 + 1] = "lsr" /\ ShiftNames[2 + 1] = "asr"
  BY DEF ShiftNames
<1>4. /\ ShiftBy("lsl", x, 0, c) = s0 /\ (n > 0 => ShiftBy("lsl", x, n, c) = s1)
      /\ (n > 0 => ShiftBy("lsr", x, n, c) = s3) /\ (n > 0 => ShiftBy("asr", x, n, c) = s5)
  <2>1. ShiftBy("lsl", x, 0, c) = s0
    BY ZeroShift
  <2>2. n \in Nat /\ (n > 0 => n \in 1..WORD_BITS)
    BY <1>2
  <2>3. n > 0 => ShiftBy("lsl", x, n, c) = Shift(lsl(x, n), Bit(x, WORD_BITS - n))
    BY <2>2, LslBy, Zenon
  <2>4. n > 0 => ShiftBy("lsr", x, n, c) = Shift(lsr(x, n), Bit(x, n - 1))
    BY <2>2, LsrBy, Zenon
  <2>5. n > 0 => ShiftBy("asr", x, n, c) = Shift(asr(x, n), Bit(x, n - 1))
    BY <2>2, AsrBy, Zenon
  <2> QED
    BY <2>1, <2>3, <2>4, <2>5, Zenon
<1>5. ShiftBy("lsr", x, W, c) = s2 /\ ShiftBy("asr", x, W, c) = s4
  <2>1. /\ ShiftBy("lsr", x, W, c) = Shift(lsr(x, W), Bit(x, W - 1))
        /\ ShiftBy("asr", x, W, c) = Shift(asr(x, W), Bit(x, W - 1))
    <3>1. W \in Nat /\ W \in 1..W
      BY <1>2
    <3>2. ShiftBy("lsr", x, W, c) = Shift(lsr(x, W), Bit(x, W - 1))
      BY <3>1, LsrBy, Zenon
    <3>3. ShiftBy("asr", x, W, c) = Shift(asr(x, W), Bit(x, W - 1))
      BY <3>1, AsrBy, Zenon
    <3> QED
      BY <3>2, <3>3
  <2> QED
    BY <2>1, WholeShift, Zenon
<1> HIDE DEF W, a, s0, s1, s2, s3, s4, s5, t
<1>6. op = 0 /\ n = 0 => t = s0
  BY <1>1
<1>7. op = 0 /\ n > 0 => t = s1
  BY <1>1, <1>2
<1>8. op = 1 /\ n = 0 => t = s2
  BY <1>1
<1>9. op = 1 /\ n > 0 => t = s3
  BY <1>1, <1>2
<1>10. op = 2 /\ n = 0 => t = s4
  BY <1>1
<1>11. op = 2 /\ n > 0 => t = s5
  BY <1>1, <1>2
<1>12. op = 0 => t = ShiftBy("lsl", x, a, c)
  BY <1>2, <1>4, <1>6, <1>7
<1>13. op = 1 => t = ShiftBy("lsr", x, a, c)
  BY <1>2, <1>4, <1>5, <1>8, <1>9
<1>14. op = 2 => t = ShiftBy("asr", x, a, c)
  BY <1>2, <1>4, <1>5, <1>10, <1>11
<1>15. op = 0 \/ op = 1 \/ op = 2
  OBVIOUS
<1> QED
  BY <1>3, <1>12, <1>13, <1>14, <1>15, Zenon DEF a, t

\* ShiftReg is as many shifts by one bit.
LEMMA RegExact ==
  ASSUME NEW op \in {2, 3, 4, 7}, NEW x \in WordSet, NEW sh \in Nat, NEW c
  PROVE  ShiftReg(op, x, sh, c) = ShiftBy(AluNames[op + 1], x, sh, c)
<1> DEFINE W == WORD_BITS
           s0 == Shift(x, c)
           s1 == Shift(lsl(x, sh), Bit(x, W - sh))
           s2 == Shift(0, sh = W /\ Bit(x, 0))
           s3 == Shift(lsr(x, sh), Bit(x, sh - 1))
           s4 == Shift(0, sh = W /\ Negative(x))
           s5 == Shift(asr(x, sh), Bit(x, sh - 1))
           s6 == Shift(asr(x, W - 1), Negative(x))
           s7 == Rotate(x, sh, c)
           t  == ShiftReg(op, x, sh, c)
<1>1. t = CASE sh = 0 -> s0
            [] op = 2 /\ sh > 0 -> IF sh < W THEN s1 ELSE s2
            [] op = 3 /\ sh > 0 -> IF sh < W THEN s3 ELSE s4
            [] op = 4 /\ sh > 0 -> IF sh < W THEN s5 ELSE s6
            [] op = 7 /\ sh > 0 -> s7
  BY DEF ShiftReg
<1>2. W \in Nat \ {0} /\ (sh > 0 /\ sh < W => sh \in 1..W) /\ W \in 1..W /\ W - W = 0
  BY SpanPower
<1>3. /\ AluNames[2 + 1] = "lsl" /\ AluNames[3 + 1] = "lsr" /\ AluNames[4 + 1] = "asr"
      /\ AluNames[7 + 1] = "ror"
  BY DEF AluNames
<1>4. sh > 0 /\ sh < W => /\ ShiftBy("lsl", x, sh, c) = s1 /\ ShiftBy("lsr", x, sh, c) = s3
                          /\ ShiftBy("asr", x, sh, c) = s5
  <2>1. sh \in Nat /\ (sh > 0 /\ sh < W => sh \in 1..W)
    BY <1>2
  <2>2. sh > 0 /\ sh < W => ShiftBy("lsl", x, sh, c) = s1
    BY <2>1, LslBy, Zenon
  <2>3. sh > 0 /\ sh < W => ShiftBy("lsr", x, sh, c) = s3
    BY <2>1, LsrBy, Zenon
  <2>4. sh > 0 /\ sh < W => ShiftBy("asr", x, sh, c) = s5
    BY <2>1, AsrBy, Zenon
  <2> QED
    BY <2>2, <2>3, <2>4, Zenon
<1>5. ASSUME ~(sh < W)
      PROVE  /\ ShiftBy("lsl", x, sh, c) = s2 /\ ShiftBy("lsr", x, sh, c) = s4
             /\ ShiftBy("asr", x, sh, c) = s6
  <2>1. CASE sh = W
    <3>1. /\ ShiftBy("lsl", x, W, c) = Shift(lsl(x, W), Bit(x, W - W))
          /\ ShiftBy("lsr", x, W, c) = Shift(lsr(x, W), Bit(x, W - 1))
          /\ ShiftBy("asr", x, W, c) = Shift(asr(x, W), Bit(x, W - 1))
      <4>1. W \in Nat /\ W \in 1..W
        BY <1>2
      <4>2. ShiftBy("lsl", x, W, c) = Shift(lsl(x, W), Bit(x, W - W))
        BY <4>1, LslBy, Zenon
      <4>3. ShiftBy("lsr", x, W, c) = Shift(lsr(x, W), Bit(x, W - 1))
        BY <4>1, LsrBy, Zenon
      <4>4. ShiftBy("asr", x, W, c) = Shift(asr(x, W), Bit(x, W - 1))
        BY <4>1, AsrBy, Zenon
      <4> QED
        BY <4>2, <4>3, <4>4
    <3>2. (sh = W /\ Bit(x, 0)) = Bit(x, W - W) /\ (sh = W /\ Negative(x)) = Negative(x)
      <4>1. Bit(x, 0) \in BOOLEAN /\ Negative(x) \in BOOLEAN
        BY DEF Bit, Negative
      <4> QED
        BY <1>2, <2>1, <4>1, Zenon
    <3> QED
      BY <2>1, <3>1, <3>2, WholeShift, Zenon
  <2>2. CASE sh # W
    <3>1. sh > W
      BY <1>2, <1>5, <2>2
    <3>2. /\ ShiftBy("lsl", x, sh, c) = Shift(0, FALSE) /\ ShiftBy("lsr", x, sh, c) = Shift(0, FALSE)
          /\ ShiftBy("asr", x, sh, c) = Shift(Signs(x), Negative(x))
      <4>1. sh \in Nat
        OBVIOUS
      <4>2. ShiftBy("lsl", x, sh, c) = Shift(0, FALSE)
        BY <3>1, <4>1, LslBy, Zenon
      <4>3. ShiftBy("lsr", x, sh, c) = Shift(0, FALSE)
        BY <3>1, <4>1, LsrBy, Zenon
      <4>4. ShiftBy("asr", x, sh, c) = Shift(Signs(x), Negative(x))
        BY <3>1, <4>1, AsrBy, Zenon
      <4> QED
        BY <4>2, <4>3, <4>4
    <3>3. (sh = W /\ Bit(x, 0)) = FALSE /\ (sh = W /\ Negative(x)) = FALSE
      BY <2>2, Zenon
    <3> QED
      BY <3>2, <3>3, WholeShift, Zenon
  <2> QED
    BY <2>1, <2>2
<1>6. sh > 0 => ShiftBy("ror", x, sh, c) = s7
  BY RorBy
<1>7. /\ ShiftBy("lsl", x, 0, c) = s0 /\ ShiftBy("lsr", x, 0, c) = s0
      /\ ShiftBy("asr", x, 0, c) = s0 /\ ShiftBy("ror", x, 0, c) = s0
  BY ZeroShift
<1> HIDE DEF W, s0, s1, s2, s3, s4, s5, s6, s7, t
<1>8. sh = 0 => t = s0
  BY <1>1
<1>9. op = 2 /\ sh > 0 => t = IF sh < W THEN s1 ELSE s2
  BY <1>1
<1>10. op = 3 /\ sh > 0 => t = IF sh < W THEN s3 ELSE s4
  BY <1>1
<1>11. op = 4 /\ sh > 0 => t = IF sh < W THEN s5 ELSE s6
  BY <1>1
<1>12. op = 7 /\ sh > 0 => t = s7
  BY <1>1
<1>13. op = 2 => t = ShiftBy("lsl", x, sh, c)
  BY <1>4, <1>5, <1>7, <1>8, <1>9
<1>14. op = 3 => t = ShiftBy("lsr", x, sh, c)
  BY <1>4, <1>5, <1>7, <1>8, <1>10
<1>15. op = 4 => t = ShiftBy("asr", x, sh, c)
  BY <1>4, <1>5, <1>7, <1>8, <1>11
<1>16. op = 7 => t = ShiftBy("ror", x, sh, c)
  BY <1>6, <1>7, <1>8, <1>12
<1>17. op = 2 \/ op = 3 \/ op = 4 \/ op = 7
  OBVIOUS
<1> QED
  BY <1>3, <1>13, <1>14, <1>15, <1>16, <1>17, Zenon DEF t

\* The mnemonics of shifts.
ShiftMnemonics == {"lsl", "lsr", "asr", "ror"}

\* The opcodes that are shown as shifts.
LEMMA ShiftNamed ==
  ASSUME NEW i \in Halfwords, disassemble(0, i).mnemonic \in ShiftMnemonics
  PROVE  LET m == disassemble(0, i).mnemonic
         IN  \/ /\ Field(i, 8, 8) \in 0..23 /\ m = ShiftNames[Field(i, 11, 5) + 1]
             \/ /\ Field(i, 8, 8) \in 64..67 /\ Field(i, 6, 4) \in {2, 3, 4, 7}
                /\ m = AluNames[Field(i, 6, 4) + 1]
<1> DEFINE k == Field(i, 8, 8)
           o == Field(i, 6, 4)
           q == Field(i, 11, 5)
           d == disassemble(0, i)
           m == d.mnemonic
<1>1. /\ k \in 0..255 /\ o \in 0..15 /\ q = k \div 8 /\ Field(i, 9, 1) \in 0..1
      /\ Field(i, 11, 1) \in 0..1 /\ Field(i, 8, 2) \in 0..3
  BY TopFields, FieldTypes
<1>2. /\ k \in 0..23 => m = ShiftNames[q + 1]
      /\ k \in 24..31 => m = SumNames[Field(i, 9, 1) + 1]
      /\ k \in 32..63 => m = ByteNames[(q - 4) + 1]
      /\ k \in 64..67 => m = AluNames[o + 1]
      /\ k \in 68..71 => m = HighNames[Field(i, 8, 2) + 1]
      /\ k \in 176..191 => m = StackNames[Field(i, 11, 1) + 1]
      /\ k \in 208..222 => m = "b<cond>"
      /\ k \in 224..231 => m = "b"
      /\ k \in 240..247 => m = "bl_h"
      /\ k \in 248..255 => m = "bl_l"
      /\ k \in 96..159 => m = LoadNames[Field(i, 11, 1) + 1]
      /\ k \in 192..207 => m = ListNames[Field(i, 11, 1) + 1]
      /\ k \in 72..95 \cup 160..175 \cup {223} \cup 232..239 => m = "??"
  BY DisassembleIs, DisassemblyFacts
<1>3. m \in ShiftMnemonics
  OBVIOUS
<1>4. /\ \A x \in 0..1 : /\ SumNames[x + 1] \notin ShiftMnemonics
                         /\ StackNames[x + 1] \notin ShiftMnemonics
                         /\ LoadNames[x + 1] \notin ShiftMnemonics
                         /\ ListNames[x + 1] \notin ShiftMnemonics
      /\ \A x \in 0..3 : /\ ByteNames[x + 1] \notin ShiftMnemonics
                         /\ HighNames[x + 1] \notin ShiftMnemonics
  <2>1. /\ SumNames[1] \notin ShiftMnemonics /\ SumNames[2] \notin ShiftMnemonics
        /\ StackNames[1] \notin ShiftMnemonics /\ StackNames[2] \notin ShiftMnemonics
        /\ LoadNames[1] \notin ShiftMnemonics /\ LoadNames[2] \notin ShiftMnemonics
        /\ ListNames[1] \notin ShiftMnemonics /\ ListNames[2] \notin ShiftMnemonics
    BY DEF SumNames, StackNames, LoadNames, ListNames, ShiftMnemonics
  <2>2. /\ ByteNames[1] \notin ShiftMnemonics /\ ByteNames[2] \notin ShiftMnemonics
        /\ ByteNames[3] \notin ShiftMnemonics /\ ByteNames[4] \notin ShiftMnemonics
        /\ HighNames[1] \notin ShiftMnemonics /\ HighNames[2] \notin ShiftMnemonics
        /\ HighNames[3] \notin ShiftMnemonics /\ HighNames[4] \notin ShiftMnemonics
    BY DEF ByteNames, HighNames, ShiftMnemonics
  <2>3. \A x \in 0..1 : x + 1 = 1 \/ x + 1 = 2
    OBVIOUS
  <2>4. \A x \in 0..3 : x + 1 = 1 \/ x + 1 = 2 \/ x + 1 = 3 \/ x + 1 = 4
    OBVIOUS
  <2> QED
    BY <2>1, <2>2, <2>3, <2>4, Zenon
<1>5. ASSUME NEW x \in 0..15, AluNames[x + 1] \in ShiftMnemonics PROVE x \in {2, 3, 4, 7}
  <2>1. /\ AluNames[1] \notin ShiftMnemonics /\ AluNames[2] \notin ShiftMnemonics
        /\ AluNames[6] \notin ShiftMnemonics /\ AluNames[7] \notin ShiftMnemonics
        /\ AluNames[9] \notin ShiftMnemonics /\ AluNames[10] \notin ShiftMnemonics
        /\ AluNames[11] \notin ShiftMnemonics /\ AluNames[12] \notin ShiftMnemonics
        /\ AluNames[13] \notin ShiftMnemonics /\ AluNames[14] \notin ShiftMnemonics
        /\ AluNames[15] \notin ShiftMnemonics /\ AluNames[16] \notin ShiftMnemonics
    BY DEF AluNames, ShiftMnemonics
  <2>2. \/ x \in {2, 3, 4, 7} \/ x + 1 = 1 \/ x + 1 = 2 \/ x + 1 = 6 \/ x + 1 = 7 \/ x + 1 = 9
        \/ x + 1 = 10 \/ x + 1 = 11 \/ x + 1 = 12 \/ x + 1 = 13 \/ x + 1 = 14 \/ x + 1 = 15
        \/ x + 1 = 16
    OBVIOUS
  <2> QED
    BY <1>5, <2>1, <2>2, Zenon
<1>6. /\ "b<cond>" \notin ShiftMnemonics /\ "b" \notin ShiftMnemonics /\ "bl_h" \notin ShiftMnemonics
      /\ "bl_l" \notin ShiftMnemonics /\ "??" \notin ShiftMnemonics
  BY DEF ShiftMnemonics
<1> DEFINE u == Field(i, 9, 1)
           v == Field(i, 11, 1)
           w == Field(i, 8, 2)
<1> HIDE DEF k, o, q, d, m, u, v, w
<1>7. k \notin 24..31 /\ k \notin 176..191 /\ k \notin 96..159 /\ k \notin 192..207
  BY <1>1, <1>2, <1>3, <1>4 DEF u, v
<1>8. k \notin 32..63 /\ k \notin 68..71
  <2>1. k \in 32..63 => q - 4 \in 0..3
    BY <1>1
  <2>2. k \notin 32..63
    <3> DEFINE y == q - 4
    <3> HIDE DEF y
    <3> QED
      BY <1>2, <1>3, <1>4, <2>1 DEF y
  <2> QED
    BY <1>1, <1>2, <1>3, <1>4, <2>2 DEF w
<1>9. /\ k \notin 208..222 /\ k \notin 224..231 /\ k \notin 240..247 /\ k \notin 248..255
      /\ k \notin 72..95 \cup 160..175 \cup {223} \cup 232..239
  BY <1>2, <1>3, <1>6
<1>10. k \in 0..23 \/ k \in 64..67
  BY <1>1, <1>7, <1>8, <1>9
<1>11. k \in 64..67 => o \in {2, 3, 4, 7}
  BY <1>1, <1>2, <1>3, <1>5
<1> QED
  BY <1>2, <1>10, <1>11, Zenon DEF k, o, q, m, d

\* The machine t has the result and the carry of a shift.
Gives(t, rd, shift) ==
  t.regs[rd] = shift.res /\ t.apsr.C = shift.carry /\ t.apsr.Z = (shift.res = 0)

\* What a shift leaves.
LEMMA ShiftedDoes ==
  ASSUME NEW s \in Machines, NEW rd \in 0..7, NEW shift, IsShift(shift)
  PROVE  Gives(Shifted(s, rd, shift), rd, shift)
<1> DEFINE g == [s.apsr EXCEPT !.C = shift.carry]
           v == shift.res
           c == shift.carry
           f == update_nz(g, v)
<1>1. s.apsr \in FlagSets /\ v \in WordSet /\ c \in BOOLEAN /\ rd \in 0..15
  BY MachineFields DEF IsShift
<1>2. g \in FlagSets /\ g.C = c
  BY <1>1 DEF FlagSets
<1> HIDE DEF g
<1>3. f \in FlagSets /\ f.C = c /\ f.Z = (v = 0)
  <2>1. f \in FlagSets
    BY <1>2, FlagTypes
  <2>2. f = [g EXCEPT !.N = Negative(v), !.Z = (v = 0)]
    BY DEF update_nz
  <2>3. ASSUME NEW y, NEW z PROVE [g EXCEPT !.N = y, !.Z = z].C = g.C /\ [g EXCEPT !.N = y, !.Z = z].Z = z
    BY <1>2 DEF FlagSets
  <2> HIDE DEF f
  <2>4. f.C = g.C /\ f.Z = (v = 0)
    BY <2>2, <2>3, Zenon
  <2> QED
    BY <1>2, <2>1, <2>4, Zenon
<1>4. Shifted(s, rd, shift) = Result(s, rd, v, f)
  BY DEF Shifted, g
<1> HIDE DEF f, v, c
<1>5. Sets(Result(s, rd, v, f), s, rd, v, f)
  BY <1>1, <1>3, ResultFacts
<1>6. Result(s, rd, v, f).regs[rd] = v /\ Result(s, rd, v, f).apsr = f
  BY <1>5 DEF Sets
<1> QED
  BY <1>3, <1>4, <1>6, Zenon DEF Gives, v, c

\* The shift that was executed.
LEMMA ShiftStep ==
  ASSUME core \in Machines, NEW i \in Halfwords, Ran(i),
         disassemble(0, i).mnemonic \in ShiftMnemonics
  PROVE  Gives(core', Field(i, 0, 3),
               ShiftBy(disassemble(0, i).mnemonic, ShiftOperands(i).x, ShiftOperands(i).n, core.apsr.C))
<1> DEFINE s == Fetched(core)
           t == execute(s, i)
           c == core.apsr.C
           g == Operand
           k == Field(i, 8, 8)
           m == disassemble(0, i).mnemonic
           rd == Field(i, 0, 3)
           x == ShiftOperands(i).x
           n == ShiftOperands(i).n
<1>1. core'.regs = t.regs /\ core'.apsr = t.apsr /\ i \in Instrs
  BY DEF Ran
<1>2. s \in Machines /\ s.regs = g /\ s.apsr.C = c /\ c \in BOOLEAN
  <2>1. s \in Machines /\ SameButRegs(s, core) /\ s.regs = g
    BY FetchedFacts DEF Operand
  <2>2. s.apsr = core.apsr
    BY <2>1 DEF SameButRegs
  <2> QED
    BY <2>1, <2>2, MachineFields
<1>3. /\ rd \in 0..7 /\ rd \in 0..15 /\ Field(i, 3, 3) \in 0..15 /\ Field(i, 6, 5) \in 0..31
      /\ g[rd] \in WordSet /\ g[Field(i, 3, 3)] \in WordSet
  <2>1. rd \in 0..7 /\ rd \in 0..15 /\ Field(i, 3, 3) \in 0..15 /\ Field(i, 6, 5) \in 0..31
    BY FieldTypes
  <2>2. \A r \in 0..15 : s.regs[r] \in WordSet
    BY <1>2, MachineFields
  <2> QED
    BY <1>2, <2>1, <2>2
<1>4. ASSUME NEW shift, IsShift(shift), t = Shifted(s, rd, shift), shift = ShiftBy(m, x, n, c)
      PROVE  Gives(core', rd, ShiftBy(m, x, n, c))
  <2>1. Gives(t, rd, shift)
    BY <1>2, <1>3, <1>4, ShiftedDoes
  <2> QED
    BY <1>1, <1>4, <2>1, Zenon DEF Gives
<1> HIDE DEF s, t, c, g
<1>5. CASE k \in 0..23 /\ m = ShiftNames[Field(i, 11, 5) + 1]
  <2> DEFINE op == Field(i, 11, 5)
             a  == Field(i, 6, 5)
             y  == g[Field(i, 3, 3)]
             shift == ShiftImm(op, y, a, c)
  <2>1. op \in 0..2 /\ Field(i, 11, 2) = op /\ Field(i, 10, 6) # 16
    BY <1>5, TopFields
  <2>2. t = exec_shift_imm(s, i)
    BY <1>5, ExecuteIs DEF t
  <2>3. t = Shifted(s, rd, shift)
    BY <1>2, <2>1, <2>2, Zenon DEF exec_shift_imm
  <2>4. a \in 0..(WORD_BITS - 1) /\ a \in Nat
    <3>1. a < WORD_BITS
      BY <1>1, <2>1, ShiftAssumption
    <3>2. a \in 0..31 /\ WORD_BITS \in Nat
      BY <1>3, SpanPower
    <3> HIDE DEF a
    <3> QED
      BY <3>1, <3>2
  <2>5. ShiftOperands(i) = [x |-> y, n |-> Amount(op, a)]
    BY <2>1, Zenon DEF ShiftOperands, Amount, g
  <2>6. x = y /\ n = Amount(op, a)
    BY <2>5
  <2>7. shift = ShiftBy(ShiftNames[op + 1], y, Amount(op, a), c)
    BY <1>3, <2>1, <2>4, ImmExact
  <2>8. IsShift(shift)
    BY <1>2, <1>3, <2>1, <2>4, ShiftImmType
  <2> HIDE DEF shift
  <2>9. shift = ShiftBy(m, x, n, c)
    BY <1>5, <2>6, <2>7, Zenon
  <2> QED
    BY <1>4, <2>3, <2>8, <2>9, Zenon DEF c
<1>6. CASE k \in 64..67 /\ Field(i, 6, 4) \in {2, 3, 4, 7} /\ m = AluNames[Field(i, 6, 4) + 1]
  <2> DEFINE op == Field(i, 6, 4)
             y  == g[rd]
             b  == g[Field(i, 3, 3)]
             sh == b % 256
             shift == ShiftReg(op, y, sh, c)
  <2>1. Field(i, 10, 6) = 16
    BY <1>6, TopFields
  <2>2. t = exec_alu(s, i)
    BY <1>6, ExecuteIs DEF t
  <2>3. t = Shifted(s, rd, shift)
    <3>1. exec_alu(s, i) = exec_alu_shift(s, op, rd, s.regs[rd], s.regs[Field(i, 3, 3)])
      BY <1>6 DEF exec_alu
    <3> QED
      BY <1>2, <2>2, <3>1, Zenon DEF exec_alu_shift
  <2>4. sh \in Nat
    <3>1. b \in Nat
      BY <1>3, WordFacts
    <3> HIDE DEF b
    <3> QED
      BY <3>1
  <2>5. ShiftOperands(i) = [x |-> y, n |-> sh]
    BY <2>1, Zenon DEF ShiftOperands, g
  <2>6. x = y /\ n = sh
    BY <2>5
  <2> HIDE DEF sh
  <2>7. shift = ShiftBy(AluNames[op + 1], y, sh, c)
    BY <1>3, <1>6, <2>4, RegExact
  <2>8. IsShift(shift)
    BY <1>2, <1>3, <1>6, <2>4, ShiftRegType
  <2> HIDE DEF shift
  <2>9. shift = ShiftBy(m, x, n, c)
    BY <1>6, <2>6, <2>7, Zenon
  <2> QED
    BY <1>4, <2>3, <2>8, <2>9, Zenon DEF c
<1>7. \/ k \in 0..23 /\ m = ShiftNames[Field(i, 11, 5) + 1]
      \/ k \in 64..67 /\ Field(i, 6, 4) \in {2, 3, 4, 7} /\ m = AluNames[Field(i, 6, 4) + 1]
  BY ShiftNamed
<1> QED
  BY <1>5, <1>6, <1>7 DEF c

\* Every shift and rotation that cpu.cpp executes, by an immediate or by a
\* register, has the result and the carry of as many shifts by one bit, for
\* every word and every amount: 0, the width of the word and more included.
THEOREM ShiftsCorrect == MachineSpec => ShiftsAreExact
<1>1. LoadInv /\ MachineInv /\ [MachineNext]_simVars => LoadInv' /\ MachineInv'
  BY LoadNext, MachineNextTypes
<1>2. ASSUME LoadInv, MachineInv, [MachineNext]_simVars, Executed
      PROVE  LET op == disassemble(0, Opcode).mnemonic
             IN  op \in {"lsl", "lsr", "asr", "ror"} =>
                   LET o == ShiftOperands(Opcode)
                       want == ShiftBy(op, o.x, o.n, core.apsr.C)
                   IN  /\ core'.regs[Field(Opcode, 0, 3)] = want.res
                       /\ core'.apsr.C = want.carry
                       /\ core'.apsr.Z = (want.res = 0)
  <2>1. core \in Machines
    BY <1>2 DEF MachineInv
  <2>2. PICK i \in Halfwords : Ran(i)
    BY <1>2, MachineNextTypes
  <2>3. Opcode = i
    BY <2>2 DEF Ran, Opcode
  <2>4. disassemble(0, i).mnemonic \in ShiftMnemonics =>
          Gives(core', Field(i, 0, 3),
                ShiftBy(disassemble(0, i).mnemonic, ShiftOperands(i).x, ShiftOperands(i).n, core.apsr.C))
    BY <2>1, <2>2, ShiftStep
  <2> QED
    BY <2>3, <2>4, Zenon DEF Gives, ShiftMnemonics
<1> QED
  BY <1>1, <1>2, LoadInit, MachineStart, PTL DEF MachineSpec, ShiftsAreExact

-----------------------------------------------------------------------------
(***************************************************************************)
(* SimulationRunner of src/parallel_sim.h for every sequence of programs,  *)
(* every batch and every interleaving of the threads, the consumer of the  *)
(* log and the failure of a thread's start.                                *)
(*                                                                         *)
(* The properties speak of the end of run().  SimInv says what the threads *)
(* have come to on the way: before its last call of cpu.run a thread has   *)
(* used up as many steps as it has executed cycles, and has not yet come   *)
(* to the end of its program, whatever the checkpoints were (Outcome);     *)
(* only the thread that holds the lock is inside push_back, and it will    *)
(* store at the end of the log (LockInv).                                  *)
(***************************************************************************)

Events == {"START", "CHECKPOINT", "DONE", "EXCEPTION"}
Places == {"none", "push", "store", "run", "collect", "count", "done"}

Logged == [sim : Sims, event : Events, cycles : Nat]

\* run() starts the threads in order, and joins them in order.
MainInv ==
  /\ tasks \in [Sims -> TaskType]
  /\ main \in {"start", "return", "unwind", "returned", "threw"}
  /\ started \in 0..N /\ joined \in 0..started
  /\ pc \in [Sims -> Places]
  /\ \A k \in Sims : (k > started <=> pc[k] = "none") /\ (k <= joined => pc[k] = "done")
  /\ main \in {"return", "returned"} => started = N
  /\ main \in {"returned", "threw"} => joined = started

\* The thread has not yet left the loop of run_one.
Working(place, ev) ==
  \/ place \in {"none", "run"}
  \/ place \in {"push", "store"} /\ ev \in {"START", "CHECKPOINT"}

\* The last record of thread k, which runs program p.
LastRecord(p, k) ==
  [sim |-> k, cycles |-> Expected(p).cycles,
   event |-> IF Expected(p).exception THEN "EXCEPTION" ELSE "DONE"]

EndsWith(s, r) == Len(s) \in Nat \ {0} /\ s[Len(s)] = r

\* res is the result with those members.
IsResult(res, cyc, completed, exception) ==
  /\ res = [x \in {"cycles", "completed", "exception"} |-> res[x]]
  /\ res.cycles = cyc /\ res.completed = completed /\ res.exception = exception

\* What a thread at that place has to show.
Outcome(p, k, place, ev, res, cyc, rem, log) ==
  /\ ev \in Events /\ cyc \in Nat /\ rem \in Nat
  /\ Working(place, ev) =>
       /\ IsResult(res, 0, FALSE, FALSE)
       /\ cyc + rem = p.max_steps
       /\ cyc <= p.length /\ (~p.fits => cyc = 0)
  /\ place = "collect" =>
       /\ IsResult(res, 0, Expected(p).completed, Expected(p).exception)
       /\ cyc = Expected(p).cycles
  /\ ~Working(place, ev) /\ place # "collect" =>
       /\ IsResult(res, Expected(p).cycles, Expected(p).completed, Expected(p).exception)
       /\ cyc = Expected(p).cycles
       /\ ev = LastRecord(p, k).event
  /\ place \in {"count", "done"} => EndsWith(log, LastRecord(p, k))

ThreadInv ==
  /\ DOMAIN results = Sims /\ DOMAIN remaining = Sims /\ DOMAIN cycles = Sims
  /\ DOMAIN event = Sims /\ DOMAIN pushed = Sims
  /\ \A k \in Sims : pc[k] = "none" => event[k] = "START"
  /\ \A k \in Sims :
       Outcome(tasks[k], k, pc[k], event[k], results[k], cycles[k], remaining[k], pushed[k])

Finished == {k \in Sims : pc[k] = "done"}

CountInv == total_run = Cardinality(Finished)

LockInv ==
  /\ m_log \in Seq(Logged)
  /\ DOMAIN end = Sims
  /\ \A k \in Sims : pc[k] = "store" => m_mtx = k /\ end[k] = Len(m_log)

LogInv ==
  /\ drained \in [Sims -> Seq(Logged)] /\ pushed \in [Sims -> Seq(Logged)]
  /\ NoRecordLost

SimInv == MainInv /\ ThreadInv /\ CountInv /\ LockInv /\ LogInv
-----------------------------------------------------------------------------
(* The records of one thread.                                              *)

\* g[n] is what is picked from the first n records, for n up to m.
Picks(g, log, i, m) ==
  g = [n \in 0..m |-> IF n = 0 THEN <<>> ELSE With(g[n - 1], log[n], i)]

\* The recursion of RecordsOf exists.
LEMMA PicksExist ==
  ASSUME NEW log, NEW i
  PROVE  \A m \in Nat : \E g : Picks(g, log, i, m)
<1> DEFINE S == {m \in Nat : \E g : Picks(g, log, i, m)}
<1>1. 0 \in S
  <2> DEFINE g == [n \in 0..0 |-> <<>>]
  <2>1. g = [n \in 0..0 |-> IF n = 0 THEN <<>> ELSE With(g[n - 1], log[n], i)]
    OBVIOUS
  <2>2. Picks(g, log, i, 0)
    BY <2>1 DEF Picks
  <2> QED
    BY <2>2
<1>2. ASSUME NEW m \in S PROVE m + 1 \in S
  <2>1. PICK g : Picks(g, log, i, m)
    BY <1>2
  <2>m. m \in Nat
    BY <1>2
  <2> DEFINE h == [n \in 0..(m + 1) |->
                     IF n = m + 1 THEN With(g[m], log[n], i) ELSE g[n]]
  <2>2. /\ DOMAIN g = 0..m
        /\ \A n \in 0..m : g[n] = IF n = 0 THEN <<>> ELSE With(g[n - 1], log[n], i)
    BY <2>1 DEF Picks
  <2>3. \A n \in 0..(m + 1) : h[n] = IF n = 0 THEN <<>> ELSE With(h[n - 1], log[n], i)
    BY <2>m, <2>2
  <2>4. h = [n \in 0..(m + 1) |-> IF n = 0 THEN <<>> ELSE With(h[n - 1], log[n], i)]
    BY <2>3
  <2>5. Picks(h, log, i, m + 1)
    BY <2>4 DEF Picks
  <2> QED
    BY <2>m, <2>5
<1>3. S = Nat
  <2>1. S \subseteq Nat
    OBVIOUS
  <2> HIDE DEF S
  <2> QED
    BY <1>1, <1>2, <2>1, Induction
<1> QED
  BY <1>3

\* Logs with the same first records have the same picked.
LEMMA PicksAgree ==
  ASSUME NEW i, NEW log, NEW g, NEW m \in Nat, Picks(g, log, i, m),
         NEW log2, NEW h, NEW k \in Nat, Picks(h, log2, i, k), m <= k,
         \A n \in 1..m : log[n] = log2[n]
  PROVE  \A n \in 0..m : g[n] = h[n]
<1> DEFINE S == {n \in Nat : n <= m => g[n] = h[n]}
<1>g. \A n \in 0..m : g[n] = IF n = 0 THEN <<>> ELSE With(g[n - 1], log[n], i)
  BY DEF Picks
<1>h. \A n \in 0..k : h[n] = IF n = 0 THEN <<>> ELSE With(h[n - 1], log2[n], i)
  BY DEF Picks
<1>1. 0 \in S
  BY <1>g, <1>h
<1>2. ASSUME NEW n \in S PROVE n + 1 \in S
  <2>1. CASE n + 1 <= m
    <3>1. /\ n \in Nat /\ n + 1 \in 1..m /\ n + 1 \in 0..m /\ n + 1 \in 0..k
          /\ n + 1 # 0 /\ n + 1 - 1 = n
      BY <2>1
    <3>2. g[n] = h[n]
      BY <2>1, <3>1
    <3>3. g[n + 1] = With(g[n], log[n + 1], i) /\ h[n + 1] = With(h[n], log2[n + 1], i)
      BY <1>g, <1>h, <3>1
    <3> QED
      BY <3>1, <3>2, <3>3
  <2> QED
    BY <2>1
<1>3. S = Nat
  <2>1. S \subseteq Nat
    OBVIOUS
  <2> HIDE DEF S
  <2> QED
    BY <1>1, <1>2, <2>1, Induction
<1> QED
  BY <1>3

\* RecordsOf is what is picked from the whole log.
LEMMA RecordsPicked ==
  ASSUME NEW R, NEW log \in Seq(R), NEW i
  PROVE  \E g : Picks(g, log, i, Len(log)) /\ RecordsOf(log, i) = g[Len(log)]
<1> DEFINE f == CHOOSE g : Picks(g, log, i, Len(log))
<1>1. Picks(f, log, i, Len(log))
  BY PicksExist
<1>2. RecordsOf(log, i) = f[Len(log)]
  BY DEF RecordsOf, Picks
<1> QED
  BY <1>1, <1>2
\* An empty log holds no record.
LEMMA RecordsEmpty ==
  ASSUME NEW i
  PROVE  RecordsOf(<<>>, i) = <<>>
<1>1. <<>> \in Seq({}) /\ Len(<<>>) = 0
  OBVIOUS
<1>2. PICK g : Picks(g, <<>>, i, 0) /\ RecordsOf(<<>>, i) = g[0]
  BY <1>1, RecordsPicked
<1> QED
  BY <1>2 DEF Picks

\* A record more.
LEMMA RecordsAppend ==
  ASSUME NEW R, NEW log \in Seq(R), NEW r \in R, NEW i
  PROVE  RecordsOf(Append(log, r), i) = With(RecordsOf(log, i), r, i)
<1> DEFINE long == Append(log, r)
           m == Len(log)
<1>0. /\ long \in Seq(R) /\ m \in Nat /\ Len(long) = m + 1 /\ long[m + 1] = r
      /\ \A n \in 1..m : log[n] = long[n]
  OBVIOUS
<1> HIDE DEF long, m
<1>1. PICK g : Picks(g, log, i, m) /\ RecordsOf(log, i) = g[m]
  BY RecordsPicked DEF m
<1>2. PICK h : Picks(h, long, i, m + 1) /\ RecordsOf(long, i) = h[m + 1]
  BY <1>0, RecordsPicked
<1>3. m \in 0..m /\ m <= m + 1 /\ m + 1 \in Nat /\ m + 1 \in 0..(m + 1) /\ m + 1 # 0
      /\ m + 1 - 1 = m
  BY <1>0
<1>4. g[m] = h[m]
  BY <1>0, <1>1, <1>2, <1>3, PicksAgree
<1>5. h[m + 1] = With(h[m], long[m + 1], i)
  BY <1>2, <1>3 DEF Picks
<1>6. RecordsOf(long, i) = With(RecordsOf(log, i), r, i)
  BY <1>0, <1>1, <1>2, <1>4, <1>5
<1> QED
  BY <1>6 DEF long

\* The records of a thread are records.
LEMMA RecordsType ==
  ASSUME NEW R, NEW log \in Seq(R), NEW i
  PROVE  RecordsOf(log, i) \in Seq(R)
<1>1. PICK g : Picks(g, log, i, Len(log)) /\ RecordsOf(log, i) = g[Len(log)]
  BY RecordsPicked
<1>2. Len(log) \in Nat /\ \A n \in 1..Len(log) : log[n] \in R
  OBVIOUS
<1> DEFINE S == {n \in Nat : n <= Len(log) => g[n] \in Seq(R)}
<1>3. \A n \in 0..Len(log) : g[n] = IF n = 0 THEN <<>> ELSE With(g[n - 1], log[n], i)
  BY <1>1 DEF Picks
<1>4. 0 \in S
  <2>1. g[0] = <<>>
    BY <1>2, <1>3
  <2>2. <<>> \in Seq(R)
    OBVIOUS
  <2>3. g[0] \in Seq(R)
    BY <2>1, <2>2, Zenon
  <2> QED
    BY <2>3
<1>5. ASSUME NEW n \in S PROVE n + 1 \in S
  <2>1. CASE n + 1 <= Len(log)
    <3>1. /\ n \in Nat /\ n + 1 \in 0..Len(log) /\ n + 1 # 0 /\ n + 1 - 1 = n
          /\ n + 1 \in 1..Len(log) /\ n <= Len(log)
      BY <1>2, <2>1
    <3>2. g[n] \in Seq(R) /\ log[n + 1] \in R
      BY <1>2, <3>1
    <3>3. g[n + 1] = With(g[n], log[n + 1], i)
      BY <1>3, <3>1
    <3>4. With(g[n], log[n + 1], i) \in Seq(R)
      BY <3>2 DEF With
    <3> QED
      BY <3>1, <3>3, <3>4
  <2> QED
    BY <2>1
<1>6. S = Nat
  <2>1. S \subseteq Nat
    OBVIOUS
  <2> HIDE DEF S
  <2> QED
    BY <1>4, <1>5, <2>1, Induction
<1>7. g[Len(log)] \in Seq(R)
  BY <1>2, <1>6
<1> QED
  BY <1>1, <1>7

-----------------------------------------------------------------------------
(* What the steps of a thread do to it.                                    *)

\* What the tasks are.
LEMMA TaskFacts ==
  ASSUME NEW p \in TaskType
  PROVE  /\ p.max_steps \in Nat /\ p.length \in Nat
         /\ p.ends \in {"halt", "throw"} /\ p.fits \in BOOLEAN
         /\ Expected(p).cycles \in Nat
         /\ Expected(p).completed \in BOOLEAN /\ Expected(p).exception \in BOOLEAN
<1>1. /\ p.max_steps \in Nat /\ p.length \in Nat
      /\ p.ends \in {"halt", "throw"} /\ p.fits \in BOOLEAN
  BY DEF TaskType
<1> QED
  BY <1>1 DEF Expected

\* cpu.run is asked for some of the steps that remain.
LEMMA LimitFacts ==
  ASSUME NEW k \in Sims, remaining[k] \in Nat
  PROVE  /\ Limit(k) \in 0..remaining[k]
         /\ Limit(k) = 0 => remaining[k] = 0
<1>1. Batch \in Nat \ {0}
  BY ParallelSimAssumption
<1> QED
  BY <1>1 DEF Limit

\* Assignments to one member of a result.
LEMMA ResultUpdates ==
  ASSUME NEW res, NEW c, NEW d, NEW e, IsResult(res, c, d, e), NEW x
  PROVE  /\ IsResult([res EXCEPT !.cycles = x], x, d, e)
         /\ IsResult([res EXCEPT !.completed = x], c, x, e)
         /\ IsResult([res EXCEPT !.exception = x], c, d, x)
BY DEF IsResult

\* A result is what its members are.
LEMMA ResultEqual ==
  ASSUME NEW c, NEW d, NEW e
  PROVE  /\ IsResult([cycles |-> c, completed |-> d, exception |-> e], c, d, e)
         /\ \A res : IsResult(res, c, d, e) =>
              res = [cycles |-> c, completed |-> d, exception |-> e]
BY DEF IsResult

\* A program that ends within its steps.
LEMMA OutcomeEnds ==
  ASSUME NEW p \in TaskType, NEW k, NEW ev, NEW res, NEW cyc, NEW rem, NEW log,
         Outcome(p, k, "run", ev, res, cyc, rem, log),
         NEW lim \in 0..rem, p.fits, p.length < cyc + lim
  PROVE  /\ p.ends = "throw" =>
              Outcome(p, k, "collect", ev, [res EXCEPT !.exception = TRUE],
                      p.length, rem, log)
         /\ p.ends = "halt" =>
              Outcome(p, k, "collect", ev, [res EXCEPT !.completed = TRUE],
                      p.length + 1, rem, log)
<1>0. /\ p.max_steps \in Nat /\ p.length \in Nat
      /\ ev \in Events /\ cyc \in Nat /\ rem \in Nat /\ IsResult(res, 0, FALSE, FALSE)
      /\ cyc + rem = p.max_steps
  BY TaskFacts DEF Outcome, Working
<1>1. p.length < p.max_steps
  BY <1>0
<1>2. ASSUME p.ends = "throw"
      PROVE  Expected(p) = [cycles |-> p.length,
                            completed |-> FALSE, exception |-> TRUE]
  BY <1>1, <1>2 DEF Expected
<1>3. ASSUME p.ends = "halt"
      PROVE  Expected(p) = [cycles |-> p.length + 1,
                            completed |-> TRUE, exception |-> FALSE]
  BY <1>1, <1>3 DEF Expected
<1>4. ASSUME p.ends = "throw"
      PROVE  Outcome(p, k, "collect", ev, [res EXCEPT !.exception = TRUE],
                     p.length, rem, log)
  <2>1. IsResult([res EXCEPT !.exception = TRUE], 0, FALSE, TRUE)
    BY <1>0, ResultUpdates
  <2>2. /\ Expected(p).completed = FALSE /\ Expected(p).exception = TRUE
        /\ Expected(p).cycles = p.length
    BY <1>2, <1>4
  <2> QED
    BY <1>0, <2>1, <2>2 DEF Outcome, Working
<1>5. ASSUME p.ends = "halt"
      PROVE  Outcome(p, k, "collect", ev, [res EXCEPT !.completed = TRUE],
                     p.length + 1, rem, log)
  <2>1. IsResult([res EXCEPT !.completed = TRUE], 0, TRUE, FALSE)
    BY <1>0, ResultUpdates
  <2>2. /\ Expected(p).completed = TRUE /\ Expected(p).exception = FALSE
        /\ Expected(p).cycles = p.length + 1
    BY <1>3, <1>5
  <2>3. p.length + 1 \in Nat
    BY <1>0
  <2> QED
    BY <1>0, <2>1, <2>2, <2>3 DEF Outcome, Working
<1> QED
  BY <1>4, <1>5

\* A program that does not fit.
LEMMA OutcomeUnfit ==
  ASSUME NEW p \in TaskType, NEW k, NEW ev, NEW res, NEW cyc, NEW rem, NEW log,
         Outcome(p, k, "run", ev, res, cyc, rem, log), ~p.fits
  PROVE  Outcome(p, k, "collect", ev, [res EXCEPT !.exception = TRUE], cyc, rem, log)
<1>0. /\ ev \in Events /\ cyc = 0 /\ rem \in Nat /\ IsResult(res, 0, FALSE, FALSE)
  BY DEF Outcome, Working
<1>1. Expected(p) = [cycles |-> 0, completed |-> FALSE, exception |-> TRUE]
  BY DEF Expected
<1>2. IsResult([res EXCEPT !.exception = TRUE], 0, FALSE, TRUE)
  BY <1>0, ResultUpdates
<1>3. /\ Expected(p).completed = FALSE /\ Expected(p).exception = TRUE
      /\ Expected(p).cycles = 0
  BY <1>1
<1> QED
  BY <1>0, <1>2, <1>3 DEF Outcome, Working

\* A batch that does not come to the end of the program.
LEMMA OutcomeBatch ==
  ASSUME NEW p \in TaskType, NEW k, NEW ev, NEW res, NEW cyc, NEW rem, NEW log,
         Outcome(p, k, "run", ev, res, cyc, rem, log),
         NEW lim \in 0..rem, p.fits, ~(p.length < cyc + lim),
         NEW place \in {"push", "run"}
  PROVE  Outcome(p, k, place, "CHECKPOINT", res, cyc + lim, rem - lim, log)
<1>0. /\ p.max_steps \in Nat /\ p.length \in Nat
      /\ cyc \in Nat /\ rem \in Nat /\ IsResult(res, 0, FALSE, FALSE)
      /\ cyc + rem = p.max_steps
  BY TaskFacts DEF Outcome, Working
<1>1. /\ cyc + lim \in Nat /\ rem - lim \in Nat
      /\ (cyc + lim) + (rem - lim) = p.max_steps
      /\ cyc + lim <= p.length
  BY <1>0
<1> QED
  BY <1>0, <1>1 DEF Outcome, Working, Events

\* A program that does not end within its steps.
LEMMA OutcomeCutOff ==
  ASSUME NEW p \in TaskType, NEW k, NEW ev, NEW res, NEW cyc, NEW rem, NEW log,
         Outcome(p, k, "run", ev, res, cyc, rem, log), p.fits, rem = 0
  PROVE  Outcome(p, k, "collect", ev, [res EXCEPT !.completed = FALSE], cyc, rem, log)
<1>0. /\ p.max_steps \in Nat /\ p.length \in Nat
      /\ ev \in Events /\ cyc \in Nat /\ rem \in Nat /\ IsResult(res, 0, FALSE, FALSE)
      /\ cyc + rem = p.max_steps /\ cyc <= p.length
  BY TaskFacts DEF Outcome, Working
<1>1. cyc = p.max_steps /\ ~(p.length < p.max_steps)
  BY <1>0
<1>2. Expected(p) = [cycles |-> p.max_steps,
                     completed |-> FALSE, exception |-> FALSE]
  BY <1>1 DEF Expected
<1>3. IsResult([res EXCEPT !.completed = FALSE], 0, FALSE, FALSE)
  BY <1>0, ResultUpdates
<1>4. /\ Expected(p).completed = FALSE /\ Expected(p).exception = FALSE
      /\ Expected(p).cycles = cyc
  BY <1>1, <1>2
<1> QED
  BY <1>0, <1>3, <1>4 DEF Outcome, Working

\* The result is complete.
LEMMA OutcomeCollect ==
  ASSUME NEW p \in TaskType, NEW k, NEW ev, NEW res, NEW cyc, NEW rem, NEW log,
         Outcome(p, k, "collect", ev, res, cyc, rem, log)
  PROVE  Outcome(p, k, "push", IF res.exception THEN "EXCEPTION" ELSE "DONE",
                 [res EXCEPT !.cycles = cyc], cyc, rem, log)
<1>0. /\ cyc = Expected(p).cycles
      /\ IsResult(res, 0, Expected(p).completed, Expected(p).exception)
      /\ cyc \in Nat /\ rem \in Nat
  BY DEF Outcome, Working
<1>1. res.exception = Expected(p).exception
  BY <1>0 DEF IsResult
<1>2. IsResult([res EXCEPT !.cycles = cyc],
               Expected(p).cycles, Expected(p).completed, Expected(p).exception)
  BY <1>0, ResultUpdates
<1> QED
  BY <1>0, <1>1, <1>2 DEF Outcome, Working, Events, LastRecord

\* The record is in the log.
LEMMA OutcomeStored ==
  ASSUME NEW p \in TaskType, NEW k, NEW ev, NEW res, NEW cyc, NEW rem, NEW log, NEW log2,
         Outcome(p, k, "store", ev, res, cyc, rem, log),
         EndsWith(log2, [sim |-> k, event |-> ev, cycles |-> cyc])
  PROVE  Outcome(p, k, IF ev \in {"DONE", "EXCEPTION"} THEN "count" ELSE "run",
                 ev, res, cyc, rem, log2)
<1>1. CASE ev \in {"DONE", "EXCEPTION"}
  <2>1. /\ ~Working("store", ev)
        /\ cyc = Expected(p).cycles /\ ev = LastRecord(p, k).event
    BY <1>1 DEF Outcome, Working
  <2>2. [sim |-> k, event |-> ev, cycles |-> cyc] = LastRecord(p, k)
    BY <2>1 DEF LastRecord
  <2>3. EndsWith(log2, LastRecord(p, k))
    BY <2>2
  <2> QED
    BY <1>1, <2>1, <2>3 DEF Outcome, Working
<1>2. CASE ev \notin {"DONE", "EXCEPTION"}
  <2>1. Working("store", ev)
    BY <1>2 DEF Outcome, Working, Events
  <2> QED
    BY <1>2, <2>1 DEF Outcome, Working
<1> QED
  BY <1>1, <1>2

-----------------------------------------------------------------------------
(* What the steps of a thread do to the program.                           *)

\* f2 differs from f at thread k only.
Only(f, f2, k) == DOMAIN f2 = Sims /\ \A j \in Sims \ {k} : f2[j] = f[j]

\* A step of one thread keeps the invariant of the others.
LEMMA OneThread ==
  ASSUME ThreadInv, NEW k \in Sims, tasks' = tasks,
         Only(pc, pc', k), Only(event, event', k), Only(results, results', k),
         Only(cycles, cycles', k), Only(remaining, remaining', k),
         Only(pushed, pushed', k), pc'[k] # "none",
         Outcome(tasks[k], k, pc'[k], event'[k], results'[k], cycles'[k], remaining'[k], pushed'[k])
  PROVE  ThreadInv'
<1>1. ASSUME NEW j \in Sims
      PROVE  Outcome(tasks[j], j, pc'[j], event'[j], results'[j], cycles'[j], remaining'[j], pushed'[j])
  <2>1. CASE j = k
    BY <2>1
  <2>2. CASE j # k
    <3>1. /\ pc'[j] = pc[j] /\ event'[j] = event[j] /\ results'[j] = results[j]
          /\ cycles'[j] = cycles[j] /\ remaining'[j] = remaining[j]
          /\ pushed'[j] = pushed[j]
      BY <2>2 DEF Only
    <3> QED
      BY <3>1 DEF ThreadInv
  <2> QED
    BY <2>1, <2>2
<1> QED
  BY <1>1 DEF ThreadInv, Only

\* A thread that is alive moves to another place than its end.
Moved(k, place) ==
  /\ k \in Sims /\ pc[k] \notin {"none", "done"}
  /\ place \in Places \ {"none"}
  /\ pc' = [pc EXCEPT ![k] = place]
  /\ UNCHANGED mainVars

\* A thread that moves keeps MainInv.
LEMMA MovedMain ==
  ASSUME MainInv, NEW k, NEW place, Moved(k, place)
  PROVE  MainInv'
<1>1. /\ k \in Sims /\ pc[k] # "none" /\ pc[k] # "done"
      /\ place \in Places /\ place # "none"
      /\ pc' = [pc EXCEPT ![k] = place]
      /\ main' = main /\ started' = started /\ joined' = joined /\ tasks' = tasks
  BY DEF Moved, mainVars
<1>2. ~(k <= joined) /\ ~(k > started)
  BY <1>1 DEF MainInv
<1>3. \A j \in Sims : pc'[j] = IF j = k THEN place ELSE pc[j]
  BY <1>1 DEF MainInv
<1>4. pc' \in [Sims -> Places]
  BY <1>1 DEF MainInv
<1>5. \A j \in Sims : (j > started <=> pc'[j] = "none") /\ (j <= joined => pc'[j] = "done")
  BY <1>1, <1>2, <1>3 DEF MainInv
<1> QED
  BY <1>1, <1>4, <1>5 DEF MainInv

\* A thread that does not end is not counted.
LEMMA MovedCount ==
  ASSUME MainInv, CountInv, NEW k, NEW place, Moved(k, place), place # "done",
         total_run' = total_run
  PROVE  CountInv'
<1>1. Finished' = Finished
  BY DEF Moved, Finished, MainInv
<1> QED
  BY <1>1 DEF CountInv

\* Steps that leave the log alone.
LEMMA MovedLog ==
  ASSUME MainInv, LockInv, LogInv, NEW k, NEW place, Moved(k, place), place # "store",
         UNCHANGED traceVars
  PROVE  LockInv' /\ LogInv'
<1>1. /\ m_log' = m_log /\ m_mtx' = m_mtx /\ end' = end
      /\ drained' = drained /\ pushed' = pushed
  BY DEF traceVars
<1>2. \A j \in Sims : pc'[j] = "store" => pc[j] = "store"
  BY DEF Moved, MainInv
<1>3. LockInv'
  BY <1>1, <1>2 DEF LockInv
<1>4. LogInv'
  BY <1>1 DEF LogInv, NoRecordLost
<1> QED
  BY <1>3, <1>4

\* A step of run_one outside the collector.
LEMMA LocalStep ==
  ASSUME SimInv, NEW k, NEW place, Moved(k, place), place \notin {"store", "done"},
         UNCHANGED <<traceVars, total_run>>,
         Only(event, event', k), Only(results, results', k),
         Only(cycles, cycles', k), Only(remaining, remaining', k),
         Outcome(tasks[k], k, place, event'[k], results'[k], cycles'[k], remaining'[k], pushed[k])
  PROVE  SimInv'
<1>1. k \in Sims /\ Only(pc, pc', k) /\ pc'[k] = place /\ pc'[k] # "none" /\ tasks' = tasks
  BY DEF Moved, Only, SimInv, MainInv, mainVars
<1>2. pushed' = pushed /\ Only(pushed, pushed', k)
  BY DEF traceVars, Only, SimInv, ThreadInv
<1>3. ThreadInv'
  BY <1>1, <1>2, OneThread DEF SimInv
<1>4. UNCHANGED traceVars /\ total_run' = total_run /\ place # "store" /\ place # "done"
  OBVIOUS
<1>5. MainInv' /\ CountInv' /\ LockInv' /\ LogInv'
  BY <1>4, MovedMain, MovedCount, MovedLog DEF SimInv
<1> QED
  BY <1>3, <1>5 DEF SimInv

\* The calls of cpu.run and what follows them.
LEMMA RunStep ==
  ASSUME SimInv, NEW k \in Sims,
         LoadThrows(k) \/ RunThrows(k) \/ RunHalts(k) \/ RunToLimit(k) \/ RunIsOver(k)
  PROVE  SimInv'
<1>d. /\ DOMAIN pc = Sims /\ DOMAIN results = Sims /\ DOMAIN remaining = Sims
      /\ DOMAIN cycles = Sims /\ DOMAIN event = Sims
  BY DEF SimInv, MainInv, ThreadInv
<1>r. pc[k] = "run" /\ UNCHANGED <<traceVars, total_run>> /\ UNCHANGED mainVars
  BY DEF LoadThrows, RunThrows, RunHalts, RunToLimit, RunIsOver, Runs
<1>o. /\ Outcome(tasks[k], k, "run", event[k], results[k], cycles[k], remaining[k], pushed[k])
      /\ remaining[k] \in Nat /\ cycles[k] \in Nat
  BY <1>r DEF SimInv, ThreadInv, Outcome
<1>t. tasks[k] \in TaskType
  BY DEF SimInv, MainInv
<1>l. Limit(k) \in 0..remaining[k] /\ (Limit(k) = 0 => remaining[k] = 0)
  BY <1>o, LimitFacts
<1>u. /\ event' = event => Only(event, event', k)
      /\ results' = results => Only(results, results', k)
      /\ cycles' = cycles => Only(cycles, cycles', k)
      /\ remaining' = remaining => Only(remaining, remaining', k)
  BY <1>d DEF Only
<1>m. \A place \in {"push", "run", "collect"} :
        pc' = [pc EXCEPT ![k] = place] => Moved(k, place)
  BY <1>r DEF Moved, Places
<1>1. CASE RunThrows(k)
  <2>1. /\ tasks[k].fits /\ tasks[k].length < cycles[k] + Limit(k) /\ tasks[k].ends = "throw"
        /\ cycles' = [cycles EXCEPT ![k] = tasks[k].length]
        /\ results' = [results EXCEPT ![k].exception = TRUE]
        /\ pc' = [pc EXCEPT ![k] = "collect"]
        /\ remaining' = remaining /\ event' = event
    BY <1>1 DEF RunThrows, Runs, Ends
  <2>2. /\ Only(cycles, cycles', k) /\ cycles'[k] = tasks[k].length
        /\ Only(results, results', k) /\ results'[k] = [results[k] EXCEPT !.exception = TRUE]
    BY <1>d, <2>1 DEF Only
  <2>3. Outcome(tasks[k], k, "collect", event[k], [results[k] EXCEPT !.exception = TRUE],
                tasks[k].length, remaining[k], pushed[k])
    BY <1>l, <1>o, <1>t, <2>1, OutcomeEnds
  <2>4. Outcome(tasks[k], k, "collect", event'[k], results'[k], cycles'[k], remaining'[k], pushed[k])
    BY <2>1, <2>2, <2>3
  <2> QED
    BY <1>m, <1>r, <1>u, <2>1, <2>2, <2>4, LocalStep
<1>2. CASE RunHalts(k)
  <2>1. /\ tasks[k].fits /\ tasks[k].length < cycles[k] + Limit(k) /\ tasks[k].ends = "halt"
        /\ cycles' = [cycles EXCEPT ![k] = tasks[k].length + 1]
        /\ results' = [results EXCEPT ![k].completed = TRUE]
        /\ pc' = [pc EXCEPT ![k] = "collect"]
        /\ remaining' = remaining /\ event' = event
    BY <1>2 DEF RunHalts, Runs, Ends
  <2>2. /\ Only(cycles, cycles', k) /\ cycles'[k] = tasks[k].length + 1
        /\ Only(results, results', k) /\ results'[k] = [results[k] EXCEPT !.completed = TRUE]
    BY <1>d, <2>1 DEF Only
  <2>3. Outcome(tasks[k], k, "collect", event[k], [results[k] EXCEPT !.completed = TRUE],
                tasks[k].length + 1, remaining[k], pushed[k])
    BY <1>l, <1>o, <1>t, <2>1, OutcomeEnds
  <2>4. Outcome(tasks[k], k, "collect", event'[k], results'[k], cycles'[k], remaining'[k], pushed[k])
    BY <2>1, <2>2, <2>3
  <2> QED
    BY <1>m, <1>r, <1>u, <2>1, <2>2, <2>4, LocalStep
<1>3. CASE RunToLimit(k)
  <2> DEFINE place == IF tasks[k].checkpoint THEN "push" ELSE "run"
  <2>1. /\ tasks[k].fits /\ ~(tasks[k].length < cycles[k] + Limit(k))
        /\ cycles' = [cycles EXCEPT ![k] = cycles[k] + Limit(k)]
        /\ remaining' = [remaining EXCEPT ![k] = remaining[k] - Limit(k)]
        /\ event' = [event EXCEPT ![k] = "CHECKPOINT"]
        /\ pc' = [pc EXCEPT ![k] = place]
        /\ results' = results
    BY <1>3 DEF RunToLimit, Runs, Ends
  <2>p. place \in {"push", "run"}
    OBVIOUS
  <2> HIDE DEF place
  <2>2. /\ Only(cycles, cycles', k) /\ cycles'[k] = cycles[k] + Limit(k)
        /\ Only(remaining, remaining', k) /\ remaining'[k] = remaining[k] - Limit(k)
        /\ Only(event, event', k) /\ event'[k] = "CHECKPOINT"
    BY <1>d, <2>1 DEF Only
  <2>3. Outcome(tasks[k], k, place, "CHECKPOINT", results[k], cycles[k] + Limit(k),
                remaining[k] - Limit(k), pushed[k])
    BY <1>l, <1>o, <1>t, <2>1, <2>p, OutcomeBatch
  <2>4. Outcome(tasks[k], k, place, event'[k], results'[k], cycles'[k], remaining'[k], pushed[k])
    BY <2>1, <2>2, <2>3
  <2>5. Moved(k, place) /\ place \notin {"store", "done"}
    BY <1>m, <2>1, <2>p
  <2> QED
    BY <1>r, <1>u, <2>1, <2>2, <2>4, <2>5, LocalStep
<1>4. CASE RunIsOver(k)
  <2>1. /\ tasks[k].fits /\ Limit(k) = 0
        /\ results' = [results EXCEPT ![k].completed = FALSE]
        /\ pc' = [pc EXCEPT ![k] = "collect"]
        /\ remaining' = remaining /\ cycles' = cycles /\ event' = event
    BY <1>4 DEF RunIsOver, Runs
  <2>2. /\ Only(results, results', k)
        /\ results'[k] = [results[k] EXCEPT !.completed = FALSE]
    BY <1>d, <2>1 DEF Only
  <2>3. Outcome(tasks[k], k, "collect", event[k], [results[k] EXCEPT !.completed = FALSE],
                cycles[k], remaining[k], pushed[k])
    BY <1>l, <1>o, <1>t, <2>1, OutcomeCutOff
  <2>4. Outcome(tasks[k], k, "collect", event'[k], results'[k], cycles'[k], remaining'[k], pushed[k])
    BY <2>1, <2>2, <2>3
  <2> QED
    BY <1>m, <1>r, <1>u, <2>1, <2>2, <2>4, LocalStep
<1>5. CASE LoadThrows(k)
  <2>1. /\ ~tasks[k].fits
        /\ results' = [results EXCEPT ![k].exception = TRUE]
        /\ pc' = [pc EXCEPT ![k] = "collect"]
        /\ remaining' = remaining /\ cycles' = cycles /\ event' = event
    BY <1>5 DEF LoadThrows
  <2>2. /\ Only(results, results', k)
        /\ results'[k] = [results[k] EXCEPT !.exception = TRUE]
    BY <1>d, <2>1 DEF Only
  <2>3. Outcome(tasks[k], k, "collect", event[k], [results[k] EXCEPT !.exception = TRUE],
                cycles[k], remaining[k], pushed[k])
    BY <1>o, <1>t, <2>1, OutcomeUnfit
  <2>4. Outcome(tasks[k], k, "collect", event'[k], results'[k], cycles'[k], remaining'[k], pushed[k])
    BY <2>1, <2>2, <2>3
  <2> QED
    BY <1>m, <1>r, <1>u, <2>1, <2>2, <2>4, LocalStep
<1> QED
  BY <1>1, <1>2, <1>3, <1>4, <1>5

\* The thread takes its result.
LEMMA CollectStep ==
  ASSUME SimInv, NEW k \in Sims, Collect(k)
  PROVE  SimInv'
<1> DEFINE ev == IF results[k].exception THEN "EXCEPTION" ELSE "DONE"
<1>1. /\ pc[k] = "collect"
      /\ results' = [results EXCEPT ![k].cycles = cycles[k]]
      /\ event' = [event EXCEPT ![k] = ev]
      /\ pc' = [pc EXCEPT ![k] = "push"]
      /\ remaining' = remaining /\ cycles' = cycles
      /\ UNCHANGED <<traceVars, total_run>> /\ UNCHANGED mainVars
  BY DEF Collect
<1>d. /\ DOMAIN results = Sims /\ DOMAIN remaining = Sims
      /\ DOMAIN cycles = Sims /\ DOMAIN event = Sims
  BY DEF SimInv, ThreadInv
<1>2. Moved(k, "push")
  BY <1>1 DEF Moved, Places
<1>3. /\ Only(results, results', k) /\ results'[k] = [results[k] EXCEPT !.cycles = cycles[k]]
      /\ Only(event, event', k) /\ event'[k] = ev
      /\ Only(cycles, cycles', k) /\ Only(remaining, remaining', k)
  BY <1>1, <1>d DEF Only
<1>4. Outcome(tasks[k], k, "collect", event[k], results[k], cycles[k], remaining[k], pushed[k])
  BY <1>1 DEF SimInv, ThreadInv
<1>5. Outcome(tasks[k], k, "push", ev, [results[k] EXCEPT !.cycles = cycles[k]],
              cycles[k], remaining[k], pushed[k])
  <2>1. tasks[k] \in TaskType
    BY DEF SimInv, MainInv
  <2> QED
    BY <1>4, <2>1, OutcomeCollect
<1> HIDE DEF ev
<1>6. Outcome(tasks[k], k, "push", event'[k], results'[k], cycles'[k], remaining'[k], pushed[k])
  BY <1>1, <1>3, <1>5
<1> QED
  BY <1>1, <1>2, <1>3, <1>6, LocalStep

\* The last step of a thread.
LEMMA CountStep ==
  ASSUME SimInv, NEW k \in Sims, Count(k)
  PROVE  SimInv'
<1>1. /\ pc[k] = "count" /\ total_run' = total_run + 1
      /\ pc' = [pc EXCEPT ![k] = "done"]
      /\ UNCHANGED mainVars /\ UNCHANGED traceVars
      /\ UNCHANGED <<results, remaining, cycles, event>>
  BY DEF Count
<1>2. Moved(k, "done")
  BY <1>1 DEF Moved, Places
<1>3. MainInv' /\ LockInv' /\ LogInv'
  BY <1>1, <1>2, MovedMain, MovedLog DEF SimInv
<1>4. Finished' = Finished \cup {k} /\ k \notin Finished
  BY <1>1 DEF Finished, SimInv, MainInv
<1>5. IsFiniteSet(Finished)
  <2>1. N \in Nat
    BY ParallelSimAssumption
  <2>2. IsFiniteSet(Sims) /\ Finished \subseteq Sims
    BY <2>1, FS_Interval DEF Sims, Finished
  <2> QED
    BY <2>2, FS_Subset
<1>6. CountInv'
  BY <1>1, <1>4, <1>5, FS_AddElement DEF SimInv, CountInv
<1>7. Outcome(tasks[k], k, "count", event[k], results[k], cycles[k], remaining[k], pushed[k])
  BY <1>1 DEF SimInv, ThreadInv
<1>8. Outcome(tasks[k], k, "done", event[k], results[k], cycles[k], remaining[k], pushed[k])
  BY <1>7 DEF Outcome, Working
<1>9. pushed' = pushed /\ pc'[k] = "done" /\ Only(pc, pc', k)
  BY <1>1 DEF traceVars, SimInv, MainInv, Only
<1>10. /\ Only(event, event', k) /\ Only(results, results', k) /\ Only(cycles, cycles', k)
       /\ Only(remaining, remaining', k) /\ Only(pushed, pushed', k)
  BY <1>1, <1>9 DEF Only, SimInv, ThreadInv
<1>11. Outcome(tasks[k], k, pc'[k], event'[k], results'[k], cycles'[k], remaining'[k], pushed'[k])
  BY <1>1, <1>8, <1>9
<1>12. ThreadInv'
  <2>1. tasks' = tasks
    BY <1>1 DEF mainVars
  <2> QED
    BY <1>9, <1>10, <1>11, <2>1, OneThread DEF SimInv
<1> QED
  BY <1>3, <1>6, <1>12 DEF SimInv

-----------------------------------------------------------------------------
(* The collector.                                                          *)

\* Nobody else is inside push_back.
LEMMA PushLocksStep ==
  ASSUME SimInv, NEW k \in Sims, PushLocks(k)
  PROVE  SimInv'
<1>1. /\ pc[k] = "push" /\ m_mtx = 0 /\ m_mtx' = k
      /\ end' = [end EXCEPT ![k] = Len(m_log)]
      /\ pc' = [pc EXCEPT ![k] = "store"]
      /\ UNCHANGED mainVars
      /\ UNCHANGED <<results, remaining, cycles, event>>
      /\ m_log' = m_log /\ drained' = drained /\ pushed' = pushed
      /\ total_run' = total_run
  BY DEF PushLocks
<1>2. Moved(k, "store")
  BY <1>1 DEF Moved, Places
<1>3. MainInv' /\ CountInv'
  BY <1>1, <1>2, MovedMain, MovedCount DEF SimInv
<1>4. \A j \in Sims : pc'[j] = "store" => j = k
  <2>1. \A j \in Sims : j # 0
    BY DEF Sims
  <2>2. \A j \in Sims : pc[j] # "store"
    BY <1>1, <2>1 DEF SimInv, LockInv
  <2> QED
    BY <1>1, <2>2 DEF SimInv, MainInv
<1>5. LockInv'
  BY <1>1, <1>4 DEF SimInv, LockInv
<1>6. LogInv'
  BY <1>1 DEF SimInv, LogInv, NoRecordLost
<1>7. Outcome(tasks[k], k, "push", event[k], results[k], cycles[k], remaining[k], pushed[k])
  BY <1>1 DEF SimInv, ThreadInv
<1>8. Outcome(tasks[k], k, "store", event[k], results[k], cycles[k], remaining[k], pushed[k])
  BY <1>7 DEF Outcome, Working
<1>9. pc'[k] = "store" /\ Only(pc, pc', k)
  BY <1>1 DEF SimInv, MainInv, Only
<1>10. /\ Only(event, event', k) /\ Only(results, results', k) /\ Only(cycles, cycles', k)
       /\ Only(remaining, remaining', k) /\ Only(pushed, pushed', k)
  BY <1>1 DEF Only, SimInv, ThreadInv
<1>11. Outcome(tasks[k], k, pc'[k], event'[k], results'[k], cycles'[k], remaining'[k], pushed'[k])
  BY <1>1, <1>8, <1>9
<1>12. ThreadInv'
  <2>1. tasks' = tasks
    BY <1>1 DEF mainVars
  <2> QED
    BY <1>9, <1>10, <1>11, <2>1, OneThread DEF SimInv
<1> QED
  BY <1>3, <1>5, <1>6, <1>12 DEF SimInv

\* What was drained of the records of thread j, and then those in the log.
All(d, log, j) == d \o RecordsOf(log, j)

\* A record that is appended to the log comes last among those of its thread.
LEMMA AppendRecord ==
  ASSUME NEW R, NEW d \in Seq(R), NEW log \in Seq(R), NEW r \in R, NEW j,
         NEW log2, Adds(log, r, log2)
  PROVE  /\ r.sim = j => Adds(All(d, log, j), r, All(d, log2, j))
         /\ r.sim # j => All(d, log2, j) = All(d, log, j)
<1> DEFINE a == RecordsOf(log, j)
<1>1. a \in Seq(R)
  BY RecordsType
<1>2. RecordsOf(log2, j) = With(a, r, j)
  BY RecordsAppend DEF Adds
<1> HIDE DEF a
<1>3. d \o Append(a, r) = Append(d \o a, r)
  BY <1>1
<1> QED
  BY <1>2, <1>3, Zenon DEF With, All, Adds, a

\* The record appended is the last one.
LEMMA AppendLast ==
  ASSUME NEW R, NEW w \in Seq(R), NEW r \in R
  PROVE  EndsWith(Append(w, r), r) /\ Append(w, r) \in Seq(R)
BY DEF EndsWith

\* The record is stored, and the lock released.
LEMMA PushStoresStep ==
  ASSUME SimInv, NEW k \in Sims, PushStores(k)
  PROVE  SimInv'
<1> DEFINE place == IF event[k] \in {"DONE", "EXCEPTION"} THEN "count" ELSE "run"
           r == Record(k)
<1>1. /\ pc[k] = "store" /\ m_mtx' = 0
      /\ m_log' = Append(SubSeq(m_log, 1, end[k]), r)
      /\ pushed' = [pushed EXCEPT ![k] = Append(pushed[k], r)]
      /\ end' = [end EXCEPT ![k] = 0]
      /\ pc' = [pc EXCEPT ![k] = place]
      /\ UNCHANGED mainVars
      /\ UNCHANGED <<results, remaining, cycles, event>>
      /\ drained' = drained /\ total_run' = total_run
  BY DEF PushStores
<1>2. Moved(k, place) /\ place # "done" /\ place # "store"
  BY <1>1 DEF Moved, Places
<1>3. MainInv' /\ CountInv'
  BY <1>1, <1>2, MovedMain, MovedCount DEF SimInv
<1>o. Outcome(tasks[k], k, "store", event[k], results[k], cycles[k], remaining[k], pushed[k])
  BY <1>1 DEF SimInv, ThreadInv
<1>r. r \in Logged /\ r.sim = k
  BY <1>o DEF Record, Logged, Outcome
<1>e. r = [sim |-> k, event |-> event[k], cycles |-> cycles[k]]
  BY DEF Record
<1> HIDE DEF r
<1>t. /\ m_log \in Seq(Logged) /\ DOMAIN pushed = Sims
      /\ \A j \in Sims : drained[j] \in Seq(Logged) /\ pushed[j] \in Seq(Logged)
  BY DEF SimInv, LockInv, LogInv
<1>m. Adds(m_log, r, m_log')
  <2>1. end[k] = Len(m_log)
    BY <1>1 DEF SimInv, LockInv
  <2>2. SubSeq(m_log, 1, Len(m_log)) = m_log
    BY <1>t, SubSeqFull
  <2> QED
    BY <1>1, <2>1, <2>2, Zenon DEF Adds
<1>4. LockInv'
  <2>1. m_log' \in Seq(Logged)
    BY <1>m, <1>r, <1>t, AppendLast DEF Adds
  <2>2. DOMAIN end' = Sims
    BY <1>1 DEF SimInv, LockInv
  <2>3. \A j \in Sims : pc'[j] # "store"
    <3>1. \A j \in Sims : pc[j] = "store" => j = k
      BY <1>1 DEF SimInv, LockInv
    <3> QED
      BY <1>1, <1>2, <3>1 DEF SimInv, MainInv
  <2> QED
    BY <2>1, <2>2, <2>3 DEF LockInv
<1>p. pushed'[k] = Append(pushed[k], r) /\ \A j \in Sims \ {k} : pushed'[j] = pushed[j]
  BY <1>1, <1>t
<1>l. EndsWith(pushed'[k], r) /\ pushed'[k] \in Seq(Logged)
  BY <1>p, <1>r, <1>t, AppendLast
<1>5. LogInv'
  <2>1. pushed' \in [Sims -> Seq(Logged)]
    BY <1>1, <1>l, <1>p, <1>t DEF SimInv, LogInv
  <2>2. ASSUME NEW j \in Sims PROVE drained[j] \o RecordsOf(m_log', j) = pushed'[j]
    <3>1. All(drained[j], m_log, j) = pushed[j]
      BY DEF SimInv, LogInv, NoRecordLost, All
    <3>2. drained[j] \in Seq(Logged)
      BY <1>t
    <3>3. /\ r.sim = j => Adds(All(drained[j], m_log, j), r, All(drained[j], m_log', j))
          /\ r.sim # j => All(drained[j], m_log', j) = All(drained[j], m_log, j)
      BY <1>m, <1>r, <1>t, <3>2, AppendRecord
    <3>4. CASE j = k
      <4>1. Adds(pushed[k], r, All(drained[j], m_log', j))
        BY <1>r, <3>1, <3>3, <3>4
      <4> QED
        BY <1>p, <3>4, <4>1, Zenon DEF Adds, All
    <3>5. CASE j # k
      BY <1>p, <1>r, <3>1, <3>3, <3>5, Zenon DEF All
    <3> QED
      BY <3>4, <3>5
  <2>3. NoRecordLost'
    BY <1>1, <2>2, Zenon DEF NoRecordLost
  <2> QED
    BY <1>1, <2>1, <2>3 DEF SimInv, LogInv
<1>6. Outcome(tasks[k], k, place, event[k], results[k], cycles[k], remaining[k], pushed'[k])
  <2>1. tasks[k] \in TaskType
    BY DEF SimInv, MainInv
  <2> QED
    BY <1>e, <1>l, <1>o, <2>1, OutcomeStored
<1> HIDE DEF place
<1>7. pc'[k] = place /\ pc'[k] # "none" /\ Only(pc, pc', k)
  BY <1>1, <1>2 DEF Moved, SimInv, MainInv, Only
<1>8. /\ Only(event, event', k) /\ Only(results, results', k) /\ Only(cycles, cycles', k)
      /\ Only(remaining, remaining', k)
  BY <1>1 DEF Only, SimInv, ThreadInv
<1>9. Only(pushed, pushed', k)
  BY <1>1, <1>p, <1>t DEF Only
<1>10. Outcome(tasks[k], k, pc'[k], event'[k], results'[k], cycles'[k], remaining'[k], pushed'[k])
  BY <1>1, <1>6, <1>7
<1>11. ThreadInv'
  <2>1. tasks' = tasks
    BY <1>1 DEF mainVars
  <2> QED
    BY <1>7, <1>8, <1>9, <1>10, <2>1, OneThread DEF SimInv
<1> QED
  BY <1>3, <1>4, <1>5, <1>11 DEF SimInv

\* The consumer gets what the log holds, while nobody is inside push_back.
LEMMA DrainStep ==
  ASSUME SimInv, drain
  PROVE  SimInv'
<1>1. /\ m_mtx = 0 /\ m_log' = <<>>
      /\ drained' = [j \in Sims |-> drained[j] \o RecordsOf(m_log, j)]
      /\ UNCHANGED mainVars /\ UNCHANGED threadVars
      /\ pushed' = pushed /\ end' = end /\ m_mtx' = m_mtx /\ total_run' = total_run
  BY DEF drain
<1>2. MainInv' /\ CountInv' /\ ThreadInv'
  BY <1>1 DEF SimInv, MainInv, CountInv, Finished, ThreadInv, mainVars, threadVars
<1>3. \A j \in Sims : pc'[j] # "store"
  <2>1. \A j \in Sims : j # 0
    BY DEF Sims
  <2> QED
    BY <1>1, <2>1 DEF SimInv, LockInv, threadVars
<1>4. <<>> \in Seq(Logged)
  OBVIOUS
<1>5. LockInv'
  BY <1>1, <1>3, <1>4 DEF SimInv, LockInv
<1>6. ASSUME NEW j \in Sims
      PROVE  /\ drained'[j] = pushed[j]
             /\ drained'[j] \o RecordsOf(<<>>, j) = pushed[j]
             /\ drained'[j] \in Seq(Logged)
  <2>1. drained[j] \o RecordsOf(m_log, j) = pushed[j] /\ pushed[j] \in Seq(Logged)
    BY DEF SimInv, LogInv, NoRecordLost
  <2>2. drained'[j] = pushed[j]
    BY <1>1, <2>1
  <2>3. RecordsOf(<<>>, j) = <<>>
    BY RecordsEmpty
  <2>4. pushed[j] \o <<>> = pushed[j]
    BY <2>1, ConcatEmptySeq
  <2> QED
    BY <2>1, <2>2, <2>3, <2>4, Zenon
<1>7. drained' \in [Sims -> Seq(Logged)]
  <2>1. DOMAIN drained' = Sims /\ drained' = [j \in Sims |-> drained'[j]]
    BY <1>1
  <2> QED
    BY <1>6, <2>1
<1>8. NoRecordLost'
  BY <1>1, <1>6, Zenon DEF NoRecordLost
<1>9. LogInv'
  BY <1>1, <1>7, <1>8 DEF SimInv, LogInv
<1> QED
  BY <1>2, <1>5, <1>9 DEF SimInv

-----------------------------------------------------------------------------
(* run().                                                                  *)

\* The next thread starts.
LEMMA StartThreadStep ==
  ASSUME SimInv, StartThread
  PROVE  SimInv'
<1> DEFINE k == started + 1
<1>1. /\ main = "start" /\ started < N /\ started' = k
      /\ pc' = [pc EXCEPT ![k] = "push"]
      /\ main' = main /\ joined' = joined /\ tasks' = tasks
      /\ UNCHANGED <<results, remaining, cycles, event>>
      /\ UNCHANGED traceVars /\ total_run' = total_run
  BY DEF StartThread
<1>l. N \in Nat
  BY ParallelSimAssumption
<1>k. k \in Sims /\ k > started /\ k \in 0..N /\ joined \in 0..k
  BY <1>1, <1>l DEF SimInv, MainInv, Sims
<1>n. pc[k] = "none" /\ DOMAIN pc = Sims /\ started \in Nat /\ joined \in 0..started
  BY <1>k, <1>l DEF SimInv, MainInv
<1>2. MainInv'
  <2>1. pc' \in [Sims -> Places]
    BY <1>1, <1>k DEF SimInv, MainInv, Places
  <2>2. ASSUME NEW j \in Sims
        PROVE  (j > k <=> pc'[j] = "none") /\ (j <= joined => pc'[j] = "done")
    <3>1. j \in Nat /\ (j > started <=> pc[j] = "none") /\ (j <= joined => pc[j] = "done")
      BY DEF SimInv, MainInv, Sims
    <3>2. CASE j = k
      BY <1>1, <1>k, <1>n, <3>1, <3>2
    <3>3. CASE j # k
      <4>1. pc'[j] = pc[j]
        BY <1>1, <1>n, <3>3
      <4>2. j > k <=> j > started
        BY <1>n, <3>1, <3>3
      <4> QED
        BY <3>1, <4>1, <4>2
    <3> QED
      BY <3>2, <3>3
  <2> QED
    BY <1>1, <1>k, <2>1, <2>2 DEF SimInv, MainInv
<1> HIDE DEF k
<1>3. CountInv'
  <2>1. Finished' = Finished
    BY <1>1, <1>n DEF Finished
  <2> QED
    BY <1>1, <2>1 DEF SimInv, CountInv
<1>4. /\ m_log' = m_log /\ m_mtx' = m_mtx /\ end' = end
      /\ drained' = drained /\ pushed' = pushed
  BY <1>1 DEF traceVars
<1>5. LockInv'
  <2>1. \A j \in Sims : pc'[j] = "store" => pc[j] = "store"
    BY <1>1, <1>n
  <2> QED
    BY <1>4, <2>1 DEF SimInv, LockInv
<1>6. LogInv'
  BY <1>4 DEF SimInv, LogInv, NoRecordLost
<1>7. Outcome(tasks[k], k, "none", event[k], results[k], cycles[k], remaining[k], pushed[k])
  BY <1>k, <1>n DEF SimInv, ThreadInv
<1>8. event[k] = "START" =>
        Outcome(tasks[k], k, "push", event[k], results[k], cycles[k], remaining[k], pushed[k])
  BY <1>7 DEF Outcome, Working
<1>s. event[k] = "START"
  BY <1>k, <1>n DEF SimInv, ThreadInv
<1>9. /\ Only(pc, pc', k) /\ pc'[k] = "push"
      /\ Only(event, event', k) /\ Only(results, results', k) /\ Only(cycles, cycles', k)
      /\ Only(remaining, remaining', k) /\ Only(pushed, pushed', k)
  BY <1>1, <1>4, <1>k, <1>n DEF Only, SimInv, ThreadInv
<1>10. Outcome(tasks[k], k, pc'[k], event'[k], results'[k], cycles'[k], remaining'[k], pushed'[k])
  BY <1>1, <1>4, <1>8, <1>9, <1>s
<1>11. ThreadInv'
  BY <1>1, <1>9, <1>10, <1>k, OneThread DEF SimInv
<1> QED
  BY <1>2, <1>3, <1>5, <1>6, <1>11 DEF SimInv

\* The other steps of run() touch nothing of the threads.
LEMMA MainStep ==
  ASSUME SimInv, StartFails \/ AllStarted \/ Join \/ Leave
  PROVE  SimInv'
<1>1. UNCHANGED threadVars /\ UNCHANGED traceVars /\ total_run' = total_run /\ tasks' = tasks
  BY DEF StartFails, AllStarted, Join, Leave
<1>2. ThreadInv' /\ CountInv' /\ LockInv' /\ LogInv'
  BY <1>1
  DEF SimInv, ThreadInv, CountInv, Finished, LockInv, LogInv, NoRecordLost,
      threadVars, traceVars
<1>l. N \in Nat /\ pc' = pc /\ tasks' = tasks
  BY <1>1, ParallelSimAssumption DEF threadVars
<1>3. CASE StartFails \/ AllStarted \/ Leave
  BY <1>2, <1>3, <1>l DEF SimInv, MainInv, StartFails, AllStarted, Leave
<1>4. CASE Join
  <2>1. /\ main \in {"return", "unwind"} /\ joined < started /\ pc[joined + 1] = "done"
        /\ joined' = joined + 1 /\ main' = main /\ started' = started
    BY <1>4 DEF Join
  <2>2. /\ started \in 0..N /\ joined \in 0..started
        /\ joined + 1 \in 0..started
    BY <1>l, <2>1 DEF SimInv, MainInv
  <2>3. \A j \in Sims : j <= joined + 1 => pc[j] = "done"
    <3>1. \A j \in Sims : j <= joined + 1 => j <= joined \/ j = joined + 1
      BY <2>2 DEF Sims
    <3> QED
      BY <2>1, <3>1 DEF SimInv, MainInv
  <2> QED
    BY <1>2, <1>l, <2>1, <2>2, <2>3 DEF SimInv, MainInv
<1> QED
  BY <1>3, <1>4

\* The invariant holds initially.
LEMMA SimStart == SimInit => SimInv
<1> SUFFICES ASSUME SimInit PROVE SimInv
  OBVIOUS
<1>l. N \in Nat
  BY ParallelSimAssumption
<1>1. MainInv
  BY <1>l, ParallelSimAssumption DEF SimInit, MainInv, Places, Sims
<1>2. ThreadInv
  <2>1. ASSUME NEW k \in Sims
        PROVE  Outcome(tasks[k], k, "none", "START", NoResult, 0, tasks[k].max_steps, <<>>)
    <3>1. IsResult(NoResult, 0, FALSE, FALSE)
      BY ResultEqual DEF NoResult
    <3>t. tasks[k] \in TaskType
      BY <1>1 DEF MainInv
    <3>2. /\ tasks[k].max_steps \in Nat /\ tasks[k].length \in Nat
          /\ 0 + tasks[k].max_steps = tasks[k].max_steps /\ 0 <= tasks[k].length
      BY <3>t, TaskFacts
    <3> QED
      BY <3>1, <3>2 DEF Outcome, Working, Events
  <2> QED
    BY <2>1 DEF SimInit, ThreadInv
<1>3. CountInv
  <2>1. Finished = {}
    BY DEF SimInit, Finished
  <2> QED
    BY <2>1, FS_EmptySet DEF SimInit, CountInv
<1>4. LockInv
  BY DEF SimInit, LockInv
<1>5. LogInv
  <2>1. <<>> \in Seq(Logged) /\ <<>> \o <<>> = <<>>
    BY ConcatEmptySeq
  <2>2. NoRecordLost
    BY <2>1, RecordsEmpty DEF SimInit, NoRecordLost
  <2> QED
    BY <2>1, <2>2 DEF SimInit, LogInv
<1> QED
  BY <1>1, <1>2, <1>3, <1>4, <1>5 DEF SimInv

\* Every step keeps it.
LEMMA SimSteps == SimInv /\ [SimNext]_allVars => SimInv'
<1> SUFFICES ASSUME SimInv, [SimNext]_allVars PROVE SimInv'
  OBVIOUS
<1>1. CASE Main
  BY <1>1, StartThreadStep, MainStep DEF Main
<1>2. ASSUME NEW k \in Sims, Thread(k) PROVE SimInv'
  BY <1>2, PushLocksStep, PushStoresStep, RunStep, CollectStep, CountStep DEF Thread
<1>3. CASE drain
  BY <1>3, DrainStep
<1>4. CASE UNCHANGED allVars
  BY <1>4
  DEF SimInv, MainInv, ThreadInv, CountInv, Finished, LockInv, LogInv, NoRecordLost,
      allVars, mainVars, threadVars, traceVars
<1> QED
  BY <1>1, <1>2, <1>3, <1>4 DEF SimNext, Runner

\* However many threads there are, and wherever starting one of them throws,
\* no thread is alive when results and the collector's references go away:
\* the jthreads are joined before (SimulationRunner::run).
THEOREM ThreadsAreJoined == SimSpec => []ResultsOutliveThreads
<1>1. SimInv => ResultsOutliveThreads
  BY ParallelSimAssumption DEF SimInv, MainInv, ResultsOutliveThreads, Sims
<1> QED
  BY <1>1, SimStart, SimSteps, PTL DEF SimSpec

\* However the threads' pushes and the consumer's drains interleave, no record
\* is lost or stored twice, and each thread's records stay in order
\* (TraceCollector::push and drain).
THEOREM RecordsCorrect == SimSpec => []NoRecordLost
<1>1. SimInv => NoRecordLost
  BY DEF SimInv, LogInv
<1> QED
  BY <1>1, SimStart, SimSteps, PTL DEF SimSpec

\* For all programs and every batch: when run() returns, each slot of results
\* holds what its program comes to in one piece, the last record agrees, and
\* every simulation was counted (run_one).
THEOREM ResultsCorrect == SimSpec => []ResultsAreRight
<1>1. SimInv => ResultsAreRight
  <2> SUFFICES ASSUME SimInv, main = "returned" PROVE
        /\ \A k \in Sims : /\ results[k] = Expected(tasks[k])
                           /\ pushed[k][Len(pushed[k])] = LastRecord(tasks[k], k)
        /\ total_run = N
    BY DEF ResultsAreRight, LastRecord
  <2>l. N \in Nat
    BY ParallelSimAssumption
  <2>1. \A k \in Sims : pc[k] = "done"
    BY <2>l DEF SimInv, MainInv, Sims
  <2>2. ASSUME NEW k \in Sims
        PROVE  results[k] = Expected(tasks[k]) /\ pushed[k][Len(pushed[k])] = LastRecord(tasks[k], k)
    <3>1. Outcome(tasks[k], k, "done", event[k], results[k], cycles[k], remaining[k], pushed[k])
      BY <2>1 DEF SimInv, ThreadInv
    <3>2. /\ IsResult(results[k], Expected(tasks[k]).cycles, Expected(tasks[k]).completed,
                      Expected(tasks[k]).exception)
          /\ EndsWith(pushed[k], LastRecord(tasks[k], k))
      BY <3>1 DEF Outcome, Working
    <3>3. results[k] = [cycles |-> Expected(tasks[k]).cycles,
                        completed |-> Expected(tasks[k]).completed,
                        exception |-> Expected(tasks[k]).exception]
      BY <3>2, ResultEqual
    <3>4. Expected(tasks[k]) = [cycles |-> Expected(tasks[k]).cycles,
                         completed |-> Expected(tasks[k]).completed,
                         exception |-> Expected(tasks[k]).exception]
      BY DEF Expected
    <3> QED
      BY <3>2, <3>3, <3>4, Zenon DEF EndsWith
  <2>3. total_run = N
    <3>1. Finished = 1..N
      BY <2>1 DEF Finished, Sims
    <3>2. \A n \in Nat : Cardinality(1..n) = n
      BY FS_Interval
    <3> QED
      BY <2>l, <3>1, <3>2 DEF SimInv, CountInv
  <2> QED
    BY <2>2, <2>3
<1> QED
  BY <1>1, SimStart, SimSteps, PTL DEF SimSpec
=============================================================================
