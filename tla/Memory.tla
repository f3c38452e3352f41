------------------------------- MODULE Memory -------------------------------
(***************************************************************************)
(* src/memory.h, memory.cpp: FlatMemoryBus, one array behind two windows   *)
(* of the address space: the flat window from 0, and the SRAM window,      *)
(* which shows the cells after the flash a second time.  Accesses are      *)
(* checked against the end of the array only, so one that begins in the    *)
(* SRAM window may run past it.                                            *)
(*                                                                         *)
(* A memory is a function m from the cells to bytes, data_ in the code.  A *)
(* byte has CELL values, 256 in the code; words are little endian.         *)
(***************************************************************************)
EXTENDS Naturals, Sequences

CONSTANTS SIZE, FLASH_SIZE, SRAM_BASE, SRAM_SIZE, CELL

ASSUME MemoryAssumption ==
  /\ {SIZE, FLASH_SIZE, SRAM_BASE, SRAM_SIZE, CELL} \subseteq Nat \ {0}
  /\ FLASH_SIZE + SRAM_SIZE <= SIZE
  /\ SIZE + 4 <= SRAM_BASE   \* no word lies across the windows

Index       == 0..(SIZE - 1)
EmptyMemory == [k \in Index |-> 0]

InSram(addr) == addr >= SRAM_BASE /\ addr < SRAM_BASE + SRAM_SIZE

\* The addresses for which translate does not throw.
Mapped(addr) == addr < SIZE \/ InSram(addr)

translate(addr) ==
  IF addr < SIZE THEN addr ELSE FLASH_SIZE + (addr - SRAM_BASE)

\* The accesses of n bytes that do not fault.
Accessible(addr, n) == Mapped(addr) /\ translate(addr) + n <= SIZE

\* read8, read16, read32: n bytes, the low one first.
Read(m, addr, n) ==
  LET Byte(k) == IF k < n THEN m[translate(addr) + k] ELSE 0
  IN  Byte(0) + CELL * (Byte(1) + CELL * (Byte(2) + CELL * Byte(3)))

\* load: the bytes of a sequence, from addr on.
Loaded(m, addr, bytes) ==
  LET flat == translate(addr)
  IN  [k \in Index |-> IF k >= flat /\ k < flat + Len(bytes)
                       THEN bytes[k - flat + 1] ELSE m[k]]

\* The weights of a word's bytes.
Weight == <<1, CELL, CELL * CELL, CELL * CELL * CELL>>

\* write8, write16, write32: the low n bytes of val.
Write(m, addr, n, val) ==
  Loaded(m, addr, [k \in 1..n |-> (val \div Weight[k]) % CELL])
=============================================================================
