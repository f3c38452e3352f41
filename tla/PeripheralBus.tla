--------------------------- MODULE PeripheralBus ---------------------------
(***************************************************************************)
(* peripherals/peripheral.h: the bus that maps addresses to peripherals.   *)
(* Peripherals are attached one after the other, with windows that may     *)
(* overlap or reach the end of the address space.                          *)
(***************************************************************************)
EXTENDS Naturals, Sequences

CONSTANTS
  MAX_PERIPHERALS,   \* capacity of entries_
  Peripherals,       \* the objects that are attached
  ADDR_MAX,          \* largest address, 2^32 - 1 in the code
  Sizes              \* sizes of windows

ASSUME BusAssumption ==
  MAX_PERIPHERALS \in Nat /\ ADDR_MAX \in Nat /\ Sizes \subseteq 0..ADDR_MAX

VARIABLE entries   \* entries_[0 .. count_ - 1]

Addresses == 0..ADDR_MAX

BusInit == entries = <<>>

\* A full table throws and changes nothing.
attach(base, p, size) ==
  /\ Len(entries) < MAX_PERIPHERALS
  /\ entries' = Append(entries, [base |-> base, size |-> size, periph |-> p])

\* Mutant: the window ends one address late.
CoversEnd(e, addr) == addr >= e.base /\ addr <= (e.base + e.size) % (ADDR_MAX + 1)

\* addr >= e.base && addr < e.base + e.size, with the sum of two uint32_t.
Covers(e, addr) == addr >= e.base /\ addr < (e.base + e.size) % (ADDR_MAX + 1)

Hits(addr) == {k \in DOMAIN entries : Covers(entries[k], addr)}

is_mapped(addr) == Hits(addr) # {}

\* Mutant: the search runs from the last entry to the first.
FindLast(addr) == CHOOSE k \in Hits(addr) : \A m \in Hits(addr) : k >= m

\* The entry find() returns for an address that is mapped.
find(addr) == CHOOSE k \in Hits(addr) : \A m \in Hits(addr) : k <= m

\* The peripheral and the offset to which read() and write() dispatch.
Target(addr) ==
  [periph |-> entries[find(addr)].periph, offset |-> addr - entries[find(addr)].base]

BusNext ==
  \E base \in Addresses, p \in Peripherals, size \in Sizes : attach(base, p, size)

BusSpec == BusInit /\ [][BusNext]_entries

-----------------------------------------------------------------------------
(* Properties.                                                             *)

\* Overlapping windows leave no gap and open none: every address of a window
\* that ends below the end of the address space is dispatched, by find() and
\* the subtraction in read() and write(), to an offset inside the window of
\* the peripheral that answers; and no address outside of all windows is.
WindowsAnswer ==
  /\ \A k \in DOMAIN entries : LET e == entries[k] IN
       e.base + e.size <= ADDR_MAX =>
         \A addr \in e.base..(e.base + e.size - 1) : is_mapped(addr)
  /\ \A addr \in Addresses : is_mapped(addr) =>
       LET e == entries[find(addr)]
       IN  Target(addr).offset \in 0..(e.size - 1)

\* Attaching a peripheral never takes an address from another one: what an
\* address was dispatched to stays, also under a window that overlaps.
TargetsAreStable ==
  [][entries' # entries => \A addr \in Addresses :
       is_mapped(addr) => is_mapped(addr)' /\ Target(addr)' = Target(addr)]_entries
============================================================================
