--------------------------------- MODULE Uart ---------------------------------
(***************************************************************************)
(* peripherals/uart.h, uart.cpp: two FIFOs and four registers.  The        *)
(* firmware reads and writes the registers; the line side injects and      *)
(* consumes bytes between any two register accesses.                       *)
(***************************************************************************)
EXTENDS RingBuffer

CONSTANTS
  FIFO_SIZE,   \* 256 in the code
  Bytes        \* the values of a byte, with 0 for what an underflow reads

ASSUME UartAssumption == FIFO_SIZE \in Nat \ {0} /\ 0 \in Bytes

\* The bits of CR that have an effect; ENABLE is stored and not looked at.
CrBits == {"RX_IRQ_EN", "LOOPBACK"}

VARIABLES
  tx, rx,      \* tx_fifo_ and rx_fifo_ with their indices
  uart_cr,     \* cr_, as the set of its bits
  irq_thr,     \* irq_thr_
  uart_out     \* what the last access returned, empty if it returned nothing

uartVars == <<tx, rx, uart_cr, irq_thr, uart_out>>

UartReset ==
  [tx |-> EmptyRing(FIFO_SIZE, 0), rx |-> EmptyRing(FIFO_SIZE, 0),
   cr |-> {}, thr |-> 1]

UartInit ==
  /\ tx = UartReset.tx /\ rx = UartReset.rx
  /\ uart_cr = UartReset.cr /\ irq_thr = UartReset.thr
  /\ uart_out = <<>>

Full(r) == r.count = FIFO_SIZE

\* A full FIFO drops the byte.
PushByte(r, b) == IF Full(r) THEN r ELSE Pushed(r, FIFO_SIZE, b)
PopByte(r)     == IF r.count = 0 THEN r ELSE Popped(r, FIFO_SIZE)

rx_irq_pending == rx.count >= irq_thr

build_sr ==
  (IF tx.count < FIFO_SIZE THEN {"TX_EMPTY"} ELSE {}) \cup
  (IF rx.count > 0 THEN {"RX_READY"} ELSE {}) \cup
  (IF Full(rx) THEN {"RX_FULL"} ELSE {}) \cup
  (IF Full(tx) THEN {"TX_FULL"} ELSE {}) \cup
  (IF "RX_IRQ_EN" \in uart_cr /\ rx_irq_pending THEN {"RX_IRQ"} ELSE {})

-----------------------------------------------------------------------------
\* write_reg(REG_DR, b)
UartWriteDR(b) ==
  /\ \/ "LOOPBACK" \in uart_cr /\ rx' = PushByte(rx, b) /\ UNCHANGED tx
     \/ "LOOPBACK" \notin uart_cr /\ tx' = PushByte(tx, b) /\ UNCHANGED rx
  /\ uart_out' = <<>>
  /\ UNCHANGED <<uart_cr, irq_thr>>

UartWriteCR(c) ==
  /\ uart_cr' = c
  /\ uart_out' = <<>>
  /\ UNCHANGED <<tx, rx, irq_thr>>

\* Mutant: a threshold beyond the FIFO's size is accepted.
WriteAnyThreshold(v) ==
  /\ irq_thr' = IF v = 0 THEN 1 ELSE v
  /\ uart_out' = <<>>
  /\ UNCHANGED <<tx, rx, uart_cr>>

UartWriteIrqThr(v) ==
  /\ irq_thr' = IF v = 0 \/ v > FIFO_SIZE THEN 1 ELSE v
  /\ uart_out' = <<>>
  /\ UNCHANGED <<tx, rx, uart_cr>>

\* read_reg(REG_DR) removes the byte it returns, 0 if there is none.
UartReadDR ==
  /\ rx' = PopByte(rx)
  /\ uart_out' = <<IF rx.count = 0 THEN 0 ELSE Front(rx)>>
  /\ UNCHANGED <<tx, uart_cr, irq_thr>>

inject_rx(b) ==
  /\ rx' = PushByte(rx, b)
  /\ uart_out' = <<>>
  /\ UNCHANGED <<tx, uart_cr, irq_thr>>

consume_tx ==
  /\ tx' = PopByte(tx)
  /\ uart_out' = IF tx.count = 0 THEN <<>> ELSE <<Front(tx)>>
  /\ UNCHANGED <<rx, uart_cr, irq_thr>>

\* The loop pops until nothing is left.
drain_tx ==
  /\ tx' = [buf |-> tx.buf, head |-> tx.tail, tail |-> tx.tail, count |-> 0]
  /\ uart_out' = Held(tx, FIFO_SIZE)
  /\ UNCHANGED <<rx, uart_cr, irq_thr>>

\* reset() leaves the bytes in the arrays.
UartResets ==
  /\ tx' = [UartReset.tx EXCEPT !.buf = tx.buf]
  /\ rx' = [UartReset.rx EXCEPT !.buf = rx.buf]
  /\ uart_cr' = UartReset.cr /\ irq_thr' = UartReset.thr
  /\ uart_out' = <<>>

UartNext ==
  \/ \E b \in Bytes : UartWriteDR(b) \/ inject_rx(b)
  \/ \E c \in SUBSET CrBits : UartWriteCR(c)
  \/ \E v \in 0..(FIFO_SIZE + 1) : UartWriteIrqThr(v)
  \/ UartReadDR \/ consume_tx \/ drain_tx \/ UartResets

UartSpec == UartInit /\ [][UartNext]_uartVars

-----------------------------------------------------------------------------
(* Properties.                                                             *)

\* The two FIFOs behave as queues through every wrap of their indices: bytes
\* enter at the end, leave at the front, and only a reset or a drain empties
\* them; and a byte that leaves is what the access returns.
BytesInOrder ==
  [][<<tx, rx>>' # <<tx, rx>> =>
       /\ QueueStep(Held(tx, FIFO_SIZE), Held(tx', FIFO_SIZE))
       /\ QueueStep(Held(rx, FIFO_SIZE), Held(rx', FIFO_SIZE))
       /\ tx'.count < tx.count =>
            \/ uart_out' = SubSeq(Held(tx, FIFO_SIZE), 1, tx.count - tx'.count)
            \/ uart_out' = <<>> /\ rx'.count = 0
       /\ rx'.count < rx.count =>
            \/ uart_out' = SubSeq(Held(rx, FIFO_SIZE), 1, rx.count - rx'.count)
            \/ uart_out' = <<>> /\ tx'.count = 0]_uartVars

\* A full receive FIFO always raises the interrupt that is enabled: the
\* threshold cannot be set beyond what the FIFO can hold.
FullRaisesIrq ==
  "RX_IRQ_EN" \in uart_cr /\ "RX_FULL" \in build_sr => "RX_IRQ" \in build_sr
=============================================================================
