---------------------------- MODULE DeviceProofs ----------------------------
(***************************************************************************)
(* The peripherals, for every size of their buffers, every set of bytes,   *)
(* addresses and nodes.  Each peripheral is a specification of its own:    *)
(* they share no state.                                                    *)
(***************************************************************************)
EXTENDS Uart, I2c, Spi, Can, PeripheralBus, BasicFacts

\* What the operations of a ring of that size with entries in S keep true.
RingOK(r, size, S) ==
  /\ r \in [buf : [0..(size - 1) -> S], head : 0..(size - 1),
            tail : 0..(size - 1), count : 0..size]
  /\ r.tail = (r.head + r.count) % size

\* The parts of a ring.
LEMMA RingParts ==
  ASSUME NEW size \in Nat \ {0}, NEW S, NEW r, RingOK(r, size, S)
  PROVE  \E b \in [0..(size - 1) -> S], h \in 0..(size - 1), c \in 0..size :
           /\ r = [buf |-> b, head |-> h, tail |-> (h + c) % size, count |-> c]
           /\ Held(r, size) = Window(b, h, c, size)
<1>1. /\ r.buf \in [0..(size - 1) -> S] /\ r.head \in 0..(size - 1)
      /\ r.count \in 0..size
      /\ r = [buf |-> r.buf, head |-> r.head, tail |-> (r.head + r.count) % size,
              count |-> r.count]
  BY DEF RingOK
<1>2. Held(r, size) = Window(r.buf, r.head, r.count, size)
  BY DEF Held, Window
<1> QED
  BY <1>1, <1>2

\* A record that is a ring.
LEMMA RingMade ==
  ASSUME NEW size \in Nat \ {0}, NEW S, NEW b \in [0..(size - 1) -> S],
         NEW h \in 0..(size - 1), NEW c \in 0..size, NEW r,
         r = [buf |-> b, head |-> h, tail |-> (h + c) % size, count |-> c]
  PROVE  RingOK(r, size, S) /\ Held(r, size) = Window(b, h, c, size)
<1>1. h + c \in 0..(2 * size - 1)
  OBVIOUS
<1>2. (h + c) % size \in 0..(size - 1)
  BY <1>1, Wrapped
<1> QED
  BY <1>2 DEF RingOK, Held, Window

\* What a ring holds is a sequence of count entries.
LEMMA HeldType ==
  ASSUME NEW size \in Nat \ {0}, NEW S, NEW r, RingOK(r, size, S)
  PROVE  /\ r.count \in 0..size
         /\ Held(r, size) \in Seq(S) /\ Len(Held(r, size)) = r.count
<1>p. PICK b \in [0..(size - 1) -> S], h \in 0..(size - 1), c \in 0..size :
           /\ r = [buf |-> b, head |-> h, tail |-> (h + c) % size, count |-> c]
           /\ Held(r, size) = Window(b, h, c, size)
  BY RingParts
<1>1. Window(b, h, c, size) \in Seq(S) /\ Len(Window(b, h, c, size)) = c
  BY WindowType, WindowLen
<1>2. r.count = c
  BY <1>p
<1> QED
  BY <1>p, <1>1, <1>2

\* An empty ring.
LEMMA RingEmpty ==
  ASSUME NEW size \in Nat \ {0}, NEW S, NEW b \in [0..(size - 1) -> S],
         NEW h \in 0..(size - 1)
  PROVE  LET r == [buf |-> b, head |-> h, tail |-> h, count |-> 0]
         IN  RingOK(r, size, S) /\ Held(r, size) = <<>>
<1>1. (h + 0) % size = h
  OBVIOUS
<1> QED
  BY <1>1 DEF RingOK, Held

\* A ring that is not full takes an entry at its end.
LEMMA PushAppends ==
  ASSUME NEW size \in Nat \ {0}, NEW S, NEW r, RingOK(r, size, S),
         NEW x \in S, r.count # size
  PROVE  /\ RingOK(Pushed(r, size, x), size, S)
         /\ Adds(Held(r, size), x, Held(Pushed(r, size, x), size))
         /\ Pushed(r, size, x).count = r.count + 1
<1>p. PICK b \in [0..(size - 1) -> S], h \in 0..(size - 1), c \in 0..size :
           /\ r = [buf |-> b, head |-> h, tail |-> (h + c) % size, count |-> c]
           /\ Held(r, size) = Window(b, h, c, size)
  BY RingParts
<1>1. c \in 0..(size - 1) /\ h + c \in 0..(2 * size - 2) /\ c + 1 \in 0..size
      /\ h + c \in 0..(2 * size - 1)
  BY <1>p
<1>2. (h + c) % size \in 0..(size - 1)
  BY <1>1, Wrapped
<1>3. (((h + c) % size) + 1) % size = (h + (c + 1)) % size
  <2>1. h + (c + 1) = h + c + 1
    OBVIOUS
  <2> QED
    BY <1>1, <2>1, TailMoves
<1>b. PICK b2 \in [0..(size - 1) -> S] : b2 = [b EXCEPT ![(h + c) % size] = x]
  BY <1>2
<1>4. Pushed(r, size, x) =
        [buf |-> b2, head |-> h, tail |-> (h + (c + 1)) % size, count |-> c + 1]
  BY <1>p, <1>b, <1>3 DEF Pushed
<1>5. /\ RingOK(Pushed(r, size, x), size, S)
      /\ Held(Pushed(r, size, x), size) = Window(b2, h, c + 1, size)
  BY <1>1, <1>4, RingMade
<1>6. Adds(Window(b, h, c, size), x, Window(b2, h, c + 1, size))
  <2>1. Stores(b2, b, (h + c) % size, x, size)
    BY <1>b, <1>2 DEF Stores
  <2> QED
    BY <1>1, <2>1, WindowPush
<1>7. Pushed(r, size, x).count = r.count + 1
  BY DEF Pushed
<1> QED
  BY <1>p, <1>5, <1>6, <1>7

\* A ring that is not empty gives its oldest entry.
LEMMA PopTakesOldest ==
  ASSUME NEW size \in Nat \ {0}, NEW S, NEW r, RingOK(r, size, S), r.count # 0
  PROVE  /\ RingOK(Popped(r, size), size, S)
         /\ Takes(Held(r, size), Front(r), Held(Popped(r, size), size))
         /\ Popped(r, size).count = r.count - 1
<1>p. PICK b \in [0..(size - 1) -> S], h \in 0..(size - 1), c \in 0..size :
           /\ r = [buf |-> b, head |-> h, tail |-> (h + c) % size, count |-> c]
           /\ Held(r, size) = Window(b, h, c, size)
  BY RingParts
<1>1. c \in 1..size /\ c - 1 \in 0..size /\ c - 1 \in 0..(size - 1)
      /\ h + 1 \in 0..size /\ h + 1 \in 0..(2 * size - 1)
      /\ h + c \in 0..(2 * size - 1)
  BY <1>p
<1>2. /\ (h + 1) % size \in 0..(size - 1)
      /\ (h + c) % size \in 0..(size - 1)
  BY <1>1, Wrapped
<1>3. (((h + 1) % size) + (c - 1)) % size = (h + c) % size
  <2>1. h + 1 + (c - 1) = h + c
    OBVIOUS
  <2> QED
    BY <1>1, <2>1, HeadMoves
<1>h. PICK h2 \in 0..(size - 1) : h2 = (h + 1) % size
  BY <1>2
<1>4. Popped(r, size) =
        [buf |-> b, head |-> h2, tail |-> (h2 + (c - 1)) % size, count |-> c - 1]
  BY <1>p, <1>h, <1>3 DEF Popped
<1>5. /\ RingOK(Popped(r, size), size, S)
      /\ Held(Popped(r, size), size) = Window(b, h2, c - 1, size)
  BY <1>1, <1>4, RingMade
<1>7. Front(r) = b[h] /\ Popped(r, size).count = r.count - 1
  BY <1>p, <1>4 DEF Front
<1>8. Takes(Window(b, h, c, size), b[h], Window(b, (h + 1) % size, c - 1, size))
  BY <1>1, WindowPop
<1> QED
  BY <1>p, <1>h, <1>5, <1>7, <1>8

-----------------------------------------------------------------------------
(* The UART.                                                               *)

\* What the steps of the UART preserve: two rings of bytes, and a threshold
\* that the FIFO can reach.
UartInv ==
  /\ RingOK(tx, FIFO_SIZE, Bytes) /\ RingOK(rx, FIFO_SIZE, Bytes)
  /\ irq_thr \in 1..FIFO_SIZE

\* An entry more is a step of a queue.
LEMMA AddsIsStep ==
  ASSUME NEW S, NEW s \in Seq(S), NEW x \in S, NEW t, Adds(s, x, t)
  PROVE  QueueStep(s, t)
<1>1. Len(t) = Len(s) + 1 /\ SubSeq(t, 1, Len(s)) = s
  BY DEF Adds
<1> QED
  BY <1>1 DEF QueueStep

\* What has left a FIFO between r and r2 is what was returned.
Gives(r, r2, out) ==
  r2.count < r.count => out = SubSeq(Held(r, FIFO_SIZE), 1, r.count - r2.count)

\* push of either FIFO.
LEMMA PushByteStep ==
  ASSUME NEW r, RingOK(r, FIFO_SIZE, Bytes), NEW b \in Bytes
  PROVE  /\ RingOK(PushByte(r, b), FIFO_SIZE, Bytes)
         /\ QueueStep(Held(r, FIFO_SIZE), Held(PushByte(r, b), FIFO_SIZE))
         /\ \A out : Gives(r, PushByte(r, b), out)
<1>0. FIFO_SIZE \in Nat \ {0}
  BY UartAssumption
<1>1. r.count \in 0..FIFO_SIZE /\ Held(r, FIFO_SIZE) \in Seq(Bytes)
  BY <1>0, HeldType
<1>2. CASE Full(r)
  <2>1. PushByte(r, b) = r
    BY <1>2 DEF PushByte
  <2>2. ~(r.count < r.count)
    BY <1>0, <1>1
  <2> QED
    BY <2>1, <2>2 DEF QueueStep, Gives
<1>3. CASE ~Full(r)
  <2>1. PushByte(r, b) = Pushed(r, FIFO_SIZE, b) /\ r.count # FIFO_SIZE
    BY <1>3 DEF PushByte, Full
  <2>2. /\ RingOK(Pushed(r, FIFO_SIZE, b), FIFO_SIZE, Bytes)
        /\ Adds(Held(r, FIFO_SIZE), b, Held(Pushed(r, FIFO_SIZE, b), FIFO_SIZE))
        /\ Pushed(r, FIFO_SIZE, b).count = r.count + 1
    BY <1>0, <2>1, PushAppends
  <2>3. QueueStep(Held(r, FIFO_SIZE), Held(Pushed(r, FIFO_SIZE, b), FIFO_SIZE))
    BY <1>1, <2>2, AddsIsStep
  <2>4. ~(r.count + 1 < r.count)
    BY <1>0, <1>1
  <2> QED
    BY <2>1, <2>2, <2>3, <2>4 DEF Gives
<1> QED
  BY <1>2, <1>3

\* pop of either FIFO, which returns the oldest byte.
LEMMA PopByteStep ==
  ASSUME NEW r, RingOK(r, FIFO_SIZE, Bytes)
  PROVE  /\ RingOK(PopByte(r), FIFO_SIZE, Bytes)
         /\ QueueStep(Held(r, FIFO_SIZE), Held(PopByte(r), FIFO_SIZE))
         /\ r.count # 0 => Gives(r, PopByte(r), <<Front(r)>>)
         /\ r.count = 0 => \A out : Gives(r, PopByte(r), out)
<1>0. FIFO_SIZE \in Nat \ {0}
  BY UartAssumption
<1>1. /\ r.count \in 0..FIFO_SIZE
      /\ Held(r, FIFO_SIZE) \in Seq(Bytes) /\ Len(Held(r, FIFO_SIZE)) = r.count
  BY <1>0, HeldType
<1>2. CASE r.count = 0
  <2>1. PopByte(r) = r
    BY <1>2 DEF PopByte
  <2>2. \A out : Gives(r, r, out)
    BY <1>2 DEF Gives
  <2>3. QueueStep(Held(r, FIFO_SIZE), Held(r, FIFO_SIZE))
    BY DEF QueueStep
  <2> QED
    BY <1>2, <2>1, <2>2, <2>3
<1>3. CASE r.count # 0
  <2>1. PopByte(r) = Popped(r, FIFO_SIZE)
    BY <1>3 DEF PopByte
  <2>2. /\ RingOK(Popped(r, FIFO_SIZE), FIFO_SIZE, Bytes)
        /\ Takes(Held(r, FIFO_SIZE), Front(r), Held(Popped(r, FIFO_SIZE), FIFO_SIZE))
        /\ Popped(r, FIFO_SIZE).count = r.count - 1
    BY <1>0, <1>3, PopTakesOldest
  <2>3. QueueStep(Held(r, FIFO_SIZE), Held(Popped(r, FIFO_SIZE), FIFO_SIZE))
    BY <2>2 DEF Takes, QueueStep
  <2>4. \A c \in 0..FIFO_SIZE : c - (c - 1) = 1
    BY <1>0
  <2>5. <<Front(r)>> = SubSeq(Held(r, FIFO_SIZE), 1, 1)
    <3>1. \A s \in Seq(Bytes) : s # <<>> => <<Head(s)>> = SubSeq(s, 1, 1)
      OBVIOUS
    <3> QED
      BY <1>1, <2>2, <3>1 DEF Takes
  <2>6. r.count - Popped(r, FIFO_SIZE).count = 1
    BY <1>1, <2>2, <2>4
  <2>7. Gives(r, Popped(r, FIFO_SIZE), <<Front(r)>>)
    BY <2>5, <2>6, Zenon DEF Gives
  <2> QED
    BY <1>3, <2>1, <2>2, <2>3, <2>7
<1> QED
  BY <1>2, <1>3

\* drain_tx() and reset() leave a ring that holds nothing.
LEMMA EmptiedRing ==
  ASSUME NEW r, RingOK(r, FIFO_SIZE, Bytes)
  PROVE  \A h \in {0, r.tail} :
           LET e == [buf |-> r.buf, head |-> h, tail |-> h, count |-> 0]
           IN  /\ RingOK(e, FIFO_SIZE, Bytes)
               /\ Held(e, FIFO_SIZE) = <<>>
<1>0. FIFO_SIZE \in Nat \ {0}
  BY UartAssumption
<1>1. /\ r.buf \in [0..(FIFO_SIZE - 1) -> Bytes] /\ r.tail \in 0..(FIFO_SIZE - 1)
      /\ 0 \in 0..(FIFO_SIZE - 1)
  BY <1>0 DEF RingOK
<1> QED
  BY <1>0, <1>1, RingEmpty

\* The FIFOs before the first access.
LEMMA UartStart == UartInit => UartInv
<1> SUFFICES ASSUME UartInit PROVE UartInv
  OBVIOUS
<1>0. FIFO_SIZE \in Nat \ {0} /\ 0 \in Bytes
  BY UartAssumption
<1>1. RingOK(EmptyRing(FIFO_SIZE, 0), FIFO_SIZE, Bytes)
  <2>1. [k \in 0..(FIFO_SIZE - 1) |-> 0] \in [0..(FIFO_SIZE - 1) -> Bytes]
    BY <1>0
  <2>2. 0 \in 0..(FIFO_SIZE - 1)
    BY <1>0
  <2> QED
    BY <1>0, <2>1, <2>2, RingEmpty DEF EmptyRing
<1> QED
  BY <1>0, <1>1 DEF UartInit, UartReset, UartInv

\* What one access does to the two FIFOs.
UartStep ==
  /\ QueueStep(Held(tx, FIFO_SIZE), Held(tx', FIFO_SIZE))
  /\ QueueStep(Held(rx, FIFO_SIZE), Held(rx', FIFO_SIZE))
  /\ Gives(tx, tx', uart_out') \/ (uart_out' = <<>> /\ rx'.count = 0)
  /\ Gives(rx, rx', uart_out') \/ (uart_out' = <<>> /\ tx'.count = 0)

LEMMA UartSteps ==
  ASSUME UartInv, [UartNext]_uartVars
  PROVE  UartInv' /\ UartStep
<1>0. FIFO_SIZE \in Nat \ {0}
  BY UartAssumption
<1>1. /\ RingOK(tx, FIFO_SIZE, Bytes) /\ RingOK(rx, FIFO_SIZE, Bytes)
      /\ irq_thr \in 1..FIFO_SIZE
  BY DEF UartInv
<1>2. /\ tx.count \in 0..FIFO_SIZE /\ rx.count \in 0..FIFO_SIZE
      /\ Held(tx, FIFO_SIZE) \in Seq(Bytes) /\ Len(Held(tx, FIFO_SIZE)) = tx.count
  BY <1>0, <1>1, HeldType
<1>3. \A out : Gives(tx, tx, out) /\ Gives(rx, rx, out)
  <2>1. ~(tx.count < tx.count) /\ ~(rx.count < rx.count)
    BY <1>0, <1>2
  <2> QED
    BY <2>1 DEF Gives
<1>4. \A s : QueueStep(s, s) /\ QueueStep(s, <<>>)
  BY DEF QueueStep
<1>5. ASSUME NEW b \in Bytes, tx' = tx, rx' = PushByte(rx, b), irq_thr' = irq_thr
      PROVE  UartInv' /\ UartStep
  BY <1>1, <1>3, <1>4, <1>5, PushByteStep DEF UartInv, UartStep
<1>6. ASSUME NEW b \in Bytes, rx' = rx, tx' = PushByte(tx, b), irq_thr' = irq_thr
      PROVE  UartInv' /\ UartStep
  BY <1>1, <1>3, <1>4, <1>6, PushByteStep DEF UartInv, UartStep
<1>7. ASSUME tx' = tx, rx' = rx, irq_thr' \in 1..FIFO_SIZE
      PROVE  UartInv' /\ UartStep
  BY <1>1, <1>3, <1>4, <1>7 DEF UartInv, UartStep
<1>8. ASSUME NEW b \in Bytes, UartWriteDR(b) PROVE UartInv' /\ UartStep
  BY <1>5, <1>6, <1>8 DEF UartWriteDR
<1>9. ASSUME NEW b \in Bytes, inject_rx(b) PROVE UartInv' /\ UartStep
  BY <1>5, <1>9 DEF inject_rx
<1>10. ASSUME NEW c \in SUBSET CrBits, UartWriteCR(c) PROVE UartInv' /\ UartStep
  BY <1>1, <1>7, <1>10 DEF UartWriteCR
<1>11. ASSUME NEW v \in 0..(FIFO_SIZE + 1), UartWriteIrqThr(v)
       PROVE  UartInv' /\ UartStep
  <2>1. (IF v = 0 \/ v > FIFO_SIZE THEN 1 ELSE v) \in 1..FIFO_SIZE
    BY <1>0
  <2> QED
    BY <1>7, <1>11, <2>1 DEF UartWriteIrqThr
<1>12. CASE UartReadDR
  <2>1. /\ tx' = tx /\ rx' = PopByte(rx) /\ irq_thr' = irq_thr
        /\ rx.count # 0 => uart_out' = <<Front(rx)>>
    BY <1>12 DEF UartReadDR
  <2>2. /\ RingOK(rx', FIFO_SIZE, Bytes)
        /\ QueueStep(Held(rx, FIFO_SIZE), Held(rx', FIFO_SIZE))
        /\ Gives(rx, rx', uart_out')
    <3>1. /\ RingOK(PopByte(rx), FIFO_SIZE, Bytes)
          /\ QueueStep(Held(rx, FIFO_SIZE), Held(PopByte(rx), FIFO_SIZE))
          /\ rx.count # 0 => Gives(rx, PopByte(rx), <<Front(rx)>>)
          /\ rx.count = 0 => \A out : Gives(rx, PopByte(rx), out)
      BY <1>1, PopByteStep, Zenon
    <3> QED
      BY <2>1, <3>1, Zenon
  <2> QED
    BY <1>1, <1>3, <1>4, <2>1, <2>2, Zenon DEF UartInv, UartStep
<1>13. CASE consume_tx
  <2>1. /\ rx' = rx /\ tx' = PopByte(tx) /\ irq_thr' = irq_thr
        /\ tx.count # 0 => uart_out' = <<Front(tx)>>
    BY <1>13 DEF consume_tx
  <2>2. /\ RingOK(tx', FIFO_SIZE, Bytes)
        /\ QueueStep(Held(tx, FIFO_SIZE), Held(tx', FIFO_SIZE))
        /\ Gives(tx, tx', uart_out')
    <3>1. /\ RingOK(PopByte(tx), FIFO_SIZE, Bytes)
          /\ QueueStep(Held(tx, FIFO_SIZE), Held(PopByte(tx), FIFO_SIZE))
          /\ tx.count # 0 => Gives(tx, PopByte(tx), <<Front(tx)>>)
          /\ tx.count = 0 => \A out : Gives(tx, PopByte(tx), out)
      BY <1>1, PopByteStep, Zenon
    <3> QED
      BY <2>1, <3>1, Zenon
  <2> QED
    BY <1>1, <1>3, <1>4, <2>1, <2>2, Zenon DEF UartInv, UartStep
<1>14. CASE drain_tx
  <2>1. /\ tx' = [buf |-> tx.buf, head |-> tx.tail, tail |-> tx.tail, count |-> 0]
        /\ rx' = rx /\ irq_thr' = irq_thr /\ uart_out' = Held(tx, FIFO_SIZE)
    BY <1>14 DEF drain_tx
  <2>2. RingOK(tx', FIFO_SIZE, Bytes) /\ Held(tx', FIFO_SIZE) = <<>>
    BY <1>1, <2>1, EmptiedRing
  <2>3. tx'.count = 0 /\ tx.count - 0 = tx.count
    BY <1>2, <2>1
  <2>4. \A s \in Seq(Bytes) : SubSeq(s, 1, Len(s)) = s
    OBVIOUS
  <2>5. Gives(tx, tx', uart_out')
    BY <1>2, <2>1, <2>3, <2>4 DEF Gives
  <2>6. rx' = rx /\ irq_thr' = irq_thr
    BY <2>1
  <2> QED
    BY <1>1, <1>3, <1>4, <2>2, <2>5, <2>6 DEF UartInv, UartStep
<1>15. CASE UartResets
  <2>1. /\ tx' = [buf |-> tx.buf, head |-> 0, tail |-> 0, count |-> 0]
        /\ rx' = [buf |-> rx.buf, head |-> 0, tail |-> 0, count |-> 0]
        /\ irq_thr' = 1 /\ uart_out' = <<>>
    BY <1>15 DEF UartResets, UartReset, EmptyRing
  <2>2. /\ RingOK(tx', FIFO_SIZE, Bytes) /\ Held(tx', FIFO_SIZE) = <<>>
        /\ RingOK(rx', FIFO_SIZE, Bytes) /\ Held(rx', FIFO_SIZE) = <<>>
    BY <1>1, <2>1, EmptiedRing
  <2>3. tx'.count = 0 /\ rx'.count = 0 /\ uart_out' = <<>>
    BY <2>1
  <2>4. irq_thr' \in 1..FIFO_SIZE
    BY <1>0, <2>1
  <2> QED
    BY <1>4, <2>2, <2>3, <2>4 DEF UartInv, UartStep
<1>16. CASE UNCHANGED uartVars
  BY <1>1, <1>7, <1>16 DEF uartVars
<1> QED
  BY <1>8, <1>9, <1>10, <1>11, <1>12, <1>13, <1>14, <1>15, <1>16 DEF UartNext

\* A full receive FIFO always raises the interrupt that is enabled (uart.cpp,
\* build_sr): for every size of the FIFO and every value written to IRQ_THR.
THEOREM IrqCorrect == UartSpec => []FullRaisesIrq
<1>1. UartInv => FullRaisesIrq
  <2> SUFFICES ASSUME UartInv, "RX_IRQ_EN" \in uart_cr, Full(rx)
               PROVE  "RX_IRQ" \in build_sr
    BY DEF FullRaisesIrq, build_sr
  <2>1. irq_thr \in 1..FIFO_SIZE /\ FIFO_SIZE \in Nat /\ rx.count = FIFO_SIZE
    BY UartAssumption DEF UartInv, Full
  <2>2. \A n \in Nat : \A k \in 1..n : n >= k
    OBVIOUS
  <2>3. rx_irq_pending
    BY <2>1, <2>2 DEF rx_irq_pending
  <2> QED
    BY <2>3 DEF build_sr
<1> QED
  BY <1>1, UartStart, UartSteps, PTL DEF UartSpec

\* Bytes enter the FIFOs at the end and leave them at the front, and an access
\* returns the bytes it removes (uart.cpp, tx_push to drain_tx): for every size
\* of the FIFOs and through every wrap of their indices.
THEOREM BytesCorrect == UartSpec => BytesInOrder
<1>1. ASSUME UartInv, [UartNext]_uartVars
      PROVE  [<<tx, rx>>' # <<tx, rx>> =>
                /\ QueueStep(Held(tx, FIFO_SIZE), Held(tx', FIFO_SIZE))
                /\ QueueStep(Held(rx, FIFO_SIZE), Held(rx', FIFO_SIZE))
                /\ tx'.count < tx.count =>
                     \/ uart_out' = SubSeq(Held(tx, FIFO_SIZE), 1, tx.count - tx'.count)
                     \/ uart_out' = <<>> /\ rx'.count = 0
                /\ rx'.count < rx.count =>
                     \/ uart_out' = SubSeq(Held(rx, FIFO_SIZE), 1, rx.count - rx'.count)
                     \/ uart_out' = <<>> /\ tx'.count = 0]_uartVars
  BY <1>1, UartSteps, Zenon DEF UartStep, Gives
<1> QED
  BY <1>1, UartStart, UartSteps, PTL DEF UartSpec, BytesInOrder

-----------------------------------------------------------------------------
(* The I2C master and the sensor.                                          *)

\* The contents of a register of the sensor.
Pairs == Int \X Int

\* What the steps of the master preserve: while RX_READY is set, the queue
\* holds both bytes of the last transfer, or the second one.
I2cInv ==
  /\ regs \in [0..3 -> Pairs] /\ last_read \in Pairs /\ reg_addr \in Nat
  /\ "RX_READY" \in i2c_sr =>
       rx_queue = last_read \/ rx_queue = <<last_read[2]>>

LEMMA PairFacts ==
  /\ \A a, b \in Int : <<a, b>> \in Pairs
  /\ \A w \in Pairs :
       /\ Len(w) = 2 /\ w # <<>> /\ Tail(w) = <<w[2]>>
       /\ SubSeq(w, 1, 2) = w /\ SubSeq(w, 2, 2) = <<w[2]>>
<1>1. \A a, b \in Int : <<a, b>> \in Pairs
  BY DEF Pairs
<1>2. ASSUME NEW a \in Int, NEW b \in Int
      PROVE  /\ Len(<<a, b>>) = 2 /\ <<a, b>> # <<>> /\ Tail(<<a, b>>) = <<b>>
             /\ <<a, b>>[2] = b
             /\ SubSeq(<<a, b>>, 1, 2) = <<a, b>> /\ SubSeq(<<a, b>>, 2, 2) = <<b>>
  <2>1. Len(<<a, b>>) = 2 /\ <<a, b>> # <<>> /\ <<a, b>>[2] = b
    OBVIOUS
  <2>3. Tail(<<a, b>>) = <<b>>
    OBVIOUS
  <2>4. <<a, b>> \in Seq(Int) /\ <<b>> \in Seq(Int) /\ Len(<<b>>) = 1 /\ <<b>>[1] = b
    OBVIOUS
  <2>5. SubSeq(<<a, b>>, 1, 2) = <<a, b>>
    <3>1. \A q \in Seq(Int) : SubSeq(q, 1, Len(q)) = q
      OBVIOUS
    <3> QED
      BY <2>1, <2>4, <3>1
  <2>6. SubSeq(<<a, b>>, 2, 2) = <<b>>
    <3>1. \A q \in Seq(Int) : Len(q) = 2 =>
             SubSeq(q, 2, 2) \in Seq(Int) /\ Len(SubSeq(q, 2, 2)) = 1
             /\ SubSeq(q, 2, 2)[1] = q[2]
      OBVIOUS
    <3>2. \A p, q \in Seq(Int) : Len(p) = 1 /\ Len(q) = 1 /\ p[1] = q[1] => p = q
      OBVIOUS
    <3> QED
      BY <2>1, <2>4, <3>1, <3>2, Zenon
  <2> QED
    BY <2>1, <2>3, <2>5, <2>6, Zenon
<1>3. \A w \in Pairs : w = <<w[1], w[2]>> /\ w[1] \in Int /\ w[2] \in Int
  BY DEF Pairs
<1>4. ASSUME NEW w \in Pairs
      PROVE  /\ Len(w) = 2 /\ w # <<>> /\ Tail(w) = <<w[2]>>
             /\ SubSeq(w, 1, 2) = w /\ SubSeq(w, 2, 2) = <<w[2]>>
  <2>1. PICK a \in Int, b \in Int : w = <<a, b>>
    BY <1>3
  <2> QED
    BY <1>2, <2>1, Zenon
<1> QED
  BY <1>1, <1>4

LEMMA I2cStart == I2cInit => I2cInv
<1> SUFFICES ASSUME I2cInit PROVE I2cInv
  OBVIOUS
<1>1. regs \in [0..3 -> Pairs]
  <2>1. /\ <<25, 0>> \in Pairs /\ <<0, 0>> \in Pairs
        /\ <<80, 0>> \in Pairs /\ <<75, 0>> \in Pairs
    BY PairFacts
  <2> QED
    BY <2>1 DEF I2cInit
<1>2. last_read \in Pairs /\ reg_addr \in Nat /\ "RX_READY" \notin i2c_sr
  <2>1. <<0, 0>> \in Pairs
    BY PairFacts
  <2> QED
    BY <2>1 DEF I2cInit, Nothing16
<1> QED
  BY <1>1, <1>2 DEF I2cInv

\* A read transfer.
LEMMA DispatchRead ==
  ASSUME I2cInv, NEW s, NEW r \in Nat, dispatch_read(s, r), regs' = regs,
         reg_addr' \in Nat
  PROVE  I2cInv'
<1>1. read_reg16(r) \in Pairs
  BY PairFacts DEF I2cInv, read_reg16, Nothing16
<1>2. CASE s = DEFAULT_ADDR
  BY <1>1, <1>2 DEF dispatch_read, I2cInv
<1>3. CASE s # DEFAULT_ADDR
  BY <1>3 DEF dispatch_read, I2cInv
<1> QED
  BY <1>2, <1>3

\* A write transfer, after which nothing is ready to read.
LEMMA DispatchWrite ==
  ASSUME I2cInv, NEW s, NEW r \in Nat, NEW w \in Words, dispatch_write(s, r, w),
         last_read' = last_read, reg_addr' \in Nat
  PROVE  I2cInv'
<1>1. w \in Pairs
  <2>1. w \in (0..255) \X (0..255)
    BY I2cAssumption
  <2>2. w = <<w[1], w[2]>> /\ w[1] \in Int /\ w[2] \in Int
    BY <2>1
  <2> QED
    BY <2>2, PairFacts
<1>2. Written(r, w) \in [0..3 -> Pairs]
  <2>1. regs \in [0..3 -> Pairs]
    BY DEF I2cInv
  <2>2. CASE r > 3
    BY <2>1, <2>2 DEF Written
  <2>3. CASE ~(r > 3)
    <3>1. r \in 0..3
      BY <2>3
    <3> QED
      BY <1>1, <2>1, <2>3, <3>1 DEF Written
  <2> QED
    BY <2>2, <2>3
<1> QED
  BY <1>2 DEF dispatch_write, I2cInv

LEMMA I2cSteps ==
  ASSUME I2cInv, [I2cNext]_i2cVars
  PROVE  I2cInv'
<1>1. \A h, p \in BOOLEAN : CrRegister(h, p) \in Nat
  BY DEF CrRegister
<1>2. reg_addr \in Nat /\ regs \in [0..3 -> Pairs] /\ last_read \in Pairs
  BY DEF I2cInv
<1>3. ASSUME NEW s \in Slaves, CrRead(s) PROVE I2cInv'
  BY <1>2, <1>3, DispatchRead DEF CrRead
<1>4. ASSUME NEW s \in Slaves, NEW h \in BOOLEAN, NEW p \in BOOLEAN, NEW w \in Words,
             CrWrite(s, h, p, w)
      PROVE  I2cInv'
  <2>1. reg_addr' \in Nat /\ last_read' = last_read
    BY <1>1, <1>4 DEF CrWrite
  <2>2. CASE dispatch_write(s, CrRegister(h, p), w)
    BY <1>1, <2>1, <2>2, DispatchWrite
  <2>3. CASE i2c_sr' = {"ACK_OK"} /\ regs' = regs
    BY <1>2, <2>1, <2>3 DEF I2cInv
  <2> QED
    BY <1>4, <2>2, <2>3 DEF CrWrite
<1>5. ASSUME NEW s \in Slaves, NEW r \in 0..4, read_sensor_reg(s, r) PROVE I2cInv'
  <2>1. r \in Nat
    OBVIOUS
  <2> QED
    BY <1>5, <2>1, DispatchRead DEF read_sensor_reg
<1>6. ASSUME NEW s \in Slaves, NEW r \in 0..4, NEW w \in Words, write_sensor_reg(s, r, w)
      PROVE  I2cInv'
  <2>1. r \in Nat
    OBVIOUS
  <2> QED
    BY <1>2, <1>6, <2>1, DispatchWrite DEF write_sensor_reg
<1>7. ASSUME NEW r \in 0..4, I2cWriteRegAddr(r) PROVE I2cInv'
  BY <1>7 DEF I2cWriteRegAddr, I2cInv
<1>8. CASE I2cReadDR
  <2>1. CASE "RX_READY" \in i2c_sr'
    <3>1. "RX_READY" \in i2c_sr /\ Len(rx_queue) # 1
      BY <1>8, <2>1 DEF I2cReadDR
    <3>2. rx_queue = last_read
      <4>1. \A a : Len(<<a>>) = 1
        OBVIOUS
      <4> QED
        BY <3>1, <4>1 DEF I2cInv
    <3>3. rx_queue' = <<last_read[2]>>
      BY <1>2, <1>8, <3>2, PairFacts DEF I2cReadDR
    <3> QED
      BY <1>2, <1>8, <3>3 DEF I2cReadDR, I2cInv
  <2>2. CASE "RX_READY" \notin i2c_sr'
    BY <1>2, <1>8, <2>2 DEF I2cReadDR, I2cInv
  <2> QED
    BY <2>1, <2>2
<1>9. ASSUME NEW t \in Temps, set_temperature_c10(t) \/ set_temperature_raw(t)
      PROVE  I2cInv'
  <2>1. t \in Int
    BY I2cAssumption
  <2>2. PICK w \in Pairs : regs' = [regs EXCEPT ![REG_TEMP] = w]
    <3>1. EncodeTemp(t) \in Pairs
      <4>1. Quotient(t) % 256 \in Int
        BY <2>1 DEF Quotient
      <4> QED
        BY <4>1, PairFacts DEF EncodeTemp
    <3>2. <<(t \div 2) % 256, (t % 2) * 128>> \in Pairs
      BY <2>1, PairFacts
    <3> QED
      BY <1>9, <3>1, <3>2 DEF set_temperature_c10, set_temperature_raw
  <2>3. regs' \in [0..3 -> Pairs]
    BY <1>2, <2>2 DEF REG_TEMP
  <2>4. UNCHANGED <<i2c_sr, reg_addr, rx_queue, last_read>>
    BY <1>9 DEF set_temperature_c10, set_temperature_raw
  <2> QED
    BY <2>3, <2>4 DEF I2cInv
<1>10. CASE UNCHANGED i2cVars
  BY <1>10 DEF i2cVars, I2cInv
<1> QED
  BY <1>3, <1>4, <1>5, <1>6, <1>7, <1>8, <1>9, <1>10 DEF I2cNext

\* While RX_READY is set, DR gives the bytes of the last read transfer and no
\* others (i2c.cpp, read_reg and write_reg), whatever is written and read.
THEOREM ReadyCorrect == I2cSpec => []ReadyMeansFresh
<1>1. I2cInv => ReadyMeansFresh
  <2> SUFFICES ASSUME I2cInv, "RX_READY" \in i2c_sr
               PROVE  rx_queue # <<>> /\ rx_queue = SubSeq(last_read, 3 - Len(rx_queue), 2)
    BY DEF ReadyMeansFresh
  <2>1. last_read \in Pairs
    BY DEF I2cInv
  <2>2. CASE rx_queue = last_read
    <3>1. /\ Len(last_read) = 2 /\ last_read # <<>>
          /\ SubSeq(last_read, 1, 2) = last_read
      BY <2>1, PairFacts
    <3>2. 3 - Len(last_read) = 1
      BY <3>1
    <3> QED
      BY <2>2, <3>1, <3>2, Zenon
  <2>3. CASE rx_queue = <<last_read[2]>>
    <3>1. \A a : Len(<<a>>) = 1 /\ <<a>> # <<>> /\ 3 - Len(<<a>>) = 2
      OBVIOUS
    <3> QED
      BY <2>1, <2>3, <3>1, PairFacts
  <2> QED
    BY <2>2, <2>3 DEF I2cInv
<1> QED
  BY <1>1, I2cStart, I2cSteps, PTL DEF I2cSpec

\* The temperatures in tenths of a degree whose whole degrees an int8_t holds.
TempRange == -1289..1279

\* What temperature_c returns after set_temperature_c10 (i2c.h): for every
\* temperature whose whole degrees the sensor's byte holds, the value that was
\* set, less than half a degree too low from 0 up, and up to nine tenths too
\* high below 0.
THEOREM TemperatureCorrect ==
  ASSUME NEW t \in TempRange
  PROVE  LET back == temperature_c(EncodeTemp(t))
         IN  IF t >= 0 THEN back <= t /\ t - back < 5
                       ELSE back >= t /\ back - t < 10
<1> DEFINE q == Quotient(t)
           r == Remainder(t)
           half == IF r >= 5 THEN 128 ELSE 0
<1>0. t \in Int /\ t >= -1289 /\ t <= 1279
  BY DEF TempRange
<1>1. /\ q \in Int /\ r \in Int /\ t = 10 * q + r
      /\ t >= 0 => r \in 0..9 /\ q \in 0..127
      /\ t < 0 => r \in -9..0 /\ q \in -128..0
  <2>1. CASE t >= 0
    BY <1>0, <2>1 DEF Quotient, Remainder
  <2>2. CASE t < 0
    BY <1>0, <2>2 DEF Quotient, Remainder
  <2> QED
    BY <1>0, <2>1, <2>2
<1>2. EncodeTemp(t) = <<q % 256, half>>
  BY DEF EncodeTemp
<1> HIDE DEF q, r
<1>3. q >= 0 => q % 256 = q /\ q % 256 < 128
  BY <1>0, <1>1
<1>4. q < 0 => q % 256 = q + 256 /\ ~(q % 256 < 128)
  BY <1>0, <1>1
<1>5. temperature_c(EncodeTemp(t)) = 10 * q + (IF r >= 5 THEN 5 ELSE 0)
  BY <1>0, <1>1, <1>2, <1>3, <1>4 DEF temperature_c
<1> QED
  BY <1>0, <1>1, <1>5

-----------------------------------------------------------------------------
(* The CAN controllers and their bus.                                      *)

\* The pointers on the bus.
WiredInv ==
  /\ exists \subseteq Nodes /\ wired \subseteq exists
  /\ nodes \in Seq(Nodes)
  /\ Attached \subseteq wired
  /\ \A k, m \in 1..Len(nodes) : nodes[k] = nodes[m] => k = m

\* The frames s of a buffer, of the n that were sent.
Increasing(s, n) ==
  /\ \A k \in 1..Len(s) : s[k] <= n
  /\ \A k, m \in 1..Len(s) : k < m => s[k] < s[m]

\* The receive buffer and the status of a controller after n frames.
NodeOK(r, sr, l, n) ==
  /\ RingOK(r, RX_CAPACITY, Frames)
  /\ Increasing(Held(r, RX_CAPACITY), n)
  /\ "RX_READY" \in sr <=> r.count > 0
  /\ l => "RX_OVERFLOW" \in sr

CanInv ==
  /\ WiredInv
  /\ frames \in 0..MaxFrames
  /\ DOMAIN can_rx = Nodes /\ DOMAIN can_sr = Nodes
  /\ lost \in [Nodes -> BOOLEAN]
  /\ \A c \in Nodes : NodeOK(can_rx[c], can_sr[c], lost[c], frames)

\* The next frame is larger than all before it.
LEMMA IncreasingAdds ==
  ASSUME NEW n \in Nat, NEW s \in Seq(Frames), NEW t, Increasing(s, n), Adds(s, n + 1, t)
  PROVE  Increasing(t, n + 1)
<1>1. /\ Len(t) = Len(s) + 1 /\ t[Len(s) + 1] = n + 1
      /\ \A k \in 1..Len(s) : t[k] = s[k] /\ s[k] \in Nat
  BY CanAssumption DEF Adds, Frames
<1>2. /\ \A k \in 1..Len(s) : s[k] <= n
      /\ \A k, m \in 1..Len(s) : k < m => s[k] < s[m]
  BY DEF Increasing
<1>3. Len(s) \in Nat
  OBVIOUS
<1>4. ASSUME NEW k \in 1..(Len(s) + 1) PROVE t[k] <= n + 1
  BY <1>1, <1>2, <1>3
<1>5. ASSUME NEW k \in 1..(Len(s) + 1), NEW m \in 1..(Len(s) + 1), k < m
      PROVE  t[k] < t[m]
  <2>1. k \in 1..Len(s) /\ t[k] = s[k] /\ s[k] \in Nat /\ s[k] <= n
    BY <1>1, <1>2, <1>3, <1>5
  <2>2. CASE m = Len(s) + 1
    BY <1>1, <2>1, <2>2
  <2>3. CASE m \in 1..Len(s)
    BY <1>1, <1>2, <1>5, <2>1, <2>3
  <2> QED
    BY <1>3, <2>2, <2>3
<1> QED
  BY <1>1, <1>4, <1>5 DEF Increasing

\* Taking the oldest frame leaves the order of the others.
LEMMA IncreasingTakes ==
  ASSUME NEW n \in Nat, NEW s \in Seq(Frames), NEW t, NEW x, Increasing(s, n), Takes(s, x, t)
  PROVE  Increasing(t, n)
<1>1. s # <<>> /\ t = Tail(s)
  BY DEF Takes
<1>2. Len(s) \in Nat \ {0}
  BY <1>1
<1>3. /\ Len(t) = Len(s) - 1
      /\ \A k \in 1..(Len(s) - 1) : t[k] = s[k + 1]
  BY <1>1, <1>2
<1>4. /\ \A k \in 1..Len(s) : s[k] <= n
      /\ \A k, m \in 1..Len(s) : k < m => s[k] < s[m]
  BY DEF Increasing
<1>5. ASSUME NEW k \in 1..(Len(s) - 1) PROVE t[k] <= n
  BY <1>2, <1>3, <1>4
<1>6. ASSUME NEW k \in 1..(Len(s) - 1), NEW m \in 1..(Len(s) - 1), k < m
      PROVE  t[k] < t[m]
  <2>1. k + 1 \in 1..Len(s) /\ m + 1 \in 1..Len(s) /\ k + 1 < m + 1
    BY <1>2, <1>6
  <2> QED
    BY <1>3, <1>4, <2>1
<1> QED
  BY <1>3, <1>5, <1>6 DEF Increasing

\* A controller that has just been constructed.
LEMMA NodeNew ==
  ASSUME NEW n \in Nat
  PROVE  NodeOK(EmptyRing(RX_CAPACITY, NoFrame), {}, FALSE, n)
<1>0. RX_CAPACITY \in Nat \ {0} /\ MaxFrames \in Nat
  BY CanAssumption
<1>1. /\ [k \in 0..(RX_CAPACITY - 1) |-> NoFrame] \in [0..(RX_CAPACITY - 1) -> Frames]
      /\ 0 \in 0..(RX_CAPACITY - 1)
  BY <1>0 DEF Frames, NoFrame
<1>2. LET r == EmptyRing(RX_CAPACITY, NoFrame)
      IN  RingOK(r, RX_CAPACITY, Frames) /\ Held(r, RX_CAPACITY) = <<>> /\ r.count = 0
  BY <1>0, <1>1, RingEmpty DEF EmptyRing
<1>3. Increasing(<<>>, n)
  BY DEF Increasing
<1> QED
  BY <1>2, <1>3 DEF NodeOK

\* A controller that a frame does not reach.
LEMMA NodeKeeps ==
  ASSUME NEW n \in Nat, NEW r, NEW sr, NEW l, NodeOK(r, sr, l, n)
  PROVE  NodeOK(r, sr, l, n + 1) /\ NodeOK(r, sr \cup {"TX_OK"}, l, n + 1)
<1>0. RX_CAPACITY \in Nat \ {0} /\ MaxFrames \in Nat
  BY CanAssumption
<1>1. Held(r, RX_CAPACITY) \in Seq(Frames) /\ Increasing(Held(r, RX_CAPACITY), n)
  BY <1>0, HeldType DEF NodeOK
<1>2. \A s \in Seq(Frames) : Increasing(s, n) => Increasing(s, n + 1)
  <2> SUFFICES ASSUME NEW s \in Seq(Frames), Increasing(s, n)
               PROVE  Increasing(s, n + 1)
    OBVIOUS
  <2>1. \A k \in 1..Len(s) : s[k] \in Int /\ s[k] <= n
    BY <1>0 DEF Increasing, Frames
  <2>2. \A k \in 1..Len(s) : s[k] <= n + 1
    BY <2>1
  <2> QED
    BY <2>2 DEF Increasing
<1> QED
  BY <1>1, <1>2 DEF NodeOK

\* A controller that takes a frame.
LEMMA NodePush ==
  ASSUME NEW n \in 0..MaxFrames, n < MaxFrames, NEW r, NEW sr, NEW l,
         NodeOK(r, sr, l, n), r.count < RX_CAPACITY
  PROVE  /\ NodeOK(Pushed(r, RX_CAPACITY, n + 1), sr \cup {"RX_READY"}, l, n + 1)
         /\ Pushed(r, RX_CAPACITY, n + 1) # r
<1>0. RX_CAPACITY \in Nat \ {0} /\ MaxFrames \in Nat /\ n \in Nat /\ n + 1 \in Frames
  BY CanAssumption DEF Frames
<1>1. /\ RingOK(r, RX_CAPACITY, Frames) /\ Increasing(Held(r, RX_CAPACITY), n)
  BY DEF NodeOK
<1>2. r.count \in 0..RX_CAPACITY /\ Held(r, RX_CAPACITY) \in Seq(Frames)
  BY <1>0, <1>1, HeldType
<1>3. r.count # RX_CAPACITY /\ r.count + 1 > 0 /\ r.count + 1 # r.count
  BY <1>0, <1>2
<1>4. /\ RingOK(Pushed(r, RX_CAPACITY, n + 1), RX_CAPACITY, Frames)
      /\ Adds(Held(r, RX_CAPACITY), n + 1, Held(Pushed(r, RX_CAPACITY, n + 1), RX_CAPACITY))
      /\ Pushed(r, RX_CAPACITY, n + 1).count = r.count + 1
  BY <1>0, <1>1, <1>3, PushAppends, Zenon
<1>6. Increasing(Held(Pushed(r, RX_CAPACITY, n + 1), RX_CAPACITY), n + 1)
  BY <1>0, <1>1, <1>2, <1>4, IncreasingAdds
<1>7. l => "RX_OVERFLOW" \in sr \cup {"RX_READY"}
  BY DEF NodeOK
<1> QED
  BY <1>3, <1>4, <1>6, <1>7 DEF NodeOK

\* A controller that loses a frame.
LEMMA NodeFull ==
  ASSUME NEW n \in Nat, NEW r, NEW sr, NEW l, NodeOK(r, sr, l, n)
  PROVE  NodeOK(r, sr \cup {"RX_OVERFLOW"}, TRUE, n + 1)
<1>1. NodeOK(r, sr, l, n + 1)
  BY NodeKeeps
<1> QED
  BY <1>1 DEF NodeOK

\* A controller whose oldest frame is consumed.
LEMMA NodePop ==
  ASSUME NEW n \in Nat, NEW r, NEW sr, NEW l, NodeOK(r, sr, l, n), r.count > 0
  PROVE  NodeOK(Popped(r, RX_CAPACITY),
                IF r.count = 1 THEN sr \ {"RX_READY"} ELSE sr, l, n)
<1>0. RX_CAPACITY \in Nat \ {0} /\ MaxFrames \in Nat
  BY CanAssumption
<1>1. /\ RingOK(r, RX_CAPACITY, Frames) /\ Increasing(Held(r, RX_CAPACITY), n)
  BY DEF NodeOK
<1>2. r.count \in 0..RX_CAPACITY /\ Held(r, RX_CAPACITY) \in Seq(Frames)
  BY <1>0, <1>1, HeldType
<1>3. r.count # 0 /\ (r.count = 1 => ~(r.count - 1 > 0)) /\ (r.count # 1 => r.count - 1 > 0)
  BY <1>0, <1>2
<1>4. /\ RingOK(Popped(r, RX_CAPACITY), RX_CAPACITY, Frames)
      /\ Takes(Held(r, RX_CAPACITY), Front(r), Held(Popped(r, RX_CAPACITY), RX_CAPACITY))
      /\ Popped(r, RX_CAPACITY).count = r.count - 1
  BY <1>0, <1>1, <1>3, PopTakesOldest
<1>6. Increasing(Held(Popped(r, RX_CAPACITY), RX_CAPACITY), n)
  BY <1>1, <1>2, <1>4, IncreasingTakes
<1>7. CASE r.count = 1
  BY <1>3, <1>4, <1>6, <1>7 DEF NodeOK
<1>8. CASE r.count # 1
  BY <1>3, <1>4, <1>6, <1>8 DEF NodeOK
<1> QED
  BY <1>7, <1>8

\* detach() removes the controller and no other, and doubles none.
LEMMA DetachRemoves ==
  ASSUME WiredInv, NEW c \in Attached
  PROVE  /\ Detached(c) \in Seq(Nodes)
         /\ \A k \in 1..Len(Detached(c)) : Detached(c)[k] \in Attached \ {c}
         /\ \A k, m \in 1..Len(Detached(c)) : Detached(c)[k] = Detached(c)[m] => k = m
<1>1. /\ nodes \in Seq(Nodes) /\ Len(nodes) \in Nat /\ DOMAIN nodes = 1..Len(nodes)
      /\ \A k, m \in 1..Len(nodes) : nodes[k] = nodes[m] => k = m
  BY DEF WiredInv
<1>p. PICK i \in 1..Len(nodes) :
        /\ nodes[i] = c
        /\ Detached(c) = [k \in 1..(Len(nodes) - 1) |->
                            IF k = i THEN nodes[Len(nodes)] ELSE nodes[k]]
  BY <1>1 DEF Detached, Attached
<1>3. Len(nodes) - 1 \in Nat
  BY <1>1, <1>p
<1>4. ASSUME NEW k \in 1..(Len(nodes) - 1)
      PROVE  /\ Detached(c)[k] = IF k = i THEN nodes[Len(nodes)] ELSE nodes[k]
             /\ k \in 1..Len(nodes) /\ Len(nodes) \in 1..Len(nodes) /\ k # Len(nodes)
  <2>1. Detached(c)[k] = IF k = i THEN nodes[Len(nodes)] ELSE nodes[k]
    BY <1>p, Zenon
  <2>2. k \in 1..Len(nodes) /\ Len(nodes) \in 1..Len(nodes) /\ k # Len(nodes)
    <3>1. \A n \in Nat : \A j \in 1..(n - 1) : j \in 1..n /\ n \in 1..n /\ j # n
      OBVIOUS
    <3> QED
      BY <1>1, <3>1, Zenon
  <2> QED
    BY <2>1, <2>2
<1>5. ASSUME NEW k \in 1..(Len(nodes) - 1) PROVE Detached(c)[k] \in Attached \ {c}
  <2>1. CASE k = i
    BY <1>1, <1>p, <1>4, <2>1 DEF Attached
  <2>2. CASE k # i
    BY <1>1, <1>p, <1>4, <2>2 DEF Attached
  <2> QED
    BY <2>1, <2>2
<1>6. ASSUME NEW k \in 1..(Len(nodes) - 1), NEW m \in 1..(Len(nodes) - 1),
             Detached(c)[k] = Detached(c)[m]
      PROVE  k = m
  BY <1>1, <1>4, <1>6
<1>7. Attached \subseteq Nodes
  BY <1>1 DEF Attached
<1>8. Detached(c) \in Seq(Nodes) /\ Len(Detached(c)) = Len(nodes) - 1
  <2>1. Detached(c) \in [1..(Len(nodes) - 1) -> Nodes]
    BY <1>p, <1>5, <1>7
  <2> QED
    BY <1>3, <2>1
<1> QED
  BY <1>5, <1>6, <1>8

\* Steps that leave the buffers and the status alone.
LEMMA BusSteps ==
  ASSUME CanInv, WiredInv', UNCHANGED <<can_rx, can_sr, lost, frames>>
  PROVE  CanInv'
BY DEF CanInv

LEMMA CanStart == CanInit => CanInv
<1> SUFFICES ASSUME CanInit PROVE CanInv
  OBVIOUS
<1>1. WiredInv
  BY DEF CanInit, WiredInv, Attached
<1>2. frames = 0 /\ frames \in 0..MaxFrames
  BY CanAssumption DEF CanInit
<1>3. /\ DOMAIN can_sr = Nodes /\ lost \in [Nodes -> BOOLEAN]
      /\ DOMAIN can_rx = Nodes
  BY DEF CanInit
<1>4. ASSUME NEW c \in Nodes PROVE NodeOK(can_rx[c], can_sr[c], lost[c], frames)
  <2>1. /\ can_rx[c] = EmptyRing(RX_CAPACITY, NoFrame)
        /\ can_sr[c] = {} /\ lost[c] = FALSE
    BY DEF CanInit
  <2> QED
    BY <1>2, <2>1, NodeNew
<1> QED
  BY <1>1, <1>2, <1>3, <1>4 DEF CanInv

\* A controller that is not on the bus is appended.
LEMMA AppendKeeps ==
  ASSUME CanInv, NEW c \in Nodes, c \notin Attached, nodes' = Append(nodes, c),
         exists' \subseteq Nodes, wired' \subseteq exists', wired' = wired \cup {c},
         UNCHANGED <<can_rx, can_sr, lost, frames>>
  PROVE  CanInv'
<1>1. /\ nodes \in Seq(Nodes) /\ Len(nodes) \in Nat /\ DOMAIN nodes = 1..Len(nodes)
      /\ \A k \in 1..Len(nodes) : nodes[k] \in wired /\ nodes[k] # c
      /\ \A k, m \in 1..Len(nodes) : nodes[k] = nodes[m] => k = m
  BY DEF CanInv, WiredInv, Attached
<1>2. /\ Append(nodes, c) \in Seq(Nodes)
      /\ Len(Append(nodes, c)) = Len(nodes) + 1
      /\ DOMAIN Append(nodes, c) = 1..(Len(nodes) + 1)
      /\ \A k \in 1..Len(nodes) : Append(nodes, c)[k] = nodes[k]
      /\ Append(nodes, c)[Len(nodes) + 1] = c
      /\ \A k \in 1..(Len(nodes) + 1) : k \in 1..Len(nodes) \/ k = Len(nodes) + 1
  BY <1>1
<1>3. /\ \A k \in 1..(Len(nodes) + 1) : Append(nodes, c)[k] \in wired \cup {c}
      /\ \A k, m \in 1..(Len(nodes) + 1) :
           Append(nodes, c)[k] = Append(nodes, c)[m] => k = m
  BY <1>1, <1>2, Zenon
<1>4. WiredInv'
  BY <1>2, <1>3 DEF WiredInv, Attached
<1> QED
  BY <1>4, BusSteps

\* The constructor appends a controller that is not on the bus, or none.
LEMMA ConstructKeeps ==
  ASSUME CanInv, NEW c \in Nodes, NEW bus \in BOOLEAN, Construct(c, bus)
  PROVE  CanInv'
<1>1. c \notin exists /\ exists' = exists \cup {c}
      /\ wired' = (IF bus THEN wired \cup {c} ELSE wired)
      /\ UNCHANGED <<can_rx, can_sr, lost, frames>>
  BY DEF Construct, MayConstruct
<1>2. WiredInv
  BY DEF CanInv
<1>3. CASE nodes' = nodes
  BY <1>1, <1>2, <1>3, BusSteps DEF WiredInv, Attached
<1>4. CASE bus /\ nodes' = Append(nodes, c)
  <2>1. c \notin Attached
    BY <1>1, <1>2 DEF WiredInv
  <2>2. exists' \subseteq Nodes /\ wired' \subseteq exists' /\ wired' = wired \cup {c}
    BY <1>1, <1>2, <1>4 DEF WiredInv
  <2> QED
    BY <1>1, <1>4, <2>1, <2>2, AppendKeeps
<1> QED
  BY <1>3, <1>4 DEF Construct, WithNode

\* attach called by a program.
LEMMA AttachKeeps ==
  ASSUME CanInv, NEW c \in Nodes, CanAttach(c)
  PROVE  CanInv'
<1>1. c \notin Attached /\ UNCHANGED <<exists, wired, can_rx, can_sr, lost, frames>>
  BY DEF CanAttach
<1>2. exists' \subseteq Nodes /\ wired' \subseteq exists' /\ wired' = wired \cup {c}
  BY DEF CanAttach, CanInv, WiredInv
<1>3. CASE nodes' = Append(nodes, c)
  BY <1>1, <1>2, <1>3, AppendKeeps
<1>4. CASE nodes' = nodes
  BY <1>1, <1>4, BusSteps DEF CanInv, WiredInv, Attached
<1> QED
  BY <1>3, <1>4 DEF CanAttach, WithNode

\* detach called by a program: the others stay on the bus.
LEMMA DetachKeeps ==
  ASSUME CanInv, NEW c \in Nodes, CanDetach(c)
  PROVE  CanInv'
<1>1. /\ WiredInv /\ c \in Attached /\ nodes' = Detached(c)
      /\ UNCHANGED <<exists, wired, can_rx, can_sr, lost, frames>>
  BY DEF CanInv, CanDetach
<1>2. /\ nodes' \in Seq(Nodes)
      /\ \A k \in 1..Len(nodes') : nodes'[k] \in Attached \ {c}
      /\ \A k, m \in 1..Len(nodes') : nodes'[k] = nodes'[m] => k = m
  <2>1. /\ Detached(c) \in Seq(Nodes)
        /\ \A k \in 1..Len(Detached(c)) : Detached(c)[k] \in Attached \ {c}
        /\ \A k, m \in 1..Len(Detached(c)) : Detached(c)[k] = Detached(c)[m] => k = m
    BY <1>1, DetachRemoves
  <2> QED
    BY <1>1, <2>1, Zenon
<1>3. WiredInv'
  BY <1>1, <1>2 DEF WiredInv, Attached
<1> QED
  BY <1>1, <1>3, BusSteps

\* The destructor takes the controller off the bus.
LEMMA DestroyKeeps ==
  ASSUME CanInv, NEW c \in Nodes, Destroy(c)
  PROVE  CanInv'
<1>0. WiredInv /\ frames \in Nat
  BY CanAssumption DEF CanInv
<1>1. /\ exists' = exists \ {c} /\ wired' = wired \ {c} /\ frames' = frames
      /\ nodes' = IF c \in wired THEN Detached(c) ELSE nodes
  BY DEF Destroy
<1>2. WiredInv'
  <2>1. CASE c \in Attached
    <3>1. c \in wired /\ nodes' = Detached(c)
      BY <1>0, <1>1, <2>1 DEF WiredInv
    <3>2. /\ Detached(c) \in Seq(Nodes)
          /\ \A k \in 1..Len(Detached(c)) : Detached(c)[k] \in Attached \ {c}
          /\ \A k, m \in 1..Len(Detached(c)) : Detached(c)[k] = Detached(c)[m] => k = m
      BY <1>0, <2>1, DetachRemoves
    <3>3. /\ nodes' \in Seq(Nodes)
          /\ \A k \in 1..Len(nodes') : nodes'[k] \in wired'
          /\ \A k, m \in 1..Len(nodes') : nodes'[k] = nodes'[m] => k = m
      BY <1>0, <1>1, <3>1, <3>2, Zenon DEF WiredInv
    <3> QED
      BY <1>0, <1>1, <3>3 DEF WiredInv, Attached
  <2>2. CASE c \notin Attached
    <3>1. nodes' = nodes
      BY <1>1, <2>2 DEF Detached
    <3> QED
      BY <1>0, <1>1, <2>2, <3>1 DEF WiredInv, Attached
  <2> QED
    BY <2>1, <2>2
<1>3. /\ can_rx' = [can_rx EXCEPT ![c] = EmptyRing(RX_CAPACITY, NoFrame)]
      /\ can_sr' = [can_sr EXCEPT ![c] = {}]
      /\ lost' = [lost EXCEPT ![c] = FALSE]
  BY DEF Destroy
<1>4. /\ DOMAIN can_sr' = Nodes /\ lost' \in [Nodes -> BOOLEAN]
      /\ DOMAIN can_rx' = Nodes
  BY <1>3 DEF CanInv
<1>5. ASSUME NEW d \in Nodes PROVE NodeOK(can_rx'[d], can_sr'[d], lost'[d], frames)
  <2>1. CASE d = c
    <3>1. /\ can_rx'[d] = EmptyRing(RX_CAPACITY, NoFrame)
          /\ can_sr'[d] = {} /\ lost'[d] = FALSE
      BY <1>3, <2>1 DEF CanInv
    <3> QED
      BY <1>0, <3>1, NodeNew
  <2>2. CASE d # c
    <3>1. can_rx'[d] = can_rx[d] /\ can_sr'[d] = can_sr[d] /\ lost'[d] = lost[d]
      BY <1>3, <2>2 DEF CanInv
    <3> QED
      BY <3>1 DEF CanInv
  <2> QED
    BY <2>1, <2>2
<1> QED
  BY <1>1, <1>2, <1>4, <1>5 DEF CanInv

\* A frame that reaches the controllers R of the bus.
LEMMA DeliverKeeps ==
  ASSUME CanInv, NEW R \in SUBSET Nodes, NEW sr,
         \A d \in Nodes : sr[d] = can_sr[d] \/ sr[d] = can_sr[d] \cup {"TX_OK"},
         Deliver(R, sr)
  PROVE  CanInv'
<1>0. /\ frames \in 0..MaxFrames /\ frames \in Nat /\ frames < MaxFrames
      /\ frames' = frames + 1 /\ frames' \in 0..MaxFrames
  BY CanAssumption DEF CanInv, Deliver
<1>1. WiredInv'
  BY DEF CanInv, WiredInv, Attached, Deliver
<1>2. /\ can_rx' = [d \in Nodes |->
          IF d \in R /\ can_rx[d].count < RX_CAPACITY
          THEN Pushed(can_rx[d], RX_CAPACITY, frames + 1) ELSE can_rx[d]]
      /\ can_sr' = [d \in Nodes |-> IF d \in R THEN Injected(d) ELSE sr[d]]
      /\ lost' = [d \in Nodes |-> lost[d] \/ (d \in R /\ can_rx'[d] = can_rx[d])]
  BY DEF Deliver
<1>3. /\ DOMAIN can_sr' = Nodes /\ lost' \in [Nodes -> BOOLEAN]
      /\ DOMAIN can_rx' = Nodes
  BY <1>2, Zenon
<1>4. ASSUME NEW d \in Nodes
      PROVE  NodeOK(can_rx'[d], can_sr'[d], lost'[d], frames + 1)
  <2>0. /\ NodeOK(can_rx[d], can_sr[d], lost[d], frames)
        /\ RX_CAPACITY \in Nat \ {0} /\ lost[d] \in BOOLEAN
    BY CanAssumption DEF CanInv
  <2>1. CASE d \in R /\ can_rx[d].count < RX_CAPACITY
    <3>1. /\ NodeOK(Pushed(can_rx[d], RX_CAPACITY, frames + 1),
                    can_sr[d] \cup {"RX_READY"}, lost[d], frames + 1)
          /\ Pushed(can_rx[d], RX_CAPACITY, frames + 1) # can_rx[d]
      BY <1>0, <2>0, <2>1, NodePush
    <3>2. can_rx[d].count # RX_CAPACITY
      <4>1. can_rx[d].count \in 0..RX_CAPACITY
        BY <2>0, HeldType DEF NodeOK
      <4> QED
        BY <2>0, <2>1, <4>1
    <3>3. /\ can_rx'[d] = Pushed(can_rx[d], RX_CAPACITY, frames + 1)
          /\ can_sr'[d] = can_sr[d] \cup {"RX_READY"}
      BY <1>2, <2>1, <3>2 DEF Injected
    <3>4. lost'[d] = lost[d]
      <4>1. lost'[d] = (lost[d] \/ (d \in R /\ can_rx'[d] = can_rx[d]))
        BY <1>2, Zenon
      <4> QED
        BY <2>0, <3>1, <3>3, <4>1
    <3> QED
      BY <3>1, <3>3, <3>4
  <2>2. CASE d \in R /\ ~(can_rx[d].count < RX_CAPACITY)
    <3>1. can_rx[d].count = RX_CAPACITY
      <4>1. can_rx[d].count \in 0..RX_CAPACITY
        BY <2>0, HeldType DEF NodeOK
      <4> QED
        BY <2>0, <2>2, <4>1
    <3>2. can_rx'[d] = can_rx[d] /\ can_sr'[d] = can_sr[d] \cup {"RX_OVERFLOW"}
      BY <1>2, <2>2, <3>1 DEF Injected
    <3>3. lost'[d] = TRUE
      BY <1>2, <2>2, <3>2, Zenon
    <3>4. NodeOK(can_rx[d], can_sr[d] \cup {"RX_OVERFLOW"}, TRUE, frames + 1)
      BY <1>0, <2>0, NodeFull
    <3> QED
      BY <3>2, <3>3, <3>4, Zenon
  <2>3. CASE d \notin R
    <3>1. can_rx'[d] = can_rx[d] /\ can_sr'[d] = sr[d]
      BY <1>2, <2>3
    <3>2. lost'[d] = lost[d]
      <4>1. lost'[d] = (lost[d] \/ (d \in R /\ can_rx'[d] = can_rx[d]))
        BY <1>2, Zenon
      <4> QED
        BY <2>0, <2>3, <4>1
    <3>3. /\ NodeOK(can_rx[d], can_sr[d], lost[d], frames + 1)
          /\ NodeOK(can_rx[d], can_sr[d] \cup {"TX_OK"}, lost[d], frames + 1)
      BY <1>0, <2>0, NodeKeeps
    <3>4. sr[d] = can_sr[d] \/ sr[d] = can_sr[d] \cup {"TX_OK"}
      OBVIOUS
    <3> QED
      BY <3>1, <3>2, <3>3, <3>4, Zenon
  <2> QED
    BY <2>1, <2>2, <2>3
<1> QED
  BY <1>0, <1>1, <1>3, <1>4 DEF CanInv

\* Each step of the controllers and of the bus.
LEMMA CanSteps ==
  ASSUME CanInv, [CanNext]_canVars
  PROVE  CanInv'
<1>0. /\ WiredInv /\ Attached \subseteq Nodes /\ DOMAIN can_sr = Nodes
      /\ frames \in Nat
  BY CanAssumption DEF CanInv, WiredInv, Attached
<1>1. ASSUME NEW c \in Nodes, NEW bus \in BOOLEAN, Construct(c, bus) PROVE CanInv'
  BY <1>1, ConstructKeeps
<1>2. ASSUME NEW c \in Nodes, Destroy(c) PROVE CanInv'
  BY <1>2, DestroyKeeps
<1>9. ASSUME NEW c \in Nodes, CanAttach(c) \/ CanDetach(c) PROVE CanInv'
  BY <1>9, AttachKeeps, DetachKeeps
<1>3. ASSUME UNCHANGED <<nodes, exists, wired, can_rx, can_sr, frames, lost>> PROVE CanInv'
  BY <1>3 DEF CanInv, WiredInv, Attached
<1>4. ASSUME NEW c \in Nodes, NEW b \in SUBSET IdBits,
             WriteTxId(c, b) \/ WriteFilterId(c, b) \/ WriteFilterMask(c, b)
      PROVE  CanInv'
  BY <1>3, <1>4 DEF WriteTxId, WriteFilterId, WriteFilterMask
<1>5. ASSUME NEW c \in Nodes, NEW b \in SUBSET IdBits, inject(c, b) PROVE CanInv'
  BY <1>0, <1>5, DeliverKeeps DEF inject
<1>6. ASSUME NEW c \in Nodes, TxSend(c) PROVE CanInv'
  <2>1. Receivers(c) \in SUBSET Nodes
    BY <1>0 DEF Receivers
  <2> DEFINE sr == [can_sr EXCEPT ![c] = @ \cup {"TX_OK"}]
  <2>2. \A d \in Nodes : sr[d] = can_sr[d] \/ sr[d] = can_sr[d] \cup {"TX_OK"}
    BY <1>0
  <2>3. Deliver(Receivers(c), sr)
    BY <1>6 DEF TxSend
  <2> HIDE DEF sr
  <2> QED
    BY <2>1, <2>2, <2>3, DeliverKeeps
<1>7. ASSUME NEW c \in Nodes, RxPop(c) PROVE CanInv'
  <2>1. /\ can_rx[c].count > 0
        /\ can_rx' = [can_rx EXCEPT ![c] = Popped(can_rx[c], RX_CAPACITY)]
        /\ can_sr' = [can_sr EXCEPT ![c] = IF can_rx[c].count = 1
                                          THEN can_sr[c] \ {"RX_READY"} ELSE can_sr[c]]
        /\ UNCHANGED <<nodes, exists, wired, frames, lost>>
    BY <1>7 DEF RxPop
  <2>2. DOMAIN can_sr' = Nodes /\ DOMAIN can_rx' = Nodes
    BY <1>0, <2>1 DEF CanInv
  <2>3. ASSUME NEW d \in Nodes PROVE NodeOK(can_rx'[d], can_sr'[d], lost[d], frames)
    <3>1. NodeOK(can_rx[d], can_sr[d], lost[d], frames)
      BY DEF CanInv
    <3>2. CASE d = c
      <4>1. /\ can_rx'[d] = Popped(can_rx[d], RX_CAPACITY)
            /\ can_sr'[d] = IF can_rx[d].count = 1
                            THEN can_sr[d] \ {"RX_READY"} ELSE can_sr[d]
        BY <1>0, <2>1, <3>2 DEF CanInv
      <4>2. NodeOK(Popped(can_rx[d], RX_CAPACITY),
                   IF can_rx[d].count = 1 THEN can_sr[d] \ {"RX_READY"} ELSE can_sr[d],
                   lost[d], frames)
        BY <1>0, <2>1, <3>1, <3>2, NodePop
      <4> QED
        BY <4>1, <4>2, Zenon
    <3>3. CASE d # c
      <4>1. can_rx'[d] = can_rx[d] /\ can_sr'[d] = can_sr[d]
        BY <1>0, <2>1, <3>3 DEF CanInv
      <4> QED
        BY <3>1, <4>1
    <3> QED
      BY <3>2, <3>3
  <2>4. WiredInv'
    BY <1>0, <2>1 DEF WiredInv, Attached
  <2> QED
    BY <2>1, <2>2, <2>3, <2>4 DEF CanInv
<1>8. CASE UNCHANGED canVars
  BY <1>3, <1>8 DEF canVars
<1> QED
  BY <1>1, <1>2, <1>4, <1>5, <1>6, <1>7, <1>8, <1>9 DEF CanNext

\* The bus points to controllers that exist, to each at most once (can.h, attach
\* and detach): for every number of controllers and every capacity of the bus.
THEOREM NoDanglingCorrect == CanSpec => []NoDanglingNode
<1>1. CanInv => NoDanglingNode
  BY DEF CanInv, WiredInv, NoDanglingNode
<1> QED
  BY <1>1, CanStart, CanSteps, PTL DEF CanSpec

\* RX_READY is set exactly while a frame can be read, and a controller that has
\* lost a frame reports the overflow (can.cpp, inject and REG_RX_POP): for every
\* number of controllers and every size of their buffers.
THEOREM StatusCorrect == CanSpec => []StatusIsTrue
<1>1. CanInv => StatusIsTrue
  BY DEF CanInv, WiredInv, NodeOK, StatusIsTrue
<1> QED
  BY <1>1, CanStart, CanSteps, PTL DEF CanSpec

\* Every controller holds the frames in the order in which they were sent, each
\* at most once (can.cpp, broadcast, rx_push and rx_pop).
THEOREM FramesCorrect == CanSpec => []FramesInOrder
<1>1. CanInv => FramesInOrder
  <2> SUFFICES ASSUME CanInv, NEW c \in exists
               PROVE  LET held == Held(can_rx[c], RX_CAPACITY)
                      IN  \A k, m \in DOMAIN held : k < m => held[k] < held[m]
    BY DEF FramesInOrder
  <2>1. /\ RingOK(can_rx[c], RX_CAPACITY, Frames)
        /\ Increasing(Held(can_rx[c], RX_CAPACITY), frames)
    BY DEF CanInv, WiredInv, NodeOK
  <2>2. Held(can_rx[c], RX_CAPACITY) \in Seq(Frames)
    BY <2>1, HeldType, CanAssumption
  <2> QED
    BY <2>1, <2>2 DEF Increasing
<1> QED
  BY <1>1, CanStart, CanSteps, PTL DEF CanSpec

-----------------------------------------------------------------------------
(* SPI and flash.                                                          *)

FlashStates == {"IDLE", "CMD", "ADDR", "DATA"}

FlashBuffers == Seq(0..1)
FlashCells == [Cells -> 0..1]

\* The members of the flash keep their types.
FlashType(f) ==
  f \in [state : FlashStates, cmd : Commands, addr : Nat, addr_bytes : Nat,
         buf : FlashBuffers, wel : BOOLEAN, data : FlashCells]

LEMMA CommandType ==
  ASSUME NEW f, FlashType(f), NEW c \in Commands, NEW w \in BOOLEAN, NEW st \in FlashStates
  PROVE  FlashType([f EXCEPT !.cmd = c, !.addr = 0, !.addr_bytes = 0, !.buf = <<>>,
                             !.wel = w, !.state = st])
<1>1. <<>> \in FlashBuffers
  BY DEF FlashBuffers
<1> QED
  BY <1>1 DEF FlashType

\* What a call of exchange makes of the flash, by its state.
TakesCommand(f, mosi, g) ==
  /\ FlashType(g)
  /\ g.cmd = mosi.cmd /\ g.addr = 0 /\ g.addr_bytes = 0 /\ g.buf = <<>>
  /\ g.data = f.data
  /\ mosi.cmd = "WRITE_ENABLE" => g.state = "IDLE" /\ g.wel = TRUE
  /\ mosi.cmd # "WRITE_ENABLE" => g.wel = f.wel
  /\ mosi.cmd \in {"READ_ID", "READ_STATUS"} => g.state = "DATA"
  /\ mosi.cmd \notin {"WRITE_ENABLE", "READ_ID", "READ_STATUS"} => g.state = "ADDR"

LEMMA CommandFields ==
  ASSUME NEW f, FlashType(f), NEW mosi \in SpiBytes, NEW g, g = ReceiveCommand(f, mosi)
  PROVE  TakesCommand(f, mosi, g)
<1> DEFINE st == CASE mosi.cmd = "WRITE_ENABLE" -> "IDLE"
                   [] mosi.cmd \in {"READ_ID", "READ_STATUS"} -> "DATA"
                   [] OTHER -> "ADDR"
<1> DEFINE wl == f.wel \/ mosi.cmd = "WRITE_ENABLE"
<1>1. /\ mosi.cmd = "WRITE_ENABLE" => st = "IDLE" /\ wl = TRUE
      /\ mosi.cmd # "WRITE_ENABLE" => wl = f.wel
      /\ mosi.cmd \in {"READ_ID", "READ_STATUS"} => st = "DATA"
      /\ mosi.cmd \notin {"WRITE_ENABLE", "READ_ID", "READ_STATUS"} => st = "ADDR"
      /\ st \in FlashStates /\ wl \in BOOLEAN
  BY DEF FlashType, FlashStates
<1>2. mosi.cmd \in Commands
  BY DEF SpiBytes
<1>3. g = [f EXCEPT !.cmd = mosi.cmd, !.addr = 0, !.addr_bytes = 0, !.buf = <<>>,
                    !.wel = wl, !.state = st]
  BY DEF ReceiveCommand, FlashType
<1> HIDE DEF st, wl
<1>4. FlashType(g)
  <2>1. <<>> \in FlashBuffers /\ st \in FlashStates /\ wl \in BOOLEAN
    BY <1>1 DEF FlashBuffers
  <2>2. FlashType([f EXCEPT !.cmd = mosi.cmd, !.addr = 0, !.addr_bytes = 0, !.buf = <<>>,
                            !.wel = wl, !.state = st])
    BY <1>2, <2>1, CommandType
  <2> QED
    BY <1>3, <2>2
<1>5. /\ g.cmd = mosi.cmd /\ g.addr = 0 /\ g.addr_bytes = 0 /\ g.buf = <<>>
      /\ g.data = f.data /\ g.wel = wl /\ g.state = st
  BY <1>3 DEF FlashType
<1> QED
  BY <1>1, <1>4, <1>5 DEF TakesCommand

LEMMA AddressFields ==
  ASSUME NEW f, FlashType(f), NEW mosi \in SpiBytes, NEW g, g = ReceiveAddress(f, mosi)
  PROVE  /\ FlashType(g)
         /\ g.cmd = f.cmd /\ g.buf = f.buf /\ g.data = f.data /\ g.wel = f.wel
         /\ f.addr_bytes = 2 => /\ g.state = "DATA"
                                /\ g.addr = (f.addr * 2 + mosi.val) % CAPACITY
         /\ f.addr_bytes # 2 => /\ g.state = f.state /\ g.addr_bytes = f.addr_bytes + 1
                                /\ g.addr = f.addr * 2 + mosi.val
<1> DEFINE a == f.addr * 2 + mosi.val
<1>1. a \in Nat /\ CAPACITY \in Nat \ {0} /\ f.addr_bytes \in Nat
  BY SpiAssumption DEF FlashType, SpiBytes
<1>2. a % CAPACITY \in Nat /\ f.addr_bytes + 1 \in Nat
  BY <1>1
<1>3. /\ f.addr_bytes = 2 =>
           g = [f EXCEPT !.addr = a % CAPACITY, !.addr_bytes = 3, !.state = "DATA"]
      /\ f.addr_bytes # 2 => g = [f EXCEPT !.addr = a, !.addr_bytes = f.addr_bytes + 1]
  BY DEF ReceiveAddress, FlashType
<1> HIDE DEF a
<1>4. CASE f.addr_bytes = 2
  <2> DEFINE b == a % CAPACITY
  <2>1. g = [f EXCEPT !.addr = b, !.addr_bytes = 3, !.state = "DATA"] /\ b \in Nat
    BY <1>2, <1>3, <1>4
  <2> HIDE DEF b
  <2>2. /\ g.cmd = f.cmd /\ g.buf = f.buf /\ g.data = f.data /\ g.wel = f.wel
        /\ g.state = "DATA" /\ g.addr = b
    BY <2>1 DEF FlashType
  <2>3. "DATA" \in FlashStates /\ 3 \in Nat
    BY DEF FlashStates
  <2>4. FlashType(g)
    BY <2>1, <2>3 DEF FlashType
  <2> QED
    BY <1>4, <2>2, <2>4 DEF a, b
<1>5. CASE f.addr_bytes # 2
  <2> DEFINE m == f.addr_bytes + 1
  <2>1. g = [f EXCEPT !.addr = a, !.addr_bytes = m] /\ m \in Nat
    BY <1>2, <1>3, <1>5
  <2> HIDE DEF m
  <2>2. /\ FlashType(g)
        /\ g.cmd = f.cmd /\ g.buf = f.buf /\ g.data = f.data /\ g.wel = f.wel
        /\ g.state = f.state /\ g.addr = a /\ g.addr_bytes = m
    BY <1>1, <2>1 DEF FlashType
  <2> QED
    BY <1>5, <2>2 DEF a, m
<1> QED
  BY <1>4, <1>5

LEMMA DataFields ==
  ASSUME NEW f, FlashType(f), NEW mosi \in SpiBytes, NEW g, g = handle_data(f, mosi)
  PROVE  /\ FlashType(g)
         /\ g.cmd = f.cmd /\ g.data = f.data /\ g.wel = f.wel /\ g.state = f.state
         /\ f.cmd = "READ_ID" => Len(g.buf) = Len(f.buf) + 1
         /\ f.cmd \notin {"READ_ID", "PAGE_PROGRAM"} => g.buf = f.buf
         /\ f.cmd = "READ_DATA" => g.addr = (f.addr + 1) % CAPACITY
<1>0. /\ f.buf \in FlashBuffers /\ mosi.val \in 0..1 /\ f.addr \in Nat
      /\ CAPACITY \in Nat \ {0}
  BY SpiAssumption DEF FlashType, SpiBytes
<1>1. CASE f.cmd \in {"READ_ID", "PAGE_PROGRAM"}
  <2> DEFINE b == Append(f.buf, mosi.val)
  <2>1. g = [f EXCEPT !.buf = b] /\ b \in FlashBuffers /\ Len(b) = Len(f.buf) + 1
    BY <1>0, <1>1 DEF handle_data, FlashType, FlashBuffers
  <2> HIDE DEF b
  <2>2. /\ FlashType(g) /\ g.buf = b
        /\ g.cmd = f.cmd /\ g.data = f.data /\ g.wel = f.wel /\ g.state = f.state
    BY <2>1 DEF FlashType
  <2> QED
    BY <1>1, <2>1, <2>2
<1>2. CASE f.cmd = "READ_DATA"
  <2> DEFINE a == (f.addr + 1) % CAPACITY
  <2>1. g = [f EXCEPT !.addr = a] /\ a \in Nat
    BY <1>0, <1>2 DEF handle_data, FlashType
  <2> HIDE DEF a
  <2>2. /\ FlashType(g) /\ g.addr = a /\ g.buf = f.buf
        /\ g.cmd = f.cmd /\ g.data = f.data /\ g.wel = f.wel /\ g.state = f.state
    BY <2>1 DEF FlashType
  <2> QED
    BY <1>2, <2>2 DEF a
<1>3. CASE f.cmd \notin {"READ_ID", "PAGE_PROGRAM", "READ_DATA"}
  <2>1. g = f
    BY <1>3 DEF handle_data
  <2> QED
    BY <1>3, <2>1
<1> QED
  BY <1>1, <1>2, <1>3

\* A command is carried out by the transaction that sent it: an erase that is
\* enabled waits for its end, and so do bytes to program.
FlashInv(f) ==
  /\ FlashType(f)
  /\ f.wel /\ f.cmd = "SECTOR_ERASE" => f.state \in {"ADDR", "DATA"}
  /\ f.buf # <<>> => f.state = "DATA"

LEMMA ExchangeFacts ==
  ASSUME NEW f, FlashInv(f), NEW mosi \in SpiBytes, NEW g, g = exchange(f, mosi)
  PROVE  /\ FlashInv(g) /\ g.data = f.data
         /\ g.wel # f.wel => g.cmd = "WRITE_ENABLE"
         /\ f.state # "CMD" => g.wel = f.wel /\ g.cmd = f.cmd
         /\ g.state # "CMD"
<1>0. FlashType(f) /\ f.state \in FlashStates
  BY DEF FlashInv, FlashType
<1>1. CASE f.state = "CMD"
  <2>1. g = ReceiveCommand(f, mosi)
    BY <1>1 DEF exchange
  <2>2. TakesCommand(f, mosi, g)
    BY <1>0, <2>1, CommandFields
  <2>3. /\ FlashType(g) /\ g.cmd = mosi.cmd /\ g.buf = <<>> /\ g.data = f.data
        /\ g.cmd = "SECTOR_ERASE" => g.state = "ADDR"
        /\ g.cmd # "WRITE_ENABLE" => g.wel = f.wel
        /\ g.state # "CMD"
    BY <2>2 DEF TakesCommand
  <2> QED
    BY <1>1, <2>3 DEF FlashInv
<1>2. CASE f.state = "ADDR"
  <2>1. g = ReceiveAddress(f, mosi)
    BY <1>2 DEF exchange
  <2>2. /\ FlashType(g)
        /\ g.cmd = f.cmd /\ g.buf = f.buf /\ g.data = f.data /\ g.wel = f.wel
        /\ f.addr_bytes = 2 => g.state = "DATA"
        /\ f.addr_bytes # 2 => g.state = f.state
    BY <1>0, <2>1, AddressFields
  <2>3. f.buf = <<>>
    BY <1>2 DEF FlashInv
  <2> QED
    BY <1>2, <2>2, <2>3 DEF FlashInv
<1>3. CASE f.state = "DATA"
  <2>1. g = handle_data(f, mosi)
    BY <1>3 DEF exchange
  <2>2. /\ FlashType(g)
        /\ g.cmd = f.cmd /\ g.data = f.data /\ g.wel = f.wel /\ g.state = f.state
    BY <1>0, <2>1, DataFields
  <2> QED
    BY <1>3, <2>2 DEF FlashInv
<1>4. CASE f.state = "IDLE"
  <2>1. g = f
    BY <1>4 DEF exchange
  <2> QED
    BY <1>4, <2>1
<1> QED
  BY <1>0, <1>1, <1>2, <1>3, <1>4 DEF FlashStates

LEMMA AssertFacts ==
  ASSUME NEW f, FlashInv(f), f.state = "IDLE", NEW g, g = cs_assert(f)
  PROVE  /\ FlashInv(g) /\ g.data = f.data /\ g.wel = f.wel /\ g.cmd = f.cmd
         /\ g.state = "CMD" /\ g.buf = <<>>
<1>1. FlashType(f) /\ ~(f.wel /\ f.cmd = "SECTOR_ERASE")
  BY DEF FlashInv
<1>2. <<>> \in FlashBuffers /\ "CMD" \in FlashStates
  BY DEF FlashBuffers, FlashStates
<1>3. g = [f EXCEPT !.state = "CMD", !.buf = <<>>]
  BY DEF cs_assert
<1>4. /\ FlashType(g) /\ g.data = f.data /\ g.wel = f.wel /\ g.cmd = f.cmd
      /\ g.state = "CMD" /\ g.buf = <<>>
  BY <1>1, <1>2, <1>3 DEF FlashType
<1> QED
  BY <1>1, <1>4 DEF FlashInv

\* Nothing is committed that the transaction did not ask for.
LEMMA CommitFacts ==
  ASSUME NEW f, FlashInv(f), NEW g, g = cs_deassert(f)
  PROVE  /\ FlashInv(g) /\ g.state = "IDLE"
         /\ \/ g.data = f.data
            \/ /\ f.wel /\ ~g.wel /\ f.state \in {"ADDR", "DATA"}
               /\ \/ f.cmd = "PAGE_PROGRAM" /\ g.data = Programmed(f)
                  \/ f.cmd = "SECTOR_ERASE" /\ g.data = erase_sector(f, f.addr)
<1> DEFINE c == commit(f)
<1>0. FlashType(f) /\ f.data \in FlashCells /\ FALSE \in BOOLEAN
  BY DEF FlashInv, FlashType
<1>1. <<>> \in FlashBuffers /\ "IDLE" \in FlashStates
  BY DEF FlashBuffers, FlashStates
<1>2. ASSUME NEW d \in FlashCells, c = [f EXCEPT !.data = d, !.wel = FALSE]
      PROVE  FlashType(c) /\ c.data = d /\ c.wel = FALSE
  BY <1>0, <1>2 DEF FlashType
<1>3. Programmed(f) \in FlashCells /\ erase_sector(f, f.addr) \in FlashCells
  BY <1>0 DEF Programmed, erase_sector, FlashCells
<1>4. /\ FlashType(c)
      /\ \/ c = f /\ ~(f.wel /\ f.cmd = "SECTOR_ERASE")
         \/ /\ f.wel /\ c.wel = FALSE /\ f.state \in {"ADDR", "DATA"}
            /\ \/ f.cmd = "PAGE_PROGRAM" /\ c.data = Programmed(f)
               \/ f.cmd = "SECTOR_ERASE" /\ c.data = erase_sector(f, f.addr)
  <2>1. CASE f.cmd = "PAGE_PROGRAM" /\ f.wel /\ f.buf # <<>>
    <3>1. c = [f EXCEPT !.data = Programmed(f), !.wel = FALSE]
      BY <2>1 DEF commit
    <3>2. FlashType(c) /\ c.data = Programmed(f) /\ c.wel = FALSE
      BY <1>2, <1>3, <3>1
    <3>3. f.state = "DATA"
      BY <2>1 DEF FlashInv
    <3> QED
      BY <2>1, <3>2, <3>3
  <2>2. CASE f.cmd = "SECTOR_ERASE" /\ f.wel
    <3>1. c = [f EXCEPT !.data = erase_sector(f, f.addr), !.wel = FALSE]
      BY <2>2 DEF commit
    <3>2. FlashType(c) /\ c.data = erase_sector(f, f.addr) /\ c.wel = FALSE
      BY <1>2, <1>3, <3>1
    <3>3. f.state \in {"ADDR", "DATA"}
      BY <2>2 DEF FlashInv
    <3> QED
      BY <2>2, <3>2, <3>3
  <2>3. CASE /\ ~(f.cmd = "PAGE_PROGRAM" /\ f.wel /\ f.buf # <<>>)
             /\ ~(f.cmd = "SECTOR_ERASE" /\ f.wel)
    <3>1. c = f
      BY <2>3 DEF commit
    <3> QED
      BY <1>0, <2>3, <3>1
  <2> QED
    BY <2>1, <2>2, <2>3
<1>5. g = [c EXCEPT !.state = "IDLE", !.buf = <<>>]
  BY DEF cs_deassert
<1> HIDE DEF c
<1>6. /\ FlashType(g) /\ g.data = c.data /\ g.wel = c.wel /\ g.cmd = c.cmd
      /\ g.state = "IDLE" /\ g.buf = <<>>
  BY <1>1, <1>4, <1>5 DEF FlashType
<1> QED
  BY <1>4, <1>6 DEF FlashInv

\* What a commit does to the cells: it clears bits in one page, or sets those
\* of one sector.
LEMMA ProgramCells ==
  ASSUME NEW f, FlashType(f), NEW a \in Cells, Programmed(f)[a] # f.data[a]
  PROVE  Programmed(f)[a] = 0 /\ a \div PAGE_SIZE = f.addr \div PAGE_SIZE
<1>0. PICK x \in Nat : x = f.addr
  BY DEF FlashType
<1> DEFINE base == x - (x % PAGE_SIZE)
           q == x \div PAGE_SIZE
<1>1. PAGE_SIZE \in Nat \ {0} /\ CAPACITY \in Nat \ {0} /\ a \in Nat
  BY SpiAssumption DEF Cells
<1>2. a \in base..(base + PAGE_SIZE - 1) /\ Programmed(f)[a] = 0
  BY <1>0 DEF Programmed
<1>3. q \in Nat /\ x % PAGE_SIZE \in 0..(PAGE_SIZE - 1) /\ x = PAGE_SIZE * q + (x % PAGE_SIZE)
  BY <1>0, <1>1, DivMod
<1>4. base = q * PAGE_SIZE
  BY <1>0, <1>1, <1>3
<1>5. a \div PAGE_SIZE = q
  BY <1>1, <1>2, <1>3, <1>4, Block
<1> QED
  BY <1>0, <1>2, <1>5

LEMMA EraseCells ==
  ASSUME NEW f, NEW x \in Nat, NEW a \in Cells
  PROVE  erase_sector(f, x)[a] =
           IF a \div SECTOR_SIZE = x \div SECTOR_SIZE THEN 1 ELSE f.data[a]
<1> DEFINE q == x \div SECTOR_SIZE
<1>0. SECTOR_SIZE \in Nat \ {0} /\ CAPACITY \in Nat \ {0} /\ a \in Nat
  BY SpiAssumption DEF Cells
<1>1. q \in Nat
  BY <1>0, DivMod
<1>2. a \in (q * SECTOR_SIZE)..(q * SECTOR_SIZE + SECTOR_SIZE - 1) <=> a \div SECTOR_SIZE = q
  BY <1>0, <1>1, Block
<1>3. erase_sector(f, x)[a] =
        IF a \in (q * SECTOR_SIZE)..(q * SECTOR_SIZE + SECTOR_SIZE - 1) THEN 1 ELSE f.data[a]
  BY DEF erase_sector
<1> QED
  BY <1>2, <1>3

\* The flash and the answers after each byte of a burst.
Exchanges(g, f, bytes, m) ==
  g = [n \in 0..m |-> IF n = 0 THEN [flash |-> f, rx |-> <<>>]
                      ELSE transfer_byte(g[n - 1], bytes[n])]

LEMMA ExchangesExist ==
  ASSUME NEW f, NEW bytes
  PROVE  \A m \in Nat : \E g : Exchanges(g, f, bytes, m)
<1> DEFINE S == {m \in Nat : \E g : Exchanges(g, f, bytes, m)}
           first == [flash |-> f, rx |-> <<>>]
<1>1. 0 \in S
  <2> DEFINE g == [n \in 0..0 |-> first]
  <2> HIDE DEF first
  <2>1. g = [n \in 0..0 |-> IF n = 0 THEN first ELSE transfer_byte(g[n - 1], bytes[n])]
    OBVIOUS
  <2>2. Exchanges(g, f, bytes, 0)
    BY <2>1 DEF Exchanges, first
  <2> QED
    BY <2>2
<1>2. ASSUME NEW m \in S PROVE m + 1 \in S
  <2>1. PICK g : Exchanges(g, f, bytes, m)
    BY <1>2
  <2>m. m \in Nat
    BY <1>2
  <2> DEFINE h == [n \in 0..(m + 1) |->
                     IF n = m + 1 THEN transfer_byte(g[m], bytes[n]) ELSE g[n]]
  <2>2. /\ DOMAIN g = 0..m
        /\ \A n \in 0..m : g[n] = IF n = 0 THEN first ELSE transfer_byte(g[n - 1], bytes[n])
    BY <2>1 DEF Exchanges
  <2> HIDE DEF first
  <2>3. \A n \in 0..(m + 1) :
          h[n] = IF n = 0 THEN first ELSE transfer_byte(h[n - 1], bytes[n])
    BY <2>m, <2>2
  <2>4. h = [n \in 0..(m + 1) |-> IF n = 0 THEN first ELSE transfer_byte(h[n - 1], bytes[n])]
    BY <2>3
  <2>5. Exchanges(h, f, bytes, m + 1)
    BY <2>4 DEF Exchanges, first
  <2> QED
    BY <2>m, <2>5
<1>3. S = Nat
  <2>1. S \subseteq Nat
    OBVIOUS
  <2> HIDE DEF S
  <2> QED
    BY <1>1, <1>2, <2>1, Induction
<1> QED
  BY <1>3

\* The flash that a burst begins with.
Opened == IF cs_active THEN flash ELSE cs_assert(flash)

LEMMA BurstExchanges ==
  ASSUME NEW words, burst_len * WORD_BYTES \in Nat
  PROVE  \E g : /\ Exchanges(g, Opened, BurstBytes(words), burst_len * WORD_BYTES)
                /\ Burst(words) = g[burst_len * WORD_BYTES]
<1> DEFINE bytes == BurstBytes(words)
           m == burst_len * WORD_BYTES
           g == CHOOSE g : Exchanges(g, Opened, bytes, m)
<1>1. Len(bytes) = m
  BY DEF BurstBytes
<1>2. Exchanges(g, Opened, bytes, m)
  BY ExchangesExist
<1>3. Exchanged(bytes) = g
  BY <1>1 DEF Exchanged, Exchanges, Opened
<1> QED
  BY <1>2, <1>3 DEF Burst

-----------------------------------------------------------------------------
(* The flash follows the bytes of the transaction.                         *)

Start(s) == s[2].val * 4 + s[3].val * 2 + s[4].val

\* Where the flash is after the first n bytes of s.
Track(f, s, n) ==
  /\ n = 0 => f.state = "CMD"
  /\ n # 0 => f.cmd = s[1].cmd
  /\ n # 0 /\ f.cmd = "WRITE_ENABLE" => f.state = "IDLE"
  /\ n # 0 /\ f.cmd = "READ_STATUS" => f.state = "DATA"
  /\ n # 0 /\ f.cmd = "READ_ID" => f.state = "DATA" /\ Len(f.buf) = n - 1
  /\ f.cmd \notin {"WRITE_ENABLE", "READ_STATUS", "READ_ID"} =>
       /\ n = 1 => f.state = "ADDR" /\ f.addr_bytes = 0 /\ f.addr = 0
       /\ n = 2 => f.state = "ADDR" /\ f.addr_bytes = 1 /\ f.addr = s[2].val
       /\ n = 3 => f.state = "ADDR" /\ f.addr_bytes = 2 /\ f.addr = s[2].val * 2 + s[3].val
       /\ n >= 4 => f.state = "DATA"
       /\ n >= 4 /\ f.cmd = "READ_DATA" => f.addr = (Start(s) + n - 4) % CAPACITY

LEMMA TrackCommand ==
  ASSUME NEW f, FlashType(f), NEW s, s[1] \in SpiBytes, Track(f, s, 0)
  PROVE  Track(exchange(f, s[1]), s, 1)
<1> DEFINE g == exchange(f, s[1])
<1>1. f.state = "CMD"
  BY DEF Track
<1>2. g = ReceiveCommand(f, s[1])
  BY <1>1 DEF exchange
<1>3. TakesCommand(f, s[1], g)
  BY <1>2, CommandFields
<1> HIDE DEF g
<1>4. Track(g, s, 1)
  BY <1>3 DEF Track, TakesCommand
<1> QED
  BY <1>4 DEF g

LEMMA TrackAddress ==
  ASSUME NEW f, FlashType(f), NEW s, NEW n \in 1..3, s[n + 1] \in SpiBytes,
         \A k \in 1..n : s[k] \in SpiBytes,
         Track(f, s, n), f.cmd \notin {"WRITE_ENABLE", "READ_STATUS", "READ_ID"}
  PROVE  Track(exchange(f, s[n + 1]), s, n + 1)
<1> DEFINE g == exchange(f, s[n + 1])
<1>1. /\ f.state = "ADDR" /\ f.addr_bytes = n - 1 /\ f.cmd = s[1].cmd
      /\ n = 1 => f.addr = 0
      /\ n = 2 => f.addr = s[2].val
      /\ n = 3 => f.addr = s[2].val * 2 + s[3].val
  BY DEF Track
<1>2. g = ReceiveAddress(f, s[n + 1])
  BY <1>1 DEF exchange
<1>3. /\ g.cmd = f.cmd
      /\ f.addr_bytes = 2 => /\ g.state = "DATA"
                             /\ g.addr = (f.addr * 2 + s[n + 1].val) % CAPACITY
      /\ f.addr_bytes # 2 => /\ g.state = f.state /\ g.addr_bytes = f.addr_bytes + 1
                             /\ g.addr = f.addr * 2 + s[n + 1].val
  BY <1>2, AddressFields
<1>4. \A k \in 1..(n + 1) : s[k].val \in Nat
  BY DEF SpiBytes
<1> HIDE DEF g
<1>5. CASE n = 1
  <2>1. s[2].val \in Nat /\ n + 1 = 2 /\ f.addr_bytes = 0 /\ f.addr = 0
    BY <1>1, <1>4, <1>5
  <2>2. g.state = "ADDR" /\ g.addr_bytes = 1 /\ g.addr = s[2].val
    BY <1>1, <1>3, <2>1
  <2>3. Track(g, s, 2)
    BY <1>1, <1>3, <2>2 DEF Track
  <2> QED
    BY <2>1, <2>3 DEF g
<1>6. CASE n = 2
  <2>1. /\ s[2].val \in Nat /\ s[3].val \in Nat /\ n + 1 = 3
        /\ f.addr_bytes = 1 /\ f.addr = s[2].val
    BY <1>1, <1>4, <1>6
  <2>2. g.state = "ADDR" /\ g.addr_bytes = 2 /\ g.addr = s[2].val * 2 + s[3].val
    BY <1>1, <1>3, <2>1
  <2>3. Track(g, s, 3)
    BY <1>1, <1>3, <2>2 DEF Track
  <2> QED
    BY <2>1, <2>3 DEF g
<1>7. CASE n = 3
  <2>1. /\ s[2].val \in Nat /\ s[3].val \in Nat /\ s[4].val \in Nat /\ n + 1 = 4
        /\ f.addr_bytes = 2 /\ f.addr = s[2].val * 2 + s[3].val
    BY <1>1, <1>4, <1>7
  <2>2. g.state = "DATA" /\ g.addr = ((s[2].val * 2 + s[3].val) * 2 + s[4].val) % CAPACITY
    BY <1>1, <1>3, <2>1
  <2>3. (s[2].val * 2 + s[3].val) * 2 + s[4].val = Start(s) + 4 - 4
    BY <2>1 DEF Start
  <2>4. Track(g, s, 4)
    BY <1>1, <1>3, <2>2, <2>3 DEF Track
  <2> QED
    BY <2>1, <2>4 DEF g
<1> QED
  BY <1>5, <1>6, <1>7

LEMMA TrackData ==
  ASSUME NEW f, FlashType(f), NEW s, NEW n \in Nat \ {0}, s[n + 1] \in SpiBytes,
         \A k \in 1..n : s[k] \in SpiBytes,
         Track(f, s, n), n >= 4 \/ f.cmd \in {"WRITE_ENABLE", "READ_STATUS", "READ_ID"}
  PROVE  Track(exchange(f, s[n + 1]), s, n + 1)
<1> DEFINE g == exchange(f, s[n + 1])
<1>0. f.cmd = s[1].cmd /\ n + 1 # 0 /\ n + 1 - 1 = n
  BY DEF Track
<1>1. CASE f.cmd = "WRITE_ENABLE"
  <2>1. f.state = "IDLE"
    BY <1>1 DEF Track
  <2>2. g = f
    BY <2>1 DEF exchange
  <2> HIDE DEF g
  <2>3. Track(g, s, n + 1)
    BY <1>0, <1>1, <2>1, <2>2 DEF Track
  <2> QED
    BY <2>3 DEF g
<1>2. CASE f.cmd # "WRITE_ENABLE"
  <2>1. f.state = "DATA" /\ (f.cmd = "READ_ID" => Len(f.buf) = n - 1)
    BY <1>2 DEF Track
  <2>2. g = handle_data(f, s[n + 1])
    BY <2>1 DEF exchange
  <2>3. /\ g.cmd = f.cmd /\ g.state = f.state
        /\ f.cmd = "READ_ID" => Len(g.buf) = Len(f.buf) + 1
        /\ f.cmd = "READ_DATA" => g.addr = (f.addr + 1) % CAPACITY
    BY <2>2, DataFields
  <2> HIDE DEF g
  <2>4. f.cmd = "READ_ID" => Len(g.buf) = n
    BY <2>1, <2>3
  <2>5. ASSUME f.cmd = "READ_DATA"
        PROVE  g.addr = (Start(s) + (n + 1) - 4) % CAPACITY
    <3>1. n >= 4 /\ f.addr = (Start(s) + n - 4) % CAPACITY
      BY <2>5 DEF Track
    <3>2. s[2].val \in Nat /\ s[3].val \in Nat /\ s[4].val \in Nat /\ CAPACITY \in Nat \ {0}
      BY <3>1, SpiAssumption DEF SpiBytes
    <3>3. Start(s) \in Nat
      BY <3>2 DEF Start
    <3> DEFINE x == Start(s) + n - 4
    <3>4. x \in Nat /\ Start(s) + (n + 1) - 4 = x + 1
      BY <3>1, <3>3
    <3>5. ((x % CAPACITY) + 1) % CAPACITY = (x + 1) % CAPACITY
      BY <3>2, <3>4, ModSuccessor
    <3> QED
      BY <2>3, <2>5, <3>1, <3>4, <3>5
  <2>6. Track(g, s, n + 1)
    BY <1>0, <1>2, <2>1, <2>3, <2>4, <2>5 DEF Track
  <2> QED
    BY <2>6 DEF g
<1> QED
  BY <1>1, <1>2

LEMMA TrackStep ==
  ASSUME NEW f, FlashType(f), NEW s, NEW n \in Nat,
         \A k \in 1..(n + 1) : s[k] \in SpiBytes, Track(f, s, n)
  PROVE  Track(exchange(f, s[n + 1]), s, n + 1)
<1>0. s[n + 1] \in SpiBytes /\ \A k \in 1..n : s[k] \in SpiBytes
  OBVIOUS
<1>1. CASE n = 0
  <2>1. s[1] \in SpiBytes /\ n + 1 = 1
    BY <1>0, <1>1
  <2>2. Track(exchange(f, s[1]), s, 1)
    BY <1>1, <2>1, TrackCommand
  <2> QED
    BY <2>1, <2>2
<1>2. CASE n \in 1..3 /\ f.cmd \notin {"WRITE_ENABLE", "READ_STATUS", "READ_ID"}
  BY <1>0, <1>2, TrackAddress
<1>3. CASE n # 0 /\ (n >= 4 \/ f.cmd \in {"WRITE_ENABLE", "READ_STATUS", "READ_ID"})
  BY <1>0, <1>3, TrackData
<1> QED
  BY <1>1, <1>2, <1>3

\* Only the bytes that were sent matter.
LEMMA TrackPrefix ==
  ASSUME NEW f, NEW s, NEW s2, NEW n \in Nat, Track(f, s, n), \A k \in 1..n : s2[k] = s[k]
  PROVE  Track(f, s2, n)
<1>1. /\ n # 0 => s2[1] = s[1]
      /\ n >= 2 => s2[2] = s[2]
      /\ n >= 3 => s2[3] = s[3]
      /\ n >= 4 => Start(s2) = Start(s)
  BY DEF Start
<1> QED
  BY <1>1 DEF Track

\* The flash answers by the protocol.
LEMMA ResponseRight ==
  ASSUME NEW f, FlashType(f), NEW s, NEW n \in Nat, Track(f, s, n),
         f.data = flash.data, f.cmd = "READ_STATUS" => f.wel = flash.wel
  PROVE  Response(f) = Answer(s, n + 1)
<1>1. CASE n = 0
  <2>1. f.state = "CMD"
    BY <1>1 DEF Track
  <2> QED
    BY <1>1, <2>1 DEF Response, Answer
<1>2. CASE n # 0 /\ f.cmd = "READ_ID"
  <2>1. f.state = "DATA" /\ Len(f.buf) = n - 1 /\ s[1].cmd = "READ_ID"
    BY <1>2 DEF Track
  <2> QED
    BY <1>2, <2>1 DEF Response, Answer
<1>3. CASE n # 0 /\ f.cmd = "READ_STATUS"
  <2>1. f.state = "DATA" /\ s[1].cmd = "READ_STATUS" /\ n + 1 > 1
    BY <1>3 DEF Track
  <2> QED
    BY <1>3, <2>1 DEF Response, Answer
<1>4. CASE n >= 4 /\ f.cmd = "READ_DATA"
  <2>1. /\ f.state = "DATA" /\ s[1].cmd = "READ_DATA"
        /\ f.addr = (Start(s) + n - 4) % CAPACITY
    BY <1>4 DEF Track
  <2>2. Response(f) = Byte(flash.data[f.addr])
    BY <1>4, <2>1 DEF Response
  <2>3. Answer(s, n + 1) = Byte(flash.data[(Start(s) + (n + 1) - 5) % CAPACITY])
    BY <1>4, <2>1 DEF Answer, Start
  <2>4. Start(s) + (n + 1) - 5 = Start(s) + n - 4
    OBVIOUS
  <2> QED
    BY <2>1, <2>2, <2>3, <2>4
<1>5. CASE n \in 1..3 /\ f.cmd = "READ_DATA"
  <2>1. f.state = "ADDR" /\ s[1].cmd = "READ_DATA"
    BY <1>5 DEF Track
  <2> QED
    BY <1>5, <2>1 DEF Response, Answer
<1>6. CASE n # 0 /\ f.cmd \notin {"READ_ID", "READ_STATUS", "READ_DATA"}
  <2>1. s[1].cmd \notin {"READ_ID", "READ_STATUS", "READ_DATA"}
    BY <1>6 DEF Track
  <2> QED
    BY <1>6, <2>1 DEF Response, Answer
<1> QED
  BY <1>1, <1>2, <1>3, <1>4, <1>5, <1>6

-----------------------------------------------------------------------------
(* The invariant, and bursts.                                              *)

BurstRegs == {w \in Seq(SpiBytes) : Len(w) = WORD_BYTES}

SpiInv ==
  /\ FlashInv(flash)
  /\ cs_active \in BOOLEAN /\ nss_low = cs_active
  /\ ~cs_active => flash.state = "IDLE" /\ sent = <<>>
  /\ sent \in Seq(SpiBytes)
  /\ cs_active => Track(flash, sent, Len(sent))
  /\ burst_len \in 0..MAX_WORDS
  /\ burst_tx \in [0..(MAX_WORDS - 1) -> BurstRegs]

LEMMA BurstType ==
  ASSUME burst_len \in 0..MAX_WORDS, NEW words \in [0..(MAX_WORDS - 1) -> BurstRegs]
  PROVE  /\ burst_len * WORD_BYTES \in Nat
         /\ BurstBytes(words) \in Seq(SpiBytes)
         /\ Len(BurstBytes(words)) = burst_len * WORD_BYTES
<1> DEFINE m == burst_len * WORD_BYTES
<1>0. WORD_BYTES \in Nat \ {0} /\ MAX_WORDS \in Nat \ {0} /\ burst_len \in Nat
  BY SpiAssumption
<1>1. m \in Nat
  BY <1>0
<1>2. ASSUME NEW k \in 1..m
      PROVE  words[(k - 1) \div WORD_BYTES][((k - 1) % WORD_BYTES) + 1] \in SpiBytes
  <2> DEFINE a == k - 1
             q == a \div WORD_BYTES
             r == a % WORD_BYTES
  <2>1. a \in Nat /\ a < burst_len * WORD_BYTES
    BY <1>1, <1>2
  <2>2. q \in Nat /\ r \in 0..(WORD_BYTES - 1) /\ a = WORD_BYTES * q + r
    BY <1>0, <2>1, DivMod
  <2> HIDE DEF a, q, r
  <2>3. q < burst_len
    <3> SUFFICES ASSUME q >= burst_len PROVE FALSE
      BY <1>0, <2>2
    <3>1. WORD_BYTES * q >= WORD_BYTES * burst_len
      BY <1>0, <2>2
    <3> QED
      BY <1>0, <2>1, <2>2, <3>1
  <2>4. q \in 0..(MAX_WORDS - 1) /\ r + 1 \in 1..WORD_BYTES
    BY <1>0, <2>2, <2>3
  <2>5. words[q] \in Seq(SpiBytes) /\ Len(words[q]) = WORD_BYTES
    BY <2>4 DEF BurstRegs
  <2>6. words[q][r + 1] \in SpiBytes
    BY <2>4, <2>5
  <2> QED
    BY <2>6 DEF a, q, r
<1>3. BurstBytes(words) =
        [k \in 1..m |-> words[(k - 1) \div WORD_BYTES][((k - 1) % WORD_BYTES) + 1]]
  BY DEF BurstBytes
<1> HIDE DEF m
<1>4. BurstBytes(words) \in [1..m -> SpiBytes]
  BY <1>2, <1>3
<1>5. BurstBytes(words) \in Seq(SpiBytes) /\ Len(BurstBytes(words)) = m
  BY <1>1, <1>4
<1> QED
  BY <1>1, <1>5 DEF m

\* The flash during a burst: its cells are untouched, and the latch changes
\* only by WRITE_ENABLE.
Continues(f, s, n) ==
  /\ FlashInv(f) /\ f.data = flash.data
  /\ f.wel # flash.wel => f.cmd = "WRITE_ENABLE" /\ f.state # "CMD"
  /\ Track(f, s, n)

LEMMA ContinuesStep ==
  ASSUME NEW f, NEW s, NEW n \in Nat, Continues(f, s, n),
         \A k \in 1..(n + 1) : s[k] \in SpiBytes
  PROVE  Continues(exchange(f, s[n + 1]), s, n + 1)
<1> DEFINE mosi == s[n + 1]
           g == exchange(f, mosi)
<1>1. FlashInv(f) /\ FlashType(f) /\ Track(f, s, n) /\ mosi \in SpiBytes
  BY DEF Continues, FlashInv
<1>2. Track(g, s, n + 1)
  BY <1>1, TrackStep
<1>3. /\ FlashInv(g) /\ g.data = f.data
      /\ g.wel # f.wel => g.cmd = "WRITE_ENABLE"
      /\ f.state # "CMD" => g.wel = f.wel /\ g.cmd = f.cmd
      /\ g.state # "CMD"
  BY <1>1, ExchangeFacts
<1> HIDE DEF g, mosi
<1>4. Continues(g, s, n + 1)
  BY <1>2, <1>3 DEF Continues
<1> QED
  BY <1>4 DEF g, mosi

LEMMA BurstOpens ==
  ASSUME SpiInv, NEW bytes \in Seq(SpiBytes)
  PROVE  Continues(Opened, sent \o bytes, Len(sent))
<1>0. sent \in Seq(SpiBytes) /\ Len(sent) \in Nat /\ FlashInv(flash)
  BY DEF SpiInv
<1>1. CASE cs_active
  <2>1. Opened = flash /\ Track(flash, sent, Len(sent))
    BY <1>1 DEF Opened, SpiInv
  <2>2. \A k \in 1..Len(sent) : (sent \o bytes)[k] = sent[k]
    BY <1>0
  <2>3. Track(flash, sent \o bytes, Len(sent))
    BY <1>0, <2>1, <2>2, TrackPrefix
  <2> QED
    BY <1>0, <2>1, <2>3 DEF Continues
<1>2. CASE ~cs_active
  <2>1. Opened = cs_assert(flash) /\ flash.state = "IDLE" /\ Len(sent) = 0
    BY <1>2 DEF Opened, SpiInv
  <2>2. /\ FlashInv(Opened) /\ Opened.data = flash.data /\ Opened.wel = flash.wel
        /\ Opened.state = "CMD"
    BY <1>0, <2>1, AssertFacts
  <2>3. Track(Opened, sent \o bytes, 0)
    BY <2>2 DEF Track
  <2> QED
    BY <2>1, <2>2, <2>3 DEF Continues
<1> QED
  BY <1>1, <1>2

\* A list of values, extended by the next one.
LEMMA AppendNext ==
  ASSUME NEW A, NEW j \in Nat
  PROVE  Append([k \in 1..j |-> A[k]], A[j + 1]) = [k \in 1..(j + 1) |-> A[k]]
OBVIOUS

HasLength(bytes, m) == Len(bytes) = m

\* A has the answers to the bytes that follow those that were sent.
Answers(A, bytes) == \A k \in Nat : A[k] = Answer(sent \o bytes, Len(sent) + k)

LEMMA ExchangesAt ==
  ASSUME NEW g, NEW f, NEW bytes, NEW m \in Nat, Exchanges(g, f, bytes, m)
  PROVE  /\ g[0].flash = f /\ g[0].rx = <<>>
         /\ \A j \in 0..m : j # 0 =>
              /\ g[j].flash = exchange(g[j - 1].flash, bytes[j])
              /\ g[j].rx = Append(g[j - 1].rx, Response(g[j - 1].flash))
<1> DEFINE first == [flash |-> f, rx |-> <<>>]
<1>1. g = [n \in 0..m |-> IF n = 0 THEN first ELSE transfer_byte(g[n - 1], bytes[n])]
  BY DEF Exchanges
<1> HIDE DEF first
<1>2. g[0] = first /\ \A j \in 0..m : j # 0 => g[j] = transfer_byte(g[j - 1], bytes[j])
  BY <1>1
<1>3. \A j \in 0..m : j # 0 =>
        /\ g[j].flash = exchange(g[j - 1].flash, bytes[j])
        /\ g[j].rx = Append(g[j - 1].rx, Response(g[j - 1].flash))
  <2> TAKE j \in 0..m
  <2> HAVE j # 0
  <2>1. g[j] = transfer_byte(g[j - 1], bytes[j])
    BY <1>2
  <2> QED
    BY <2>1 DEF transfer_byte
<1>4. first.flash = f /\ first.rx = <<>>
  BY DEF first
<1> QED
  BY <1>2, <1>3, <1>4

\* By induction over the bytes of a burst: after j of them the flash is where
\* the transaction is, and it has answered each of them by the protocol.
LEMMA BurstSteps ==
  ASSUME SpiInv, NEW bytes \in Seq(SpiBytes), NEW g, NEW m \in Nat, HasLength(bytes, m),
         Exchanges(g, Opened, bytes, m), NEW A, Answers(A, bytes)
  PROVE  \A j \in 0..m : /\ Continues(g[j].flash, sent \o bytes, Len(sent) + j)
                         /\ g[j].rx = [k \in 1..j |-> A[k]]
<1> DEFINE s == sent \o bytes
           n == Len(sent)
           J(j) == Continues(g[j].flash, s, n + j) /\ g[j].rx = [k \in 1..j |-> A[k]]
           S == {j \in Nat : j <= m => J(j)}
<1>0. sent \in Seq(SpiBytes) /\ n \in Nat
  BY DEF SpiInv
<1>m. Len(bytes) = m
  BY DEF HasLength
<1>s. \A j \in 1..m : s[n + j] = bytes[j]
  BY <1>0, <1>m
<1>b. \A k \in 1..(n + m) : s[k] \in SpiBytes
  <2>1. s \in Seq(SpiBytes) /\ Len(s) = n + m
    BY <1>0, <1>m
  <2> HIDE DEF s, n
  <2> QED
    BY <2>1
<1>g. /\ g[0].flash = Opened /\ g[0].rx = <<>>
      /\ \A j \in 0..m : j # 0 =>
           /\ g[j].flash = exchange(g[j - 1].flash, bytes[j])
           /\ g[j].rx = Append(g[j - 1].rx, Response(g[j - 1].flash))
  BY ExchangesAt
<1>c. Continues(Opened, s, n)
  BY BurstOpens
<1> HIDE DEF s, n
<1>1. 0 \in S
  <2>1. g[0].flash = Opened /\ g[0].rx = <<>> /\ n + 0 = n
    BY <1>0, <1>g
  <2>2. [k \in 1..0 |-> A[k]] = <<>>
    OBVIOUS
  <2> QED
    BY <1>c, <2>1, <2>2
<1>2. ASSUME NEW j \in S PROVE j + 1 \in S
  <2>0. j \in Nat /\ j + 1 \in Nat
    BY <1>2
  <2> SUFFICES ASSUME j + 1 <= m PROVE J(j + 1)
    <3> HIDE DEF J
    <3> QED
      BY <2>0
  <2>1. j \in Nat /\ j + 1 \in 0..m /\ j + 1 \in 1..m /\ j + 1 # 0 /\ j + 1 - 1 = j
    BY <2>0
  <2> DEFINE f == g[j].flash
             mosi == bytes[j + 1]
  <2>2. Continues(f, s, n + j) /\ g[j].rx = [k \in 1..j |-> A[k]]
    BY <1>2, <2>1
  <2>4. g[j + 1].flash = exchange(f, mosi) /\ g[j + 1].rx = Append(g[j].rx, Response(f))
    <3> DEFINE i == j + 1
    <3>1. i \in 0..m /\ i # 0 /\ i - 1 = j
      BY <2>1
    <3> HIDE DEF i
    <3>2. /\ g[i].flash = exchange(g[i - 1].flash, bytes[i])
          /\ g[i].rx = Append(g[i - 1].rx, Response(g[i - 1].flash))
      BY <1>g, <3>1, Zenon
    <3>3. /\ g[i].flash = exchange(g[j].flash, bytes[i])
          /\ g[i].rx = Append(g[j].rx, Response(g[j].flash))
      BY <3>1, <3>2, Zenon
    <3> QED
      BY <3>3, Zenon DEF i
  <2>5. s[(n + j) + 1] = mosi /\ n + j \in Nat /\ n + (j + 1) = (n + j) + 1
    BY <1>0, <1>s, <2>1
  <2>6. \A k \in 1..((n + j) + 1) : s[k] \in SpiBytes
    BY <1>0, <1>b, <2>1
  <2> HIDE DEF f, mosi
  <2>7. Continues(exchange(f, s[(n + j) + 1]), s, (n + j) + 1)
    BY <2>2, <2>5, <2>6, ContinuesStep
  <2>8. Response(f) = Answer(s, (n + j) + 1)
    <3>1. /\ FlashType(f) /\ Track(f, s, n + j) /\ f.data = flash.data
          /\ f.cmd = "READ_STATUS" => f.wel = flash.wel
      BY <2>2 DEF Continues, FlashInv
    <3> QED
      BY <2>5, <3>1, ResponseRight
  <2>9. A[j + 1] = Answer(s, n + (j + 1))
    <3>1. \A k \in Nat : A[k] = Answer(s, n + k)
      BY DEF s, n, Answers
    <3>2. j + 1 \in Nat
      BY <2>0
    <3> QED
      BY <3>1, <3>2, Zenon
  <2>10. g[j + 1].rx = Append([k \in 1..j |-> A[k]], A[j + 1])
    BY <2>2, <2>4, <2>5, <2>8, <2>9
  <2>11. g[j + 1].rx = [k \in 1..(j + 1) |-> A[k]]
    BY <2>1, <2>10, AppendNext
  <2> QED
    BY <2>4, <2>5, <2>7, <2>11
<1>3. S = Nat
  <2>1. S \subseteq Nat
    OBVIOUS
  <2> HIDE DEF S
  <2> QED
    BY <1>1, <1>2, <2>1, Induction
<1>4. \A j \in 0..m : J(j)
  <2> HIDE DEF J
  <2> QED
    BY <1>3
<1> QED
  BY <1>4 DEF s, n

\* What a burst does before it releases chip select.
LEMMA BurstFacts ==
  ASSUME SpiInv, NEW words \in [0..(MAX_WORDS - 1) -> BurstRegs]
  PROVE  /\ Continues(Burst(words).flash, sent \o BurstBytes(words),
                      Len(sent) + burst_len * WORD_BYTES)
         /\ BurstRx(words) = [k \in 1..(burst_len * WORD_BYTES) |->
                                Answer(sent \o BurstBytes(words), Len(sent) + k)]
         /\ burst_len = 0 => Burst(words).flash = Opened
<1> DEFINE bytes == BurstBytes(words)
           m == burst_len * WORD_BYTES
           A == [k \in Nat |-> Answer(sent \o bytes, Len(sent) + k)]
<1>1. m \in Nat /\ bytes \in Seq(SpiBytes) /\ Len(bytes) = m
  BY BurstType DEF SpiInv
<1>2. PICK g : Exchanges(g, Opened, bytes, m) /\ Burst(words) = g[m]
  BY <1>1, BurstExchanges
<1> HIDE DEF bytes
<1>3. \A j \in 0..m : /\ Continues(g[j].flash, sent \o bytes, Len(sent) + j)
                      /\ g[j].rx = [k \in 1..j |-> A[k]]
  <2> DEFINE B == A
  <2> HIDE DEF B, A, m
  <2>1. Answers(B, bytes) /\ HasLength(bytes, m)
    BY <1>1 DEF B, A, Answers, HasLength
  <2>2. \A j \in 0..m : /\ Continues(g[j].flash, sent \o bytes, Len(sent) + j)
                        /\ g[j].rx = [k \in 1..j |-> B[k]]
    BY <1>1, <1>2, <2>1, BurstSteps
  <2> QED
    BY <2>2 DEF B
<1>4. Continues(g[m].flash, sent \o bytes, Len(sent) + m) /\ g[m].rx = [k \in 1..m |-> A[k]]
  <2>1. m \in 0..m
    BY <1>1
  <2> HIDE DEF A, m
  <2> QED
    BY <1>3, <2>1, Zenon
<1>5. [k \in 1..m |-> A[k]] = [k \in 1..m |-> Answer(sent \o bytes, Len(sent) + k)]
  BY <1>1
<1>6. ASSUME burst_len = 0 PROVE Burst(words).flash = Opened
  <2>1. m = 0
    BY <1>6, SpiAssumption
  <2>2. g[0] = [flash |-> Opened, rx |-> <<>>]
    BY <1>2, <2>1 DEF Exchanges
  <2> QED
    BY <1>2, <2>1, <2>2
<1> QED
  BY <1>2, <1>4, <1>5, <1>6 DEF BurstRx, bytes

-----------------------------------------------------------------------------
(* Steps.                                                                  *)

LEMMA SpiStart == SpiInit => SpiInv
<1> SUFFICES ASSUME SpiInit PROVE SpiInv
  OBVIOUS
<1>0. MAX_WORDS \in Nat \ {0} /\ WORD_BYTES \in Nat \ {0}
  BY SpiAssumption
<1>1. FlashInv(flash) /\ flash.state = "IDLE"
  <2>1. [a \in Cells |-> 1] \in FlashCells /\ <<>> \in FlashBuffers /\ "IDLE" \in FlashStates
        /\ "other" \in Commands
    BY DEF FlashCells, FlashBuffers, FlashStates, Commands
  <2>2. flash = [state |-> "IDLE", cmd |-> "other", addr |-> 0, addr_bytes |-> 0,
                 buf |-> <<>>, wel |-> FALSE, data |-> [a \in Cells |-> 1]]
    BY DEF SpiInit
  <2> DEFINE d == [a \in Cells |-> 1]
  <2>3. d \in FlashCells /\ flash = [state |-> "IDLE", cmd |-> "other", addr |-> 0,
                addr_bytes |-> 0, buf |-> <<>>, wel |-> FALSE, data |-> d]
    BY <2>1, <2>2
  <2> HIDE DEF d
  <2>4. FlashType(flash) /\ flash.wel = FALSE /\ flash.buf = <<>> /\ flash.state = "IDLE"
    BY <2>1, <2>3 DEF FlashType
  <2> QED
    BY <2>4 DEF FlashInv
<1>2. burst_tx \in [0..(MAX_WORDS - 1) -> BurstRegs]
  <2> DEFINE b == [cmd |-> "other", val |-> 0]
             w == [j \in 1..WORD_BYTES |-> b]
  <2>1. b \in SpiBytes
    BY DEF SpiBytes, Commands
  <2>2. burst_tx = [k \in 0..(MAX_WORDS - 1) |-> w]
    BY DEF SpiInit
  <2> HIDE DEF b
  <2>3. w \in Seq(SpiBytes) /\ Len(w) = WORD_BYTES
    BY <1>0, <2>1
  <2>4. w \in BurstRegs
    BY <2>3 DEF BurstRegs
  <2> HIDE DEF w
  <2> QED
    BY <2>2, <2>4
<1>3. /\ cs_active = FALSE /\ nss_low = FALSE /\ sent = <<>> /\ burst_len \in 0..MAX_WORDS
  BY <1>0 DEF SpiInit
<1>4. <<>> \in Seq(SpiBytes)
  OBVIOUS
<1> QED
  BY <1>1, <1>2, <1>3, <1>4 DEF SpiInv

\* g differs from f in the cells only.
LEMMA OnlyCells ==
  ASSUME NEW f, FlashInv(f), NEW d \in FlashCells, NEW g, g = [f EXCEPT !.data = d]
  PROVE  /\ FlashInv(g) /\ g.state = f.state
         /\ \A s : \A n \in Nat : Track(f, s, n) => Track(g, s, n)
<1>1. /\ FlashType(g) /\ g.state = f.state /\ g.cmd = f.cmd /\ g.addr = f.addr
      /\ g.addr_bytes = f.addr_bytes /\ g.buf = f.buf /\ g.wel = f.wel
  BY DEF FlashInv, FlashType
<1>2. FlashInv(g)
  BY <1>1 DEF FlashInv
<1>3. ASSUME NEW s, NEW n \in Nat, Track(f, s, n) PROVE Track(g, s, n)
  BY <1>1, <1>3 DEF Track
<1> QED
  BY <1>1, <1>2, <1>3

LEMMA SpiStep == SpiInv /\ [SpiNext]_spiVars => SpiInv'
<1> SUFFICES ASSUME SpiInv, [SpiNext]_spiVars PROVE SpiInv'
  OBVIOUS
<1>a. /\ FlashInv(flash) /\ flash.data \in FlashCells
      /\ cs_active \in BOOLEAN /\ nss_low = cs_active
      /\ ~cs_active => flash.state = "IDLE" /\ sent = <<>>
      /\ sent \in Seq(SpiBytes) /\ Len(sent) \in Nat
      /\ cs_active => Track(flash, sent, Len(sent))
      /\ burst_len \in 0..MAX_WORDS
      /\ burst_tx \in [0..(MAX_WORDS - 1) -> BurstRegs]
      /\ MAX_WORDS \in Nat \ {0}
  BY SpiAssumption DEF SpiInv, FlashInv, FlashType
<1>1. CASE TestWrites
  <2>0. PICK a \in Cells : \E d \in {[flash.data EXCEPT ![a] = 0], erase_sector(flash, a)} :
          flash' = [flash EXCEPT !.data = d]
    BY <1>1 DEF TestWrites
  <2>1. PICK d \in {[flash.data EXCEPT ![a] = 0], erase_sector(flash, a)} :
          flash' = [flash EXCEPT !.data = d]
    BY <2>0
  <2>2. d \in FlashCells
    <3>1. [flash.data EXCEPT ![a] = 0] \in FlashCells
      BY <1>a DEF FlashCells
    <3>2. erase_sector(flash, a) \in FlashCells
      BY <1>a DEF FlashCells, erase_sector
    <3> QED
      BY <2>1, <3>1, <3>2
  <2>3. /\ FlashInv(flash') /\ flash'.state = flash.state
        /\ \A s : \A n \in Nat : Track(flash, s, n) => Track(flash', s, n)
    BY <1>a, <2>1, <2>2, OnlyCells
  <2>4. cs_active => Track(flash', sent, Len(sent))
    BY <1>a, <2>3
  <2>5. UNCHANGED <<cs_active, nss_low, burst_len, burst_tx, spi_rx, sent>>
    BY <1>1 DEF TestWrites
  <2> QED
    BY <1>a, <2>3, <2>4, <2>5 DEF SpiInv
<1>2. ASSUME NEW low \in BOOLEAN, SpiWriteCR(low) PROVE SpiInv'
  <2>0. /\ nss_low' = low /\ cs_active' = low /\ burst_len' = burst_len /\ burst_tx' = burst_tx
        /\ flash' = IF low = cs_active THEN flash
                    ELSE IF low THEN cs_assert(flash) ELSE cs_deassert(flash)
        /\ sent' = IF low = cs_active THEN sent ELSE <<>>
    BY <1>2 DEF SpiWriteCR
  <2>e. <<>> \in Seq(SpiBytes) /\ Len(<<>>) = 0
    OBVIOUS
  <2>1. CASE low = cs_active
    BY <1>a, <2>0, <2>1 DEF SpiInv
  <2>2. CASE low # cs_active /\ low
    <3>1. flash' = cs_assert(flash) /\ flash.state = "IDLE" /\ sent' = <<>>
      BY <1>a, <2>0, <2>2
    <3>2. FlashInv(flash') /\ flash'.state = "CMD"
      BY <1>a, <3>1, AssertFacts
    <3>3. Track(flash', <<>>, 0)
      BY <3>2 DEF Track
    <3> QED
      BY <1>a, <2>0, <2>2, <2>e, <3>1, <3>2, <3>3 DEF SpiInv
  <2>3. CASE low # cs_active /\ ~low
    <3>1. flash' = cs_deassert(flash) /\ sent' = <<>>
      BY <1>a, <2>0, <2>3
    <3>2. FlashInv(flash') /\ flash'.state = "IDLE"
      BY <1>a, <3>1, CommitFacts
    <3> QED
      BY <1>a, <2>0, <2>3, <2>e, <3>1, <3>2 DEF SpiInv
  <2> QED
    BY <2>1, <2>2, <2>3
<1>3. ASSUME NEW mosi \in SpiBytes, SpiWriteDR(mosi) PROVE SpiInv'
  <2>0. UNCHANGED <<cs_active, nss_low, burst_len, burst_tx>>
    BY <1>3 DEF SpiWriteDR
  <2>1. CASE cs_active
    <3> DEFINE n == Len(sent)
               s == Append(sent, mosi)
    <3>1. flash' = exchange(flash, mosi) /\ sent' = s
      BY <1>3, <2>1 DEF SpiWriteDR
    <3>2. /\ s \in Seq(SpiBytes) /\ Len(s) = n + 1 /\ s[n + 1] = mosi /\ n \in Nat
          /\ \A k \in 1..n : s[k] = sent[k]
      BY <1>a
    <3>3. FlashType(flash) /\ Track(flash, sent, n)
      BY <1>a, <2>1 DEF FlashInv
    <3> HIDE DEF s, n
    <3>4. Track(flash, s, n)
      BY <3>2, <3>3, TrackPrefix
    <3>5. \A k \in 1..(n + 1) : s[k] \in SpiBytes
      BY <3>2
    <3>6. Track(exchange(flash, s[n + 1]), s, n + 1)
      BY <3>2, <3>3, <3>4, <3>5, TrackStep
    <3>7. Track(flash', sent', Len(sent'))
      BY <3>1, <3>2, <3>6
    <3>8. FlashInv(flash')
      BY <1>a, <3>1, ExchangeFacts
    <3> QED
      BY <1>a, <2>0, <2>1, <3>1, <3>2, <3>7, <3>8 DEF SpiInv
  <2>2. CASE ~cs_active
    <3>1. UNCHANGED <<flash, sent>>
      BY <1>3, <2>2 DEF SpiWriteDR
    <3> QED
      BY <1>a, <2>0, <2>2, <3>1 DEF SpiInv
  <2> QED
    BY <1>a, <2>1, <2>2
<1>4. ASSUME NEW v \in 0..(MAX_WORDS + 1), SpiWriteBurstLen(v) PROVE SpiInv'
  <2>1. burst_len' \in 0..MAX_WORDS
    BY <1>a, <1>4 DEF SpiWriteBurstLen
  <2>2. UNCHANGED <<flash, cs_active, nss_low, burst_tx, spi_rx, sent>>
    BY <1>4 DEF SpiWriteBurstLen
  <2> QED
    BY <1>a, <2>1, <2>2 DEF SpiInv
<1>5. CASE SpiReadDR
  <2>1. UNCHANGED <<flash, cs_active, nss_low, burst_len, burst_tx, sent>>
    BY <1>5 DEF SpiReadDR
  <2> QED
    BY <1>a, <2>1 DEF SpiInv
<1>6. ASSUME NEW k \in 0..(MAX_WORDS - 1), NEW word \in BurstWords[k], SpiWriteBurstTx(k, word)
      PROVE  SpiInv'
  <2>1. burst_tx' \in [0..(MAX_WORDS - 1) -> BurstRegs] /\ burst_len' = burst_len
    <3>1. word \in BurstRegs
      BY <1>6, SpiAssumption DEF BurstRegs
    <3> QED
      BY <1>a, <1>6, <3>1 DEF SpiWriteBurstTx
  <2>2. CASE do_burst(burst_tx')
    <3>1. /\ flash' = cs_deassert(Burst(burst_tx').flash) /\ cs_active' = FALSE
          /\ nss_low' = FALSE /\ sent' = <<>>
      BY <2>2 DEF do_burst
    <3>2. FlashInv(Burst(burst_tx').flash)
      BY <2>1, BurstFacts DEF Continues
    <3>3. FlashInv(flash') /\ flash'.state = "IDLE"
      BY <3>1, <3>2, CommitFacts
    <3>4. <<>> \in Seq(SpiBytes)
      OBVIOUS
    <3> QED
      BY <1>a, <2>1, <3>1, <3>3, <3>4 DEF SpiInv
  <2>3. CASE UNCHANGED <<flash, cs_active, nss_low, sent>>
    BY <1>a, <2>1, <2>3 DEF SpiInv
  <2> QED
    BY <1>6, <2>2, <2>3 DEF SpiWriteBurstTx
<1>7. CASE UNCHANGED spiVars
  BY <1>a, <1>7 DEF SpiInv, spiVars
<1> QED
  BY <1>1, <1>2, <1>3, <1>4, <1>5, <1>6, <1>7 DEF SpiNext

\* The firmware's steps that may change cells: chip select is released, by CR
\* or at the end of a burst.
Releases(f) ==
  /\ FlashInv(f) /\ f.data = flash.data /\ flash' = cs_deassert(f)
  /\ f.wel # flash.wel => f.cmd = "WRITE_ENABLE"
  /\ SpiWriteCR(FALSE) \/ burst_len = 0 => f = flash \/ f.state = "CMD"

LEMMA CommitStep ==
  ASSUME SpiInv, [SpiNext]_spiVars, Committed
  PROVE  \E f : Releases(f)
<1>0. flash' # flash /\ flash'.data # flash.data /\ ~TestWrites
  BY DEF Committed
<1>a. /\ FlashInv(flash) /\ cs_active \in BOOLEAN
      /\ ~cs_active => flash.state = "IDLE"
      /\ burst_tx \in [0..(MAX_WORDS - 1) -> BurstRegs]
  BY DEF SpiInv
<1>1. CASE SpiWriteCR(FALSE)
  <2>1. flash' = cs_deassert(flash)
    BY <1>0, <1>1, <1>a DEF SpiWriteCR
  <2>2. Releases(flash)
    BY <1>a, <2>1 DEF Releases
  <2> QED
    BY <2>2
<1>2. CASE ~SpiWriteCR(FALSE)
  <2>1. ASSUME NEW low \in BOOLEAN, SpiWriteCR(low) PROVE FALSE
    <3>1. low = TRUE
      BY <1>2, <2>1
    <3>2. flash' = cs_assert(flash) /\ ~cs_active
      BY <1>0, <1>a, <2>1, <3>1 DEF SpiWriteCR
    <3>3. flash'.data = flash.data
      BY <1>a, <3>2, AssertFacts
    <3> QED
      BY <1>0, <3>3
  <2>2. ASSUME NEW mosi \in SpiBytes, SpiWriteDR(mosi) PROVE FALSE
    <3>1. flash' = exchange(flash, mosi)
      BY <1>0, <2>2 DEF SpiWriteDR
    <3>2. flash'.data = flash.data
      BY <1>a, <3>1, ExchangeFacts
    <3> QED
      BY <1>0, <3>2
  <2>3. ASSUME NEW v, SpiWriteBurstLen(v) PROVE FALSE
    BY <1>0, <2>3 DEF SpiWriteBurstLen
  <2>4. ~SpiReadDR /\ ~UNCHANGED spiVars
    BY <1>0 DEF SpiReadDR, spiVars
  <2>5. ASSUME NEW k \in 0..(MAX_WORDS - 1), NEW word \in BurstWords[k],
               SpiWriteBurstTx(k, word)
        PROVE  \E f : Releases(f)
    <3>1. burst_tx' \in [0..(MAX_WORDS - 1) -> BurstRegs]
      <4>1. word \in BurstRegs
        BY <2>5, SpiAssumption DEF BurstRegs
      <4> QED
        BY <1>a, <2>5, <4>1 DEF SpiWriteBurstTx
    <3>2. do_burst(burst_tx')
      BY <1>0, <2>5 DEF SpiWriteBurstTx
    <3> DEFINE f == Burst(burst_tx').flash
    <3>3. flash' = cs_deassert(f)
      BY <3>2 DEF do_burst
    <3>4. /\ FlashInv(f) /\ f.data = flash.data
          /\ f.wel # flash.wel => f.cmd = "WRITE_ENABLE"
          /\ burst_len = 0 => f = Opened
      BY <3>1, BurstFacts DEF Continues
    <3> HIDE DEF f
    <3>5. Opened = flash \/ Opened.state = "CMD"
      <4>1. CASE cs_active
        BY <4>1 DEF Opened
      <4>2. CASE ~cs_active
        <5>1. Opened = cs_assert(flash)
          BY <4>2 DEF Opened
        <5> QED
          BY <1>a, <4>2, <5>1, AssertFacts
      <4> QED
        BY <4>1, <4>2
    <3>6. Releases(f)
      BY <1>2, <3>3, <3>4, <3>5 DEF Releases
    <3> QED
      BY <3>6
  <2> QED
    BY <1>0, <2>1, <2>2, <2>3, <2>4, <2>5 DEF SpiNext
<1> QED
  BY <1>1, <1>2

\* What FlashProtected allows a step of the firmware.
Protects ==
  /\ flash.wel /\ ~flash'.wel
  /\ \A a \in Changed :
       \/ /\ flash'.data[a] = 0
          /\ \A b \in Changed : b \div PAGE_SIZE = a \div PAGE_SIZE
       \/ \A b \in Cells :
            IF b \div SECTOR_SIZE = a \div SECTOR_SIZE
            THEN flash'.data[b] = 1 ELSE b \notin Changed

LEMMA ProtectStep ==
  ASSUME SpiInv, [SpiNext]_spiVars, Committed
  PROVE  Protects
<1>1. PICK f : Releases(f)
  BY CommitStep
<1>2. /\ FlashInv(f) /\ FlashType(f) /\ f.data = flash.data /\ flash' = cs_deassert(f)
      /\ f.wel # flash.wel => f.cmd = "WRITE_ENABLE"
  BY <1>1 DEF Releases, FlashInv
<1>3. flash'.data # flash.data
  BY DEF Committed
<1>4. /\ f.wel /\ ~flash'.wel
      /\ \/ f.cmd = "PAGE_PROGRAM" /\ flash'.data = Programmed(f)
         \/ f.cmd = "SECTOR_ERASE" /\ flash'.data = erase_sector(f, f.addr)
  BY <1>2, <1>3, CommitFacts
<1>5. flash.wel
  <2>1. f.cmd # "WRITE_ENABLE"
    BY <1>4
  <2> QED
    BY <1>2, <1>4, <2>1
<1>6. CASE flash'.data = Programmed(f)
  <2>1. \A a \in Changed : flash'.data[a] = 0 /\ a \div PAGE_SIZE = f.addr \div PAGE_SIZE
    <3> SUFFICES ASSUME NEW a \in Changed
                 PROVE  flash'.data[a] = 0 /\ a \div PAGE_SIZE = f.addr \div PAGE_SIZE
      OBVIOUS
    <3>1. a \in Cells /\ Programmed(f)[a] # f.data[a]
      BY <1>2, <1>6 DEF Changed
    <3> QED
      BY <1>2, <1>6, <3>1, ProgramCells
  <2> QED
    BY <1>4, <1>5, <2>1 DEF Protects
<1>7. CASE flash'.data = erase_sector(f, f.addr)
  <2>0. PICK x \in Nat : x = f.addr
    BY <1>2 DEF FlashType
  <2> DEFINE q == x \div SECTOR_SIZE
  <2>1. \A a \in Cells :
          flash'.data[a] = IF a \div SECTOR_SIZE = q THEN 1 ELSE flash.data[a]
    BY <1>2, <1>7, <2>0, EraseCells
  <2> HIDE DEF q
  <2>2. \A a \in Changed : a \in Cells /\ a \div SECTOR_SIZE = q
    BY <2>1 DEF Changed
  <2>3. \A b \in Cells : IF b \div SECTOR_SIZE = q
                         THEN flash'.data[b] = 1 ELSE b \notin Changed
    BY <2>1 DEF Changed
  <2> QED
    BY <1>4, <1>5, <2>2, <2>3 DEF Protects
<1> QED
  BY <1>4, <1>6, <1>7

LEMMA FreshStep ==
  ASSUME SpiInv, [SpiNext]_spiVars, Committed, SpiWriteCR(FALSE) \/ burst_len = 0
  PROVE  flash.state \in {"ADDR", "DATA"}
<1>1. PICK f : Releases(f)
  BY CommitStep
<1>2. /\ FlashInv(f) /\ f.data = flash.data /\ flash' = cs_deassert(f)
      /\ f = flash \/ f.state = "CMD"
  BY <1>1 DEF Releases
<1>3. flash'.data # flash.data
  BY DEF Committed
<1>4. f.state \in {"ADDR", "DATA"}
  BY <1>2, <1>3, CommitFacts
<1> QED
  BY <1>2, <1>4

LEMMA SpiInvariant == SpiSpec => []SpiInv
  BY SpiStart, SpiStep, PTL DEF SpiSpec

\* For every capacity, size of pages and of sectors, and length of bursts: the
\* cells change only by a program or an erase that WRITE_ENABLE allowed, which
\* uses the latch up, and only in one page by clearing bits, or in one sector
\* (W25Q32Flash::commit, exchange, Spi::do_burst).
THEOREM FlashCorrect == SpiSpec => FlashProtected
<1>1. SpiInv /\ [SpiNext]_spiVars =>
        [Committed =>
           /\ flash.wel /\ ~flash'.wel
           /\ \A a \in Changed :
                \/ /\ flash'.data[a] = 0
                   /\ \A b \in Changed : b \div PAGE_SIZE = a \div PAGE_SIZE
                \/ \A b \in Cells :
                     IF b \div SECTOR_SIZE = a \div SECTOR_SIZE
                     THEN flash'.data[b] = 1 ELSE b \notin Changed]_spiVars
  BY ProtectStep DEF Protects
<1> QED
  BY <1>1, SpiInvariant, PTL DEF SpiSpec, FlashProtected

\* The command that an earlier transaction left in cmd_ is never carried out by
\* one that sent nothing, or WRITE_ENABLE only (W25Q32Flash::cs_deassert).
THEOREM CommandsCorrect == SpiSpec => NoStaleCommand
<1>1. SpiInv /\ [SpiNext]_spiVars =>
        [Committed /\ (SpiWriteCR(FALSE) \/ burst_len = 0)
           => flash.state \in {"ADDR", "DATA"}]_spiVars
  BY FreshStep
<1> QED
  BY <1>1, SpiInvariant, PTL DEF SpiSpec, NoStaleCommand

\* The firmware reads what the protocol promises at each position of a
\* transaction of any length, sent by bytes, by bursts, or by both
\* (Spi::transfer_byte, Spi::do_burst, W25Q32Flash::exchange).
THEOREM AnswersCorrect == SpiSpec => []AnswersAreRight
<1>1. SpiInv => AnswersAreRight
  <2> SUFFICES ASSUME SpiInv PROVE AnswersAreRight
    OBVIOUS
  <2>1. ASSUME cs_active PROVE Response(flash) = Answer(sent, Len(sent) + 1)
    <3>1. FlashType(flash) /\ Len(sent) \in Nat /\ Track(flash, sent, Len(sent))
      BY <2>1 DEF SpiInv, FlashInv
    <3> QED
      BY <3>1, ResponseRight
  <2>2. BurstRx(burst_tx) = [k \in 1..(burst_len * WORD_BYTES) |->
                               Answer(sent \o BurstBytes(burst_tx), Len(sent) + k)]
    <3>1. burst_tx \in [0..(MAX_WORDS - 1) -> BurstRegs]
      BY DEF SpiInv
    <3> QED
      BY <3>1, BurstFacts
  <2>3. nss_low = cs_active
    BY DEF SpiInv
  <2> QED
    BY <2>1, <2>2, <2>3 DEF AnswersAreRight
<1> QED
  BY <1>1, SpiInvariant, PTL

-----------------------------------------------------------------------------
(* The bus of the peripherals.                                             *)

\* What the bus holds.
BusType == entries \in Seq([base : Addresses, size : Sizes, periph : Peripherals])

LEMMA BusTyped == BusInit => BusType
BY DEF BusInit, BusType

LEMMA BusKeepsType == BusType /\ [BusNext]_entries => BusType'
<1>1. ASSUME BusType, BusNext PROVE BusType'
  <2>1. PICK e \in [base : Addresses, size : Sizes, periph : Peripherals] :
          entries' = Append(entries, e)
    BY <1>1 DEF BusNext, attach
  <2> QED
    BY <1>1, <2>1 DEF BusType
<1> QED
  BY <1>1 DEF BusType

\* Every address of a window that ends below the end of the address space is
\* answered, at an offset inside the window of the peripheral that answers
\* (peripheral.h, find): for every address space and every set of windows.
THEOREM WindowsCorrect == BusSpec => []WindowsAnswer
<1>1. BusType => WindowsAnswer
  <2> SUFFICES ASSUME BusType PROVE WindowsAnswer
    OBVIOUS
  <2>1. /\ ADDR_MAX \in Nat /\ Sizes \subseteq 0..ADDR_MAX
        /\ DOMAIN entries = 1..Len(entries) /\ Len(entries) \in Nat
        /\ \A k \in DOMAIN entries : entries[k].base \in 0..ADDR_MAX
                                    /\ entries[k].size \in 0..ADDR_MAX
    <3>1. ADDR_MAX \in Nat /\ Sizes \subseteq 0..ADDR_MAX
      BY BusAssumption
    <3>2. /\ DOMAIN entries = 1..Len(entries) /\ Len(entries) \in Nat
          /\ \A k \in DOMAIN entries :
               entries[k] \in [base : Addresses, size : Sizes, periph : Peripherals]
      <4>1. \A S : entries \in Seq(S) =>
              /\ DOMAIN entries = 1..Len(entries) /\ Len(entries) \in Nat
              /\ \A k \in DOMAIN entries : entries[k] \in S
        OBVIOUS
      <4> QED
        BY <4>1, Zenon DEF BusType
    <3> QED
      <4>1. \A k \in DOMAIN entries : entries[k].base \in Addresses /\ entries[k].size \in Sizes
        BY <3>2
      <4>2. Addresses = 0..ADDR_MAX
        BY DEF Addresses
      <4> QED
        BY <3>1, <3>2, <4>1, <4>2, Zenon
  \* The sum of two uint32_t.
  <2>2. ASSUME NEW b \in 0..ADDR_MAX, NEW z \in 0..ADDR_MAX
        PROVE  /\ b + z <= ADDR_MAX => (b + z) % (ADDR_MAX + 1) = b + z
               /\ b + z > ADDR_MAX => (b + z) % (ADDR_MAX + 1) < b
               /\ (b + z) % (ADDR_MAX + 1) \in Nat
    <3> DEFINE n == ADDR_MAX + 1
    <3>1. n \in Nat \ {0} /\ b \in 0..(n - 1) /\ z \in 0..(n - 1)
      BY <2>1
    <3> HIDE DEF n
    <3>2. b + z < n => (b + z) % n = b + z
      BY <3>1
    <3>3. b + z >= n => (b + z) % n = b + z - n
      BY <3>1
    <3>4. /\ b + z < n => (b + z) % n = b + z
          /\ b + z >= n => (b + z) % n < b
          /\ (b + z) % n \in Nat
      BY <3>1, <3>2, <3>3
    <3> QED
      BY <2>1, <3>4 DEF n
  <2>3. ASSUME NEW k \in DOMAIN entries, entries[k].base + entries[k].size <= ADDR_MAX,
               NEW addr \in entries[k].base..(entries[k].base + entries[k].size - 1)
        PROVE  is_mapped(addr)
    <3>1. Covers(entries[k], addr)
      BY <2>1, <2>2, <2>3 DEF Covers
    <3> QED
      BY <3>1 DEF is_mapped, Hits
  <2>4. ASSUME NEW addr \in Addresses, is_mapped(addr)
        PROVE  Target(addr).offset \in 0..(entries[find(addr)].size - 1)
    <3>1. Hits(addr) \subseteq Nat /\ Hits(addr) # {}
      BY <2>1, <2>4 DEF Hits, is_mapped
    <3>2. PICK k \in Hits(addr) : \A m \in Hits(addr) : k <= m
      BY <3>1, LeastOne
    <3>3. find(addr) \in Hits(addr)
      BY <3>2 DEF find
    <3> DEFINE b == entries[find(addr)].base
               z == entries[find(addr)].size
    <3>4. /\ b \in 0..ADDR_MAX /\ z \in 0..ADDR_MAX /\ addr \in 0..ADDR_MAX
          /\ addr >= b /\ addr < (b + z) % (ADDR_MAX + 1)
          /\ Target(addr).offset = addr - b
      BY <2>1, <3>3 DEF Hits, Covers, Target, Addresses
    <3> HIDE DEF b, z
    <3>5. addr - b \in 0..(z - 1)
      <4> DEFINE e == (b + z) % (ADDR_MAX + 1)
      <4>1. /\ b + z <= ADDR_MAX => e = b + z
            /\ b + z > ADDR_MAX => e < b
            /\ e \in Nat /\ addr < e
        BY <2>2, <3>4
      <4> HIDE DEF e
      <4>2. ADDR_MAX \in Nat /\ b \in Nat /\ z \in Nat /\ addr \in Nat /\ addr >= b
        BY <2>1, <3>4
      <4> QED
        BY <4>1, <4>2
    <3> QED
      BY <3>4, <3>5 DEF z
  <2> QED
    BY <2>3, <2>4 DEF WindowsAnswer
<1> QED
  BY <1>1, BusTyped, BusKeepsType, PTL DEF BusSpec

\* What an address was dispatched to stays, whatever is attached afterwards and
\* however the windows overlap or wrap (peripheral.h, find).
THEOREM TargetsCorrect == BusSpec => TargetsAreStable
\* The entries before the new one stay, and it comes behind all of them.
<1>3. ASSUME BusType, BusNext, NEW addr \in Addresses, is_mapped(addr)
      PROVE  is_mapped(addr)' /\ Target(addr)' = Target(addr)
  <2>1. PICK e \in [base : Addresses, size : Sizes, periph : Peripherals] :
          entries' = Append(entries, e)
    BY <1>3 DEF BusNext, attach
  <2>2. /\ Len(entries) \in Nat /\ DOMAIN entries = 1..Len(entries)
        /\ DOMAIN entries' = 1..(Len(entries) + 1)
        /\ \A k \in 1..Len(entries) : entries'[k] = entries[k]
    BY <1>3, <2>1 DEF BusType
  <2>3. PICK h \in Hits(addr) : TRUE
    BY <1>3 DEF is_mapped
  <2>4. Hits(addr) \subseteq Hits(addr)'
    BY <2>2 DEF Hits
  <2>5. \A k \in Hits(addr)' : k \in Hits(addr) \/ k = Len(entries) + 1
    BY <2>2 DEF Hits
  <2>6. PICK k \in Hits(addr) : \A m \in Hits(addr) : k <= m
    <3>1. Hits(addr) \subseteq Nat /\ Hits(addr) # {}
      BY <2>2, <2>3 DEF Hits
    <3> QED
      BY <3>1, LeastOne
  <2>7. find(addr) = k
    BY <2>2, <2>6 DEF find, Hits
  <2>8. find(addr)' = k
    BY <2>2, <2>4, <2>5, <2>6 DEF find, Hits
  <2> QED
    BY <2>2, <2>4, <2>6, <2>7, <2>8 DEF is_mapped, Target, Hits
<1>4. BusType /\ [BusNext]_entries =>
        [entries' # entries => \A addr \in Addresses :
          is_mapped(addr) => is_mapped(addr)' /\ Target(addr)' = Target(addr)]_entries
  BY <1>3
<1> QED
  BY <1>4, BusTyped, BusKeepsType, PTL DEF BusSpec, TargetsAreStable
=============================================================================
