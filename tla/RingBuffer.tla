----------------------------- MODULE RingBuffer -----------------------------
(* The circular array with head, tail and count that the UART uses for its *)
(* two FIFOs and the CAN controller for its receive buffer.                *)
EXTENDS Naturals, Sequences

EmptyRing(size, none) ==
  [buf |-> [k \in 0..(size - 1) |-> none], head |-> 0, tail |-> 0, count |-> 0]

\* Mutant: the last slot is never used.
PushedShort(r, size, x) ==
  [buf |-> [r.buf EXCEPT ![r.tail] = x], head |-> r.head,
   tail |-> (r.tail + 1) % (size - 1), count |-> r.count + 1]

\* A full ring refuses x; the callers test for it.
Pushed(r, size, x) ==
  [buf |-> [r.buf EXCEPT ![r.tail] = x], head |-> r.head,
   tail |-> (r.tail + 1) % size, count |-> r.count + 1]

Popped(r, size) ==
  [buf |-> r.buf, head |-> (r.head + 1) % size,
   tail |-> r.tail, count |-> r.count - 1]

Front(r) == r.buf[r.head]

\* What the ring holds, oldest first.
Held(r, size) == [k \in 1..r.count |-> r.buf[(r.head + k - 1) % size]]

\* From contents s to contents t in one step of a queue: nothing, an item at
\* the end, the first item gone, or a reset.
QueueStep(s, t) ==
  \/ t = s
  \/ Len(t) = Len(s) + 1 /\ SubSeq(t, 1, Len(s)) = s
  \/ s # <<>> /\ t = Tail(s)
  \/ t = <<>>
=============================================================================
