---------------------------- MODULE BoundedFIFO ----------------------------
(* What a queue promises to its clients: a FIFO of bounded length.  got    *)
(* is the item that was received last.                                     *)
EXTENDS Sequences, Naturals

CONSTANTS Items, Capacity, NoItem

VARIABLES fifo, got

FIFOInit ==
  /\ fifo = <<>>
  /\ got = NoItem

Put(x) ==
  /\ Len(fifo) < Capacity
  /\ fifo' = Append(fifo, x)
  /\ UNCHANGED got

Get ==
  /\ fifo # <<>>
  /\ got' = Head(fifo)
  /\ fifo' = Tail(fifo)

FIFONext == (\E x \in Items : Put(x)) \/ Get

FIFOSpec == FIFOInit /\ [][FIFONext]_<<fifo, got>>
=============================================================================
