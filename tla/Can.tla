--------------------------------- MODULE Can ---------------------------------
(***************************************************************************)
(* peripherals/can.h, can.cpp: CAN controllers on a shared CanBus.  A      *)
(* controller attaches itself when it is constructed and detaches when it  *)
(* is destroyed; programs also detach controllers, and attach them again.  *)
(* A frame that is sent is injected into all others at once.  The bus      *)
(* outlives its controllers.                                               *)
(*                                                                         *)
(* IDs and masks are sets of bits.  A frame in a buffer is represented by  *)
(* its number on the bus, which tells frames apart.                        *)
(***************************************************************************)
EXTENDS RingBuffer

CONSTANTS
  Nodes,         \* the controllers, numbers that name the objects
  MAX_NODES,     \* capacity of the bus
  RX_CAPACITY,   \* capacity of a receive buffer
  IdBits,        \* the bits of an identifier
  MaxFrames      \* bound on the frames sent

ASSUME CanAssumption ==
  /\ Nodes \subseteq Nat
  /\ MAX_NODES \in Nat /\ RX_CAPACITY \in Nat \ {0} /\ MaxFrames \in Nat

VARIABLES
  nodes,         \* nodes_[0 .. count_ - 1]
  exists,        \* the controllers that are constructed
  wired,         \* those with a bus, bus_ # nullptr
  tx_id,         \* tx_frame_.id
  can_rx,        \* rx_buf_ with its indices
  can_sr,        \* sr_, as the set of its bits
  filter,        \* filter_id_ and filter_mask_
  frames,        \* history: the number of frames sent
  lost           \* history: a frame that passed the filter was not stored

canVars == <<nodes, exists, wired, tx_id, can_rx, can_sr, filter, frames, lost>>

NoFrame   == 0
AcceptAll == [id |-> {}, mask |-> {}]
Frames    == 0..MaxFrames

CanInit ==
  /\ nodes = <<>> /\ exists = {} /\ wired = {}
  /\ tx_id = [c \in Nodes |-> {}]
  /\ can_rx = [c \in Nodes |-> EmptyRing(RX_CAPACITY, NoFrame)]
  /\ can_sr = [c \in Nodes |-> {}]
  /\ filter = [c \in Nodes |-> AcceptAll]
  /\ frames = 0
  /\ lost = [c \in Nodes |-> FALSE]

Attached == {nodes[k] : k \in DOMAIN nodes}

\* Bound: filters are set, and controllers detached, before the last two frames.
Early == frames + 1 < MaxFrames

\* Bounds: which free name an object has makes no difference, and a controller
\* without a bus, which meets no other, is alone.
MayConstruct(c, bus) ==
  /\ c \notin exists /\ \A d \in Nodes \ exists : c <= d
  /\ exists = (IF bus THEN wired ELSE {})

\* The list after attach(c): a full bus does not take the controller.
WithNode(c) == IF Len(nodes) < MAX_NODES THEN Append(nodes, c) ELSE nodes

\* The constructor, with or without a bus.
Construct(c, bus) ==
  /\ MayConstruct(c, bus)
  /\ exists' = exists \cup {c}
  /\ wired' = IF bus THEN wired \cup {c} ELSE wired
  /\ nodes' = IF bus THEN WithNode(c) ELSE nodes
  /\ UNCHANGED <<tx_id, can_rx, can_sr, filter, frames, lost>>

\* Mutant: the last entry goes and the gap stays.
DetachLast(c) == SubSeq(nodes, 1, Len(nodes) - 1)

\* The list after detach(c): the last entry moves into the gap.
Detached(c) ==
  IF c \notin Attached THEN nodes
  ELSE LET i == CHOOSE k \in DOMAIN nodes : nodes[k] = c
       IN  [k \in 1..(Len(nodes) - 1) |->
              IF k = i THEN nodes[Len(nodes)] ELSE nodes[k]]

\* The destructor.  The fields are those of the next object in c's place.
Destroy(c) ==
  /\ c \in exists
  /\ exists' = exists \ {c}
  /\ wired' = wired \ {c}
  /\ nodes' = IF c \in wired THEN Detached(c) ELSE nodes
  /\ tx_id' = [tx_id EXCEPT ![c] = {}]
  /\ can_rx' = [can_rx EXCEPT ![c] = EmptyRing(RX_CAPACITY, NoFrame)]
  /\ can_sr' = [can_sr EXCEPT ![c] = {}]
  /\ filter' = [filter EXCEPT ![c] = AcceptAll]
  /\ lost' = [lost EXCEPT ![c] = FALSE]
  /\ UNCHANGED frames

\* CanBus::attach called by a program, with a controller of this bus that is
\* not attached; the code checks neither, and the caller has to.
CanAttach(c) ==
  /\ c \in wired \ Attached
  /\ nodes' = WithNode(c)
  /\ UNCHANGED <<exists, wired, tx_id, can_rx, can_sr, filter, frames, lost>>

\* CanBus::detach called by a program; it ignores a controller that is not
\* attached.  Bound: nobody else is off the bus.
CanDetach(c) ==
  /\ c \in Attached /\ wired \subseteq Attached /\ Early
  /\ nodes' = Detached(c)
  /\ UNCHANGED <<exists, wired, tx_id, can_rx, can_sr, filter, frames, lost>>

\* Bound: at most one controller at a time has an identifier other than 0.
WriteTxId(c, id) ==
  /\ c \in exists /\ \A d \in Nodes \ {c} : tx_id[d] = {}
  /\ tx_id' = [tx_id EXCEPT ![c] = id]
  /\ UNCHANGED <<nodes, exists, wired, can_rx, can_sr, filter, frames, lost>>

\* Bound: at most one controller, attached or alone, has a filter at a time.
MayFilter(c) ==
  /\ c \in Attached \/ exists = {c}
  /\ \A d \in Nodes \ {c} : filter[d] = AcceptAll
  /\ Early

WriteFilterId(c, id) ==
  /\ MayFilter(c)
  /\ filter' = [filter EXCEPT ![c].id = id]
  /\ UNCHANGED <<nodes, exists, wired, tx_id, can_rx, can_sr, frames, lost>>

WriteFilterMask(c, mask) ==
  /\ MayFilter(c)
  /\ filter' = [filter EXCEPT ![c].mask = mask]
  /\ UNCHANGED <<nodes, exists, wired, tx_id, can_rx, can_sr, frames, lost>>

passes_filter(c, id) == id \cap filter[c].mask = filter[c].id \cap filter[c].mask

\* The receivers of a broadcast whose inject() comes to rx_push.
Receivers(c) ==
  {d \in Attached : c \in wired /\ d # c /\ passes_filter(d, tx_id[c])}

\* The status of a receiver after inject().
Injected(d) ==
  IF can_rx[d].count = RX_CAPACITY THEN can_sr[d] \cup {"RX_OVERFLOW"}
  ELSE can_sr[d] \cup {"RX_READY"}

\* The next frame reaches the controllers R, and the status sr of the others
\* is as given.
Deliver(R, sr) ==
  /\ frames < MaxFrames
  /\ frames' = frames + 1
  /\ can_rx' =
       [d \in Nodes |->
          IF d \in R /\ can_rx[d].count < RX_CAPACITY
          THEN Pushed(can_rx[d], RX_CAPACITY, frames + 1)
          ELSE can_rx[d]]
  /\ can_sr' = [d \in Nodes |-> IF d \in R THEN Injected(d) ELSE sr[d]]
  /\ lost' = [d \in Nodes |-> lost[d] \/ (d \in R /\ can_rx'[d] = can_rx[d])]
  /\ UNCHANGED <<nodes, exists, wired, tx_id, filter>>

\* write_reg(REG_TX_SEND): the broadcast, acknowledged whoever received it.
TxSend(c) ==
  /\ c \in exists
  /\ Deliver(Receivers(c), [can_sr EXCEPT ![c] = @ \cup {"TX_OK"}])

\* inject() called directly, with a frame of that identifier; bounded to a
\* controller that is alone.
inject(c, id) ==
  /\ exists = {c} /\ passes_filter(c, id)
  /\ Deliver({c}, can_sr)

\* Mutant: RX_READY stays when the last frame is consumed.
PopKeepsReady(c) ==
  /\ c \in exists
  /\ can_rx[c].count > 0
  /\ can_rx' = [can_rx EXCEPT ![c] = Popped(@, RX_CAPACITY)]
  /\ UNCHANGED <<nodes, exists, wired, tx_id, can_sr, filter, frames, lost>>

\* write_reg(REG_RX_POP); an empty buffer changes nothing.
RxPop(c) ==
  /\ c \in exists
  /\ can_rx[c].count > 0
  /\ can_rx' = [can_rx EXCEPT ![c] = Popped(@, RX_CAPACITY)]
  /\ can_sr' = [can_sr EXCEPT
                  ![c] = IF can_rx[c].count = 1 THEN @ \ {"RX_READY"} ELSE @]
  /\ UNCHANGED <<nodes, exists, wired, tx_id, filter, frames, lost>>

CanNext ==
  \E c \in Nodes :
    \/ \E bus \in BOOLEAN : Construct(c, bus)
    \/ Destroy(c) \/ CanAttach(c) \/ CanDetach(c)
    \/ \E b \in SUBSET IdBits :
         WriteTxId(c, b) \/ WriteFilterId(c, b) \/ WriteFilterMask(c, b) \/ inject(c, b)
    \/ TxSend(c) \/ RxPop(c)

CanSpec == CanInit /\ [][CanNext]_canVars

-----------------------------------------------------------------------------
(* Properties.                                                             *)

\* The bus holds pointers: each is to a controller that still exists, once,
\* whatever the order of construction, destruction and calls of detach and
\* attach, and also when the bus was full; otherwise broadcast() would call a
\* destroyed controller or deliver twice.
NoDanglingNode ==
  /\ Attached \subseteq exists
  /\ \A k, m \in DOMAIN nodes : nodes[k] = nodes[m] => k = m

\* The status is true: RX_READY is set exactly while a frame is there to read,
\* and a controller that lost a frame which its filter let pass says so
\* ("buffer was full, frame lost"), also after it has read the others.
StatusIsTrue ==
  \A c \in exists :
    /\ "RX_READY" \in can_sr[c] <=> can_rx[c].count > 0
    /\ lost[c] => "RX_OVERFLOW" \in can_sr[c]

\* All controllers see the frames in the order of the bus, each at most once.
FramesInOrder ==
  \A c \in exists :
    LET held == Held(can_rx[c], RX_CAPACITY)
    IN  \A k, m \in DOMAIN held : k < m => held[k] < held[m]
=============================================================================
