---------------------------- MODULE UdpListeners ----------------------------
(***************************************************************************)
(* The table of UDP listeners of ip65 (ip65/udp.s): udp_cbmax slots, the   *)
(* first udp_cbcount of them in use.  Every UDP client adds a listener for *)
(* its port, polls, and removes it; udp_process hands an inbound datagram  *)
(* to the listener of its destination port.                                *)
(*                                                                         *)
(* A port is the pair of its bytes, a callback is a name.                  *)
(***************************************************************************)
EXTENDS Integers, Sequences

CONSTANTS
  udp_cbmax,
  Callbacks      \* names of the routines that are called

ASSUME CbMaxAssumption == udp_cbmax \in Nat \ {0}

VARIABLES
  listeners,     \* udp_cbportlo, udp_cbporthi, udp_cbvec of the slots in use
  installed      \* what the callers believe: ports added and not removed, with
                 \* the callback each was added with

udpVars == <<listeners, installed>>

Byte == 0 .. 255
Port == [lo : Byte, hi : Byte]
Listener == [lo : Byte, hi : Byte, vec : Callbacks]
udp_cbcount == Len(listeners)

Slots(port) ==
  {y \in 1 .. udp_cbcount :
     listeners[y].lo = port.lo /\ listeners[y].hi = port.hi}

\* The searches of udp_process and udp_remove_listener go from the last slot down.
LastSlot(port) == CHOOSE y \in Slots(port) : \A z \in Slots(port) : z <= y

\* Who gets a datagram for port: a callback, or "drop".
Handler(port) == IF Slots(port) = {} THEN "drop" ELSE listeners[LastSlot(port)].vec

\* The low byte udp_add_listener stores: register A, which the comparison of the
\* last slot has overwritten.
StoredLow(port) ==
  IF udp_cbcount = 0 THEN port.lo
  ELSE LET last == listeners[udp_cbcount]
       IN IF last.lo # port.lo THEN last.lo ELSE last.hi

UdpInit ==
  /\ listeners = <<>>
  /\ installed = {}

\* Neither @full nor @busy; an empty table is not searched.
CanAdd(port) == udp_cbcount # udp_cbmax /\ Slots(port) = {}

UdpAdd(port, vec) ==
  /\ CanAdd(port)
  /\ listeners' = Append(listeners, [lo |-> StoredLow(port), hi |-> port.hi, vec |-> vec])
  /\ installed' = {l \in installed : l.port # port} \cup {[port |-> port, vec |-> vec]}

UdpAddFails(port) ==
  /\ ~CanAdd(port)
  /\ UNCHANGED udpVars

\* The slots above slot y move down by one.
Remaining(y) == SubSeq(listeners, 1, y - 1) \o SubSeq(listeners, y + 1, udp_cbcount)

\* Callers do not look at the carry, which is set if the port is not found; only dhcp_init
\* returns it.
UdpRemove(port) ==
  /\ listeners' = IF Slots(port) = {} THEN listeners ELSE Remaining(LastSlot(port))
  /\ installed' = {l \in installed : l.port # port}

----------------------------------------------------------------------------
UdpTypeOK ==
  /\ listeners \in Seq(Listener)
  /\ udp_cbcount <= udp_cbmax
  /\ installed \subseteq [port : Port, vec : Callbacks]
=============================================================================
