------------------------------- MODULE MCTcp -------------------------------
(* Instances of TcpSystem for TLC: connections opened by tcp_connect. *)
EXTENDS TcpInvariant

CONSTANTS c1, c2

OneConn == {c1}
TwoConns == {c1, c2}
NoConns == {}

\* Sequence numbers wrap while the connection is in use.
WrapIsn == [c \in Conns |-> IF c = c1 THEN 14 ELSE 9]
WrapPeerIsn == [c \in Conns |-> IF c = c1 THEN 13 ELSE 4]

\* A SYN for a port nobody listens on, and segments of unknown connections.
Stray(flags, seq) ==
  [conn |-> Stranger, flags |-> flags, seq |-> seq, ack |-> 7, first |-> 0, len |-> 0,
   id |-> "other"]
Strays == {Stray({"SYN"}, 5), Stray({"ACK"}, 5), Stray({"SYN", "ACK"}, 5), Stray({"RST"}, 5)}
NoStrays == {}

OtherConn == {c2}

\* A repeated SYN may deliver the peer's bytes again and again.
BoundedDelivery == \A c \in Conns : Len(delivered[c]) <= 2 * PeerLen

\* Bytes go one way: once the application has sent some, the peer writes none.
OneDirection ==
  \A c \in Conns : peer_sent[c] = 0 \/ \A p \in toPeer : p.conn # c \/ p.len = 0

BoundedListen == BoundedDelivery /\ OneDirection
============================================================================
