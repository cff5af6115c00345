----------------------------- MODULE TcpSystem -----------------------------
(***************************************************************************)
(* ip65's TCP endpoint (module Tcp), a network that loses, duplicates and  *)
(* reorders segments (a segment once sent stays in toHost or toPeer and    *)
(* may be taken any number of times, or never), and the remote hosts.      *)
(*                                                                         *)
(* The remote hosts are external to the repository: they are modelled as   *)
(* ordinary TCP implementations (RFC 793), one endpoint per connection,    *)
(* whose application writes PeerLen bytes at most.                         *)
(***************************************************************************)
EXTENDS Tcp

CONSTANTS
  PeerIsn,    \* initial sequence number of the peer, per connection
  PeerLen,    \* bound: bytes the peer's application writes
  PeerMss,    \* longest segment a peer sends
  RstIds      \* IP IDs of a peer's resets: "other", or "1234" if it echoes ours

VARIABLES
  peer_state,   \* "closed", "syn_sent", "syn_rcvd", "established", "reset"
  peer_rcv,     \* next sequence number the peer expects
  peer_sent,    \* bytes of its stream the peer has sent at least once
  peer_fin,     \* 1 when it has sent its FIN
  peer_got,     \* bytes its application has received
  peer_eof      \* 1 when it has received our FIN

peerVars == <<peer_state, peer_rcv, peer_sent, peer_fin, peer_got, peer_eof>>
vars == <<tcpVars, peerVars>>

ASSUME PeerAssumption ==
  /\ PeerIsn \in [Conns -> SeqNo]
  /\ PeerLen \in Nat /\ PeerMss \in Nat
  /\ PeerLen + 2 < SeqMod
  /\ RstIds \subseteq {"1234", "other"}

PeerInit ==
  /\ peer_state = [c \in Conns |-> "closed"]
  /\ peer_rcv = [c \in Conns |-> 0]
  /\ peer_sent = [c \in Conns |-> 0]
  /\ peer_fin = [c \in Conns |-> 0]
  /\ peer_got = [c \in Conns |-> <<>>]
  /\ peer_eof = [c \in Conns |-> 0]

\* Sequence number of byte n of the peer's stream; byte peer_sent+1 is its FIN.
PeerSeq(c, n) == SeqAdd(PeerIsn[c], n)

PeerSegment(c, flags, seq, first, len, id) ==
  [conn |-> c, flags |-> flags, seq |-> seq,
   ack |-> IF "ACK" \in flags THEN peer_rcv[c] ELSE 0,
   first |-> first, len |-> len, id |-> id]

PeerBare(c, flags, seq) == PeerSegment(c, flags, seq, 0, 0, "other")

\* The number a bare ACK of the peer carries: just after what it has sent.
PeerSndNxt(c) == SeqAdd(PeerIsn[c], peer_sent[c] + 1 + peer_fin[c])

PeerSends(p) == toHost' = toHost \cup {p}
PeerAck(c) == [PeerBare(c, {"ACK"}, PeerSndNxt(c)) EXCEPT !.ack = peer_rcv'[c]]

----------------------------------------------------------------------------
\* Active open of a client of tcp_listen's port.
PeerConnect(c) ==
  /\ c \in ListenConns
  /\ peer_state[c] = "closed"
  /\ peer_state' = [peer_state EXCEPT ![c] = "syn_sent"]
  /\ PeerSends(PeerBare(c, {"SYN"}, PeerIsn[c]))
  /\ UNCHANGED <<peer_rcv, peer_sent, peer_fin, peer_got, peer_eof>>

\* A server accepts our SYN.
PeerAccept(p) ==
  /\ p.flags = {"SYN"}
  /\ peer_state[p.conn] = "closed"
  /\ peer_state' = [peer_state EXCEPT ![p.conn] = "syn_rcvd"]
  /\ peer_rcv' = [peer_rcv EXCEPT ![p.conn] = SeqAdd(p.seq, 1)]
  /\ PeerSends([PeerBare(p.conn, {"SYN", "ACK"}, PeerIsn[p.conn])
                 EXCEPT !.ack = SeqAdd(p.seq, 1)])
  /\ UNCHANGED <<peer_sent, peer_fin, peer_got, peer_eof>>

\* A server refuses it.
PeerRefuse(p) ==
  /\ p.flags = {"SYN"}
  /\ peer_state[p.conn] = "closed"
  /\ peer_state' = [peer_state EXCEPT ![p.conn] = "reset"]
  /\ \E id \in RstIds :
       PeerSends(PeerSegment(p.conn, {"RST", "ACK"}, 0, 0, 0, id))
  /\ UNCHANGED <<peer_rcv, peer_sent, peer_fin, peer_got, peer_eof>>

\* The answer to the peer's own SYN.
PeerEstablished(p) ==
  /\ p.flags = {"SYN", "ACK"}
  /\ peer_state[p.conn] = "syn_sent"
  /\ p.ack = SeqAdd(PeerIsn[p.conn], 1)
  /\ peer_state' = [peer_state EXCEPT ![p.conn] = "established"]
  /\ peer_rcv' = [peer_rcv EXCEPT ![p.conn] = SeqAdd(p.seq, 1)]
  /\ PeerSends(PeerAck(p.conn))
  /\ UNCHANGED <<peer_sent, peer_fin, peer_got, peer_eof>>

\* An acknowledgement of nothing the peer has sent is answered and dropped.
AckOk(p) ==
  SeqSub(p.ack, SeqAdd(PeerIsn[p.conn], 1)) <= peer_sent[p.conn] + peer_fin[p.conn]

\* Bytes of p the peer has already; more than p.len if p is ahead of the peer.
Overlap(p) == SeqSub(peer_rcv[p.conn], p.seq)

\* Data and FIN in order are taken, the part received before is trimmed.
PeerReceive(p) ==
  LET c == p.conn
      fresh == IF Overlap(p) < p.len THEN p.len - Overlap(p) ELSE 0
      fin == IF "FIN" \in p.flags /\ peer_eof[c] = 0 /\ Overlap(p) <= p.len THEN 1 ELSE 0
  IN /\ "ACK" \in p.flags /\ p.flags \cap {"SYN", "RST"} = {}
     /\ peer_state[c] \in {"syn_rcvd", "established"}
     /\ AckOk(p)
     /\ peer_state' = [peer_state EXCEPT ![c] = "established"]
     /\ peer_rcv' = [peer_rcv EXCEPT ![c] = SeqAdd(@, fresh + fin)]
     /\ peer_got' = [peer_got EXCEPT
          ![c] = @ \o [i \in 1 .. fresh |-> p.first + p.len - fresh + i - 1]]
     /\ peer_eof' = [peer_eof EXCEPT ![c] = @ + fin]
     /\ IF p.len > 0 \/ "FIN" \in p.flags
        THEN PeerSends(PeerAck(c))
        ELSE UNCHANGED toHost
     /\ UNCHANGED <<peer_sent, peer_fin>>

\* Out-of-state segments of an established connection: a challenge ACK.
PeerChallenge(p) ==
  /\ peer_state[p.conn] = "established"
  /\ "RST" \notin p.flags
  /\ "SYN" \in p.flags \/ ~AckOk(p)
  /\ UNCHANGED peerVars
  /\ PeerSends(PeerAck(p.conn))

\* A segment for no connection of the peer's.
PeerUnknown(p) ==
  /\ "RST" \notin p.flags
  /\ "ACK" \in p.flags
  /\ \/ peer_state[p.conn] \in {"closed", "reset"}
     \/ peer_state[p.conn] = "syn_sent" /\ p.ack # SeqAdd(PeerIsn[p.conn], 1)
     \/ peer_state[p.conn] = "syn_rcvd" /\ ~AckOk(p)
  /\ \E id \in RstIds : PeerSends(PeerSegment(p.conn, {"RST"}, 0, 0, 0, id))
  /\ UNCHANGED peerVars

PeerIsReset(p) ==
  /\ "RST" \in p.flags
  /\ peer_state[p.conn] \in {"syn_sent", "syn_rcvd", "established"}
  /\ peer_state' = [peer_state EXCEPT ![p.conn] = "reset"]
  /\ UNCHANGED <<toHost, peer_rcv, peer_sent, peer_fin, peer_got, peer_eof>>

\* New data, or a retransmission in other pieces; with FIN, up to the end.
PeerWrite(c, first, last, fin) ==
  /\ peer_state[c] = "established"
  /\ first \in 1 .. peer_sent[c] + 1
  /\ last >= first - 1 /\ last - first + 1 <= PeerMss
  /\ last >= first \/ fin = 1
  /\ fin = 1 => last >= peer_sent[c]
  /\ peer_fin[c] = 1 => last <= peer_sent[c]
  /\ peer_sent' = [peer_sent EXCEPT ![c] = IF last > @ THEN last ELSE @]
  /\ peer_fin' = [peer_fin EXCEPT ![c] = IF fin = 1 THEN 1 ELSE @]
  /\ PeerSends(PeerSegment(c, IF fin = 1 THEN {"FIN", "ACK"} ELSE {"ACK"},
                           PeerSeq(c, first), first, last - first + 1, "other"))
  /\ UNCHANGED <<peer_state, peer_rcv, peer_got, peer_eof>>

\* The peer's application gives up, or the host reboots and later answers so.
PeerAbort(c) ==
  /\ peer_state[c] = "established"
  /\ peer_state' = [peer_state EXCEPT ![c] = "reset"]
  /\ \E id \in RstIds :
       PeerSends(PeerSegment(c, {"RST", "ACK"}, PeerSndNxt(c), 0, 0, id))
  /\ UNCHANGED <<peer_rcv, peer_sent, peer_fin, peer_got, peer_eof>>

PeerProcess(p) ==
  /\ p.conn \in Conns
  /\ \/ PeerAccept(p) \/ PeerRefuse(p) \/ PeerEstablished(p) \/ PeerReceive(p)
     \/ PeerChallenge(p) \/ PeerUnknown(p) \/ PeerIsReset(p)

PeerNext ==
  \/ \E c \in Conns :
       \/ PeerConnect(c)
       \/ \E first \in 1 .. PeerLen + 1, last \in 0 .. PeerLen, fin \in {0, 1} :
            PeerWrite(c, first, last, fin)
       \/ PeerAbort(c)
  \/ \E p \in toPeer : PeerProcess(p)

----------------------------------------------------------------------------
Init == TcpInit /\ PeerInit

Next ==
  \/ TcpNext /\ UNCHANGED peerVars
  \/ /\ PeerNext
     /\ UNCHANGED <<tcp_state, cb, timer, caller, toPeer, history>>

Spec == Init /\ [][Next]_vars

\* Scheduling of the polling loops: the CPU runs on, and the timer's high byte
\* moves again and again, so some check sees it move.
PollStep == call # "none" /\ (NoSegment \/ \E p \in toHost : TcpProcess(p))
CheckStep == CallReturns \/ KeepPolling
TickStep == TickDelay \/ TickResend \/ TickTimeout

LoopFairness ==
  /\ WF_vars(PollStep /\ UNCHANGED peerVars)
  /\ WF_vars(CheckStep /\ UNCHANGED peerVars)
  /\ SF_vars(TickStep /\ UNCHANGED peerVars)

FairSpec == Spec /\ LoopFairness

----------------------------------------------------------------------------
PeerTypeOK ==
  /\ peer_state \in [Conns -> {"closed", "syn_sent", "syn_rcvd", "established", "reset"}]
  /\ peer_rcv \in [Conns -> SeqNo]
  /\ peer_sent \in [Conns -> 0 .. PeerLen]
  /\ peer_fin \in [Conns -> {0, 1}]
  /\ peer_got \in [Conns -> Seq(Nat)]
  /\ peer_eof \in [Conns -> {0, 1}]

\* Types, a connection in the states that use one, and transmissions left whenever a
\* call is in progress (tcp_packet_sent_count is never reset by tcp_send, tcp_close).
TypeOK == TcpTypeOK /\ PeerTypeOK

\* On a connection opened by tcp_connect the callback sees the peer's bytes in order,
\* each once, none skipped, however the network repeats and reorders segments
\* (tcp_process, the test of SEQ before the callback).
InOrderDelivery ==
  \A c \in ActiveConns : \A i \in 1 .. Len(delivered[c]) : delivered[c][i] = i

\* An end of file that is not a reset comes once, after all the peer's bytes
\* (tcp_process @fin: only a FIN whose SEQ is the awaited one reaches the callback).
EofAfterAllData ==
  \A c \in ActiveConns :
    eof[c] > 0 /\ peer_state[c] # "reset" =>
      eof[c] = 1 /\ peer_fin[c] = 1 /\ Len(delivered[c]) = peer_sent[c]

\* On a connection tcp_listen accepted, a repeated SYN rewinds ack_number and the
\* bytes may come again, but then from the first one on: none is ever skipped.
NoByteSkipped ==
  \A c \in Conns : \A i \in 1 .. Len(delivered[c]) :
    delivered[c][i] = 1 \/ (i > 1 /\ delivered[c][i] = delivered[c][i - 1] + 1)

\* What we acknowledge never moves backwards on an established connection
\* (tcp_connect_ack_number: "what we will next ack").
AckNeverRetreats ==
  [][(tcp_state = "established" /\ tcp_connect' = tcp_connect) =>
       SeqSub(ack_number', ack_number) <= SeqMod \div 2]_cb

\* A bare ACK never acknowledges more than the callback has been given, so the peer
\* may forget what we ACK (tcp_process: callback, then ack_number, then @send_ack).
AckedIsDelivered ==
  \A p \in toPeer :
    /\ p.conn \in Conns
    /\ p.flags = {"ACK"} /\ p.len = 0
    => SeqSub(p.ack, PeerSeq(p.conn, 1)) <= Len(delivered[p.conn]) + eof[p.conn]

\* When tcp_send succeeds the peer has all the bytes of all successful calls
\* (tcp_send waits for last_ack = expected_ack_number).
SendDelivered ==
  \A c \in Conns : acked[c] <= Len(peer_got[c])

\* The same when no SYN/ACK has been repeated with another SEQ (tcp_listen).
SendDeliveredAfterOneSynAck ==
  \A c \in Conns :
    (\A p, q \in toPeer :
       p.conn = c /\ q.conn = c /\ "SYN" \in p.flags \cap q.flags => p.seq = q.seq)
    => acked[c] <= Len(peer_got[c])

\* The peer gets the bytes passed to tcp_send in order, each once, as long as it
\* has not closed its own side (tcp_send, retransmission with the old SEQ).
PeerInOrderWhileOpen ==
  \A c \in Conns : peer_fin[c] = 0 =>
    \A i \in 1 .. Len(peer_got[c]) : peer_got[c][i] = i

\* The same without that condition. A FIN handled inside tcp_send's loop moves
\* sequence_number ("for the FIN we have been sending"), and the data still
\* being retransmitted shifts by one.
PeerInOrder ==
  \A c \in Conns : \A i \in 1 .. Len(peer_got[c]) : peer_got[c][i] = i

\* A tcp_close that finds the connection established returns without an error only when the
\* peer's FIN or a reset has reached the callback, whatever becomes of our own FIN.  In any
\* other state it returns so at once, and says nothing of the peer: after a tcp_send that was
\* aborted or has timed out the peer may not have heard of the end (tcp_close).
CloseWaitsForPeer ==
  [][CloseReturns \/ TcpCloseNotEstablished =>
       (call = "none" /\ tcp_state # "established") \/ eof[tcp_connect] > 0]_vars

\* What the endpoint implements towards the application's callback, on connections
\* opened by tcp_connect.
Stream == INSTANCE ByteStream WITH
  written <- peer_sent, finished <- peer_fin, read <- delivered, ended <- eof,
  aborted <- [c \in Conns |-> IF peer_state[c] = "reset" THEN 1 ELSE 0]

\* tcp_process and the peers implement the byte stream: in order, once, one end.
ImplementsByteStream == Stream!Spec

\* Every blocking call with a timer returns, whatever the network does
\* (retry counter and loop counter of tcp_connect, tcp_send, tcp_close).
CallsReturn == (call \in {"connect", "send", "close"}) ~> (call = "none")
============================================================================
