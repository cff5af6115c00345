---------------------------- MODULE TcpInvariant ----------------------------
(***************************************************************************)
(* The inductive invariant behind InOrderDelivery and its companions.      *)
(* SEQ numbers tell bytes apart only if ack_number and every segment in    *)
(* flight agree with what has been delivered (AckMatch, HostSegments); and *)
(* because the control block accepts segments in every state but "closed", *)
(* it must be shown that none arrives too early (SynSentOk, Est).          *)
(***************************************************************************)
EXTENDS TcpSystem

\* The segment with which the peer's side of c becomes established.
Est(c) ==
  \E q \in toPeer :
    /\ q.conn = c /\ "ACK" \in q.flags /\ q.flags \cap {"SYN", "RST"} = {}
    /\ q.ack = PeerSeq(c, 1)

\* Nothing exists of a connection ip65 has sent no segment of.
Untouched(c) ==
  (\A q \in toPeer : q.conn # c) =>
    /\ peer_state[c] = "closed"
    /\ \A p \in toHost : p.conn # c
    /\ delivered[c] = <<>>

\* What the peer of c has sent: its SYN/ACK, and its stream once established.
HostSegments(c) ==
  \A p \in toHost : p.conn = c =>
    /\ "SYN" \in p.flags => p.flags = {"SYN", "ACK"} /\ p.seq = PeerIsn[c]
    /\ "RST" \notin p.flags /\ "SYN" \notin p.flags => Est(c)
    /\ p.len > 0 \/ "FIN" \in p.flags =>
         /\ p.flags \cap {"SYN", "RST"} = {}
         /\ p.seq = PeerSeq(c, p.first)
         /\ p.first >= 1 /\ p.first + p.len - 1 <= peer_sent[c]
    /\ "FIN" \in p.flags => peer_fin[c] = 1 /\ p.first + p.len - 1 = peer_sent[c]

PeerOk(c) ==
  /\ peer_state[c] # "syn_sent"
  /\ peer_state[c] = "established" => Est(c)
  /\ peer_state[c] \in {"closed", "syn_rcvd"} => peer_sent[c] = 0 /\ peer_fin[c] = 0

DeliveredOk(c) ==
  /\ Len(delivered[c]) <= peer_sent[c]
  /\ \A i \in 1 .. Len(delivered[c]) : delivered[c][i] = i
  /\ delivered[c] # <<>> => Est(c)

\* ack_number is the number of the next byte, or just after the peer's FIN.
AckMatch(c) ==
  \/ ack_number = PeerSeq(c, Len(delivered[c]) + 1)
  \/ /\ ack_number = PeerSeq(c, Len(delivered[c]) + 2)
     /\ peer_fin[c] = 1 /\ Len(delivered[c]) = peer_sent[c]

AckOfCurrent(c) ==
  tcp_connect = c /\ (tcp_state = "established" \/ call = "send" \/ Est(c)) => AckMatch(c)

\* While tcp_connect waits for the SYN/ACK nothing has been received, and the peer
\* has either not been acknowledged anything or is gone.
SynSentOk(c) ==
  tcp_connect = c /\ tcp_state = "syn_sent" =>
    /\ delivered[c] = <<>>
    /\ \/ /\ peer_state[c] \in {"closed", "syn_rcvd"}
          /\ \A q \in toPeer : q.conn = c => "RST" \in q.flags \/ q.flags = {"SYN"}
          /\ \A p \in toHost : p.conn = c => "RST" \notin p.flags
       \/ /\ peer_state[c] = "reset"
          /\ \A p \in toHost : p.conn = c => p.len = 0 /\ "FIN" \notin p.flags

StreamInv(c) ==
  /\ Untouched(c)
  /\ HostSegments(c)
  /\ PeerOk(c)
  /\ DeliveredOk(c)
  /\ AckOfCurrent(c)
  /\ SynSentOk(c)

\* tcp_send's loop runs on a connection that is in use or has been closed under it.
SendOk == call = "send" => tcp_state \in {"established", "closed"}

\* The strengthening of InOrderDelivery that every step preserves.
IInv == SendOk /\ \A c \in ActiveConns : StreamInv(c)

----------------------------------------------------------------------------
(* A client: a program that never calls tcp_listen.  There every end of    *)
(* file is the last thing a connection sees, and what is acknowledged has  *)
(* been delivered.  Two things can spoil the ACK fields: a declined SYN,   *)
(* whose number is left in tcp_ack_number and goes out with tcp_send's     *)
(* next segment; and a reset that echoes the ID $1234 while tcp_connect    *)
(* waits, which is answered by an ACK with the ack_number of old.          *)
(***************************************************************************)
ClientOnly == "listen" \notin Calls

\* No SYN can arrive that ip65 would decline.
NoSynDeclined ==
  ListenConns = {} /\ \A p \in StrayPackets : p.flags # {"SYN"}

\* tcp_ack_number is what a data segment should acknowledge, whenever one is sent.
AckFieldKept == "send" \notin Calls \/ NoSynDeclined

NoResetEchoed == "1234" \notin RstIds

ClientControl ==
  /\ tcp_listen_port = 0
  /\ tcp_state # "listening"
  /\ tcp_connect \notin ListenConns
  /\ call \in Calls \cup {"none"}
  /\ call = "send" => send_len \in SendLens

\* Segments of nobody's connection are those that were there from the start, and the
\* clients of a port nobody listens on get resets only.
StrangersOk ==
  /\ \A p \in toHost : p.conn = Stranger => p \in StrayPackets
  /\ \A q \in toPeer : q.conn \in ListenConns => "RST" \in q.flags

InUse(c) == tcp_connect = c /\ (tcp_state = "established" \/ call = "send")

\* After its end of file a connection is closed, and its port is not used again.
EndedOk(c) ==
  eof[c] > 0 =>
    /\ eof[c] = 1
    /\ tcp_connect = c => tcp_state = "closed"
    /\ \E q \in toPeer : q.conn = c

\* ack_number has gone past the last byte only for the FIN the callback knows of.
AckOfFin(c) ==
  InUse(c) \/ (tcp_connect = c /\ Est(c)) =>
    ack_number = PeerSeq(c, Len(delivered[c]) + 1) \/ eof[c] > 0

\* A number that acknowledges nothing the callback has not been given.
Acknowledged(c, n) == SeqSub(n, PeerSeq(c, 1)) <= Len(delivered[c]) + eof[c]

\* What ip65 has sent on c; the two exceptions are those above.
AcksOk(c) ==
  \A q \in toPeer : q.conn = c /\ "ACK" \in q.flags /\ "RST" \notin q.flags =>
    /\ peer_state[c] # "closed"
    /\ \/ Acknowledged(c, q.ack)
       \/ peer_state[c] = "reset" /\ ~NoResetEchoed
       \/ q.len > 0 /\ ~AckFieldKept

AckFieldOk(c) == NoSynDeclined /\ InUse(c) => Acknowledged(c, tcp_ack_number)

\* What its peer has sent: nothing before the SYN, segments of its size, and a reset
\* only when its side is gone.
PeerSentOk(c) ==
  /\ InUse(c) => peer_state[c] # "closed"
  /\ \A p \in toHost : p.conn = c =>
       /\ peer_state[c] # "closed"
       /\ p.len <= PeerMss
       /\ "RST" \in p.flags => p.id \in RstIds
       /\ "RST" \in p.flags /\ AckFieldKept => peer_state[c] = "reset"

\* EofAfterAllData, one connection.
EofOk(c) ==
  AckFieldKept /\ eof[c] > 0 /\ peer_state[c] # "reset" =>
    peer_fin[c] = 1 /\ Len(delivered[c]) = peer_sent[c]

EndInv(c) ==
  /\ EndedOk(c)
  /\ AckOfFin(c)
  /\ AcksOk(c)
  /\ AckFieldOk(c)
  /\ PeerSentOk(c)
  /\ EofOk(c)

\* The strengthening of EofAfterAllData and AckedIsDelivered that a client's steps
\* preserve.
ClientInv ==
  /\ IInv
  /\ ClientOnly => ClientControl /\ StrangersOk /\ \A c \in ActiveConns : EndInv(c)

----------------------------------------------------------------------------
(* Connections that tcp_listen accepted.  A repeated SYN rewinds           *)
(* ack_number, and once tcp_listen waits again the last connection's       *)
(* segments are still taken; yet ack_number only ever names the first byte *)
(* or the one after the byte delivered last.                               *)
(***************************************************************************)

\* The number of the byte delivered last.
LastByte(c) == IF delivered[c] = <<>> THEN 0 ELSE delivered[c][Len(delivered[c])]

PeerSegments(c) ==
  \A p \in toHost : p.conn = c =>
    /\ "SYN" \in p.flags => p.seq = PeerIsn[c]
    /\ p.len > 0 \/ "FIN" \in p.flags =>
         /\ p.seq = PeerSeq(c, p.first)
         /\ p.first >= 1 /\ p.first + p.len - 1 <= peer_sent[c]
    /\ "FIN" \in p.flags => peer_fin[c] = 1 /\ p.first + p.len - 1 = peer_sent[c]

\* NoByteSkipped, one connection, and all of it sent by the peer.
NoneSkipped(c) ==
  \A i \in 1 .. Len(delivered[c]) :
    /\ delivered[c][i] \in 1 .. peer_sent[c]
    /\ delivered[c][i] = 1 \/ (i > 1 /\ delivered[c][i] = delivered[c][i - 1] + 1)

AckAfterLast(c) ==
  tcp_connect = c =>
    \/ ack_number \in {PeerSeq(c, 1), PeerSeq(c, LastByte(c) + 1)}
    \/ /\ ack_number = PeerSeq(c, LastByte(c) + 2)
       /\ peer_fin[c] = 1 /\ LastByte(c) = peer_sent[c]

\* The strengthening of NoByteSkipped that every step preserves.
AcceptedInv ==
  \A c \in ListenConns : PeerSegments(c) /\ NoneSkipped(c) /\ AckAfterLast(c)

----------------------------------------------------------------------------
(* What tcp_send promises a client.  The number it waits for is compared   *)
(* with tcp_connect_last_ack, which no new connection clears.              *)
(***************************************************************************)

\* The sums that lengths passed to tcp_send can reach: the least set with 0 that is
\* closed under one more call.
SumsClosed(T) ==
  0 \in T /\ \A t \in T, len \in SendLens : t + len <= MaxBytes => t + len \in T
Totals ==
  {t \in 0 .. MaxBytes : \A T \in SUBSET (0 .. MaxBytes) : SumsClosed(T) => t \in T}

\* Sequence number of byte n of what the application sends, i being the number of its SYN.
HostSeq(i, n) == SeqAdd(i, n)

NumbersFit == MaxBytes + 3 < SeqMod

\* No number that tcp_send waits for on a connection is one that the peer of another has
\* acknowledged, nor the 0 that last_ack starts with.
NumbersApart ==
  /\ NumbersFit
  /\ \A c \in ActiveConns, t \in Totals \ {0} :
       /\ HostSeq(Isn[c], 1 + t) # 0
       /\ \A d \in ActiveConns \ {c}, j \in 0 .. MaxBytes + 1 :
            HostSeq(Isn[c], 1 + t) # HostSeq(Isn[d], 1 + j)

\* What the peer of c counts in its acknowledgements.
PeerCount(c) == Len(peer_got[c]) + peer_eof[c]

FinSent(c) == \E q \in toPeer : q.conn = c /\ "FIN" \in q.flags

PeerCountOk(c, i) ==
  /\ peer_state[c] \in {"closed", "syn_sent"} => PeerCount(c) = 0
  /\ peer_state[c] \in {"syn_rcvd", "established"} =>
       peer_rcv[c] = HostSeq(i, 1 + PeerCount(c))
  /\ Len(peer_got[c]) <= MaxBytes + 1
  /\ peer_eof[c] = 1 => FinSent(c) /\ Len(peer_got[c]) = acked[c]

PeerAcksOk(c, i) ==
  \A p \in toHost : p.conn = c /\ "ACK" \in p.flags /\ "RST" \notin p.flags =>
    \E j \in 0 .. PeerCount(c) : p.ack = HostSeq(i, 1 + j)

LastAckOk ==
  last_ack = 0
  \/ \E d \in ActiveConns : \E j \in 0 .. PeerCount(d) : last_ack = HostSeq(Isn[d], 1 + j)

NotReopened(c) == eof[c] > 0 /\ tcp_connect = c => tcp_state = "closed"

\* Data repeated after the peer's FIN has been taken carry a number one too high.
Shifted(c, n) == eof[c] > 0 /\ peer_fin[c] = 1 /\ n = 1

OwnSegments(c, i) ==
  \A q \in toPeer : q.conn = c =>
    /\ "SYN" \in q.flags => q.seq = i
    /\ q.len > 0 =>
         /\ "FIN" \notin q.flags
         /\ q.first >= 1 /\ q.first + q.len - 1 <= MaxBytes
         /\ \E n \in {0, 1} : (n = 0 \/ Shifted(c, n)) /\ q.seq = HostSeq(i, q.first + n)
    /\ "FIN" \in q.flags => q.seq = HostSeq(i, 1 + acked[c])

\* Between two calls everything sent has been acknowledged, and so it stays after
\* tcp_close.
AllAcked(c, i) ==
  \A q \in toPeer : q.conn = c /\ q.len > 0 =>
    /\ \/ tcp_connect = c /\ tcp_state = "established" /\ call # "send"
       \/ FinSent(c)
       => q.first + q.len - 1 <= acked[c] /\ q.seq = HostSeq(i, q.first)
    /\ tcp_connect = c /\ call = "send" => q.first + q.len - 1 <= acked[c] + send_len

AfterClose(c) ==
  FinSent(c) /\ tcp_connect = c =>
    call # "send" /\ tcp_state # "syn_sent" /\ (tcp_state = "established" => call = "close")

AckedOk(c) ==
  /\ acked[c] \in Totals
  /\ acked[c] > 0 => \E q \in toPeer : q.conn = c
  /\ acked[c] <= Len(peer_got[c])

\* Our SYN has not been counted yet.
Opening == tcp_state = "syn_sent" \/ call = "listen"

\* The numbers of the control block.
NumbersOfCurrent(c, i) ==
  tcp_connect = c =>
    /\ Opening =>
         /\ sequence_number = i /\ acked[c] = 0
         /\ \A q \in toPeer : q.conn = c => q.len = 0 /\ "FIN" \notin q.flags
    /\ tcp_state = "established" /\ ~Opening => sequence_number = HostSeq(i, 1 + acked[c])
    /\ tcp_state = "established" /\ ~Opening /\ call \notin {"send", "close"} =>
         expected_ack_number = sequence_number
    /\ call = "send" =>
         /\ acked[c] + send_len \in Totals
         /\ expected_ack_number = HostSeq(i, 1 + acked[c] + send_len)
         /\ \E n \in {0, 1} :
              (n = 0 \/ Shifted(c, n)) /\ sequence_number = HostSeq(i, 1 + acked[c] + n)

InOrderAtPeer(c) ==
  peer_fin[c] = 0 => \A k \in 1 .. Len(peer_got[c]) : peer_got[c][k] = k

SendingOk(c, i) ==
  /\ PeerCountOk(c, i)
  /\ PeerAcksOk(c, i)
  /\ OwnSegments(c, i)
  /\ AllAcked(c, i)
  /\ AfterClose(c)
  /\ AckedOk(c)
  /\ NumbersOfCurrent(c, i)
  /\ InOrderAtPeer(c)

\* Nothing is sent to the clients of a port nobody listens on.
ListenersIdle == \A c \in ListenConns : acked[c] = 0 /\ peer_got[c] = <<>>

\* The strengthening of SendDelivered and PeerInOrderWhileOpen.
SendInv == LastAckOk /\ ListenersIdle /\ \A c \in ActiveConns : SendingOk(c, Isn[c])

----------------------------------------------------------------------------
(* What tcp_send promises a server: a program that calls tcp_listen once,  *)
(* and goes on when that has accepted a connection.  The number of its SYN *)
(* is that of its SYN/ACK, as long as no other has been sent.              *)
(***************************************************************************)
ServerOnly == "connect" \notin Calls /\ MaxListens = 1 /\ "listen" \notin Aborts

\* No number that tcp_send waits for is the 0 that last_ack starts with.
ListenNumbersApart ==
  /\ NumbersFit
  /\ \A i \in ListenIsns, t \in Totals \ {0} : HostSeq(i, 1 + t) # 0

\* tcp_listen is left when it has accepted a connection, and never entered again.
ServerControl ==
  /\ tcp_state # "syn_sent" /\ call \in Calls \cup {"none"}
  /\ tcp_connect \in ListenConns \cup {NoConn}
  /\ tcp_listen_port = 0 => tcp_connect = NoConn
  /\ tcp_connect = NoConn => last_ack = 0
  /\ tcp_state = "listening" =>
       /\ tcp_connect = NoConn /\ call = "listen"
       /\ sequence_number \in ListenIsns /\ expected_ack_number = sequence_number
  /\ call = "listen" => tcp_state = "listening" \/ (tcp_state = "established" /\ phase = "check")
  /\ call = "send" => send_len \in SendLens
  /\ \A c \in Conns : NotReopened(c)

\* A connection that has not been accepted.
Idle(c) ==
  /\ acked[c] = 0 /\ peer_got[c] = <<>> /\ peer_eof[c] = 0
  /\ peer_state[c] \in {"closed", "syn_sent", "reset"}
  /\ \A q \in toPeer : q.conn = c => q.flags = {"RST", "ACK"} /\ q.len = 0
  /\ \A p \in toHost : p.conn = c /\ "ACK" \in p.flags => "RST" \in p.flags

\* All SYN/ACKs sent on c have carried this number.
SynAcksCarry(c, i) == \A q \in toPeer : q.conn = c /\ "SYN" \in q.flags => q.seq = i

\* last_ack counts bytes that the peer's application has got.
LastAckOf(c, i) == last_ack = 0 \/ \E j \in 0 .. PeerCount(c) : last_ack = HostSeq(i, 1 + j)

\* The connection that has been accepted.
Served(c) ==
  \E i \in ListenIsns :
    /\ \E q \in toPeer : q.conn = c /\ "SYN" \in q.flags /\ q.seq = i
    /\ SynAcksCarry(c, i) => SendingOk(c, i) /\ LastAckOf(c, i)

\* The strengthening of SendDeliveredAfterOneSynAck that a server's steps preserve.
ServerInv ==
  ServerControl /\ \A c \in Conns : IF tcp_connect = c THEN Served(c) ELSE Idle(c)
============================================================================
