----------------------------- MODULE TcpClient ------------------------------
(***************************************************************************)
(* What a client program, one that never calls tcp_listen, can rely on:    *)
(* its end of file is the last event of a connection and comes after all   *)
(* the data, ACKs follow the deliveries, and towards its callback the      *)
(* endpoint implements the abstract byte stream.                           *)
(*                                                                         *)
(* ClientInv is inductive.  As in TcpDelivery, most steps of the endpoint  *)
(* are quiet: they deliver nothing and leave ack_number alone.             *)
(***************************************************************************)
EXTENDS TcpDelivery

\* The distance of a number of the stream from its first byte.
LEMMA PeerSeqSub ==
  ASSUME NEW c \in Conns, NEW n \in 0 .. PeerLen + 1
  PROVE  SeqSub(PeerSeq(c, n + 1), PeerSeq(c, 1)) = n
<1>1. PeerIsn[c] \in SeqNo
  BY PeerAssumption
<1> QED
  BY <1>1, PeerAssumption, SeqModAssumption DEF PeerSeq, SeqAdd, SeqSub, SeqNo

\* Types of what the proofs below compute with.
LEMMA ClientTypes ==
  ASSUME TypeOK, NEW c \in ActiveConns, StreamInv(c)
  PROVE  /\ c \in Conns /\ c # Stranger /\ c \notin ListenConns
         /\ delivered[c] \in Seq(Nat) /\ Len(delivered[c]) \in 0 .. PeerLen
         /\ eof[c] \in Nat /\ peer_sent[c] \in 0 .. PeerLen /\ peer_fin[c] \in {0, 1}
         /\ Len(delivered[c]) <= peer_sent[c] /\ PeerLen \in Nat /\ PeerMss \in Nat
         /\ peer_state \in [Conns -> {"closed", "syn_sent", "syn_rcvd", "established", "reset"}]
<1>1. /\ c \in Conns /\ c # Stranger /\ c \notin ListenConns
      /\ delivered[c] \in Seq(Nat) /\ eof[c] \in Nat
      /\ peer_sent[c] \in 0 .. PeerLen /\ peer_fin[c] \in {0, 1}
      /\ PeerLen \in Nat /\ PeerMss \in Nat
      /\ peer_state \in [Conns -> {"closed", "syn_sent", "syn_rcvd", "established", "reset"}]
  BY PeerAssumption, ConnAssumption
  DEF TypeOK, TcpTypeOK, HistoryOK, PeerTypeOK, ActiveConns
<1>2. Len(delivered[c]) \in Nat /\ Len(delivered[c]) <= peer_sent[c]
  BY <1>1 DEF StreamInv, DeliveredOk
<1> QED
  BY <1>1, <1>2

\* On a connection in use, or once acknowledged, ack_number acknowledges what has been
\* delivered and nothing else.
LEMMA AckNumberOk ==
  ASSUME TypeOK, NEW c \in ActiveConns, StreamInv(c), EndInv(c),
         InUse(c) \/ (tcp_connect = c /\ Est(c))
  PROVE  Acknowledged(c, ack_number)
<1> DEFINE n == Len(delivered[c])
<1>1. /\ c \in Conns /\ n \in 0 .. PeerLen /\ eof[c] \in Nat /\ PeerLen \in Nat
  BY ClientTypes
<1>2. AckMatch(c) /\ (ack_number = PeerSeq(c, n + 1) \/ eof[c] > 0)
  BY DEF StreamInv, AckOfCurrent, EndInv, AckOfFin, InUse
<1>3. CASE ack_number = PeerSeq(c, n + 1)
  <2> HIDE DEF n
  <2>1. SeqSub(ack_number, PeerSeq(c, 1)) = n
    BY <1>1, <1>3, PeerSeqSub
  <2> QED
    BY <1>1, <2>1 DEF Acknowledged, n
<1>4. CASE ack_number = PeerSeq(c, n + 2) /\ eof[c] > 0
  <2> HIDE DEF n
  <2>1. n + 1 \in 0 .. PeerLen + 1 /\ n + 2 = n + 1 + 1
    BY <1>1
  <2>2. SeqSub(ack_number, PeerSeq(c, 1)) = n + 1
    BY <1>1, <1>4, <2>1, PeerSeqSub
  <2> QED
    BY <1>1, <1>4, <2>2 DEF Acknowledged, n
<1> QED
  BY <1>2, <1>3, <1>4 DEF AckMatch

\* What has been acknowledged stays so.
LEMMA AcknowledgedKept ==
  ASSUME NEW c \in Conns, NEW a \in SeqNo, Acknowledged(c, a),
         Len(delivered[c]) \in Nat, eof[c] \in Nat,
         Len(delivered'[c]) \in Nat, eof'[c] \in Nat,
         Len(delivered'[c]) >= Len(delivered[c]), eof'[c] >= eof[c]
  PROVE  SeqSub(a, PeerSeq(c, 1)) <= Len(delivered'[c]) + eof'[c]
<1> DEFINE s == SeqSub(a, PeerSeq(c, 1))
<1>1. s \in Nat
  <2>1. PeerSeq(c, 1) \in SeqNo
    BY PeerSeqType, PeerAssumption
  <2> QED
    BY <2>1, SeqSubType
<1>2. s <= Len(delivered[c]) + eof[c]
  BY DEF Acknowledged
<1> HIDE DEF s
<1>3. s <= Len(delivered'[c]) + eof'[c]
  BY <1>1, <1>2
<1> QED
  BY <1>3 DEF s

\* A delivery is as long as the segment.
LEMMA DeliveryLen ==
  ASSUME NEW s \in Seq(Nat), NEW p \in Segment
  PROVE  Len(s \o Bytes(p)) = Len(s) + p.len
<1> DEFINE t == Bytes(p)
<1>1. t \in Seq(Nat) /\ Len(t) = p.len
  BY BytesType
<1> HIDE DEF t
<1>2. Len(s \o t) = Len(s) + p.len
  BY <1>1, ConcatProperties
<1> QED
  BY <1>2 DEF t

----------------------------------------------------------------------------
\* A segment of ours that AcksOk admits, sent on the connection in the control block.
NewAckOk(c, q) ==
  /\ tcp_connect = c
  /\ q.ack = ack_number \/ InUse(c)
  /\ peer_state[c] # "closed"
  /\ \/ Acknowledged(c, q.ack)
     \/ peer_state[c] = "reset" /\ ~NoResetEchoed
     \/ q.len > 0 /\ ~AckFieldKept

NewOk(c, q) ==
  \/ q.conn # c
  \/ "RST" \in q.flags
  \/ "ACK" \notin q.flags
  \/ NewAckOk(c, q)

\* A step of the endpoint that neither delivers nor tells an end of file, and that keeps
\* ack_number.
LEMMA QuietEnd ==
  ASSUME TypeOK, NEW c \in ActiveConns, StreamInv(c), EndInv(c),
         toPeer \subseteq toPeer', UNCHANGED toHost, UNCHANGED peerVars,
         delivered'[c] = delivered[c], eof'[c] = eof[c],
         UNCHANGED <<tcp_connect, ack_number>>,
         tcp_state' \in {tcp_state, "closed"},
         call' = "send" => call = "send" \/ tcp_state = "established",
         NoSynDeclined /\ InUse(c) =>
           tcp_ack_number' = tcp_ack_number \/ tcp_ack_number' = ack_number,
         \A q \in toPeer' : q \in toPeer \/ NewOk(c, q)
  PROVE  EndInv(c)'
<1> USE DEF EndInv, peerVars
<1>1. InUse(c)' => InUse(c)
  BY DEF InUse
<1>2. EndedOk(c)'
  BY DEF EndedOk
<1>3. AckOfFin(c)'
  <2> SUFFICES ASSUME tcp_connect = c, Est(c)', ~Est(c), ~InUse(c)
               PROVE  ack_number = PeerSeq(c, Len(delivered[c]) + 1)
    BY <1>1 DEF AckOfFin, PeerSeq
  <2>1. PICK q \in toPeer' :
          /\ q.conn = c /\ "ACK" \in q.flags /\ q.flags \cap {"SYN", "RST"} = {}
          /\ q.ack = PeerSeq(c, 1)
    BY DEF Est, PeerSeq
  <2>2. q \notin toPeer
    BY <2>1 DEF Est
  <2>3. ack_number = PeerSeq(c, 1)
    BY <2>1, <2>2 DEF NewOk, NewAckOk
  <2>4. delivered[c] = <<>>
    BY DEF StreamInv, DeliveredOk
  <2> QED
    BY <2>3, <2>4
<1>4. AcksOk(c)'
  BY DEF AcksOk, NewOk, NewAckOk, Acknowledged, PeerSeq, AckFieldKept, NoSynDeclined,
         NoResetEchoed
<1>5. AckFieldOk(c)'
  BY <1>1, AckNumberOk DEF AckFieldOk, Acknowledged, PeerSeq, NoSynDeclined
<1>6. PeerSentOk(c)' /\ EofOk(c)'
  BY <1>1 DEF PeerSentOk, EofOk, AckFieldKept, NoSynDeclined
<1> QED
  BY <1>2, <1>3, <1>4, <1>5, <1>6

\* A step for another connection than c.
LEMMA OtherEnd ==
  ASSUME NEW c \in ActiveConns, EndInv(c),
         toPeer \subseteq toPeer', UNCHANGED toHost, UNCHANGED peerVars,
         delivered'[c] = delivered[c], eof'[c] = eof[c], tcp_connect' # c,
         \A q \in toPeer' : q \in toPeer \/ q.conn # c
  PROVE  EndInv(c)'
<1> USE DEF EndInv, peerVars
<1>1. ~InUse(c)'
  BY DEF InUse
<1>2. EndedOk(c)' /\ AckOfFin(c)' /\ AckFieldOk(c)'
  BY <1>1 DEF EndedOk, AckOfFin, AckFieldOk
<1>3. AcksOk(c)'
  BY DEF AcksOk, Acknowledged, PeerSeq, AckFieldKept, NoSynDeclined, NoResetEchoed
<1>4. PeerSentOk(c)' /\ EofOk(c)'
  BY <1>1 DEF PeerSentOk, EofOk, AckFieldKept, NoSynDeclined
<1> QED
  BY <1>2, <1>3, <1>4

----------------------------------------------------------------------------
\* The segments built from ack_number on a connection in use.
LEMMA InUseNewOk ==
  ASSUME TypeOK, NEW c \in ActiveConns, StreamInv(c), EndInv(c),
         tcp_state = "established" \/ call = "send",
         NEW q, q.conn = tcp_connect, q.ack = ack_number
  PROVE  NewOk(c, q)
<1>1. SUFFICES ASSUME tcp_connect = c PROVE NewAckOk(c, q)
  BY DEF NewOk
<1>2. InUse(c)
  BY <1>1 DEF InUse
<1>3. peer_state[c] # "closed"
  BY <1>2 DEF EndInv, PeerSentOk
<1> QED
  BY <1>1, <1>2, <1>3, AckNumberOk DEF NewAckOk

\* A data segment carries tcp_ack_number.
LEMMA DataNewOk ==
  ASSUME TypeOK, NEW c \in ActiveConns, EndInv(c), "send" \in Calls,
         tcp_state = "established" \/ call = "send", NEW len \in SendLens
  PROVE  NewOk(c, Data(len))
<1>1. SUFFICES ASSUME tcp_connect = c PROVE NewAckOk(c, Data(len))
  BY DEF NewOk, Data
<1>2. InUse(c)
  BY <1>1 DEF InUse
<1>3. peer_state[c] # "closed"
  BY <1>2 DEF EndInv, PeerSentOk
<1>4. Data(len).ack = tcp_ack_number /\ Data(len).len > 0
  BY SendAssumption, SeqModAssumption DEF Data
<1>5. AckFieldKept => Acknowledged(c, tcp_ack_number)
  BY <1>2 DEF EndInv, AckFieldOk, AckFieldKept
<1> QED
  BY <1>1, <1>2, <1>3, <1>4, <1>5 DEF NewAckOk

\* The calls and the ticks.
LEMMA CallsEnd ==
  ASSUME TypeOK, NEW c \in ActiveConns, StreamInv(c), EndInv(c), ClientOnly, ClientControl,
         SendOk, UNCHANGED peerVars,
         \/ \E len \in SendLens : TcpSend(len)
         \/ TcpClose \/ TcpCloseNotEstablished \/ TcpSendKeepAlive
         \/ Abort \/ CallReturns \/ KeepPolling
         \/ TickDelay \/ TickResend \/ TickTimeout \/ NoSegment
  PROVE  EndInv(c)'
<1>1. CASE \/ TcpCloseNotEstablished \/ Abort \/ KeepPolling
           \/ TickDelay \/ TickTimeout \/ NoSegment
  BY <1>1, QuietEnd
  DEF TcpCloseNotEstablished, Abort, KeepPolling, TickDelay, TickTimeout,
      NoSegment, Poll, Return, TimerTick, Waiting, cb, caller, history
<1>2. CASE CallReturns
  BY <1>2, QuietEnd
  DEF CallReturns, ConnectReturns, ListenReturns, SendReturns, CloseReturns, Return, cb,
      history
<1>3. ASSUME NEW len \in SendLens, TcpSend(len) PROVE EndInv(c)'
  BY <1>3, QuietEnd, DataNewOk DEF TcpSend, StartCall, Transmit, history
<1>4. CASE TcpClose
  <2>1. NewOk(c, Fin)
    BY <1>4, InUseNewOk DEF TcpClose, Fin, Bare
  <2> QED
    BY <1>4, <2>1, QuietEnd DEF TcpClose, StartCall, Transmit, history
<1>5. CASE TcpSendKeepAlive
  <2>1. NewOk(c, Ack)
    BY <1>5, InUseNewOk DEF TcpSendKeepAlive, Ack, Bare
  <2> QED
    BY <1>5, <2>1, QuietEnd DEF TcpSendKeepAlive, Reply, history, caller
<1>6. CASE TickResend
  <2> DEFINE p == CASE call = "connect" -> Syn(tcp_connect)
                    [] call = "send" -> Data(send_len)
                    [] OTHER -> Fin
  <2>1. NewOk(c, p)
    <3>1. CASE call = "connect"
      BY <3>1 DEF NewOk, Syn, Bare
    <3>2. CASE call = "send"
      BY <3>2, DataNewOk DEF ClientControl
    <3>3. CASE call \notin {"connect", "send"}
      <4>1. tcp_state = "established"
        BY <1>6, <3>3 DEF TickResend, TimerTick, Waiting
      <4> QED
        BY <3>3, <4>1, InUseNewOk DEF Fin, Bare
    <3> QED
      BY <3>1, <3>2, <3>3
  <2>2. Transmit(p, tcp_packet_sent_count + 1)
    BY <1>6 DEF TickResend
  <2> HIDE DEF p
  <2>3. toPeer \subseteq toPeer' /\ \A q \in toPeer' : q \in toPeer \/ NewOk(c, q)
    BY <2>1, <2>2 DEF Transmit
  <2> QED
    BY <1>6, <2>3, QuietEnd DEF TickResend, history
<1> QED
  BY <1>1, <1>2, <1>3, <1>4, <1>5, <1>6

\* tcp_connect to c: its port has not been used.
LEMMA ConnectEnd ==
  ASSUME TypeOK, NEW c \in ActiveConns, StreamInv(c), EndInv(c), UNCHANGED peerVars,
         NEW d \in Conns, TcpConnect(d)
  PROVE  EndInv(c)'
<1> USE DEF EndInv, peerVars
<1>1. /\ tcp_connect' = d /\ tcp_state' = "syn_sent" /\ call' = "connect"
      /\ \A q \in toPeer : q.conn # d
      /\ UNCHANGED <<toHost, delivered, eof>>
  BY DEF TcpConnect, StartCall, history
<1>2. toPeer \subseteq toPeer' /\ \A q \in toPeer' : q \in toPeer \/ q = Syn(d)
  BY DEF TcpConnect, Transmit
<1>3. CASE c # d
  BY <1>1, <1>2, <1>3, OtherEnd DEF Syn, Bare
<1>4. CASE c = d
  <2>1. ~Est(c)' /\ ~InUse(c)'
    BY <1>1, <1>2, <1>4 DEF Est, InUse, Syn, Bare
  <2>2. eof[c] = 0
    BY <1>1, <1>4, ClientTypes DEF EndedOk
  <2>3. \A q \in toPeer' : q.conn = c => "ACK" \notin q.flags
    BY <1>1, <1>2, <1>4 DEF Syn, Bare
  <2>4. AcksOk(c)'
    BY <2>3 DEF AcksOk
  <2>5. EndedOk(c)' /\ AckOfFin(c)' /\ AckFieldOk(c)' /\ EofOk(c)'
    BY <1>1, <2>1, <2>2 DEF EndedOk, AckOfFin, AckFieldOk, EofOk
  <2>6. PeerSentOk(c)'
    BY <1>1, <2>1 DEF PeerSentOk, AckFieldKept, NoSynDeclined
  <2> QED
    BY <2>4, <2>5, <2>6
<1> QED
  BY <1>3, <1>4

----------------------------------------------------------------------------
\* A SYN that arrives is a stranger's: peers of tcp_connect's connections answer SYN/ACK.
LEMMA DeclinedSyn ==
  ASSUME TypeOK, IInv, StrangersOk, NEW p \in toHost, p.flags = {"SYN"}
  PROVE  ~NoSynDeclined
<1> SUFFICES ASSUME NoSynDeclined PROVE FALSE
  OBVIOUS
<1>1. p.conn \in AllConns /\ p.conn # NoConn
  BY DEF TypeOK, TcpTypeOK, ToHostOK, Segment
<1>2. CASE p.conn \in ActiveConns
  BY <1>2 DEF IInv, StreamInv, HostSegments
<1>3. CASE p.conn = Stranger
  BY <1>3 DEF StrangersOk, NoSynDeclined
<1> QED
  BY <1>1, <1>2, <1>3 DEF AllConns, ActiveConns, NoSynDeclined

\* The handlers that leave ack_number and the callback alone.
LEMMA QuietHandlersEnd ==
  ASSUME TypeOK, NEW c \in ActiveConns, IInv, EndInv(c), ClientOnly, ClientControl,
         StrangersOk, UNCHANGED peerVars, NEW p \in toHost, Poll,
         \/ EchoedRst(p) \/ IgnoredRst(p) \/ SynAckRepeated(p)
         \/ NotOurs(p) \/ PureAck(p) \/ OutOfOrder(p) \/ SynIgnored(p) \/ SynDeclined(p)
  PROVE  EndInv(c)'
<1>1. UNCHANGED <<call, toHost>> /\ StreamInv(c)
  BY DEF Poll, IInv
<1>2. CASE IgnoredRst(p) \/ SynIgnored(p) \/ PureAck(p)
  BY <1>1, <1>2, QuietEnd DEF IgnoredRst, SynIgnored, Ignored, PureAck, cb, history
<1>3. CASE NotOurs(p) \/ SynDeclined(p)
  <2>1. NewOk(c, Rst(p))
    BY DEF NewOk, Rst, Bare
  <2>2. SynDeclined(p) => ~NoSynDeclined
    BY DeclinedSyn DEF SynDeclined
  <2> QED
    BY <1>1, <1>3, <2>1, <2>2, QuietEnd DEF NotOurs, SynDeclined, Reply, cb, history
<1>4. CASE EchoedRst(p) \/ SynAckRepeated(p) \/ OutOfOrder(p)
  <2>1. Current(p) /\ tcp_state \in {"syn_sent", "established"}
    BY <1>4 DEF EchoedRst, SynAckRepeated, OutOfOrder, AckSegment, Current, ClientControl,
                TypeOK, TcpTypeOK, ControlOK
  <2>2. NewOk(c, Ack)
    <3>1. CASE tcp_state = "established"
      BY <3>1, <1>1, InUseNewOk DEF Ack, Bare
    <3>2. CASE tcp_state = "syn_sent" /\ tcp_connect = c
      <4>1. p.conn = c
        BY <2>1, <3>2 DEF Current
      <4>2. CASE EchoedRst(p)
        <5>1. "RST" \in p.flags /\ p.id = "1234"
          BY <4>2 DEF EchoedRst
        <5>2. peer_state[c] = "reset"
          BY <1>1, <3>2, <4>1, <5>1 DEF StreamInv, SynSentOk
        <5>3. ~NoResetEchoed
          BY <4>1, <5>1 DEF EndInv, PeerSentOk, NoResetEchoed
        <5> QED
          BY <3>2, <5>2, <5>3 DEF NewOk, NewAckOk, Ack, Bare
      <4>3. CASE SynAckRepeated(p)
        BY <3>2, <4>3 DEF SynAckRepeated
      <4>4. CASE OutOfOrder(p)
        <5>1. Est(c)
          BY <1>1, <4>1, <4>4, SegmentOfStream DEF OutOfOrder
        <5>2. peer_state[c] # "closed"
          BY <4>1 DEF EndInv, PeerSentOk
        <5>3. Acknowledged(c, ack_number)
          BY <1>1, <3>2, <5>1, AckNumberOk
        <5> QED
          BY <3>2, <5>2, <5>3 DEF NewOk, NewAckOk, Ack, Bare
      <4> QED
        BY <1>4, <4>2, <4>3, <4>4
    <3>3. CASE tcp_connect # c
      BY <3>3 DEF NewOk, Ack, Bare
    <3> QED
      BY <2>1, <3>1, <3>2, <3>3
  <2> QED
    BY <1>1, <1>4, <2>2, QuietEnd
    DEF EchoedRst, SynAckRepeated, OutOfOrder, AckCurrent, Reply, history
<1> QED
  BY <1>2, <1>3, <1>4

\* The awaited SYN/ACK: nothing has been delivered, the first byte is awaited.
LEMMA SynAckEnd ==
  ASSUME TypeOK, NEW c \in ActiveConns, StreamInv(c), StreamInv(c)', EndInv(c),
         UNCHANGED peerVars, NEW p \in toHost, Poll, SynAckExpected(p)
  PROVE  EndInv(c)'
<1> DEFINE r == Bare(tcp_connect, {"ACK"}, expected_ack_number', ack_number')
<1>1. /\ tcp_state' = "established" /\ p.conn = tcp_connect /\ tcp_state = "syn_sent"
      /\ tcp_ack_number' = ack_number' /\ toPeer' = toPeer \cup {r}
      /\ ack_number' = SeqAdd(p.seq, 1) /\ p.flags = {"SYN", "ACK"}
      /\ UNCHANGED <<toHost, tcp_connect, delivered, eof>>
  BY DEF SynAckExpected, Current, Reply, Poll, history
<1>2. CASE tcp_connect # c
  <2>1. r.conn # c
    BY <1>2 DEF Bare
  <2> HIDE DEF r
  <2> QED
    BY <1>1, <1>2, <2>1, OtherEnd
<1>3. CASE tcp_connect = c
  <2> USE DEF EndInv, peerVars
  <2>1. /\ delivered[c] = <<>> /\ Len(delivered[c]) = 0
        /\ eof[c] = 0 /\ peer_state[c] # "closed"
    BY <1>1, <1>3, ClientTypes DEF StreamInv, SynSentOk, EndedOk, PeerSentOk
  <2>2. p.seq = PeerIsn[c]
    BY <1>1, <1>3 DEF StreamInv, HostSegments
  <2>3. ack_number' = PeerSeq(c, 1)
    BY <1>1, <2>2 DEF PeerSeq
  <2>4. SeqSub(ack_number', PeerSeq(c, 1)) = 0
    <3>1. c \in Conns /\ PeerLen \in Nat /\ 0 \in 0 .. PeerLen + 1
      BY ClientTypes
    <3> QED
      BY <2>3, <3>1, PeerSeqSub
  <2>5. r.ack = ack_number'
    BY DEF Bare
  <2> HIDE DEF r
  <2>6. AcksOk(c)'
    BY <1>1, <2>1, <2>4, <2>5 DEF AcksOk, Acknowledged, PeerSeq, AckFieldKept, NoSynDeclined,
      NoResetEchoed
  <2>7. EndedOk(c)' /\ AckOfFin(c)' /\ AckFieldOk(c)' /\ EofOk(c)'
    BY <1>1, <2>1, <2>3, <2>4
    DEF EndedOk, AckOfFin, AckFieldOk, EofOk, Acknowledged, PeerSeq
  <2>8. PeerSentOk(c)'
    BY <1>1, <2>1 DEF PeerSentOk, AckFieldKept, NoSynDeclined
  <2> QED
    BY <2>6, <2>7, <2>8
<1> QED
  BY <1>2, <1>3

\* Data on c: the connection is in use, and no end of file has been told.
LEMMA DataEnd ==
  ASSUME TypeOK, TypeOK', NEW c \in ActiveConns, StreamInv(c), StreamInv(c)', EndInv(c),
         UNCHANGED peerVars, NEW p \in toHost, Poll, DataSegment(p)
  PROVE  EndInv(c)'
<1> DEFINE r == Bare(tcp_connect, {"ACK"}, expected_ack_number, ack_number')
<1>1. /\ AckSegment(p) /\ p.conn = tcp_connect /\ tcp_state # "closed"
      /\ delivered' = [delivered EXCEPT ![tcp_connect] = @ \o Bytes(p)]
      /\ tcp_ack_number' = ack_number' /\ toPeer' = toPeer \cup {r}
      /\ UNCHANGED <<toHost, tcp_connect, tcp_state, call, eof>>
  BY DEF DataSegment, AckSegment, Current, Reply, Poll
<1>2. CASE tcp_connect # c
  <2>1. r.conn # c
    BY <1>2 DEF Bare
  <2>2. delivered'[c] = delivered[c]
    BY <1>1, <1>2, ClientTypes DEF TypeOK, TcpTypeOK, HistoryOK
  <2> HIDE DEF r
  <2> QED
    BY <1>1, <1>2, <2>1, <2>2, OtherEnd
<1>3. CASE tcp_connect = c
  <2> USE DEF EndInv, peerVars
  <2> DEFINE n == Len(delivered[c])
             m == Len(delivered'[c])
  <2>1. /\ c \in Conns /\ n \in 0 .. PeerLen /\ m \in 0 .. PeerLen /\ PeerLen \in Nat
        /\ eof[c] = 0 /\ eof'[c] = 0
    <3>1. m \in 0 .. PeerLen
      BY ClientTypes DEF StreamInv, DeliveredOk, TypeOK, TcpTypeOK, HistoryOK
    <3> QED
      BY <1>1, <1>3, <3>1, ClientTypes DEF EndedOk
  <2>2. m = n + p.len /\ p.len \in Nat
    <3>1. p \in Segment /\ delivered[c] \in Seq(Nat) /\ p.len \in Nat
      BY ClientTypes, SeqModAssumption DEF TypeOK, TcpTypeOK, ToHostOK, Segment, SeqNo
    <3>2. delivered'[c] = delivered[c] \o Bytes(p)
      BY <1>1, <1>3, ClientTypes DEF TypeOK, TcpTypeOK, HistoryOK
    <3>3. Len(delivered[c] \o Bytes(p)) = Len(delivered[c]) + p.len
      BY <3>1, DeliveryLen
    <3> QED
      BY <3>1, <3>2, <3>3
  <2>3. Est(c) /\ peer_state[c] # "closed"
    BY <1>1, <1>3, SegmentOfStream DEF PeerSentOk
  <2>4. ack_number' = PeerSeq(c, m + 1)
    <3>1. ack_number = PeerSeq(c, n + 1)
      BY <1>3, <2>1, <2>3 DEF AckOfFin
    <3>2. ack_number' = SeqAdd(ack_number, p.len)
      BY DEF DataSegment
    <3> HIDE DEF n, m
    <3>3. /\ n + 1 \in Nat /\ n + 1 + p.len \in 0 .. PeerLen + 2
          /\ n + 1 + p.len = m + 1
      BY <2>1, <2>2
    <3> QED
      BY <2>1, <2>2, <3>1, <3>2, <3>3, PeerSeqAdd
  <2>5. SeqSub(ack_number', PeerSeq(c, 1)) <= m + eof'[c]
    <3> HIDE DEF n, m
    <3>1. m \in 0 .. PeerLen + 1
      BY <2>1
    <3>2. SeqSub(ack_number', PeerSeq(c, 1)) = m
      BY <2>1, <2>4, <3>1, PeerSeqSub
    <3> QED
      BY <2>1, <3>2
  <2>6. \A q \in toPeer : Acknowledged(c, q.ack) =>
          SeqSub(q.ack, PeerSeq(c, 1)) <= m + eof'[c]
    BY <2>1, <2>2, AcknowledgedKept DEF TypeOK, TcpTypeOK, Segment
  <2>7. r.ack = ack_number'
    BY DEF Bare
  <2> HIDE DEF r
  <2>8. AcksOk(c)'
    BY <1>1, <2>3, <2>5, <2>6, <2>7
    DEF AcksOk, Acknowledged, PeerSeq, AckFieldKept, NoSynDeclined, NoResetEchoed
  <2>9. EndedOk(c)' /\ AckOfFin(c)' /\ AckFieldOk(c)' /\ EofOk(c)'
    BY <1>1, <2>1, <2>4, <2>5 DEF EndedOk, AckOfFin, AckFieldOk, EofOk, Acknowledged, PeerSeq
  <2>10. PeerSentOk(c)'
    BY <1>1, <2>3 DEF PeerSentOk, AckFieldKept, NoSynDeclined
  <2> QED
    BY <2>8, <2>9, <2>10
<1> QED
  BY <1>2, <1>3

----------------------------------------------------------------------------
\* The end of file of c is told: the connection is closed, and ack_number may have moved.
LEMMA EofEnd ==
  ASSUME TypeOK, TypeOK', NEW c \in ActiveConns, StreamInv(c), StreamInv(c)', EndInv(c),
         UNCHANGED peerVars, UNCHANGED toHost, UNCHANGED <<tcp_connect, delivered, call>>,
         toPeer \subseteq toPeer', \E q \in toPeer : q.conn = c,
         tcp_connect = c, tcp_state # "closed", tcp_state' = "closed",
         eof' = [eof EXCEPT ![c] = @ + 1],
         tcp_ack_number' = tcp_ack_number \/ tcp_ack_number' = ack_number',
         ack_number' = ack_number \/ ack_number' = PeerSeq(c, Len(delivered[c]) + 2),
         peer_state[c] # "closed",
         ack_number' = ack_number => toPeer' = toPeer,
         \A q \in toPeer' : q \in toPeer \/ q.ack = ack_number',
         AckFieldKept /\ peer_state[c] # "reset" =>
           peer_fin[c] = 1 /\ Len(delivered[c]) = peer_sent[c]
  PROVE  EndInv(c)'
<1> USE DEF EndInv, peerVars
<1> DEFINE n == Len(delivered[c])
<1>1. /\ c \in Conns /\ n \in 0 .. PeerLen /\ PeerLen \in Nat
      /\ eof[c] = 0 /\ eof'[c] = 1
  <2>1. eof[c] = 0
    BY ClientTypes DEF EndedOk
  <2> QED
    BY <2>1, ClientTypes DEF TypeOK, TcpTypeOK, HistoryOK
<1>2. ack_number' # ack_number => SeqSub(ack_number', PeerSeq(c, 1)) <= n + eof'[c]
  <2> SUFFICES ASSUME ack_number' = PeerSeq(c, n + 2)
               PROVE  SeqSub(ack_number', PeerSeq(c, 1)) <= n + eof'[c]
    OBVIOUS
  <2> HIDE DEF n
  <2>1. n + 1 \in 0 .. PeerLen + 1 /\ n + 2 = n + 1 + 1
    BY <1>1
  <2>2. SeqSub(ack_number', PeerSeq(c, 1)) = n + 1
    BY <1>1, <2>1, PeerSeqSub
  <2> QED
    BY <1>1, <2>2
<1>3. \A a \in SeqNo : Acknowledged(c, a) => SeqSub(a, PeerSeq(c, 1)) <= n + eof'[c]
  BY <1>1, AcknowledgedKept
<1>4. AcksOk(c)'
  BY <1>2, <1>3
  DEF AcksOk, Acknowledged, PeerSeq, AckFieldKept, NoSynDeclined, NoResetEchoed, TypeOK,
      TcpTypeOK, Segment
<1>5. AckFieldOk(c)'
  <2> SUFFICES ASSUME NoSynDeclined, InUse(c)'
               PROVE  SeqSub(tcp_ack_number', PeerSeq(c, 1)) <= n + eof'[c]
    BY DEF AckFieldOk, Acknowledged, PeerSeq, NoSynDeclined
  <2>1. InUse(c)
    BY DEF InUse
  <2>2. Acknowledged(c, tcp_ack_number) /\ Acknowledged(c, ack_number)
    BY <2>1, AckNumberOk DEF AckFieldOk
  <2> QED
    BY <1>2, <1>3, <2>2 DEF TypeOK, TcpTypeOK, NumbersOK
<1>6. EndedOk(c)' /\ AckOfFin(c)' /\ EofOk(c)'
  BY <1>1 DEF EndedOk, AckOfFin, EofOk, AckFieldKept, NoSynDeclined
<1>7. PeerSentOk(c)'
  BY DEF PeerSentOk, AckFieldKept, NoSynDeclined
<1> QED
  BY <1>4, <1>5, <1>6, <1>7

\* A segment of c has come: c has been used, and its peer exists.
LEMMA Touched ==
  ASSUME NEW c \in ActiveConns, StreamInv(c), EndInv(c), NEW p \in toHost, p.conn = c
  PROVE  peer_state[c] # "closed" /\ \E q \in toPeer : q.conn = c
BY DEF StreamInv, Untouched, EndInv, PeerSentOk

\* A reset of c: its peer's side is gone.
LEMMA RstEnd ==
  ASSUME TypeOK, TypeOK', NEW c \in ActiveConns, StreamInv(c), StreamInv(c)', EndInv(c),
         UNCHANGED peerVars, NEW p \in toHost, Poll, RstSegment(p)
  PROVE  EndInv(c)'
<1>1. /\ p.conn = tcp_connect /\ tcp_state # "closed" /\ tcp_state' = "closed"
      /\ "RST" \in p.flags
      /\ eof' = [eof EXCEPT ![tcp_connect] = @ + 1]
      /\ UNCHANGED <<toHost, tcp_connect, ack_number, tcp_ack_number, toPeer, delivered, call>>
  BY DEF RstSegment, Current, EofCallback, Poll, cb
<1>2. CASE tcp_connect # c
  <2>1. eof'[c] = eof[c]
    BY <1>1, <1>2, ClientTypes DEF TypeOK, TcpTypeOK, HistoryOK
  <2> QED
    BY <1>1, <1>2, <2>1, OtherEnd
<1>3. CASE tcp_connect = c
  <2>1. AckFieldKept /\ peer_state[c] # "reset" =>
          peer_fin[c] = 1 /\ Len(delivered[c]) = peer_sent[c]
    BY <1>1, <1>3 DEF EndInv, PeerSentOk
  <2>2. peer_state[c] # "closed" /\ \E q \in toPeer : q.conn = c
    BY <1>1, <1>3, Touched
  <2>3. /\ toPeer \subseteq toPeer' /\ toPeer' = toPeer
        /\ \A q \in toPeer' : q \in toPeer \/ q.ack = ack_number'
        /\ eof' = [eof EXCEPT ![c] = @ + 1]
        /\ tcp_ack_number' = tcp_ack_number /\ ack_number' = ack_number
        /\ UNCHANGED toHost /\ UNCHANGED <<tcp_connect, delivered, call>>
        /\ tcp_state # "closed" /\ tcp_state' = "closed"
    BY <1>1, <1>3
  <2> QED
    BY <1>3, <2>1, <2>2, <2>3, EofEnd
<1> QED
  BY <1>2, <1>3

\* The FIN of c: it comes when everything has been delivered.
LEMMA FinEnd ==
  ASSUME TypeOK, TypeOK', NEW c \in ActiveConns, StreamInv(c), StreamInv(c)', EndInv(c),
         UNCHANGED peerVars, NEW p \in toHost, Poll, FinSegment(p)
  PROVE  EndInv(c)'
<1> DEFINE r == Bare(tcp_connect, {"ACK"}, expected_ack_number, ack_number')
<1>1. /\ AckSegment(p) /\ p.conn = tcp_connect /\ p.seq = ack_number
      /\ p.len = 0 /\ "FIN" \in p.flags /\ tcp_state # "closed" /\ tcp_state' = "closed"
      /\ ack_number' = SeqAdd(ack_number, 1) /\ tcp_ack_number' = ack_number'
      /\ eof' = [eof EXCEPT ![tcp_connect] = @ + 1]
      /\ toPeer' = toPeer \cup {r}
      /\ UNCHANGED <<toHost, tcp_connect, delivered, call>>
  BY DEF FinSegment, AckSegment, Current, Expected, Poll, EofCallback, Reply
<1>2. CASE tcp_connect # c
  <2>1. eof'[c] = eof[c]
    BY <1>1, <1>2, ClientTypes DEF TypeOK, TcpTypeOK, HistoryOK
  <2>2. r.conn # c
    BY <1>2 DEF Bare
  <2> HIDE DEF r
  <2> QED
    BY <1>1, <1>2, <2>1, <2>2, OtherEnd
<1>3. CASE tcp_connect = c
  <2> DEFINE n == Len(delivered[c])
  <2>1. /\ c \in Conns /\ n \in 0 .. PeerLen /\ PeerLen \in Nat /\ eof[c] = 0
        /\ peer_sent[c] \in 0 .. PeerLen
    BY <1>1, <1>3, ClientTypes DEF EndInv, EndedOk
  <2>2. ack_number = PeerSeq(c, n + 1)
    <3>1. Est(c)
      BY <1>1, <1>3, SegmentOfStream
    <3> QED
      BY <1>3, <2>1, <3>1 DEF EndInv, AckOfFin
  <2>3. /\ p.seq = PeerSeq(c, p.first) /\ peer_fin[c] = 1 /\ p.first - 1 = peer_sent[c]
        /\ p.first \in Nat
    BY <1>1, <1>3 DEF StreamInv, HostSegments, TypeOK, TcpTypeOK, ToHostOK, Segment
  <2> HIDE DEF n
  <2>4. n = peer_sent[c]
    <3>1. n + 1 \in 0 .. PeerLen + 2 /\ p.first \in 0 .. PeerLen + 2
      BY <2>1, <2>3
    <3>2. p.first = n + 1
      BY <1>1, <2>1, <2>2, <2>3, <3>1, PeerSeqInjective
    <3> QED
      BY <2>1, <2>3, <3>2
  <2>5. ack_number' = PeerSeq(c, n + 2)
    <3>1. n + 1 \in Nat /\ n + 1 + 1 \in 0 .. PeerLen + 2 /\ n + 1 + 1 = n + 2
      BY <2>1
    <3> QED
      BY <1>1, <2>1, <2>2, <3>1, PeerSeqAdd
  <2>6. ack_number' # ack_number
    <3>1. n + 1 \in 0 .. PeerLen + 2 /\ n + 2 \in 0 .. PeerLen + 2 /\ n + 1 # n + 2
      BY <2>1
    <3> QED
      BY <2>1, <2>2, <2>5, <3>1, PeerSeqInjective
  <2>7. r.ack = ack_number'
    BY DEF Bare
  <2> HIDE DEF r
  <2>8. peer_state[c] # "closed" /\ \E q \in toPeer : q.conn = c
    BY <1>1, <1>3, Touched
  <2> QED
    BY <1>1, <1>3, <2>3, <2>4, <2>5, <2>6, <2>7, <2>8, EofEnd DEF n
<1> QED
  BY <1>2, <1>3

\* Every step of the endpoint keeps the end of c.
LEMMA TcpNextEnd ==
  ASSUME TypeOK, TypeOK', NEW c \in ActiveConns, IInv, StreamInv(c)', EndInv(c), ClientOnly,
         ClientControl, StrangersOk, TcpNext, UNCHANGED peerVars
  PROVE  EndInv(c)'
<1>1. StreamInv(c) /\ SendOk
  BY DEF IInv
<1>2. ~TcpListen
  BY DEF TcpListen, StartCall, ClientOnly
<1>3. ASSUME NEW p \in toHost, TcpProcess(p)
      PROVE  EndInv(c)'
  <2>1. ~SynAccepted(p)
    BY DEF SynAccepted, ForListenPort, ClientControl
  <2> QED
    BY <1>1, <1>3, <2>1, QuietHandlersEnd, SynAckEnd, DataEnd, RstEnd, FinEnd DEF TcpProcess
<1> QED
  BY <1>1, <1>2, <1>3, CallsEnd, ConnectEnd DEF TcpNext

----------------------------------------------------------------------------
\* A segment that PeerSentOk admits after the step.
FromPeerOk(c, q) ==
  /\ peer_state'[c] # "closed"
  /\ q.len <= PeerMss
  /\ "RST" \in q.flags => q.id \in RstIds
  /\ "RST" \in q.flags /\ AckFieldKept => peer_state'[c] = "reset"

\* A step of the peers, of c's or of another.
LEMMA PeerEnd ==
  ASSUME NEW c \in ActiveConns, EndInv(c),
         UNCHANGED <<tcp_state, cb, timer, caller, toPeer, history>>,
         peer_state'[c] = "closed" => peer_state[c] = "closed",
         peer_state[c] = "reset" => peer_state'[c] = "reset",
         peer_fin[c] = 1 => peer_fin'[c] = 1 /\ peer_sent'[c] = peer_sent[c],
         \A q \in toHost' : q \in toHost \/ q.conn # c \/ FromPeerOk(c, q)
  PROVE  EndInv(c)'
<1> USE DEF EndInv, cb, caller, history
<1>1. InUse(c)' <=> InUse(c)
  BY DEF InUse
<1>2. Est(c)' <=> Est(c)
  BY DEF Est, PeerSeq
<1>3. EndedOk(c)' /\ AckOfFin(c)' /\ AckFieldOk(c)'
  BY <1>1, <1>2 DEF EndedOk, AckOfFin, AckFieldOk, Acknowledged, PeerSeq, NoSynDeclined
<1>4. AcksOk(c)'
  BY DEF AcksOk, Acknowledged, PeerSeq, AckFieldKept, NoSynDeclined, NoResetEchoed
<1>5. PeerSentOk(c)'
  BY <1>1 DEF PeerSentOk, FromPeerOk, AckFieldKept, NoSynDeclined
<1>6. EofOk(c)'
  BY DEF EofOk, AckFieldKept, NoSynDeclined
<1> QED
  BY <1>3, <1>4, <1>5, <1>6

\* A peer that has not been acknowledged does not reset us: all we send it acknowledges
\* its SYN, unless the ACK field has been spoiled.
LEMMA NoEarlyReset ==
  ASSUME TypeOK, NEW c \in ActiveConns, StreamInv(c), EndInv(c),
         NEW p \in toPeer, p.conn = c, PeerUnknown(p)
  PROVE  /\ peer_state[c] # "closed"
         /\ AckFieldKept => peer_state[c] = "reset"
<1> USE DEF EndInv
<1>1. "ACK" \in p.flags /\ "RST" \notin p.flags
  BY DEF PeerUnknown
<1>2. peer_state[c] # "closed"
  BY <1>1 DEF AcksOk
<1>3. ASSUME AckFieldKept, peer_state[c] # "reset" PROVE FALSE
  <2>1. peer_state[c] = "syn_rcvd" /\ ~AckOk(p)
    BY <1>2, <1>3 DEF PeerUnknown, StreamInv, PeerOk
  <2>2. /\ peer_sent[c] = 0 /\ peer_fin[c] = 0 /\ Len(delivered[c]) = 0
        /\ eof[c] = 0
    BY <1>3, <2>1, ClientTypes DEF StreamInv, PeerOk, EofOk
  <2>3. Acknowledged(c, p.ack)
    BY <1>1, <1>3 DEF AcksOk
  <2>4. SeqSub(p.ack, PeerSeq(c, 1)) <= 0
    BY <2>2, <2>3 DEF Acknowledged
  <2> QED
    BY <2>1, <2>2, <2>4 DEF AckOk, PeerSeq
<1> QED
  BY <1>2, <1>3

\* A segment of ours taken by the peer of c.
LEMMA PeerProcessEnd ==
  ASSUME TypeOK, NEW c \in ActiveConns, StreamInv(c), EndInv(c),
         UNCHANGED <<tcp_state, cb, timer, caller, toPeer, history>>,
         NEW p \in toPeer, p.conn = c, PeerProcess(p)
  PROVE  EndInv(c)'
<1>1. /\ c \in Conns /\ PeerMss \in Nat
      /\ peer_state \in [Conns -> {"closed", "syn_sent", "syn_rcvd", "established", "reset"}]
  BY ClientTypes
<1>2. UNCHANGED <<peer_sent, peer_fin>>
  BY DEF PeerProcess, PeerAccept, PeerRefuse, PeerEstablished, PeerReceive, PeerChallenge,
         PeerUnknown, PeerIsReset, peerVars
<1>3. ~PeerEstablished(p)
  BY DEF StreamInv, PeerOk, PeerEstablished
<1>4. /\ peer_state'[c] # "closed"
      /\ peer_state[c] = "reset" => peer_state'[c] = "reset"
  <2>1. CASE PeerUnknown(p)
    BY <2>1, NoEarlyReset DEF PeerUnknown, peerVars
  <2> QED
    BY <1>1, <1>3, <2>1
    DEF PeerProcess, PeerAccept, PeerRefuse, PeerReceive, PeerChallenge, PeerIsReset, peerVars
<1>5. /\ PeerAck(c).len = 0 /\ PeerAck(c).flags = {"ACK"}
  BY DEF PeerAck, PeerBare, PeerSegment
<1>6. \A q \in toHost' : q \in toHost \/ FromPeerOk(c, q)
  <2>1. CASE PeerAccept(p)
    <3> DEFINE r == [PeerBare(c, {"SYN", "ACK"}, PeerIsn[c]) EXCEPT !.ack = SeqAdd(p.seq, 1)]
    <3>1. toHost' = toHost \cup {r}
      BY <2>1 DEF PeerAccept, PeerSends
    <3>2. r.len = 0 /\ "RST" \notin r.flags
      BY DEF PeerBare, PeerSegment
    <3> HIDE DEF r
    <3> QED
      BY <1>1, <1>4, <3>1, <3>2 DEF FromPeerOk
  <2>2. CASE PeerRefuse(p)
    <3>1. peer_state'[c] = "reset"
      BY <1>1, <2>2 DEF PeerRefuse
    <3>2. \E id \in RstIds :
            toHost' = toHost \cup {PeerSegment(c, {"RST", "ACK"}, 0, 0, 0, id)}
      BY <2>2 DEF PeerRefuse, PeerSends
    <3> QED
      BY <1>1, <3>1, <3>2 DEF FromPeerOk, PeerSegment
  <2>3. CASE PeerReceive(p) \/ PeerChallenge(p)
    <3>1. \A q \in toHost' : q \in toHost \/ q = PeerAck(c)
      BY <2>3 DEF PeerReceive, PeerChallenge, PeerSends
    <3> QED
      BY <1>1, <1>4, <1>5, <3>1 DEF FromPeerOk
  <2>4. CASE PeerUnknown(p)
    <3>1. AckFieldKept => peer_state'[c] = "reset"
      BY <1>4, <2>4, NoEarlyReset
    <3>2. \E id \in RstIds : toHost' = toHost \cup {PeerSegment(c, {"RST"}, 0, 0, 0, id)}
      BY <2>4 DEF PeerUnknown, PeerSends
    <3> QED
      BY <1>1, <1>4, <3>1, <3>2 DEF FromPeerOk, PeerSegment
  <2> QED
    BY <1>3, <2>1, <2>2, <2>3, <2>4 DEF PeerProcess, PeerIsReset
<1> QED
  BY <1>2, <1>4, <1>6, PeerEnd

\* The peer of c writes or gives up.
LEMMA PeerActsEnd ==
  ASSUME TypeOK, NEW c \in ActiveConns, StreamInv(c), EndInv(c),
         UNCHANGED <<tcp_state, cb, timer, caller, toPeer, history>>,
         \/ PeerAbort(c)
         \/ \E first \in 1 .. PeerLen + 1, last \in 0 .. PeerLen, fin \in {0, 1} :
              PeerWrite(c, first, last, fin)
  PROVE  EndInv(c)'
<1>1. /\ c \in Conns /\ PeerMss \in Nat /\ PeerLen \in Nat /\ peer_sent[c] \in 0 .. PeerLen
      /\ peer_state \in [Conns -> {"closed", "syn_sent", "syn_rcvd", "established", "reset"}]
  BY ClientTypes
<1>2. CASE PeerAbort(c)
  <2>1. /\ peer_state'[c] = "reset" /\ UNCHANGED <<peer_sent, peer_fin>>
        /\ \E id \in RstIds :
             toHost' = toHost \cup {PeerSegment(c, {"RST", "ACK"}, PeerSndNxt(c), 0, 0, id)}
    BY <1>1, <1>2 DEF PeerAbort, PeerSends
  <2>2. \A q \in toHost' : q \in toHost \/ FromPeerOk(c, q)
    BY <1>1, <2>1 DEF FromPeerOk, PeerSegment
  <2> QED
    BY <2>1, <2>2, PeerEnd
<1>3. ASSUME NEW first \in 1 .. PeerLen + 1, NEW last \in 0 .. PeerLen, NEW fin \in {0, 1},
             PeerWrite(c, first, last, fin)
      PROVE  EndInv(c)'
  <2> DEFINE r == PeerSegment(c, IF fin = 1 THEN {"FIN", "ACK"} ELSE {"ACK"},
                              PeerSeq(c, first), first, last - first + 1, "other")
  <2>1. /\ peer_state[c] = "established" /\ peer_state' = peer_state
        /\ last - first + 1 <= PeerMss /\ toHost' = toHost \cup {r}
        /\ peer_sent'[c] = IF last > peer_sent[c] THEN last ELSE peer_sent[c]
        /\ peer_fin'[c] = IF fin = 1 THEN 1 ELSE peer_fin[c]
        /\ peer_fin[c] = 1 => last <= peer_sent[c]
    BY <1>1, <1>3 DEF PeerWrite, PeerSends, TypeOK, PeerTypeOK
  <2>2. r.len = last - first + 1 /\ "RST" \notin r.flags
    BY DEF PeerSegment
  <2> HIDE DEF r
  <2>3. \A q \in toHost' : q \in toHost \/ FromPeerOk(c, q)
    BY <2>1, <2>2 DEF FromPeerOk
  <2>4. peer_fin[c] = 1 => peer_fin'[c] = 1 /\ peer_sent'[c] = peer_sent[c]
    BY <1>1, <2>1
  <2> QED
    BY <2>1, <2>3, <2>4, PeerEnd
<1> QED
  BY <1>2, <1>3

\* Every step of a peer keeps the end of c.
LEMMA PeerNextEnd ==
  ASSUME TypeOK, NEW c \in ActiveConns, StreamInv(c), EndInv(c), PeerNext,
         UNCHANGED <<tcp_state, cb, timer, caller, toPeer, history>>
  PROVE  EndInv(c)'
<1>1. c \in Conns
  BY ClientTypes
<1>2. PICK d \in Conns : PeerStep(d)
  BY PeerNextSteps
<1>3. CASE c # d
  BY <1>1, <1>2, <1>3, OtherPeer, PeerSendsOwn, PeerEnd
<1>4. CASE c = d
  <2>1. ~PeerConnect(d)
    BY <1>4 DEF PeerConnect, ActiveConns
  <2> QED
    BY <1>2, <1>4, <2>1, PeerActsEnd, PeerProcessEnd DEF PeerStep
<1> QED
  BY <1>3, <1>4

----------------------------------------------------------------------------
\* A client never listens, and tcp_send's length is that of its call.
LEMMA ControlKept ==
  ASSUME TypeOK, ClientOnly, ClientControl, [Next]_vars
  PROVE  ClientControl'
<1> USE DEF ClientControl
<1>1. CASE UNCHANGED <<tcp_state, tcp_listen_port, tcp_connect, call, send_len>>
  BY <1>1
<1>2. CASE TcpNext
  <2>1. ASSUME NEW p \in toHost, TcpProcess(p) PROVE ClientControl'
    <3>1. ~SynAccepted(p)
      BY DEF SynAccepted, ForListenPort
    <3> QED
      BY <2>1, <3>1
      DEF TcpProcess, Poll, RstSegment, EchoedRst, IgnoredRst, SynAckExpected,
          SynAckRepeated, NotOurs, DataSegment, OutOfOrder, PureAck, FinSegment, SynIgnored,
          SynDeclined, AckCurrent, Ignored, cb
  <2>2. CASE \/ \E c \in Conns : TcpConnect(c)
             \/ TcpListen \/ \E len \in SendLens : TcpSend(len)
             \/ TcpClose \/ TcpCloseNotEstablished \/ TcpSendKeepAlive
    BY <2>2
    DEF TcpConnect, TcpListen, TcpSend, TcpClose, TcpCloseNotEstablished,
        TcpSendKeepAlive, StartCall, caller, cb, ClientOnly
  <2>3. CASE \/ Abort \/ CallReturns \/ KeepPolling \/ TickDelay \/ TickResend
             \/ TickTimeout \/ NoSegment
    BY <2>3
    DEF Abort, CallReturns, ConnectReturns, ListenReturns, SendReturns, CloseReturns,
        KeepPolling, TickDelay, TickResend, TickTimeout, NoSegment, Return, Poll, cb
  <2> QED
    BY <1>2, <2>1, <2>2, <2>3 DEF TcpNext
<1> QED
  BY <1>1, <1>2 DEF Next, vars, tcpVars, cb, caller

\* What the endpoint adds to toPeer belongs to its connection or is a reset.
LEMMA SentToCurrent ==
  ASSUME TypeOK, ClientControl, ClientOnly, TcpNext, NEW q \in toPeer', q \notin toPeer
  PROVE  q.conn \notin ListenConns \/ "RST" \in q.flags
<1>1. ASSUME NEW p \in toHost, TcpProcess(p)
      PROVE  q.conn = tcp_connect \/ "RST" \in q.flags
  <2>1. ~SynAccepted(p)
    BY DEF SynAccepted, ForListenPort, ClientControl
  <2> QED
    BY <1>1, <2>1
    DEF TcpProcess, RstSegment, EchoedRst, IgnoredRst, SynAckExpected, SynAckRepeated,
        NotOurs, DataSegment, OutOfOrder, PureAck, FinSegment, SynIgnored, SynDeclined,
        AckCurrent, Ignored, Reply, Rst, Ack, Bare
<1>2. ASSUME NEW c \in Conns, TcpConnect(c) PROVE q.conn \notin ListenConns
  BY <1>2 DEF TcpConnect, Transmit, Syn, Bare
<1>3. ASSUME NEW len \in SendLens, TcpSend(len) PROVE q.conn = tcp_connect
  BY <1>3 DEF TcpSend, Transmit, Data
<1>4. CASE TcpClose \/ TcpSendKeepAlive
  <2>1. Fin.conn = tcp_connect /\ Ack.conn = tcp_connect
    BY DEF Fin, Ack, Bare
  <2>2. q \in {Fin, Ack}
    BY <1>4 DEF TcpClose, TcpSendKeepAlive, Transmit, Reply
  <2> QED
    BY <2>1, <2>2 DEF ClientControl
<1>5. CASE TickResend
  <2> DEFINE p == CASE call = "connect" -> Syn(tcp_connect)
                    [] call = "send" -> Data(send_len)
                    [] OTHER -> Fin
  <2>1. p.conn = tcp_connect
    BY DEF Syn, Data, Fin, Bare
  <2>2. Transmit(p, tcp_packet_sent_count + 1)
    BY <1>5 DEF TickResend
  <2> HIDE DEF p
  <2> QED
    BY <2>1, <2>2 DEF Transmit, ClientControl
<1>6. CASE \/ TcpListen \/ TcpCloseNotEstablished \/ Abort \/ CallReturns \/ KeepPolling
           \/ TickDelay \/ TickTimeout \/ NoSegment
  BY <1>6
  DEF TcpListen, TcpCloseNotEstablished, Abort, CallReturns, ConnectReturns, ListenReturns,
      SendReturns, CloseReturns, KeepPolling, TickDelay, TickTimeout, NoSegment, Ignored
<1> QED
  BY <1>1, <1>2, <1>3, <1>4, <1>5, <1>6 DEF TcpNext, ClientControl

\* No step adds a segment of a stranger, nor answers a port nobody listens on otherwise
\* than by a reset.
LEMMA StrangersKept ==
  ASSUME TypeOK, ClientOnly, ClientControl, StrangersOk, [Next]_vars
  PROVE  StrangersOk'
<1> USE DEF StrangersOk
<1>1. CASE TcpNext /\ UNCHANGED peerVars
  <2>1. UNCHANGED toHost
    BY <1>1
    DEF TcpNext, TcpConnect, TcpListen, TcpSend, TcpClose, TcpCloseNotEstablished,
        TcpSendKeepAlive, Abort, CallReturns, ConnectReturns, ListenReturns, SendReturns,
        CloseReturns, KeepPolling, TickDelay, TickResend, TickTimeout, NoSegment,
        TcpProcess, Poll
  <2> QED
    BY <1>1, <2>1, SentToCurrent
<1>2. CASE PeerNext /\ UNCHANGED <<tcp_state, cb, timer, caller, toPeer, history>>
  <2>1. PICK d \in Conns : PeerStep(d)
    BY <1>2, PeerNextSteps
  <2>2. \A q \in toHost' : q \in toHost \/ q.conn = d
    BY <2>1, PeerSendsOwn
  <2> QED
    BY <1>2, <2>2, ConnAssumption
<1>3. CASE UNCHANGED vars
  BY <1>3 DEF vars, tcpVars
<1> QED
  BY <1>1, <1>2, <1>3 DEF Next

----------------------------------------------------------------------------
\* The invariant of a client holds initially.
LEMMA ClientInit == Init => ClientInv
<1> SUFFICES ASSUME Init PROVE ClientInv
  OBVIOUS
<1>1. IInv
  BY IInvInit
<1>2. ClientControl /\ StrangersOk
  BY ConnAssumption DEF Init, TcpInit, ClientControl, StrangersOk
<1>3. ASSUME NEW c \in ActiveConns PROVE EndInv(c)
  <2>1. c \in Conns /\ c # Stranger /\ c # NoConn
    BY ConnAssumption DEF ActiveConns
  <2> QED
    BY <2>1, StrayAssumption
    DEF Init, TcpInit, EndInv, EndedOk, AckOfFin, AcksOk, AckFieldOk, PeerSentOk, EofOk, InUse
<1> QED
  BY <1>1, <1>2, <1>3 DEF ClientInv

\* Every step keeps it.
LEMMA ClientKept == TypeOK /\ ClientInv /\ [Next]_vars => ClientInv'
<1> SUFFICES ASSUME TypeOK, ClientInv, [Next]_vars PROVE ClientInv'
  OBVIOUS
<1>1. TypeOK' /\ IInv /\ IInv'
  BY NextType, IInvKept DEF ClientInv
<1>2. SUFFICES ASSUME ClientOnly
               PROVE  ClientControl' /\ StrangersOk' /\ \A c \in ActiveConns : EndInv(c)'
  BY <1>1 DEF ClientInv, ClientOnly, ActiveConns
<1>3. ClientControl /\ StrangersOk
  BY <1>2 DEF ClientInv
<1>4. ClientControl' /\ StrangersOk'
  BY <1>2, <1>3, ControlKept, StrangersKept
<1>5. ASSUME NEW c \in ActiveConns PROVE EndInv(c)'
  <2>1. StreamInv(c) /\ StreamInv(c)' /\ EndInv(c)
    BY <1>1, <1>2 DEF ClientInv, IInv, ActiveConns
  <2>2. CASE TcpNext /\ UNCHANGED peerVars
    BY <1>1, <1>2, <1>3, <2>1, <2>2, TcpNextEnd
  <2>3. CASE PeerNext /\ UNCHANGED <<tcp_state, cb, timer, caller, toPeer, history>>
    BY <2>1, <2>3, PeerNextEnd
  <2>4. CASE UNCHANGED vars
    BY <2>1, <2>4, PeerEnd DEF vars, tcpVars, peerVars
  <2> QED
    BY <2>2, <2>3, <2>4 DEF Next
<1> QED
  BY <1>4, <1>5

\* The invariant of a client, in every reachable state.
THEOREM ClientInvariant == Spec => [](TypeOK /\ ClientInv)
<1>1. Init => TypeOK /\ ClientInv
  BY InitType, ClientInit
<1>2. TypeOK /\ ClientInv /\ [Next]_vars => (TypeOK /\ ClientInv)'
  BY NextType, ClientKept
<1> QED
  BY <1>1, <1>2, PTL DEF Spec

\* The end of file of a client's connection, unless the peer has reset it, comes once and
\* after all the peer's data (tcp_process @fin), provided no SYN can be declined while
\* tcp_send is used.
THEOREM EndAfterData ==
  ASSUME ClientOnly, AckFieldKept
  PROVE  Spec => []EofAfterAllData
<1>1. TypeOK /\ ClientInv => EofAfterAllData
  BY DEF ClientInv, EndInv, EndedOk, EofOk, EofAfterAllData
<1> QED
  BY <1>1, ClientInvariant, PTL

\* A client's bare ACKs acknowledge what the callback has been given and nothing else,
\* provided no reset echoes the ID of our segments (tcp_process @send_ack).
THEOREM AcksFollowDelivery ==
  ASSUME ClientOnly, NoResetEchoed
  PROVE  Spec => []AckedIsDelivered
<1>1. TypeOK /\ ClientInv => AckedIsDelivered
  <2> SUFFICES ASSUME TypeOK, ClientInv, NEW p \in toPeer, p.conn \in Conns,
                      p.flags = {"ACK"}, p.len = 0
               PROVE  SeqSub(p.ack, PeerSeq(p.conn, 1))
                        <= Len(delivered[p.conn]) + eof[p.conn]
    BY DEF AckedIsDelivered
  <2>1. p.conn \in ActiveConns
    BY DEF ClientInv, StrangersOk, ActiveConns
  <2>2. AcksOk(p.conn)
    BY <2>1 DEF ClientInv, EndInv
  <2> QED
    BY <2>2 DEF AcksOk, Acknowledged
<1> QED
  BY <1>1, ClientInvariant, PTL

----------------------------------------------------------------------------
\* Adding to a sequence number moves it forward by as much.
LEMMA SeqForward ==
  ASSUME NEW a \in SeqNo, NEW n \in SeqNo
  PROVE  SeqSub(SeqAdd(a, n), a) = n
BY SeqModAssumption DEF SeqAdd, SeqSub, SeqNo

\* The current connection of a client that has one is tcp_connect's.
LEMMA CurrentIsActive ==
  ASSUME TypeOK, ClientControl, tcp_state = "established"
  PROVE  tcp_connect \in ActiveConns
BY DEF TypeOK, TcpTypeOK, ControlOK, ClientControl, ActiveConns

\* Only data and the FIN move ack_number on an established connection.
LEMMA AckMoves ==
  ASSUME TypeOK, ClientOnly, ClientControl, [Next]_vars, tcp_state = "established",
         ack_number' # ack_number
  PROVE  \E p \in toHost : DataSegment(p) \/ FinSegment(p)
<1>1. TcpNext
  BY DEF Next, vars, tcpVars, cb
<1>2. ASSUME NEW p \in toHost, TcpProcess(p) PROVE DataSegment(p) \/ FinSegment(p)
  <2>1. ~SynAccepted(p)
    BY DEF SynAccepted, ForListenPort, ClientControl
  <2> QED
    BY <1>2, <2>1
    DEF TcpProcess, RstSegment, EchoedRst, IgnoredRst, SynAckExpected, SynAckRepeated,
        NotOurs, OutOfOrder, PureAck, SynIgnored, SynDeclined, AckCurrent, Ignored, cb
<1>3. ~\/ \E c \in Conns : TcpConnect(c)
       \/ TcpListen \/ \E len \in SendLens : TcpSend(len)
       \/ TcpClose \/ TcpCloseNotEstablished \/ TcpSendKeepAlive
  BY DEF TcpConnect, TcpListen, TcpSend, TcpClose, TcpCloseNotEstablished,
         TcpSendKeepAlive, cb
<1>4. ~\/ Abort \/ CallReturns \/ KeepPolling \/ TickDelay \/ TickResend
       \/ TickTimeout \/ NoSegment
  BY DEF Abort, CallReturns, ConnectReturns, ListenReturns, SendReturns, CloseReturns,
         KeepPolling, TickDelay, TickResend, TickTimeout, NoSegment, cb
<1> QED
  BY <1>1, <1>2, <1>3, <1>4 DEF TcpNext

\* On a client's established connection what we acknowledge never moves backwards, as long
\* as a segment is shorter than half the number space (tcp_connect_ack_number).
THEOREM AcksAdvance ==
  ASSUME ClientOnly, PeerMss <= SeqMod \div 2
  PROVE  Spec => AckNeverRetreats
<1> DEFINE A == tcp_state = "established" /\ tcp_connect' = tcp_connect =>
                  SeqSub(ack_number', ack_number) <= SeqMod \div 2
<1>1. TypeOK /\ ClientInv /\ [Next]_vars => A
  <2> SUFFICES ASSUME TypeOK, ClientInv, [Next]_vars, tcp_state = "established"
               PROVE  SeqSub(ack_number', ack_number) <= SeqMod \div 2
    OBVIOUS
  <2>1. /\ SeqMod \in Nat /\ SeqMod > 1 /\ PeerMss \in Nat /\ ack_number \in SeqNo
        /\ 1 \in SeqNo /\ 1 <= SeqMod \div 2
    BY SeqModAssumption, PeerAssumption DEF TypeOK, TcpTypeOK, NumbersOK, SeqNo
  <2>2. CASE ack_number' = ack_number
    BY <2>1, <2>2 DEF SeqSub, SeqNo
  <2>3. CASE ack_number' # ack_number
    <3>1. PICK p \in toHost : DataSegment(p) \/ FinSegment(p)
      BY <2>3, AckMoves DEF ClientInv
    <3>2. p.conn = tcp_connect
      BY <3>1 DEF DataSegment, FinSegment, AckSegment, Current
    <3>3. p.len \in SeqNo /\ p.len <= PeerMss
      <4>1. tcp_connect \in ActiveConns
        BY CurrentIsActive DEF ClientInv
      <4>2. PeerSentOk(tcp_connect)
        BY <4>1 DEF ClientInv, EndInv
      <4> QED
        BY <3>2, <4>2 DEF PeerSentOk, TypeOK, TcpTypeOK, ToHostOK, Segment
    <3>4. \E n \in {p.len, 1} : ack_number' = SeqAdd(ack_number, n)
      BY <3>1 DEF DataSegment, FinSegment
    <3>5. PICK n \in {p.len, 1} : SeqSub(ack_number', ack_number) = n
      BY <2>1, <3>3, <3>4, SeqForward
    <3> QED
      BY <2>1, <3>3, <3>5 DEF SeqNo
  <2> QED
    BY <2>2, <2>3
<1>2. TypeOK /\ ClientInv /\ [Next]_vars => [A]_cb
  BY <1>1
<1>3. Spec => [][A]_cb
  BY <1>2, ClientInvariant, PTL DEF Spec
<1> QED
  BY <1>3 DEF AckNeverRetreats

----------------------------------------------------------------------------
(* The endpoint and the peers implement the byte stream.                   *)

Aborted == [c \in Conns |-> IF peer_state[c] = "reset" THEN 1 ELSE 0]

\* Initially nothing has been written or read.
LEMMA StreamInit == Init => Stream!Init
BY DEF Init, TcpInit, PeerInit, Stream!Init

\* A peer that leaves "reset" alone at all connections does not abort.
LEMMA NotAborted ==
  ASSUME \A c \in Conns : peer_state'[c] = "reset" <=> peer_state[c] = "reset"
  PROVE  Aborted' = Aborted
BY DEF Aborted

\* A step of the endpoint that the callback does not see.
LEMMA SilentStep ==
  ASSUME UNCHANGED <<delivered, eof>>, UNCHANGED peerVars
  PROVE  UNCHANGED Stream!vars
BY DEF Stream!vars, peerVars

\* A delivery reads the next bytes.
LEMMA DataReads ==
  ASSUME TypeOK, TypeOK', NEW c \in ActiveConns, StreamInv(c), StreamInv(c)', EndInv(c),
         UNCHANGED peerVars, NEW p \in toHost, Poll, DataSegment(p), tcp_connect = c
  PROVE  Stream!Read(c)
<1>1. /\ tcp_state # "closed" /\ p.len > 0
      /\ delivered' = [delivered EXCEPT ![c] = @ \o Bytes(p)]
      /\ UNCHANGED eof
  BY DEF DataSegment, AckSegment, Current
<1> DEFINE n == Len(delivered[c])
           m == Len(delivered'[c])
<1>2. /\ c \in Conns /\ n \in Nat /\ eof[c] = 0 /\ peer_sent[c] \in Nat
      /\ delivered \in [Conns -> Seq(Nat)] /\ delivered' \in [Conns -> Seq(Nat)]
      /\ p \in Segment /\ p.len \in Nat
  BY <1>1, ClientTypes, SeqModAssumption
  DEF EndInv, EndedOk, TypeOK, TcpTypeOK, HistoryOK, ToHostOK, Segment, SeqNo
<1>3. m = n + p.len
  BY <1>1, <1>2, DeliveryLen
<1>4. m <= peer_sent[c] /\ \A i \in 1 .. m : delivered'[c][i] = i
  BY DEF StreamInv, DeliveredOk, peerVars
<1>5. delivered'[c] = [i \in 1 .. m |-> i]
  <2>1. delivered'[c] \in Seq(Nat)
    BY <1>2
  <2>2. DOMAIN delivered'[c] = 1 .. m /\ delivered'[c] = [i \in DOMAIN delivered'[c] |-> delivered'[c][i]]
    BY <2>1
  <2> QED
    BY <1>4, <2>2
<1>6. delivered' = [delivered EXCEPT ![c] = delivered'[c]]
  BY <1>1, <1>2
<1>7. m \in n + 1 .. peer_sent[c]
  BY <1>1, <1>2, <1>3, <1>4
<1>8. \E k \in n + 1 .. peer_sent[c] : delivered' = [delivered EXCEPT ![c] = [i \in 1 .. k |-> i]]
  BY <1>5, <1>6, <1>7
<1> QED
  BY <1>1, <1>2, <1>8 DEF Stream!Read, peerVars

\* A reset or a FIN of the current connection ends its stream.
LEMMA EofEnds ==
  ASSUME TypeOK, NEW c \in ActiveConns, StreamInv(c), EndInv(c), EofOk(c)', AckFieldKept,
         UNCHANGED peerVars, NEW p \in toHost, Poll, RstSegment(p) \/ FinSegment(p),
         tcp_connect = c
  PROVE  Stream!End(c)
<1>1. /\ tcp_state # "closed"
      /\ eof' = [eof EXCEPT ![c] = @ + 1]
      /\ UNCHANGED delivered
  BY DEF RstSegment, FinSegment, AckSegment, Current, EofCallback
<1>2. /\ c \in Conns /\ eof[c] = 0 /\ eof \in [Conns -> Nat]
  BY <1>1, ClientTypes DEF EndInv, EndedOk, TypeOK, TcpTypeOK, HistoryOK
<1>3. eof' = [eof EXCEPT ![c] = 1] /\ eof'[c] > 0
  BY <1>1, <1>2
<1>4. \/ peer_fin[c] = 1 /\ Len(delivered[c]) = peer_sent[c]
      \/ peer_state[c] = "reset"
  BY <1>1, <1>3 DEF EofOk, AckFieldKept, NoSynDeclined, peerVars
<1> QED
  BY <1>1, <1>2, <1>3, <1>4 DEF Stream!End, peerVars

\* Every other step of a client is unseen by the callback.
LEMMA SeenSteps ==
  ASSUME TypeOK, ClientOnly, ClientControl, TcpNext
  PROVE  \/ UNCHANGED <<delivered, eof>>
         \/ \E p \in toHost : Poll /\ (DataSegment(p) \/ RstSegment(p) \/ FinSegment(p))
<1>1. ASSUME NEW p \in toHost, TcpProcess(p)
      PROVE  \/ UNCHANGED <<delivered, eof>>
             \/ Poll /\ (DataSegment(p) \/ RstSegment(p) \/ FinSegment(p))
  <2>1. ~SynAccepted(p)
    BY DEF SynAccepted, ForListenPort, ClientControl
  <2> QED
    BY <1>1, <2>1
    DEF TcpProcess, EchoedRst, IgnoredRst, SynAckExpected, SynAckRepeated, NotOurs,
        OutOfOrder, PureAck, SynIgnored, SynDeclined, AckCurrent, Ignored, history
<1>2. CASE \/ \E c \in Conns : TcpConnect(c)
           \/ TcpListen \/ \E len \in SendLens : TcpSend(len)
           \/ TcpClose \/ TcpCloseNotEstablished \/ TcpSendKeepAlive
  BY <1>2 DEF TcpConnect, TcpListen, TcpSend, TcpClose, TcpCloseNotEstablished,
              TcpSendKeepAlive, history
<1>3. CASE \/ Abort \/ CallReturns \/ KeepPolling \/ TickDelay \/ TickResend
           \/ TickTimeout \/ NoSegment
  BY <1>3 DEF Abort, CallReturns, ConnectReturns, ListenReturns, SendReturns, CloseReturns,
              KeepPolling, TickDelay, TickResend, TickTimeout, NoSegment, history
<1> QED
  BY <1>1, <1>2, <1>3 DEF TcpNext

\* A connection whose segment is processed as the current one was opened by tcp_connect.
LEMMA ProcessedIsActive ==
  ASSUME TypeOK, ClientControl, NEW p \in toHost,
         DataSegment(p) \/ RstSegment(p) \/ FinSegment(p)
  PROVE  tcp_connect \in ActiveConns
<1>1. tcp_state \in {"syn_sent", "established"}
  BY DEF DataSegment, RstSegment, FinSegment, AckSegment, Current, ClientControl, TypeOK,
         TcpTypeOK, ControlOK
<1> QED
  BY <1>1 DEF TypeOK, TcpTypeOK, ControlOK, ClientControl, ActiveConns

\* The steps of the endpoint.
LEMMA TcpRefines ==
  ASSUME TypeOK, TypeOK', ClientInv, ClientInv', ClientOnly, AckFieldKept, TcpNext,
         UNCHANGED peerVars
  PROVE  [Stream!Next]_(Stream!vars)
<1>1. ClientControl
  BY DEF ClientInv
<1>2. CASE UNCHANGED <<delivered, eof>>
  BY <1>2, SilentStep
<1>3. ASSUME NEW p \in toHost, Poll, DataSegment(p) \/ RstSegment(p) \/ FinSegment(p)
      PROVE  \E c \in Conns : Stream!Read(c) \/ Stream!End(c)
  <2> DEFINE c == tcp_connect
  <2>1. c \in ActiveConns /\ c \in Conns
    BY <1>1, <1>3, ProcessedIsActive DEF ActiveConns
  <2> HIDE DEF c
  <2>2. PICK d \in ActiveConns : d = tcp_connect /\ d \in Conns
    BY <2>1 DEF c
  <2>3. StreamInv(d) /\ EndInv(d)
    BY <2>2 DEF ClientInv, IInv
  <2>4. StreamInv(d)' /\ EofOk(d)'
    BY <2>2 DEF ClientInv, IInv, EndInv, ClientOnly, ActiveConns
  <2> QED
    BY <1>3, <2>2, <2>3, <2>4, DataReads, EofEnds
<1> QED
  BY <1>1, <1>2, <1>3, SeenSteps DEF Stream!Next

\* A step of a peer: its application writes, it aborts, or the stream does not see it.
LEMMA PeerRefines ==
  ASSUME TypeOK, TypeOK', UNCHANGED <<delivered, eof>>, NEW d \in Conns, PeerStep(d)
  PROVE  Stream!Write(d) \/ Stream!Abort(d) \/ UNCHANGED Stream!vars
<1>1. /\ peer_state \in [Conns -> {"closed", "syn_sent", "syn_rcvd", "established", "reset"}]
      /\ peer_state' \in [Conns -> {"closed", "syn_sent", "syn_rcvd", "established", "reset"}]
      /\ peer_sent \in [Conns -> 0 .. PeerLen] /\ peer_fin \in [Conns -> {0, 1}]
      /\ PeerLen \in Nat
  BY PeerAssumption DEF TypeOK, PeerTypeOK
<1>2. ASSUME peer_state' = [peer_state EXCEPT ![d] = "reset"],
             UNCHANGED <<peer_sent, peer_fin>>
      PROVE  Stream!Abort(d)
  <2>1. Aborted' = [Aborted EXCEPT ![d] = 1]
    BY <1>1, <1>2 DEF Aborted
  <2> QED
    BY <1>2, <2>1 DEF Stream!Abort, Aborted
<1>3. ASSUME UNCHANGED <<peer_sent, peer_fin>>,
             \/ UNCHANGED peer_state
             \/ /\ peer_state[d] # "reset"
                /\ \E s \in {"syn_sent", "syn_rcvd", "established"} :
                     peer_state' = [peer_state EXCEPT ![d] = s]
      PROVE  UNCHANGED Stream!vars
  <2>1. \A c \in Conns : peer_state'[c] = "reset" <=> peer_state[c] = "reset"
    BY <1>1, <1>3
  <2>2. Aborted' = Aborted
    BY <2>1, NotAborted
  <2> QED
    BY <1>3, <2>2 DEF Stream!vars, Aborted
<1>4. ASSUME NEW first \in 1 .. PeerLen + 1, NEW last \in 0 .. PeerLen, NEW fin \in {0, 1},
             PeerWrite(d, first, last, fin)
      PROVE  Stream!Write(d) \/ UNCHANGED Stream!vars
  <2>1. /\ peer_sent' = [peer_sent EXCEPT ![d] = IF last > @ THEN last ELSE @]
        /\ peer_fin' = [peer_fin EXCEPT ![d] = IF fin = 1 THEN 1 ELSE @]
        /\ peer_fin[d] = 1 => last <= peer_sent[d]
        /\ UNCHANGED peer_state
    BY <1>4 DEF PeerWrite
  <2>2. CASE peer_fin[d] = 1
    <3>1. peer_sent' = peer_sent /\ peer_fin' = peer_fin
      BY <1>1, <2>1, <2>2
    <3> QED
      BY <1>3, <2>1, <3>1
  <2>3. CASE peer_fin[d] = 0
    <3>1. /\ peer_sent' = [peer_sent EXCEPT ![d] = peer_sent'[d]]
          /\ peer_sent'[d] \in Nat /\ peer_sent'[d] >= peer_sent[d]
          /\ \E f \in {0, 1} : peer_fin' = [peer_fin EXCEPT ![d] = f]
      <4>1. peer_sent'[d] = IF last > peer_sent[d] THEN last ELSE peer_sent[d]
        BY <1>1, <2>1
      <4>2. /\ peer_sent' = [peer_sent EXCEPT ![d] = peer_sent'[d]]
            /\ \E f \in {0, 1} : peer_fin' = [peer_fin EXCEPT ![d] = f]
        BY <1>1, <2>1, <2>3, <4>1
      <4>3. peer_sent[d] \in 0 .. PeerLen
        BY <1>1
      <4>4. peer_sent'[d] \in Nat /\ peer_sent'[d] >= peer_sent[d]
        BY <1>1, <4>1, <4>3
      <4> QED
        BY <4>2, <4>4
    <3>2. Aborted' = Aborted
      BY <2>1, NotAborted
    <3> QED
      BY <2>1, <2>3, <3>1, <3>2 DEF Stream!Write, Aborted
  <2> QED
    BY <1>1, <2>2, <2>3
<1>5. ASSUME NEW p \in toPeer, p.conn = d, PeerProcess(p)
      PROVE  Stream!Abort(d) \/ UNCHANGED Stream!vars
  <2>1. CASE PeerRefuse(p) \/ PeerIsReset(p)
    BY <1>2, <1>5, <2>1 DEF PeerRefuse, PeerIsReset
  <2>2. CASE PeerAccept(p) \/ PeerEstablished(p) \/ PeerReceive(p)
    BY <1>3, <1>5, <2>2 DEF PeerAccept, PeerEstablished, PeerReceive
  <2>3. CASE PeerChallenge(p) \/ PeerUnknown(p)
    BY <1>3, <2>3 DEF PeerChallenge, PeerUnknown, peerVars
  <2> QED
    BY <1>5, <2>1, <2>2, <2>3 DEF PeerProcess
<1>6. CASE PeerConnect(d)
  BY <1>3, <1>6 DEF PeerConnect
<1>7. CASE PeerAbort(d)
  BY <1>2, <1>7 DEF PeerAbort
<1> QED
  BY <1>4, <1>5, <1>6, <1>7 DEF PeerStep

\* Towards the callback of a client, tcp_process and the peers implement the byte stream:
\* what is read is what has been written, in order and once, then one end of file that
\* means the end of the data or a reset; provided no SYN can be declined while tcp_send
\* is used.
THEOREM ClientStream ==
  ASSUME ClientOnly, AckFieldKept
  PROVE  Spec => ImplementsByteStream
<1>1. Init => Stream!Init
  BY StreamInit
<1>2. (TypeOK /\ ClientInv) /\ (TypeOK /\ ClientInv)' /\ [Next]_vars
        => [Stream!Next]_(Stream!vars)
  <2> SUFFICES ASSUME TypeOK, ClientInv, TypeOK', ClientInv', [Next]_vars
               PROVE  [Stream!Next]_(Stream!vars)
    OBVIOUS
  <2>1. CASE TcpNext /\ UNCHANGED peerVars
    BY <2>1, TcpRefines
  <2>2. CASE PeerNext /\ UNCHANGED <<tcp_state, cb, timer, caller, toPeer, history>>
    <3>1. PICK d \in Conns : PeerStep(d)
      BY <2>2, PeerNextSteps
    <3> QED
      BY <2>2, <3>1, PeerRefines DEF Stream!Next, history
  <2>3. CASE UNCHANGED vars
    BY <2>3, SilentStep DEF vars, tcpVars, history
  <2> QED
    BY <2>1, <2>2, <2>3 DEF Next
<1> QED
  BY <1>1, <1>2, ClientInvariant, PTL DEF Spec, ImplementsByteStream, Stream!Spec
=============================================================================
