---------------------------- MODULE TcpDelivery ----------------------------
(***************************************************************************)
(* First, type correctness of TcpSystem, for every value of its constants: *)
(* TypeOK is inductive.                                                    *)
(*                                                                         *)
(* Then in-order, exactly-once delivery on connections opened by           *)
(* tcp_connect: IInv is inductive.  At the end, the connections tcp_listen *)
(* accepted, where a byte may come again and none is skipped: AcceptedInv  *)
(* is inductive.                                                           *)
(*                                                                         *)
(* An endpoint step leaves the peers and toHost alone and only adds to     *)
(* toPeer; most keep ack_number too (EndpointQuiet).  The five that do not *)
(* are proved one by one: TcpConnect and the handlers that move ack_number.*)
(***************************************************************************)
EXTENDS TcpInvariant, SequenceTheorems, TLAPS

(* Types. *)

\* Modular addition stays among the sequence numbers.
LEMMA SeqAddType ==
  ASSUME NEW a \in SeqNo, NEW b \in 0 .. SeqMod
  PROVE  SeqAdd(a, b) \in SeqNo
BY SeqModAssumption DEF SeqAdd, SeqNo

\* So does subtraction.
LEMMA SeqSubType ==
  ASSUME NEW a \in SeqNo, NEW b \in SeqNo
  PROVE  SeqSub(a, b) \in SeqNo /\ SeqSub(a, b) \in Nat
BY SeqModAssumption DEF SeqSub, SeqNo

\* Segments without data are segments.
LEMMA BareType ==
  ASSUME NEW c \in AllConns, NEW f \in SUBSET Flags, NEW s \in SeqNo, NEW a \in SeqNo
  PROVE  Bare(c, f, s, a) \in Segment
BY SeqModAssumption DEF Bare, Segment, SeqNo

\* Zero is a sequence number, and every sequence number can be added.
LEMMA ZeroSeqNo == 0 \in SeqNo /\ 1 \in 0 .. SeqMod /\ SeqNo \subseteq 0 .. SeqMod
BY SeqModAssumption DEF SeqNo

\* What tcp_process hands to the callback is a sequence of bytes.
LEMMA BytesType ==
  ASSUME NEW p \in Segment
  PROVE  Bytes(p) \in Seq(Nat) /\ Len(Bytes(p)) = p.len
<1>1. p.len \in Nat /\ p.first \in Nat
  BY SeqModAssumption DEF Segment, SeqNo
<1>2. \A i \in 1 .. p.len : p.first + i - 1 \in Nat
  BY <1>1
<1> QED
  BY <1>1, <1>2, IsASeq DEF Bytes

\* The initial state is well typed.
LEMMA InitType == Init => TypeOK
<1> SUFFICES ASSUME Init PROVE TypeOK
  OBVIOUS
<1>1. 0 \in SeqNo /\ <<>> \in Seq(Nat)
  BY ZeroSeqNo
<1>2. TcpTypeOK
  BY <1>1, StrayAssumption, ConnAssumption, MaxSentAssumption
  DEF Init, TcpInit, TcpTypeOK, ControlOK, NumbersOK, TimerOK, HistoryOK, ToHostOK
<1>3. PeerTypeOK
  BY <1>1, PeerAssumption DEF Init, PeerInit, PeerTypeOK
<1> QED
  BY <1>2, <1>3 DEF TypeOK

----------------------------------------------------------------------------
\* tcp_send_packet and the loop count, for the segments the calls retransmit.
LEMMA TransmitType ==
  ASSUME NEW p \in Segment, NEW n \in 0 .. MAX_TCP_PACKETS_SENT - 1,
         toPeer \subseteq Segment, Transmit(p, n)
  PROVE  /\ toPeer' \subseteq Segment
         /\ tcp_packet_sent_count' = n
         /\ tcp_loop_count' \in 0 .. MAX_TCP_PACKETS_SENT + 1
BY SendAssumption, MaxSentAssumption DEF Transmit

\* The segments the calls transmit.
LEMMA CallSegmentTypes ==
  ASSUME TypeOK
  PROVE  /\ \A c \in Conns : Syn(c) \in Segment
         /\ tcp_connect \in Conns => Fin \in Segment /\ Ack \in Segment
         /\ tcp_connect \in Conns =>
              \A len \in {0} \cup SendLens : Data(len) \in Segment
<1>1. Conns \subseteq AllConns /\ {"SYN"} \in SUBSET Flags /\ {"ACK"} \in SUBSET Flags
      /\ {"FIN", "ACK"} \in SUBSET Flags
  BY DEF AllConns, Flags
<1>2. /\ sequence_number \in SeqNo /\ ack_number \in SeqNo /\ tcp_ack_number \in SeqNo
      /\ expected_ack_number \in SeqNo
  BY DEF TypeOK, TcpTypeOK, NumbersOK
<1>3. \A c \in Conns : Syn(c) \in Segment
  BY <1>1, BareType, ZeroSeqNo, IsnAssumption DEF Syn
<1>4. tcp_connect \in Conns => Fin \in Segment /\ Ack \in Segment
  BY <1>1, <1>2, BareType DEF Fin, Ack
<1>5. ASSUME tcp_connect \in Conns, NEW len \in {0} \cup SendLens
      PROVE  Data(len) \in Segment
  <2>1. acked[tcp_connect] + 1 \in Nat
    BY <1>5 DEF TypeOK, TcpTypeOK, HistoryOK
  <2>2. len \in SeqNo
    BY SendAssumption, SeqModAssumption DEF SeqNo
  <2> QED
    BY <1>1, <1>2, <1>5, <2>1, <2>2 DEF Data, Segment
<1> QED
  BY <1>3, <1>4, <1>5

\* What no call touches stays well typed.
LEMMA SameTypes ==
  /\ ControlOK /\ UNCHANGED <<tcp_state, tcp_connect, tcp_listen_port, call, send_len>>
     /\ phase' \in {"poll", "check"} => ControlOK'
  /\ NumbersOK /\ UNCHANGED <<sequence_number, expected_ack_number, ack_number, last_ack,
                              tcp_ack_number, tcp_fin_sent>> => NumbersOK'
  /\ TimerOK /\ UNCHANGED <<tcp_state, timer, call>> => TimerOK'
  /\ HistoryOK /\ UNCHANGED history => HistoryOK'
  /\ ToHostOK /\ UNCHANGED toHost => ToHostOK'
  /\ PeerTypeOK /\ UNCHANGED peerVars => PeerTypeOK'
BY DEF ControlOK, NumbersOK, TimerOK, HistoryOK, ToHostOK, PeerTypeOK, timer, history, peerVars

\* The application's calls preserve the types.
LEMMA ConnectType ==
  ASSUME TypeOK, UNCHANGED peerVars, NEW c \in Conns, TcpConnect(c)
  PROVE  TypeOK'
<1>1. Transmit(Syn(c), 0)
  BY DEF TcpConnect
<1>2. Syn(c) \in Segment /\ 0 \in 0 .. MAX_TCP_PACKETS_SENT - 1
  BY CallSegmentTypes, MaxSentAssumption
<1>3. /\ toPeer' \subseteq Segment
      /\ tcp_packet_sent_count' = 0
      /\ tcp_loop_count' \in 0 .. MAX_TCP_PACKETS_SENT + 1
  BY <1>1, <1>2, TransmitType DEF TypeOK, TcpTypeOK
<1>4. ControlOK'
  BY DEF TcpConnect, StartCall, ControlOK, TypeOK, TcpTypeOK
<1>5. NumbersOK'
  BY IsnAssumption DEF TcpConnect, NumbersOK, TypeOK, TcpTypeOK
<1>6. TimerOK'
  BY <1>3, MaxSentAssumption DEF TcpConnect, TimerOK
<1> QED
  BY <1>3, <1>4, <1>5, <1>6, SameTypes DEF TcpConnect, TypeOK, TcpTypeOK

\* Each call of the application, its first packet included, keeps the types.
LEMMA ListenType ==
  ASSUME TypeOK, UNCHANGED peerVars, TcpListen
  PROVE  TypeOK'
<1>1. ControlOK'
  BY DEF TcpListen, StartCall, ControlOK, TypeOK, TcpTypeOK
<1>2. NumbersOK'
  BY IsnAssumption DEF TcpListen, NumbersOK, TypeOK, TcpTypeOK
<1>3. TimerOK'
  BY MaxSentAssumption DEF TcpListen, TimerOK, TypeOK, TcpTypeOK
<1> QED
  BY <1>1, <1>2, <1>3, SameTypes DEF TcpListen, TypeOK, TcpTypeOK

\* tcp_send and tcp_close: a transmission on the established connection.
LEMMA SendType ==
  ASSUME TypeOK, UNCHANGED peerVars, NEW len \in SendLens, TcpSend(len)
  PROVE  TypeOK'
<1>1. Transmit(Data(len), tcp_packet_sent_count) /\ tcp_state = "established"
  BY DEF TcpSend
<1>2. Data(len) \in Segment
  BY <1>1, CallSegmentTypes DEF TypeOK, TcpTypeOK, ControlOK
<1>3. /\ toPeer' \subseteq Segment
      /\ tcp_packet_sent_count' = tcp_packet_sent_count
      /\ tcp_loop_count' \in 0 .. MAX_TCP_PACKETS_SENT + 1
  BY <1>1, <1>2, TransmitType DEF TypeOK, TcpTypeOK, TimerOK
<1>4. ControlOK'
  BY <1>1 DEF TcpSend, StartCall, ControlOK, TypeOK, TcpTypeOK
<1>5. SeqAdd(expected_ack_number, len) \in SeqNo
  BY SeqAddType, SendAssumption, SeqModAssumption DEF TypeOK, TcpTypeOK, NumbersOK
<1>6. NumbersOK'
  BY <1>5 DEF TcpSend, NumbersOK, TypeOK, TcpTypeOK
<1>7. TimerOK'
  BY <1>1, <1>3 DEF TcpSend, TimerOK, TypeOK, TcpTypeOK
<1> QED
  BY <1>3, <1>4, <1>6, <1>7, SameTypes DEF TcpSend, TypeOK, TcpTypeOK

\* The same for tcp_close.
LEMMA CloseType ==
  ASSUME TypeOK, UNCHANGED peerVars, TcpClose
  PROVE  TypeOK'
<1>1. Transmit(Fin, tcp_packet_sent_count) /\ tcp_state = "established"
  BY DEF TcpClose
<1>2. Fin \in Segment
  BY <1>1, CallSegmentTypes DEF TypeOK, TcpTypeOK, ControlOK
<1>3. /\ toPeer' \subseteq Segment
      /\ tcp_packet_sent_count' = tcp_packet_sent_count
      /\ tcp_loop_count' \in 0 .. MAX_TCP_PACKETS_SENT + 1
  BY <1>1, <1>2, TransmitType DEF TypeOK, TcpTypeOK, TimerOK
<1>4. ControlOK'
  BY <1>1 DEF TcpClose, StartCall, ControlOK, TypeOK, TcpTypeOK
<1>5. SeqAdd(expected_ack_number, 1) \in SeqNo
  BY SeqAddType, ZeroSeqNo DEF TypeOK, TcpTypeOK, NumbersOK
<1>6. NumbersOK'
  BY <1>5 DEF TcpClose, NumbersOK, TypeOK, TcpTypeOK
<1>7. TimerOK'
  BY <1>1, <1>3 DEF TcpClose, TimerOK, TypeOK, TcpTypeOK
<1> QED
  BY <1>3, <1>4, <1>6, <1>7, SameTypes DEF TcpClose, TypeOK, TcpTypeOK

\* The same for the calls that do not wait.
LEMMA NoCallType ==
  ASSUME TypeOK, UNCHANGED peerVars, TcpCloseNotEstablished \/ TcpSendKeepAlive
  PROVE  TypeOK'
<1>1. CASE TcpCloseNotEstablished
  <2>1. ControlOK' /\ TimerOK'
    BY <1>1 DEF TcpCloseNotEstablished, ControlOK, TimerOK, TypeOK, TcpTypeOK, cb, timer,
                caller
  <2> QED
    BY <1>1, <2>1, SameTypes DEF TcpCloseNotEstablished, TypeOK, TcpTypeOK, cb
<1>2. CASE TcpSendKeepAlive
  <2>1. Ack \in Segment
    BY <1>2, CallSegmentTypes DEF TcpSendKeepAlive, TypeOK, TcpTypeOK, ControlOK
  <2>2. toPeer' \subseteq Segment
    BY <1>2, <2>1 DEF TcpSendKeepAlive, Reply, TypeOK, TcpTypeOK
  <2>3. ControlOK' /\ NumbersOK' /\ TimerOK'
    BY <1>2 DEF TcpSendKeepAlive, ControlOK, NumbersOK, TimerOK, TypeOK, TcpTypeOK,
                timer, caller
  <2> QED
    BY <1>2, <2>2, <2>3, SameTypes DEF TcpSendKeepAlive, TypeOK, TcpTypeOK
<1> QED
  BY <1>1, <1>2

----------------------------------------------------------------------------
\* The check phase of the polling loops preserves the types.
LEMMA ReturnsType ==
  ASSUME TypeOK, UNCHANGED peerVars, Abort \/ CallReturns \/ KeepPolling
  PROVE  TypeOK'
<1> USE DEF TypeOK, TcpTypeOK
<1>1. TimerOK'
  BY DEF TimerOK, Abort, CallReturns, ConnectReturns, ListenReturns, SendReturns,
         CloseReturns, KeepPolling, Return, Waiting, timer
<1>2. CASE Abort \/ KeepPolling
  <2>1. ControlOK'
    BY <1>2 DEF ControlOK, Abort, KeepPolling, Return, cb
  <2> QED
    BY <1>1, <1>2, <2>1, SameTypes DEF Abort, KeepPolling, cb
<1>3. CASE ConnectReturns \/ CloseReturns
  <2>1. ControlOK'
    BY <1>3 DEF ControlOK, ConnectReturns, CloseReturns, Return, cb
  <2> QED
    BY <1>1, <1>3, <2>1, SameTypes DEF ConnectReturns, CloseReturns, cb
<1>4. CASE ListenReturns
  <2>1. ControlOK'
    BY <1>4 DEF ControlOK, ListenReturns, Return
  <2>2. SeqAdd(sequence_number, 1) \in SeqNo
    BY SeqAddType, ZeroSeqNo DEF NumbersOK
  <2>3. NumbersOK'
    BY <1>4, <2>2 DEF NumbersOK, ListenReturns
  <2> QED
    BY <1>1, <1>4, <2>1, <2>3, SameTypes DEF ListenReturns
<1>5. CASE SendReturns
  <2>1. tcp_connect \in Conns /\ send_len \in Nat /\ send_len \in 0 .. SeqMod
    BY <1>5, SendAssumption, SeqModAssumption DEF ControlOK, SendReturns
  <2>2. ControlOK'
    BY <1>5 DEF ControlOK, SendReturns, Return
  <2>3. SeqAdd(sequence_number, send_len) \in SeqNo
    BY <2>1, SeqAddType DEF NumbersOK
  <2>4. NumbersOK'
    BY <1>5, <2>3 DEF NumbersOK, SendReturns
  <2>5. acked[tcp_connect] + send_len \in Nat
    BY <2>1 DEF HistoryOK
  <2>6. HistoryOK'
    BY <1>5, <2>5 DEF HistoryOK, SendReturns
  <2> QED
    BY <1>1, <1>5, <2>2, <2>4, <2>6, SameTypes DEF SendReturns
<1> QED
  BY <1>2, <1>3, <1>4, <1>5 DEF CallReturns

\* When the timer has moved: transmissions stay left as long as the call goes on.
LEMMA TicksType ==
  ASSUME TypeOK, UNCHANGED peerVars, TickDelay \/ TickResend \/ TickTimeout
  PROVE  TypeOK'
<1> USE DEF TypeOK, TcpTypeOK
<1>1. CASE TickDelay
  <2>1. ControlOK'
    BY <1>1 DEF ControlOK, TickDelay, cb
  <2>2. TimerOK'
    BY <1>1, MaxSentAssumption DEF TimerOK, TickDelay, cb
  <2> QED
    BY <1>1, <2>1, <2>2, SameTypes DEF TickDelay, cb
<1>2. CASE TickResend
  <2>1. tcp_connect \in Conns
    BY <1>2 DEF TickResend, TimerTick, Waiting, ControlOK
  <2> DEFINE p == CASE call = "connect" -> Syn(tcp_connect)
                    [] call = "send" -> Data(send_len)
                    [] OTHER -> Fin
             n == tcp_packet_sent_count + 1
  <2>2. p \in Segment
    BY <2>1, CallSegmentTypes DEF ControlOK
  <2>3. Transmit(p, n)
    BY <1>2 DEF TickResend
  <2>4. n \in 0 .. MAX_TCP_PACKETS_SENT - 1 /\ n < MAX_TCP_PACKETS_SENT - 1
    BY <1>2, MaxSentAssumption DEF TickResend, TransmissionsLeft, TimerOK
  <2> HIDE DEF p, n
  <2>5. /\ toPeer' \subseteq Segment
        /\ tcp_packet_sent_count' = n
        /\ tcp_loop_count' \in 0 .. MAX_TCP_PACKETS_SENT + 1
    BY <2>2, <2>3, <2>4, TransmitType
  <2>6. TimerOK'
    BY <2>4, <2>5 DEF TimerOK
  <2>7. ControlOK'
    BY <1>2 DEF TickResend, ControlOK
  <2>8. NumbersOK'
    BY <1>2 DEF TickResend, NumbersOK
  <2> QED
    BY <1>2, <2>5, <2>6, <2>7, <2>8, SameTypes DEF TickResend
<1>3. CASE TickTimeout
  <2>1. call # "none"
    BY <1>3 DEF TickTimeout, TimerTick, Waiting
  <2>2. TimerOK'
    BY <1>3, <2>1, MaxSentAssumption DEF TickTimeout, Return, TimerOK
  <2>3. ControlOK'
    BY <1>3 DEF TickTimeout, Return, ControlOK, cb
  <2> QED
    BY <1>3, <2>2, <2>3, SameTypes DEF TickTimeout, cb
<1> QED
  BY <1>1, <1>2, <1>3

----------------------------------------------------------------------------
\* A handler of tcp_process that answers with a segment without data.
LEMMA ReplyType ==
  ASSUME TypeOK, NEW c \in AllConns, NEW f \in SUBSET Flags,
         NEW s \in SeqNo, NEW a \in SeqNo, Reply(Bare(c, f, s, a))
  PROVE  toPeer' \subseteq Segment
BY BareType DEF Reply, TypeOK, TcpTypeOK

\* The flag combinations the handlers answer with.
LEMMA FlagTypes ==
  /\ {"ACK"} \in SUBSET Flags /\ {"RST", "ACK"} \in SUBSET Flags
  /\ {"FIN", "ACK"} \in SUBSET Flags /\ {"SYN", "ACK"} \in SUBSET Flags
BY DEF Flags

\* The handlers that leave ack_number alone, or are not for us.
LEMMA QuietHandlersType ==
  ASSUME TypeOK, UNCHANGED peerVars, NEW p \in toHost, Poll,
         \/ RstSegment(p) \/ EchoedRst(p) \/ IgnoredRst(p) \/ SynAckRepeated(p)
         \/ NotOurs(p) \/ PureAck(p) \/ OutOfOrder(p) \/ SynIgnored(p) \/ SynDeclined(p)
  PROVE  TypeOK'
<1> USE DEF TypeOK, TcpTypeOK
<1>1. /\ p \in Segment /\ p.conn \in AllConns /\ p.conn # NoConn
      /\ p.seq \in SeqNo /\ p.ack \in SeqNo
  BY DEF ToHostOK, Segment
<1>2. ControlOK'
  BY DEF ControlOK, Poll, RstSegment, EchoedRst, IgnoredRst, SynAckRepeated, NotOurs,
         PureAck, OutOfOrder, SynIgnored, SynDeclined, AckCurrent, Ignored, cb
<1>3. TimerOK'
  BY DEF TimerOK, Poll, RstSegment, EchoedRst, IgnoredRst, SynAckRepeated, NotOurs,
         PureAck, OutOfOrder, SynIgnored, SynDeclined, AckCurrent, Ignored, cb, timer
<1>4. ToHostOK' /\ PeerTypeOK'
  BY SameTypes DEF Poll
<1>5. CASE RstSegment(p)
  <2>1. tcp_connect \in Conns
    BY <1>1, <1>5 DEF RstSegment, Current, ControlOK, AllConns
  <2>2. HistoryOK'
    BY <1>5, <2>1 DEF RstSegment, EofCallback, HistoryOK
  <2> QED
    BY <1>2, <1>3, <1>4, <1>5, <2>2, SameTypes DEF RstSegment, cb
<1>6. CASE IgnoredRst(p) \/ SynIgnored(p)
  BY <1>2, <1>3, <1>4, <1>6, SameTypes DEF IgnoredRst, SynIgnored, Ignored, cb
<1>7. CASE EchoedRst(p) \/ SynAckRepeated(p) \/ OutOfOrder(p)
  <2>1. tcp_connect \in AllConns
    BY DEF ControlOK, AllConns
  <2>2. toPeer' \subseteq Segment
    BY <1>7, <2>1, FlagTypes, ReplyType
    DEF EchoedRst, SynAckRepeated, OutOfOrder, AckCurrent, Ack, NumbersOK
  <2>3. NumbersOK'
    BY <1>1, <1>7 DEF EchoedRst, SynAckRepeated, OutOfOrder, AckCurrent, AckSegment, NumbersOK
  <2> QED
    BY <1>2, <1>3, <1>4, <1>7, <2>2, <2>3, SameTypes
    DEF EchoedRst, SynAckRepeated, OutOfOrder, AckCurrent
<1>8. CASE NotOurs(p) \/ SynDeclined(p)
  <2>1. toPeer' \subseteq Segment
    BY <1>1, <1>8, FlagTypes, ZeroSeqNo, ReplyType DEF NotOurs, SynDeclined, Rst
  <2>2. SeqAdd(p.seq, 1) \in SeqNo
    BY <1>1, ZeroSeqNo, SeqAddType
  <2>3. NumbersOK'
    BY <1>8, <2>2 DEF NotOurs, SynDeclined, NumbersOK, cb
  <2> QED
    BY <1>2, <1>3, <1>4, <1>8, <2>1, <2>3, SameTypes DEF NotOurs, SynDeclined
<1>9. CASE PureAck(p)
  <2>1. NumbersOK'
    BY <1>1, <1>9 DEF PureAck, AckSegment, NumbersOK
  <2> QED
    BY <1>2, <1>3, <1>4, <1>9, <2>1, SameTypes DEF PureAck
<1> QED
  BY <1>5, <1>6, <1>7, <1>8, <1>9

\* The handlers that move ack_number.
LEMMA AckingHandlersType ==
  ASSUME TypeOK, UNCHANGED peerVars, NEW p \in toHost, Poll,
         SynAckExpected(p) \/ DataSegment(p) \/ FinSegment(p) \/ SynAccepted(p)
  PROVE  TypeOK'
<1> USE DEF TypeOK, TcpTypeOK
<1>1. /\ p \in Segment /\ p.conn \in AllConns /\ p.conn # NoConn
      /\ p.seq \in SeqNo /\ p.ack \in SeqNo /\ p.len \in SeqNo
  BY DEF ToHostOK, Segment
<1>2. p.conn \in Conns
  BY <1>1, ConnAssumption
  DEF SynAckExpected, DataSegment, FinSegment, SynAccepted, AckSegment, Current, AllConns,
      ForListenPort, ControlOK
<1>3. ControlOK'
  BY <1>2 DEF ControlOK, Poll, SynAckExpected, DataSegment, FinSegment, SynAccepted,
              AckSegment, Current
<1>4. TimerOK'
  BY DEF TimerOK, Poll, SynAckExpected, DataSegment, FinSegment, SynAccepted,
         AckSegment, Current, timer
<1>5. ToHostOK' /\ PeerTypeOK'
  BY SameTypes DEF Poll
<1>6. /\ SeqAdd(p.seq, 1) \in SeqNo /\ SeqAdd(sequence_number, 1) \in SeqNo
      /\ SeqAdd(ack_number, 1) \in SeqNo /\ SeqAdd(ack_number, p.len) \in SeqNo
  BY <1>1, ZeroSeqNo, SeqAddType DEF NumbersOK
<1>7. CASE SynAckExpected(p)
  <2>1. NumbersOK'
    BY <1>6, <1>7 DEF SynAckExpected, NumbersOK
  <2>2. tcp_connect \in AllConns
    BY DEF ControlOK, AllConns
  <2>3. toPeer' \subseteq Segment
    BY <1>7, <2>1, <2>2, FlagTypes, ReplyType DEF SynAckExpected, NumbersOK
  <2> QED
    BY <1>3, <1>4, <1>5, <1>7, <2>1, <2>3, SameTypes DEF SynAckExpected
<1>8. CASE DataSegment(p)
  <2>1. NumbersOK'
    BY <1>1, <1>6, <1>8 DEF DataSegment, AckSegment, NumbersOK
  <2>2. tcp_connect \in AllConns /\ tcp_connect \in Conns
    BY <1>2, <1>8 DEF AllConns, DataSegment, AckSegment, Current
  <2>3. toPeer' \subseteq Segment
    BY <1>8, <2>1, <2>2, FlagTypes, ReplyType DEF DataSegment, NumbersOK
  <2>4. delivered[tcp_connect] \o Bytes(p) \in Seq(Nat)
    BY <1>1, <2>2, BytesType, ConcatProperties DEF HistoryOK
  <2>5. HistoryOK'
    BY <1>8, <2>4 DEF DataSegment, HistoryOK
  <2> QED
    BY <1>3, <1>4, <1>5, <2>1, <2>3, <2>5
<1>9. CASE FinSegment(p)
  <2>1. NumbersOK'
    BY <1>1, <1>6, <1>9 DEF FinSegment, AckSegment, NumbersOK
  <2>2. tcp_connect \in AllConns /\ tcp_connect \in Conns
    BY <1>2, <1>9 DEF AllConns, FinSegment, AckSegment, Current
  <2>3. toPeer' \subseteq Segment
    BY <1>9, <2>1, <2>2, FlagTypes, ReplyType DEF FinSegment, NumbersOK
  <2>4. HistoryOK'
    BY <1>9, <2>2 DEF FinSegment, EofCallback, HistoryOK
  <2> QED
    BY <1>3, <1>4, <1>5, <2>1, <2>3, <2>4
<1>10. CASE SynAccepted(p)
  <2>1. NumbersOK'
    BY <1>6, <1>10 DEF SynAccepted, NumbersOK
  <2>2. toPeer' \subseteq Segment
    BY <1>1, <1>10, <2>1, FlagTypes, ReplyType DEF SynAccepted, NumbersOK
  <2>3. HistoryOK'
    <3>1. <<>> \in Seq(Nat) /\ 0 \in Nat
      OBVIOUS
    <3>2. CASE tcp_state = "listening"
      BY <1>10, <3>1, <3>2 DEF SynAccepted, HistoryOK
    <3>3. CASE tcp_state # "listening"
      BY <1>10, <3>3, SameTypes DEF SynAccepted
    <3> QED
      BY <3>2, <3>3
  <2> QED
    BY <1>3, <1>4, <1>5, <2>1, <2>2, <2>3
<1> QED
  BY <1>7, <1>8, <1>9, <1>10

\* Every step of the endpoint preserves the types.
LEMMA TcpNextType ==
  ASSUME TypeOK, TcpNext, UNCHANGED peerVars
  PROVE  TypeOK'
<1>1. CASE NoSegment
  <2>1. ControlOK' /\ TimerOK'
    BY <1>1 DEF NoSegment, Poll, TypeOK, TcpTypeOK, ControlOK, TimerOK, cb, timer
  <2> QED
    BY <1>1, <2>1, SameTypes DEF NoSegment, Poll, TypeOK, TcpTypeOK, cb
<1>2. ASSUME NEW p \in toHost, TcpProcess(p)
      PROVE  TypeOK'
  BY <1>2, QuietHandlersType, AckingHandlersType DEF TcpProcess
<1> QED
  BY <1>1, <1>2, ConnectType, ListenType, SendType, CloseType, NoCallType, ReturnsType,
     TicksType DEF TcpNext

----------------------------------------------------------------------------
\* What the peers send.
LEMMA PeerSegmentType ==
  ASSUME TypeOK, NEW c \in Conns, NEW f \in SUBSET Flags, NEW s \in SeqNo, NEW n \in Nat,
         NEW l \in SeqNo, NEW id \in {"1234", "other"}
  PROVE  /\ PeerSegment(c, f, s, n, l, id) \in Segment
         /\ PeerSegment(c, f, s, n, l, id).conn = c
<1>1. peer_rcv[c] \in SeqNo /\ 0 \in SeqNo /\ c \in AllConns
  BY ZeroSeqNo DEF TypeOK, PeerTypeOK, AllConns
<1> QED
  BY <1>1 DEF PeerSegment, Segment

\* The numbers of the peer's SYN, bytes and FIN are sequence numbers.
LEMMA PeerSeqType ==
  ASSUME NEW c \in Conns, NEW n \in 0 .. PeerLen + 2
  PROVE  PeerSeq(c, n) \in SeqNo
<1>1. n \in 0 .. SeqMod /\ PeerIsn[c] \in SeqNo
  BY PeerAssumption, SeqModAssumption
<1> QED
  BY <1>1, SeqAddType DEF PeerSeq

\* A well-typed segment keeps the network well typed.
LEMMA PeerSendsType ==
  ASSUME TypeOK, NEW p \in Segment, p.conn \in Conns, PeerSends(p)
  PROVE  ToHostOK'
BY ConnAssumption DEF TypeOK, TcpTypeOK, ToHostOK, PeerSends

\* The peer's next number is one that its stream can reach.
LEMMA SentRange ==
  ASSUME TypeOK, NEW c \in Conns
  PROVE  peer_sent[c] + 1 + peer_fin[c] \in 0 .. PeerLen + 2
<1>1. peer_sent[c] \in 0 .. PeerLen /\ peer_fin[c] \in {0, 1}
  BY DEF TypeOK, PeerTypeOK
<1> QED
  BY <1>1, PeerAssumption

\* The bare ACK with which the peers answer.
LEMMA PeerAckType ==
  ASSUME TypeOK, PeerTypeOK', NEW c \in Conns
  PROVE  PeerAck(c) \in Segment /\ PeerAck(c).conn = c
<1>1. PeerSndNxt(c) \in SeqNo
  <2>1. peer_sent[c] + 1 + peer_fin[c] \in 0 .. PeerLen + 2
    BY SentRange
  <2> QED
    BY <2>1, PeerSeqType DEF PeerSndNxt, PeerSeq
<1>2. PeerBare(c, {"ACK"}, PeerSndNxt(c)) \in Segment
      /\ PeerBare(c, {"ACK"}, PeerSndNxt(c)).conn = c
  <2> DEFINE s == PeerSndNxt(c)
  <2>1. {"ACK"} \in SUBSET Flags /\ s \in SeqNo /\ 0 \in SeqNo
    BY <1>1, FlagTypes, ZeroSeqNo
  <2> HIDE DEF s
  <2>2. PeerSegment(c, {"ACK"}, s, 0, 0, "other") \in Segment
        /\ PeerSegment(c, {"ACK"}, s, 0, 0, "other").conn = c
    BY <2>1, PeerSegmentType
  <2> QED
    BY <2>2 DEF PeerBare, s
<1>3. peer_rcv'[c] \in SeqNo
  BY DEF PeerTypeOK
<1> DEFINE q == PeerBare(c, {"ACK"}, PeerSndNxt(c))
<1>4. PeerAck(c) = [q EXCEPT !.ack = peer_rcv'[c]]
  BY DEF PeerAck
<1> HIDE DEF q
<1>5. q \in Segment /\ q.conn = c
  BY <1>2 DEF q
<1> QED
  BY <1>3, <1>4, <1>5 DEF Segment

\* The rest of the endpoint is not disturbed by a step of a peer.
LEMMA PeerStepType ==
  ASSUME TypeOK, PeerTypeOK', ToHostOK',
         UNCHANGED <<tcp_state, cb, timer, caller, toPeer, history>>
  PROVE  TypeOK'
<1> USE DEF TypeOK, TcpTypeOK
<1>1. ControlOK'
  BY DEF ControlOK, cb, caller
<1>2. NumbersOK'
  BY DEF NumbersOK, cb
<1>3. TimerOK'
  BY SameTypes DEF caller
<1>4. HistoryOK'
  BY SameTypes
<1> QED
  BY <1>1, <1>2, <1>3, <1>4

\* A step of a peer at one connection preserves the types.
LEMMA PeerActsType ==
  ASSUME TypeOK, UNCHANGED <<tcp_state, cb, timer, caller, toPeer, history>>,
         NEW c \in Conns,
         \/ PeerConnect(c) \/ PeerAbort(c)
         \/ \E first \in 1 .. PeerLen + 1, last \in 0 .. PeerLen, fin \in {0, 1} :
              PeerWrite(c, first, last, fin)
  PROVE  TypeOK'
<1> USE DEF TypeOK
<1>1. 0 \in SeqNo /\ PeerIsn[c] \in SeqNo /\ PeerLen \in Nat
  BY ZeroSeqNo, PeerAssumption
<1>2. CASE PeerConnect(c)
  <2>1. PeerTypeOK'
    BY <1>2 DEF PeerConnect, PeerTypeOK
  <2>2. {"SYN"} \in SUBSET Flags
    BY DEF Flags
  <2>3. ToHostOK'
    BY <1>1, <1>2, <2>2, PeerSegmentType, PeerSendsType DEF PeerConnect, PeerBare
  <2> QED
    BY <2>1, <2>3, PeerStepType
<1>3. CASE PeerAbort(c)
  <2>1. PeerTypeOK'
    BY <1>3 DEF PeerAbort, PeerTypeOK
  <2>2. PeerSndNxt(c) \in SeqNo
    <3>1. peer_sent[c] + 1 + peer_fin[c] \in 0 .. PeerLen + 2
      BY SentRange
    <3> QED
      BY <3>1, PeerSeqType DEF PeerSndNxt, PeerSeq
  <2>3. PICK id \in RstIds :
          PeerSends(PeerSegment(c, {"RST", "ACK"}, PeerSndNxt(c), 0, 0, id))
    BY <1>3 DEF PeerAbort
  <2>4. ToHostOK'
    BY <1>1, <2>2, <2>3, FlagTypes, PeerAssumption, PeerSegmentType, PeerSendsType
  <2> QED
    BY <2>1, <2>4, PeerStepType
<1>4. ASSUME NEW first \in 1 .. PeerLen + 1, NEW last \in 0 .. PeerLen, NEW fin \in {0, 1},
             PeerWrite(c, first, last, fin)
      PROVE  TypeOK'
  <2>1. PeerTypeOK'
    BY <1>1, <1>4 DEF PeerWrite, PeerTypeOK
  <2>2. last - first + 1 \in SeqNo /\ first \in 0 .. PeerLen + 2 /\ first \in Nat
    BY <1>1, <1>4, PeerAssumption, SeqModAssumption DEF PeerWrite, SeqNo
  <2>3. PeerSeq(c, first) \in SeqNo
    BY <2>2, PeerSeqType
  <2> DEFINE f == IF fin = 1 THEN {"FIN", "ACK"} ELSE {"ACK"}
  <2>4. f \in SUBSET Flags
    BY FlagTypes
  <2>5. PeerSends(PeerSegment(c, f, PeerSeq(c, first), first, last - first + 1, "other"))
    BY <1>4 DEF PeerWrite
  <2> HIDE DEF f
  <2>6. ToHostOK'
    BY <2>2, <2>3, <2>4, <2>5, PeerSegmentType, PeerSendsType
  <2> QED
    BY <2>1, <2>6, PeerStepType
<1> QED
  BY <1>2, <1>3, <1>4

\* A segment of ours changes the peer's state within its types.
LEMMA PeerProcessType ==
  ASSUME TypeOK, UNCHANGED <<tcp_state, cb, timer, caller, toPeer, history>>,
         NEW p \in toPeer, PeerProcess(p)
  PROVE  TypeOK'
<1> USE DEF TypeOK
<1>1. /\ p \in Segment /\ p.conn \in Conns /\ p.seq \in SeqNo /\ p.ack \in SeqNo
      /\ p.len \in SeqNo /\ p.first \in Nat /\ p.len \in Nat
  BY SeqModAssumption DEF PeerProcess, TcpTypeOK, Segment, SeqNo
<1>2. /\ 0 \in SeqNo /\ PeerIsn[p.conn] \in SeqNo /\ {"RST"} \in SUBSET Flags
      /\ SeqAdd(p.seq, 1) \in SeqNo
  BY <1>1, ZeroSeqNo, SeqAddType, PeerAssumption DEF Flags
<1>3. ASSUME PeerTypeOK', PeerSends(PeerAck(p.conn)) PROVE TypeOK'
  BY <1>1, <1>3, PeerAckType, PeerSendsType, PeerStepType
<1>4. CASE PeerAccept(p)
  <2>1. PeerTypeOK'
    BY <1>2, <1>4 DEF PeerAccept, PeerTypeOK
  <2> DEFINE q == PeerBare(p.conn, {"SYN", "ACK"}, PeerIsn[p.conn])
  <2>2. q \in Segment /\ q.conn = p.conn
    BY <1>1, <1>2, FlagTypes, PeerSegmentType DEF PeerBare
  <2>3. [q EXCEPT !.ack = SeqAdd(p.seq, 1)] \in Segment
        /\ [q EXCEPT !.ack = SeqAdd(p.seq, 1)].conn = p.conn
    BY <1>2, <2>2 DEF Segment
  <2>4. ToHostOK'
    BY <1>1, <1>4, <2>3, PeerSendsType DEF PeerAccept
  <2> QED
    BY <2>1, <2>4, PeerStepType
<1>5. CASE PeerRefuse(p)
  <2>1. PeerTypeOK'
    BY <1>5 DEF PeerRefuse, PeerTypeOK
  <2>2. ToHostOK'
    BY <1>1, <1>2, <1>5, FlagTypes, PeerAssumption, PeerSegmentType, PeerSendsType
    DEF PeerRefuse
  <2> QED
    BY <2>1, <2>2, PeerStepType
<1>6. CASE PeerEstablished(p)
  BY <1>2, <1>3, <1>6 DEF PeerEstablished, PeerTypeOK
<1>7. CASE PeerReceive(p)
  <2> DEFINE c == p.conn
             fresh == IF Overlap(p) < p.len THEN p.len - Overlap(p) ELSE 0
             fin == IF "FIN" \in p.flags /\ peer_eof[c] = 0 /\ Overlap(p) <= p.len
                    THEN 1 ELSE 0
             bytes == [i \in 1 .. fresh |-> p.first + p.len - fresh + i - 1]
  <2>1. Overlap(p) \in SeqNo /\ Overlap(p) \in Nat
    <3>1. peer_rcv[p.conn] \in SeqNo /\ p.seq \in SeqNo
      BY <1>1 DEF PeerTypeOK
    <3> QED
      BY <3>1, SeqSubType DEF Overlap
  <2>2. fresh \in 0 .. p.len /\ fin \in {0, 1} /\ peer_eof[c] + fin \in {0, 1}
    BY <1>1, <2>1 DEF PeerTypeOK
  <2>3. fresh + fin \in 0 .. SeqMod
    BY <1>1, <2>2, SeqModAssumption DEF SeqNo
  <2>4. bytes \in Seq(Nat)
    <3>1. \A i \in 1 .. fresh : p.first + p.len - fresh + i - 1 \in Nat
      BY <1>1, <2>2
    <3>2. fresh \in Nat
      BY <1>1, <2>2
    <3> HIDE DEF fresh
    <3> QED
      BY <3>1, <3>2, IsASeq
  <2>5. /\ peer_state' = [peer_state EXCEPT ![c] = "established"]
        /\ peer_rcv' = [peer_rcv EXCEPT ![c] = SeqAdd(@, fresh + fin)]
        /\ peer_got' = [peer_got EXCEPT ![c] = @ \o bytes]
        /\ peer_eof' = [peer_eof EXCEPT ![c] = @ + fin]
        /\ UNCHANGED <<peer_sent, peer_fin>>
    BY <1>7 DEF PeerReceive
  <2> HIDE DEF fresh, fin, bytes
  <2>6. SeqAdd(peer_rcv[c], fresh + fin) \in SeqNo /\ peer_got[c] \o bytes \in Seq(Nat)
    BY <1>1, <2>3, <2>4, SeqAddType, ConcatProperties DEF PeerTypeOK
  <2>7. PeerTypeOK'
    BY <1>1, <2>2, <2>5, <2>6 DEF PeerTypeOK
  <2>8. CASE UNCHANGED toHost
    BY <2>7, <2>8, SameTypes, PeerStepType DEF TcpTypeOK
  <2>9. CASE PeerSends(PeerAck(p.conn))
    BY <1>3, <2>7, <2>9
  <2> QED
    BY <1>7, <2>8, <2>9 DEF PeerReceive
<1>8. CASE PeerChallenge(p)
  BY <1>3, <1>8, SameTypes DEF PeerChallenge
<1>9. CASE PeerUnknown(p)
  <2>1. PeerTypeOK'
    BY <1>9, SameTypes DEF PeerUnknown
  <2>2. ToHostOK'
    BY <1>1, <1>2, <1>9, PeerAssumption, PeerSegmentType, PeerSendsType DEF PeerUnknown
  <2> QED
    BY <2>1, <2>2, PeerStepType
<1>10. CASE PeerIsReset(p)
  <2>1. PeerTypeOK'
    BY <1>10 DEF PeerIsReset, PeerTypeOK
  <2> QED
    BY <1>10, <2>1, SameTypes, PeerStepType DEF PeerIsReset, TcpTypeOK
<1> QED
  BY <1>4, <1>5, <1>6, <1>7, <1>8, <1>9, <1>10 DEF PeerProcess

\* Every step keeps the types.
LEMMA NextType == TypeOK /\ [Next]_vars => TypeOK'
<1> SUFFICES ASSUME TypeOK, [Next]_vars PROVE TypeOK'
  OBVIOUS
<1>1. CASE TcpNext /\ UNCHANGED peerVars
  BY <1>1, TcpNextType
<1>2. CASE PeerNext /\ UNCHANGED <<tcp_state, cb, timer, caller, toPeer, history>>
  BY <1>2, PeerActsType, PeerProcessType DEF PeerNext
<1>3. CASE UNCHANGED vars
  <2>1. /\ UNCHANGED <<tcp_state, cb, timer, caller, toPeer, history>>
        /\ UNCHANGED toHost /\ UNCHANGED peerVars
    BY <1>3 DEF vars, tcpVars
  <2> QED
    BY <2>1, SameTypes, PeerStepType DEF TypeOK, TcpTypeOK
<1> QED
  BY <1>1, <1>2, <1>3 DEF Next

\* Every variable keeps its type; a call in progress always has transmissions left, so
\* the retransmission counter cannot run past its limit, although tcp_send and tcp_close
\* never reset it (tcp_connect, tcp_listen and the check_if_timeout exits).
THEOREM TypeCorrect == Spec => []TypeOK
BY InitType, NextType, PTL DEF Spec

----------------------------------------------------------------------------
(* Delivery. *)

\* Numbers of the stream are told apart: it is shorter than the number space.
LEMMA PeerSeqInjective ==
  ASSUME NEW c \in Conns, NEW m \in 0 .. PeerLen + 2, NEW n \in 0 .. PeerLen + 2,
         PeerSeq(c, m) = PeerSeq(c, n)
  PROVE  m = n
<1>1. PeerIsn[c] \in SeqNo
  BY PeerAssumption
<1> QED
  BY <1>1, PeerAssumption, SeqModAssumption DEF PeerSeq, SeqAdd, SeqNo

\* Numbers of the peer's stream add up, wrapped or not.
LEMMA PeerSeqAdd ==
  ASSUME NEW c \in Conns, NEW m \in Nat, NEW n \in Nat, m + n \in 0 .. PeerLen + 2
  PROVE  SeqAdd(PeerSeq(c, m), n) = PeerSeq(c, m + n)
<1>1. PeerIsn[c] \in SeqNo
  BY PeerAssumption
<1> QED
  BY <1>1, PeerAssumption, SeqModAssumption DEF PeerSeq, SeqAdd, SeqNo

\* What the invariant says at c once the peer has been acknowledged.
LEMMA EstMatch ==
  ASSUME NEW c \in ActiveConns, StreamInv(c), tcp_connect = c, Est(c)
  PROVE  AckMatch(c)
BY DEF StreamInv, AckOfCurrent

----------------------------------------------------------------------------
\* The parts of the invariant an endpoint step disturbs only by a delivery.
LEMMA EndpointRest ==
  ASSUME NEW c \in ActiveConns, StreamInv(c), toPeer \subseteq toPeer',
         UNCHANGED toHost, UNCHANGED peerVars, delivered'[c] = delivered[c]
  PROVE  /\ Est(c) => Est(c)'
         /\ Untouched(c)' /\ HostSegments(c)' /\ PeerOk(c)' /\ DeliveredOk(c)'
<1> USE DEF StreamInv, peerVars
<1>1. Est(c) => Est(c)'
  BY DEF Est, PeerSeq
<1>2. Untouched(c)'
  BY DEF Untouched
<1>3. HostSegments(c)'
  BY <1>1 DEF HostSegments, PeerSeq
<1>4. PeerOk(c)'
  BY <1>1 DEF PeerOk
<1>5. DeliveredOk(c)'
  BY <1>1 DEF DeliveredOk
<1> QED
  BY <1>1, <1>2, <1>3, <1>4, <1>5

\* A segment the endpoint sends that does not break the agreement of c: a reset, a SYN,
\* or an acknowledgement by ack_number of a connection that is in use.
Harmless(c, q) ==
  \/ q.conn # c
  \/ "RST" \in q.flags
  \/ q.flags = {"SYN"}
  \/ tcp_connect = c =>
       /\ AckMatch(c) \/ q.ack = ack_number
       /\ tcp_state = "syn_sent" => peer_state[c] = "reset"

\* An acknowledgement of nothing but the peer's SYN, while nothing has been delivered.
LEMMA FirstAckMatch ==
  ASSUME TypeOK, NEW c \in ActiveConns, delivered[c] = <<>>, ack_number = PeerSeq(c, 1)
  PROVE  AckMatch(c)
BY DEF AckMatch

\* A step of the endpoint that neither delivers nor moves ack_number, and that sends
\* only harmless segments, keeps the invariant.
LEMMA EndpointQuiet ==
  ASSUME TypeOK, NEW c \in ActiveConns, StreamInv(c), toPeer \subseteq toPeer',
         UNCHANGED toHost, UNCHANGED peerVars, delivered'[c] = delivered[c],
         UNCHANGED <<tcp_connect, ack_number>>,
         tcp_state' \in {"syn_sent", "established"} => tcp_state' = tcp_state,
         call' = "send" => call = "send" \/ tcp_state = "established",
         \A q \in toPeer' : q \in toPeer \/ Harmless(c, q)
  PROVE  StreamInv(c)'
<1>1. AckOfCurrent(c)'
  <2>1. SUFFICES ASSUME tcp_connect = c,
                        tcp_state' = "established" \/ call' = "send" \/ Est(c)'
                 PROVE  AckMatch(c)
    BY DEF AckOfCurrent, AckMatch, PeerSeq, peerVars
  <2>2. CASE tcp_state' = "established" \/ call' = "send"
    BY <2>1, <2>2 DEF StreamInv, AckOfCurrent
  <2>3. CASE Est(c)'
    <3>1. PICK q \in toPeer' :
            /\ q.conn = c /\ "ACK" \in q.flags /\ q.flags \cap {"SYN", "RST"} = {}
            /\ q.ack = PeerSeq(c, 1)
      BY <2>3 DEF Est, PeerSeq
    <3>2. CASE q \in toPeer
      BY <2>1, <3>1, <3>2, EstMatch DEF Est
    <3>3. CASE Harmless(c, q)
      <4>1. AckMatch(c) \/ ack_number = PeerSeq(c, 1)
        BY <2>1, <3>1, <3>3 DEF Harmless
      <4>2. delivered[c] # <<>> => Est(c)
        BY DEF StreamInv, DeliveredOk
      <4> QED
        BY <2>1, <4>1, <4>2, EstMatch, FirstAckMatch
    <3> QED
      BY <3>2, <3>3
  <2> QED
    BY <2>1, <2>2, <2>3
<1>2. SynSentOk(c)'
  <2>1. SUFFICES ASSUME tcp_connect = c, tcp_state = "syn_sent"
                 PROVE  SynSentOk(c)'
    BY DEF SynSentOk
  <2>2. delivered[c] = <<>>
    BY <2>1 DEF StreamInv, SynSentOk
  <2>3. CASE peer_state[c] = "reset"
    BY <2>1, <2>2, <2>3 DEF StreamInv, SynSentOk, peerVars
  <2>4. CASE peer_state[c] # "reset"
    <3>1. \A q \in toPeer' : q \in toPeer \/ q.conn # c \/ "RST" \in q.flags
                             \/ q.flags = {"SYN"}
      BY <2>1, <2>4 DEF Harmless
    <3> QED
      BY <2>1, <2>2, <2>4, <3>1 DEF StreamInv, SynSentOk, peerVars
  <2> QED
    BY <2>3, <2>4
<1> QED
  BY <1>1, <1>2, EndpointRest DEF StreamInv

----------------------------------------------------------------------------
\* Segments of an established connection are harmless.
LEMMA EstablishedHarmless ==
  ASSUME NEW c \in ActiveConns, StreamInv(c), SendOk, NEW q,
         tcp_state = "established" \/ call = "send"
  PROVE  Harmless(c, q)
<1>1. tcp_connect = c => AckMatch(c)
  BY DEF StreamInv, AckOfCurrent
<1>2. tcp_state # "syn_sent"
  BY DEF SendOk
<1> QED
  BY <1>1, <1>2 DEF Harmless

\* The calls and the ticks: what they transmit belongs to a connection in use.
LEMMA CallsKeep ==
  ASSUME TypeOK, NEW c \in ActiveConns, StreamInv(c), SendOk, UNCHANGED peerVars,
         \/ TcpListen
         \/ \E len \in SendLens : TcpSend(len)
         \/ TcpClose \/ TcpCloseNotEstablished \/ TcpSendKeepAlive
         \/ Abort \/ CallReturns \/ KeepPolling
         \/ TickDelay \/ TickResend \/ TickTimeout \/ NoSegment
  PROVE  StreamInv(c)'
<1>1. CASE \/ TcpListen \/ TcpCloseNotEstablished \/ Abort \/ KeepPolling
           \/ TickDelay \/ TickTimeout \/ NoSegment
  BY <1>1, EndpointQuiet
  DEF TcpListen, TcpCloseNotEstablished, Abort, KeepPolling, TickDelay, TickTimeout,
      NoSegment, Poll, StartCall, Return, TimerTick, Waiting, cb, caller, history
<1>2. CASE CallReturns
  BY <1>2, EndpointQuiet
  DEF CallReturns, ConnectReturns, ListenReturns, SendReturns, CloseReturns, Return, cb,
      history
<1>3. ASSUME NEW len \in SendLens, TcpSend(len) PROVE StreamInv(c)'
  BY <1>3, EndpointQuiet, EstablishedHarmless DEF TcpSend, StartCall, Transmit, history
<1>4. CASE TcpClose
  BY <1>4, EndpointQuiet, EstablishedHarmless DEF TcpClose, StartCall, Transmit, history
<1>5. CASE TcpSendKeepAlive
  BY <1>5, EndpointQuiet, EstablishedHarmless
  DEF TcpSendKeepAlive, StartCall, Reply, history, caller
<1>6. CASE TickResend
  <2> DEFINE p == CASE call = "connect" -> Syn(tcp_connect)
                    [] call = "send" -> Data(send_len)
                    [] OTHER -> Fin
  <2>1. Harmless(c, p)
    <3>1. CASE call = "connect"
      BY <3>1 DEF Harmless, Syn, Bare
    <3>2. CASE call = "send"
      BY <3>2, EstablishedHarmless
    <3>3. CASE call \notin {"connect", "send"}
      BY <1>6, <3>3, EstablishedHarmless DEF TickResend, TimerTick, Waiting
    <3> QED
      BY <3>1, <3>2, <3>3
  <2>2. Transmit(p, tcp_packet_sent_count + 1)
    BY <1>6 DEF TickResend
  <2> HIDE DEF p
  <2>3. toPeer \subseteq toPeer' /\ \A q \in toPeer' : q \in toPeer \/ Harmless(c, q)
    BY <2>1, <2>2 DEF Transmit
  <2> QED
    BY <1>6, <2>3, EndpointQuiet DEF TickResend, history
<1> QED
  BY <1>1, <1>2, <1>3, <1>4, <1>5, <1>6

\* tcp_connect to c: nothing exists of c yet.
LEMMA ConnectKeeps ==
  ASSUME TypeOK, NEW c \in ActiveConns, StreamInv(c), UNCHANGED peerVars,
         NEW d \in Conns, TcpConnect(d)
  PROVE  StreamInv(c)'
<1>1. /\ tcp_connect' = d /\ tcp_state' = "syn_sent" /\ call' = "connect"
      /\ \A q \in toPeer : q.conn # d
      /\ UNCHANGED <<toHost, delivered>>
  BY DEF TcpConnect, StartCall, history
<1>2. toPeer \subseteq toPeer' /\ \A q \in toPeer' : q \in toPeer \/ q = Syn(d)
  BY DEF TcpConnect, Transmit
<1>3. /\ Untouched(c)' /\ HostSegments(c)' /\ PeerOk(c)' /\ DeliveredOk(c)'
  BY <1>1, <1>2, EndpointRest
<1>4. CASE c # d
  BY <1>1, <1>3, <1>4 DEF StreamInv, AckOfCurrent, SynSentOk
<1>5. CASE c = d
  <2>1. ~Est(c)'
    BY <1>1, <1>2, <1>5 DEF Est, Syn, Bare
  <2>2. /\ peer_state[c] = "closed" /\ delivered[c] = <<>>
        /\ \A p \in toHost : p.conn # c
    BY <1>1, <1>5 DEF StreamInv, Untouched
  <2>3. AckOfCurrent(c)'
    BY <1>1, <2>1 DEF AckOfCurrent
  <2>4. SynSentOk(c)'
    BY <1>1, <1>2, <1>5, <2>2 DEF SynSentOk, Syn, Bare, peerVars
  <2> QED
    BY <1>3, <2>3, <2>4 DEF StreamInv
<1> QED
  BY <1>4, <1>5

----------------------------------------------------------------------------
\* A segment of c in the handler: where it came from.
LEMMA SegmentOfStream ==
  ASSUME TypeOK, NEW c \in ActiveConns, StreamInv(c), NEW p \in toHost, AckSegment(p),
         p.conn = c
  PROVE  /\ tcp_connect = c /\ Est(c) /\ AckMatch(c)
         /\ tcp_state = "syn_sent" => peer_state[c] = "reset" /\ p.len = 0 /\ "FIN" \notin p.flags
<1>1. tcp_connect = c
  BY DEF AckSegment, Current
<1>2. Est(c)
  BY DEF StreamInv, HostSegments, AckSegment
<1>3. AckMatch(c)
  BY <1>1, <1>2, EstMatch
<1>4. ASSUME tcp_state = "syn_sent"
      PROVE  peer_state[c] = "reset" /\ p.len = 0 /\ "FIN" \notin p.flags
  BY <1>1, <1>2, <1>4 DEF StreamInv, SynSentOk, Est
<1> QED
  BY <1>1, <1>2, <1>3, <1>4

\* The handlers that leave ack_number alone.
LEMMA QuietHandlersKeep ==
  ASSUME TypeOK, NEW c \in ActiveConns, StreamInv(c), UNCHANGED peerVars,
         NEW p \in toHost, Poll,
         \/ RstSegment(p) \/ EchoedRst(p) \/ IgnoredRst(p) \/ SynAckRepeated(p)
         \/ NotOurs(p) \/ PureAck(p) \/ OutOfOrder(p) \/ SynIgnored(p) \/ SynDeclined(p)
  PROVE  StreamInv(c)'
<1>1. UNCHANGED <<call, toHost>>
  BY DEF Poll
<1>2. CASE RstSegment(p) \/ IgnoredRst(p) \/ SynIgnored(p) \/ PureAck(p)
  BY <1>1, <1>2, EndpointQuiet
  DEF RstSegment, IgnoredRst, SynIgnored, Ignored, PureAck, cb, history
<1>3. CASE NotOurs(p) \/ SynDeclined(p)
  <2>1. Harmless(c, Rst(p))
    BY DEF Harmless, Rst, Bare
  <2> QED
    BY <1>1, <1>3, <2>1, EndpointQuiet DEF NotOurs, SynDeclined, Reply, cb, history
<1>4. CASE EchoedRst(p) \/ SynAckRepeated(p) \/ OutOfOrder(p)
  <2>1. tcp_connect = c /\ tcp_state = "syn_sent" => peer_state[c] = "reset"
    <3>1. CASE EchoedRst(p)
      BY <3>1 DEF EchoedRst, Current, StreamInv, SynSentOk
    <3>2. CASE SynAckRepeated(p)
      BY <3>2 DEF SynAckRepeated
    <3>3. CASE OutOfOrder(p)
      BY <3>3, SegmentOfStream DEF OutOfOrder, AckSegment, Current
    <3> QED
      BY <1>4, <3>1, <3>2, <3>3
  <2>2. Harmless(c, Ack)
    BY <2>1 DEF Harmless, Ack, Bare
  <2> QED
    BY <1>1, <1>4, <2>2, EndpointQuiet
    DEF EchoedRst, SynAckRepeated, OutOfOrder, AckCurrent, Reply, history
<1> QED
  BY <1>2, <1>3, <1>4

\* The handlers that move ack_number, for another connection than c.
LEMMA OtherConnKeeps ==
  ASSUME TypeOK, NEW c \in ActiveConns, StreamInv(c), UNCHANGED peerVars,
         toPeer \subseteq toPeer', UNCHANGED toHost, delivered'[c] = delivered[c],
         tcp_connect' # c
  PROVE  StreamInv(c)'
BY EndpointRest DEF StreamInv, AckOfCurrent, SynSentOk

\* The SYN/ACK that tcp_connect waits for sets ack_number to the first byte.
LEMMA SynAckKeeps ==
  ASSUME TypeOK, NEW c \in ActiveConns, StreamInv(c), UNCHANGED peerVars,
         NEW p \in toHost, Poll, SynAckExpected(p)
  PROVE  StreamInv(c)'
<1>1. /\ tcp_state' = "established" /\ p.conn = tcp_connect /\ tcp_state = "syn_sent"
      /\ ack_number' = SeqAdd(p.seq, 1) /\ toPeer \subseteq toPeer'
      /\ UNCHANGED <<toHost, tcp_connect, delivered>>
  BY DEF SynAckExpected, Current, Reply, Poll, history
<1>2. CASE tcp_connect # c
  BY <1>1, <1>2, OtherConnKeeps
<1>3. CASE tcp_connect = c
  <2>1. delivered[c] = <<>>
    BY <1>1, <1>3 DEF StreamInv, SynSentOk
  <2>2. p.seq = PeerIsn[c]
    BY <1>1, <1>3 DEF StreamInv, HostSegments, SynAckExpected
  <2>3. ack_number' = PeerSeq(c, 1)
    BY <1>1, <2>2 DEF PeerSeq
  <2>4. AckOfCurrent(c)'
    BY <1>1, <2>1, <2>3 DEF AckOfCurrent, AckMatch, PeerSeq
  <2> QED
    BY <1>1, <2>4, EndpointRest DEF StreamInv, SynSentOk
<1> QED
  BY <1>2, <1>3

\* A prefix of the stream and the bytes that follow it are a prefix.
LEMMA NextBytes ==
  ASSUME NEW s \in Seq(Nat), \A i \in 1 .. Len(s) : s[i] = i,
         NEW p \in Segment, p.first = Len(s) + 1
  PROVE  /\ Len(s \o Bytes(p)) = Len(s) + p.len
         /\ \A i \in 1 .. Len(s) + p.len : (s \o Bytes(p))[i] = i
<1> DEFINE t == Bytes(p)
           n == Len(s)
<1>1. t \in Seq(Nat) /\ Len(t) = p.len /\ n \in Nat /\ p.len \in Nat
  BY BytesType, SeqModAssumption DEF Segment, SeqNo
<1>2. \A i \in 1 .. p.len : t[i] = p.first + i - 1
  BY DEF Bytes
<1> HIDE DEF t
<1>3. /\ Len(s \o t) = Len(s) + Len(t)
      /\ \A i \in 1 .. Len(s) + Len(t) :
           (s \o t)[i] = IF i <= Len(s) THEN s[i] ELSE t[i - Len(s)]
  BY <1>1, ConcatProperties
<1>4. ASSUME NEW i \in 1 .. n + p.len PROVE (s \o t)[i] = i
  <2>1. (s \o t)[i] = IF i <= n THEN s[i] ELSE t[i - n]
    BY <1>1, <1>3
  <2>2. CASE i <= n
    BY <1>1, <2>1, <2>2
  <2>3. CASE i > n
    <3>1. i - n \in 1 .. p.len /\ p.first = n + 1
      BY <1>1, <2>3
    <3> HIDE DEF n
    <3>2. t[i - n] = n + 1 + (i - n) - 1
      BY <1>2, <3>1
    <3> QED
      BY <1>1, <2>1, <2>3, <3>2
  <2> QED
    BY <1>1, <2>2, <2>3
<1> QED
  BY <1>1, <1>3, <1>4 DEF t

\* The segment ack_number waits for starts just after what has been delivered: the
\* number after the FIN is that of no byte.
LEMMA AwaitedIsNext ==
  ASSUME NEW c \in Conns, NEW n \in 0 .. PeerLen, NEW sent \in 0 .. PeerLen,
         NEW first \in 1 .. sent + 1,
         \/ PeerSeq(c, first) = PeerSeq(c, n + 1)
         \/ PeerSeq(c, first) = PeerSeq(c, n + 2) /\ n = sent
  PROVE  first = n + 1
<1>1. PeerLen \in Nat /\ first \in 0 .. PeerLen + 2
      /\ n + 1 \in 0 .. PeerLen + 2 /\ n + 2 \in 0 .. PeerLen + 2
  BY PeerAssumption
<1>2. CASE PeerSeq(c, first) = PeerSeq(c, n + 1)
  BY <1>1, <1>2, PeerSeqInjective
<1>3. CASE PeerSeq(c, first) = PeerSeq(c, n + 2) /\ n = sent
  <2>1. first = n + 2
    BY <1>1, <1>3, PeerSeqInjective
  <2> QED
    BY <1>1, <1>3, <2>1
<1> QED
  BY <1>2, <1>3

\* The awaited data are the next bytes of the stream.
LEMMA DataKeeps ==
  ASSUME TypeOK, NEW c \in ActiveConns, StreamInv(c), UNCHANGED peerVars,
         NEW p \in toHost, Poll, DataSegment(p)
  PROVE  StreamInv(c)'
<1>1. /\ AckSegment(p) /\ p.conn = tcp_connect /\ p.seq = ack_number /\ p.len > 0
      /\ delivered' = [delivered EXCEPT ![tcp_connect] = @ \o Bytes(p)]
      /\ ack_number' = SeqAdd(ack_number, p.len) /\ toPeer \subseteq toPeer'
      /\ UNCHANGED <<toHost, tcp_connect, tcp_state, call>>
  BY DEF DataSegment, AckSegment, Current, Expected, Reply, Poll
<1>2. CASE tcp_connect # c
  BY <1>1, <1>2, OtherConnKeeps DEF TypeOK, TcpTypeOK, HistoryOK
<1>3. CASE tcp_connect = c
  <2> DEFINE n == Len(delivered[c])
  <2>1. /\ p \in Segment /\ p.len \in Nat /\ p.first \in Nat /\ c \in Conns
        /\ delivered[c] \in Seq(Nat) /\ n \in Nat
        /\ peer_sent[c] \in 0 .. PeerLen /\ PeerLen \in Nat
    BY SeqModAssumption, PeerAssumption
    DEF TypeOK, TcpTypeOK, ToHostOK, HistoryOK, PeerTypeOK, Segment, SeqNo, ActiveConns
  <2>2. Est(c) /\ AckMatch(c) /\ tcp_state # "syn_sent"
    BY <1>1, <1>3, <2>1, SegmentOfStream
  <2>3. /\ p.seq = PeerSeq(c, p.first)
        /\ p.first >= 1 /\ p.first + p.len - 1 <= peer_sent[c]
    BY <1>1, <1>3, <2>1 DEF StreamInv, HostSegments
  <2>4. n <= peer_sent[c] /\ \A i \in 1 .. n : delivered[c][i] = i
    BY DEF StreamInv, DeliveredOk
  <2>5. p.first = n + 1
    <3>1. n \in 0 .. PeerLen /\ p.first \in 1 .. peer_sent[c] + 1
      BY <1>1, <2>1, <2>3, <2>4
    <3>2. \/ PeerSeq(c, p.first) = PeerSeq(c, n + 1)
          \/ PeerSeq(c, p.first) = PeerSeq(c, n + 2) /\ n = peer_sent[c]
      BY <1>1, <2>2, <2>3 DEF AckMatch
    <3> HIDE DEF n
    <3> QED
      BY <2>1, <3>1, <3>2, AwaitedIsNext
  <2>6. delivered'[c] = delivered[c] \o Bytes(p)
    BY <1>1, <1>3, <2>1 DEF TypeOK, TcpTypeOK, HistoryOK
  <2>7. /\ Len(delivered'[c]) = n + p.len
        /\ \A i \in 1 .. n + p.len : delivered'[c][i] = i
    BY <2>1, <2>4, <2>5, <2>6, NextBytes
  <2>8. n + p.len <= peer_sent[c]
    BY <2>1, <2>3, <2>5
  <2>9. Est(c)'
    BY <1>1, <2>2 DEF Est, PeerSeq
  <2>10. DeliveredOk(c)'
    BY <2>7, <2>8, <2>9 DEF DeliveredOk, peerVars
  <2>11. ack_number' = PeerSeq(c, n + p.len + 1)
    <3> DEFINE l == p.len
               m == peer_sent[c]
    <3>1. l \in Nat /\ m \in 0 .. PeerLen /\ n \in Nat /\ PeerLen \in Nat /\ n + l <= m
      BY <2>1, <2>8
    <3> HIDE DEF n, l, m
    <3>2. n + 1 + l \in 0 .. PeerLen + 2 /\ n + 1 \in Nat /\ n + 1 + l = n + l + 1
      BY <3>1
    <3>3. ack_number = PeerSeq(c, n + 1)
      BY <1>1, <2>3, <2>5
    <3> QED
      BY <1>1, <2>1, <3>1, <3>3, <3>2, PeerSeqAdd DEF l
  <2>12. AckOfCurrent(c)'
    BY <2>7, <2>11 DEF AckOfCurrent, AckMatch, PeerSeq
  <2>13. Untouched(c)'
    BY <1>1, <2>2 DEF Untouched, Est
  <2>14. HostSegments(c)' /\ PeerOk(c)'
    BY <1>1, <2>9 DEF StreamInv, HostSegments, PeerOk, PeerSeq, peerVars
  <2>15. SynSentOk(c)'
    BY <1>1, <2>2 DEF SynSentOk
  <2> QED
    BY <2>10, <2>12, <2>13, <2>14, <2>15 DEF StreamInv
<1> QED
  BY <1>2, <1>3

\* The awaited FIN comes after the last byte.
LEMMA FinKeeps ==
  ASSUME TypeOK, NEW c \in ActiveConns, StreamInv(c), UNCHANGED peerVars,
         NEW p \in toHost, Poll, FinSegment(p)
  PROVE  StreamInv(c)'
<1>1. /\ AckSegment(p) /\ p.conn = tcp_connect /\ p.seq = ack_number
      /\ p.len = 0 /\ "FIN" \in p.flags /\ tcp_state' = "closed"
      /\ ack_number' = SeqAdd(ack_number, 1)
      /\ UNCHANGED <<toHost, tcp_connect, delivered, call>>
  BY DEF FinSegment, AckSegment, Current, Expected, Poll
<1>2. toPeer \subseteq toPeer'
  BY DEF FinSegment, Reply
<1>3. CASE tcp_connect # c
  BY <1>1, <1>2, <1>3, OtherConnKeeps
<1>4. CASE tcp_connect = c
  <2> DEFINE n == Len(delivered[c])
  <2>1. /\ p.first \in Nat /\ c \in Conns /\ n \in Nat
        /\ peer_sent[c] \in 0 .. PeerLen /\ PeerLen \in Nat
    BY PeerAssumption
    DEF TypeOK, TcpTypeOK, ToHostOK, HistoryOK, PeerTypeOK, Segment, ActiveConns
  <2>2. AckMatch(c)
    BY <1>1, <1>4, SegmentOfStream
  <2>3. /\ p.seq = PeerSeq(c, p.first) /\ p.first >= 1
        /\ peer_fin[c] = 1 /\ p.first - 1 = peer_sent[c]
    BY <1>1, <1>4, <2>1 DEF StreamInv, HostSegments
  <2>4. n <= peer_sent[c]
    BY DEF StreamInv, DeliveredOk
  <2>5. p.first = n + 1
    <3>1. n \in 0 .. PeerLen /\ p.first \in 1 .. peer_sent[c] + 1
      BY <2>1, <2>3, <2>4
    <3>2. \/ PeerSeq(c, p.first) = PeerSeq(c, n + 1)
          \/ PeerSeq(c, p.first) = PeerSeq(c, n + 2) /\ n = peer_sent[c]
      BY <1>1, <2>2, <2>3 DEF AckMatch
    <3> HIDE DEF n
    <3> QED
      BY <2>1, <3>1, <3>2, AwaitedIsNext
  <2>6. ack_number' = PeerSeq(c, n + 2)
    <3> HIDE DEF n
    <3>1. n + 1 + 1 \in 0 .. PeerLen + 2 /\ n + 1 \in Nat /\ n + 1 + 1 = n + 2
      BY <2>1, <2>3, <2>5
    <3>2. ack_number = PeerSeq(c, n + 1)
      BY <1>1, <2>3, <2>5
    <3> QED
      BY <1>1, <2>1, <3>1, <3>2, PeerSeqAdd
  <2>7. AckOfCurrent(c)'
    BY <1>1, <2>1, <2>3, <2>5, <2>6 DEF AckOfCurrent, AckMatch, PeerSeq, peerVars
  <2> QED
    BY <1>1, <1>2, <2>7, EndpointRest DEF StreamInv, SynSentOk
<1> QED
  BY <1>3, <1>4

\* tcp_listen's connections are others than c.
LEMMA SynKeeps ==
  ASSUME TypeOK, NEW c \in ActiveConns, StreamInv(c), UNCHANGED peerVars,
         NEW p \in toHost, Poll, SynAccepted(p)
  PROVE  StreamInv(c)'
<1>1. /\ p.conn # c /\ tcp_connect' = p.conn /\ toPeer \subseteq toPeer' /\ UNCHANGED toHost
  BY DEF SynAccepted, ForListenPort, ActiveConns, Reply, Poll
<1>2. delivered'[c] = delivered[c]
  BY <1>1 DEF SynAccepted, history, TypeOK, TcpTypeOK, HistoryOK, ActiveConns
<1> QED
  BY <1>1, <1>2, OtherConnKeeps

\* Every step of the endpoint keeps the agreement of c.
LEMMA TcpNextKeeps ==
  ASSUME TypeOK, NEW c \in ActiveConns, StreamInv(c), SendOk, TcpNext, UNCHANGED peerVars
  PROVE  StreamInv(c)'
<1>1. ASSUME NEW p \in toHost, TcpProcess(p)
      PROVE  StreamInv(c)'
  BY <1>1, QuietHandlersKeep, SynAckKeeps, DataKeeps, FinKeeps, SynKeeps DEF TcpProcess
<1> QED
  BY <1>1, CallsKeep, ConnectKeeps DEF TcpNext

----------------------------------------------------------------------------
\* A step of a peer at another connection than c.
LEMMA OtherPeerKeeps ==
  ASSUME NEW c \in ActiveConns, StreamInv(c),
         UNCHANGED <<tcp_state, cb, timer, caller, toPeer, history>>,
         \A p \in toHost' : p \in toHost \/ p.conn # c,
         UNCHANGED <<peer_state[c], peer_sent[c], peer_fin[c]>>
  PROVE  StreamInv(c)'
<1> USE DEF StreamInv, cb, caller, history
<1>1. Est(c)' <=> Est(c)
  BY DEF Est, PeerSeq
<1>2. Untouched(c)' /\ PeerOk(c)' /\ DeliveredOk(c)'
  BY <1>1 DEF Untouched, PeerOk, DeliveredOk
<1>3. HostSegments(c)'
  BY <1>1 DEF HostSegments, PeerSeq
<1>4. AckOfCurrent(c)' /\ SynSentOk(c)'
  BY <1>1 DEF AckOfCurrent, AckMatch, SynSentOk, PeerSeq
<1> QED
  BY <1>2, <1>3, <1>4

\* A segment without data from the peer of c: a reset, an ACK or its SYN/ACK.
BareFromPeer(c, q) ==
  /\ q.len = 0 /\ "FIN" \notin q.flags
  /\ \/ "RST" \in q.flags /\ "SYN" \notin q.flags
     \/ q.flags = {"ACK"} /\ Est(c)
     \/ q.flags = {"SYN", "ACK"} /\ q.seq = PeerIsn[c]

\* A step of c's peer that answers a segment of ours disturbs SynSentOk only.
LEMMA OwnPeerRest ==
  ASSUME NEW c \in ActiveConns, StreamInv(c),
         UNCHANGED <<tcp_state, cb, timer, caller, toPeer, history>>,
         UNCHANGED <<peer_sent, peer_fin>>,
         \E q \in toPeer : q.conn = c,
         \A q \in toHost' : q \in toHost \/ BareFromPeer(c, q),
         peer_state'[c] # "syn_sent",
         peer_state'[c] = "established" => Est(c),
         peer_state'[c] \in {"closed", "syn_rcvd"} => peer_state[c] \in {"closed", "syn_rcvd"}
  PROVE  /\ Untouched(c)' /\ HostSegments(c)' /\ PeerOk(c)' /\ DeliveredOk(c)'
         /\ AckOfCurrent(c)'
<1> USE DEF StreamInv, cb, caller, history
<1>1. Est(c)' <=> Est(c)
  BY DEF Est, PeerSeq
<1>2. Untouched(c)' /\ PeerOk(c)' /\ DeliveredOk(c)'
  BY <1>1 DEF Untouched, PeerOk, DeliveredOk
<1>3. HostSegments(c)'
  BY <1>1 DEF HostSegments, PeerSeq, BareFromPeer
<1>4. AckOfCurrent(c)'
  BY <1>1 DEF AckOfCurrent, AckMatch, PeerSeq
<1> QED
  BY <1>2, <1>3, <1>4

\* A peer that has not been acknowledged has sent neither data nor FIN.
LEMMA NoStreamYet ==
  ASSUME TypeOK, NEW c \in ActiveConns, StreamInv(c), peer_state[c] \in {"closed", "syn_rcvd"},
         NEW p \in toHost, p.conn = c
  PROVE  p.len = 0 /\ "FIN" \notin p.flags
<1>1. peer_sent[c] = 0 /\ peer_fin[c] = 0
  BY DEF StreamInv, PeerOk
<1>2. p.len \in Nat /\ p.first \in Nat
  BY SeqModAssumption DEF TypeOK, TcpTypeOK, ToHostOK, Segment, SeqNo
<1> QED
  BY <1>1, <1>2 DEF StreamInv, HostSegments

\* While tcp_connect waits and the peer's side is not reset, no acknowledgement of
\* c's is on its way.
LEMMA NotYetEst ==
  ASSUME NEW c \in ActiveConns, StreamInv(c), tcp_connect = c, tcp_state = "syn_sent",
         Est(c)
  PROVE  peer_state[c] = "reset"
BY DEF StreamInv, SynSentOk, Est

\* The peer's answer acknowledges its SYN and no more: it has sent nothing else.
LEMMA FirstAckEst ==
  ASSUME TypeOK, NEW c \in ActiveConns, StreamInv(c), NEW p \in toPeer, p.conn = c,
         PeerReceive(p)
  PROVE  Est(c)
<1>1. CASE peer_state[c] = "established"
  BY <1>1 DEF StreamInv, PeerOk
<1>2. CASE peer_state[c] = "syn_rcvd"
  <2>1. peer_sent[c] + peer_fin[c] = 0
    BY <1>2 DEF StreamInv, PeerOk
  <2>2. p.ack \in SeqNo /\ PeerSeq(c, 1) \in SeqNo
    <3>1. c \in Conns /\ 1 \in 0 .. PeerLen + 2
      BY PeerAssumption DEF ActiveConns
    <3> QED
      BY <3>1, PeerSeqType DEF TypeOK, TcpTypeOK, Segment
  <2>3. SeqSub(p.ack, PeerSeq(c, 1)) <= 0
    BY <2>1 DEF PeerReceive, AckOk, PeerSeq
  <2>4. p.ack = PeerSeq(c, 1)
    BY <2>2, <2>3, SeqModAssumption DEF SeqSub, SeqNo
  <2> QED
    BY <2>4 DEF Est, PeerReceive
<1> QED
  BY <1>1, <1>2 DEF PeerReceive

\* A segment of ours taken by its peer.
LEMMA PeerProcessKeeps ==
  ASSUME TypeOK, NEW c \in ActiveConns, StreamInv(c),
         UNCHANGED <<tcp_state, cb, timer, caller, toPeer, history>>,
         NEW p \in toPeer, PeerProcess(p)
  PROVE  StreamInv(c)'
<1> DEFINE d == p.conn
<1>1. /\ d \in Conns /\ c \in Conns
      /\ peer_state \in [Conns -> {"closed", "syn_sent", "syn_rcvd", "established", "reset"}]
      /\ c # d => peer_state'[c] = peer_state[c]
      /\ UNCHANGED <<peer_sent, peer_fin>>
  <2>1. d \in Conns /\ c \in Conns
    BY DEF PeerProcess, ActiveConns
  <2>2. peer_state \in [Conns -> {"closed", "syn_sent", "syn_rcvd", "established", "reset"}]
    BY DEF TypeOK, PeerTypeOK
  <2>3. UNCHANGED <<peer_sent, peer_fin>>
    BY DEF PeerProcess, PeerAccept, PeerRefuse, PeerEstablished, PeerReceive, PeerChallenge,
           PeerUnknown, PeerIsReset, peerVars
  <2>4. peer_state' = peer_state \/ \E s : peer_state' = [peer_state EXCEPT ![d] = s]
    BY DEF PeerProcess, PeerAccept, PeerRefuse, PeerEstablished, PeerReceive, PeerChallenge,
           PeerUnknown, PeerIsReset, peerVars
  <2> QED
    BY <2>1, <2>2, <2>3, <2>4
<1>2. \A q \in toHost' : q \in toHost \/ q.conn = d
  <2>1. \A f, s, first, len, id : PeerSegment(d, f, s, first, len, id).conn = d
    BY DEF PeerSegment
  <2>2. \A f, s, a : [PeerBare(d, f, s) EXCEPT !.ack = a].conn = d
    BY DEF PeerBare, PeerSegment
  <2>3. PeerAck(d).conn = d
    BY <2>2 DEF PeerAck
  <2>4. UNCHANGED toHost \/ \E q : PeerSends(q) /\ q.conn = d
    <3>1. CASE PeerAccept(p)
      <4> DEFINE r == [PeerBare(d, {"SYN", "ACK"}, PeerIsn[d]) EXCEPT !.ack = SeqAdd(p.seq, 1)]
      <4>1. PeerSends(r)
        BY <3>1 DEF PeerAccept
      <4>2. r.conn = d
        BY <2>2
      <4> HIDE DEF r
      <4> QED
        BY <4>1, <4>2
    <3>2. CASE PeerRefuse(p) \/ PeerUnknown(p)
      <4>1. \E f, id : PeerSends(PeerSegment(d, f, 0, 0, 0, id))
        BY <3>2 DEF PeerRefuse, PeerUnknown
      <4> QED
        BY <2>1, <4>1
    <3>3. CASE PeerEstablished(p) \/ PeerReceive(p) \/ PeerChallenge(p)
      BY <2>3, <3>3 DEF PeerEstablished, PeerReceive, PeerChallenge
    <3> QED
      BY <3>1, <3>2, <3>3 DEF PeerProcess, PeerIsReset
  <2> QED
    BY <2>4 DEF PeerSends
<1>3. CASE c # d
  BY <1>1, <1>2, <1>3, OtherPeerKeeps
<1>4. CASE c = d
  <2>1. \E q \in toPeer : q.conn = c
    BY <1>4
  <2>2. Est(c) => BareFromPeer(c, PeerAck(d))
    BY DEF BareFromPeer, PeerAck, PeerBare, PeerSegment
  <2>3. CASE PeerAccept(p)
    <3> DEFINE r == [PeerBare(d, {"SYN", "ACK"}, PeerIsn[d]) EXCEPT !.ack = SeqAdd(p.seq, 1)]
    <3>1. r.len = 0 /\ r.flags = {"SYN", "ACK"} /\ r.seq = PeerIsn[c]
      BY <1>4 DEF PeerBare, PeerSegment
    <3>2. /\ peer_state[c] = "closed" /\ peer_state'[c] = "syn_rcvd"
          /\ \A q \in toHost' : q \in toHost \/ (BareFromPeer(c, q) /\ "RST" \notin q.flags)
      <4>1. peer_state[c] = "closed" /\ peer_state'[c] = "syn_rcvd" /\ toHost' = toHost \cup {r}
        BY <1>1, <1>4, <2>3 DEF PeerAccept, PeerSends
      <4>2. BareFromPeer(c, r) /\ "RST" \notin r.flags
        BY <3>1 DEF BareFromPeer
      <4> HIDE DEF r
      <4> QED
        BY <4>1, <4>2
    <3>3. SynSentOk(c)'
      BY <3>2 DEF StreamInv, SynSentOk, cb, history
    <3> QED
      BY <1>1, <2>1, <3>2, <3>3, OwnPeerRest DEF StreamInv
  <2>4. CASE PeerRefuse(p)
    <3>1. /\ peer_state[c] = "closed" /\ peer_state'[c] = "reset"
          /\ \A q \in toHost' : q \in toHost \/ BareFromPeer(c, q)
      BY <1>1, <1>4, <2>4 DEF PeerRefuse, PeerSends, PeerSegment, BareFromPeer
    <3>2. SynSentOk(c)'
      BY <3>1, NoStreamYet DEF StreamInv, SynSentOk, BareFromPeer, cb, history
    <3> QED
      BY <1>1, <2>1, <3>1, <3>2, OwnPeerRest DEF StreamInv
  <2>5. ~PeerEstablished(p)
    BY <1>4 DEF StreamInv, PeerOk, PeerEstablished
  <2>6. CASE PeerReceive(p)
    <3>1. Est(c)
      BY <1>4, <2>6, FirstAckEst
    <3>2. /\ peer_state'[c] = "established" /\ peer_state[c] # "reset"
          /\ \A q \in toHost' : q \in toHost \/ q = PeerAck(d)
      BY <1>1, <1>4, <2>6 DEF PeerReceive, PeerSends
    <3>3. SynSentOk(c)'
      BY <3>1, <3>2, NotYetEst DEF SynSentOk, cb
    <3> QED
      BY <1>1, <2>1, <2>2, <3>1, <3>2, <3>3, OwnPeerRest DEF StreamInv
  <2>7. CASE PeerChallenge(p)
    <3>1. /\ peer_state[c] = "established" /\ peer_state' = peer_state
          /\ \A q \in toHost' : q \in toHost \/ q = PeerAck(d)
      BY <1>4, <2>7 DEF PeerChallenge, PeerSends, peerVars
    <3>2. Est(c)
      BY <3>1 DEF StreamInv, PeerOk
    <3>3. SynSentOk(c)'
      BY <3>1, <3>2, NotYetEst DEF SynSentOk, cb
    <3> QED
      BY <1>1, <2>1, <2>2, <3>1, <3>2, <3>3, OwnPeerRest DEF StreamInv
  <2>8. CASE PeerUnknown(p)
    <3>1. /\ peer_state[c] \in {"closed", "syn_rcvd", "reset"} /\ peer_state' = peer_state
          /\ \A q \in toHost' : q \in toHost \/ BareFromPeer(c, q)
      BY <1>4, <2>8
      DEF PeerUnknown, PeerSends, PeerSegment, BareFromPeer, peerVars, StreamInv, PeerOk
    <3>2. tcp_connect = c /\ tcp_state = "syn_sent" => peer_state[c] = "reset"
      BY <1>4, <2>8 DEF PeerUnknown, StreamInv, SynSentOk
    <3>3. SynSentOk(c)'
      BY <3>1, <3>2 DEF StreamInv, SynSentOk, BareFromPeer, cb, history
    <3> QED
      BY <1>1, <2>1, <3>1, <3>3, OwnPeerRest DEF StreamInv
  <2>9. CASE PeerIsReset(p)
    <3>1. /\ peer_state[c] \in {"syn_rcvd", "established"} /\ peer_state'[c] = "reset"
          /\ toHost' = toHost
      BY <1>1, <1>4, <2>9 DEF PeerIsReset, StreamInv, PeerOk
    <3>2. SynSentOk(c)'
      BY <3>1, NoStreamYet DEF StreamInv, SynSentOk, cb, history
    <3> QED
      BY <1>1, <2>1, <3>1, <3>2, OwnPeerRest DEF StreamInv
  <2> QED
    BY <2>3, <2>4, <2>5, <2>6, <2>7, <2>8, <2>9 DEF PeerProcess
<1> QED
  BY <1>3, <1>4

\* The peer of c writes or gives up: c is established.
LEMMA PeerWriteKeeps ==
  ASSUME TypeOK, NEW c \in ActiveConns, StreamInv(c),
         UNCHANGED <<tcp_state, cb, timer, caller, toPeer, history>>,
         NEW first \in 1 .. PeerLen + 1, NEW last \in 0 .. PeerLen, NEW fin \in {0, 1},
         PeerWrite(c, first, last, fin)
  PROVE  StreamInv(c)'
<1> USE DEF StreamInv, cb, caller, history
<1> DEFINE q == PeerSegment(c, IF fin = 1 THEN {"FIN", "ACK"} ELSE {"ACK"},
                           PeerSeq(c, first), first, last - first + 1, "other")
<1>1. /\ peer_state[c] = "established" /\ peer_state' = peer_state
      /\ peer_sent[c] \in 0 .. PeerLen /\ peer_fin[c] \in {0, 1} /\ PeerLen \in Nat
      /\ peer_sent'[c] = IF last > peer_sent[c] THEN last ELSE peer_sent[c]
      /\ peer_fin'[c] = IF fin = 1 THEN 1 ELSE peer_fin[c]
      /\ fin = 1 => last >= peer_sent[c]
      /\ peer_fin[c] = 1 => last <= peer_sent[c]
      /\ last >= first - 1
      /\ toHost' = toHost \cup {q}
  BY PeerAssumption DEF PeerWrite, PeerSends, TypeOK, PeerTypeOK, ActiveConns
<1>2. Est(c) /\ Est(c)' /\ \E p \in toPeer : p.conn = c
  BY <1>1 DEF PeerOk, Est, PeerSeq
<1>3. /\ q.conn = c /\ q.seq = PeerSeq(c, q.first) /\ q.first >= 1
      /\ q.flags = IF fin = 1 THEN {"FIN", "ACK"} ELSE {"ACK"}
      /\ q.first + q.len - 1 = last
  BY DEF PeerSegment
<1> HIDE DEF q
<1>4. /\ peer_sent'[c] \in Nat /\ last <= peer_sent'[c] /\ peer_sent[c] <= peer_sent'[c]
      /\ peer_fin[c] = 1 => peer_fin'[c] = 1 /\ peer_sent'[c] = peer_sent[c]
      /\ fin = 1 => peer_fin'[c] = 1 /\ peer_sent'[c] = last
  BY <1>1
<1>5. HostSegments(c)'
  <2> SUFFICES ASSUME NEW p \in toHost', p.conn = c
               PROVE  /\ "SYN" \in p.flags => p.flags = {"SYN", "ACK"} /\ p.seq = PeerIsn[c]
                      /\ p.len > 0 \/ "FIN" \in p.flags =>
                           /\ p.flags \cap {"SYN", "RST"} = {}
                           /\ p.seq = PeerSeq(c, p.first)
                           /\ p.first >= 1 /\ p.first + p.len - 1 <= peer_sent'[c]
                      /\ "FIN" \in p.flags =>
                           peer_fin'[c] = 1 /\ p.first + p.len - 1 = peer_sent'[c]
    BY <1>2 DEF HostSegments, PeerSeq
  <2>1. CASE p \in toHost
    <3>1. p.first \in Nat /\ p.len \in Nat
      BY <2>1, SeqModAssumption DEF TypeOK, TcpTypeOK, ToHostOK, Segment, SeqNo
    <3> QED
      BY <1>1, <1>4, <2>1, <3>1 DEF HostSegments
  <2>2. CASE p = q
    BY <1>3, <1>4, <2>2
  <2> QED
    BY <1>1, <2>1, <2>2
<1>6. Len(delivered[c]) \in Nat
  BY DEF TypeOK, TcpTypeOK, HistoryOK, ActiveConns
<1>7. DeliveredOk(c)'
  BY <1>1, <1>2, <1>4, <1>6 DEF DeliveredOk
<1>8. AckOfCurrent(c)'
  BY <1>2, <1>4 DEF AckOfCurrent, AckMatch, PeerSeq
<1>9. Untouched(c)' /\ PeerOk(c)' /\ SynSentOk(c)'
  BY <1>1, <1>2, NotYetEst DEF Untouched, PeerOk, SynSentOk
<1> QED
  BY <1>5, <1>7, <1>8, <1>9

\* A peer that aborts leaves an invariant connection.
LEMMA PeerAbortKeeps ==
  ASSUME TypeOK, NEW c \in ActiveConns, StreamInv(c),
         UNCHANGED <<tcp_state, cb, timer, caller, toPeer, history>>, PeerAbort(c)
  PROVE  StreamInv(c)'
<1>1. /\ peer_state[c] = "established" /\ peer_state'[c] = "reset"
      /\ UNCHANGED <<peer_sent, peer_fin>>
      /\ \A q \in toHost' : q \in toHost \/ BareFromPeer(c, q)
  <2>1. /\ peer_state[c] = "established" /\ peer_state'[c] = "reset"
        /\ UNCHANGED <<peer_sent, peer_fin>>
    BY DEF PeerAbort, TypeOK, PeerTypeOK, ActiveConns
  <2>2. ASSUME NEW q \in toHost', q \notin toHost PROVE BareFromPeer(c, q)
    <3>1. q.len = 0 /\ q.flags = {"RST", "ACK"}
      BY <2>2 DEF PeerAbort, PeerSends, PeerSegment
    <3> QED
      BY <3>1 DEF BareFromPeer
  <2> QED
    BY <2>1, <2>2
<1>2. Est(c) /\ \E p \in toPeer : p.conn = c
  BY <1>1 DEF StreamInv, PeerOk, Est
<1>3. SynSentOk(c)'
  BY <1>1, <1>2, NotYetEst DEF SynSentOk, cb
<1> QED
  BY <1>1, <1>2, <1>3, OwnPeerRest DEF StreamInv

\* Every step of a peer keeps the invariant.
LEMMA PeerNextKeeps ==
  ASSUME TypeOK, NEW c \in ActiveConns, StreamInv(c), PeerNext,
         UNCHANGED <<tcp_state, cb, timer, caller, toPeer, history>>
  PROVE  StreamInv(c)'
<1>1. ASSUME NEW d \in Conns,
             \/ PeerConnect(d) \/ PeerAbort(d)
             \/ \E first \in 1 .. PeerLen + 1, last \in 0 .. PeerLen, fin \in {0, 1} :
                  PeerWrite(d, first, last, fin)
      PROVE  StreamInv(c)'
  <2>1. CASE c # d
    <3>1. /\ UNCHANGED <<peer_state[c], peer_sent[c], peer_fin[c]>>
          /\ \A p \in toHost' : p \in toHost \/ p.conn = d
      BY <1>1, <2>1
      DEF PeerConnect, PeerAbort, PeerWrite, PeerSends, PeerBare, PeerSegment, TypeOK,
          PeerTypeOK, ActiveConns
    <3> QED
      BY <2>1, <3>1, OtherPeerKeeps
  <2>2. CASE c = d
    <3>1. ~PeerConnect(d)
      BY <2>2 DEF PeerConnect, ActiveConns
    <3> QED
      BY <1>1, <2>2, <3>1, PeerAbortKeeps, PeerWriteKeeps
  <2> QED
    BY <2>1, <2>2
<1> QED
  BY <1>1, PeerProcessKeeps DEF PeerNext

----------------------------------------------------------------------------
\* tcp_send's loop starts on an established connection and nothing reopens one.
LEMMA SendOkKept == TypeOK /\ SendOk /\ [Next]_vars => SendOk'
<1> SUFFICES ASSUME TypeOK, SendOk, [Next]_vars PROVE SendOk'
  OBVIOUS
<1>1. CASE UNCHANGED <<tcp_state, call>>
  BY <1>1 DEF SendOk
<1>2. CASE TcpNext /\ UNCHANGED peerVars
  <2>1. ASSUME NEW p \in toHost, TcpProcess(p) PROVE SendOk'
    BY <2>1
    DEF SendOk, TcpProcess, Poll, RstSegment, EchoedRst, IgnoredRst, SynAckExpected,
        SynAckRepeated, NotOurs, DataSegment, OutOfOrder, PureAck, FinSegment, SynAccepted,
        SynIgnored, SynDeclined, AckCurrent, Ignored
  <2>2. CASE \/ \E c \in Conns : TcpConnect(c)
             \/ TcpListen \/ \E len \in SendLens : TcpSend(len)
             \/ TcpClose \/ TcpCloseNotEstablished \/ TcpSendKeepAlive
    BY <2>2
    DEF SendOk, TcpConnect, TcpListen, TcpSend, TcpClose, TcpCloseNotEstablished,
        TcpSendKeepAlive, StartCall, caller
  <2>3. CASE \/ Abort \/ CallReturns \/ KeepPolling \/ TickDelay \/ TickResend
             \/ TickTimeout \/ NoSegment
    BY <2>3
    DEF SendOk, Abort, CallReturns, ConnectReturns, ListenReturns, SendReturns,
        CloseReturns, KeepPolling, TickDelay, TickResend, TickTimeout, NoSegment, Return,
        Poll
  <2> QED
    BY <1>2, <2>1, <2>2, <2>3 DEF TcpNext
<1> QED
  BY <1>1, <1>2 DEF Next, vars, tcpVars, caller

\* The invariant holds initially.
LEMMA IInvInit == Init => IInv
BY StrayAssumption, ConnAssumption
DEF Init, TcpInit, PeerInit, IInv, SendOk, StreamInv, Untouched, HostSegments, PeerOk,
    DeliveredOk, AckOfCurrent, SynSentOk, Est, ActiveConns

\* Every step keeps it.
LEMMA IInvKept == TypeOK /\ IInv /\ [Next]_vars => IInv'
<1> SUFFICES ASSUME TypeOK, IInv, [Next]_vars PROVE IInv'
  OBVIOUS
<1>1. ASSUME NEW c \in ActiveConns PROVE StreamInv(c)'
  <2>1. CASE TcpNext /\ UNCHANGED peerVars
    BY <2>1, TcpNextKeeps DEF IInv
  <2>2. CASE PeerNext /\ UNCHANGED <<tcp_state, cb, timer, caller, toPeer, history>>
    BY <2>2, PeerNextKeeps DEF IInv
  <2>3. CASE UNCHANGED vars
    BY <2>3, OtherPeerKeeps DEF IInv, vars, tcpVars, peerVars
  <2> QED
    BY <2>1, <2>2, <2>3 DEF Next
<1> QED
  BY <1>1, SendOkKept DEF IInv, ActiveConns

\* The agreement between the control block, the segments in flight and what has been
\* delivered holds in every reachable state (tcp_process, tcp_connect).
THEOREM AgreementInvariant == Spec => []IInv
<1>1. Init => TypeOK /\ IInv
  BY InitType, IInvInit
<1>2. TypeOK /\ IInv /\ [Next]_vars => (TypeOK /\ IInv)'
  BY NextType, IInvKept
<1> QED
  BY <1>1, <1>2, PTL DEF Spec

\* The callback sees the peer's bytes in order, each once, none skipped, on every
\* connection opened by tcp_connect, whatever the network loses, repeats or reorders and
\* wherever the sequence numbers wrap (tcp_process, the test of SEQ before the callback).
THEOREM InOrder == Spec => []InOrderDelivery
<1>1. IInv => InOrderDelivery
  BY DEF IInv, StreamInv, DeliveredOk, InOrderDelivery
<1> QED
  BY <1>1, AgreementInvariant, PTL

\* A step of the peer of d.
PeerStep(d) ==
  \/ PeerConnect(d) \/ PeerAbort(d)
  \/ \E first \in 1 .. PeerLen + 1, last \in 0 .. PeerLen, fin \in {0, 1} :
       PeerWrite(d, first, last, fin)
  \/ \E p \in toPeer : p.conn = d /\ PeerProcess(p)

\* Every step of the peers is that of one of them.
LEMMA PeerNextSteps == PeerNext => \E d \in Conns : PeerStep(d)
BY DEF PeerNext, PeerProcess, PeerStep

\* A peer sends segments of its own connection.
LEMMA PeerSendsOwn ==
  ASSUME NEW d \in Conns, PeerStep(d)
  PROVE  \A q \in toHost' : q \in toHost \/ q.conn = d
<1>1. CASE \/ PeerConnect(d) \/ PeerAbort(d)
           \/ \E first \in 1 .. PeerLen + 1, last \in 0 .. PeerLen, fin \in {0, 1} :
                PeerWrite(d, first, last, fin)
  BY <1>1 DEF PeerConnect, PeerAbort, PeerWrite, PeerSends, PeerBare, PeerSegment
<1>2. ASSUME NEW p \in toPeer, p.conn = d, PeerProcess(p)
      PROVE  \A q \in toHost' : q \in toHost \/ q.conn = d
  <2>1. PeerAck(d).conn = d /\ \A f, s, id : PeerSegment(d, f, s, 0, 0, id).conn = d
    BY DEF PeerAck, PeerBare, PeerSegment
  <2>2. CASE PeerAccept(p)
    <3> DEFINE r == [PeerBare(d, {"SYN", "ACK"}, PeerIsn[d]) EXCEPT !.ack = SeqAdd(p.seq, 1)]
    <3>1. toHost' = toHost \cup {r}
      BY <1>2, <2>2 DEF PeerAccept, PeerSends
    <3>2. r.conn = d
      BY DEF PeerBare, PeerSegment
    <3> HIDE DEF r
    <3> QED
      BY <3>1, <3>2
  <2>3. CASE PeerRefuse(p) \/ PeerUnknown(p)
    <3>1. \E f, id : toHost' = toHost \cup {PeerSegment(d, f, 0, 0, 0, id)}
      BY <1>2, <2>3 DEF PeerRefuse, PeerUnknown, PeerSends
    <3> QED
      BY <2>1, <3>1
  <2>4. CASE PeerEstablished(p) \/ PeerReceive(p) \/ PeerChallenge(p)
    <3>1. \A q \in toHost' : q \in toHost \/ q = PeerAck(d)
      BY <1>2, <2>4 DEF PeerEstablished, PeerReceive, PeerChallenge, PeerSends
    <3> QED
      BY <2>1, <3>1
  <2> QED
    BY <1>2, <2>2, <2>3, <2>4 DEF PeerProcess, PeerIsReset
<1> QED
  BY <1>1, <1>2 DEF PeerStep

\* It leaves the state of the others alone.
LEMMA OtherPeer ==
  ASSUME TypeOK, NEW c \in Conns, NEW d \in Conns, c # d, PeerStep(d)
  PROVE  UNCHANGED <<peer_state[c], peer_sent[c], peer_fin[c]>>
<1>1. CASE \/ PeerConnect(d) \/ PeerAbort(d)
           \/ \E first \in 1 .. PeerLen + 1, last \in 0 .. PeerLen, fin \in {0, 1} :
                PeerWrite(d, first, last, fin)
  BY <1>1 DEF PeerConnect, PeerAbort, PeerWrite, TypeOK, PeerTypeOK
<1>2. ASSUME NEW p \in toPeer, p.conn = d, PeerProcess(p)
      PROVE  UNCHANGED <<peer_state[c], peer_sent[c], peer_fin[c]>>
  <2>1. /\ UNCHANGED <<peer_sent, peer_fin>>
        /\ peer_state' = peer_state \/ \E s : peer_state' = [peer_state EXCEPT ![d] = s]
    BY <1>2 DEF PeerProcess, PeerAccept, PeerRefuse, PeerEstablished, PeerReceive,
                PeerChallenge, PeerUnknown, PeerIsReset, peerVars
  <2> QED
    BY <2>1 DEF TypeOK, PeerTypeOK
<1> QED
  BY <1>1, <1>2 DEF PeerStep

----------------------------------------------------------------------------
\* Types of an accepted connection.
LEMMA AcceptedTypes ==
  ASSUME TypeOK, NEW c \in ListenConns
  PROVE  /\ c \in Conns /\ PeerLen \in Nat
         /\ delivered \in [Conns -> Seq(Nat)] /\ Len(delivered[c]) \in Nat
         /\ peer_sent[c] \in 0 .. PeerLen /\ peer_fin[c] \in {0, 1}
<1>1. c \in Conns /\ PeerLen \in Nat
  BY ConnAssumption, PeerAssumption
<1>2. delivered \in [Conns -> Seq(Nat)]
  BY DEF TypeOK, TcpTypeOK, HistoryOK
<1> QED
  BY <1>1, <1>2 DEF TypeOK, PeerTypeOK

\* The byte delivered last is one the peer has sent.
LEMMA LastByteSent ==
  ASSUME TypeOK, NEW c \in ListenConns, NoneSkipped(c)
  PROVE  /\ LastByte(c) \in 0 .. peer_sent[c]
         /\ delivered[c] # <<>> => LastByte(c) = delivered[c][Len(delivered[c])]
<1>1. delivered[c] \in Seq(Nat) /\ peer_sent[c] \in Nat
  BY AcceptedTypes
<1>2. CASE delivered[c] = <<>>
  BY <1>1, <1>2 DEF LastByte
<1>3. CASE delivered[c] # <<>>
  <2>1. Len(delivered[c]) \in 1 .. Len(delivered[c])
    BY <1>1, <1>3, EmptySeq
  <2> QED
    BY <1>1, <1>3, <2>1 DEF LastByte, NoneSkipped
<1> QED
  BY <1>2, <1>3

\* A segment with data or FIN that starts where ack_number points starts with the first
\* byte or with the one after the last.
LEMMA AwaitedAfterLast ==
  ASSUME TypeOK, NEW c \in ListenConns, PeerSegments(c), NoneSkipped(c), AckAfterLast(c),
         NEW p \in toHost, p.conn = c, tcp_connect = c, p.seq = ack_number,
         p.len > 0 \/ "FIN" \in p.flags
  PROVE  p.first = 1 \/ p.first = LastByte(c) + 1
<1> DEFINE l == LastByte(c)
           s == peer_sent[c]
           f == p.first
<1>1. /\ l \in 0 .. s /\ s \in 0 .. PeerLen /\ PeerLen \in Nat /\ c \in Conns
      /\ f \in Nat /\ p.len \in Nat
  BY AcceptedTypes, LastByteSent, SeqModAssumption
  DEF TypeOK, TcpTypeOK, ToHostOK, Segment, SeqNo
<1>2. p.seq = PeerSeq(c, f) /\ f >= 1 /\ f + p.len - 1 <= s
  BY DEF PeerSegments
<1>3. \/ ack_number = PeerSeq(c, 1) \/ ack_number = PeerSeq(c, l + 1)
      \/ ack_number = PeerSeq(c, l + 2) /\ l = s
  BY DEF AckAfterLast
<1> HIDE DEF l, s, f
<1>4. /\ f \in 1 .. s + 1 /\ f \in 0 .. PeerLen + 2 /\ 1 \in 0 .. PeerLen + 2
      /\ l + 1 \in 0 .. PeerLen + 2 /\ l + 2 \in 0 .. PeerLen + 2
  BY <1>1, <1>2
<1>5. f = 1 \/ f = l + 1 \/ (f = l + 2 /\ l = s)
  BY <1>1, <1>2, <1>3, <1>4, PeerSeqInjective
<1> QED
  BY <1>1, <1>4, <1>5 DEF f, l

AcceptedOk(c) == PeerSegments(c) /\ NoneSkipped(c) /\ AckAfterLast(c)

\* A step of the endpoint that delivers nothing on c and leaves ack_number alone.
LEMMA AcceptedQuiet ==
  ASSUME NEW c \in ListenConns, AcceptedOk(c), UNCHANGED toHost, UNCHANGED peerVars,
         delivered'[c] = delivered[c],
         tcp_connect' = c => tcp_connect = c /\ ack_number' = ack_number
  PROVE  AcceptedOk(c)'
BY DEF AcceptedOk, PeerSegments, NoneSkipped, AckAfterLast, LastByte, PeerSeq, peerVars

\* The calls and the ticks do not touch ack_number; tcp_connect is to another.
LEMMA CallsAccepted ==
  ASSUME TypeOK, NEW c \in ListenConns, AcceptedOk(c), UNCHANGED peerVars,
         \/ \E d \in Conns : TcpConnect(d)
         \/ TcpListen
         \/ \E len \in SendLens : TcpSend(len)
         \/ TcpClose \/ TcpCloseNotEstablished \/ TcpSendKeepAlive
         \/ Abort \/ CallReturns \/ KeepPolling
         \/ TickDelay \/ TickResend \/ TickTimeout \/ NoSegment
  PROVE  AcceptedOk(c)'
<1>1. /\ UNCHANGED <<toHost, delivered>>
      /\ tcp_connect' = c => tcp_connect = c /\ ack_number' = ack_number
  <2>1. CASE \/ \E d \in Conns : TcpConnect(d)
             \/ TcpListen \/ \E len \in SendLens : TcpSend(len)
             \/ TcpClose \/ TcpCloseNotEstablished \/ TcpSendKeepAlive
    BY <2>1
    DEF TcpConnect, TcpListen, TcpSend, TcpClose, TcpCloseNotEstablished,
        TcpSendKeepAlive, history, cb
  <2>2. CASE \/ Abort \/ CallReturns \/ KeepPolling
             \/ TickDelay \/ TickResend \/ TickTimeout \/ NoSegment
    BY <2>2
    DEF Abort, CallReturns, ConnectReturns, ListenReturns, SendReturns, CloseReturns,
        KeepPolling, TickDelay, TickResend, TickTimeout, NoSegment, Poll, history, cb
  <2> QED
    BY <2>1, <2>2
<1> QED
  BY <1>1, AcceptedQuiet

\* Bytes appended to what has been delivered, from the first on or from the next.
LEMMA AppendedBytes ==
  ASSUME NEW s \in Seq(Nat), NEW t \in Seq(Nat), NEW first \in Nat, NEW sent \in Nat,
         Len(t) > 0, \A i \in 1 .. Len(t) : t[i] = first + i - 1,
         first >= 1, first + Len(t) - 1 <= sent,
         first = 1 \/ (s # <<>> /\ first = s[Len(s)] + 1),
         \A i \in 1 .. Len(s) :
           /\ s[i] \in 1 .. sent
           /\ s[i] = 1 \/ (i > 1 /\ s[i] = s[i - 1] + 1)
  PROVE  /\ s \o t # <<>> /\ (s \o t)[Len(s \o t)] = first + Len(t) - 1
         /\ \A i \in 1 .. Len(s \o t) :
              /\ (s \o t)[i] \in 1 .. sent
              /\ (s \o t)[i] = 1 \/ (i > 1 /\ (s \o t)[i] = (s \o t)[i - 1] + 1)
<1> DEFINE m == Len(s)
           n == Len(t)
           u == s \o t
<1>1. /\ m \in Nat /\ n \in Nat /\ Len(u) = m + n /\ u \in Seq(Nat)
      /\ \A i \in 1 .. m + n : u[i] = IF i <= m THEN s[i] ELSE t[i - m]
  BY ConcatProperties
<1>2. s # <<>> => m > 0
  BY EmptySeq
<1>3. /\ n > 0 /\ first + n - 1 <= sent
      /\ first = 1 \/ (m > 0 /\ first = s[m] + 1)
      /\ \A i \in 1 .. n : t[i] = first + i - 1
      /\ \A i \in 1 .. m :
           s[i] \in 1 .. sent /\ (s[i] = 1 \/ (i > 1 /\ s[i] = s[i - 1] + 1))
  BY <1>2
<1> HIDE DEF u, m, n
<1>4. \A i \in 1 .. m : u[i] = s[i]
  BY <1>1
<1>5. \A j \in 1 .. n : u[m + j] = first + j - 1
  <2>1. SUFFICES ASSUME NEW j \in 1 .. n PROVE u[m + j] = first + j - 1
    OBVIOUS
  <2> DEFINE k == m + j
  <2>2. k \in 1 .. m + n /\ ~(k <= m) /\ k - m = j
    BY <1>1
  <2> HIDE DEF k
  <2>3. u[k] = t[j]
    BY <1>1, <2>2
  <2>4. t[j] = first + j - 1
    BY <1>3
  <2> QED
    BY <2>3, <2>4 DEF k
<1>6. u # <<>> /\ u[Len(u)] = first + n - 1
  <2>1. Len(u) > 0
    BY <1>1, <1>3
  <2>2. u # <<>>
    BY <2>1
  <2>3. n \in 1 .. n
    BY <1>1, <1>3
  <2>4. u[m + n] = first + n - 1
    BY <1>5, <2>3
  <2> QED
    BY <1>1, <2>2, <2>4
<1>7. ASSUME NEW i \in 1 .. m + n
      PROVE  u[i] \in 1 .. sent /\ (u[i] = 1 \/ (i > 1 /\ u[i] = u[i - 1] + 1))
  <2>1. CASE i <= m
    <3>1. i \in 1 .. m /\ (i > 1 => i - 1 \in 1 .. m)
      BY <1>1, <2>1
    <3> QED
      BY <1>3, <1>4, <3>1
  <2>2. CASE i = m + 1
    <3>1. u[i] = first
      BY <1>1, <1>3, <1>5, <2>2
    <3>2. first \in 1 .. sent
      BY <1>1, <1>3
    <3>3. CASE m > 0 /\ first = s[m] + 1
      <4>1. m \in 1 .. m /\ i - 1 = m /\ i > 1
        BY <1>1, <2>2, <3>3
      <4> QED
        BY <1>4, <3>1, <3>2, <3>3, <4>1
    <3> QED
      BY <1>3, <3>1, <3>2, <3>3
  <2>3. CASE i > m + 1
    <3>1. i - m \in 1 .. n /\ i - m - 1 \in 1 .. n /\ m + (i - m) = i /\ m + (i - m - 1) = i - 1
      BY <1>1, <2>3
    <3>2. u[i] = first + (i - m) - 1 /\ u[i - 1] = first + (i - m - 1) - 1
      BY <1>5, <3>1
    <3> QED
      BY <1>1, <1>3, <2>3, <3>1, <3>2
  <2> QED
    BY <1>1, <2>1, <2>2, <2>3
<1> QED
  BY <1>1, <1>6, <1>7 DEF n, u

\* Data are the bytes from the first on, or from the one after the last.
LEMMA DataAccepted ==
  ASSUME TypeOK, NEW c \in ListenConns, AcceptedOk(c), UNCHANGED peerVars,
         NEW p \in toHost, Poll, DataSegment(p)
  PROVE  AcceptedOk(c)'
<1>1. /\ p.conn = tcp_connect /\ p.seq = ack_number /\ p.len > 0
      /\ delivered' = [delivered EXCEPT ![tcp_connect] = @ \o Bytes(p)]
      /\ ack_number' = SeqAdd(ack_number, p.len)
      /\ UNCHANGED <<toHost, tcp_connect>>
  BY DEF DataSegment, AckSegment, Current, Expected, Poll
<1>2. CASE tcp_connect # c
  <2>1. delivered'[c] = delivered[c]
    BY <1>1, <1>2, AcceptedTypes
  <2> QED
    BY <1>1, <1>2, <2>1, AcceptedQuiet
<1>3. CASE tcp_connect = c
  <2> DEFINE s == delivered[c]
             t == Bytes(p)
             sent == peer_sent[c]
             f == p.first
             l == p.len
  <2>1. /\ p \in Segment /\ l \in Nat /\ f \in Nat /\ c \in Conns /\ s \in Seq(Nat)
        /\ sent \in 0 .. PeerLen /\ PeerLen \in Nat /\ t \in Seq(Nat) /\ Len(t) = l
    BY AcceptedTypes, BytesType, SeqModAssumption
    DEF TypeOK, TcpTypeOK, ToHostOK, Segment, SeqNo
  <2>2. p.seq = PeerSeq(c, f) /\ f >= 1 /\ f + l - 1 <= sent /\ l > 0
    BY <1>1, <1>3 DEF AcceptedOk, PeerSegments
  <2>3. f = 1 \/ f = LastByte(c) + 1
    BY <1>1, <1>3, AwaitedAfterLast DEF AcceptedOk
  <2>4. /\ f = 1 \/ (s # <<>> /\ f = s[Len(s)] + 1)
        /\ \A i \in 1 .. Len(s) :
             /\ s[i] \in 1 .. sent
             /\ s[i] = 1 \/ (i > 1 /\ s[i] = s[i - 1] + 1)
    BY <2>3 DEF AcceptedOk, NoneSkipped, LastByte
  <2>5. \A i \in 1 .. Len(t) : t[i] = f + i - 1
    BY <2>1 DEF Bytes
  <2>6. delivered'[c] = s \o t
    BY <1>1, <1>3, <2>1, AcceptedTypes
  <2> HIDE DEF s, t, sent, f, l
  <2>7. /\ s \o t # <<>> /\ (s \o t)[Len(s \o t)] = f + l - 1
        /\ \A i \in 1 .. Len(s \o t) :
             /\ (s \o t)[i] \in 1 .. sent
             /\ (s \o t)[i] = 1 \/ (i > 1 /\ (s \o t)[i] = (s \o t)[i - 1] + 1)
    <3>1. sent \in Nat /\ Len(t) > 0 /\ f + Len(t) - 1 <= sent
      BY <2>1, <2>2
    <3> QED
      BY <2>1, <2>2, <2>4, <2>5, <3>1, AppendedBytes
  <2>8. NoneSkipped(c)' /\ LastByte(c)' = f + l - 1
    BY <2>6, <2>7 DEF NoneSkipped, LastByte, peerVars, sent
  <2>9. ack_number' = PeerSeq(c, f + l - 1 + 1)
    <3>1. f + l \in 0 .. PeerLen + 2 /\ f + l - 1 + 1 = f + l
      BY <2>1, <2>2
    <3> QED
      BY <1>1, <2>1, <2>2, <3>1, PeerSeqAdd DEF l
  <2>10. PeerSegments(c)'
    BY <1>1 DEF AcceptedOk, PeerSegments, PeerSeq, peerVars
  <2> QED
    BY <2>8, <2>9, <2>10 DEF AcceptedOk, AckAfterLast, PeerSeq
<1> QED
  BY <1>2, <1>3

\* The FIN comes after the last byte of the peer.
LEMMA FinAccepted ==
  ASSUME TypeOK, NEW c \in ListenConns, AcceptedOk(c), UNCHANGED peerVars,
         NEW p \in toHost, Poll, FinSegment(p)
  PROVE  AcceptedOk(c)'
<1>1. /\ p.conn = tcp_connect /\ p.seq = ack_number /\ p.len = 0 /\ "FIN" \in p.flags
      /\ ack_number' = SeqAdd(ack_number, 1)
      /\ UNCHANGED <<toHost, tcp_connect, delivered>>
  BY DEF FinSegment, AckSegment, Current, Expected, Poll
<1>2. CASE tcp_connect # c
  BY <1>1, <1>2, AcceptedQuiet
<1>3. CASE tcp_connect = c
  <2> DEFINE l == LastByte(c)
             f == p.first
             sent == peer_sent[c]
  <2>1. /\ l \in 0 .. sent /\ sent \in 0 .. PeerLen /\ PeerLen \in Nat /\ c \in Conns
        /\ f \in Nat
    BY AcceptedTypes, LastByteSent DEF AcceptedOk, TypeOK, TcpTypeOK, ToHostOK, Segment
  <2>2. p.seq = PeerSeq(c, f) /\ f >= 1 /\ peer_fin[c] = 1 /\ f + 0 - 1 = sent
    BY <1>1, <1>3 DEF AcceptedOk, PeerSegments
  <2>3. f = 1 \/ f = l + 1
    BY <1>1, <1>3, AwaitedAfterLast DEF AcceptedOk
  <2>4. LastByte(c)' = l /\ UNCHANGED peer_sent /\ UNCHANGED peer_fin
    BY <1>1 DEF LastByte, peerVars
  <2> HIDE DEF l, f, sent
  <2>5. l = sent /\ f = l + 1 /\ f + 1 = l + 2 /\ f + 1 \in 0 .. PeerLen + 2
    BY <2>1, <2>2, <2>3
  <2>6. ack_number' = PeerSeq(c, l + 2)
    BY <1>1, <2>1, <2>2, <2>5, PeerSeqAdd
  <2>7. AckAfterLast(c)'
    BY <2>2, <2>4, <2>5, <2>6 DEF AckAfterLast, PeerSeq, l, sent
  <2> QED
    BY <1>1, <2>4, <2>7 DEF AcceptedOk, PeerSegments, NoneSkipped, PeerSeq
<1> QED
  BY <1>2, <1>3

\* A SYN puts ack_number before the first byte of its sender.
LEMMA SynAccepts ==
  ASSUME TypeOK, NEW c \in ListenConns, AcceptedOk(c), UNCHANGED peerVars,
         NEW p \in toHost, Poll, SynAccepted(p) \/ SynAckExpected(p)
  PROVE  AcceptedOk(c)'
<1>1. /\ "SYN" \in p.flags /\ tcp_connect' = p.conn /\ ack_number' = SeqAdd(p.seq, 1)
      /\ UNCHANGED toHost
  BY DEF SynAccepted, SynAckExpected, Current, Poll
<1>2. delivered'[c] = delivered[c] \/ delivered'[c] = <<>>
  BY AcceptedTypes DEF SynAccepted, SynAckExpected, history
<1>3. NoneSkipped(c)'
  <2>1. CASE delivered'[c] = delivered[c]
    BY <2>1 DEF AcceptedOk, NoneSkipped, peerVars
  <2>2. CASE delivered'[c] = <<>>
    BY <2>2 DEF NoneSkipped
  <2> QED
    BY <1>2, <2>1, <2>2
<1>4. AckAfterLast(c)'
  BY <1>1 DEF AcceptedOk, PeerSegments, AckAfterLast, PeerSeq
<1> QED
  BY <1>1, <1>3, <1>4 DEF AcceptedOk, PeerSegments, PeerSeq, peerVars

\* Every step of the endpoint.
LEMMA TcpNextAccepted ==
  ASSUME TypeOK, NEW c \in ListenConns, AcceptedOk(c), TcpNext, UNCHANGED peerVars
  PROVE  AcceptedOk(c)'
<1>1. ASSUME NEW p \in toHost, TcpProcess(p)
      PROVE  AcceptedOk(c)'
  <2>1. CASE \/ RstSegment(p) \/ EchoedRst(p) \/ IgnoredRst(p) \/ SynAckRepeated(p)
             \/ NotOurs(p) \/ OutOfOrder(p) \/ PureAck(p) \/ SynIgnored(p) \/ SynDeclined(p)
    <3>1. UNCHANGED <<toHost, delivered, tcp_connect, ack_number>>
      BY <1>1, <2>1
      DEF TcpProcess, Poll, RstSegment, EchoedRst, IgnoredRst, SynAckRepeated, NotOurs,
          OutOfOrder, PureAck, SynIgnored, SynDeclined, AckCurrent, Ignored, cb, history
    <3> QED
      BY <3>1, AcceptedQuiet
  <2> QED
    BY <1>1, <2>1, DataAccepted, FinAccepted, SynAccepts DEF TcpProcess
<1> QED
  BY <1>1, CallsAccepted DEF TcpNext

\* A segment of the peer that agrees with its stream.
OfStream(c, q) ==
  /\ "SYN" \in q.flags => q.seq = PeerIsn[c]
  /\ q.len = 0 /\ "FIN" \notin q.flags

\* Steps of c's peer that do not write, and of the others.
LEMMA PeerAccepted ==
  ASSUME NEW c \in ListenConns, AcceptedOk(c),
         UNCHANGED <<tcp_state, cb, timer, caller, toPeer, history>>,
         UNCHANGED <<peer_sent[c], peer_fin[c]>>,
         \A q \in toHost' : q \in toHost \/ q.conn # c \/ OfStream(c, q)
  PROVE  AcceptedOk(c)'
<1> USE DEF AcceptedOk, cb, history
<1>1. PeerSegments(c)'
  BY DEF PeerSegments, OfStream, PeerSeq
<1>2. NoneSkipped(c)' /\ AckAfterLast(c)'
  BY DEF NoneSkipped, AckAfterLast, LastByte, PeerSeq
<1> QED
  BY <1>1, <1>2

\* Its own writing: new segments agree with its stream.
LEMMA WriteAccepted ==
  ASSUME TypeOK, NEW c \in ListenConns, AcceptedOk(c),
         UNCHANGED <<tcp_state, cb, timer, caller, toPeer, history>>,
         NEW first \in 1 .. PeerLen + 1, NEW last \in 0 .. PeerLen, NEW fin \in {0, 1},
         PeerWrite(c, first, last, fin)
  PROVE  AcceptedOk(c)'
<1> USE DEF AcceptedOk, cb, history
<1> DEFINE q == PeerSegment(c, IF fin = 1 THEN {"FIN", "ACK"} ELSE {"ACK"},
                           PeerSeq(c, first), first, last - first + 1, "other")
<1>1. /\ peer_sent[c] \in 0 .. PeerLen /\ peer_fin[c] \in {0, 1} /\ PeerLen \in Nat
      /\ peer_sent'[c] = IF last > peer_sent[c] THEN last ELSE peer_sent[c]
      /\ peer_fin'[c] = IF fin = 1 THEN 1 ELSE peer_fin[c]
      /\ fin = 1 => last >= peer_sent[c]
      /\ peer_fin[c] = 1 => last <= peer_sent[c]
      /\ last >= first - 1
      /\ toHost' = toHost \cup {q}
  BY AcceptedTypes, ConnAssumption DEF PeerWrite, PeerSends, TypeOK, PeerTypeOK
<1>2. /\ q.seq = PeerSeq(c, q.first) /\ q.first >= 1
      /\ q.flags = IF fin = 1 THEN {"FIN", "ACK"} ELSE {"ACK"}
      /\ q.first + q.len - 1 = last
  BY DEF PeerSegment
<1> HIDE DEF q
<1>3. /\ peer_sent'[c] \in Nat /\ last <= peer_sent'[c] /\ peer_sent[c] <= peer_sent'[c]
      /\ peer_fin[c] = 1 => peer_fin'[c] = 1 /\ peer_sent'[c] = peer_sent[c]
      /\ fin = 1 => peer_fin'[c] = 1 /\ peer_sent'[c] = last
  BY <1>1
<1>4. PeerSegments(c)'
  <2> SUFFICES ASSUME NEW p \in toHost', p.conn = c
               PROVE  /\ "SYN" \in p.flags => p.seq = PeerIsn[c]
                      /\ p.len > 0 \/ "FIN" \in p.flags =>
                           /\ p.seq = PeerSeq(c, p.first)
                           /\ p.first >= 1 /\ p.first + p.len - 1 <= peer_sent'[c]
                      /\ "FIN" \in p.flags =>
                           peer_fin'[c] = 1 /\ p.first + p.len - 1 = peer_sent'[c]
    BY DEF PeerSegments, PeerSeq
  <2>1. CASE p \in toHost
    <3>1. p.first \in Nat /\ p.len \in Nat
      BY <2>1, SeqModAssumption DEF TypeOK, TcpTypeOK, ToHostOK, Segment, SeqNo
    <3> QED
      BY <1>1, <1>3, <2>1, <3>1 DEF PeerSegments
  <2>2. CASE p = q
    BY <1>2, <1>3, <2>2
  <2> QED
    BY <1>1, <2>1, <2>2
<1>5. NoneSkipped(c)'
  <2>1. SUFFICES ASSUME NEW i \in 1 .. Len(delivered[c])
                 PROVE  /\ delivered[c][i] \in 1 .. peer_sent'[c]
                        /\ delivered[c][i] = 1
                           \/ (i > 1 /\ delivered[c][i] = delivered[c][i - 1] + 1)
    BY DEF NoneSkipped
  <2>2. /\ delivered[c][i] \in 1 .. peer_sent[c]
        /\ delivered[c][i] = 1 \/ (i > 1 /\ delivered[c][i] = delivered[c][i - 1] + 1)
    BY DEF NoneSkipped
  <2> QED
    BY <1>1, <1>3, <2>2
<1>6. AckAfterLast(c)'
  BY <1>3 DEF AckAfterLast, LastByte, PeerSeq
<1> QED
  BY <1>4, <1>5, <1>6

\* What a peer sends besides its stream: its SYN, resets and bare ACKs.
LEMMA PeerSendsBare ==
  ASSUME NEW d \in Conns, PeerConnect(d) \/ PeerAbort(d)
                          \/ \E p \in toPeer : p.conn = d /\ PeerProcess(p)
  PROVE  /\ UNCHANGED <<peer_sent, peer_fin>>
         /\ \A q \in toHost' : q \in toHost \/ OfStream(d, q)
<1>1. UNCHANGED <<peer_sent, peer_fin>>
  BY DEF PeerConnect, PeerAbort, PeerProcess, PeerAccept, PeerRefuse, PeerEstablished,
         PeerReceive, PeerChallenge, PeerUnknown, PeerIsReset, peerVars
<1>2. /\ OfStream(d, PeerAck(d)) /\ OfStream(d, PeerBare(d, {"SYN"}, PeerIsn[d]))
      /\ \A s, id : /\ OfStream(d, PeerSegment(d, {"RST"}, s, 0, 0, id))
                    /\ OfStream(d, PeerSegment(d, {"RST", "ACK"}, s, 0, 0, id))
  BY DEF OfStream, PeerAck, PeerBare, PeerSegment
<1>3. CASE PeerConnect(d) \/ PeerAbort(d)
  BY <1>1, <1>2, <1>3 DEF PeerConnect, PeerAbort, PeerSends
<1>4. ASSUME NEW p \in toPeer, p.conn = d, PeerProcess(p)
      PROVE  \A q \in toHost' : q \in toHost \/ OfStream(d, q)
  <2>1. CASE PeerAccept(p)
    <3> DEFINE r == [PeerBare(d, {"SYN", "ACK"}, PeerIsn[d]) EXCEPT !.ack = SeqAdd(p.seq, 1)]
    <3>1. toHost' = toHost \cup {r}
      BY <1>4, <2>1 DEF PeerAccept, PeerSends
    <3>2. OfStream(d, r)
      BY DEF OfStream, PeerBare, PeerSegment
    <3> HIDE DEF r
    <3> QED
      BY <3>1, <3>2
  <2>2. CASE PeerRefuse(p) \/ PeerUnknown(p)
    BY <1>2, <1>4, <2>2 DEF PeerRefuse, PeerUnknown, PeerSends
  <2>3. CASE PeerEstablished(p) \/ PeerReceive(p) \/ PeerChallenge(p)
    <3>1. \A q \in toHost' : q \in toHost \/ q = PeerAck(d)
      BY <1>4, <2>3 DEF PeerEstablished, PeerReceive, PeerChallenge, PeerSends
    <3> QED
      BY <1>2, <3>1
  <2> QED
    BY <1>4, <2>1, <2>2, <2>3 DEF PeerProcess, PeerIsReset
<1> QED
  BY <1>1, <1>3, <1>4

\* Every step of a peer.
LEMMA PeerNextAccepted ==
  ASSUME TypeOK, NEW c \in ListenConns, AcceptedOk(c), PeerNext,
         UNCHANGED <<tcp_state, cb, timer, caller, toPeer, history>>
  PROVE  AcceptedOk(c)'
<1>1. c \in Conns
  BY ConnAssumption
<1>2. PICK d \in Conns : PeerStep(d)
  BY PeerNextSteps
<1>3. CASE c # d
  BY <1>1, <1>2, <1>3, OtherPeer, PeerSendsOwn, PeerAccepted
<1>4. CASE c = d
  <2>1. CASE PeerConnect(d) \/ PeerAbort(d) \/ \E p \in toPeer : p.conn = d /\ PeerProcess(p)
    BY <1>4, <2>1, PeerSendsBare, PeerAccepted
  <2> QED
    BY <1>2, <1>4, <2>1, WriteAccepted DEF PeerStep
<1> QED
  BY <1>3, <1>4

\* ack_number always names the first byte or the one after the last delivered, on every
\* connection that tcp_listen accepted (tcp_process).
THEOREM AcceptedInvariant == Spec => []AcceptedInv
<1>1. Init => AcceptedInv
  <2>1. SUFFICES ASSUME Init, NEW c \in ListenConns
                 PROVE  PeerSegments(c) /\ NoneSkipped(c) /\ AckAfterLast(c)
    BY DEF AcceptedInv
  <2>2. c # Stranger /\ tcp_connect # c /\ delivered[c] = <<>> /\ toHost = StrayPackets
    BY <2>1, ConnAssumption DEF Init, TcpInit
  <2>3. PeerSegments(c)
    BY <2>2, StrayAssumption DEF PeerSegments
  <2>4. NoneSkipped(c)
    BY <2>2 DEF NoneSkipped
  <2> QED
    BY <2>2, <2>3, <2>4 DEF AckAfterLast
<1>2. TypeOK /\ AcceptedInv /\ [Next]_vars => AcceptedInv'
  <2>1. SUFFICES ASSUME TypeOK, AcceptedInv, [Next]_vars, NEW c \in ListenConns
                 PROVE  AcceptedOk(c)'
    BY DEF AcceptedInv, AcceptedOk
  <2>2. AcceptedOk(c)
    BY <2>1 DEF AcceptedInv, AcceptedOk
  <2>3. CASE UNCHANGED vars
    BY <2>2, <2>3, AcceptedQuiet DEF vars, tcpVars, cb, history
  <2>4. CASE PeerNext /\ UNCHANGED <<tcp_state, cb, timer, caller, toPeer, history>>
    BY <2>1, <2>2, <2>4, PeerNextAccepted
  <2>5. CASE TcpNext /\ UNCHANGED peerVars
    BY <2>1, <2>2, <2>5, TcpNextAccepted
  <2> QED
    BY <2>1, <2>3, <2>4, <2>5 DEF Next
<1> QED
  BY <1>1, <1>2, TypeCorrect, PTL DEF Spec

\* On an accepted connection no byte is skipped, although a repeated SYN rewinds
\* ack_number; on the others none is skipped or repeated (tcp_process).
THEOREM NoneIsSkipped == Spec => []NoByteSkipped
<1>1. ASSUME TypeOK, IInv, AcceptedInv, NEW c \in Conns, NEW i \in 1 .. Len(delivered[c])
      PROVE  delivered[c][i] = 1 \/ (i > 1 /\ delivered[c][i] = delivered[c][i - 1] + 1)
  <2>1. CASE c \in ListenConns
    BY <1>1, <2>1 DEF AcceptedInv, NoneSkipped
  <2>2. CASE c \notin ListenConns
    <3>1. \A k \in 1 .. Len(delivered[c]) : delivered[c][k] = k
      BY <1>1, <2>2 DEF IInv, StreamInv, DeliveredOk, ActiveConns
    <3>2. i > 1 => i - 1 \in 1 .. Len(delivered[c])
      BY <1>1 DEF TypeOK, TcpTypeOK, HistoryOK
    <3> QED
      BY <1>1, <3>1, <3>2
  <2> QED
    BY <2>1, <2>2
<1>2. TypeOK /\ IInv /\ AcceptedInv => NoByteSkipped
  BY <1>1 DEF NoByteSkipped
<1> QED
  BY <1>2, TypeCorrect, AgreementInvariant, AcceptedInvariant, PTL
=============================================================================
