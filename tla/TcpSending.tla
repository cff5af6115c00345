---------------------------- MODULE TcpSending ----------------------------
(***************************************************************************)
(* What tcp_send and tcp_close promise, for every value of the constants.  *)
(* For a client SendInv is preserved beside ClientInv, for a server        *)
(* ServerInv beside IInv and AcceptedInv; the lemmas on one connection     *)
(* serve both, i being the number of our SYN or SYN/ACK there.             *)
(*                                                                         *)
(* The peer's next number is always one past the bytes its application has *)
(* got; every ACK of a peer carries such a number; so last_ack can equal   *)
(* the number tcp_send waits for only when the peer has got everything,    *)
(* provided last_ack is not a leftover of another connection that happens  *)
(* to have the same value (NumbersApart), or of none (ListenNumbersApart). *)
(***************************************************************************)
EXTENDS TcpClient

\* The least set is closed itself.
LEMMA TotalsClosed ==
  /\ Totals \subseteq 0 .. MaxBytes /\ 0 \in Totals
  /\ \A t \in Totals, len \in SendLens : t + len <= MaxBytes => t + len \in Totals
<1>1. MaxBytes \in Nat /\ SendLens \subseteq Nat
  BY SendAssumption, SeqModAssumption
<1>2. Totals \subseteq 0 .. MaxBytes /\ 0 \in Totals
  BY <1>1 DEF Totals, SumsClosed
<1>3. ASSUME NEW t \in Totals, NEW len \in SendLens, t + len <= MaxBytes
      PROVE  t + len \in Totals
  <2>1. t + len \in 0 .. MaxBytes
    BY <1>1, <1>2, <1>3
  <2>2. ASSUME NEW T \in SUBSET (0 .. MaxBytes), SumsClosed(T) PROVE t + len \in T
    <3>1. t \in T
      BY <2>2 DEF Totals
    <3> QED
      BY <1>3, <2>2, <3>1 DEF SumsClosed
  <2> QED
    BY <2>1, <2>2 DEF Totals
<1> QED
  BY <1>2, <1>3

\* Numbers of what the application sends.
LEMMA HostSeqType ==
  ASSUME NEW i \in SeqNo, NEW n \in 0 .. SeqMod
  PROVE  HostSeq(i, n) \in SeqNo
BY SeqModAssumption DEF HostSeq, SeqAdd, SeqNo

\* The number n bytes on.
LEMMA HostSeqAdd ==
  ASSUME NEW i \in SeqNo, NEW m \in Nat, NEW n \in Nat, m + n < SeqMod
  PROVE  SeqAdd(HostSeq(i, m), n) = HostSeq(i, m + n)
BY SeqModAssumption DEF HostSeq, SeqAdd, SeqNo

\* The distance of two of them.
LEMMA HostSeqSub ==
  ASSUME NEW i \in SeqNo, NEW m \in Nat, NEW n \in Nat, m < SeqMod, n < SeqMod
  PROVE  SeqSub(HostSeq(i, m), HostSeq(i, n)) = IF m >= n THEN m - n ELSE m - n + SeqMod
<1>1. i \in 0 .. SeqMod - 1 /\ SeqMod \in Nat
  BY SeqModAssumption DEF SeqNo
<1>2. /\ HostSeq(i, m) = IF i + m >= SeqMod THEN i + m - SeqMod ELSE i + m
      /\ HostSeq(i, n) = IF i + n >= SeqMod THEN i + n - SeqMod ELSE i + n
  BY DEF HostSeq, SeqAdd
<1> QED
  BY <1>1, <1>2 DEF SeqSub

\* Two bytes less than SeqMod apart have different numbers.
LEMMA HostSeqInjective ==
  ASSUME NEW i \in SeqNo, NEW m \in Nat, NEW n \in Nat, m < SeqMod, n < SeqMod,
         HostSeq(i, m) = HostSeq(i, n)
  PROVE  m = n
BY SeqModAssumption DEF HostSeq, SeqAdd, SeqNo

\* Types of what the proofs below compute with.
LEMMA SendTypes ==
  ASSUME TypeOK, NEW c \in Conns, NEW i \in SeqNo, SendingOk(c, i), NumbersFit
  PROVE  /\ c # Stranger
         /\ MaxBytes \in Nat /\ MaxBytes + 3 < SeqMod /\ SeqMod \in Nat
         /\ acked[c] \in Nat /\ acked[c] <= MaxBytes /\ acked[c] \in Totals
         /\ peer_got[c] \in Seq(Nat) /\ Len(peer_got[c]) \in 0 .. MaxBytes + 1
         /\ peer_eof[c] \in {0, 1} /\ PeerCount(c) \in 0 .. MaxBytes + 1
         /\ eof[c] \in Nat /\ peer_fin[c] \in {0, 1}
         /\ peer_state \in [Conns -> {"closed", "syn_sent", "syn_rcvd", "established", "reset"}]
<1>1. /\ c # Stranger
      /\ MaxBytes \in Nat /\ MaxBytes + 3 < SeqMod /\ SeqMod \in Nat
  BY SendAssumption, SeqModAssumption, ConnAssumption DEF NumbersFit
<1>2. /\ acked[c] \in Nat /\ eof[c] \in Nat
      /\ peer_got[c] \in Seq(Nat) /\ peer_eof[c] \in {0, 1} /\ peer_fin[c] \in {0, 1}
      /\ peer_state \in [Conns -> {"closed", "syn_sent", "syn_rcvd", "established", "reset"}]
  BY <1>1 DEF TypeOK, TcpTypeOK, HistoryOK, PeerTypeOK
<1>3. acked[c] \in Totals /\ acked[c] <= MaxBytes
  <2>1. acked[c] \in Totals
    BY DEF SendingOk, AckedOk
  <2>2. acked[c] \in 0 .. MaxBytes
    BY <2>1, TotalsClosed
  <2> QED
    BY <1>1, <2>1, <2>2
<1>4. Len(peer_got[c]) \in 0 .. MaxBytes + 1
  BY <1>1, <1>2 DEF SendingOk, PeerCountOk
<1>5. PeerCount(c) \in 0 .. MaxBytes + 1
  BY <1>1, <1>2, <1>3, <1>4 DEF SendingOk, PeerCountOk, PeerCount
<1> QED
  BY <1>1, <1>2, <1>3, <1>4, <1>5

----------------------------------------------------------------------------
(* tcp_close.                                                              *)

\* While tcp_close waits the connection is open, or an end of file has closed it.
CloseOk ==
  call = "close" =>
    \/ tcp_state = "established"
    \/ tcp_state = "closed" /\ eof[tcp_connect] > 0

\* Every step keeps that.
LEMMA CloseOkKept ==
  ASSUME TypeOK, CloseOk, [Next]_vars
  PROVE  CloseOk'
<1>1. CASE UNCHANGED <<tcp_state, tcp_connect, call, eof>>
  BY <1>1 DEF CloseOk
<1>2. CASE TcpNext /\ UNCHANGED peerVars
  <2>1. ASSUME NEW p \in toHost, TcpProcess(p) PROVE CloseOk'
    <3>1. call' = call
      BY <2>1 DEF TcpProcess, Poll
    <3>2. CASE RstSegment(p) \/ FinSegment(p)
      <4>1. /\ tcp_state' = "closed" /\ tcp_connect' = tcp_connect
            /\ eof' = [eof EXCEPT ![tcp_connect] = @ + 1]
            /\ tcp_state # "closed"
        BY <3>2 DEF RstSegment, FinSegment, AckSegment, Current, EofCallback, cb
      <4>2. call = "close" => tcp_connect \in Conns
        BY <4>1 DEF CloseOk, TypeOK, TcpTypeOK, ControlOK
      <4>3. eof \in [Conns -> Nat]
        BY DEF TypeOK, TcpTypeOK, HistoryOK
      <4> QED
        BY <3>1, <4>1, <4>2, <4>3 DEF CloseOk
    <3>3. CASE \/ EchoedRst(p) \/ IgnoredRst(p) \/ SynAckExpected(p) \/ SynAckRepeated(p)
               \/ NotOurs(p) \/ DataSegment(p) \/ OutOfOrder(p) \/ PureAck(p)
               \/ SynIgnored(p) \/ SynDeclined(p)
      BY <3>1, <3>3
      DEF CloseOk, EchoedRst, IgnoredRst, SynAckExpected, SynAckRepeated, NotOurs,
          DataSegment, OutOfOrder, PureAck, SynIgnored, SynDeclined, AckCurrent, Ignored,
          cb, history
    <3>4. CASE SynAccepted(p)
      BY <3>1, <3>4 DEF CloseOk, SynAccepted
    <3> QED
      BY <2>1, <3>2, <3>3, <3>4 DEF TcpProcess
  <2>2. CASE \/ \E c \in Conns : TcpConnect(c)
             \/ TcpListen \/ \E len \in SendLens : TcpSend(len)
             \/ TcpClose \/ TcpCloseNotEstablished \/ TcpSendKeepAlive
    BY <2>2
    DEF CloseOk, TcpConnect, TcpListen, TcpSend, TcpClose, TcpCloseNotEstablished,
        TcpSendKeepAlive, StartCall, caller
  <2>3. CASE \/ Abort \/ CallReturns \/ KeepPolling \/ TickDelay \/ TickResend
             \/ TickTimeout \/ NoSegment
    BY <2>3
    DEF CloseOk, Abort, CallReturns, ConnectReturns, ListenReturns, SendReturns,
        CloseReturns, KeepPolling, TickDelay, TickResend, TickTimeout, NoSegment, Return,
        Poll, cb, history
  <2> QED
    BY <1>2, <2>1, <2>2, <2>3 DEF TcpNext
<1> QED
  BY <1>1, <1>2 DEF Next, vars, tcpVars, caller, cb, history

\* A tcp_close of an established connection reports success only when the peer's FIN or a
\* reset has reached the callback; a time-out is an error (tcp_close, the exits from its
\* loop).  Of one that finds the connection not established, and reports success at once,
\* nothing of the kind is said.
THEOREM CloseIsAnswered == Spec => CloseWaitsForPeer
<1>1. Init => CloseOk
  BY DEF Init, TcpInit, CloseOk
<1>2. CloseOk /\ [Next]_vars =>
        [CloseReturns \/ TcpCloseNotEstablished =>
           (call = "none" /\ tcp_state # "established") \/ eof[tcp_connect] > 0]_vars
  BY DEF CloseOk, CloseReturns, TcpCloseNotEstablished, Waiting
<1> QED
  BY <1>1, <1>2, CloseOkKept, TypeCorrect, PTL DEF Spec, CloseWaitsForPeer

----------------------------------------------------------------------------
(* tcp_send: the endpoint's steps.                                         *)

\* The parts of the invariant that only the peer and returning calls change.
LEMMA PeerPartKept ==
  ASSUME NEW c \in Conns, NEW i \in SeqNo, SendingOk(c, i), toPeer \subseteq toPeer', UNCHANGED toHost,
         UNCHANGED peerVars, acked'[c] = acked[c]
  PROVE  PeerCountOk(c, i)' /\ PeerAcksOk(c, i)' /\ InOrderAtPeer(c)' /\ AckedOk(c)'
<1> USE DEF SendingOk, peerVars
<1>1. PeerCount(c)' = PeerCount(c)
  BY DEF PeerCount
<1>2. FinSent(c) => FinSent(c)'
  BY DEF FinSent
<1>3. PeerCountOk(c, i)'
  BY <1>1, <1>2 DEF PeerCountOk, HostSeq
<1>4. PeerAcksOk(c, i)'
  BY <1>1 DEF PeerAcksOk, HostSeq
<1>5. InOrderAtPeer(c)'
  BY DEF InOrderAtPeer
<1>6. AckedOk(c)'
  BY DEF AckedOk, Totals, SumsClosed
<1> QED
  BY <1>3, <1>4, <1>5, <1>6

\* A segment that is neither data nor FIN.
Plain(c, i, q) == q.len = 0 /\ "FIN" \notin q.flags /\ ("SYN" \in q.flags => q.seq = i)

\* A step of the endpoint that neither sends data or FIN on c, nor starts a call there,
\* nor ends one.
LEMMA QuietSend ==
  ASSUME NEW c \in Conns, NEW i \in SeqNo, SendingOk(c, i), toPeer \subseteq toPeer', UNCHANGED toHost,
         UNCHANGED peerVars, acked'[c] = acked[c], eof[c] > 0 => eof'[c] > 0,
         \A q \in toPeer' : q \in toPeer \/ q.conn # c \/ Plain(c, i, q),
         tcp_connect' = c => tcp_connect = c,
         tcp_connect' = c => UNCHANGED <<sequence_number, expected_ack_number>>,
         tcp_connect' = c => tcp_state' \in {tcp_state, "closed"},
         tcp_connect' = c /\ call' = "send" => call = "send" /\ send_len' = send_len,
         tcp_connect' = c /\ call' = "listen" => call = "listen",
         tcp_connect' = c /\ tcp_state' = "established" =>
           call' = call \/ (call' = "none" /\ call \notin {"send", "close", "listen"})
  PROVE  SendingOk(c, i)'
<1> USE DEF SendingOk, peerVars
<1>1. PeerCountOk(c, i)' /\ PeerAcksOk(c, i)' /\ InOrderAtPeer(c)' /\ AckedOk(c)'
  BY PeerPartKept
<1>2. FinSent(c)' <=> FinSent(c)
  BY DEF FinSent, Plain
<1>3. OwnSegments(c, i)'
  BY DEF OwnSegments, Shifted, HostSeq, Plain
<1>4. AllAcked(c, i)'
  <2>1. SUFFICES ASSUME NEW q \in toPeer', q.conn = c, q.len > 0
                 PROVE  /\ \/ tcp_connect' = c /\ tcp_state' = "established" /\ call' # "send"
                           \/ FinSent(c)'
                           => q.first + q.len - 1 <= acked[c] /\ q.seq = HostSeq(i, q.first)
                        /\ tcp_connect' = c /\ call' = "send" =>
                             q.first + q.len - 1 <= acked[c] + send_len'
    BY DEF AllAcked, HostSeq
  <2>2. q \in toPeer
    BY <2>1 DEF Plain
  <2> QED
    BY <1>2, <2>1, <2>2 DEF AllAcked
<1>5. AfterClose(c)'
  BY <1>2 DEF AfterClose
<1>6. NumbersOfCurrent(c, i)'
  <2>1. SUFFICES ASSUME tcp_connect' = c PROVE NumbersOfCurrent(c, i)'
    BY DEF NumbersOfCurrent
  <2>2. /\ tcp_connect = c /\ UNCHANGED <<sequence_number, expected_ack_number>>
        /\ tcp_state' \in {tcp_state, "closed"}
        /\ call' = "send" => call = "send" /\ send_len' = send_len
        /\ Opening' => Opening
        /\ tcp_state' = "established" => call' = call \/ (call' = "none" /\ call \notin {"send", "close"})
        /\ tcp_state' = "established" /\ ~Opening' => ~Opening
    BY <2>1 DEF Opening
  <2>3. Opening' =>
          \A q \in toPeer' : q.conn = c => q.len = 0 /\ "FIN" \notin q.flags
    BY <2>2 DEF NumbersOfCurrent, Plain
  <2> QED
    BY <2>1, <2>2, <2>3
    DEF NumbersOfCurrent, Shifted, HostSeq, Totals, SumsClosed
<1> QED
  BY <1>1, <1>3, <1>4, <1>5, <1>6

\* Data of the call in progress go out.
LEMMA DataGoesOut ==
  ASSUME TypeOK, NEW c \in Conns, NEW i \in SeqNo, SendingOk(c, i), NumbersFit, tcp_connect = c,
         UNCHANGED <<tcp_connect, tcp_state, sequence_number, acked, eof, toHost, peerVars>>,
         call # "listen", call' = "send", send_len' \in SendLens, toPeer \subseteq toPeer',
         \A q \in toPeer' : q \in toPeer \/ q = Data(send_len'),
         ~FinSent(c), tcp_state \in {"established", "closed"},
         acked[c] + send_len' \in Totals,
         expected_ack_number' = HostSeq(i, 1 + acked[c] + send_len'),
         \E n \in {0, 1} :
           (n = 0 \/ Shifted(c, n)) /\ sequence_number = HostSeq(i, 1 + acked[c] + n),
         \A q \in toPeer : q.conn = c /\ q.len > 0 =>
           q.first + q.len - 1 <= acked[c] + send_len'
  PROVE  SendingOk(c, i)'
<1> USE DEF SendingOk, peerVars
<1> DEFINE l == send_len'
           d == Data(l)
           a == acked[c]
<1>1. PeerCountOk(c, i)' /\ PeerAcksOk(c, i)' /\ InOrderAtPeer(c)' /\ AckedOk(c)'
  BY PeerPartKept
<1>2. /\ l \in Nat /\ l > 0 /\ a \in Nat /\ MaxBytes \in Nat /\ a + l <= MaxBytes
  <2>1. a + l \in 0 .. MaxBytes /\ a \in Nat /\ MaxBytes \in Nat
    BY TotalsClosed, SendTypes
  <2> QED
    BY <2>1, SendAssumption, SeqModAssumption
<1>3. /\ d.conn = c /\ d.flags = {"ACK"} /\ d.seq = sequence_number
      /\ d.first = a + 1 /\ d.len = l
  BY DEF Data
<1> HIDE DEF l, d, a
<1>4. ~FinSent(c)'
  BY <1>3 DEF FinSent, l, d
<1>5. OwnSegments(c, i)'
  <2>1. SUFFICES ASSUME NEW q \in toPeer', q.conn = c
                 PROVE  /\ "SYN" \in q.flags => q.seq = i
                        /\ q.len > 0 =>
                             /\ "FIN" \notin q.flags
                             /\ q.first >= 1 /\ q.first + q.len - 1 <= MaxBytes
                             /\ \E n \in {0, 1} :
                                  (n = 0 \/ Shifted(c, n)) /\ q.seq = HostSeq(i, q.first + n)
                        /\ "FIN" \in q.flags => q.seq = HostSeq(i, 1 + acked[c])
    BY DEF OwnSegments, Shifted, HostSeq
  <2>2. CASE q \in toPeer
    BY <2>1, <2>2 DEF OwnSegments
  <2>3. CASE q = d
    <3>1. PICK n \in {0, 1} :
            (n = 0 \/ Shifted(c, n)) /\ sequence_number = HostSeq(i, 1 + a + n)
      BY DEF a
    <3>2. 1 + a + n = q.first + n /\ q.first >= 1 /\ q.first + q.len - 1 <= MaxBytes
      BY <1>2, <1>3, <2>3
    <3>3. q.seq = HostSeq(i, q.first + n)
      BY <1>3, <2>3, <3>1, <3>2
    <3> QED
      BY <1>3, <2>3, <3>1, <3>2, <3>3
  <2> QED
    BY <2>1, <2>2, <2>3 DEF l, d
<1>6. AllAcked(c, i)'
  <2>1. SUFFICES ASSUME NEW q \in toPeer', q.conn = c, q.len > 0
                 PROVE  q.first + q.len - 1 <= a + l
    BY <1>4 DEF AllAcked, a, l
  <2>2. CASE q = d
    BY <1>2, <1>3, <2>2
  <2>3. CASE q \in toPeer
    BY <2>1, <2>3 DEF a, l
  <2> QED
    BY <2>1, <2>2, <2>3 DEF l, d
<1>7. AfterClose(c)'
  BY <1>4 DEF AfterClose
<1>8. NumbersOfCurrent(c, i)'
  <2>1. ~Opening'
    BY DEF Opening
  <2>2. tcp_state' # "established" \/ sequence_number = HostSeq(i, 1 + a)
    BY DEF NumbersOfCurrent, Opening, a
  <2> QED
    BY <2>1, <2>2 DEF NumbersOfCurrent, Shifted, HostSeq, Totals, SumsClosed, a
<1> QED
  BY <1>1, <1>5, <1>6, <1>7, <1>8

\* The FIN goes out, everything sent before it has been acknowledged.
LEMMA FinGoesOut ==
  ASSUME TypeOK, NEW c \in Conns, NEW i \in SeqNo, SendingOk(c, i), tcp_connect = c,
         tcp_state = "established", call \notin {"send", "listen"}, call' = "close",
         UNCHANGED <<tcp_connect, tcp_state, sequence_number, acked, eof, toHost, peerVars>>,
         toPeer \subseteq toPeer', \A q \in toPeer' : q \in toPeer \/ q = Fin
  PROVE  SendingOk(c, i)'
<1> USE DEF SendingOk, peerVars
<1> DEFINE d == Fin
<1>1. PeerCountOk(c, i)' /\ PeerAcksOk(c, i)' /\ InOrderAtPeer(c)' /\ AckedOk(c)'
  BY PeerPartKept
<1>2. /\ d.conn = c /\ d.flags = {"FIN", "ACK"} /\ d.seq = HostSeq(i, 1 + acked[c])
      /\ d.len = 0
  BY DEF Fin, Bare, NumbersOfCurrent, Opening
<1> HIDE DEF d
<1>3. OwnSegments(c, i)'
  <2>1. SUFFICES ASSUME NEW q \in toPeer', q.conn = c
                 PROVE  /\ "SYN" \in q.flags => q.seq = i
                        /\ q.len > 0 =>
                             /\ "FIN" \notin q.flags
                             /\ q.first >= 1 /\ q.first + q.len - 1 <= MaxBytes
                             /\ \E n \in {0, 1} :
                                  (n = 0 \/ Shifted(c, n)) /\ q.seq = HostSeq(i, q.first + n)
                        /\ "FIN" \in q.flags => q.seq = HostSeq(i, 1 + acked[c])
    BY DEF OwnSegments, Shifted, HostSeq
  <2>2. CASE q \in toPeer
    BY <2>1, <2>2 DEF OwnSegments
  <2>3. CASE q = d
    BY <1>2, <2>3
  <2> QED
    BY <2>1, <2>2, <2>3 DEF d
<1>4. AllAcked(c, i)'
  <2>1. SUFFICES ASSUME NEW q \in toPeer', q.conn = c, q.len > 0
                 PROVE  q.first + q.len - 1 <= acked[c] /\ q.seq = HostSeq(i, q.first)
    BY DEF AllAcked, HostSeq
  <2>2. q \in toPeer
    BY <1>2, <2>1 DEF d
  <2> QED
    BY <2>1, <2>2 DEF AllAcked
<1>5. AfterClose(c)' /\ NumbersOfCurrent(c, i)'
  BY DEF AfterClose, NumbersOfCurrent, Opening, HostSeq
<1> QED
  BY <1>1, <1>3, <1>4, <1>5

\* The calls.
LEMMA CallsSend ==
  ASSUME TypeOK, NEW c \in Conns, NEW i \in SeqNo, SendingOk(c, i), NumbersFit,
         UNCHANGED peerVars,
         \/ \E len \in SendLens : TcpSend(len)
         \/ TcpClose \/ TcpCloseNotEstablished \/ TcpSendKeepAlive
  PROVE  SendingOk(c, i)'
<1>1. CASE TcpCloseNotEstablished
  BY <1>1, QuietSend DEF TcpCloseNotEstablished, cb, caller, history
<1>2. CASE TcpSendKeepAlive
  <2>1. Plain(c, i, Ack)
    BY DEF Plain, Ack, Bare
  <2> QED
    BY <1>2, <2>1, QuietSend DEF TcpSendKeepAlive, Reply, caller, history
<1>3. CASE TcpClose
  <2>1. /\ tcp_state = "established" /\ call = "none" /\ call' = "close"
        /\ UNCHANGED <<tcp_connect, tcp_state, sequence_number, acked, eof, toHost>>
        /\ toPeer \subseteq toPeer' /\ \A q \in toPeer' : q \in toPeer \/ q = Fin
    BY <1>3 DEF TcpClose, StartCall, Transmit, history
  <2>2. CASE tcp_connect = c
    BY <2>1, <2>2, FinGoesOut
  <2>3. CASE tcp_connect # c
    <3>1. Fin.conn # c
      BY <2>3 DEF Fin, Bare
    <3> QED
      BY <2>1, <2>3, <3>1, QuietSend
  <2> QED
    BY <2>2, <2>3
<1>4. ASSUME NEW len \in SendLens, TcpSend(len) PROVE SendingOk(c, i)'
  <2>1. /\ tcp_state = "established" /\ call = "none" /\ call' = "send" /\ send_len' = len
        /\ acked[tcp_connect] + len <= MaxBytes
        /\ expected_ack_number' = SeqAdd(expected_ack_number, len)
        /\ UNCHANGED <<tcp_connect, tcp_state, sequence_number, acked, eof, toHost>>
        /\ toPeer \subseteq toPeer' /\ \A q \in toPeer' : q \in toPeer \/ q = Data(len)
    BY <1>4 DEF TcpSend, StartCall, Transmit, history
  <2>2. CASE tcp_connect = c
    <3>1. /\ c \in Conns /\ acked[c] \in Nat /\ acked[c] \in Totals /\ len \in Nat
          /\ MaxBytes \in Nat /\ MaxBytes + 3 < SeqMod /\ SeqMod \in Nat
      BY SendTypes, SendAssumption, SeqModAssumption
    <3>2. ~FinSent(c)
      BY <2>1, <2>2 DEF SendingOk, AfterClose
    <3>3. /\ sequence_number = HostSeq(i, 1 + acked[c])
          /\ expected_ack_number = HostSeq(i, 1 + acked[c])
      BY <2>1, <2>2 DEF SendingOk, NumbersOfCurrent, Opening
    <3>4. acked[c] + len \in Totals
      BY <2>1, <2>2, <3>1, TotalsClosed
    <3>5. expected_ack_number' = HostSeq(i, 1 + acked[c] + len)
      <4>1. 1 + acked[c] + len < SeqMod /\ 1 + acked[c] \in Nat
        BY <2>1, <2>2, <3>1
      <4> QED
        BY <2>1, <3>1, <3>3, <4>1, HostSeqAdd
    <3>6. \E n \in {0, 1} :
            (n = 0 \/ Shifted(c, n)) /\ sequence_number = HostSeq(i, 1 + acked[c] + n)
      BY <3>1, <3>3
    <3>7. ASSUME NEW q \in toPeer, q.conn = c, q.len > 0
          PROVE  q.first + q.len - 1 <= acked[c] + len
      <4>1. q.first + q.len - 1 <= acked[c]
        BY <2>1, <2>2, <3>7 DEF SendingOk, AllAcked
      <4>2. q.first \in Nat /\ q.len \in Nat
        BY <3>7, SeqModAssumption DEF TypeOK, TcpTypeOK, Segment, SeqNo
      <4> QED
        BY <3>1, <4>1, <4>2
    <3> QED
      BY <2>1, <2>2, <3>2, <3>4, <3>5, <3>6, <3>7, DataGoesOut
  <2>3. CASE tcp_connect # c
    <3>1. Data(len).conn # c
      BY <2>3 DEF Data
    <3> QED
      BY <2>1, <2>3, <3>1, QuietSend
  <2> QED
    BY <2>2, <2>3
<1> QED
  BY <1>1, <1>2, <1>3, <1>4

\* tcp_connect to c: nothing has been sent on it.
LEMMA ConnectSend ==
  ASSUME TypeOK, NEW c \in ActiveConns, SendingOk(c, Isn[c]), UNCHANGED peerVars,
         NEW d \in Conns, TcpConnect(d)
  PROVE  SendingOk(c, Isn[c])'
<1> c \in Conns /\ Isn[c] \in SeqNo
  BY IsnAssumption DEF ActiveConns
<1>1. /\ tcp_connect' = d /\ tcp_state' = "syn_sent" /\ call' = "connect"
      /\ sequence_number' = Isn[d] /\ \A q \in toPeer : q.conn # d
      /\ UNCHANGED <<toHost, acked, eof>>
      /\ toPeer \subseteq toPeer' /\ \A q \in toPeer' : q \in toPeer \/ q = Syn(d)
  BY DEF TcpConnect, StartCall, Transmit, history
<1>2. Syn(d).conn = d /\ Plain(d, Isn[d], Syn(d))
  BY DEF Syn, Bare, Plain
<1>3. CASE c # d
  BY <1>1, <1>2, <1>3, QuietSend
<1>4. CASE c = d
  <2> USE DEF SendingOk, peerVars
  <2>1. acked[c] = 0
    <3>1. acked[c] \in Nat
      BY DEF TypeOK, TcpTypeOK, HistoryOK, ActiveConns
    <3> QED
      BY <1>1, <1>4, <3>1 DEF AckedOk
  <2>2. PeerCountOk(c, Isn[c])' /\ PeerAcksOk(c, Isn[c])' /\ InOrderAtPeer(c)' /\ AckedOk(c)'
    BY <1>1, PeerPartKept
  <2>3. \A q \in toPeer' : q.conn = c => Plain(c, Isn[c], q)
    BY <1>1, <1>2, <1>4
  <2>4. OwnSegments(c, Isn[c])' /\ AllAcked(c, Isn[c])' /\ AfterClose(c)' /\ NumbersOfCurrent(c, Isn[c])'
    <3>1. \A q \in toPeer' : q.conn = c =>
            q.len = 0 /\ "FIN" \notin q.flags /\ ("SYN" \in q.flags => q.seq = Isn[c])
      BY <2>3 DEF Plain
    <3>2. ~FinSent(c)'
      BY <3>1 DEF FinSent
    <3>3. OwnSegments(c, Isn[c])' /\ AllAcked(c, Isn[c])'
      BY <3>1 DEF OwnSegments, AllAcked
    <3>4. AfterClose(c)'
      BY <3>2 DEF AfterClose
    <3>5. NumbersOfCurrent(c, Isn[c])'
      BY <1>1, <1>4, <2>1, <3>1 DEF NumbersOfCurrent, Opening
    <3> QED
      BY <3>3, <3>4, <3>5
  <2> QED
    BY <2>2, <2>4
<1> QED
  BY <1>3, <1>4

\* When tcp_send finds the number it waits for in an acknowledgement of the peer, the peer
\* has got all the bytes.
LEMMA AwaitedAckMeansGot ==
  ASSUME TypeOK, NEW c \in Conns, NEW i \in SeqNo, SendingOk(c, i), NumbersFit,
         tcp_connect = c, call = "send", send_len \in SendLens,
         NEW j \in 0 .. PeerCount(c), expected_ack_number = HostSeq(i, 1 + j)
  PROVE  acked[c] + send_len <= Len(peer_got[c])
<1> DEFINE a == acked[c]
           l == send_len
           g == Len(peer_got[c])
<1>1. /\ a \in Nat /\ l \in Nat /\ l > 0 /\ g \in 0 .. MaxBytes + 1
      /\ MaxBytes \in Nat /\ MaxBytes + 3 < SeqMod /\ SeqMod \in Nat
      /\ peer_eof[c] \in {0, 1}
  BY SendTypes, SendAssumption, SeqModAssumption
<1>2. a + l \in Totals /\ expected_ack_number = HostSeq(i, 1 + a + l)
  BY DEF SendingOk, NumbersOfCurrent
<1>3. peer_eof[c] = 0
  BY <1>1 DEF SendingOk, AfterClose, PeerCountOk
<1>4. PeerCount(c) = g
  BY <1>1, <1>3 DEF PeerCount
<1> HIDE DEF a, l, g
<1>5. a + l <= MaxBytes
  <2>1. a + l \in 0 .. MaxBytes
    BY <1>2, TotalsClosed
  <2> QED
    BY <1>1, <2>1
<1>6. j \in 0 .. g /\ HostSeq(i, 1 + j) = HostSeq(i, 1 + a + l)
  BY <1>2, <1>4
<1>7. 1 + j = 1 + a + l
  <2>1. 1 + j \in Nat /\ 1 + a + l \in Nat /\ 1 + j < SeqMod /\ 1 + a + l < SeqMod
    BY <1>1, <1>5, <1>6
  <2> QED
    BY <1>1, <1>6, <2>1, HostSeqInjective
<1>8. a + l <= g
  BY <1>1, <1>6, <1>7
<1> QED
  BY <1>8 DEF a, l, g

\* The returns and the ticks.
LEMMA ChecksSend ==
  ASSUME TypeOK, NEW c \in Conns, NEW i \in SeqNo, SendingOk(c, i), NotReopened(c),
         SendOk, NumbersFit, UNCHANGED peerVars,
         tcp_connect = c => call # "listen" /\ (call = "connect" => i = Isn[c]),
         call = "send" => send_len \in SendLens,
         Len(peer_got[c]) > 0 => \E q \in toPeer : q.conn = c,
         tcp_connect = c /\ call = "send" /\ last_ack = expected_ack_number =>
           \E j \in 0 .. PeerCount(c) : last_ack = HostSeq(i, 1 + j),
         \/ Abort \/ CallReturns \/ KeepPolling
         \/ TickDelay \/ TickResend \/ TickTimeout \/ NoSegment
  PROVE  SendingOk(c, i)'
<1>1. CASE \/ KeepPolling \/ TickDelay \/ TickTimeout \/ NoSegment
  BY <1>1, QuietSend
  DEF KeepPolling, TickDelay, TickTimeout, NoSegment, Poll, Return, cb, history
<1>2. CASE Abort
  <2>1. /\ call \in {"connect", "listen", "send"} /\ call' = "none"
        /\ tcp_state' = IF call = "send" THEN "closed" ELSE tcp_state
    BY <1>2, AbortsAssumption DEF Abort, Return
  <2> QED
    BY <1>2, <2>1, QuietSend DEF Abort, cb, history
<1>3. CASE ConnectReturns \/ CloseReturns
  BY <1>3, QuietSend DEF ConnectReturns, CloseReturns, Return, cb, history
<1>4. CASE ListenReturns
  BY <1>4, QuietSend DEF ListenReturns, Return, history
<1>5. CASE SendReturns
  <2>1. /\ call = "send" /\ last_ack = expected_ack_number /\ call' = "none"
        /\ sequence_number' = SeqAdd(sequence_number, send_len)
        /\ acked' = [acked EXCEPT ![tcp_connect] = @ + send_len]
        /\ UNCHANGED <<tcp_state, tcp_connect, expected_ack_number, send_len, toHost, toPeer,
                       eof>>
    BY <1>5 DEF SendReturns, Waiting, Return
  <2>2. CASE tcp_connect # c
    <3>1. acked'[c] = acked[c]
      BY <2>1, <2>2 DEF TypeOK, TcpTypeOK, HistoryOK, ActiveConns
    <3> QED
      BY <2>1, <2>2, <3>1, QuietSend
  <2>3. CASE tcp_connect = c
    <3> USE DEF SendingOk, peerVars
    <3> DEFINE a == acked[c]
               l == send_len
    <3>1. /\ c \in Conns /\ a \in Nat /\ l \in Nat /\ l > 0 /\ send_len \in SendLens
          /\ MaxBytes \in Nat /\ MaxBytes + 3 < SeqMod /\ SeqMod \in Nat
          /\ acked'[c] = a + l
      <4>1. c \in Conns /\ a \in Nat /\ acked \in [Conns -> Nat]
            /\ MaxBytes \in Nat /\ MaxBytes + 3 < SeqMod /\ SeqMod \in Nat
        BY SendTypes DEF TypeOK, TcpTypeOK, HistoryOK
      <4>2. send_len \in SendLens
        BY <2>1
      <4> QED
        BY <2>1, <2>3, <4>1, <4>2, SendAssumption, SeqModAssumption
    <3>2. a + l <= Len(peer_got[c])
      <4>1. PICK j \in 0 .. PeerCount(c) : expected_ack_number = HostSeq(i, 1 + j)
        BY <2>1, <2>3
      <4> QED
        BY <2>1, <2>3, <3>1, <4>1, AwaitedAckMeansGot
    <3>3. ~FinSent(c) /\ ~FinSent(c)'
      BY <2>1, <2>3 DEF AfterClose, FinSent
    <3>4. a + l \in Totals /\ a + l <= MaxBytes
      BY <2>1, <2>3, <3>1, TotalsClosed DEF NumbersOfCurrent
    <3>5. PeerCountOk(c, i)'
      BY <2>1, <3>3 DEF PeerCountOk, PeerCount, FinSent, HostSeq
    <3>6. PeerAcksOk(c, i)' /\ InOrderAtPeer(c)'
      BY <2>1 DEF PeerAcksOk, InOrderAtPeer, PeerCount, HostSeq
    <3>7. OwnSegments(c, i)'
      BY <2>1, <3>3 DEF OwnSegments, Shifted, HostSeq, FinSent
    <3>8. AllAcked(c, i)'
      <4>1. SUFFICES ASSUME NEW q \in toPeer, q.conn = c, q.len > 0
                     PROVE  /\ tcp_state = "established" =>
                                 q.first + q.len - 1 <= a + l /\ q.seq = HostSeq(i, q.first)
        BY <2>1, <3>1, <3>3 DEF AllAcked, HostSeq
      <4>2. q.first + q.len - 1 <= a + l
        BY <2>1, <2>3, <4>1 DEF AllAcked
      <4>3. tcp_state = "established" => q.seq = HostSeq(i, q.first)
        <5>1. SUFFICES ASSUME tcp_state = "established" PROVE q.seq = HostSeq(i, q.first)
          OBVIOUS
        <5>2. PICK n \in {0, 1} : (n = 0 \/ Shifted(c, n)) /\ q.seq = HostSeq(i, q.first + n)
          BY <4>1 DEF OwnSegments
        <5>3. n = 0
          BY <2>3, <5>1, <5>2 DEF Shifted, NotReopened
        <5>4. q.first \in Nat
          BY DEF TypeOK, TcpTypeOK, Segment
        <5> QED
          BY <5>2, <5>3, <5>4
      <4> QED
        BY <4>2, <4>3
    <3>9. AfterClose(c)'
      BY <3>3 DEF AfterClose
    <3>10. AckedOk(c)'
      <4>1. peer_got[c] \in Seq(Nat) /\ Len(peer_got[c]) > 0
        BY <3>1, <3>2, SendTypes
      <4>2. \E q \in toPeer : q.conn = c
        BY <4>1
      <4> QED
        BY <2>1, <3>1, <3>2, <3>4, <4>2 DEF AckedOk, Totals, SumsClosed
    <3>11. NumbersOfCurrent(c, i)'
      <4>1. tcp_state # "syn_sent"
        BY <2>1 DEF SendOk
      <4>2. ASSUME tcp_state = "established"
            PROVE  /\ sequence_number' = HostSeq(i, 1 + (a + l))
                   /\ expected_ack_number' = sequence_number'
        <5>1. sequence_number = HostSeq(i, 1 + a) /\ expected_ack_number = HostSeq(i, 1 + a + l)
          BY <2>1, <2>3, <4>2 DEF NumbersOfCurrent, Opening
        <5> HIDE DEF a, l
        <5>2. 1 + a + l < SeqMod /\ 1 + a \in Nat /\ 1 + a + l = 1 + (a + l)
          BY <3>1, <3>4
        <5>3. SeqAdd(HostSeq(i, 1 + a), l) = HostSeq(i, 1 + a + l)
          BY <3>1, <5>2, HostSeqAdd
        <5> QED
          BY <2>1, <5>1, <5>2, <5>3 DEF l
      <4> HIDE DEF a, l
      <4> QED
        BY <2>1, <3>1, <4>1, <4>2 DEF NumbersOfCurrent, Opening, HostSeq
    <3> QED
      BY <3>5, <3>6, <3>7, <3>8, <3>9, <3>10, <3>11
  <2> QED
    BY <2>2, <2>3
<1>6. CASE TickResend
  <2> DEFINE p == CASE call = "connect" -> Syn(tcp_connect)
                    [] call = "send" -> Data(send_len)
                    [] OTHER -> Fin
  <2>1. /\ toPeer \subseteq toPeer' /\ \A q \in toPeer' : q \in toPeer \/ q = p
        /\ Waiting /\ call # "listen"
        /\ UNCHANGED <<tcp_state, tcp_connect, sequence_number, expected_ack_number, call,
                       send_len, toHost, delivered, eof, acked>>
    BY <1>6 DEF TickResend, TimerTick, Transmit, history
  <2>2. p.conn = tcp_connect
    BY DEF Syn, Data, Fin, Bare
  <2>3. CASE tcp_connect # c \/ call = "connect"
    <3>1. call = "connect" => p = Syn(tcp_connect)
      OBVIOUS
    <3>2. tcp_connect = c /\ call = "connect" => Plain(c, i, Syn(tcp_connect))
      BY DEF Plain, Syn, Bare
    <3>3. p.conn # c \/ Plain(c, i, p)
      BY <2>2, <2>3, <3>1, <3>2
    <3> HIDE DEF p
    <3> QED
      BY <2>1, <3>3, QuietSend
  <2>4. CASE tcp_connect = c /\ call = "send"
    <3>1. p = Data(send_len') /\ send_len \in SendLens /\ tcp_state \in {"established", "closed"}
      BY <2>1, <2>4 DEF SendOk
    <3>2. /\ ~FinSent(c) /\ acked[c] + send_len \in Totals
          /\ expected_ack_number = HostSeq(i, 1 + acked[c] + send_len)
          /\ \E n \in {0, 1} :
               (n = 0 \/ Shifted(c, n)) /\ sequence_number = HostSeq(i, 1 + acked[c] + n)
          /\ \A q \in toPeer : q.conn = c /\ q.len > 0 =>
               q.first + q.len - 1 <= acked[c] + send_len
      BY <2>4 DEF SendingOk, AfterClose, NumbersOfCurrent, AllAcked
    <3> HIDE DEF p
    <3> QED
      BY <2>1, <2>4, <3>1, <3>2, DataGoesOut
  <2>5. CASE tcp_connect = c /\ call \notin {"send", "connect"}
    <3>1. p = Fin /\ call = "close" /\ tcp_state = "established"
      BY <2>1, <2>5 DEF Waiting
    <3> HIDE DEF p
    <3> QED
      BY <2>1, <2>5, <3>1, FinGoesOut
  <2> QED
    BY <2>3, <2>4, <2>5
<1> QED
  BY <1>1, <1>2, <1>3, <1>4, <1>5, <1>6 DEF CallReturns

\* Segments handled without a change to the numbers of what is sent.
LEMMA QuietHandlersSend ==
  ASSUME TypeOK, NEW c \in Conns, NEW i \in SeqNo, SendingOk(c, i), UNCHANGED peerVars,
         NEW p \in toHost, Poll,
         \/ RstSegment(p) \/ EchoedRst(p) \/ IgnoredRst(p) \/ SynAckRepeated(p)
         \/ NotOurs(p) \/ DataSegment(p) \/ OutOfOrder(p) \/ PureAck(p)
         \/ SynIgnored(p) \/ SynDeclined(p)
  PROVE  SendingOk(c, i)'
<1>1. UNCHANGED <<call, send_len, toHost>>
  BY DEF Poll
<1>2. /\ UNCHANGED <<tcp_connect, sequence_number, expected_ack_number, acked>>
      /\ tcp_state' \in {tcp_state, "closed"}
  BY DEF RstSegment, EchoedRst, IgnoredRst, SynAckRepeated, NotOurs, DataSegment, OutOfOrder,
         PureAck, SynIgnored, SynDeclined, AckCurrent, Ignored, cb, history
<1>3. eof[c] > 0 => eof'[c] > 0
  <2>1. CASE RstSegment(p)
    <3>1. eof \in [Conns -> Nat] /\ c \in Conns
      BY DEF TypeOK, TcpTypeOK, HistoryOK, ActiveConns
    <3>2. eof' = [eof EXCEPT ![tcp_connect] = @ + 1]
      BY <2>1 DEF RstSegment, EofCallback
    <3> QED
      BY <3>1, <3>2
  <2>2. CASE ~RstSegment(p)
    BY <2>2 DEF EchoedRst, IgnoredRst, SynAckRepeated, NotOurs, DataSegment, OutOfOrder,
                PureAck, SynIgnored, SynDeclined, AckCurrent, Ignored, history
  <2> QED
    BY <2>1, <2>2
<1>4. toPeer \subseteq toPeer' /\ \A q \in toPeer' : q \in toPeer \/ Plain(c, i, q)
  <2>1. \A n : Plain(c, i, Bare(tcp_connect, {"ACK"}, expected_ack_number, n))
    BY DEF Plain, Bare
  <2>2. Plain(c, i, Rst(p))
    BY DEF Plain, Rst, Bare
  <2>3. Plain(c, i, Ack)
    BY <2>1 DEF Ack
  <2>4. CASE NotOurs(p) \/ SynDeclined(p)
    BY <2>2, <2>4 DEF NotOurs, SynDeclined, Reply
  <2>5. CASE EchoedRst(p) \/ SynAckRepeated(p) \/ OutOfOrder(p)
    BY <2>3, <2>5 DEF EchoedRst, SynAckRepeated, OutOfOrder, AckCurrent, Reply
  <2>6. CASE DataSegment(p)
    BY <2>1, <2>6 DEF DataSegment, Reply
  <2>7. CASE RstSegment(p) \/ IgnoredRst(p) \/ PureAck(p) \/ SynIgnored(p)
    BY <2>7 DEF RstSegment, IgnoredRst, PureAck, SynIgnored, Ignored
  <2> QED
    BY <2>4, <2>5, <2>6, <2>7
<1> QED
  BY <1>1, <1>2, <1>3, <1>4, QuietSend

\* The SYN/ACK that tcp_connect waits for: the first byte's number is the next one.
LEMMA SynAckSend ==
  ASSUME TypeOK, NEW c \in Conns, NEW i \in SeqNo, SendingOk(c, i), SendOk, UNCHANGED peerVars,
         tcp_connect = c => call # "listen", NEW p \in toHost, Poll, SynAckExpected(p)
  PROVE  SendingOk(c, i)'
<1> DEFINE r == Bare(tcp_connect, {"ACK"}, expected_ack_number', ack_number')
<1>1. /\ UNCHANGED <<call, send_len, toHost, tcp_connect, acked, eof>>
      /\ tcp_state = "syn_sent" /\ tcp_state' = "established"
      /\ sequence_number' = SeqAdd(sequence_number, 1)
      /\ expected_ack_number' = sequence_number'
      /\ toPeer' = toPeer \cup {r}
  BY DEF Poll, SynAckExpected, history, Reply
<1>2. Plain(c, i, r)
  BY DEF Plain, Bare
<1> HIDE DEF r
<1>3. CASE tcp_connect # c
  BY <1>1, <1>2, <1>3, QuietSend
<1>4. CASE tcp_connect = c
  <2> USE DEF SendingOk, peerVars
  <2>1. PeerCountOk(c, i)' /\ PeerAcksOk(c, i)' /\ InOrderAtPeer(c)' /\ AckedOk(c)'
    BY <1>1, PeerPartKept
  <2>2. /\ acked[c] = 0 /\ sequence_number = i
        /\ \A q \in toPeer : q.conn = c => q.len = 0 /\ "FIN" \notin q.flags
    BY <1>1, <1>4 DEF NumbersOfCurrent, Opening
  <2>3. \A q \in toPeer' : q.conn = c =>
          q.len = 0 /\ "FIN" \notin q.flags /\ ("SYN" \in q.flags => q.seq = i)
    BY <1>1, <1>2, <2>2 DEF Plain, OwnSegments
  <2>4. OwnSegments(c, i)' /\ AllAcked(c, i)' /\ AfterClose(c)'
    BY <2>3 DEF OwnSegments, AllAcked, AfterClose, FinSent
  <2>5. NumbersOfCurrent(c, i)'
    <3>1. sequence_number' = HostSeq(i, 1 + acked[c])
      BY <1>1, <2>2 DEF HostSeq
    <3>2. call # "send" /\ (tcp_connect = c => call # "listen")
      BY <1>1 DEF SendOk
    <3> QED
      BY <1>1, <3>1, <3>2 DEF NumbersOfCurrent, Opening, HostSeq
  <2> QED
    BY <2>1, <2>4, <2>5
<1> QED
  BY <1>3, <1>4

\* While tcp_connect waits no segment with a FIN arrives.
LEMMA FinKnown ==
  ASSUME NEW c \in ActiveConns, StreamInv(c), tcp_connect = c, NEW p \in toHost,
         p.conn = c, "FIN" \in p.flags
  PROVE  tcp_state # "syn_sent" /\ peer_fin[c] = 1
<1>1. p.flags \cap {"SYN", "RST"} = {} /\ Est(c) /\ peer_fin[c] = 1
  BY DEF StreamInv, HostSegments
<1> QED
  BY <1>1, NotYetEst DEF StreamInv, SynSentOk

\* The peer's FIN. It moves sequence_number, even under a tcp_send that goes on.
LEMMA FinSend ==
  ASSUME TypeOK, NEW c \in Conns, NEW i \in SeqNo, SendingOk(c, i), NumbersFit,
         tcp_connect = c => tcp_state = "established" /\ call # "listen" /\ peer_fin[c] = 1,
         UNCHANGED peerVars, NEW p \in toHost, Poll, FinSegment(p)
  PROVE  SendingOk(c, i)'
<1> DEFINE r == Bare(tcp_connect, {"ACK"}, expected_ack_number, ack_number')
<1>1. /\ UNCHANGED <<call, send_len, toHost, tcp_connect, acked, expected_ack_number>>
      /\ p.conn = tcp_connect /\ tcp_state # "closed" /\ tcp_state' = "closed"
      /\ "ACK" \in p.flags /\ p.flags \cap {"RST", "SYN"} = {} /\ "FIN" \in p.flags
      /\ eof' = [eof EXCEPT ![tcp_connect] = @ + 1]
      /\ sequence_number' = SeqAdd(sequence_number, 1)
      /\ toPeer' = toPeer \cup {r}
  BY DEF Poll, FinSegment, AckSegment, Current, EofCallback, Reply
<1>2. Plain(c, i, r)
  BY DEF Plain, Bare
<1> HIDE DEF r
<1>3. CASE tcp_connect # c
  <2>1. eof'[c] = eof[c]
    BY <1>1, <1>3 DEF TypeOK, TcpTypeOK, HistoryOK, ActiveConns
  <2> QED
    BY <1>1, <1>2, <1>3, <2>1, QuietSend
<1>4. CASE tcp_connect = c
  <2> USE DEF SendingOk, peerVars
  <2>1. PeerCountOk(c, i)' /\ PeerAcksOk(c, i)' /\ InOrderAtPeer(c)' /\ AckedOk(c)'
    BY <1>1, PeerPartKept
  <2>2. tcp_state = "established" /\ call # "listen"
    BY <1>4
  <2>3. /\ eof'[c] > 0 /\ peer_fin[c] = 1
    <3>1. eof \in [Conns -> Nat] /\ c \in Conns
      BY DEF TypeOK, TcpTypeOK, HistoryOK, ActiveConns
    <3>2. eof'[c] = eof[c] + 1 /\ eof[c] \in Nat
      BY <1>1, <1>4, <3>1
    <3>3. peer_fin[c] = 1
      BY <1>4
    <3> QED
      BY <3>2, <3>3
  <2>4. FinSent(c)' <=> FinSent(c)
    BY <1>1, <1>2 DEF FinSent, Plain
  <2>5. OwnSegments(c, i)'
    BY <1>1, <1>2, <2>3 DEF OwnSegments, Shifted, HostSeq, Plain
  <2>6. AllAcked(c, i)'
    BY <1>1, <1>2, <1>4, <2>4 DEF AllAcked, HostSeq, Plain
  <2>7. AfterClose(c)'
    BY <1>1, <1>4, <2>4 DEF AfterClose
  <2>8. NumbersOfCurrent(c, i)'
    <3>1. SUFFICES ASSUME call = "send"
                   PROVE  sequence_number' = HostSeq(i, 1 + acked[c] + 1)
      BY <1>1, <1>4, <2>2, <2>3
      DEF NumbersOfCurrent, Opening, Shifted, HostSeq, Totals, SumsClosed
    <3>2. sequence_number = HostSeq(i, 1 + acked[c])
      BY <1>4, <2>2 DEF NumbersOfCurrent, Opening
    <3>3. 1 + acked[c] \in Nat /\ 1 + acked[c] + 1 < SeqMod
      BY SendTypes
    <3> QED
      BY <1>1, <3>2, <3>3, HostSeqAdd
  <2> QED
    BY <2>1, <2>5, <2>6, <2>7, <2>8
<1> QED
  BY <1>3, <1>4

\* The number that a client's tcp_send waits for is none of another connection.
LEMMA AckIsOwn ==
  ASSUME TypeOK, NEW c \in ActiveConns, SendInv, NumbersApart,
         tcp_connect = c, call = "send", last_ack = expected_ack_number, send_len \in SendLens
  PROVE  \E j \in 0 .. PeerCount(c) : last_ack = HostSeq(Isn[c], 1 + j)
<1> DEFINE t == acked[c] + send_len
<1>1. /\ NumbersFit /\ LastAckOk /\ \A d \in ActiveConns : SendingOk(d, Isn[d])
      /\ \A d \in ActiveConns : d \in Conns /\ Isn[d] \in SeqNo
  BY IsnAssumption DEF SendInv, NumbersApart, ActiveConns
<1>2. acked[c] \in Nat /\ send_len \in Nat /\ send_len > 0
  BY <1>1, SendTypes, SendAssumption, SeqModAssumption
<1>3. t \in Totals /\ expected_ack_number = HostSeq(Isn[c], 1 + t)
  <2>1. t \in Totals /\ expected_ack_number = HostSeq(Isn[c], 1 + acked[c] + send_len)
    BY <1>1 DEF SendingOk, NumbersOfCurrent
  <2>2. 1 + acked[c] + send_len = 1 + t
    BY <1>2
  <2> QED
    BY <2>1, <2>2
<1>4. t \in Totals \ {0}
  BY <1>2, <1>3
<1> HIDE DEF t
<1>5. last_ack # 0
  BY <1>3, <1>4 DEF NumbersApart
<1>6. PICK d \in ActiveConns : \E j \in 0 .. PeerCount(d) : last_ack = HostSeq(Isn[d], 1 + j)
  BY <1>1, <1>5 DEF LastAckOk
<1>7. PICK j \in 0 .. PeerCount(d) : last_ack = HostSeq(Isn[d], 1 + j)
  BY <1>6
<1>8. j \in 0 .. MaxBytes + 1
  <2>1. PeerCount(d) \in 0 .. MaxBytes + 1 /\ MaxBytes \in Nat
    BY <1>1, SendTypes
  <2> QED
    BY <2>1
<1>9. d = c
  BY <1>3, <1>4, <1>7, <1>8 DEF NumbersApart
<1> QED
  BY <1>7, <1>9

\* Every step of a client's endpoint, one connection.
LEMMA TcpNextSend ==
  ASSUME TypeOK, NEW c \in ActiveConns, StreamInv(c), EndInv(c), SendOk, SendInv,
         NumbersApart, ClientOnly, ClientControl, UNCHANGED peerVars, TcpNext
  PROVE  SendingOk(c, Isn[c])'
<1>1. /\ SendingOk(c, Isn[c]) /\ c \in Conns /\ Isn[c] \in SeqNo
      /\ NumbersFit /\ NotReopened(c) /\ call # "listen"
  BY IsnAssumption
  DEF SendInv, ActiveConns, NumbersApart, NotReopened, EndInv, EndedOk, ClientControl, ClientOnly
<1>2. ASSUME NEW p \in toHost, TcpProcess(p) PROVE SendingOk(c, Isn[c])'
  <2>1. Poll /\ ~SynAccepted(p)
    BY <1>2 DEF TcpProcess, SynAccepted, ForListenPort, ClientControl
  <2>2. CASE FinSegment(p)
    <3>1. p.conn = tcp_connect /\ "FIN" \in p.flags /\ tcp_state # "closed"
      BY <2>2 DEF FinSegment, AckSegment, Current
    <3>2. tcp_connect = c => tcp_state = "established" /\ peer_fin[c] = 1
      BY <3>1, FinKnown DEF ClientControl, TypeOK, TcpTypeOK, ControlOK
    <3> QED
      BY <1>1, <2>1, <2>2, <3>2, FinSend
  <2> QED
    BY <1>1, <1>2, <2>1, <2>2, QuietHandlersSend, SynAckSend DEF TcpProcess
<1>3. ~TcpListen
  BY DEF TcpListen, StartCall, ClientOnly
<1>4. ASSUME NEW d \in Conns, TcpConnect(d) PROVE SendingOk(c, Isn[c])'
  BY <1>1, <1>4, ConnectSend
<1>5. CASE \/ \E len \in SendLens : TcpSend(len)
           \/ TcpClose \/ TcpCloseNotEstablished \/ TcpSendKeepAlive
  BY <1>1, <1>5, CallsSend
<1>6. CASE \/ Abort \/ CallReturns \/ KeepPolling
           \/ TickDelay \/ TickResend \/ TickTimeout \/ NoSegment
  <2>1. Len(peer_got[c]) > 0 => \E q \in toPeer : q.conn = c
    <3>1. Len(peer_got[c]) > 0 => peer_state[c] # "closed"
      BY <1>1, SendTypes DEF SendingOk, PeerCountOk, PeerCount
    <3> QED
      BY <3>1 DEF StreamInv, Untouched
  <2>2. call = "send" => send_len \in SendLens
    BY DEF ClientControl
  <2>3. tcp_connect = c /\ call = "send" /\ last_ack = expected_ack_number =>
          \E j \in 0 .. PeerCount(c) : last_ack = HostSeq(Isn[c], 1 + j)
    BY <2>2, AckIsOwn DEF SendInv
  <2> QED
    BY <1>1, <1>6, <2>1, <2>2, <2>3, ChecksSend
<1> QED
  BY <1>2, <1>3, <1>4, <1>5, <1>6 DEF TcpNext

\* What is known of the last acknowledgement, and of clients nobody listens for.
LEMMA TcpNextLastAck ==
  ASSUME TypeOK, SendInv, ClientOnly, ClientControl, UNCHANGED peerVars, TcpNext
  PROVE  LastAckOk' /\ ListenersIdle'
<1>1. LastAckOk /\ ListenersIdle /\ \A d \in ActiveConns : SendingOk(d, Isn[d])
  BY DEF SendInv
<1>2. \A d \in ActiveConns : PeerCount(d)' = PeerCount(d)
  BY DEF PeerCount, peerVars
<1>3. /\ UNCHANGED last_ack \/ \E p \in toHost : AckSegment(p)
      /\ UNCHANGED acked \/ SendReturns
  <2>1. ASSUME NEW p \in toHost, TcpProcess(p)
        PROVE  (UNCHANGED last_ack \/ AckSegment(p)) /\ UNCHANGED acked
    <3>1. ~SynAccepted(p)
      BY DEF SynAccepted, ForListenPort, ClientControl
    <3> QED
      BY <2>1, <3>1
      DEF TcpProcess, RstSegment, EchoedRst, IgnoredRst, SynAckExpected, SynAckRepeated, NotOurs,
          DataSegment, OutOfOrder, PureAck, FinSegment, SynIgnored, SynDeclined, AckCurrent,
          Ignored, cb, history
  <2>2. CASE \/ \E c \in Conns : TcpConnect(c)
             \/ TcpListen \/ \E len \in SendLens : TcpSend(len)
             \/ TcpClose \/ TcpCloseNotEstablished \/ TcpSendKeepAlive
    BY <2>2 DEF TcpConnect, TcpListen, TcpSend, TcpClose, TcpCloseNotEstablished,
                TcpSendKeepAlive, cb, history
  <2>3. CASE \/ Abort \/ CallReturns \/ KeepPolling
             \/ TickDelay \/ TickResend \/ TickTimeout \/ NoSegment
    BY <2>3
    DEF Abort, CallReturns, ConnectReturns, ListenReturns, SendReturns, CloseReturns,
        KeepPolling, TickDelay, TickResend, TickTimeout, NoSegment, cb, history
  <2> QED
    BY <2>1, <2>2, <2>3 DEF TcpNext
<1>4. LastAckOk'
  <2>1. CASE UNCHANGED last_ack
    BY <1>1, <1>2, <2>1 DEF LastAckOk, HostSeq
  <2>2. ASSUME NEW p \in toHost, AckSegment(p) PROVE LastAckOk'
    <3>1. /\ p.conn = tcp_connect /\ tcp_connect \in ActiveConns /\ last_ack' = p.ack
          /\ "ACK" \in p.flags /\ "RST" \notin p.flags
      <4>1. /\ p.conn = tcp_connect /\ last_ack' = p.ack
            /\ "ACK" \in p.flags /\ "RST" \notin p.flags
        BY <2>2 DEF AckSegment, Current
      <4>2. tcp_connect # NoConn
        BY <4>1 DEF TypeOK, TcpTypeOK, ToHostOK
      <4> QED
        BY <4>1, <4>2 DEF TypeOK, TcpTypeOK, ControlOK, ClientControl, ActiveConns
    <3>2. PICK d \in ActiveConns : d = tcp_connect
      BY <3>1
    <3>3. PICK j \in 0 .. PeerCount(d) : p.ack = HostSeq(Isn[d], 1 + j)
      BY <1>1, <3>1, <3>2 DEF SendingOk, PeerAcksOk
    <3> QED
      BY <1>2, <3>1, <3>3 DEF LastAckOk, HostSeq
  <2> QED
    BY <1>3, <2>1, <2>2
<1>5. ListenersIdle'
  <2>1. \A c \in ListenConns : acked'[c] = acked[c]
    <3>1. CASE SendReturns
      BY <3>1, ConnAssumption
      DEF SendReturns, ClientControl, TypeOK, TcpTypeOK, HistoryOK
    <3> QED
      BY <1>3, <3>1
  <2> QED
    BY <1>1, <2>1 DEF ListenersIdle, peerVars
<1> QED
  BY <1>4, <1>5

----------------------------------------------------------------------------
(* tcp_send: the peers' steps.                                             *)

\* What the peers do not touch.
LEMMA EndpointPartKept ==
  ASSUME NEW c \in Conns, NEW i \in SeqNo, SendingOk(c, i),
         UNCHANGED <<tcp_state, cb, timer, caller, toPeer, history>>,
         peer_fin[c] = 1 => peer_fin'[c] = 1
  PROVE  OwnSegments(c, i)' /\ AllAcked(c, i)' /\ AfterClose(c)' /\ NumbersOfCurrent(c, i)'
<1> USE DEF SendingOk, cb, caller, history
<1>1. FinSent(c)' <=> FinSent(c)
  BY DEF FinSent
<1>2. OwnSegments(c, i)'
  BY DEF OwnSegments, Shifted, HostSeq
<1>3. AllAcked(c, i)' /\ AfterClose(c)'
  BY <1>1 DEF AllAcked, AfterClose, HostSeq
<1>4. NumbersOfCurrent(c, i)'
  BY DEF NumbersOfCurrent, Opening, Shifted, HostSeq, Totals, SumsClosed
<1> QED
  BY <1>2, <1>3, <1>4

\* A step of the peers in which the one of c receives nothing.
LEMMA PeerQuietSend ==
  ASSUME TypeOK, NEW c \in Conns, NEW i \in SeqNo, SendingOk(c, i), NumbersFit,
         UNCHANGED <<tcp_state, cb, timer, caller, toPeer, history>>,
         UNCHANGED <<peer_rcv[c], peer_got[c], peer_eof[c]>>,
         \/ peer_state'[c] \in {peer_state[c], "reset"}
         \/ peer_state[c] = "closed" /\ peer_state'[c] = "syn_sent",
         peer_fin[c] = 1 => peer_fin'[c] = 1, peer_fin'[c] \in {0, 1},
         \A p \in toHost' :
           \/ p \in toHost \/ p.conn # c \/ "RST" \in p.flags \/ "ACK" \notin p.flags
           \/ (p.ack = peer_rcv[c] /\ peer_state[c] \in {"syn_rcvd", "established"})
  PROVE  SendingOk(c, i)' /\ PeerCount(c)' = PeerCount(c)
<1> USE DEF SendingOk
<1>1. OwnSegments(c, i)' /\ AllAcked(c, i)' /\ AfterClose(c)' /\ NumbersOfCurrent(c, i)'
  BY EndpointPartKept
<1>2. PeerCount(c)' = PeerCount(c) /\ PeerCount(c) \in Nat /\ peer_fin[c] \in {0, 1}
  BY SendTypes DEF PeerCount
<1>3. PeerCountOk(c, i)'
  BY <1>2 DEF PeerCountOk, HostSeq, FinSent, history
<1>4. PeerAcksOk(c, i)'
  <2>1. SUFFICES ASSUME NEW p \in toHost', p.conn = c, "ACK" \in p.flags, "RST" \notin p.flags
                 PROVE  \E j \in 0 .. PeerCount(c) : p.ack = HostSeq(i, 1 + j)
    BY <1>2 DEF PeerAcksOk, HostSeq
  <2>2. CASE p \in toHost
    BY <2>1, <2>2 DEF PeerAcksOk
  <2>3. CASE p.ack = peer_rcv[c] /\ peer_state[c] \in {"syn_rcvd", "established"}
    <3>1. p.ack = HostSeq(i, 1 + PeerCount(c))
      BY <2>3 DEF PeerCountOk
    <3> QED
      BY <1>2, <3>1
  <2> QED
    BY <2>1, <2>2, <2>3
<1>5. AckedOk(c)'
  BY DEF AckedOk, history, Totals, SumsClosed
<1>6. InOrderAtPeer(c)'
  BY <1>2 DEF InOrderAtPeer
<1> QED
  BY <1>1, <1>2, <1>3, <1>4, <1>5, <1>6

\* Data that go beyond the e-th FIN and byte g start at most one past byte g.
LEMMA FreshData ==
  ASSUME NEW i \in SeqNo, NEW k \in Nat, NEW f \in Nat, NEW l \in Nat,
         MaxBytes + 3 < SeqMod, MaxBytes \in Nat, k <= MaxBytes + 2, l > 0,
         f + l <= MaxBytes + 2,
         SeqSub(HostSeq(i, k), HostSeq(i, f)) < l
  PROVE  k >= f /\ SeqSub(HostSeq(i, k), HostSeq(i, f)) = k - f /\ k < f + l
<1>1. SeqMod \in Nat /\ k < SeqMod /\ f < SeqMod
  BY SeqModAssumption
<1>2. SeqSub(HostSeq(i, k), HostSeq(i, f)) = IF k >= f THEN k - f ELSE k - f + SeqMod
  BY <1>1, HostSeqSub
<1> DEFINE o == SeqSub(HostSeq(i, k), HostSeq(i, f))
<1>3. o < l /\ o = IF k >= f THEN k - f ELSE k - f + SeqMod
  BY <1>2
<1> HIDE DEF o
<1>4. k >= f
  BY <1>1, <1>3
<1>5. o = k - f /\ k < f + l
  BY <1>3, <1>4
<1> QED
  BY <1>4, <1>5 DEF o

\* The bytes the peer's application gets from one segment, b being the first.
LEMMA BytesReceived ==
  ASSUME NEW s \in Seq(Nat), NEW k \in Nat, NEW b \in Nat
  PROVE  /\ Len(s \o [i \in 1 .. k |-> b + i - 1]) = Len(s) + k
         /\ (k = 0 \/ b = Len(s) + 1) /\ (\A i \in 1 .. Len(s) : s[i] = i) =>
              \A i \in 1 .. Len(s) + k : (s \o [j \in 1 .. k |-> b + j - 1])[i] = i
<1> DEFINE t == [i \in 1 .. k |-> b + i - 1]
           n == Len(s)
<1>1. t \in Seq(Int) /\ Len(t) = k /\ n \in Nat /\ s \in Seq(Int)
  OBVIOUS
<1>2. \A i \in 1 .. k : t[i] = b + i - 1
  OBVIOUS
<1> HIDE DEF t
<1>3. /\ Len(s \o t) = n + k
      /\ \A i \in 1 .. n + k : (s \o t)[i] = IF i <= n THEN s[i] ELSE t[i - n]
  BY <1>1, ConcatProperties
<1>4. ASSUME k = 0 \/ b = n + 1, \A i \in 1 .. n : s[i] = i, NEW i \in 1 .. n + k
      PROVE  (s \o t)[i] = i
  <2>1. CASE i <= n
    BY <1>1, <1>3, <1>4, <2>1
  <2>2. CASE i > n
    <3>1. i - n \in 1 .. k /\ b = n + 1
      BY <1>1, <1>4, <2>2
    <3> HIDE DEF n
    <3>2. t[i - n] = n + 1 + (i - n) - 1
      BY <1>2, <1>4, <3>1
    <3> QED
      BY <1>1, <1>3, <2>2, <3>2
  <2> QED
    BY <1>1, <2>1, <2>2
<1> QED
  BY <1>3, <1>4 DEF t

\* Bytes of p that are new to its peer, and 1 if its FIN is.
Fresh(p) == IF Overlap(p) < p.len THEN p.len - Overlap(p) ELSE 0
FinTaken(p) ==
  IF "FIN" \in p.flags /\ peer_eof[p.conn] = 0 /\ Overlap(p) <= p.len THEN 1 ELSE 0

\* What the peer takes of a segment: nothing, or data that end at most one past what is
\* awaited, or the FIN when all data have been got.
LEMMA TakenParts ==
  ASSUME TypeOK, NEW c \in Conns, NEW i \in SeqNo, SendingOk(c, i), NumbersFit, NEW p \in toPeer,
         p.conn = c, PeerReceive(p)
  PROVE  \/ Fresh(p) = 0 /\ FinTaken(p) = 0
         \/ /\ FinTaken(p) = 0 /\ peer_eof[c] = 0 /\ Fresh(p) \in 1 .. MaxBytes + 1
            /\ Len(peer_got[c]) + Fresh(p) <= MaxBytes + 1
            /\ p.first + p.len - Fresh(p) \in Nat
            /\ peer_fin[c] = 0 => p.first + p.len - Fresh(p) = Len(peer_got[c]) + 1
         \/ /\ Fresh(p) = 0 /\ FinTaken(p) = 1 /\ peer_eof[c] = 0
            /\ FinSent(c) /\ Len(peer_got[c]) = acked[c]
<1> USE DEF SendingOk
<1> DEFINE g == Len(peer_got[c])
           e == peer_eof[c]
           o == Overlap(p)
           l == p.len
           f == p.first
<1>1. /\ MaxBytes \in Nat /\ MaxBytes + 3 < SeqMod /\ SeqMod \in Nat
      /\ g \in 0 .. MaxBytes + 1 /\ e \in {0, 1} /\ PeerCount(c) = g + e
      /\ g + e <= MaxBytes + 1 /\ acked[c] \in Nat /\ acked[c] <= MaxBytes
      /\ f \in Nat /\ l \in Nat
  <2>1. PeerCount(c) \in 0 .. MaxBytes + 1
    BY SendTypes
  <2>2. f \in Nat /\ l \in Nat
    BY SeqModAssumption DEF TypeOK, TcpTypeOK, Segment, SeqNo
  <2> QED
    BY <2>1, <2>2, SendTypes DEF PeerCount
<1>2. peer_rcv[c] = HostSeq(i, 1 + (g + e))
  BY <1>1 DEF PeerReceive, PeerCountOk
<1>3. o = SeqSub(HostSeq(i, 1 + (g + e)), p.seq)
  BY <1>2 DEF Overlap
<1>4. Fresh(p) = (IF o < l THEN l - o ELSE 0)
      /\ FinTaken(p) = (IF "FIN" \in p.flags /\ e = 0 /\ o <= l THEN 1 ELSE 0)
  BY DEF Fresh, FinTaken
<1>5. /\ p.len > 0 =>
            /\ "FIN" \notin p.flags /\ f >= 1 /\ f + l - 1 <= MaxBytes
            /\ \E n \in {0, 1} : (n = 0 \/ Shifted(c, n)) /\ p.seq = HostSeq(i, f + n)
      /\ "FIN" \in p.flags => p.seq = HostSeq(i, 1 + acked[c])
  BY DEF OwnSegments
<1>6. /\ e = 1 => FinSent(c) /\ g = acked[c]
      /\ p.len > 0 /\ FinSent(c) => f + l - 1 <= acked[c] /\ p.seq = HostSeq(i, f)
  BY DEF PeerCountOk, AllAcked
<1>7. p.seq \in SeqNo /\ p.len = l
  BY DEF TypeOK, TcpTypeOK, Segment
<1> HIDE DEF g, e, o, l, f
<1> DEFINE a == acked[c]
<1>8. a \in Nat /\ a <= MaxBytes /\ a = acked[c]
  BY <1>1
<1> HIDE DEF a
<1>9. CASE l > 0
  <2>1. PICK n \in {0, 1} : (n = 0 \/ Shifted(c, n)) /\ p.seq = HostSeq(i, f + n)
    BY <1>9, <1>5, <1>7
  <2>2. "FIN" \notin p.flags /\ f >= 1 /\ f + l - 1 <= MaxBytes
    BY <1>9, <1>5, <1>7
  <2>3. FinTaken(p) = 0
    BY <1>4, <2>2
  <2>4. CASE ~(o < l)
    BY <1>4, <2>3, <2>4
  <2>5. CASE o < l
    <3> DEFINE k == 1 + (g + e)
               h == f + n
    <3>1. k \in Nat /\ h \in Nat /\ k <= MaxBytes + 2 /\ h + l <= MaxBytes + 2
      BY <1>1, <2>2
    <3>2. o = SeqSub(HostSeq(i, k), HostSeq(i, h))
      BY <1>3, <2>1
    <3> HIDE DEF k, h, o
    <3>3. k >= h /\ o = k - h /\ k < h + l
      BY <1>1, <1>9, <2>5, <3>1, <3>2, FreshData
    <3>4. e = 0
      <4>1. SUFFICES ASSUME e = 1 PROVE FALSE
        BY <1>1
      <4>2. g = a
        BY <1>6, <1>8, <4>1
      <4>3. f + l - 1 <= a /\ p.seq = HostSeq(i, f)
        BY <1>9, <1>6, <1>7, <1>8, <4>1
      <4>4. HostSeq(i, h) = HostSeq(i, f)
        BY <2>1, <4>3 DEF h
      <4>5. h < SeqMod /\ f < SeqMod
        BY <1>1, <1>9, <2>2, <3>1
      <4>6. h = f
        BY <1>1, <3>1, <4>4, <4>5, HostSeqInjective
      <4> QED
        BY <1>1, <1>8, <3>3, <4>1, <4>2, <4>3, <4>6 DEF k
    <3>5. Fresh(p) = l - o
      BY <1>4, <2>5
    <3>6. /\ Fresh(p) = h + l - 1 - g /\ Fresh(p) > 0 /\ k = 1 + g
      BY <1>1, <3>1, <3>3, <3>4, <3>5 DEF k
    <3>7. f + l - Fresh(p) = g + 1 - n
      BY <1>1, <2>1, <3>1, <3>6 DEF h
    <3>8. peer_fin[c] = 0 => n = 0
      BY <2>1 DEF Shifted
    <3>9. /\ Fresh(p) \in 1 .. MaxBytes + 1 /\ g + Fresh(p) <= MaxBytes + 1
          /\ f + l - Fresh(p) \in Nat
          /\ peer_fin[c] = 0 => f + l - Fresh(p) = g + 1
      BY <1>1, <2>1, <3>1, <3>6, <3>7, <3>8
    <3> QED
      BY <2>3, <3>4, <3>9 DEF g, e, f, l
  <2> QED
    BY <2>4, <2>5
<1>10. CASE l = 0
  <2>1. o \in Nat
    <3>1. HostSeq(i, 1 + (g + e)) \in SeqNo /\ p.seq \in SeqNo
      <4>1. 1 + (g + e) \in 0 .. SeqMod
        BY <1>1
      <4> QED
        BY <1>1, <1>7, <4>1, HostSeqType
    <3> QED
      BY <1>3, <3>1, SeqModAssumption DEF SeqSub, SeqNo
  <2>2. Fresh(p) = 0
    BY <1>4, <1>10, <2>1
  <2>3. CASE FinTaken(p) = 0
    BY <2>2, <2>3
  <2>4. CASE FinTaken(p) # 0
    <3>1. "FIN" \in p.flags /\ e = 0 /\ o = 0 /\ FinTaken(p) = 1
      BY <1>4, <1>10, <2>1, <2>4
    <3>2. p.seq = HostSeq(i, 1 + a) /\ FinSent(c)
      BY <1>5, <1>8, <3>1 DEF FinSent
    <3> DEFINE k == 1 + (g + e)
               h == 1 + a
    <3>3. k \in Nat /\ h \in Nat /\ k < SeqMod /\ h < SeqMod
      BY <1>1, <1>8
    <3>4. SeqSub(HostSeq(i, k), HostSeq(i, h)) = 0
      BY <1>3, <3>1, <3>2
    <3>5. SeqSub(HostSeq(i, k), HostSeq(i, h)) = IF k >= h THEN k - h ELSE k - h + SeqMod
      BY <1>1, <3>3, HostSeqSub
    <3> HIDE DEF k, h
    <3>6. k = h
      BY <1>1, <3>3, <3>4, <3>5
    <3>7. g = a
      BY <1>1, <1>8, <3>1, <3>6 DEF k, h
    <3> QED
      BY <1>8, <2>2, <3>1, <3>2, <3>7 DEF g, e
  <2> QED
    BY <2>3, <2>4
<1> QED
  BY <1>1, <1>9, <1>10 DEF l

\* The peer of c takes a segment of the established connection.
LEMMA ReceiveSend ==
  ASSUME TypeOK, NEW c \in Conns, NEW i \in SeqNo, SendingOk(c, i), NumbersFit,
         UNCHANGED <<tcp_state, cb, timer, caller, toPeer, history>>,
         NEW p \in toPeer, p.conn = c, PeerReceive(p)
  PROVE  SendingOk(c, i)' /\ PeerCount(c)' >= PeerCount(c)
<1> USE DEF SendingOk
<1> DEFINE x == Fresh(p)
           y == FinTaken(p)
           s == peer_got[c]
           b == p.first + p.len - x
           n == PeerCount(c)
<1>1. /\ MaxBytes \in Nat /\ MaxBytes + 3 < SeqMod /\ SeqMod \in Nat
      /\ s \in Seq(Nat) /\ Len(s) \in 0 .. MaxBytes + 1 /\ peer_eof[c] \in {0, 1}
      /\ n \in 0 .. MaxBytes + 1 /\ n = Len(s) + peer_eof[c]
      /\ acked[c] \in Nat /\ acked[c] <= MaxBytes
  BY SendTypes DEF PeerCount
<1>2. /\ peer_rcv'[c] = SeqAdd(peer_rcv[c], x + y)
      /\ peer_got'[c] = s \o [k \in 1 .. x |-> b + k - 1]
      /\ peer_eof'[c] = peer_eof[c] + y
      /\ peer_state'[c] = "established" /\ peer_state[c] \in {"syn_rcvd", "established"}
      /\ UNCHANGED <<peer_sent, peer_fin>>
      /\ \A q \in toHost' : q \in toHost \/ q = PeerAck(c)
  BY <1>1 DEF PeerReceive, Fresh, FinTaken, TypeOK, PeerTypeOK, PeerSends
<1>3. peer_rcv[c] = HostSeq(i, 1 + n)
  BY <1>2 DEF PeerCountOk
<1>4. \/ x = 0 /\ y = 0
      \/ /\ y = 0 /\ peer_eof[c] = 0 /\ x \in 1 .. MaxBytes + 1
         /\ Len(s) + x <= MaxBytes + 1 /\ b \in Nat
         /\ peer_fin[c] = 0 => b = Len(s) + 1
      \/ x = 0 /\ y = 1 /\ peer_eof[c] = 0 /\ FinSent(c) /\ Len(s) = acked[c]
  BY TakenParts
<1>5. p.first \in Nat /\ p.len \in Nat
  BY SeqModAssumption DEF TypeOK, TcpTypeOK, Segment, SeqNo
<1>6. PeerAck(c).ack = peer_rcv'[c]
  BY DEF PeerAck, PeerBare, PeerSegment
<1> HIDE DEF x, y, s, n
<1>7. x \in Nat /\ y \in {0, 1} /\ b \in Nat
  <2>1. x \in Nat /\ y \in {0, 1}
    BY <1>1, <1>4
  <2>2. x = 0 => b = p.first + p.len
    BY <1>5
  <2>3. x = 0 => b \in Nat
    BY <1>5, <2>2
  <2> HIDE DEF b
  <2> QED
    BY <1>4, <2>1, <2>3
<1> HIDE DEF b
<1>8. /\ Len(peer_got'[c]) = Len(s) + x
      /\ (x = 0 \/ b = Len(s) + 1) /\ (\A k \in 1 .. Len(s) : s[k] = k) =>
           \A k \in 1 .. Len(s) + x : peer_got'[c][k] = k
  <2> DEFINE u == s \o [k \in 1 .. x |-> b + k - 1]
  <2>1. /\ Len(u) = Len(s) + x
        /\ (x = 0 \/ b = Len(s) + 1) /\ (\A k \in 1 .. Len(s) : s[k] = k) =>
             \A k \in 1 .. Len(s) + x : u[k] = k
    BY <1>1, <1>7, BytesReceived
  <2> HIDE DEF u
  <2>2. peer_got'[c] = u
    BY <1>2 DEF u
  <2> QED
    BY <2>1, <2>2
<1>9. /\ PeerCount(c)' = n + (x + y) /\ n + (x + y) <= MaxBytes + 1
      /\ n \in Nat /\ x + y \in Nat /\ MaxBytes \in Nat /\ MaxBytes + 3 < SeqMod
      /\ SeqMod \in Nat
  <2> DEFINE g == Len(s)
             e == peer_eof[c]
  <2>1. PeerCount(c)' = g + x + (e + y)
    BY <1>2, <1>8 DEF PeerCount
  <2>2. n = g + e /\ g \in 0 .. MaxBytes + 1 /\ e \in {0, 1}
    BY <1>1
  <2>3. g + e + (x + y) <= MaxBytes + 1
    BY <1>1, <1>4
  <2>4. MaxBytes \in Nat /\ MaxBytes + 3 < SeqMod /\ SeqMod \in Nat
    BY <1>1
  <2> HIDE DEF g, e
  <2> QED
    BY <1>7, <2>1, <2>2, <2>3, <2>4
<1>10. peer_rcv'[c] = HostSeq(i, 1 + PeerCount(c)')
  <2> DEFINE m == 1 + n
             k == x + y
  <2>1. m \in Nat /\ k \in Nat /\ m + k < SeqMod /\ m + k = 1 + PeerCount(c)'
    BY <1>9
  <2>2. peer_rcv'[c] = SeqAdd(HostSeq(i, m), k)
    BY <1>2, <1>3
  <2> HIDE DEF m, k
  <2>3. SeqAdd(HostSeq(i, m), k) = HostSeq(i, m + k)
    BY <2>1, HostSeqAdd
  <2> QED
    BY <2>1, <2>2, <2>3
<1>11. PeerCountOk(c, i)'
  <2>1. Len(peer_got'[c]) <= MaxBytes + 1
    BY <1>1, <1>4, <1>8
  <2>2. peer_eof'[c] = 1 => FinSent(c) /\ Len(peer_got'[c]) = acked[c]
    <3>1. peer_eof[c] = 1 => FinSent(c) /\ Len(s) = acked[c]
      BY DEF PeerCountOk, s
    <3>2. CASE x = 0 /\ y = 0
      BY <1>1, <1>2, <1>8, <3>1, <3>2
    <3>3. CASE y = 0 /\ peer_eof[c] = 0
      BY <1>2, <3>3
    <3>4. CASE x = 0 /\ FinSent(c) /\ Len(s) = acked[c]
      BY <1>1, <1>8, <3>4
    <3> QED
      BY <1>4, <3>2, <3>3, <3>4
  <2> QED
    BY <1>2, <1>10, <2>1, <2>2 DEF PeerCountOk, FinSent, history, HostSeq
<1>12. PeerAcksOk(c, i)'
  <2>1. SUFFICES ASSUME NEW q \in toHost', q.conn = c, "ACK" \in q.flags, "RST" \notin q.flags
                 PROVE  \E j \in 0 .. PeerCount(c)' : q.ack = HostSeq(i, 1 + j)
    BY DEF PeerAcksOk, HostSeq
  <2>2. CASE q \in toHost
    <3>1. PICK j \in 0 .. n : q.ack = HostSeq(i, 1 + j)
      BY <2>1, <2>2 DEF PeerAcksOk, n
    <3>2. j \in 0 .. PeerCount(c)'
      BY <1>9, <3>1
    <3> QED
      BY <3>1, <3>2
  <2>3. CASE q = PeerAck(c)
    <3>1. PeerCount(c)' \in 0 .. PeerCount(c)'
      BY <1>9
    <3> QED
      BY <1>6, <1>10, <2>3, <3>1
  <2> QED
    BY <1>2, <2>1, <2>2, <2>3
<1>13. AckedOk(c)'
  <2>1. acked[c] <= Len(s)
    BY DEF AckedOk, s
  <2>2. acked[c] <= Len(peer_got'[c])
    BY <1>1, <1>7, <1>8, <2>1
  <2> QED
    BY <2>2 DEF AckedOk, history, Totals, SumsClosed
<1>14. InOrderAtPeer(c)'
  <2>1. peer_fin[c] = 0 =>
          (x = 0 \/ b = Len(s) + 1) /\ \A k \in 1 .. Len(s) : s[k] = k
    BY <1>4 DEF InOrderAtPeer, s
  <2> QED
    BY <1>2, <1>8, <2>1 DEF InOrderAtPeer
<1>15. OwnSegments(c, i)' /\ AllAcked(c, i)' /\ AfterClose(c)' /\ NumbersOfCurrent(c, i)'
  BY <1>2, EndpointPartKept
<1>16. PeerCount(c)' >= n
  BY <1>9
<1> QED
  BY <1>11, <1>12, <1>13, <1>14, <1>15, <1>16 DEF n

\* A server accepts the SYN of c.
LEMMA AcceptSend ==
  ASSUME TypeOK, NEW c \in Conns, NEW i \in SeqNo, SendingOk(c, i), NumbersFit,
         UNCHANGED <<tcp_state, cb, timer, caller, toPeer, history>>,
         NEW p \in toPeer, p.conn = c, PeerAccept(p)
  PROVE  SendingOk(c, i)' /\ PeerCount(c)' >= PeerCount(c)
<1> USE DEF SendingOk
<1> DEFINE r == [PeerBare(c, {"SYN", "ACK"}, PeerIsn[c]) EXCEPT !.ack = SeqAdd(p.seq, 1)]
<1>1. /\ PeerCount(c) \in Nat /\ PeerCount(c) = 0
      /\ toHost' = toHost \cup {r}
  BY SendTypes DEF PeerAccept, PeerSends, PeerCountOk
<1> HIDE DEF r
<1>2. /\ peer_state'[c] = "syn_rcvd" /\ peer_rcv'[c] = SeqAdd(p.seq, 1)
      /\ UNCHANGED <<peer_sent, peer_fin, peer_got, peer_eof>>
  BY <1>1 DEF PeerAccept, TypeOK, PeerTypeOK
<1>3. r.ack = SeqAdd(p.seq, 1)
  BY DEF r, PeerBare, PeerSegment
<1>4. SeqAdd(p.seq, 1) = HostSeq(i, 1)
  BY DEF PeerAccept, OwnSegments, HostSeq
<1>5. PeerCount(c)' = 0
  BY <1>1, <1>2 DEF PeerCount
<1>6. OwnSegments(c, i)' /\ AllAcked(c, i)' /\ AfterClose(c)' /\ NumbersOfCurrent(c, i)'
  BY <1>2, EndpointPartKept
<1>7. PeerCountOk(c, i)'
  <2>1. 1 + PeerCount(c)' = 1
    BY <1>5
  <2> QED
    BY <1>2, <1>4, <1>5, <2>1 DEF PeerCountOk, FinSent, history, HostSeq
<1>8. PeerAcksOk(c, i)'
  <2>1. SUFFICES ASSUME NEW q \in toHost', q.conn = c, "ACK" \in q.flags, "RST" \notin q.flags
                 PROVE  \E j \in 0 .. 0 : q.ack = HostSeq(i, 1 + j)
    BY <1>5 DEF PeerAcksOk, HostSeq
  <2>2. CASE q \in toHost
    BY <1>1, <2>1, <2>2 DEF PeerAcksOk
  <2>3. CASE q = r
    <3>1. 1 + 0 = 1 /\ 0 \in 0 .. 0
      OBVIOUS
    <3> QED
      BY <1>3, <1>4, <2>3, <3>1
  <2> QED
    BY <1>1, <2>1, <2>2, <2>3
<1>9. AckedOk(c)' /\ InOrderAtPeer(c)'
  BY <1>2 DEF AckedOk, InOrderAtPeer, history, Totals, SumsClosed
<1> QED
  BY <1>1, <1>5, <1>6, <1>7, <1>8, <1>9

\* The peer of c takes the answer to its SYN.
LEMMA EstablishedSend ==
  ASSUME TypeOK, NEW c \in Conns, NEW i \in SeqNo, SendingOk(c, i), NumbersFit,
         UNCHANGED <<tcp_state, cb, timer, caller, toPeer, history>>,
         NEW p \in toPeer, p.conn = c, PeerEstablished(p)
  PROVE  SendingOk(c, i)' /\ PeerCount(c)' >= PeerCount(c)
<1> USE DEF SendingOk
<1> DEFINE r == PeerAck(c)
<1>1. /\ PeerCount(c) \in Nat /\ PeerCount(c) = 0
      /\ toHost' = toHost \cup {r}
  BY SendTypes DEF PeerEstablished, PeerSends, PeerCountOk
<1>2. r.ack = peer_rcv'[c]
  BY DEF PeerAck, PeerBare, PeerSegment
<1> HIDE DEF r
<1>3. /\ peer_state'[c] = "established" /\ peer_rcv'[c] = SeqAdd(p.seq, 1)
      /\ UNCHANGED <<peer_sent, peer_fin, peer_got, peer_eof>>
  BY <1>1 DEF PeerEstablished, TypeOK, PeerTypeOK
<1>4. SeqAdd(p.seq, 1) = HostSeq(i, 1)
  BY DEF PeerEstablished, OwnSegments, HostSeq
<1>5. PeerCount(c)' = 0
  BY <1>1, <1>3 DEF PeerCount
<1>6. OwnSegments(c, i)' /\ AllAcked(c, i)' /\ AfterClose(c)' /\ NumbersOfCurrent(c, i)'
  BY <1>3, EndpointPartKept
<1>7. PeerCountOk(c, i)'
  <2>1. 1 + PeerCount(c)' = 1
    BY <1>5
  <2> QED
    BY <1>3, <1>4, <1>5, <2>1 DEF PeerCountOk, FinSent, history, HostSeq
<1>8. PeerAcksOk(c, i)'
  <2>1. SUFFICES ASSUME NEW q \in toHost', q.conn = c, "ACK" \in q.flags, "RST" \notin q.flags
                 PROVE  \E j \in 0 .. 0 : q.ack = HostSeq(i, 1 + j)
    BY <1>5 DEF PeerAcksOk, HostSeq
  <2>2. CASE q \in toHost
    BY <1>1, <2>1, <2>2 DEF PeerAcksOk
  <2>3. CASE q = r
    <3>1. 1 + 0 = 1 /\ 0 \in 0 .. 0
      OBVIOUS
    <3> QED
      BY <1>2, <1>3, <1>4, <2>3, <3>1
  <2> QED
    BY <1>1, <2>1, <2>2, <2>3
<1>9. AckedOk(c)' /\ InOrderAtPeer(c)'
  BY <1>3 DEF AckedOk, InOrderAtPeer, history, Totals, SumsClosed
<1> QED
  BY <1>1, <1>5, <1>6, <1>7, <1>8, <1>9

\* Every step of the peer of c.
LEMMA OwnPeerSend ==
  ASSUME TypeOK, TypeOK', NEW c \in Conns, NEW i \in SeqNo, SendingOk(c, i), NumbersFit,
         UNCHANGED <<tcp_state, cb, timer, caller, toPeer, history>>, PeerStep(c)
  PROVE  SendingOk(c, i)' /\ PeerCount(c)' >= PeerCount(c)
<1>1. /\ PeerCount(c) \in Nat
      /\ peer_state \in [Conns -> {"closed", "syn_sent", "syn_rcvd", "established", "reset"}]
      /\ peer_fin'[c] \in {0, 1} /\ peer_fin \in [Conns -> {0, 1}]
  BY SendTypes DEF TypeOK, PeerTypeOK
<1>2. ASSUME NEW p \in toPeer, p.conn = c, PeerProcess(p)
      PROVE  SendingOk(c, i)' /\ PeerCount(c)' >= PeerCount(c)
  <2>1. CASE PeerAccept(p)
    BY <1>2, <2>1, AcceptSend
  <2>2. CASE PeerReceive(p)
    BY <1>2, <2>2, ReceiveSend
  <2>3. CASE PeerEstablished(p)
    BY <1>2, <2>3, EstablishedSend
  <2>4. CASE PeerRefuse(p) \/ PeerChallenge(p) \/ PeerUnknown(p) \/ PeerIsReset(p)
    <3>1. /\ UNCHANGED <<peer_rcv, peer_sent, peer_fin, peer_got, peer_eof>>
          /\ peer_state'[c] \in {peer_state[c], "reset"}
      BY <1>1, <1>2, <2>4
      DEF PeerRefuse, PeerChallenge, PeerUnknown, PeerIsReset, peerVars
    <3>2. \A q \in toHost' : q \in toHost \/ "RST" \in q.flags
            \/ (q.ack = peer_rcv[c] /\ peer_state[c] = "established")
      <4>1. \A f, s, id : PeerSegment(c, f, s, 0, 0, id).flags = f
        BY DEF PeerSegment
      <4>2. PeerAck(c).ack = peer_rcv'[c]
        BY DEF PeerAck, PeerBare, PeerSegment
      <4>3. CASE PeerRefuse(p) \/ PeerUnknown(p)
        <5>1. \E id, f : toHost' = toHost \cup {PeerSegment(c, f, 0, 0, 0, id)} /\ "RST" \in f
          BY <1>2, <4>3 DEF PeerRefuse, PeerUnknown, PeerSends
        <5> QED
          BY <4>1, <5>1
      <4>4. CASE PeerChallenge(p)
        BY <1>2, <3>1, <4>2, <4>4 DEF PeerChallenge, PeerSends
      <4>5. CASE PeerIsReset(p)
        BY <4>5 DEF PeerIsReset
      <4> QED
        BY <2>4, <4>3, <4>4, <4>5
    <3>3. SendingOk(c, i)' /\ PeerCount(c)' = PeerCount(c)
      BY <1>1, <3>1, <3>2, PeerQuietSend
    <3> QED
      BY <1>1, <3>3
  <2> QED
    BY <1>2, <2>1, <2>2, <2>3, <2>4 DEF PeerProcess
<1>3. ASSUME NEW first \in 1 .. PeerLen + 1, NEW last \in 0 .. PeerLen, NEW fin \in {0, 1},
             PeerWrite(c, first, last, fin)
      PROVE  SendingOk(c, i)' /\ PeerCount(c)' >= PeerCount(c)
  <2> DEFINE r == PeerSegment(c, IF fin = 1 THEN {"FIN", "ACK"} ELSE {"ACK"},
                              PeerSeq(c, first), first, last - first + 1, "other")
  <2>1. r.ack = peer_rcv[c]
    BY DEF PeerSegment
  <2>2. /\ UNCHANGED <<peer_state, peer_rcv, peer_got, peer_eof>>
        /\ toHost' = toHost \cup {r} /\ peer_state[c] = "established"
        /\ peer_fin[c] = 1 => peer_fin'[c] = 1
    BY <1>1, <1>3 DEF PeerWrite, PeerSends
  <2> HIDE DEF r
  <2>3. SendingOk(c, i)' /\ PeerCount(c)' = PeerCount(c)
    BY <1>1, <2>1, <2>2, PeerQuietSend
  <2> QED
    BY <1>1, <2>3
<1>4. CASE PeerAbort(c)
  <2>1. \A f, s, id : PeerSegment(c, f, s, 0, 0, id).flags = f
    BY DEF PeerSegment
  <2>2. /\ UNCHANGED <<peer_rcv, peer_sent, peer_fin, peer_got, peer_eof>>
        /\ peer_state'[c] = "reset" /\ \A q \in toHost' : q \in toHost \/ "RST" \in q.flags
    BY <1>1, <1>4, <2>1 DEF PeerAbort, PeerSends
  <2>3. SendingOk(c, i)' /\ PeerCount(c)' = PeerCount(c)
    BY <1>1, <2>2, PeerQuietSend
  <2> QED
    BY <1>1, <2>3
<1>5. CASE PeerConnect(c)
  <2> DEFINE r == PeerBare(c, {"SYN"}, PeerIsn[c])
  <2>1. /\ UNCHANGED <<peer_rcv, peer_sent, peer_fin, peer_got, peer_eof>>
        /\ peer_state[c] = "closed" /\ peer_state'[c] = "syn_sent"
        /\ toHost' = toHost \cup {r} /\ r.flags = {"SYN"}
    BY <1>1, <1>5 DEF PeerConnect, PeerSends, PeerBare, PeerSegment
  <2> HIDE DEF r
  <2>2. SendingOk(c, i)' /\ PeerCount(c)' = PeerCount(c)
    BY <1>1, <2>1, PeerQuietSend
  <2> QED
    BY <1>1, <2>2
<1> QED
  BY <1>2, <1>3, <1>4, <1>5 DEF PeerStep

\* What another connection's peer leaves alone.
LEMMA OtherPeerPart ==
  ASSUME TypeOK, NEW c \in Conns, NEW d \in Conns, c # d, PeerStep(d)
  PROVE  UNCHANGED <<peer_rcv[c], peer_got[c], peer_eof[c]>>
<1>1. CASE \/ PeerConnect(d) \/ PeerAbort(d)
           \/ \E first \in 1 .. PeerLen + 1, last \in 0 .. PeerLen, fin \in {0, 1} :
                PeerWrite(d, first, last, fin)
  BY <1>1 DEF PeerConnect, PeerAbort, PeerWrite
<1>2. ASSUME NEW p \in toPeer, p.conn = d, PeerProcess(p)
      PROVE  UNCHANGED <<peer_rcv[c], peer_got[c], peer_eof[c]>>
  <2>1. /\ UNCHANGED peer_rcv \/ \E n : peer_rcv' = [peer_rcv EXCEPT ![d] = n]
        /\ UNCHANGED peer_got \/ \E s : peer_got' = [peer_got EXCEPT ![d] = s]
        /\ UNCHANGED peer_eof \/ \E n : peer_eof' = [peer_eof EXCEPT ![d] = n]
    <3>1. CASE PeerAccept(p) \/ PeerEstablished(p)
      BY <1>2, <3>1 DEF PeerAccept, PeerEstablished
    <3>2. CASE PeerReceive(p)
      BY <1>2, <3>2 DEF PeerReceive
    <3>3. CASE PeerRefuse(p) \/ PeerChallenge(p) \/ PeerUnknown(p) \/ PeerIsReset(p)
      BY <3>3 DEF PeerRefuse, PeerChallenge, PeerUnknown, PeerIsReset, peerVars
    <3> QED
      BY <1>2, <3>1, <3>2, <3>3 DEF PeerProcess
  <2> QED
    BY <2>1 DEF TypeOK, PeerTypeOK
<1> QED
  BY <1>1, <1>2 DEF PeerStep

\* Every step of the peers, one connection.
LEMMA PeerNextSend ==
  ASSUME TypeOK, TypeOK', NEW c \in Conns, NEW i \in SeqNo, SendingOk(c, i), NumbersFit,
         UNCHANGED <<tcp_state, cb, timer, caller, toPeer, history>>,
         NEW d \in Conns, PeerStep(d)
  PROVE  SendingOk(c, i)' /\ PeerCount(c)' >= PeerCount(c)
<1>1. CASE c = d
  BY <1>1, OwnPeerSend
<1>2. CASE c # d
  <2>1. PeerCount(c) \in Nat /\ peer_fin'[c] \in {0, 1}
    BY SendTypes DEF TypeOK, PeerTypeOK
  <2>2. UNCHANGED <<peer_state[c], peer_sent[c], peer_fin[c]>>
    BY <1>2, <2>1, OtherPeer
  <2>3. UNCHANGED <<peer_rcv[c], peer_got[c], peer_eof[c]>>
    BY <1>2, <2>1, OtherPeerPart
  <2>4. \A p \in toHost' : p \in toHost \/ p.conn # c
    BY <1>2, PeerSendsOwn
  <2>5. SendingOk(c, i)' /\ PeerCount(c)' = PeerCount(c)
    BY <2>1, <2>2, <2>3, <2>4, PeerQuietSend
  <2> QED
    BY <2>1, <2>5
<1> QED
  BY <1>1, <1>2

\* No client of a port nobody listens on gets data.
LEMMA ListenersGetNothing ==
  ASSUME TypeOK, StrangersOk, ListenersIdle, UNCHANGED history,
         NEW d \in Conns, PeerStep(d)
  PROVE  ListenersIdle'
<1>1. ASSUME NEW c \in ListenConns PROVE peer_got'[c] = peer_got[c]
  <2>1. c \in Conns
    BY <1>1, ConnAssumption
  <2>2. CASE c # d
    BY <2>1, <2>2, OtherPeerPart
  <2>3. CASE c = d
    <3>1. \A p \in toPeer : p.conn = d => ~PeerReceive(p)
      BY <1>1, <2>3 DEF StrangersOk, PeerReceive
    <3>2. ASSUME NEW p \in toPeer, p.conn = d, PeerProcess(p) PROVE UNCHANGED peer_got
      BY <3>1, <3>2
      DEF PeerProcess, PeerAccept, PeerRefuse, PeerEstablished, PeerChallenge, PeerUnknown,
          PeerIsReset, peerVars
    <3>3. CASE \/ PeerConnect(d) \/ PeerAbort(d)
               \/ \E first \in 1 .. PeerLen + 1, last \in 0 .. PeerLen, fin \in {0, 1} :
                    PeerWrite(d, first, last, fin)
      BY <3>3 DEF PeerConnect, PeerAbort, PeerWrite
    <3> QED
      BY <3>2, <3>3 DEF PeerStep
  <2> QED
    BY <2>2, <2>3
<1> QED
  BY <1>1 DEF ListenersIdle, history

----------------------------------------------------------------------------
\* The invariant of tcp_send holds initially.
LEMMA SendInit == Init => SendInv
<1> SUFFICES ASSUME Init PROVE SendInv
  OBVIOUS
<1>1. LastAckOk
  BY DEF Init, TcpInit, LastAckOk
<1>2. ListenersIdle
  BY ConnAssumption DEF Init, TcpInit, PeerInit, ListenersIdle
<1>3. ASSUME NEW c \in ActiveConns PROVE SendingOk(c, Isn[c])
  <2>1. /\ c # Stranger /\ c # NoConn /\ c \in Conns /\ MaxBytes \in Nat
        /\ 0 \in Totals /\ \A p \in StrayPackets : p.conn = Stranger
    BY ConnAssumption, SendAssumption, StrayAssumption, TotalsClosed DEF ActiveConns
  <2>2. /\ toPeer = {} /\ toHost = StrayPackets /\ acked[c] = 0 /\ tcp_connect = NoConn
        /\ peer_state[c] = "closed" /\ peer_got[c] = <<>> /\ peer_eof[c] = 0
    BY <2>1 DEF Init, TcpInit, PeerInit
  <2>3. Len(peer_got[c]) = 0 /\ PeerCount(c) = 0
    BY <2>2 DEF PeerCount
  <2>4. PeerCountOk(c, Isn[c]) /\ AckedOk(c) /\ InOrderAtPeer(c)
    BY <2>1, <2>2, <2>3 DEF PeerCountOk, AckedOk, InOrderAtPeer
  <2>5. PeerAcksOk(c, Isn[c]) /\ OwnSegments(c, Isn[c]) /\ AllAcked(c, Isn[c]) /\ AfterClose(c) /\ NumbersOfCurrent(c, Isn[c])
    BY <2>1, <2>2
    DEF PeerAcksOk, OwnSegments, AllAcked, AfterClose, FinSent, NumbersOfCurrent
  <2> QED
    BY <2>4, <2>5 DEF SendingOk
<1> QED
  BY <1>1, <1>2, <1>3 DEF SendInv

\* Every step of a client and of the peers keeps it.
LEMMA SendKept ==
  ASSUME ClientOnly, NumbersApart, TypeOK, TypeOK', ClientInv, SendInv, [Next]_vars
  PROVE  SendInv'
<1>1. /\ LastAckOk /\ ListenersIdle /\ \A c \in ActiveConns : SendingOk(c, Isn[c])
      /\ SendOk /\ \A c \in ActiveConns : StreamInv(c) /\ EndInv(c)
      /\ ClientControl /\ StrangersOk
      /\ NumbersFit /\ \A c \in ActiveConns : c \in Conns /\ Isn[c] \in SeqNo
  BY IsnAssumption DEF SendInv, ClientInv, IInv, NumbersApart, ActiveConns
<1>2. CASE TcpNext /\ UNCHANGED peerVars
  <2>1. LastAckOk' /\ ListenersIdle'
    BY <1>1, <1>2, TcpNextLastAck
  <2>2. ASSUME NEW c \in ActiveConns PROVE SendingOk(c, Isn[c])'
    BY <1>1, <1>2, TcpNextSend
  <2> QED
    BY <2>1, <2>2 DEF SendInv, ActiveConns
<1>3. CASE PeerNext /\ UNCHANGED <<tcp_state, cb, timer, caller, toPeer, history>>
  <2>1. PICK d \in Conns : PeerStep(d)
    BY <1>3, PeerNextSteps
  <2>2. ASSUME NEW c \in ActiveConns PROVE SendingOk(c, Isn[c])' /\ PeerCount(c)' >= PeerCount(c)
    BY <1>1, <1>3, <2>1, PeerNextSend
  <2>3. ListenersIdle'
    BY <1>1, <1>3, <2>1, ListenersGetNothing
  <2>4. LastAckOk'
    <3>1. CASE last_ack = 0
      BY <1>3, <3>1 DEF LastAckOk, cb
    <3>2. ASSUME NEW c \in ActiveConns, NEW j \in 0 .. PeerCount(c), last_ack = HostSeq(Isn[c], 1 + j)
          PROVE  LastAckOk'
      <4>1. SendingOk(c, Isn[c])'
        BY <2>2
      <4>2. PeerCount(c) \in Nat /\ PeerCount(c)' \in Nat
        <5>1. peer_got'[c] \in Seq(Nat) /\ peer_eof'[c] \in {0, 1}
          BY DEF TypeOK, PeerTypeOK, ActiveConns
        <5> QED
          BY <1>1, <5>1, SendTypes DEF PeerCount
      <4>3. j \in 0 .. PeerCount(c)'
        BY <2>2, <4>2
      <4> QED
        BY <1>3, <3>2, <4>3 DEF LastAckOk, cb, HostSeq
    <3> QED
      BY <1>1, <3>1, <3>2 DEF LastAckOk
  <2> QED
    BY <2>2, <2>3, <2>4 DEF SendInv, ActiveConns
<1>4. CASE UNCHANGED vars
  <2>1. ASSUME NEW c \in ActiveConns PROVE SendingOk(c, Isn[c])' /\ PeerCount(c)' = PeerCount(c)
    <3>1. peer_fin[c] \in {0, 1}
      BY <1>1, SendTypes
    <3> QED
      BY <1>1, <1>4, <3>1, PeerQuietSend DEF vars, tcpVars, peerVars
  <2>2. LastAckOk' /\ ListenersIdle'
    BY <1>1, <1>4, <2>1 DEF vars, tcpVars, peerVars, cb, history, LastAckOk, ListenersIdle,
                          HostSeq
  <2> QED
    BY <2>1, <2>2 DEF SendInv, ActiveConns
<1> QED
  BY <1>2, <1>3, <1>4 DEF Next

\* What tcp_send relies on, in every reachable state of a client whose connections draw
\* initial numbers that do not collide.
THEOREM SendingInvariant ==
  ASSUME ClientOnly, NumbersApart
  PROVE  Spec => []SendInv
<1>1. Init => SendInv
  BY SendInit
<1>2. TypeOK /\ ClientInv /\ (TypeOK /\ ClientInv)' /\ SendInv /\ [Next]_vars => SendInv'
  BY SendKept
<1> QED
  BY <1>1, <1>2, ClientInvariant, PTL DEF Spec

\* When tcp_send has returned without an error, the peer has got all the bytes passed to
\* it and to the calls before it (tcp_send: last_ack is compared with
\* expected_ack_number), whatever was lost, repeated or reordered.
THEOREM SentIsDelivered ==
  ASSUME ClientOnly, NumbersApart
  PROVE  Spec => []SendDelivered
<1>1. TypeOK /\ SendInv => SendDelivered
  <2> SUFFICES ASSUME TypeOK, SendInv, NEW c \in Conns PROVE acked[c] <= Len(peer_got[c])
    BY DEF SendDelivered
  <2>1. CASE c \in ActiveConns
    BY <2>1 DEF SendInv, SendingOk, AckedOk
  <2>2. CASE c \in ListenConns
    BY <2>2 DEF SendInv, ListenersIdle
  <2> QED
    BY <2>1, <2>2 DEF ActiveConns
<1> QED
  BY <1>1, SendingInvariant, TypeCorrect, PTL

\* Until the peer closes its side its application gets the bytes passed to tcp_send in
\* order, each once (tcp_send, which sends again with the old sequence_number).
THEOREM PeerGetsInOrder ==
  ASSUME ClientOnly, NumbersApart
  PROVE  Spec => []PeerInOrderWhileOpen
<1>1. SendInv => PeerInOrderWhileOpen
  <2> SUFFICES ASSUME SendInv, NEW c \in Conns, peer_fin[c] = 0
               PROVE  \A i \in 1 .. Len(peer_got[c]) : peer_got[c][i] = i
    BY DEF PeerInOrderWhileOpen
  <2>1. CASE c \in ActiveConns
    BY <2>1 DEF SendInv, SendingOk, InOrderAtPeer
  <2>2. CASE c \in ListenConns
    BY <2>2 DEF SendInv, ListenersIdle
  <2> QED
    BY <2>1, <2>2 DEF ActiveConns
<1> QED
  BY <1>1, SendingInvariant, PTL

----------------------------------------------------------------------------
(* tcp_send: servers.                                                      *)

\* What the endpoint sends belongs to its connection, or is a reset; nothing sent is
\* taken back.
LEMMA SentOnCurrent ==
  ASSUME TcpNext
  PROVE  /\ UNCHANGED toHost /\ toPeer \subseteq toPeer'
         /\ \A q \in toPeer' :
              q \in toPeer \/ q.conn = tcp_connect' \/ (q.flags = {"RST", "ACK"} /\ q.len = 0)
<1>1. ASSUME NEW p, NEW k, Transmit(p, k)
      PROVE  toPeer \subseteq toPeer' /\ \A q \in toPeer' : q \in toPeer \/ q = p
  BY <1>1 DEF Transmit
<1>2. /\ \A d : Syn(d).conn = d
      /\ \A l : Data(l).conn = tcp_connect
      /\ Fin.conn = tcp_connect /\ Ack.conn = tcp_connect
      /\ \A d, f, s, n : Bare(d, f, s, n).conn = d
      /\ \A p : Rst(p).flags = {"RST", "ACK"} /\ Rst(p).len = 0
  BY DEF Syn, Data, Fin, Ack, Rst, Bare
<1>3. ASSUME NEW p \in toHost, TcpProcess(p)
      PROVE  /\ UNCHANGED toHost /\ toPeer \subseteq toPeer'
             /\ \A q \in toPeer' : q \in toPeer \/ q.conn = tcp_connect'
                                   \/ (q.flags = {"RST", "ACK"} /\ q.len = 0)
  <2>1. CASE RstSegment(p) \/ IgnoredRst(p) \/ PureAck(p) \/ SynIgnored(p)
    BY <1>3, <2>1 DEF TcpProcess, Poll, RstSegment, IgnoredRst, PureAck, SynIgnored, Ignored
  <2>2. CASE NotOurs(p) \/ SynDeclined(p)
    BY <1>2, <1>3, <2>2 DEF TcpProcess, Poll, NotOurs, SynDeclined, Reply
  <2>3. CASE EchoedRst(p) \/ SynAckRepeated(p) \/ OutOfOrder(p)
    BY <1>2, <1>3, <2>3
    DEF TcpProcess, Poll, EchoedRst, SynAckRepeated, OutOfOrder, AckCurrent, Reply
  <2>4. CASE SynAckExpected(p) \/ DataSegment(p) \/ FinSegment(p) \/ SynAccepted(p)
    BY <1>2, <1>3, <2>4
    DEF TcpProcess, Poll, SynAckExpected, DataSegment, FinSegment, SynAccepted, Reply
  <2> QED
    BY <1>3, <2>1, <2>2, <2>3, <2>4 DEF TcpProcess
<1>4. ASSUME NEW c \in Conns, TcpConnect(c)
      PROVE  /\ UNCHANGED toHost /\ toPeer \subseteq toPeer'
             /\ \A q \in toPeer' : q \in toPeer \/ q.conn = tcp_connect'
  BY <1>1, <1>2, <1>4 DEF TcpConnect
<1>5. CASE (\E len \in SendLens : TcpSend(len)) \/ TcpClose \/ TcpSendKeepAlive
  BY <1>1, <1>2, <1>5 DEF TcpSend, TcpClose, TcpSendKeepAlive, Reply
<1>6. CASE TickResend
  <2> DEFINE p == CASE call = "connect" -> Syn(tcp_connect)
                    [] call = "send" -> Data(send_len)
                    [] OTHER -> Fin
  <2>1. p.conn = tcp_connect
    BY DEF Syn, Data, Fin, Bare
  <2>2. Transmit(p, tcp_packet_sent_count + 1) /\ UNCHANGED <<tcp_connect, toHost>>
    BY <1>6 DEF TickResend
  <2> HIDE DEF p
  <2> QED
    BY <1>1, <2>1, <2>2
<1>7. CASE \/ TcpListen \/ TcpCloseNotEstablished \/ Abort \/ CallReturns \/ KeepPolling
           \/ TickDelay \/ TickTimeout \/ NoSegment
  BY <1>7
  DEF TcpListen, TcpCloseNotEstablished, Abort, CallReturns, ConnectReturns, ListenReturns,
      SendReturns, CloseReturns, KeepPolling, TickDelay, TickTimeout, NoSegment, Ignored, Poll
<1> QED
  BY <1>3, <1>4, <1>5, <1>6, <1>7 DEF TcpNext

\* A segment of the current connection finds it established, and tcp_listen left.
LEMMA ServerCurrent ==
  ASSUME TypeOK, ServerControl, NEW p \in toHost, Poll, Current(p)
  PROVE  /\ tcp_state = "established" /\ call # "listen"
         /\ tcp_connect \in ListenConns /\ tcp_connect = p.conn
<1>1. p.conn # NoConn /\ p.conn = tcp_connect /\ tcp_state # "closed" /\ phase = "poll"
  BY DEF TypeOK, TcpTypeOK, ToHostOK, Current, Poll
<1>2. tcp_state = "established"
  BY <1>1 DEF ServerControl, TypeOK, TcpTypeOK, ControlOK
<1> QED
  BY <1>1, <1>2 DEF ServerControl

\* Nothing but the acceptance of a connection changes whose control block it is.
LEMMA ServerStays ==
  ASSUME TypeOK, ServerOnly, ServerControl, TcpNext
  PROVE  /\ tcp_connect' = tcp_connect
            \/ (tcp_connect = NoConn /\ \E p \in toHost : Poll /\ SynAccepted(p))
         /\ UNCHANGED last_ack \/ (tcp_connect # NoConn /\ \E p \in toHost : AckSegment(p))
<1>1. ASSUME NEW p \in toHost, TcpProcess(p)
      PROVE  /\ tcp_connect' = tcp_connect \/ (tcp_connect = NoConn /\ Poll /\ SynAccepted(p))
             /\ UNCHANGED last_ack \/ (tcp_connect # NoConn /\ AckSegment(p))
  <2>1. Poll
    BY <1>1 DEF TcpProcess
  <2>2. CASE SynAccepted(p)
    BY <2>1, <2>2, ServerCurrent DEF SynAccepted, ServerControl
  <2>3. CASE DataSegment(p) \/ OutOfOrder(p) \/ PureAck(p) \/ FinSegment(p)
    <3>1. AckSegment(p) /\ UNCHANGED tcp_connect
      BY <2>3 DEF DataSegment, OutOfOrder, PureAck, FinSegment
    <3> QED
      BY <3>1 DEF AckSegment, Current, TypeOK, TcpTypeOK, ToHostOK
  <2>4. CASE \/ RstSegment(p) \/ EchoedRst(p) \/ IgnoredRst(p) \/ SynAckExpected(p)
             \/ SynAckRepeated(p) \/ NotOurs(p) \/ SynIgnored(p) \/ SynDeclined(p)
    BY <2>4
    DEF RstSegment, EchoedRst, IgnoredRst, SynAckExpected, SynAckRepeated, NotOurs,
        SynIgnored, SynDeclined, AckCurrent, Ignored, cb
  <2> QED
    BY <1>1, <2>2, <2>3, <2>4 DEF TcpProcess
<1>2. \A c \in Conns : ~TcpConnect(c)
  BY DEF TcpConnect, StartCall, ServerOnly
<1>3. CASE \/ TcpListen \/ \E len \in SendLens : TcpSend(len)
           \/ TcpClose \/ TcpCloseNotEstablished \/ TcpSendKeepAlive
  BY <1>3 DEF TcpListen, TcpSend, TcpClose, TcpCloseNotEstablished, TcpSendKeepAlive, cb
<1>4. CASE \/ Abort \/ CallReturns \/ KeepPolling \/ TickDelay \/ TickResend
           \/ TickTimeout \/ NoSegment
  BY <1>4
  DEF Abort, CallReturns, ConnectReturns, ListenReturns, SendReturns, CloseReturns,
      KeepPolling, TickDelay, TickResend, TickTimeout, NoSegment, cb
<1> QED
  BY <1>1, <1>2, <1>3, <1>4 DEF TcpNext

\* Only a successful tcp_send and the acceptance of a connection set what is acknowledged.
LEMMA AckedChanges ==
  ASSUME TcpNext
  PROVE  UNCHANGED acked \/ SendReturns \/ \E p \in toHost : SynAccepted(p)
<1>1. ASSUME NEW p \in toHost, TcpProcess(p)
      PROVE  UNCHANGED acked \/ SynAccepted(p)
  BY <1>1
  DEF TcpProcess, RstSegment, EchoedRst, IgnoredRst, SynAckExpected, SynAckRepeated, NotOurs,
      DataSegment, OutOfOrder, PureAck, FinSegment, SynIgnored, SynDeclined, AckCurrent,
      Ignored, history
<1>2. CASE \/ \E c \in Conns : TcpConnect(c)
           \/ TcpListen \/ \E len \in SendLens : TcpSend(len)
           \/ TcpClose \/ TcpCloseNotEstablished \/ TcpSendKeepAlive
  BY <1>2 DEF TcpConnect, TcpListen, TcpSend, TcpClose, TcpCloseNotEstablished,
              TcpSendKeepAlive, history
<1>3. CASE \/ Abort \/ CallReturns \/ KeepPolling
           \/ TickDelay \/ TickResend \/ TickTimeout \/ NoSegment
  BY <1>3
  DEF Abort, CallReturns, ConnectReturns, ListenReturns, SendReturns, CloseReturns,
      KeepPolling, TickDelay, TickResend, TickTimeout, NoSegment, history
<1> QED
  BY <1>1, <1>2, <1>3 DEF TcpNext

\* A server's control: tcp_listen is left when it has accepted, and an end of file closes.
LEMMA ServerControlKept ==
  ASSUME TypeOK, ServerOnly, ServerControl, [Next]_vars
  PROVE  ServerControl'
<1> USE DEF ServerControl
<1>1. CASE UNCHANGED <<tcp_state, cb, caller, eof>>
  BY <1>1 DEF cb, caller, NotReopened
<1>2. CASE TcpNext
  <2>1. ASSUME NEW p \in toHost, TcpProcess(p) PROVE ServerControl'
    <3>1. Poll /\ UNCHANGED <<call, send_len>> /\ phase = "poll"
      BY <2>1 DEF TcpProcess, Poll
    <3>2. CASE SynAccepted(p)
      <4>1. CASE tcp_state = "listening"
        <5>1. /\ tcp_state' = "established" /\ tcp_connect' = p.conn /\ p.conn \in ListenConns
              /\ eof' = [eof EXCEPT ![p.conn] = 0] /\ call = "listen" /\ phase' = "check"
              /\ UNCHANGED <<tcp_listen_port, last_ack>> /\ tcp_listen_port = 1
          BY <3>1, <3>2, <4>1 DEF SynAccepted, ForListenPort, Poll
        <5>2. p.conn \in Conns /\ p.conn # NoConn /\ eof \in [Conns -> Nat]
          BY <5>1, ConnAssumption DEF TypeOK, TcpTypeOK, HistoryOK
        <5>3. \A c \in Conns : NotReopened(c)'
          BY <5>1, <5>2 DEF NotReopened
        <5> QED
          BY <3>1, <5>1, <5>2, <5>3
      <4>2. CASE tcp_state # "listening"
        <5>1. Current(p)
          BY <3>2, <4>2 DEF SynAccepted
        <5>2. tcp_state = "established" /\ tcp_connect = p.conn
          BY <3>1, <5>1, ServerCurrent
        <5> QED
          BY <3>1, <3>2, <5>2 DEF SynAccepted, history, NotReopened
      <4> QED
        BY <4>1, <4>2
    <3>3. CASE RstSegment(p) \/ FinSegment(p)
      <4>1. /\ tcp_state' = "closed" /\ UNCHANGED <<tcp_connect, tcp_listen_port>>
            /\ Current(p) /\ eof' = [eof EXCEPT ![tcp_connect] = @ + 1]
        BY <3>3 DEF RstSegment, FinSegment, AckSegment, EofCallback, cb
      <4>2. call # "listen" /\ tcp_connect \in ListenConns
        BY <3>1, <4>1, ServerCurrent
      <4>3. \A c \in Conns : NotReopened(c)'
        BY <4>1 DEF NotReopened
      <4> QED
        BY <3>1, <4>1, <4>2, <4>3, ConnAssumption
    <3>4. CASE DataSegment(p) \/ OutOfOrder(p) \/ PureAck(p)
      <4>1. /\ UNCHANGED <<tcp_state, tcp_connect, tcp_listen_port, sequence_number,
                           expected_ack_number, eof>>
            /\ Current(p)
        BY <3>4 DEF DataSegment, OutOfOrder, PureAck, AckSegment, history
      <4>2. call # "listen" /\ tcp_connect \in ListenConns
        BY <3>1, <4>1, ServerCurrent
      <4> QED
        BY <3>1, <4>1, <4>2, ConnAssumption DEF NotReopened
    <3>5. CASE \/ EchoedRst(p) \/ IgnoredRst(p) \/ SynAckRepeated(p) \/ NotOurs(p)
               \/ SynIgnored(p) \/ SynDeclined(p)
      <4>1. UNCHANGED <<tcp_state, tcp_connect, tcp_listen_port, sequence_number,
                        expected_ack_number, last_ack, eof>>
        BY <3>5 DEF EchoedRst, IgnoredRst, SynAckRepeated, NotOurs, SynIgnored, SynDeclined,
                    AckCurrent, Ignored, cb, history
      <4>2. call = "listen" => tcp_state = "listening"
        BY <3>1
      <4> QED
        BY <3>1, <4>1, <4>2 DEF NotReopened
    <3>6. ~SynAckExpected(p)
      BY DEF SynAckExpected
    <3> QED
      BY <2>1, <3>2, <3>3, <3>4, <3>5, <3>6 DEF TcpProcess
  <2>2. CASE \/ \E c \in Conns : TcpConnect(c)
             \/ TcpListen \/ \E len \in SendLens : TcpSend(len)
             \/ TcpClose \/ TcpCloseNotEstablished \/ TcpSendKeepAlive
    <3>1. CASE TcpListen
      <4>1. /\ tcp_listen_port = 0 /\ call' = "listen" /\ tcp_state' = "listening"
            /\ "listen" \in Calls /\ tcp_listen_port' = 1
            /\ UNCHANGED <<tcp_connect, last_ack, eof>>
            /\ sequence_number' \in ListenIsns /\ expected_ack_number' = sequence_number'
        BY <3>1 DEF TcpListen, StartCall, ServerOnly, history
      <4>2. tcp_connect = NoConn /\ NoConn \notin Conns
        BY <4>1, ConnAssumption
      <4> QED
        BY <4>1, <4>2 DEF NotReopened
    <3>2. CASE \/ \E len \in SendLens : TcpSend(len)
               \/ TcpClose \/ TcpCloseNotEstablished \/ TcpSendKeepAlive
      BY <3>2
      DEF TcpSend, TcpClose, TcpCloseNotEstablished, TcpSendKeepAlive, StartCall, caller, cb,
          history, NotReopened
    <3>3. \A c \in Conns : ~TcpConnect(c)
      BY DEF TcpConnect, StartCall, ServerOnly
    <3> QED
      BY <2>2, <3>1, <3>2, <3>3
  <2>3. CASE \/ Abort \/ CallReturns \/ KeepPolling \/ TickDelay \/ TickResend
             \/ TickTimeout \/ NoSegment
    <3>1. CASE Abort
      BY <3>1 DEF Abort, Return, cb, history, ServerOnly, NotReopened
    <3>2. CASE CallReturns
      BY <3>2 DEF CallReturns, ConnectReturns, ListenReturns, SendReturns, CloseReturns,
                  Return, Waiting, cb, history, NotReopened
    <3>3. CASE KeepPolling
      BY <3>3 DEF KeepPolling, Waiting, cb, history, NotReopened
    <3>4. CASE TickDelay \/ TickResend
      BY <3>4 DEF TickDelay, TickResend, TimerTick, cb, history, NotReopened
    <3>5. CASE TickTimeout
      BY <3>5 DEF TickTimeout, TimerTick, Return, cb, history, NotReopened
    <3>6. CASE NoSegment
      BY <3>6 DEF NoSegment, Poll, cb, history, NotReopened
    <3> QED
      BY <2>3, <3>1, <3>2, <3>3, <3>4, <3>5, <3>6
  <2> QED
    BY <1>2, <2>1, <2>2, <2>3 DEF TcpNext
<1> QED
  BY <1>1, <1>2 DEF Next, vars, tcpVars, history

\* The endpoint does nothing to a connection it has not accepted but reset it.
LEMMA IdleTcpNext ==
  ASSUME TypeOK, NEW c \in Conns, Idle(c), TcpNext, UNCHANGED peerVars,
         ServerOnly, ServerControl, tcp_connect' # c
  PROVE  Idle(c)'
<1>1. UNCHANGED toHost /\ \A q \in toPeer' : q \in toPeer \/ q.conn # c
                                             \/ (q.flags = {"RST", "ACK"} /\ q.len = 0)
  BY SentOnCurrent
<1>2. tcp_connect # c
  BY ServerStays, ConnAssumption
<1>3. acked'[c] = acked[c]
  <2>1. CASE UNCHANGED acked
    BY <2>1
  <2>2. ASSUME NEW p \in toHost, SynAccepted(p) PROVE acked'[c] = acked[c]
    <3>1. p.conn # c
      BY <2>2 DEF SynAccepted
    <3> QED
      BY <2>2, <3>1 DEF SynAccepted, history, TypeOK, TcpTypeOK, HistoryOK
  <2>3. CASE SendReturns
    BY <1>2, <2>3 DEF SendReturns, TypeOK, TcpTypeOK, HistoryOK
  <2>4. UNCHANGED acked \/ SendReturns \/ \E p \in toHost : SynAccepted(p)
    BY AckedChanges
  <2> QED
    BY <2>1, <2>2, <2>3, <2>4
<1> QED
  BY <1>1, <1>3 DEF Idle, peerVars

\* Nor does its peer more than ask for it.
LEMMA IdlePeerNext ==
  ASSUME TypeOK, NEW c \in Conns, Idle(c), UNCHANGED <<toPeer, history>>,
         NEW d \in Conns, PeerStep(d)
  PROVE  Idle(c)'
<1>1. CASE c # d
  <2>1. UNCHANGED <<peer_state[c], peer_got[c], peer_eof[c]>>
    BY <1>1, OtherPeer, OtherPeerPart
  <2>2. \A p \in toHost' : p \in toHost \/ p.conn # c
    BY <1>1, PeerSendsOwn
  <2> QED
    BY <2>1, <2>2 DEF Idle, history
<1>2. CASE c = d
  <2>1. peer_state \in [Conns -> {"closed", "syn_sent", "syn_rcvd", "established", "reset"}]
    BY DEF TypeOK, PeerTypeOK
  <2>2. CASE PeerConnect(c)
    <3>1. PeerBare(c, {"SYN"}, PeerIsn[c]).flags = {"SYN"}
      BY DEF PeerBare, PeerSegment
    <3> QED
      BY <2>1, <2>2, <3>1 DEF PeerConnect, PeerSends, Idle, history
  <2>3. ASSUME NEW p \in toPeer, p.conn = c, PeerProcess(p) PROVE Idle(c)'
    <3>1. PeerIsReset(p)
      BY <2>3
      DEF Idle, PeerProcess, PeerAccept, PeerRefuse, PeerEstablished, PeerReceive,
          PeerChallenge, PeerUnknown
    <3> QED
      BY <2>1, <2>3, <3>1 DEF PeerIsReset, Idle, history
  <2>4. /\ ~PeerAbort(c)
        /\ \A first \in 1 .. PeerLen + 1, last \in 0 .. PeerLen, fin \in {0, 1} :
             ~PeerWrite(c, first, last, fin)
    BY DEF PeerAbort, PeerWrite, Idle
  <2> QED
    BY <1>2, <2>2, <2>3, <2>4 DEF PeerStep
<1> QED
  BY <1>1, <1>2

\* The first SYN accepted: our SYN, with the number tcp_listen drew, is all that is sent.
LEMMA AcceptedFirst ==
  ASSUME TypeOK, NEW c \in Conns, Idle(c), UNCHANGED peerVars, ServerControl, NumbersFit,
         tcp_connect = NoConn, NEW p \in toHost, Poll, SynAccepted(p), p.conn = c
  PROVE  \E i \in ListenIsns :
           /\ \E q \in toPeer' : q.conn = c /\ "SYN" \in q.flags /\ q.seq = i
           /\ SendingOk(c, i)' /\ LastAckOf(c, i)'
<1> DEFINE r == Bare(c, {"SYN", "ACK"}, expected_ack_number, ack_number')
<1>1. tcp_state = "listening"
  BY ConnAssumption DEF SynAccepted, Current
<1> PICK i \in ListenIsns : i = sequence_number
  BY <1>1 DEF ServerControl
<1>2. /\ expected_ack_number = i /\ call = "listen" /\ last_ack = 0
      /\ c # Stranger /\ MaxBytes \in Nat /\ 0 \in Totals
  BY <1>1, ConnAssumption, SendAssumption, TotalsClosed DEF ServerControl
<1>3. /\ tcp_connect' = c /\ tcp_state' = "established" /\ call' = "listen"
      /\ UNCHANGED <<sequence_number, last_ack, toHost>> /\ acked'[c] = 0
      /\ toPeer' = toPeer \cup {r}
  BY <1>1, <1>2 DEF SynAccepted, Poll, Reply, TypeOK, TcpTypeOK, HistoryOK
<1>4. r.conn = c /\ r.flags = {"SYN", "ACK"} /\ r.seq = i /\ r.len = 0
  BY <1>2 DEF Bare
<1> HIDE DEF r
<1>5. \A q \in toPeer' : q.conn = c =>
        q.len = 0 /\ "FIN" \notin q.flags /\ ("SYN" \in q.flags => q.seq = i)
  BY <1>3, <1>4 DEF Idle
<1>6. /\ peer_got'[c] = <<>> /\ peer_eof'[c] = 0 /\ Len(peer_got'[c]) = 0
      /\ peer_state'[c] \in {"closed", "syn_sent", "reset"} /\ PeerCount(c)' = 0
  <2>1. peer_got'[c] = <<>> /\ peer_eof'[c] = 0 /\ peer_state'[c] = peer_state[c]
    BY DEF Idle, peerVars
  <2> QED
    BY <2>1 DEF PeerCount, Idle
<1>7. ~FinSent(c)'
  BY <1>5 DEF FinSent
<1>8. PeerCountOk(c, i)' /\ AckedOk(c)' /\ InOrderAtPeer(c)'
  BY <1>2, <1>3, <1>6 DEF PeerCountOk, AckedOk, InOrderAtPeer, Totals, SumsClosed
<1>9. PeerAcksOk(c, i)'
  BY <1>3 DEF PeerAcksOk, Idle
<1>10. OwnSegments(c, i)' /\ AllAcked(c, i)' /\ AfterClose(c)'
  BY <1>5, <1>7 DEF OwnSegments, AllAcked, AfterClose
<1>11. NumbersOfCurrent(c, i)'
  BY <1>3, <1>5 DEF NumbersOfCurrent, Opening
<1>12. SendingOk(c, i)' /\ LastAckOf(c, i)'
  BY <1>2, <1>3, <1>8, <1>9, <1>10, <1>11 DEF SendingOk, LastAckOf
<1> QED
  BY <1>2, <1>3, <1>4, <1>12

\* tcp_listen returns: the first byte's number is the next one.
LEMMA ListenReturnsSend ==
  ASSUME TypeOK, NEW c \in Conns, NEW i \in SeqNo, SendingOk(c, i), UNCHANGED peerVars,
         tcp_connect = c, tcp_state # "syn_sent", ListenReturns
  PROVE  SendingOk(c, i)'
<1> USE DEF SendingOk, peerVars
<1>1. /\ call = "listen" /\ call' = "none"
      /\ sequence_number' = SeqAdd(sequence_number, 1)
      /\ expected_ack_number' = sequence_number'
      /\ UNCHANGED <<tcp_state, tcp_connect, toHost, toPeer, acked, eof>>
  BY DEF ListenReturns, Return, history
<1>2. PeerCountOk(c, i)' /\ PeerAcksOk(c, i)' /\ InOrderAtPeer(c)' /\ AckedOk(c)'
  BY <1>1, PeerPartKept
<1>3. /\ acked[c] = 0 /\ sequence_number = i
      /\ \A q \in toPeer' : q.conn = c =>
           q.len = 0 /\ "FIN" \notin q.flags /\ ("SYN" \in q.flags => q.seq = i)
  BY <1>1 DEF NumbersOfCurrent, Opening, OwnSegments
<1>4. OwnSegments(c, i)' /\ AllAcked(c, i)' /\ AfterClose(c)'
  BY <1>3 DEF OwnSegments, AllAcked, AfterClose, FinSent
<1>5. NumbersOfCurrent(c, i)'
  <2>1. sequence_number' = HostSeq(i, 1 + acked'[c])
    BY <1>1, <1>3 DEF HostSeq
  <2> QED
    BY <1>1, <1>3, <2>1 DEF NumbersOfCurrent, Opening, HostSeq
<1> QED
  BY <1>2, <1>4, <1>5

\* The number that a server's tcp_send waits for is not the 0 of old.
LEMMA AwaitedNotZero ==
  ASSUME TypeOK, NEW c \in Conns, NEW i \in ListenIsns, SendingOk(c, i), ListenNumbersApart,
         LastAckOf(c, i), tcp_connect = c, call = "send", send_len \in SendLens,
         last_ack = expected_ack_number
  PROVE  \E j \in 0 .. PeerCount(c) : last_ack = HostSeq(i, 1 + j)
<1> DEFINE t == acked[c] + send_len
<1>1. NumbersFit /\ i \in SeqNo
  BY IsnAssumption DEF ListenNumbersApart
<1>2. acked[c] \in Nat /\ send_len \in Nat /\ send_len > 0
  BY <1>1, SendTypes, SendAssumption, SeqModAssumption
<1>3. t \in Totals /\ expected_ack_number = HostSeq(i, 1 + t)
  <2>1. t \in Totals /\ expected_ack_number = HostSeq(i, 1 + acked[c] + send_len)
    BY DEF SendingOk, NumbersOfCurrent
  <2>2. 1 + acked[c] + send_len = 1 + t
    BY <1>2
  <2> QED
    BY <2>1, <2>2
<1>4. t \in Totals \ {0}
  BY <1>2, <1>3
<1> HIDE DEF t
<1>5. last_ack # 0
  BY <1>3, <1>4 DEF ListenNumbersApart
<1> QED
  BY <1>5 DEF LastAckOf

\* Every step of a server's endpoint that adds no SYN/ACK of another number, on the
\* connection it has accepted.
LEMMA ServedTcpNext ==
  ASSUME TypeOK, SendOk, AcceptedInv, ServerOnly, ServerControl, ListenNumbersApart,
         UNCHANGED peerVars, TcpNext, NEW c \in Conns, tcp_connect = c,
         NEW i \in ListenIsns, SendingOk(c, i), LastAckOf(c, i),
         \E q \in toPeer : q.conn = c, SynAcksCarry(c, i)'
  PROVE  SendingOk(c, i)' /\ LastAckOf(c, i)'
<1>1. /\ i \in SeqNo /\ NumbersFit /\ NotReopened(c) /\ c \in ListenConns
      /\ tcp_state # "listening" /\ tcp_state # "syn_sent" /\ tcp_listen_port # 0
  BY IsnAssumption, ConnAssumption DEF ListenNumbersApart, ServerControl
<1>2. SendingOk(c, i)'
  <2>1. ASSUME NEW p \in toHost, TcpProcess(p) PROVE SendingOk(c, i)'
    <3>1. Poll /\ ~SynAckExpected(p)
      BY <1>1, <2>1 DEF TcpProcess, SynAckExpected
    <3>2. CASE FinSegment(p)
      <4>1. Current(p) /\ "FIN" \in p.flags
        BY <3>2 DEF FinSegment, AckSegment
      <4>2. tcp_state = "established" /\ call # "listen" /\ p.conn = c
        BY <3>1, <4>1, ServerCurrent
      <4>3. peer_fin[c] = 1
        BY <1>1, <4>1, <4>2 DEF AcceptedInv, PeerSegments
      <4> QED
        BY <1>1, <3>1, <3>2, <4>2, <4>3, FinSend
    <3>3. CASE SynAccepted(p)
      <4> DEFINE r == Bare(p.conn, {"SYN", "ACK"}, expected_ack_number, ack_number')
      <4>1. Current(p)
        BY <1>1, <3>3 DEF SynAccepted
      <4>2. tcp_state = "established" /\ p.conn = c
        BY <3>1, <4>1, ServerCurrent
      <4>3. /\ tcp_connect' = c /\ tcp_state' = "established" /\ toPeer' = toPeer \cup {r}
            /\ UNCHANGED <<sequence_number, expected_ack_number, call, send_len, toHost, history>>
        BY <1>1, <3>1, <3>3, <4>2 DEF SynAccepted, Poll, Reply
      <4>4. r.conn = c /\ r.flags = {"SYN", "ACK"} /\ r.len = 0
        BY <4>2 DEF Bare
      <4> HIDE DEF r
      <4>5. r.seq = i
        BY <4>3, <4>4 DEF SynAcksCarry
      <4>6. Plain(c, i, r)
        BY <4>4, <4>5 DEF Plain
      <4> QED
        BY <1>1, <4>2, <4>3, <4>6, QuietSend DEF history
    <3> QED
      BY <1>1, <2>1, <3>1, <3>2, <3>3, QuietHandlersSend DEF TcpProcess
  <2>2. ~TcpListen /\ \A d \in Conns : ~TcpConnect(d)
    BY <1>1 DEF TcpListen, TcpConnect, StartCall, ServerOnly
  <2>3. CASE \/ \E len \in SendLens : TcpSend(len)
             \/ TcpClose \/ TcpCloseNotEstablished \/ TcpSendKeepAlive
    BY <1>1, <2>3, CallsSend
  <2>4. CASE \/ Abort \/ CallReturns \/ KeepPolling
             \/ TickDelay \/ TickResend \/ TickTimeout \/ NoSegment
    <3>1. CASE call = "listen"
      <4>1. phase = "check" /\ ~Waiting
        BY <1>1, <3>1 DEF ServerControl, Waiting
      <4>2. ListenReturns
        BY <2>4, <3>1, <4>1
        DEF Abort, CallReturns, ConnectReturns, SendReturns, CloseReturns, KeepPolling,
            TickDelay, TickResend, TickTimeout, TimerTick, NoSegment, Poll, ServerOnly
      <4> QED
        BY <1>1, <4>2, ListenReturnsSend
    <3>2. CASE call # "listen"
      <4>1. call # "connect" /\ (call = "send" => send_len \in SendLens)
        BY DEF ServerControl, ServerOnly
      <4>2. call = "send" /\ last_ack = expected_ack_number =>
              \E j \in 0 .. PeerCount(c) : last_ack = HostSeq(i, 1 + j)
        BY <4>1, AwaitedNotZero
      <4> QED
        BY <1>1, <2>4, <3>2, <4>1, <4>2, ChecksSend
    <3> QED
      BY <3>1, <3>2
  <2> QED
    BY <2>1, <2>2, <2>3, <2>4 DEF TcpNext
<1>3. LastAckOf(c, i)'
  <2>1. PeerCount(c)' = PeerCount(c)
    BY DEF PeerCount, peerVars
  <2>2. CASE UNCHANGED last_ack
    BY <2>1, <2>2 DEF LastAckOf, HostSeq
  <2>3. ASSUME NEW p \in toHost, AckSegment(p) PROVE LastAckOf(c, i)'
    <3>1. p.conn = c /\ "ACK" \in p.flags /\ "RST" \notin p.flags /\ last_ack' = p.ack
      BY <2>3 DEF AckSegment, Current
    <3> QED
      BY <2>1, <3>1 DEF LastAckOf, SendingOk, PeerAcksOk, HostSeq
  <2> QED
    BY <2>2, <2>3, ServerStays
<1> QED
  BY <1>2, <1>3

\* Every step of the peers.
LEMMA ServedPeerNext ==
  ASSUME TypeOK, TypeOK', ListenNumbersApart,
         UNCHANGED <<tcp_state, cb, timer, caller, toPeer, history>>,
         NEW d \in Conns, PeerStep(d), NEW c \in Conns,
         NEW i \in ListenIsns, SendingOk(c, i), LastAckOf(c, i)
  PROVE  SendingOk(c, i)' /\ LastAckOf(c, i)'
<1>1. i \in SeqNo /\ NumbersFit
  BY IsnAssumption DEF ListenNumbersApart
<1>2. SendingOk(c, i)' /\ PeerCount(c)' >= PeerCount(c)
  BY <1>1, PeerNextSend
<1>3. PeerCount(c) \in Nat /\ PeerCount(c)' \in Nat
  <2>1. peer_got'[c] \in Seq(Nat) /\ peer_eof'[c] \in {0, 1}
    BY DEF TypeOK, PeerTypeOK
  <2> QED
    BY <1>1, <2>1, SendTypes DEF PeerCount
<1>4. \A j \in 0 .. PeerCount(c) : j \in 0 .. PeerCount(c)'
  BY <1>2, <1>3
<1>5. last_ack' = last_ack
  BY DEF cb
<1> QED
  BY <1>2, <1>4, <1>5 DEF LastAckOf, HostSeq

\* Nothing has been accepted initially.
LEMMA ServerInit == Init => ServerInv
<1> SUFFICES ASSUME Init PROVE ServerInv
  OBVIOUS
<1>1. ServerControl
  BY ConnAssumption DEF Init, TcpInit, ServerControl, NotReopened
<1>2. ASSUME NEW c \in Conns PROVE tcp_connect # c /\ Idle(c)
  <2>1. \A p \in StrayPackets : p.conn # c
    BY ConnAssumption, StrayAssumption
  <2> QED
    BY <2>1, ConnAssumption DEF Init, TcpInit, PeerInit, Idle
<1> QED
  BY <1>1, <1>2 DEF ServerInv

\* Every step of a server and of the peers keeps its invariant.
LEMMA ServerKept ==
  ASSUME ServerOnly, ListenNumbersApart, TypeOK, TypeOK', IInv, AcceptedInv, ServerInv,
         [Next]_vars
  PROVE  ServerInv'
<1>1. ServerControl /\ ServerControl' /\ SendOk /\ NumbersFit
  BY ServerControlKept DEF ServerInv, IInv, ListenNumbersApart
<1> SUFFICES ASSUME NEW c \in Conns
             PROVE  IF tcp_connect' = c THEN Served(c)' ELSE Idle(c)'
  BY <1>1 DEF ServerInv
<1>2. IF tcp_connect = c THEN Served(c) ELSE Idle(c)
  BY DEF ServerInv
<1>3. CASE UNCHANGED vars
  <2>1. Idle(c) => Idle(c)'
    BY <1>3 DEF vars, tcpVars, peerVars, history, Idle
  <2>2. ASSUME NEW i \in ListenIsns, SendingOk(c, i), LastAckOf(c, i)
        PROVE  SendingOk(c, i)' /\ LastAckOf(c, i)'
    <3>1. i \in SeqNo
      BY IsnAssumption
    <3>2. peer_fin[c] \in {0, 1}
      BY <1>1, <2>2, <3>1, SendTypes
    <3>3. SendingOk(c, i)' /\ PeerCount(c)' = PeerCount(c)
      BY <1>1, <1>3, <2>2, <3>1, <3>2, PeerQuietSend DEF vars, tcpVars, peerVars
    <3> QED
      BY <1>3, <2>2, <3>3 DEF LastAckOf, HostSeq, vars, tcpVars, cb
  <2>3. Served(c) => Served(c)'
    BY <1>3, <2>2 DEF Served, SynAcksCarry, vars, tcpVars
  <2> QED
    BY <1>2, <1>3, <2>1, <2>3 DEF vars, tcpVars, cb
<1>4. CASE PeerNext /\ UNCHANGED <<tcp_state, cb, timer, caller, toPeer, history>>
  <2>1. PICK d \in Conns : PeerStep(d)
    BY <1>4, PeerNextSteps
  <2>2. Idle(c) => Idle(c)'
    BY <1>4, <2>1, IdlePeerNext
  <2>3. Served(c) => Served(c)'
    BY <1>4, <2>1, ServedPeerNext DEF Served, SynAcksCarry
  <2> QED
    BY <1>2, <1>4, <2>2, <2>3 DEF cb
<1>5. CASE TcpNext /\ UNCHANGED peerVars
  <2>1. CASE tcp_connect' # c
    <3>1. tcp_connect # c
      BY <1>1, <1>5, <2>1, ServerStays, ConnAssumption
    <3> QED
      BY <1>1, <1>2, <1>5, <2>1, <3>1, IdleTcpNext
  <2>2. CASE tcp_connect' = c /\ tcp_connect = c
    <3>1. PICK i \in ListenIsns :
            /\ \E q \in toPeer : q.conn = c /\ "SYN" \in q.flags /\ q.seq = i
            /\ SynAcksCarry(c, i) => SendingOk(c, i) /\ LastAckOf(c, i)
      BY <1>2, <2>2 DEF Served
    <3>2. toPeer \subseteq toPeer'
      BY <1>5, SentOnCurrent
    <3>3. ASSUME SynAcksCarry(c, i)' PROVE SendingOk(c, i)' /\ LastAckOf(c, i)'
      <4>1. SynAcksCarry(c, i)
        BY <3>2, <3>3 DEF SynAcksCarry
      <4> QED
        BY <1>1, <1>5, <2>2, <3>1, <3>3, <4>1, ServedTcpNext
    <3> QED
      BY <2>2, <3>1, <3>2, <3>3 DEF Served
  <2>3. CASE tcp_connect' = c /\ tcp_connect # c
    <3>1. PICK p \in toHost : Poll /\ SynAccepted(p) /\ tcp_connect = NoConn
      BY <1>1, <1>5, <2>3, ServerStays
    <3>2. p.conn = c
      BY <2>3, <3>1 DEF SynAccepted
    <3> QED
      BY <1>1, <1>2, <1>5, <2>3, <3>1, <3>2, AcceptedFirst DEF Served
  <2> QED
    BY <2>1, <2>2, <2>3
<1> QED
  BY <1>3, <1>4, <1>5 DEF Next

\* What tcp_send relies on, in every reachable state of a server that accepts one
\* connection.
THEOREM ServingInvariant ==
  ASSUME ServerOnly, ListenNumbersApart
  PROVE  Spec => []ServerInv
<1>1. Init => ServerInv
  BY ServerInit
<1>2. TypeOK /\ TypeOK' /\ IInv /\ AcceptedInv /\ ServerInv /\ [Next]_vars => ServerInv'
  BY ServerKept
<1> QED
  BY <1>1, <1>2, TypeCorrect, AgreementInvariant, AcceptedInvariant, PTL DEF Spec

\* What SentIsDelivered says of a client, for a server: as long as all SYN/ACKs of a connection have carried one number,
\* the peer has got whatever tcp_send reports as sent. A SYN answered again once tcp_send
\* has moved expected_ack_number is the exception (tcp_process, the SYN of the current
\* connection).
THEOREM SentAfterOneSynAck ==
  ASSUME ServerOnly, ListenNumbersApart
  PROVE  Spec => []SendDeliveredAfterOneSynAck
<1>1. TypeOK /\ ServerInv => SendDeliveredAfterOneSynAck
  <2> SUFFICES ASSUME TypeOK, ServerInv, NEW c \in Conns,
                      \A p, q \in toPeer :
                        p.conn = c /\ q.conn = c /\ "SYN" \in p.flags \cap q.flags =>
                          p.seq = q.seq
               PROVE  acked[c] <= Len(peer_got[c])
    BY DEF SendDeliveredAfterOneSynAck
  <2>1. CASE tcp_connect = c
    <3>1. PICK i \in ListenIsns :
            /\ \E q \in toPeer : q.conn = c /\ "SYN" \in q.flags /\ q.seq = i
            /\ SynAcksCarry(c, i) => SendingOk(c, i) /\ LastAckOf(c, i)
      BY <2>1 DEF ServerInv, Served
    <3>2. SynAcksCarry(c, i)
      BY <3>1 DEF SynAcksCarry
    <3> QED
      BY <3>1, <3>2 DEF SendingOk, AckedOk
  <2>2. CASE tcp_connect # c
    BY <2>2 DEF ServerInv, Idle
  <2> QED
    BY <2>1, <2>2
<1> QED
  BY <1>1, ServingInvariant, TypeCorrect, PTL
=============================================================================
