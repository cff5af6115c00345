-------------------------------- MODULE Tcp --------------------------------
(***************************************************************************)
(* The TCP endpoint of ip65 (ip65/tcp.s): one control block, four blocking *)
(* calls that poll ip65_process, and the inbound handler tcp_process.      *)
(*                                                                         *)
(* The program is single threaded.  Each blocking call is a loop of two    *)
(* phases: "poll" (ip65_process hands at most one segment to tcp_process)  *)
(* and "check" (abort key, exit condition, timer).  Between two segments   *)
(* there is always a check, so the loops never skip a state.               *)
(*                                                                         *)
(* Data bytes are their position in the sender's stream: a segment carries *)
(* the bytes first .. first+len-1.  Sequence numbers live in 0..SeqMod-1   *)
(* (2^32 in the code) and wrap.                                            *)
(***************************************************************************)
EXTENDS Integers, Sequences

CONSTANTS
  Conns,        \* connections: remote address and port, local port
  ListenConns,  \* those whose local port is the one tcp_listen is called with
  NoConn,       \* the control block's addresses before the first connection
  Stranger,     \* addresses of a host or port no connection uses
  SeqMod,       \* number of sequence numbers
  Isn,          \* the initial sequence number tcp_connect draws, per connection
  ListenIsns,   \* the initial sequence numbers tcp_listen may draw
  MaxListens,   \* bound: 1 if tcp_listen is called once, 2 if again and again
  SendLens,     \* lengths the application passes to tcp_send
  MaxBytes,     \* bound: bytes the application sends on one connection
  Carries,      \* what tcp_send_packet leaves in the carry: 0 sent, 1 ARP miss
  MAX_TCP_PACKETS_SENT,
  Calls,        \* the calls the application makes
  Aborts,       \* those during which the user may press the abort key
  StrayPackets  \* segments of nobody's connection that may arrive at any time

VARIABLES
  tcp_state,
  tcp_connect,            \* tcp_connect_ip, _remote_port and _local_port
  tcp_listen_port,        \* 0 before the first tcp_listen, then 1
  sequence_number,        \* tcp_connect_sequence_number
  expected_ack_number,    \* tcp_connect_expected_ack_number
  ack_number,             \* tcp_connect_ack_number
  last_ack,               \* tcp_connect_last_ack
  tcp_ack_number,         \* ACK field of the packet built last
  tcp_fin_sent,
  tcp_packet_sent_count,
  tcp_loop_count,
  call,                   \* blocking call in progress, or "none"
  phase,                  \* "poll" or "check"
  send_len,               \* tcp_send_data_len
  toHost, toPeer,         \* segments ever sent towards ip65 and by ip65
  delivered,              \* bytes handed to tcp_callback, per connection
  eof,                    \* end-of-file callbacks, per connection
  acked                   \* bytes of successful tcp_send calls, per connection

cb      == <<tcp_connect, tcp_listen_port, sequence_number, expected_ack_number,
             ack_number, last_ack, tcp_ack_number, tcp_fin_sent>>
timer   == <<tcp_packet_sent_count, tcp_loop_count>>
caller  == <<call, phase, send_len>>
history == <<delivered, eof, acked>>
tcpVars == <<tcp_state, cb, timer, caller, toHost, toPeer, history>>

SeqNo == 0 .. SeqMod - 1
Flags == {"SYN", "ACK", "FIN", "RST"}
ActiveConns == Conns \ ListenConns
AllConns == Conns \cup {NoConn, Stranger}

Segment ==
  [conn : AllConns, flags : SUBSET Flags, seq : SeqNo, ack : SeqNo,
   first : Nat, len : SeqNo, id : {"1234", "other"}]

ASSUME SeqModAssumption == SeqMod \in Nat /\ SeqMod > 1
ASSUME ConnAssumption ==
  /\ NoConn \notin Conns /\ Stranger \notin Conns /\ NoConn # Stranger
  /\ ListenConns \subseteq Conns
ASSUME IsnAssumption == Isn \in [Conns -> SeqNo] /\ ListenIsns \subseteq SeqNo
ASSUME SendAssumption ==
  SendLens \subseteq 1 .. SeqMod - 1 /\ MaxBytes \in Nat /\ Carries \subseteq {0, 1}
ASSUME ListensAssumption == MaxListens \in {1, 2}
ASSUME CallsAssumption ==
  Calls \subseteq {"connect", "listen", "send", "close", "keep_alive"}
ASSUME AbortsAssumption == Aborts \subseteq {"connect", "listen", "send"}
ASSUME MaxSentAssumption == MAX_TCP_PACKETS_SENT \in Nat /\ MAX_TCP_PACKETS_SENT > 1
ASSUME StrayAssumption ==
  /\ StrayPackets \subseteq Segment
  /\ \A p \in StrayPackets : p.conn = Stranger

\* 32-bit addition and subtraction, arguments below SeqMod.
SeqAdd(a, b) == IF a + b >= SeqMod THEN a + b - SeqMod ELSE a + b
SeqSub(a, b) == IF a >= b THEN a - b ELSE a - b + SeqMod

----------------------------------------------------------------------------
(* Segments built by the endpoint.                                         *)

\* A segment without data, as tcp_send_packet emits it (IP ID $1234).
Bare(c, flags, seq, ack) ==
  [conn |-> c, flags |-> flags, seq |-> seq, ack |-> ack,
   first |-> 0, len |-> 0, id |-> "1234"]

Syn(c) == Bare(c, {"SYN"}, Isn[c], 0)

\* @send_ack: the SEQ field is the expected ack number.
Ack == Bare(tcp_connect, {"ACK"}, expected_ack_number, ack_number)

\* @send_rst answers the sender of p; its numbers are leftovers.
Rst(p) == Bare(p.conn, {"RST", "ACK"}, 0, 0)

\* Mutant: the SEQ field of the next segment, after expected_ack_number has moved.
DataNextSeq(len) ==
  [conn |-> tcp_connect, flags |-> {"ACK"}, seq |-> expected_ack_number,
   ack |-> tcp_ack_number, first |-> acked[tcp_connect] + 1, len |-> len,
   id |-> "1234"]

\* tcp_send does not refresh tcp_ack_number: the ACK field is a leftover.
Data(len) ==
  [conn |-> tcp_connect, flags |-> {"ACK"}, seq |-> sequence_number,
   ack |-> tcp_ack_number, first |-> acked[tcp_connect] + 1, len |-> len,
   id |-> "1234"]

Fin == Bare(tcp_connect, {"FIN", "ACK"}, sequence_number, ack_number)

\* tcp_send_packet and the loop count computed after it with the carry it left:
\* on an ARP miss nothing is sent and the next resend waits one tick longer.
Transmit(p, count) ==
  \E carry \in Carries :
    /\ toPeer' = IF carry = 0 THEN toPeer \cup {p} ELSE toPeer
    /\ tcp_packet_sent_count' = count
    /\ tcp_loop_count' = count + 1 + carry

Reply(p) == toPeer' = toPeer \cup {p}

----------------------------------------------------------------------------
(* The application's calls.                                                *)

TcpInit ==
  /\ tcp_state = "closed"
  /\ tcp_connect = NoConn
  /\ tcp_listen_port = 0
  /\ sequence_number = 0
  /\ expected_ack_number = 0
  /\ ack_number = 0
  /\ last_ack = 0
  /\ tcp_ack_number = 0
  /\ tcp_fin_sent = 0
  /\ tcp_packet_sent_count = 0
  /\ tcp_loop_count = 0
  /\ call = "none"
  /\ phase = "poll"
  /\ send_len = 0
  /\ toHost = StrayPackets
  /\ toPeer = {}
  /\ delivered = [c \in Conns |-> <<>>]
  /\ eof = [c \in Conns |-> 0]
  /\ acked = [c \in Conns |-> 0]

StartCall(name) ==
  /\ call = "none"
  /\ name \in Calls
  /\ call' = name
  /\ phase' = "poll"

\* The random local port is one no peer has seen a segment from.
TcpConnect(c) ==
  /\ StartCall("connect")
  /\ c \notin ListenConns
  /\ \A p \in toPeer : p.conn # c
  /\ tcp_connect' = c
  /\ tcp_state' = "syn_sent"
  /\ tcp_fin_sent' = 0
  /\ sequence_number' = Isn[c]
  /\ Transmit(Syn(c), 0)
  /\ UNCHANGED <<tcp_listen_port, expected_ack_number, ack_number, last_ack,
                 tcp_ack_number, send_len, toHost, history>>

TcpListen ==
  /\ StartCall("listen")
  /\ tcp_listen_port = 0 \/ MaxListens > 1
  /\ tcp_listen_port' = 1
  /\ tcp_state' = "listening"
  /\ tcp_packet_sent_count' = 0
  /\ tcp_fin_sent' = 0
  /\ \E isn \in ListenIsns : sequence_number' = isn /\ expected_ack_number' = isn
  /\ UNCHANGED <<tcp_connect, ack_number, last_ack, tcp_ack_number, send_len,
                 tcp_loop_count, toHost, toPeer, history>>

\* Not established: an error, nothing changes. The code that would reset
\* tcp_packet_sent_count follows that error's rts: never run.
TcpSend(len) ==
  /\ tcp_state = "established"
  /\ acked[tcp_connect] + len <= MaxBytes
  /\ StartCall("send")
  /\ send_len' = len
  /\ expected_ack_number' = SeqAdd(expected_ack_number, len)
  /\ Transmit(Data(len), tcp_packet_sent_count)
  /\ UNCHANGED <<tcp_state, tcp_connect, tcp_listen_port, sequence_number, ack_number,
                 last_ack, tcp_ack_number, tcp_fin_sent, toHost, history>>

TcpClose ==
  /\ tcp_state = "established"
  /\ StartCall("close")
  /\ tcp_fin_sent' = 1
  /\ expected_ack_number' = SeqAdd(expected_ack_number, 1)
  /\ tcp_ack_number' = ack_number
  /\ Transmit(Fin, tcp_packet_sent_count)
  /\ UNCHANGED <<tcp_state, tcp_connect, tcp_listen_port, sequence_number, ack_number,
                 last_ack, send_len, toHost, history>>

TcpCloseNotEstablished ==
  /\ call = "none"
  /\ "close" \in Calls
  /\ tcp_state # "established"
  /\ tcp_state' = "closed"
  /\ UNCHANGED <<cb, timer, caller, toHost, toPeer, history>>

\* No guard in the code: callers do it on a connection in use (telnet65.s).
TcpSendKeepAlive ==
  /\ call = "none"
  /\ "keep_alive" \in Calls
  /\ tcp_state = "established"
  /\ tcp_ack_number' = ack_number
  /\ Reply(Ack)
  /\ UNCHANGED <<tcp_state, tcp_connect, tcp_listen_port, sequence_number,
                 expected_ack_number, ack_number, last_ack, tcp_fin_sent, timer, caller,
                 toHost, history>>

----------------------------------------------------------------------------
(* The check phase of the polling loops.                                   *)

\* Mutant: tcp_send's loop ends at any ACK that is not the old one.
WaitingAnyAck ==
  \/ call = "connect" /\ tcp_state = "syn_sent"
  \/ call = "listen" /\ tcp_state = "listening"
  \/ call = "send" /\ last_ack = sequence_number
  \/ call = "close" /\ tcp_state = "established"

\* Mutant: tcp_close's loop ends when our FIN is acknowledged.
WaitingFinAck ==
  \/ call = "connect" /\ tcp_state = "syn_sent"
  \/ call = "listen" /\ tcp_state = "listening"
  \/ call \in {"send", "close"} /\ last_ack # expected_ack_number

\* The loop of the call in progress has not met its exit condition.
Waiting ==
  \/ call = "connect" /\ tcp_state = "syn_sent"
  \/ call = "listen" /\ tcp_state = "listening"
  \/ call = "send" /\ last_ack # expected_ack_number
  \/ call = "close" /\ tcp_state = "established"

Return ==
  /\ call' = "none"
  /\ phase' = "poll"

\* The abort key is looked at before the exit condition, and not by tcp_close.
\* Only tcp_send closes the connection when it is aborted.
Abort ==
  /\ call \in Aborts
  /\ phase = "check"
  /\ Return
  /\ tcp_state' = IF call = "send" THEN "closed" ELSE tcp_state
  /\ UNCHANGED <<cb, timer, send_len, toHost, toPeer, history>>

\* An error if a RST or FIN closed the connection, else success.
ConnectReturns ==
  /\ call = "connect" /\ phase = "check" /\ ~Waiting
  /\ Return
  /\ UNCHANGED <<tcp_state, cb, timer, send_len, toHost, toPeer, history>>

\* Mutant: our SYN is not counted.
ListenReturnsUncounted ==
  /\ call = "listen" /\ phase = "check" /\ ~Waiting
  /\ Return
  /\ UNCHANGED <<tcp_state, cb, timer, send_len, toHost, toPeer, history>>

\* Falls through into tcp_connection_established, whatever ended the loop.
ListenReturns ==
  /\ call = "listen" /\ phase = "check" /\ ~Waiting
  /\ Return
  /\ sequence_number' = SeqAdd(sequence_number, 1)
  /\ expected_ack_number' = sequence_number'
  /\ UNCHANGED <<tcp_state, tcp_connect, tcp_listen_port, ack_number, last_ack,
                 tcp_ack_number, tcp_fin_sent, timer, send_len, toHost, toPeer, history>>

\* @got_ack: tcp_state is not looked at.
SendReturns ==
  /\ call = "send" /\ phase = "check" /\ ~Waiting
  /\ Return
  /\ sequence_number' = SeqAdd(sequence_number, send_len)
  /\ acked' = [acked EXCEPT ![tcp_connect] = @ + send_len]
  /\ UNCHANGED <<tcp_state, tcp_connect, tcp_listen_port, expected_ack_number,
                 ack_number, last_ack, tcp_ack_number, tcp_fin_sent, timer, send_len,
                 toHost, toPeer, delivered, eof>>

CloseReturns ==
  /\ call = "close" /\ phase = "check" /\ ~Waiting
  /\ Return
  /\ tcp_state' = "closed"
  /\ UNCHANGED <<cb, timer, send_len, toHost, toPeer, history>>

\* The high byte of the timer has not moved (tcp_listen has no timer).
KeepPolling ==
  /\ phase = "check" /\ Waiting
  /\ phase' = "poll"
  /\ UNCHANGED <<tcp_state, cb, timer, call, send_len, toHost, toPeer, history>>

TimerTick ==
  /\ phase = "check" /\ Waiting
  /\ call # "listen"

\* Mutant: the loop count is compared and not decremented.
TickDelayStuck ==
  /\ TimerTick
  /\ tcp_loop_count > 1
  /\ phase' = "poll"
  /\ UNCHANGED <<tcp_state, cb, timer, call, send_len, toHost, toPeer, history>>

TickDelay ==
  /\ TimerTick
  /\ tcp_loop_count > 1
  /\ tcp_loop_count' = tcp_loop_count - 1
  /\ phase' = "poll"
  /\ UNCHANGED <<tcp_state, cb, tcp_packet_sent_count, call, send_len, toHost,
                 toPeer, history>>

\* Mutant: the count is compared before it is incremented.
TransmissionsLeftOldCount == tcp_packet_sent_count < MAX_TCP_PACKETS_SENT - 1

\* The count, incremented, is below the limit.
TransmissionsLeft == tcp_packet_sent_count + 1 < MAX_TCP_PACKETS_SENT - 1

TickResend ==
  /\ TimerTick
  /\ tcp_loop_count = 1
  /\ TransmissionsLeft
  /\ Transmit(CASE call = "connect" -> Syn(tcp_connect)
                [] call = "send" -> Data(send_len)
                [] OTHER -> Fin,
              tcp_packet_sent_count + 1)
  /\ tcp_ack_number' = IF call = "close" THEN ack_number ELSE tcp_ack_number
  /\ phase' = "poll"
  /\ UNCHANGED <<tcp_state, tcp_connect, tcp_listen_port, sequence_number,
                 expected_ack_number, ack_number, last_ack, tcp_fin_sent, call, send_len, toHost, history>>

TickTimeout ==
  /\ TimerTick
  /\ tcp_loop_count = 1
  /\ ~TransmissionsLeft
  /\ tcp_packet_sent_count' = tcp_packet_sent_count + 1
  /\ tcp_loop_count' = 0
  /\ tcp_state' = "closed"
  /\ Return
  /\ UNCHANGED <<cb, send_len, toHost, toPeer, history>>

----------------------------------------------------------------------------
(* tcp_process: what ip65_process does with a segment.                     *)

\* check_current_connection
Current(p) == tcp_state # "closed" /\ p.conn = tcp_connect

\* ip65_process runs in the poll phase of a call, or between calls.
Poll ==
  /\ phase = "poll"
  /\ phase' = IF call = "none" THEN "poll" ELSE "check"
  /\ UNCHANGED <<call, send_len, timer, toHost>>

NoSegment ==
  /\ call # "none"
  /\ Poll
  /\ UNCHANGED <<tcp_state, cb, toPeer, history>>

Ignored ==
  UNCHANGED <<tcp_state, cb, toPeer, history>>

\* jmp_to_callback with tcp_inbound_data_length = $ffff.
EofCallback == eof' = [eof EXCEPT ![tcp_connect] = @ + 1]

\* Mutant: the length of the data is one too small.
BytesShort(p) == [i \in 1 .. p.len - 1 |-> p.first + i - 1]

\* The bytes of p, in stream order.
Bytes(p) == [i \in 1 .. p.len |-> p.first + i - 1]

\* Mutant: the callback is told, the connection stays open.
RstSegmentStaysOpen(p) ==
  /\ "RST" \in p.flags
  /\ Current(p)
  /\ p.id # "1234"
  /\ EofCallback
  /\ UNCHANGED <<tcp_state, cb, toPeer, delivered, acked>>

\* A reset of the current connection, unless it echoes our IP ID $1234.
RstSegment(p) ==
  /\ "RST" \in p.flags
  /\ Current(p)
  /\ p.id # "1234"
  /\ tcp_state' = "closed"
  /\ EofCallback
  /\ UNCHANGED <<cb, toPeer, delivered, acked>>

\* @send_ack from the handler.
AckCurrent ==
  /\ tcp_ack_number' = ack_number
  /\ Reply(Ack)
  /\ UNCHANGED <<tcp_state, tcp_connect, tcp_listen_port, sequence_number,
                 expected_ack_number, ack_number, last_ack, tcp_fin_sent, history>>

EchoedRst(p) ==
  /\ "RST" \in p.flags
  /\ Current(p)
  /\ p.id = "1234"
  /\ AckCurrent

IgnoredRst(p) ==
  /\ "RST" \in p.flags
  /\ ~Current(p)
  /\ Ignored

\* Mutant: tcp_state is not looked at.
SynAckAlwaysExpected(p) ==
  /\ p.flags = {"SYN", "ACK"}
  /\ Current(p)
  /\ tcp_state' = "established"
  /\ ack_number' = SeqAdd(p.seq, 1)
  /\ sequence_number' = SeqAdd(sequence_number, 1)
  /\ expected_ack_number' = sequence_number'
  /\ tcp_ack_number' = ack_number'
  /\ Reply(Bare(tcp_connect, {"ACK"}, expected_ack_number', ack_number'))
  /\ UNCHANGED <<tcp_connect, tcp_listen_port, last_ack, tcp_fin_sent, history>>

\* The SYN/ACK tcp_connect waits for: tcp_connection_established, then @send_ack.
\* Its ACK field is not compared with our sequence number.
SynAckExpected(p) ==
  /\ p.flags = {"SYN", "ACK"}
  /\ Current(p)
  /\ tcp_state = "syn_sent"
  /\ tcp_state' = "established"
  /\ ack_number' = SeqAdd(p.seq, 1)
  /\ sequence_number' = SeqAdd(sequence_number, 1)
  /\ expected_ack_number' = sequence_number'
  /\ tcp_ack_number' = ack_number'
  /\ Reply(Bare(tcp_connect, {"ACK"}, expected_ack_number', ack_number'))
  /\ UNCHANGED <<tcp_connect, tcp_listen_port, last_ack, tcp_fin_sent, history>>

SynAckRepeated(p) ==
  /\ p.flags = {"SYN", "ACK"}
  /\ Current(p)
  /\ tcp_state # "syn_sent"
  /\ AckCurrent

\* SYN/ACK, ACK or FIN of a connection we do not have: @send_rst.
NotOurs(p) ==
  /\ "RST" \notin p.flags
  /\ p.flags \cap {"ACK", "FIN"} # {}
  /\ ~Current(p)
  /\ Reply(Rst(p))
  /\ UNCHANGED <<tcp_state, cb, history>>

\* An ACK of the current connection, alone or with PSH, URG, FIN, not a SYN/ACK.
AckSegment(p) ==
  /\ "ACK" \in p.flags /\ p.flags \cap {"RST", "SYN"} = {}
  /\ Current(p)
  /\ last_ack' = p.ack

\* Mutant: a segment ahead of the awaited one is taken too.
ExpectedOrLater(p) == SeqSub(p.seq, ack_number) < SeqMod \div 2

\* The segment starts with the number we acknowledged last.
Expected(p) == p.seq = ack_number

\* The data we wait for: callback, then ack_number moves, then the ACK. If the
\* segment has a FIN too, the FIN is compared with the moved ack_number: not it.
DataSegment(p) ==
  /\ AckSegment(p)
  /\ Expected(p)
  /\ p.len > 0
  /\ delivered' = [delivered EXCEPT ![tcp_connect] = @ \o Bytes(p)]
  /\ ack_number' = SeqAdd(ack_number, p.len)
  /\ tcp_ack_number' = ack_number'
  /\ Reply(Bare(tcp_connect, {"ACK"}, expected_ack_number, ack_number'))
  /\ UNCHANGED <<tcp_state, tcp_connect, tcp_listen_port, sequence_number,
                 expected_ack_number, tcp_fin_sent, eof, acked>>

\* @not_expected_seq_number: repeat our ACK; a FIN there is not ours to take yet.
OutOfOrder(p) ==
  /\ AckSegment(p)
  /\ ~Expected(p)
  /\ tcp_ack_number' = ack_number
  /\ Reply(Ack)
  /\ UNCHANGED <<tcp_state, tcp_connect, tcp_listen_port, sequence_number,
                 expected_ack_number, ack_number, tcp_fin_sent, history>>

PureAck(p) ==
  /\ AckSegment(p)
  /\ Expected(p)
  /\ p.len = 0
  /\ "FIN" \notin p.flags
  /\ UNCHANGED <<tcp_state, tcp_connect, tcp_listen_port, sequence_number,
                 expected_ack_number, ack_number, tcp_ack_number, tcp_fin_sent, toPeer,
                 history>>

\* @fin: the callback sees the end of file, then the connection is closed.
\* tcp_fin_sent is set just before it is tested, so @send_fin_ack never runs.
FinSegment(p) ==
  /\ AckSegment(p)
  /\ Expected(p)
  /\ p.len = 0
  /\ "FIN" \in p.flags
  /\ EofCallback
  /\ tcp_state' = "closed"
  /\ ack_number' = SeqAdd(ack_number, 1)
  /\ tcp_ack_number' = ack_number'
  /\ tcp_fin_sent' = 1
  /\ IF tcp_fin_sent' = 0
     THEN /\ sequence_number' = sequence_number
          /\ Reply(Bare(tcp_connect, {"FIN", "ACK"}, expected_ack_number, ack_number'))
     ELSE /\ sequence_number' = SeqAdd(sequence_number, 1)
          /\ Reply(Bare(tcp_connect, {"ACK"}, expected_ack_number, ack_number'))
  /\ UNCHANGED <<tcp_connect, tcp_listen_port, expected_ack_number, delivered, acked>>

ForListenPort(p) == tcp_listen_port = 1 /\ p.conn \in ListenConns

\* A SYN for the listening port: a new connection if tcp_listen waits for one, or
\* a repeated SYN of the current one, handled by the same code.
SynAccepted(p) ==
  /\ p.flags = {"SYN"}
  /\ ForListenPort(p)
  /\ tcp_state = "listening" \/ Current(p)
  /\ tcp_state' = "established"
  /\ tcp_connect' = p.conn
  /\ ack_number' = SeqAdd(p.seq, 1)
  /\ tcp_ack_number' = ack_number'
  /\ Reply(Bare(p.conn, {"SYN", "ACK"}, expected_ack_number, ack_number'))
  /\ IF tcp_state = "listening"
     THEN /\ delivered' = [delivered EXCEPT ![p.conn] = <<>>]
          /\ eof' = [eof EXCEPT ![p.conn] = 0]
          /\ acked' = [acked EXCEPT ![p.conn] = 0]
     ELSE UNCHANGED history
  /\ UNCHANGED <<tcp_listen_port, sequence_number, expected_ack_number, last_ack,
                 tcp_fin_sent>>

SynIgnored(p) ==
  /\ p.flags = {"SYN"}
  /\ ForListenPort(p)
  /\ tcp_state # "listening" /\ ~Current(p)
  /\ Ignored

\* @decline_syn_with_reset builds the RST's ACK in tcp_ack_number.
SynDeclined(p) ==
  /\ p.flags = {"SYN"}
  /\ ~ForListenPort(p)
  /\ tcp_ack_number' = SeqAdd(p.seq, 1)
  /\ Reply(Rst(p))
  /\ UNCHANGED <<tcp_state, tcp_connect, tcp_listen_port, sequence_number,
                 expected_ack_number, ack_number, last_ack, tcp_fin_sent, history>>

TcpProcess(p) ==
  /\ Poll
  /\ \/ RstSegment(p)
     \/ EchoedRst(p)
     \/ IgnoredRst(p)
     \/ SynAckExpected(p)
     \/ SynAckRepeated(p)
     \/ NotOurs(p)
     \/ DataSegment(p)
     \/ OutOfOrder(p)
     \/ PureAck(p)
     \/ FinSegment(p)
     \/ SynAccepted(p)
     \/ SynIgnored(p)
     \/ SynDeclined(p)

----------------------------------------------------------------------------
CallReturns == ConnectReturns \/ ListenReturns \/ SendReturns \/ CloseReturns

TcpNext ==
  \/ \E c \in Conns : TcpConnect(c)
  \/ TcpListen
  \/ \E len \in SendLens : TcpSend(len)
  \/ TcpClose
  \/ TcpCloseNotEstablished
  \/ TcpSendKeepAlive
  \/ Abort
  \/ CallReturns
  \/ KeepPolling
  \/ TickDelay
  \/ TickResend
  \/ TickTimeout
  \/ NoSegment
  \/ \E p \in toHost : TcpProcess(p)

ControlOK ==
  /\ tcp_state \in {"closed", "listening", "syn_sent", "established"}
  /\ tcp_connect \in Conns \cup {NoConn}
  /\ tcp_state \in {"syn_sent", "established"} \/ call \in {"connect", "send"} =>
       tcp_connect \in Conns
  /\ tcp_listen_port \in {0, 1}
  /\ call \in {"none", "connect", "listen", "send", "close"}
  /\ phase \in {"poll", "check"}
  /\ send_len \in {0} \cup SendLens

NumbersOK ==
  /\ sequence_number \in SeqNo
  /\ expected_ack_number \in SeqNo
  /\ ack_number \in SeqNo
  /\ last_ack \in SeqNo
  /\ tcp_ack_number \in SeqNo
  /\ tcp_fin_sent \in {0, 1}

\* A call in progress or a connection in use has transmissions left.
TimerOK ==
  /\ tcp_packet_sent_count \in 0 .. MAX_TCP_PACKETS_SENT - 1
  /\ call # "none" \/ tcp_state # "closed" =>
       tcp_packet_sent_count < MAX_TCP_PACKETS_SENT - 1
  /\ tcp_loop_count \in 0 .. MAX_TCP_PACKETS_SENT + 1

HistoryOK ==
  /\ delivered \in [Conns -> Seq(Nat)]
  /\ eof \in [Conns -> Nat]
  /\ acked \in [Conns -> Nat]

ToHostOK == toHost \subseteq Segment /\ \A p \in toHost : p.conn # NoConn

TcpTypeOK ==
  ControlOK /\ NumbersOK /\ TimerOK /\ HistoryOK /\ ToHostOK /\ toPeer \subseteq Segment
============================================================================
