-------------------------------- MODULE Tftp --------------------------------
(***************************************************************************)
(* The TFTP client of ip65 (ip65/tftp.s), called by the routines of        *)
(* tftp_c.s, on top of the listener table and the ARP resolver.  A call is *)
(* a polling loop of two phases, "poll" and "check", as in module Dhcp.    *)
(*                                                                         *)
(* A block is its number, and whether it is shorter than 512 bytes.  The   *)
(* routines of tftp_c.s always set the callback vector, and with it        *)
(* tftp_callback_address_set: a load address is never taken from the file. *)
(*                                                                         *)
(* The servers are external (RFC 1350): every request they accept starts a *)
(* session with a port of its own (tid). What a server has sent may arrive *)
(* late and again; a request it has no file for is answered by an error.   *)
(***************************************************************************)
EXTENDS UdpListeners, Arp

CONSTANTS
  FileLen,      \* blocks of the file each host has to offer; 0: not a server
  Refusing,     \* hosts that answer a request with an error
  UploadLen,    \* blocks the application uploads, the last one short
  Tids,         \* bound: ports a server has for the sessions of one client port
  TftpDests,    \* addresses each kind of request is sent to
  MaxTransfers, \* bound: calls
  TFTP_MAX_RESENDS

VARIABLES
  tftp_client_port,             \* tftp_client_port_low_byte
  tftp_ip,
  tftp_state,
  tftp_resend_counter,
  tftp_break_inner_loop,
  tftp_current_block_number,
  tftp_actual_server,           \* tftp_actual_server_ip, _port: host and tid
  tftp_outp,                    \* the packet last built for a session
  tftp_call,                    \* "none", "download" or "upload"
  tftp_phase,                   \* "idle", "start", "poll" or "check"
  tftp_result,                  \* "none", "ok", or the error of the last call
  delivered,                    \* blocks given to the callback or stored
  produced,                     \* blocks the callback of an upload has given
  sent,                         \* packets ever sent
  sessions                      \* of the servers

tftpLoop == <<tftp_resend_counter, tftp_break_inner_loop>>
tftpXfer == <<tftp_current_block_number, tftp_actual_server, delivered, produced>>
tftpVars == <<tftp_client_port, tftp_ip, tftp_state, tftpLoop, tftpXfer, tftp_outp,
              tftp_call, tftp_phase, tftp_result, sent, sessions>>

ASSUME TftpAssumption ==
  /\ FileLen \in [Hosts -> Nat]
  /\ Refusing \subseteq Hosts
  /\ TftpDests \in [{"download", "upload"} -> SUBSET (Hosts \cup {Broadcast})]
  /\ UploadLen \in Nat \ {0}
  /\ Tids \subseteq Nat \ {0}
  /\ MaxTransfers \in 0 .. 255
  /\ TFTP_MAX_RESENDS \in Nat \ {0}
  /\ "tftp_in" \in Callbacks

tftp_initializing             == 1
tftp_initial_request_sent     == 2
tftp_transmission_in_progress == 3
tftp_complete                 == 4
tftp_error                    == 5

NoServer == [host |-> Zero, tid |-> 0]
NoPacket == [op |-> "none", data |-> 0, last |-> FALSE]

\* Mutant: all transfers use the same port.
Port69Same(n) == [lo |-> 1, hi |-> 105]

\* Each transfer uses another low byte; the high byte is $69.
Port69(n) == [lo |-> n, hi |-> 105]

MyPort == Port69(tftp_client_port)
Me == [ip |-> cfg_ip, port |-> MyPort]

TftpInit ==
  /\ tftp_client_port = 0
  /\ tftp_ip = Broadcast
  /\ tftp_state = 0
  /\ tftp_resend_counter = 0
  /\ tftp_break_inner_loop = 0
  /\ tftp_current_block_number = 0
  /\ tftp_actual_server = NoServer
  /\ tftp_outp = NoPacket
  /\ tftp_call = "none"
  /\ tftp_phase = "idle"
  /\ tftp_result = "none"
  /\ delivered = <<>>
  /\ produced = 0
  /\ sent = {}
  /\ sessions = {}

----------------------------------------------------------------------------
(* Sending: ip_send drops the packet when the next hop is not resolved.    *)

Put(ip, packet) ==
  /\ ArpLookup(ip)
  /\ sent' = IF Resolved(ip) THEN sent \cup {packet} ELSE sent

\* send_request_packet
Request ==
  [op |-> IF tftp_call = "download" THEN "RRQ" ELSE "WRQ",
   to |-> [host |-> tftp_ip, tid |-> 0], from |-> Me, blk |-> 0, data |-> 0, last |-> FALSE]

SendTftpRequest ==
  /\ Put(tftp_ip, Request)
  /\ tftp_state' = IF Resolved(tftp_ip) THEN tftp_initial_request_sent ELSE tftp_initializing

\* send_tftp_packet: the block number is put into what tftp_outp holds.
SendTftpPacket(server, blk, packet) ==
  Put(server.host, [op |-> packet.op, to |-> server, from |-> Me, blk |-> blk,
                    data |-> packet.data, last |-> packet.last])

AckPacket == [op |-> "ACK", data |-> 0, last |-> FALSE]
DataPacket(n) == [op |-> "DATA", data |-> n, last |-> n = UploadLen]

\* tftp_download and tftp_upload up to their polling loop.
Transfer(call, ip) ==
  /\ tftp_phase = "idle"
  /\ tftp_client_port < MaxTransfers
  /\ tftp_client_port' = tftp_client_port + 1
  /\ tftp_ip' = ip
  /\ tftp_state' = tftp_initializing
  /\ tftp_current_block_number' = 0
  /\ tftp_call' = call
  /\ delivered' = <<>>
  /\ produced' = 0
  /\ IF CanAdd(Port69(tftp_client_port'))
     THEN /\ UdpAdd(Port69(tftp_client_port'), "tftp_in")
          /\ tftp_resend_counter' = TFTP_MAX_RESENDS
          /\ tftp_phase' = "start"
          /\ tftp_result' = "none"
     ELSE /\ UdpAddFails(Port69(tftp_client_port'))
          /\ tftp_result' = "busy"
          /\ UNCHANGED <<tftp_resend_counter, tftp_phase>>
  /\ UNCHANGED <<arpVars, tftp_break_inner_loop, tftp_actual_server, tftp_outp, sent, sessions>>

----------------------------------------------------------------------------
(* @outer_delay_loop: what is sent, by state.                              *)

Loop ==
  /\ tftp_break_inner_loop' = 0
  /\ tftp_phase' = "poll"
  /\ UNCHANGED <<udpVars, tftp_call, tftp_result>>

ExitLoop(result) ==
  /\ UdpRemove(MyPort)
  /\ tftp_phase' = "idle"
  /\ tftp_result' = result
  /\ tftp_call' = "none"
  /\ UNCHANGED <<tftp_state, tftp_outp>>

OuterRequest ==
  /\ tftp_state \in {tftp_initializing, tftp_initial_request_sent}
  /\ SendTftpRequest
  /\ Loop
  /\ UNCHANGED tftp_outp

OuterResend ==
  /\ tftp_state = tftp_transmission_in_progress
  /\ SendTftpPacket(tftp_actual_server, tftp_current_block_number, tftp_outp)
  /\ Loop
  /\ UNCHANGED <<tftp_state, tftp_outp>>

OuterError ==
  /\ tftp_state = tftp_error
  /\ ExitLoop("rejected")
  /\ UNCHANGED <<arpVars, tftp_break_inner_loop, sent>>

\* The last block is acknowledged, an upload's too.
OuterComplete ==
  /\ tftp_state = tftp_complete
  /\ Resolved(tftp_actual_server.host)
  /\ SendTftpPacket(tftp_actual_server, tftp_current_block_number, AckPacket)
  /\ ExitLoop(IF Slots(MyPort) = {} THEN "error" ELSE "ok")
  /\ UNCHANGED tftp_break_inner_loop

\* "keep looping": the state is compared with what ip_send left in A, a byte of a time.
\* Unless it happens to be 3, the request is sent once more.
OuterUnacknowledged ==
  /\ tftp_state = tftp_complete
  /\ ~Resolved(tftp_actual_server.host)
  /\ tftp_outp' = AckPacket
  /\ Loop
  /\ AskOnMiss(tftp_actual_server.host)
  /\ \/ /\ sent' = sent \cup (IF Resolved(tftp_ip) THEN {Request} ELSE {})
        /\ tftp_state' = IF Resolved(tftp_ip) THEN tftp_initial_request_sent
                                              ELSE tftp_initializing
     \/ UNCHANGED <<tftp_state, sent>>
  /\ UNCHANGED <<arp_cache, heard>>

Outer ==
  /\ OuterRequest \/ OuterResend \/ OuterError \/ OuterComplete \/ OuterUnacknowledged
  /\ UNCHANGED <<tftp_client_port, tftp_ip, tftpXfer, sessions>>

StartLoop ==
  /\ tftp_phase = "start"
  /\ Outer
  /\ UNCHANGED tftp_resend_counter

----------------------------------------------------------------------------
(* The check phase.                                                        *)

TftpCheck == tftp_phase = "check"

ExitWithError(result) ==
  /\ ExitLoop(result)
  /\ UNCHANGED <<arpVars, tftp_break_inner_loop, sent, tftp_client_port, tftp_ip, tftpXfer,
                 sessions>>

TftpAbort ==
  /\ TftpCheck
  /\ ExitWithError("aborted")
  /\ UNCHANGED tftp_resend_counter

BlockArrived ==
  /\ TftpCheck
  /\ tftp_break_inner_loop = 1
  /\ Outer
  /\ UNCHANGED tftp_resend_counter

TftpKeepPolling ==
  /\ TftpCheck
  /\ tftp_break_inner_loop = 0
  /\ tftp_phase' = "poll"
  /\ UNCHANGED <<udpVars, arpVars, tftp_client_port, tftp_ip, tftp_state, tftpLoop, tftpXfer,
                 tftp_outp, tftp_call, tftp_result, sent, sessions>>

\* Mutant: resends are not counted.
TftpTickFree ==
  /\ TftpCheck
  /\ tftp_break_inner_loop = 0
  /\ tftp_resend_counter' = tftp_resend_counter

TftpTick ==
  /\ TftpCheck
  /\ tftp_break_inner_loop = 0
  /\ tftp_resend_counter' = tftp_resend_counter - 1

TftpTickResend ==
  /\ TftpTick
  /\ tftp_resend_counter > 1
  /\ Outer

TftpTickTimeout ==
  /\ TftpTick
  /\ tftp_resend_counter = 1
  /\ ExitWithError("timeout")

----------------------------------------------------------------------------
(* tftp_in                                                                 *)

\* got_expected_block, from whoever sent it, and the packet that follows.
GotExpectedBlock(p, packet, isLast) ==
  /\ tftp_current_block_number' = tftp_current_block_number + 1
  /\ tftp_resend_counter' = TFTP_MAX_RESENDS
  /\ tftp_break_inner_loop' = 1
  /\ tftp_actual_server' = p.from
  /\ tftp_outp' = packet
  /\ SendTftpPacket(p.from, tftp_current_block_number', packet)
  /\ tftp_state' = IF isLast THEN tftp_complete ELSE tftp_transmission_in_progress

IgnoredBlock ==
  UNCHANGED <<arpVars, tftp_state, tftpLoop, tftpXfer, tftp_outp, sent>>

\* Only the low byte of the number is compared.
ExpectedData(p) == (p.blk - 1) % 256 = tftp_current_block_number % 256

\* Mutant: an acknowledgement is not compared with what has been sent.
ExpectedAckAny(p) == TRUE

ExpectedAck(p) == p.blk % 256 = tftp_current_block_number % 256

DataIn(p) ==
  /\ p.op = "DATA"
  /\ IF ExpectedData(p)
     THEN /\ GotExpectedBlock(p, AckPacket, p.last)
          /\ delivered' = Append(delivered, [from |-> p.from, blk |-> p.blk])
          /\ UNCHANGED produced
     ELSE IgnoredBlock

\* The callback gives the next block. The short one is sent once.
AckIn(p) ==
  /\ p.op = "ACK"
  /\ IF ExpectedAck(p)
     THEN /\ produced' = produced + 1
          /\ GotExpectedBlock(p, DataPacket(produced'), produced' = UploadLen)
          /\ UNCHANGED delivered
     ELSE IgnoredBlock

\* The loop is not broken: the error is seen after the next tick, or forgotten.
ErrorIn(p) ==
  /\ p.op = "ERROR"
  /\ tftp_state' = tftp_error
  /\ UNCHANGED <<arpVars, tftpLoop, tftpXfer, tftp_outp, sent>>

TftpIn(p) ==
  /\ DataIn(p) \/ AckIn(p) \/ ErrorIn(p)
  /\ UNCHANGED <<tftp_client_port, tftp_ip, tftp_call, tftp_result, sessions>>

----------------------------------------------------------------------------
(* The servers.                                                            *)

\* Datagrams that may arrive: what the sessions have sent, and errors.
FromSession(s) ==
  IF s.op = "RRQ"
  THEN {[op |-> "DATA", from |-> s.id, to |-> s.client, blk |-> n,
         last |-> n = FileLen[s.id.host]] : n \in 1 .. s.blk}
  ELSE {[op |-> "ACK", from |-> s.id, to |-> s.client, blk |-> n,
         last |-> FALSE] : n \in 0 .. s.blk}

Reaches(host, ip) == ip = host \/ (ip = Broadcast /\ host \in Wire)

Requests == {p \in sent : p.op \in {"RRQ", "WRQ"}}
ErrorsOf(h) ==
  {[op |-> "ERROR", from |-> [host |-> h, tid |-> 0], to |-> p.from, blk |-> 0,
    last |-> FALSE] :
     p \in {q \in Requests : Reaches(h, q.to.host)}}

Datagrams ==
  (UNION {FromSession(s) : s \in sessions}) \cup (UNION {ErrorsOf(h) : h \in Refusing})

ServerAccepts(host, tid, p) ==
  /\ FileLen[host] > 0 /\ host \notin Refusing
  /\ Reaches(host, p.to.host)
  /\ \A s \in sessions : s.id = [host |-> host, tid |-> tid] => s.client # p.from
  /\ sessions' = sessions \cup
       {[id |-> [host |-> host, tid |-> tid], client |-> p.from, op |-> p.op,
         blk |-> IF p.op = "RRQ" THEN 1 ELSE 0, stored |-> <<>>, done |-> FALSE]}

\* The next block of a download, or a block of an upload is stored.
ServerReceives(s, p) ==
  /\ p.to = s.id /\ p.from = s.client
  /\ \/ /\ s.op = "RRQ" /\ p.op = "ACK"
        /\ p.blk = s.blk /\ s.blk < FileLen[s.id.host]
        /\ sessions' = (sessions \ {s}) \cup {[s EXCEPT !.blk = @ + 1]}
     \/ /\ s.op = "WRQ" /\ p.op = "DATA" /\ ~s.done
        /\ p.blk = s.blk + 1
        /\ sessions' = (sessions \ {s}) \cup
             {[s EXCEPT !.blk = @ + 1, !.stored = Append(@, p.data), !.done = p.last]}

ServerStep ==
  /\ \/ \E p \in Requests, host \in Hosts, tid \in Tids : ServerAccepts(host, tid, p)
     \/ \E s \in sessions, p \in sent : ServerReceives(s, p)
  /\ UNCHANGED <<udpVars, arpVars, tftp_client_port, tftp_ip, tftp_state, tftpLoop, tftpXfer,
                 tftp_outp, tftp_call, tftp_phase, tftp_result, sent>>

----------------------------------------------------------------------------
TftpTypeOK ==
  /\ tftp_client_port \in 0 .. MaxTransfers
  /\ tftp_ip \in Hosts \cup {Broadcast}
  /\ tftp_state \in 0 .. tftp_error
  /\ tftp_resend_counter \in 0 .. TFTP_MAX_RESENDS
  /\ tftp_phase # "idle" => tftp_resend_counter > 0
  /\ tftp_break_inner_loop \in {0, 1}
  /\ tftp_current_block_number \in Nat
  /\ tftp_call \in {"none", "download", "upload"}
  /\ tftp_phase \in {"idle", "start", "poll", "check"}
  /\ tftp_result \in {"none", "ok", "error", "busy", "aborted", "rejected", "timeout"}
  /\ produced \in 0 .. UploadLen
=============================================================================
