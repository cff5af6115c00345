# ip65 in TLA+

ip65 is a TCP/IP stack for 6502 machines. It is single threaded and has no interrupts of
its own: every blocking call (`tcp_connect`, `tcp_send`, `dns_resolve`, ...) is a loop that
calls `ip65_process`, which takes at most one frame from the Ethernet chip and runs its
handler, and then looks at the abort key, at a state byte the handler may have set, and at
a timer. What is concurrent is the outside: the network loses, repeats and delays packets,
peers close and abort, users press keys, and all of it meets whatever call is in progress
and whatever the last calls have left in memory. The specifications here are about that.

The Apple II programs have a second stack: the W5100 chip does TCP itself, and
`apps/w5100.c` drives it through registers the chip changes on its own. On the two stacks
stand the programs; of these the downloader `wget65` and the file server `hfs65`, the two
with the most state, are modelled as wholes.

Line numbers are those of the files under `src/`.

## Contents

| file | what it is |
|---|---|
| `Tcp.tla` | the TCP endpoint, `ip65/tcp.s` |
| `TcpSystem.tla` | the endpoint with network and peers; fairness; all TCP properties |
| `ByteStream.tla` | abstract: what the application is promised about what it receives |
| `TcpInvariant.tla` | the inductive invariants of the TCP proofs, and what they assume of a program |
| `TcpDelivery.tla` | proofs: types, counters, state/connection agreement; in-order delivery; on accepted connections no byte is skipped |
| `TcpClient.tla` | proofs: end of file, acknowledgements and the byte stream of a program that does not listen |
| `TcpSending.tla` | proofs: what a successful `tcp_send` means, in a client and in a server, and a `tcp_close` that waited |
| `UdpListeners.tla` | the table of UDP listeners, `ip65/udp.s` |
| `Dns.tla` | the resolver, `ip65/dns.s`, on the listener table |
| `DnsProofs.tla` | proofs: types and counters, an accepted answer is about the name asked for, the listener is released |
| `Arp.tla` | the ARP resolver and its cache, `ip65/arp.s` |
| `Dhcp.tla` | the DHCP client, `ip65/dhcp.s`, on listener table and ARP |
| `Tftp.tla` | the TFTP client, `ip65/tftp.s`, on listener table and ARP |
| `Netboot.tla` | a program that uses both, `test/tftp.s`; their properties and fairness |
| `NetbootInvariant.tla` | the inductive invariant of configuration and file transfer |
| `NetbootProofs.tla` | proofs: all safety properties of `Netboot` |
| `W5100.tla` | the W5100 and its driver, `apps/w5100.c` |
| `W5100Http.tla` | HTTP over it, `apps/w5100_http.c` |
| `Wget.tla` | the download of `apps/wget65.c`, on these two |
| `WgetInvariant.tla` | the inductive invariant of the download |
| `WgetProofs.tla` | proofs: all safety properties of `Wget` |
| `Linenoise.tla` | the line editor with its history, `apps/linenoise.c` |
| `LineEditor.tla` | abstract: what an editor of lines promises its user |
| `WgetArgs.tla` | the dialogue of `apps/wget65.c`, on the line editor |
| `WgetArgsProofs.tla` | proofs: all properties of `WgetArgs`, and that the editor implements `LineEditor` |
| `Httpd.tla` | the HTTP server, `ip65/httpd.s` and `ip65/http.s` |
| `Hfs65.tla` | the file server `apps/hfs65.c`, on it |
| `Hfs65Invariant.tla` | the inductive invariant of the file server |
| `Hfs65Proofs.tla` | proofs: all safety properties of `Hfs65` |
| `MC*.tla` | instances for TLC |
| `*.cfg` | one per run |
| `PROJECT.json` | components, runs, the map from definitions to source lines, hazards, findings |

`tlc -config tcp_receive.cfg MCTcp.tla` checks a run; `tlapm TcpDelivery.tla` checks proofs.
A definition under a comment "Mutant:" is not part of the model: it is a plausible bug in
the definition after it, and serves to see that a property notices it.

## The system

| component | state | operations | who calls it | what makes it correct |
|---|---|---|---|---|
| Main loop (`ip65.s`) | error code | `ip65_init`, `ip65_process` | every polling loop, applications | one frame per call; each protocol gets its own frames |
| Ethernet (`eth.s`, drivers) | one inbound, one outbound buffer; chip registers and rings | init, poll, send | main loop, IP, ARP | a frame is delivered whole or not at all |
| ARP (`arp.s`) | cache of 8, state, timeout | `arp_lookup`, `arp_process`, `arp_add` | `ip_send`, main loop | an address found belongs to the host asked for; a lookup is retried |
| IP (`ip.s`) | header under construction | `ip_process`, `ip_send`, checksum | UDP, TCP, ICMP, main loop | checksums; a miss of ARP is reported to the caller |
| ICMP (`icmp.s`) | listener table of 2, ping state | listeners, echo reply, `icmp_ping` | main loop, applications | a ping ends, with its own reply |
| UDP (`udp.s`) | listener table of 4 | `udp_add_listener`, `udp_remove_listener`, `udp_process`, `udp_send` | DNS, DHCP, TFTP, SNTP, applications | a listener gets the datagrams of its port; slots are given back |
| TCP (`tcp.s`) | one control block, counters, one timer | `tcp_connect`, `tcp_listen`, `tcp_send`, `tcp_close`, `tcp_send_keep_alive`, `tcp_process` | applications, HTTP | both directions in order and once; success means delivered; calls return |
| DNS (`dns.s`) | name, state, counters, port | `dns_set_hostname`, `dns_resolve`, `dns_in` | applications, `url.s` | the address returned is that of the name asked for; calls return |
| DHCP (`dhcp.s`) | state, offer, counters | `dhcp_init`, `dhcp_in` | applications | the configuration is one a server has acknowledged |
| TFTP (`tftp.s`) | block number, state, timer | download, upload, `tftp_in` | applications | the file arrives whole, blocks once and in order; the transfer ends |
| SNTP (`sntp.s`) | state | `sntp_get_time` | applications | the call returns, with this call's answer |
| HTTP server (`httpd.s`, `http.s`) | one buffer for request and response, flags, a timeout | listen, collect, call the handler, respond | applications | one request, one response, to the client that asked |
| Download, URLs (`download.s`, `url.s`, `parser.s`) | parsed URL, file position | parse, download | applications | the file is the body of the response |
| Clock, arithmetic, addresses (`timer.s`, `arithmetic.s`, `dottedquad.s`) | none | 16- and 32-bit sums, timeouts, parsing | everyone | wrap-around, parsing against a reference |
| Configuration (`config.s`) | addresses | none | everyone | - |
| Chip drivers (`drivers/cs8900a.s`, `w5100.s`, `lan91c96.s`) | registers, rings | init, poll, send | Ethernet | ring pointers wrap |
| Machine drivers (timers, input, print, VT100) | cursor, escape state | read key, read clock, print | applications, timeouts | the clock moves; the parser ends |
| W5100 socket driver (`apps/w5100.c`) | registers and memory of socket 1 | connect, disconnect, request, commit | `w5100_http.c`, wget65 | no byte or command is lost between driver and chip |
| HTTP over the W5100 (`apps/w5100_http.c`) | the caller's buffer | open a URL | wget65, tweet65, ifttt | the request is sent whole; of the response exactly the header is taken |
| wget65 | URL, file name, drive, buffer | dialogue, download to a file or a disk | user | the file or disk is the body; the argument used is the one accepted |
| Line editor (`apps/linenoise.c`) | line, cursor, history | keys, completion, history files | wget65 | line, length and cursor agree; no line is mixed up with another |
| File server (`apps/hfs65.c`) | batch buffer, current directory | pages, files, disk images | clients | each client gets the answer to its own request, whole |
| Other applications (`apps/`) | menus | telnet, tweet65, ifttt, date65, ... | user | they report the first failure and end |

How they interact: an application calls a client (DNS, TFTP, ...) or TCP; the client adds a
listener to the UDP table, sends, and polls `ip65_process`; the driver's frame goes through
`eth`, `ip` and `udp` or `tcp` to the client's callback, which writes the state byte the
loop looks at next. `ip_send` asks ARP, and when the address is not known it reports an
error to the sender after having sent an ARP request *instead of* the packet. The clients
share the listener table, the output buffer and, in time, the network with the late
packets of each other's earlier calls.

What is hard: late and repeated packets of an earlier call or connection; a handler that
runs between two iterations of a loop and changes what the loop will send next; counters
shared by nested loops; calls given up by the abort key, which leave state behind; small
tables and wrapping clocks. The places that matter most are listed under `hazards` in
`PROJECT.json`, with the properties that guard them; what else is known of the code is said
in the sections below.

## TCP

`Tcp.tla` has the control block as variables under the names of `tcp.s`, without prefixes
(`tcp_connect` stands for the addresses and ports of the connection, `sequence_number` for
`tcp_connect_sequence_number` and so on). A blocking call is the pair `call`, `phase`:

* `TcpConnect`, `TcpListen`, `TcpSend`, `TcpClose`, `TcpSendKeepAlive` are the code before
  the loop, the first packet included;
* in phase "poll", `NoSegment` or `TcpProcess(p)` is `ip65_process` with nothing or with
  the segment `p`. `TcpProcess` has one disjunct per path through `tcp_process`
  (`RstSegment`, `SynAckExpected`, `AckSegment` with `DataSegment` and `PureAck`,
  `FinSegment`, `SynAccepted`, `SynDeclined`, ...), each with the packet it sends. A FIN
  segment is handled after its data and its ACK field, as in the code, in the same step;
* in phase "check", `Abort`, `ConnectReturns`, `ListenReturns`, `SendReturns`,
  `CloseReturns`, `KeepPolling` and the three outcomes of the timer having moved:
  `TickDelay`, `TickResend`, `TickTimeout`.

Between calls the application may call `ip65_process` too: `TcpProcess` with `call = "none"`.
An ARP miss is `Carries`: nothing is sent, and the carry left by `tcp_send_packet` is added
to the loop count. Bytes are their position in the sender's stream.

`TcpSystem.tla` adds the network (a segment once sent can be received any number of times,
in any order, or never) and, external to the repository, peers that follow RFC 793, write
in pieces of any length, retransmit in other pieces, close, abort, reboot, refuse, and may
echo our IP identifier in a reset (`$1234` is special to `tcp_process`, 673-682).

### Runs

| run | asks | result |
|---|---|---|
| `tcp_receive` | does the callback get the peer's bytes in order, once, and then the end of file (`InOrderDelivery`, `EofAfterAllData`; `ImplementsByteStream` is the refinement); are ACKs never ahead of the callback nor retreating (`AckedIsDelivered`, `AckNeverRetreats`); types; the inductive invariant `ClientInv`, which contains `IInv` | holds |
| `tcp_send` | does a successful `tcp_send` mean that the peer has all bytes (`SendDelivered`), in order while it has not closed (`PeerInOrderWhileOpen`); a `tcp_close` that finds the connection established succeeds only on a FIN or reset of the peer (`CloseWaitsForPeer`); does every call return (`CallsReturn`) | holds |
| `tcp_listen` | on an accepted connection, where a repeated SYN rewinds `ack_number`, is a byte ever skipped (`NoByteSkipped`); does `SendDelivered` hold as long as all SYN/ACKs have carried one SEQ (`SendDeliveredAfterOneSynAck`) | holds |
| `tcp_half_close` | `PeerInOrder`, without "while it has not closed" | violated: a FIN handled inside `tcp_send` shifts the data being retransmitted |
| `tcp_listen_synack` | `SendDelivered` on any accepted connection | violated: a SYN repeated after `tcp_listen` has returned is answered with SEQ + 1 |

The violations are explained, with the comments they contradict, under `findings` in
`PROJECT.json`. These differences between code and comments are in the model too, but no
run states them:

* `tcp_listen` is to return when there is a connection (comment at 152), but while it waits
  the control block still names the previous one, and a late reset or FIN of that one sets
  the state the loop looks at (180): it returns with no connection.
* The peer's FIN is to be answered with a FIN (comment at 857), but 862 sets `tcp_fin_sent`
  before 866 tests it, so the branch that sends one is never taken and a peer that closes
  first stays half-closed.
* A SYN that is declined leaves its number in `tcp_ack_number` (942-955), and the next
  segment `tcp_send` builds (425-448) acknowledges it to the peer of the connection.
* A repeated SYN makes the callback see bytes again (904-940; the peer in this state has
  normally not sent any).
* The reset of `tcp_packet_sent_count` in `tcp_send` (415-416) stands behind a return and is
  never reached, so the count carries over from the last call.
* A FIN that comes with data is noticed only when the peer repeats it, because it is
  compared after the data has moved the number it is compared with (816).

### Bounds

* `SeqMod = 16`, with initial numbers chosen so that both directions wrap during the run.
* `PeerLen = 2`, `PeerMss` 1 or 2: two bytes in one segment, in two, one repeated alone, so
  every overlap of old, awaited and early data occurs. `MaxBytes = 2` with `SendLens = {2}`
  is one `tcp_send` that can be shifted, halved or repeated.
* `MAX_TCP_PACKETS_SENT = 3` (8 in the code): a first transmission, a repeat, and the limit.
  The counters' arithmetic is proved for every value.
* `MaxListens = 1`: one `tcp_listen`, so that an instance ends; `BoundedDelivery` keeps the
  bytes that a rewound connection delivers again at two rounds, and `OneDirection` has either
  the peer or the application write on an accepted connection, not both.
* `Strays`: a SYN, an ACK, a SYN/ACK and a reset of a host no connection uses.
* One connection per run. The proofs are for any number.

`CHECK_DEADLOCK` is left on everywhere.

### Fairness

`CallsReturn` assumes what the loops are made of. The poll phase and those checks that need
no clock are weakly fair: the CPU runs on. The timer's steps are strongly fair: the high
byte of a clock that is driven by an interrupt or a free-running chip changes again and
again, but a check that finds it unchanged goes back to polling, so the steps are enabled
and disabled in turn. Nothing is assumed about the network, the peers or the user. Note
`tcp_listen` has no timeout and is not claimed to return.

### Assumptions

* The callback does not call TCP functions. (It may, in principle; the buffer it reads
  would be overwritten. A variant is planned.)
* Each connection uses a local port and initial number of its own, and an initial number is
  not such that `last_ack`, left by an earlier connection or 0 after start, happens to be
  the number the first `tcp_send` waits for. In 32 bits this is improbable, in `SeqMod = 16`
  it is a matter of the constants: with `ListenIsns = {14}` and one byte to send the number
  is 0 and `tcp_send` returns before anything has arrived. `tcp_connect` and `tcp_listen`
  do not reset `last_ack`.
* Flags on inbound segments are combinations RFC 793 hosts send.
* `tcp_send_keep_alive` is called on a connection in use, as `apps/telnet65.s` does; a
  connection whose `tcp_listen` was aborted is not used.
* Sends are not empty, and `tcp_send_string` is `tcp_send` of the string's length.

### Proofs

`TcpDelivery` proves `TypeCorrect == Spec => []TypeOK`. It is more than types: an
"established" or "syn_sent" control block names a connection, and a call in progress always
has transmissions and ticks left, although the count is compared by `bpl` after an
increment and is carried over from call to call.

It proves `AgreementInvariant == Spec => []IInv` and from it `InOrder ==
Spec => []InOrderDelivery`, for every set of connections, sequence space, stream length and
set of stray segments. In-order delivery is not inductive: that the byte at `ack_number` is
the next one needs `AckMatch`, that a segment's SEQ tells which bytes it carries needs
`HostSegments`, and because `tcp_process` accepts data in every state but "closed" - while
`tcp_connect` still waits for its SYN/ACK, and while `tcp_send` waits on a connection that
has been closed - it must be shown that no data can arrive then: the peer sends none before
it has been acknowledged (`SynSentOk`, `Est`), and nothing has arrived of a connection that
ip65 has not opened (`Untouched`). There is one lemma per step of endpoint and peer, and
lemmas on `SeqAdd` and `SeqSub`: addition is injective below `SeqMod`, which is where
`PeerLen + 2 < SeqMod` is used.

`NoneIsSkipped == Spec => []NoByteSkipped` is the counterpart for the connections that
`tcp_listen` accepts. A SYN repeated there sets `ack_number` back, and while `tcp_listen`
waits again the previous connection's segments are still taken; what stays true
(`AcceptedInv`) is that `ack_number` names the first byte of the peer, or the one after the
byte delivered last, or the number after the peer's FIN.

The next theorems are about *clients*, programs that do not call `tcp_listen`
(`ClientOnly`); the names in the hypotheses are definitions of `TcpInvariant.tla`. Each
hypothesis is there because TLC refutes the statement without it.

* `EndAfterData` (`EofAfterAllData`), from `ClientInv`: a FIN reaches the callback only when
  its SEQ is awaited, which by `AckMatch` is after the last byte; after it the state is
  "closed" and the port is not used again, so there is no second one (`EndedOk`). A reset
  comes only from a peer that is gone. That needs `AckFieldKept`: a SYN that is declined
  leaves its number in `tcp_ack_number`, `tcp_send` puts it into the ACK field of its next
  segment, and a peer that is still in SYN-RECEIVED answers this with a reset, which ends
  the connection while the peer's data are on their way. So either the program does not send
  or no SYN for a port of ours arrives (`NoSynDeclined`).
* `AcksFollowDelivery` (`AckedIsDelivered`) and `AcksAdvance` (`AckNeverRetreats`), from the
  same invariant: what a bare ACK acknowledges is what the callback has got, its end of file
  counted (`AcksOk`). `NoResetEchoed` excludes resets that carry the IP identifier `$1234`:
  while `tcp_connect` waits, such a reset is answered by an ACK with the `ack_number` of the
  connection before. `AcksAdvance` assumes `PeerMss <= SeqMod \div 2`: 2^31 in the code.
* `ClientStream` (`ImplementsByteStream`): the refinement, step by step. Every step of
  endpoint and peer is a step of `ByteStream` or leaves its variables alone.
* `SentIsDelivered` (`SendDelivered`) and `PeerGetsInOrder` (`PeerInOrderWhileOpen`), from
  `SendInv`: every number that a peer acknowledges, and so `last_ack`, is one past the bytes
  its application has got (`PeerAcksOk`, `LastAckOk`); every segment of ours carries the
  number of its first byte, or one more if it was sent again after the peer's FIN
  (`OwnSegments`, `Shifted`: this is `tcp_half_close`); and whatever was sent before the call
  in progress has been acknowledged (`AllAcked`), which is why a FIN is never taken before
  the data (`AfterClose`, `PeerCountOk`). `NumbersApart` is the assumption on initial numbers
  stated above, made exact: the number `tcp_send` waits for is not 0, and not one that the
  peer of another connection can have acknowledged. `Totals` are the sums of lengths the
  program can reach, so that the assumption is no stronger than it must be. It is needed:
  `tcp_connect` does not clear `tcp_connect_last_ack`, and with two connections whose numbers
  meet, the first `tcp_send` of the second returns at once, with nothing delivered.
* `CloseIsAnswered` (`CloseWaitsForPeer`) holds of every program: while `tcp_close` waits
  the connection is open or an end of file has closed it (`CloseOk`). In every state but
  "established" `tcp_close` succeeds at once (299-306), with no word of the peer: after a
  `tcp_connect` that failed, and after a `tcp_send` that timed out or was aborted, which leave
  the state at "closed".

`SentAfterOneSynAck` (`SendDeliveredAfterOneSynAck`) is the promise of `tcp_send` to a
*server* (`ServerOnly`): a program that calls `tcp_listen` once, waits until that has
accepted a connection, and does not call `tcp_connect`. Its invariant, `ServerInv`
(`ServingInvariant`), splits the connections: those not accepted are `Idle`, with nothing
but resets sent on them; the accepted one is `Served`. There the number of our SYN/ACK takes
the place of the initial number `tcp_connect` draws, and `SendingOk` says the same of both,
so one lemma per step serves clients and servers; while `tcp_listen` has still to count its
SYN the numbers are those of a SYN just sent (`Opening`). A SYN that arrives again is
answered with `expected_ack_number`, whatever it is by then: `SynAcksCarry`, that all
SYN/ACKs so far have carried the first one's number, is a hypothesis inside the invariant,
and the property has it too (without it: run `tcp_listen_synack`). `ListenNumbersApart` is
what is left of `NumbersApart`, that `tcp_send` never waits for the number 0. TLC refutes the
statement if `tcp_listen` may be aborted or called twice: a SYN accepted after the abort is
never counted, so the first byte sent carries the SYN's own number and the peer takes it for
one it has; and the second `tcp_listen` may accept a repeated SYN of the first connection,
on which segments of the first are still in flight. A program that also calls `tcp_connect`
is left out, as its connections would have to draw numbers apart from those of
`tcp_listen`.

## UDP listeners and DNS

`UdpListeners.tla` is the table: `listeners` are the slots in use, `UdpAdd`, `UdpAddFails`
and `UdpRemove` the calls, `Handler(port)` the search of `udp_process`. A port is the pair
of its bytes, because `udp_add_listener` loses one of them: the search of the table runs in
register A, which is then stored as the low byte of the new port (159-171), so with one
listener installed the second is stored under the wrong port. `StoredLow` is that byte.
`installed` is what the callers believe.

`Dns.tla` is the resolver on the table, with the same two phases: `Resolve(name)` up to the
loop, `NoDatagram` and `Receive(p)` for the poll, and `Abort`, `Complete`, `Failed`,
`KeepPolling`, `TickDelay`, `FollowCname`, `TickResend` for the check. `DnsIn` is the
callback: it stores the address of an A record, follows a CNAME by overwriting the name and
breaking the loop's wait, fails on an error code and ignores anything else. It compares
neither the identifier nor the question: what keeps a late answer away is the port, whose
low byte is new for each call. An application may have listeners of its own
(`AppListen`, `AppUnlisten`). The name server is external: it answers from `Zone`, where an
alias has the address of what it points to.

| run | asks | result |
|---|---|---|
| `dns_resolve` | `DnsTypeOK` (counters within limits, no overflow of the table); `ResolvedIsAskedAlone` (success means the address of the name asked for, while the call's listener is alone in the table); `ListenerReleased`; `ResolveReturns` | holds |
| `dns_late_reply` | `ResolvedIsAsked`, without "alone" | violated: after an aborted call the old listener stays, the new one is stored under the old port, and the old call's answer is taken |

A second listener is stored under the low byte that A happens to hold (`udp.s`:171; the
comment at 146-147 says the port is the parameter), so an application's listener beside the
resolver's gets nothing. `StoredLow` has it; `dns_late_reply` is its worst consequence.

Bounds: a table of 2 slots in `dns_resolve`, so that it fills, and 4, as in the code, in
`dns_late_reply`. Two calls: one that leaves things behind, one that suffers.
`MAX_DNS_MESSAGES_SENT` 3 (8 in the code) leaves one repeat. The names are a host, an alias,
a name without address, an unrelated host and an alias of itself, which keeps the resolver
asking until the messages run out. `MaxResolves <= 255`: the byte that tells calls apart does
not wrap, so an answer that is 256 lookups late is not considered. Fairness is as for TCP.

`DnsProofs` proves `DnsTypeCorrect == DnsSpec => []DnsTypeOK`, with lemmas about the table
(a search that finds something finds the last slot; adding and removing keep the table well
formed), and `AnswerIsOwn == DnsSpec => []ResolvedIsAskedAlone`. The invariant is
`ResolverInv`: no query or answer carries a port of a call not yet made; and while the only
listener is the resolver's, its stored byte is right (it was added to an empty table, where
A still holds it), and all queries and answers of this port are about the name asked for or
an alias of it. That the zone keeps aliases and addresses together is `ZoneAssumption`.

`ListenerIsReleased == DnsSpec => ListenerReleased` is about the ways out of `dns_resolve`.
`udp_remove_listener` looks for the port that was asked for, and the table may hold another
(above), so a removal may find nothing. If the table holds one listener it does find it:
that one was added to an empty table (`OnlyListener`), where its low byte is right
(`ResolverInv`) and its high byte too (`HighByteOwn`), and removing it leaves an empty table
(`OnlyRemoved`).

## Configuration and file transfer

`Arp.tla` is the cache with its order and its limit: entries are added on top, without a
search for an older one, and the search stops at an entry whose address begins with 0
(`Cached`), which is what a probe of our address leaves (`Senders`). `ArpLookup(ip)` is
`arp_lookup` with the choice between host and gateway (`NextHop`); `ArpReply` ends the wait
whichever address the reply is from.

`Dhcp.tla` and `Tftp.tla` are polling loops with the phases "poll" and "check", as above, on
one listener table (`UdpListeners`) and one resolver. `DhcpIn` and `TftpIn` are the
callbacks. `Put` is `ip_send`: when the next hop is not known the packet is dropped and an
ARP request may be sent. `Outer` is the head of TFTP's loop with its five ways:
`OuterRequest`, `OuterResend`, `OuterError`, `OuterComplete`, and `OuterUnacknowledged` for
a last acknowledgement that could not be sent. `Netboot.tla` is a program like
`test/tftp.s`: `Call` starts `dhcp_init` until it has reported no error, and then transfers;
`PollStep` is `ip65_process` with nothing, an ARP packet, an offer or a datagram of TFTP.

External are the DHCP servers, each with one offer that may come any number of times once
something has been asked, TFTP servers after RFC 1350, with a session and a port (`Tids`)
for every request they accept, and the machines that answer and send ARP requests.
Everything sent may be lost, come late, again, or out of order.

| run | asks | result |
|---|---|---|
| `netboot` | after `dhcp_init` the address is one that has been requested from the server that offered it, and the rest is the offer of `dhcp_server` (`AddressIsRequested`); a download gets the blocks in order, once, from one session (`BlocksInOrder`); success means the whole file, and a timeout an incomplete one, where the server can be reached (`DownloadReported`); a server stores what the callback gave, in order, and only the last block may be missing after success (`UploadedButLast`); every call returns (`LoopsEnd`); the inductive invariant `NetInv`, which contains `NetTypeOK` | holds |

What the properties have to leave open is what the code does:

* The client is bound when it has sent its request (453-461). A reply that comes after that
  changes netmask, gateway and `dhcp_server`, not the address: with two servers the address
  is of one and the rest of the other. `AddressIsRequested` says no more than that each part
  is an offer's.
* The count of messages is looked at before the state (`dhcp.s`:171): the reply that ends the
  last permitted wait is an error although the client is bound.
* `dhcp_init` given up by the abort key leaves its listener (152-156), so that the next one
  fails at once; the program then never gets an address.
* A `dhcp_init` that is bound returns the carry of `udp_remove_listener` (192-195): with a
  listener stored under a wrong port (above) it would report an error (`Carry`). In this
  program the table is empty when it is called.
* An acknowledgement that meets an ARP miss is not repeated: "then keep looping" (197) goes to
  a comparison of the state with what `udp_send` has left in A, and so to the request again.
  The server answers it from a new session with block 1, which is not awaited, and the file
  that is complete is reported as timed out. This happens to any file of one block whose
  request was broadcast, where nothing has asked for the server's address before.
  `Reachable` is the condition under which it does not.
* The last block of an upload is sent once (`tftp.s`:443-465). After that the loop sends an
  acknowledgement in its place and returns.
* An error packet does not break the wait, and a block that is taken before the next tick
  makes the client forget it.
* `tftp_clear_callbacks` sets `tftp_callback_address_set` to 1, by way of
  `tftp_set_callback_vector`: the C routines never take a load address from the file. The
  test for a load address of 0 (358-360) adds the two bytes, without the carry.
  `tftp_upload_from_memory` leaves its vector to the next download, unless that goes through
  `tftp_c.s`. These three are about memory and are not in the model.

Bounds: hosts `near`, on the Ethernet, a router with a file of two blocks; `rogue`, a DHCP
server for another network, which refuses TFTP requests; `far`, behind the router, with one
block. A download is asked of `far` or of everyone, an upload goes to everyone, as in
`test/tftp.s`. An upload has 2 blocks, a transfer 2 resends,
`dhcp_init` 3 waits; 3 calls, of these up to 2 of each kind: a second `dhcp_init` after an
abort or error, a second transfer that meets what the first has left in the network. The
cache has 2 entries (8 in the code), and one request or probe (`MaxHeard`) comes at any time.
One session of each server per client port (`Tids`). Block numbers stay below 256, where
their low byte (`ExpectedData`) is the number, and so does the count of transfers, of which
the port has the low byte. `CHECK_DEADLOCK` is off: when the calls are used up the program
stops.

Fairness: as for TCP, `NoPacketWaiting` and `CheckStep` weakly, `TickStep` strongly. The
network, the servers and ARP owe nothing, so `LoopsEnd` holds with every answer lost.

Abstractions: a host has one address, and an entry of the cache is its address. Whether the
100 ms of an ARP request are over is left open, which includes the wrap of the clock that
`arp_lookup` compares (166). DISCOVER and REQUEST are broadcast and need no ARP, so that the
branches for a failed send (289-290, 453) are never taken and not in the model. The server of
an offer names its router in it. Options that are missing, replies that are dropped unseen
and names too long for a request are left out.

### Proofs

`NetbootProofs` proves every safety property of the run from `NetInv`, for all sets of
hosts, networks, offers, files, table sizes and bounds.

Two theorems have no hypothesis: `ConfigurationInvariant == Spec => []DhcpInv` and
`RequestedAddress == Spec => []AddressIsRequested`. `DhcpInv` says who has a listener in the
table (`OneListener`), that a transfer comes only after a configuration (`FirstDhcp`), and
that what `dhcp_in` has stored, piece by piece in different variables, is one server's offer
(`OfferTaken`), also after a second server's answer has overwritten all but the address.

The others are under the hypothesis `ShortFiles`: no file has more than 255 blocks.
It cannot be dropped: the client compares the low byte of a block's number alone, so a
repeated block n - 256 would be taken for block n.

* `NetTypes`: the types and the limits of the counters.
* `DownloadInOrder` (`BlocksInOrder`). A broadcast request, or a repeated one, may open many
  sessions, and all of them answer the port of the transfer. But an acknowledgement
  goes to the source of the first block alone (`DownloadInv`), so no other session ever
  sends a second block, and a first block repeated by any of them is not the one awaited.
  What comes from earlier transfers goes to other ports (`Mine`).
* `DownloadIsReported` (`DownloadReported`). `StateInv` relates `tftp_state` to the blocks
  taken and to what a resend would send. That a timeout never reports a complete file needs
  the cache: with one next hop asked for, its entry is pushed down only by
  the requests heard and by one reply (`EntryStays`, `ZeroStays`), so it stays among the
  first `heard + 1` places, and the only way to miss it is behind an entry of address 0
  (`Hidden`). `Reachable` says when that is excluded. The proof corrected it: where another
  next hop has been asked for, a late reply to that earlier transfer may push the entry out.
* `UploadIsStored` (`UploadedButLast`). A block is sent after the one before it
  has been acknowledged (`UploadInv`), and the acknowledgement of the last is not heard
  (`LastBlockInv`), so a session never gets further than the callback.

## Download over the W5100

### Model

`W5100.tla` is socket 1 of the chip with the registers the driver uses, the chip's own steps
(`ChipOpen`, `ChipReceive`, ... execute the pending command some time after it has been
written), the network (`Accept`, `ServerSend`, `ServerAck`, `Reset`, ...) and the driver.
Chip and network act between any two register accesses. A driver call is a run of `dpc`:
`RequestCommand`, `RequestHigh`, `RequestLow` are the three accesses of
`w5100_data_request` that the chip can come between, with the size in two halves of base
`Radix`. `w5100_data_commit` writes one command and does not wait (`Commit`).

`W5100Http.tla` adds the program's place `pc` up to the end of the header: `SendData`
commits a piece of the request, `HeaderData` copies up to the end of the header and no byte
beyond. `Wget.tla` adds the body: `Take` is the rest of the loop of `write_file` and of
`write_device`, which differ in the room left, in the place in the buffer (`skew` reorders
the pages of a DOS 3.3 track) and in the unit that is written. An offer of nothing and the
look at the connection that follows it are two steps (`BodyEmpty`, `BodyPoll`), because the
server can act between them.

| run | asks | result |
|---|---|---|
| `wget` | every byte of the body that the chip may forget is in its place in file, drive or buffer (`BodyInPlace`); the server gets the request in order and once (`RequestInOrder`); what is offered is there and has no gap, though the size is read in halves (`OffersWhatIsThere`); no pending command is overwritten (`CommandsExecuted`); the program ends (`ProgramReturns`); the inductive invariant of the proofs, with the types (`WgetInv`) | holds |
| `wget_short` | a download reported Ok is whole (`OkMeansWhole`) | violated: the request says "nothing" also while a RECV is pending, and the server may close before the look at the status |

Bounds: a memory of 4 bytes with registers of 0 .. 15 read in base 4, starting at 15: offers
are cut at the end of the memory, the pointer wraps, sizes are torn (0, 1, 2, 3 differ from 4
in both halves). A buffer of 16 pages of one byte; bodies of 17 and 18 bytes, a little more
than the buffer, and 32 for DOS 3.3, whole tracks. One accepted and one rejected header, the
latter with a line end before its end. The request has 5 bytes, more than the memory. In
`wget_short` nothing fails and nobody aborts.

Fairness (`WgetFairSpec`): the processor goes on (`Program`, `Driver`), the chip executes
commands, and the server does something it can do: accept, send, acknowledge, close. A
server that closes before `w5100_connect` has seen ESTABLISHED (205) makes it wait for a
state that has passed; `ProgramReturns` excludes exactly that. Failures are not fair.

Assumptions: the build without `SINGLE_SOCKET`. Files and drives are external, an operation
succeeds or fails and a failed write may have written some units. The code compares with
`sizeof(buffer)` where `buffer` is a pointer (`w5100_http.c`:142): a first piece of two
bytes is refused as invalid, and a header that fills the buffer is waited for forever. The
first is in the instance (`PtrSize`), the second needs a longer header. A header is what
ends with the first empty line of the response (`HeaderAssumption`).

### Proofs

`WgetProofs` proves `OffersAreThere == WgetSpec => []OffersWhatIsThere` and `NoCommandIsLost
== WgetSpec => CommandsExecuted`, for all sizes, requests, headers and bodies, and with
aborts, resets and failures. The invariant `DriverInv` says

* where the driver can be while the program waits at a place (`PlacesOK`);
* where no command, or at most a RECV, is pending (`PendingOK`): a driver that has seen the
  command register empty and is still between `RequestCommand` and the end is alone with it,
  and after an empty offer nothing but the RECV of the piece before can be pending;
* that the high half that has been read is not ahead of the register (`HighOK`).

The last is the argument for the torn size: while no command is pending both size registers
only grow, so a high half read first and a low half read later make at most the present size
(`TornIsLess`, which needs the division lemma `Halves`). An offer is made only if two such
readings agree, and then it is at most the size of the end of the second one. The lemma
`LeastExists`, that a set of naturals has a least member, is for the end of the header and
rests on the library's theorem on well-founded orders.

On `DriverInv` rests `WgetInv` (module `WgetInvariant`), from which follow `BodyIsInPlace ==
WgetSpec => []BodyInPlace`, `RequestIsInOrder == WgetSpec => []RequestInOrder` and the types
(`WgetTypes`), for every size of registers, memories, pages and buffer and for every request,
header and body. Its parts:

* `RingInv`: a pointer is ahead of where the chip has left it only while the command of the
  commit that moved it is pending, and then by no more than the size that was offered;
* `CallInv`: what an offer names begins at the pointer (`addr`);
* `UnreadInv`: what the chip holds is the last part of what has arrived of the response;
* `RequestInOrder`, which is inductive with these;
* `HeaderInv`: up to the end of the header all that has been taken is in the buffer, at its
  beginning, and is less than the header; from then until the file is open it is the header;
* `BodyInv`: whole buffers have been written, each byte of them is in its place (`Written`),
  and the rest of what has been taken is in the buffer where `Spot` says.

The argument has two halves. A step is a move of chip and memories of one of seven kinds
(`MoveStep`): the program takes bytes (`Get`) or puts some (`Put`), a segment arrives or is
acknowledged, the chip executes RECV or SEND, or nothing moves. What the moves keep
(`RingStep`, `MemoryStep`, `UnreadStep`, `RequestStep`) is proved once for each of them, and
is arithmetic of places in a ring whose size divides the range of its pointers (`RingPlace`,
`WrappedPlace`, `CommitIsFresh`). The other half is what the program does with its bytes:
`FetchIsNext`, they are the next ones of the response; `HeaderCut`, the first end of a header
that is met is that of the header; `PieceTaken` and `BufferWritten`, bytes of one piece go to
places that follow one another (`SpotNew`), at which there is no byte yet (`SpotOld`), and
the buffer is written to where they belong (`PlaceOf`), because the skew of a track's pages
is a permutation (`SkewIsSwap`).

## The dialogue of wget65 and its line editor

`Linenoise.tla` has `struct linenoiseState`, the static buffer as an array with its NUL and
whatever is behind it, and the history, whose last entry stands for the line under edit; one
action per key. `LineEditor.tla` is the abstract editor: text before and after a cursor, a
list of older lines, and the new line, which is kept while an older one is shown. `WgetArgs`
is the first half of `main`: load a history file (through the same buffer), take the
argument from the command line or from the editor, look at it, save the history, derive a
ProDOS name from the URL, and the same for the file. `Restart` is another run of the program
on the files the last has left.

| run | asks | result |
|---|---|---|
| `wget_args` | the editor implements the abstract one (`ImplementsLineEditor`); text, NUL, length and cursor agree (`LineIsString`); `arg` is what was found good, until the file is opened (`ArgIntact`); the proposed name is a ProDOS name for every last segment (`NameIsValid`); a history file brings the latest lines back (`HistoryComesBack`) | holds |

A completion (`EditComplete`) may be of any length. `snprintf` cuts it (`Cut`), but returns the
length before the cut, which `completeLine` takes for `len` and `pos` (`linenoise.c`:173-174):
`len` is then no longer the "Current edited line length" (76). The model has it so, and TLC
finds it in nine steps if `fits` is taken out of `LineIsString`. `fits`, a variable that no action looks at, says whether every completion
of the edit was shorter than the buffer. `LineIsString` makes the agreement of `len` with the
text depend on it, and only that: the cursor is inside `len`, and the entry shown exists, in
any case. For `ImplementsLineEditor` the user has such a line only while `fits` is true
(`Shown`): the completion that is too long is a step in which the line is given up.
Afterwards the model follows every key but a delete and a backspace with `len` behind the end
of the array, which would write there (`InArray`). In the instance a path with a name
appended has 7 characters, as many as the buffer (the text is then cut to 6), or 9, more than
the array.

Bounds: lines of up to 7 characters, a history of 3, 4 keys per run of the program and 2
runs; two characters on the keyboard, one of them the separator. History files with
repetitions, with more lines than the history holds, and with a line as long as the buffer.
The derived name has 3 characters (15 in the code) and the URL's last segment up to 5 of a
letter, a digit, a dot and a percent sign, so names are cut, with and without an extension.
`CHECK_DEADLOCK` is off: when the keys are used up an edit just stops. Nothing is claimed
about its end.

The refinement maps the last entry of the history away while a line is edited. It needs the
mapping to say what the code does at its edges: a line brought back that is as long as the
buffer loses its last character; Ctrl-C leaves the working entry in the history, where the
next line takes its place if it is empty; a line as long as the buffer comes back from its
file with an empty line after it (`fgets` leaves the line end for the next read). An
argument of the command line that is no good is looked at again forever (`wget65.c`:501).

Left out: the walk through candidates with the tab key, of which the model takes the result;
what a key writes behind the array (`InArray`, above); screen output; `malloc` and `strdup`
are assumed to succeed.

### Proofs

`WgetArgsProofs` proves all properties of the run: `EditedIsString == ArgsSpec =>
[]LineIsString`, `ArgumentIsIntact == ArgsSpec => []ArgIntact`, `NameIsProdos == ArgsSpec =>
[]NameIsValid`, `EditorIsImplemented == ArgsSpec => ImplementsLineEditor` and
`HistoryIsLoaded == ArgsSpec => HistoryComesBack`, for every buffer size, length of the
history and of names, keyboard, completion and history file. Nothing bounds keys and runs of
the program. What is assumed of the constants is named in `Linenoise` and `WgetArgs`:

* characters are not NUL, lines have room, the history holds an entry (`CharAssumption`,
  `LineAssumption`, `HistoryAssumption`), and `toupper` keeps letters letters and digits
  digits (`UpperAssumption`);
* what drives, directories and the list of URLs offer are strings (`CompletionAssumption`);
  they may be longer than the buffer, and the candidates made of them too;
* the arguments of the command line and the lines of the first history files fit the buffer
  (`StartAssumption`). Files that the program writes itself are shown to stay like that.

The invariant is `DialogueInv`. Its part about the editor, `LineInv`, says that `buf` is an
array with a NUL in it, which while a line is edited and its completions have been short
enough is first at `len` (`Ends`, `Editing`), that the cursor is not behind `len`, that the
entry shown exists, and that the history has lines that fit, at most as many as it holds: it
is given what is in the array, never what `len` says. Its part about the dialogue says where
an edit can be in progress (only at "edit": this is why `load_argument` and
`linenoiseHistorySave` cannot spoil a line), that an argument taken from the command line
exists, that `name` is a name, and `ArgIntact`, which needs the others.

The refinement has one lemma per key: `StartBegins`, `InsertTypes`, `MoveMoves`,
`DeleteDeletes`, `BackspaceDeletes`, `CompleteReplaces` and `LongCancels` for a completion
that fits and one that does not, `HistoryRecalls`, `EnterFinishes` and `CancelCancels`. Under
them are lemmas on what the text before and after the cursor is after a `memmove`
(`RemovedShown`) and after a `strncpy` that cuts (`CopyShown`), and on the history with its
last entry taken away. Everything the dialogue does besides leaves the abstract editor alone
or changes its list of lines only (`IdleLists`).

`linenoiseHistoryLoad` and the derived name are folds. The first section of the module shows
that a fold of the community modules is the last of a chain of values, each made of the one
before (`FoldExists`, `FoldSteps`), and gives this for the folds of the model (`AddedFold`,
`WriteFold`, `NameFold`). Then induction over a set of numbers (`Induction`) is enough:
`NameGrows` and `WholeType` say that what is collected of the URL is always a name,
`ShortenedIsName` that it still is when its middle is cut out; `AddedHolds` says that after
`i` lines of a file the history has the latest of these without repetitions, as
`Distinct` counts them (`DistinctIs`, `DistinctLast`), and `ShortRead` that a line shorter
than the buffer is read by one `fgets`.

## The file server

`Httpd.tla` is the server of the library, up to the handler: `pc` goes from `tcp_close` to
`tcp_listen` to the loop that collects the request until its first line is there, to
`http_parse_request`, to the handler, and from there to `httpd_send_response`, which puts
header and data into the buffer the request came in, and calls `tcp_send` whenever `$200`
bytes are together. `Hfs65.tla` is the handler: `HttpServer` decides what a path is,
`Send` collects the texts of a page in batches, `SendPiece` sends a file or image.
Requests come in any pieces, more may come while `tcp_send` polls, clients leave at any
time, a send may fail with its piece delivered or not.

A client of whose end nothing has been heard may go on when `tcp_close` has given up on it
(`ClientLingers`). `httpd_start` resets `tcp_buffer_ptr` and installs `http_callback` before
`tcp_listen` (92-98), which polls with that client's control block (`tcp.s`:172-182): what it
sends then goes to `io_buf` (`ListenHears`), its end makes `tcp_listen` return without a
connection (`ListenReturnsClosed`), and the next client's request is put behind what is in the
buffer. `late`, a variable that no guard looks at, says that this has happened to the client
being served; `AnswerIsWhole`, `AnswerIsPrefix` and `RequestIsHeard` except it. (Without that
TLC refutes them: the handler is called for a request that the client connected now has not
sent.) Two clients' words may be more than `io_buf` holds; what they overwrite then is left
out.

| run | asks | result |
|---|---|---|
| `hfs65` | a client whose connection has lasted has the whole answer to its request (`AnswerIsWhole`), and any client a beginning of it (`AnswerIsPrefix`); the next text always fits the batch (`BatchFits`); the handler gets the first line whatever the pieces, and the parser's buffer holds what it takes of it (`RequestIsHeard`); the server comes back to listen (`ServerReturns`); the inductive invariant of the proofs, with the types (`HfsInv`) | holds |

`AnswerIsWhole` compares with `Answer`, which says what the drives hold under a path and
knows nothing of batches, buffers and current directories, and nothing of `strrchr`: a path
is in a directory, under a name without a slash (`In`). In the same way `RequestAssumption`
says what a request means (`method`, `path`) by its first line, without the parser.
`VarSpace` is what `put_byte` writes to `var_buf` for a line at most.

Bounds: 5 words per transmission, a request buffer and a `var_buf` of 10, which the longest
first line fills (`VarSpace`), one kind of request whose client may go on (`Lingering`), a
batch of 16 with texts of up to 3; pages of one to three batches, files and an image of one
and two pieces, an empty file, a directory that cannot be read, missing paths, a path without
slash, other methods. A minute of 4 seconds and a timeout of 2. `clock` FALSE is the Apple
II, whose clock stands still.

Fairness: the processor goes on; where there is a clock it moves, and the loop passes at
least once per second (`Later`), because the timeout is compared for equality. A send
returns, which is `CallsReturn` of TCP. Without a clock a silent client holds the server;
`ServerReturns` excludes that.

True of the code and in the model: an empty file is answered by nothing at all; a read error
ends the response like the end of the file; what is behind an empty first line is parsed, and
depends on the pieces. Assumptions: a request fits `io_buf` with the NUL behind it (the
callback does not check); what the parser makes of its first line fits `var_buf`, which has
`$300` bytes to `io_buf`'s `$800` (`put_byte` does not check, `http.s`:165-170;
`VarAssumption`); after a method there is a space (a line that ends with the method leaves no
path, and `http_get_value`, by which `httpd_c.s` (24-28) fetches method and path for the
handler, then has none to give); and no escape in a query is cut short by its end. `&` and
`?` are one word. The conversions of the character set are left out. That a successful
`tcp_send` has delivered its piece is an assumption about TCP. It holds where
`SendDeliveredAfterOneSynAck` says so; where a repeated SYN has been answered with another
number (`tcp_listen_synack`), or a FIN inside `tcp_send` shifts the data (`tcp_half_close`),
the client gets less, and this model does not show it. A reset that follows a FIN is left
out.

### Proofs

`Hfs65Proofs` proves all safety properties of the run, `AnswerIsWhole`, `AnswerIsPrefix`,
`BatchFits` and `RequestIsHeard`, for all requests, drives, directories, files, texts and
sizes. Its assumptions are those named in `Httpd` and `Hfs65`: a request fits `io_buf` and
has a line end, its first line fits `var_buf`; a piece that is sent is at least two words, so
that there is room behind the header; and no text is as long as a quarter of the batch
buffer. The last is what `send()` relies on (it sends when less than a quarter is left) and
does not look at. The longest text (`hfs65.c`:147) is less than 80 characters with its
number, and the path and twice a name, against a quarter of 256; what `FILENAME_MAX` and the
systems allow is not modelled.

`HfsInv` is in `Hfs65Invariant`:

* `RequestInv`: what has arrived and what has not are a prefix and the rest of the request
  (`ComingInv`), the flag means that a line end is in it (`EolInv`), and what the handler
  hears is what was meant (`HeardInv`). That rests on `ParsedIsMeant`: on every prefix of a
  request that holds a line end the parser finds the method and path that the whole means; and
  on `VarFits`: of such a prefix it writes no more to `var_buf` than of the whole. Where
  `late` is set, what `RequestInv` and `AnswerInv` say of the client's own request is left open.
* `BatchInv`: at most three quarters of the batch buffer are in use between two calls of
  `send()`, the texts ahead are short, and when a page is done the buffer is empty.
* `BufferInv`: `io_buf` has room behind the header, and the last piece leaves nothing.
* `AnswerInv`, from which the properties follow: as long as the connection lasts, what the
  client has got, what `httpd_send_response` has still to send (`Buffered`), and what the
  handler has still to send (`Left`: the header, if none has been sent, the batch, and the
  texts or pieces ahead) make up the answer. Each step moves words from one to the next, by
  associativity; when all is sent, nothing but the answer is left.

That http_server goes where the answer comes from is `ServerAnswers`: the last slash
(`LastOf`) splits a path as `In` does, and joined again it is the path (`Rejoined`). Pages
and files are flattened sequences of sequences: `FlattenHead` and `FlattenPieces` are proved
by induction, for which `Induction` takes a set instead of a predicate, and rests on the
library's theorem on well-founded orders.

## What is only model-checked

* Liveness (`CallsReturn`, `ResolveReturns`, `ProgramReturns`, `ServerReturns`, `LoopsEnd`):
  TLAPS 1.4.5 does not do ENABLED.

Every other property of a passing run is stated by a theorem. Those on `tcp_send` are about
programs of one kind, clients or servers with one `tcp_listen`, and so are the runs.

## What is not modelled

* ICMP and SNTP: planned, see below. Both answer whoever asks last.
* TCP: a callback that calls `tcp_send` runs `ip65_process` inside `tcp_process`; a
  `tcp_listen` aborted after a SYN leaves a connection; `tcp_send_keep_alive` looks at no
  state.
* TFTP: load addresses, file sizes and the copy of blocks in memory.
* Checksums, header layout and buffers, where TCP and UDP are modelled; the variables of a
  query, which `hfs65` does not use, but for their space; `w5100_init`, which only finds the
  registers.
* tweet65, ifttt and date65: sequences of library calls, each of which ends the program if
  it fails. Nothing in them depends on an order of events.
* The chip drivers in `drivers/`, timers, input, VT100 and telnet, see the plan.
* Register-address files, character tables and fonts hold no behaviour.

## Plan

In order of importance; each item is a module with an instance, a run and its mutants, and
small runs will be merged where their instances allow.

1. `Icmp` and `Sntp`: listener tables and one-shot queries.
2. Pure algorithms, as functions: checksum, dotted quads, the parser of URLs, against
   reference definitions.
3. `Telnet`; the drivers' handshakes, the filtered input, VT100.
4. TCP: a callback that sends; an aborted `tcp_listen`.
