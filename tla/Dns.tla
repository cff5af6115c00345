-------------------------------- MODULE Dns --------------------------------
(***************************************************************************)
(* The DNS resolver of ip65 (ip65/dns.s) on top of the listener table, an  *)
(* application with UDP listeners of its own, a network that loses,        *)
(* duplicates and reorders datagrams, and a name server, which is external *)
(* to the repository: it answers a query from its zone, or not at all.     *)
(*                                                                         *)
(* dns_resolve is a polling loop of two phases, as the calls of module Tcp *)
(* are: "poll" (ip65_process, at most one datagram) and "check" (abort     *)
(* key, dns_state, timer).                                                 *)
(***************************************************************************)
EXTENDS UdpListeners

CONSTANTS
  Names,        \* host names that are looked up or that CNAMEs point to
  Quads,        \* names that are dotted quads
  HostAddress,  \* the address each name is to be resolved to
  Zone,         \* the server's first answer to a query for a name
  NoName, NoAddress,
  MaxResolves,  \* bound: calls of dns_resolve that send queries
  Carries,      \* what udp_send leaves in the carry: 0 sent, 1 ARP miss
  MAX_DNS_MESSAGES_SENT,
  MayAbort,     \* TRUE if the user may press the abort key
  AppPorts      \* ports the application listens on (udp_add_listener)

VARIABLES
  dns_client_port,         \* dns_client_port_high_byte
  dns_packed_hostname,
  dns_state,
  dns_message_sent_count,
  dns_loop_count,
  dns_break_polling_loop,
  dns_ip,
  call, phase,             \* "resolve" or "none"; "poll" or "check"
  asked,                   \* the name of the last dns_resolve
  outcome,                 \* its result: "none", "ok" or "error"
  queries, replies         \* datagrams ever sent to and by the server

loop    == <<dns_message_sent_count, dns_loop_count>>
dnsVars == <<dns_client_port, dns_packed_hostname, dns_state, loop,
             dns_break_polling_loop, dns_ip, call, phase, asked, outcome, queries, replies>>
vars    == <<udpVars, dnsVars>>

\* First answers of the server; "empty" stands for every response dns_in rejects.
Answer ==
  [type : {"A"}, ip : {HostAddress[n] : n \in Names \cup Quads}]
    \cup [type : {"CNAME"}, name : Names] \cup [type : {"error", "empty"}]

ASSUME NamesAssumption == Names \cap Quads = {} /\ NoName \notin Names \cup Quads
ASSUME ZoneAssumption ==
  /\ Zone \in [Names -> Answer]
  /\ \A n \in Names :
       /\ Zone[n].type = "A" => Zone[n].ip = HostAddress[n]
       /\ Zone[n].type = "CNAME" => HostAddress[Zone[n].name] = HostAddress[n]
ASSUME DnsBoundAssumption ==
  MaxResolves \in 0 .. 255 /\ MAX_DNS_MESSAGES_SENT \in Nat /\ MAX_DNS_MESSAGES_SENT > 1
ASSUME DnsChoiceAssumption ==
  {"dns_in", "app"} \subseteq Callbacks /\ Carries \subseteq {0, 1} /\ MayAbort \in BOOLEAN /\ AppPorts \subseteq Port

dns_initializing == 1
dns_query_sent   == 2
dns_complete     == 3
dns_failed       == 4

\* Each call uses another low byte; the high byte is 53.
ClientPort(n) == [lo |-> n, hi |-> 53]

----------------------------------------------------------------------------
\* send_dns_query: on an ARP miss nothing is sent and dns_state stays; callers do not
\* look at the error.
SendQuery(port, name, state, carry) ==
  /\ queries' = IF carry = 0 THEN queries \cup {[port |-> port, name |-> name]} ELSE queries
  /\ dns_state' = IF carry = 0 THEN dns_query_sent ELSE state

DnsInit ==
  /\ UdpInit
  /\ dns_client_port = 0
  /\ dns_packed_hostname = NoName
  /\ dns_state = 0
  /\ dns_message_sent_count = 0
  /\ dns_loop_count = 0
  /\ dns_break_polling_loop = 0
  /\ dns_ip = NoAddress
  /\ call = "none"
  /\ phase = "poll"
  /\ asked = NoName
  /\ outcome = "none"
  /\ queries = {}
  /\ replies = {}

\* dns_set_hostname of a dotted quad, then dns_resolve, which returns at once.
ResolveQuad(q) ==
  /\ call = "none"
  /\ dns_ip' = HostAddress[q]
  /\ asked' = q
  /\ outcome' = "ok"
  /\ UNCHANGED <<udpVars, dns_client_port, dns_packed_hostname, dns_state, loop,
                 dns_break_polling_loop, call, phase, queries, replies>>

\* Mutant: all calls use the same port.
NextClientPortSame == 1

NextClientPort == dns_client_port + 1

\* dns_set_hostname, then dns_resolve up to its polling loop. The first loop count
\* is computed with the carry the query left.
Resolve(name) ==
  /\ call = "none"
  /\ dns_client_port < MaxResolves
  /\ dns_packed_hostname' = name
  /\ asked' = name
  /\ dns_client_port' = NextClientPort
  /\ IF CanAdd(ClientPort(dns_client_port'))
     THEN /\ UdpAdd(ClientPort(dns_client_port'), "dns_in")
          /\ call' = "resolve"
          /\ outcome' = "none"
          /\ dns_message_sent_count' = 0
          /\ dns_break_polling_loop' = 0
          /\ \E carry \in Carries :
               /\ SendQuery(ClientPort(dns_client_port'), name, dns_initializing, carry)
               /\ dns_loop_count' = 1 + carry
     ELSE /\ UdpAddFails(ClientPort(dns_client_port'))
          /\ outcome' = "error"
          /\ UNCHANGED <<dns_state, loop, dns_break_polling_loop, call, queries>>
  /\ phase' = "poll"
  /\ UNCHANGED <<dns_ip, replies>>

----------------------------------------------------------------------------
(* The check phase of dns_resolve.                                         *)

Check ==
  /\ call = "resolve"
  /\ phase = "check"
  /\ UNCHANGED <<dns_client_port, dns_packed_hostname, dns_ip, asked, replies>>

\* The listener stays installed.
Abort ==
  /\ MayAbort
  /\ Check
  /\ call' = "none"
  /\ phase' = "poll"
  /\ outcome' = "error"
  /\ UNCHANGED <<udpVars, dns_state, loop, dns_break_polling_loop, queries>>

\* Mutant: only success removes the listener.
DoneOnSuccess(result) ==
  /\ call' = "none"
  /\ phase' = "poll"
  /\ outcome' = result
  /\ IF result = "ok" THEN UdpRemove(ClientPort(dns_client_port)) ELSE UNCHANGED udpVars

\* @done
Done(result) ==
  /\ call' = "none"
  /\ phase' = "poll"
  /\ outcome' = result
  /\ UdpRemove(ClientPort(dns_client_port))

Complete ==
  /\ Check
  /\ dns_state = dns_complete
  /\ Done("ok")
  /\ UNCHANGED <<dns_state, loop, dns_break_polling_loop, queries>>

Failed ==
  /\ Check
  /\ dns_state = dns_failed
  /\ Done("error")
  /\ UNCHANGED <<dns_state, loop, dns_break_polling_loop, queries>>

Unanswered ==
  /\ Check
  /\ dns_state \notin {dns_complete, dns_failed}

\* The high byte of the timer has not moved.
KeepPolling ==
  /\ Unanswered
  /\ dns_break_polling_loop = 0
  /\ phase' = "poll"
  /\ UNCHANGED <<udpVars, dns_state, loop, dns_break_polling_loop, call, outcome, queries>>

\* It has.
TickDelay ==
  /\ Unanswered
  /\ dns_break_polling_loop = 0
  /\ dns_loop_count > 1
  /\ dns_loop_count' = dns_loop_count - 1
  /\ phase' = "poll"
  /\ UNCHANGED <<udpVars, dns_state, dns_message_sent_count, dns_break_polling_loop, call,
                 outcome, queries>>

\* Mutant: following a CNAME is not counted.
CountCnameFree ==
  IF dns_break_polling_loop = 1 THEN dns_message_sent_count ELSE dns_message_sent_count + 1

CountOfQuery == dns_message_sent_count + 1

\* Mutant: one query too many.
QueriesLeftOneMore == dns_message_sent_count' <= MAX_DNS_MESSAGES_SENT - 1

QueriesLeft == dns_message_sent_count' < MAX_DNS_MESSAGES_SENT - 1

\* @break_polling_loop: a CNAME was received, or the last tick has passed. The query
\* is sent before the count is compared: nobody waits for the answer to the last one.
Resend ==
  /\ Unanswered
  /\ dns_message_sent_count' = CountOfQuery
  /\ \E carry \in Carries :
       SendQuery(ClientPort(dns_client_port), dns_packed_hostname, dns_state, carry)
  /\ IF QueriesLeft
     THEN /\ dns_loop_count' = dns_message_sent_count' + 1
          /\ dns_break_polling_loop' = 0
          /\ phase' = "poll"
          /\ UNCHANGED <<udpVars, call, outcome>>
     ELSE /\ Done("error")
          /\ UNCHANGED <<dns_loop_count, dns_break_polling_loop>>

FollowCname == dns_break_polling_loop = 1 /\ Resend
TickResend  == dns_break_polling_loop = 0 /\ dns_loop_count = 1 /\ Resend

----------------------------------------------------------------------------
(* The poll phase, and ip65_process called by the application.             *)

Poll ==
  /\ phase = "poll"
  /\ phase' = IF call = "none" THEN "poll" ELSE "check"
  /\ UNCHANGED <<udpVars, dns_client_port, loop, call, asked, outcome, queries, replies>>

NoDatagram ==
  /\ call = "resolve"
  /\ Poll
  /\ UNCHANGED <<dns_packed_hostname, dns_state, dns_break_polling_loop, dns_ip>>

\* dns_in: neither the identifier nor the question is compared with the query.
DnsIn(answer) ==
  \/ /\ answer.type = "error"
     /\ dns_state' = dns_failed
     /\ UNCHANGED <<dns_packed_hostname, dns_break_polling_loop, dns_ip>>
  \/ /\ answer.type = "empty"
     /\ UNCHANGED <<dns_state, dns_packed_hostname, dns_break_polling_loop, dns_ip>>
  \/ /\ answer.type = "CNAME"
     /\ dns_packed_hostname' = answer.name
     /\ dns_break_polling_loop' = 1
     /\ UNCHANGED <<dns_state, dns_ip>>
  \/ /\ answer.type = "A"
     /\ dns_ip' = answer.ip
     /\ dns_state' = dns_complete
     /\ dns_break_polling_loop' = 1
     /\ UNCHANGED dns_packed_hostname

\* A datagram for a port of ip65: to dns_in, to the application, or dropped.
Receive(p) ==
  /\ Poll
  /\ IF Handler(p.port) = "dns_in"
     THEN DnsIn(p.answer)
     ELSE UNCHANGED <<dns_packed_hostname, dns_state, dns_break_polling_loop, dns_ip>>

----------------------------------------------------------------------------
(* The application's own listeners, and the name server.                   *)

AppListen(port) ==
  /\ call = "none"
  /\ UdpAdd(port, "app")
  /\ UNCHANGED dnsVars

AppUnlisten(port) ==
  /\ call = "none"
  /\ UdpRemove(port)
  /\ UNCHANGED dnsVars

ServerAnswers(q) ==
  /\ replies' = replies \cup {[port |-> q.port, answer |-> Zone[q.name]]}
  /\ UNCHANGED <<udpVars, dns_client_port, dns_packed_hostname, dns_state, loop,
                 dns_break_polling_loop, dns_ip, call, phase, asked, outcome, queries>>

----------------------------------------------------------------------------
DnsNext ==
  \/ \E name \in Names : Resolve(name)
  \/ \E q \in Quads : ResolveQuad(q)
  \/ Abort
  \/ Complete
  \/ Failed
  \/ KeepPolling
  \/ TickDelay
  \/ FollowCname
  \/ TickResend
  \/ NoDatagram
  \/ \E p \in replies : Receive(p)
  \/ \E port \in AppPorts : AppListen(port) \/ AppUnlisten(port)
  \/ \E q \in queries : ServerAnswers(q)

DnsSpec == DnsInit /\ [][DnsNext]_vars

\* The polling loop runs on, and the timer's high byte moves again and again.
PollStep == NoDatagram \/ (call = "resolve" /\ \E p \in replies : Receive(p))
CheckStep == Complete \/ Failed \/ KeepPolling \/ FollowCname
TickStep == TickDelay \/ TickResend

DnsFairSpec ==
  DnsSpec /\ WF_vars(PollStep) /\ WF_vars(CheckStep) /\ SF_vars(TickStep)

----------------------------------------------------------------------------
\* Types, and counters that are inside their limits while a call is in progress.
DnsTypeOK ==
  /\ UdpTypeOK
  /\ dns_client_port \in 0 .. MaxResolves
  /\ dns_packed_hostname \in Names \cup {NoName}
  /\ dns_state \in 0 .. dns_failed
  /\ dns_message_sent_count \in 0 .. MAX_DNS_MESSAGES_SENT - 1
  /\ dns_loop_count \in 0 .. MAX_DNS_MESSAGES_SENT
  /\ call = "resolve" =>
       /\ dns_message_sent_count < MAX_DNS_MESSAGES_SENT - 1
       /\ dns_loop_count > 0
       /\ asked \in Names /\ dns_packed_hostname \in Names
  /\ dns_break_polling_loop \in {0, 1}
  /\ dns_ip \in {HostAddress[n] : n \in Names \cup Quads} \cup {NoAddress}
  /\ call \in {"none", "resolve"}
  /\ phase \in {"poll", "check"}
  /\ asked \in Names \cup Quads \cup {NoName}
  /\ outcome \in {"none", "ok", "error"}
  /\ queries \subseteq [port : Port, name : Names]
  /\ replies \subseteq [port : Port, answer : Answer]

\* When dns_resolve succeeds dns_ip is the address of the name asked for, not of an
\* earlier call's ("each call to resolve uses a different client address so we don't
\* get confused by late replies to a previous call").
ResolvedIsAsked ==
  call = "resolve" /\ dns_state = dns_complete => dns_ip = HostAddress[asked]

\* The same while the listener of the call is the only one in the table.
ResolvedIsAskedAlone == udp_cbcount = 1 => ResolvedIsAsked

\* The strengthening of ResolvedIsAskedAlone that every step preserves: no query or
\* answer comes from a port not yet used, and those of the call in progress are about
\* the name asked for or an alias of it.
ResolverInv ==
  /\ \A d \in queries \cup replies : d.port.lo <= dns_client_port
  /\ call = "resolve" /\ udp_cbcount = 1 =>
       /\ listeners[1].lo = dns_client_port
       /\ HostAddress[dns_packed_hostname] = HostAddress[asked]
       /\ \A q \in queries : q.port.lo = dns_client_port =>
            HostAddress[q.name] = HostAddress[asked]
       /\ \A p \in replies : p.port.lo = dns_client_port =>
            /\ p.answer.type = "A" => p.answer.ip = HostAddress[asked]
            /\ p.answer.type = "CNAME" => HostAddress[p.answer.name] = HostAddress[asked]
       /\ dns_state = dns_complete => dns_ip = HostAddress[asked]

\* dns_resolve leaves the table as it found it, unless it is aborted (dns_resolve
\* @done), when it found it empty.
ListenerReleased ==
  [][call = "resolve" /\ call' = "none" /\ udp_cbcount = 1 =>
       listeners' = <<>> \/ Abort]_vars

\* dns_resolve returns, whatever is lost or repeated and however CNAMEs are chained
\* (dns_message_sent_count counts them all).
ResolveReturns == (call = "resolve") ~> (call = "none")
=============================================================================
