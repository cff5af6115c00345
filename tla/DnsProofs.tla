----------------------------- MODULE DnsProofs -----------------------------
(***************************************************************************)
(* Proofs about the resolver: types, and two results for a call whose      *)
(* listener is the only one in the table: dns_resolve succeeds with the    *)
(* address of the name it was asked for, and releases the listener.        *)
(***************************************************************************)
EXTENDS Dns, WellFoundedInduction, SequenceTheorems, TLAPS

----------------------------------------------------------------------------
(* The listener table.                                                     *)

\* A non-empty set of slots has a last one.
LEMMA LastExists ==
  ASSUME NEW n \in Nat, NEW S \in SUBSET (1 .. n), S # {}
  PROVE  \E y \in S : \A z \in S : z <= y
<1>1. \A y \in S : y \in 1 .. n
  OBVIOUS
<1> DEFINE T == {n - y : y \in S}
<1>2. T \subseteq Nat
  <2> SUFFICES ASSUME NEW y \in S
               PROVE  n - y \in Nat
    OBVIOUS
  <2> QED
    BY <1>1
<1>3. T # {}
  OBVIOUS
<1> HIDE DEF T
<1>4. \E x \in T : \A y \in T : ~ (<<y, x>> \in OpToRel(<, Nat))
  BY <1>2, <1>3, NatLessThanWellFounded, WFMin
<1>5. PICK x \in T : \A y \in T : ~ (y < x)
  BY <1>2, <1>4 DEF OpToRel
<1>6. PICK last \in S : x = n - last
  BY DEF T
<1>7. ASSUME NEW z \in S PROVE z <= last
  <2>1. n - z \in T
    BY DEF T
  <2>2. ~ (n - z < n - last)
    BY <1>5, <1>6, <2>1
  <2> QED
    BY <1>1, <2>2
<1> QED
  BY <1>7

\* The search finds a slot of the port.
LEMMA LastSlotFound ==
  ASSUME UdpTypeOK, NEW port, Slots(port) # {}
  PROVE  LastSlot(port) \in Slots(port)
<1>1. udp_cbcount \in Nat
  BY DEF UdpTypeOK, udp_cbcount
<1>2. Slots(port) \in SUBSET (1 .. udp_cbcount)
  BY DEF Slots
<1> QED
  BY <1>1, <1>2, LastExists DEF LastSlot

\* Adding and removing a listener keeps the table well formed.
LEMMA AddType ==
  ASSUME UdpTypeOK, NEW port \in Port, NEW vec \in Callbacks, UdpAdd(port, vec)
  PROVE  UdpTypeOK'
<1>1. StoredLow(port) \in Byte
  <2>1. CASE udp_cbcount = 0
    BY <2>1 DEF StoredLow, Port
  <2>2. CASE udp_cbcount # 0
    <3>1. listeners[udp_cbcount] \in Listener
      BY <2>2 DEF UdpTypeOK, udp_cbcount
    <3> QED
      BY <2>2, <3>1 DEF StoredLow, Listener
  <2> QED
    BY <2>1, <2>2
<1>2. [lo |-> StoredLow(port), hi |-> port.hi, vec |-> vec] \in Listener
  BY <1>1 DEF Listener, Port
<1>3. listeners' \in Seq(Listener) /\ Len(listeners') = Len(listeners) + 1
  BY <1>2, AppendProperties DEF UdpAdd, UdpTypeOK
<1>4. udp_cbcount' <= udp_cbmax
  BY <1>3, CbMaxAssumption DEF UdpAdd, CanAdd, udp_cbcount, UdpTypeOK
<1>5. installed' \subseteq [port : Port, vec : Callbacks]
  BY DEF UdpAdd, UdpTypeOK
<1> QED
  BY <1>3, <1>4, <1>5 DEF UdpTypeOK

\* Removing a listener closes the gap it leaves.
LEMMA RemoveType ==
  ASSUME UdpTypeOK, NEW port \in Port, UdpRemove(port)
  PROVE  UdpTypeOK' /\ udp_cbcount' <= udp_cbcount
<1>1. installed' \subseteq [port : Port, vec : Callbacks]
  BY DEF UdpRemove, UdpTypeOK
<1>2. CASE Slots(port) = {}
  BY <1>1, <1>2 DEF UdpRemove, UdpTypeOK, udp_cbcount
<1>3. CASE Slots(port) # {}
  <2> DEFINE y == LastSlot(port)
             low == SubSeq(listeners, 1, y - 1)
             high == SubSeq(listeners, y + 1, udp_cbcount)
  <2>1. y \in 1 .. udp_cbcount /\ udp_cbcount \in Nat /\ listeners \in Seq(Listener)
    BY <1>3, LastSlotFound DEF Slots, UdpTypeOK, udp_cbcount
  <2>2. low \in Seq(Listener) /\ Len(low) = y - 1
    BY <2>1, SubSeqProperties DEF udp_cbcount
  <2>3. high \in Seq(Listener) /\ Len(high) = udp_cbcount - y
    BY <2>1, SubSeqProperties DEF udp_cbcount
  <2>4. listeners' = low \o high
    BY <1>3 DEF UdpRemove, Remaining
  <2> HIDE DEF low, high, y
  <2>5. listeners' \in Seq(Listener) /\ Len(listeners') = udp_cbcount - 1
    <3>1. low \o high \in Seq(Listener) /\ Len(low \o high) = Len(low) + Len(high)
      BY <2>2, <2>3, ConcatProperties
    <3> HIDE DEF udp_cbcount
    <3> QED
      BY <2>1, <2>2, <2>3, <2>4, <3>1
  <2> QED
    BY <1>1, <2>1, <2>5, CbMaxAssumption DEF UdpTypeOK, udp_cbcount
<1> QED
  BY <1>2, <1>3

\* A listener that is alone in the table after it was added was added to an empty one.
LEMMA OnlyListener ==
  ASSUME UdpTypeOK, NEW port, NEW vec, UdpAdd(port, vec), udp_cbcount' = 1
  PROVE  /\ udp_cbcount = 0
         /\ listeners' = <<[lo |-> StoredLow(port), hi |-> port.hi, vec |-> vec]>>
<1> DEFINE added == [lo |-> StoredLow(port), hi |-> port.hi, vec |-> vec]
<1>1. listeners \in Seq(Listener)
  BY DEF UdpTypeOK
<1>2. listeners' = Append(listeners, added) /\ Len(listeners') = 1
  BY DEF UdpAdd, udp_cbcount
<1> HIDE DEF added
<1>3. Len(listeners) = 0
  BY <1>1, <1>2
<1>4. listeners' = <<added>>
  BY <1>1, <1>2, <1>3
<1> USE DEF added
<1> QED
  BY <1>3, <1>4 DEF udp_cbcount

\* Removing the only listener, found by its port, leaves an empty table.
LEMMA OnlyRemoved ==
  ASSUME UdpTypeOK, NEW port, udp_cbcount = 1,
         listeners[1].lo = port.lo, listeners[1].hi = port.hi, UdpRemove(port)
  PROVE  listeners' = <<>>
<1>1. listeners \in Seq(Listener) /\ Len(listeners) = 1
  BY DEF UdpTypeOK, udp_cbcount
<1>2. Slots(port) = {1}
  BY DEF Slots
<1>3. LastSlot(port) = 1
  BY <1>2, LastSlotFound
<1>4. listeners' = SubSeq(listeners, 1, 0) \o SubSeq(listeners, 2, 1)
  BY <1>2, <1>3 DEF UdpRemove, Remaining
<1>5. SubSeq(listeners, 1, 0) = <<>> /\ SubSeq(listeners, 2, 1) = <<>>
  BY <1>1
<1> QED
  BY <1>4, <1>5

----------------------------------------------------------------------------
(* Types.                                                                  *)

\* The types, without the listener table and the datagrams.
ResolverTypeOK ==
  /\ dns_client_port \in 0 .. MaxResolves
  /\ dns_packed_hostname \in Names \cup {NoName}
  /\ dns_state \in 0 .. dns_failed
  /\ dns_message_sent_count \in 0 .. MAX_DNS_MESSAGES_SENT - 1
  /\ dns_loop_count \in 0 .. MAX_DNS_MESSAGES_SENT
  /\ call = "resolve" =>
       /\ dns_message_sent_count < MAX_DNS_MESSAGES_SENT - 1
       /\ dns_loop_count > 0
       /\ asked \in Names /\ dns_packed_hostname \in Names
  /\ dns_break_polling_loop \in {0, 1}
  /\ dns_ip \in {HostAddress[n] : n \in Names \cup Quads} \cup {NoAddress}
  /\ call \in {"none", "resolve"}
  /\ phase \in {"poll", "check"}
  /\ asked \in Names \cup Quads \cup {NoName}
  /\ outcome \in {"none", "ok", "error"}

DatagramsOK ==
  queries \subseteq [port : Port, name : Names] /\ replies \subseteq [port : Port, answer : Answer]

\* DnsTypeOK is the conjunction of three parts, proved one by one.
LEMMA TypeParts == DnsTypeOK <=> UdpTypeOK /\ ResolverTypeOK /\ DatagramsOK
  BY DEF DnsTypeOK, ResolverTypeOK, DatagramsOK

\* The client port is a port.
LEMMA ClientPortType ==
  ASSUME NEW n \in 0 .. MaxResolves
  PROVE  ClientPort(n) \in Port
  BY DnsBoundAssumption DEF ClientPort, Port, Byte

\* The initial state is well typed.
LEMMA InitType == DnsInit => DnsTypeOK
<1> SUFFICES ASSUME DnsInit PROVE UdpTypeOK /\ ResolverTypeOK /\ DatagramsOK
  BY TypeParts
<1>1. UdpTypeOK
  BY CbMaxAssumption DEF DnsInit, UdpInit, UdpTypeOK, udp_cbcount
<1>2. ResolverTypeOK
  BY DnsBoundAssumption DEF DnsInit, ResolverTypeOK, dns_failed
<1>3. DatagramsOK
  BY DEF DnsInit, DatagramsOK
<1> QED
  BY <1>1, <1>2, <1>3

\* Each kind of step keeps the listener table well formed.
LEMMA UdpTypeStep ==
  ASSUME DnsTypeOK, DnsNext
  PROVE  UdpTypeOK'
<1>1. CASE UNCHANGED udpVars
  BY <1>1, TypeParts DEF udpVars, UdpTypeOK, udp_cbcount
<1>2. ASSUME NEW name \in Names, Resolve(name) PROVE UdpTypeOK'
  <2>1. CASE UdpAdd(ClientPort(dns_client_port'), "dns_in")
    <3>1. ClientPort(dns_client_port') \in Port
      BY <1>2, TypeParts, ClientPortType, DnsBoundAssumption DEF Resolve, ResolverTypeOK, NextClientPort
    <3> QED
      BY <2>1, <3>1, TypeParts, AddType, DnsChoiceAssumption
  <2> QED
    BY <1>1, <1>2, <2>1 DEF Resolve, UdpAddFails
<1>3. ASSUME NEW result, Done(result) PROVE UdpTypeOK'
  BY <1>3, TypeParts, ClientPortType, RemoveType DEF Done, ResolverTypeOK
<1>4. ASSUME NEW port \in AppPorts, AppListen(port) \/ AppUnlisten(port) PROVE UdpTypeOK'
  BY <1>4, TypeParts, AddType, RemoveType, DnsChoiceAssumption DEF AppListen, AppUnlisten
<1> QED
  BY <1>1, <1>2, <1>3, <1>4 DEF DnsNext, ResolveQuad, Abort, Complete, Failed, KeepPolling,
    TickDelay, FollowCname, TickResend, Resend, NoDatagram, Receive, Poll, ServerAnswers

\* Each kind of step keeps the resolver's own types and counters.
LEMMA ResolverTypeStep ==
  ASSUME DnsTypeOK, DnsNext
  PROVE  ResolverTypeOK'
<1> USE TypeParts, DnsBoundAssumption DEF ResolverTypeOK
<1>1. ASSUME NEW name \in Names, Resolve(name) PROVE ResolverTypeOK'
  BY <1>1, DnsChoiceAssumption DEF Resolve, NextClientPort, SendQuery, dns_initializing,
    dns_query_sent, dns_failed, loop
<1>2. ASSUME NEW q \in Quads, ResolveQuad(q) PROVE ResolverTypeOK'
  BY <1>2 DEF ResolveQuad, loop
<1>3. CASE Abort \/ Complete \/ Failed
  BY <1>3 DEF Abort, Complete, Failed, Check, Done, loop
<1>4. CASE KeepPolling \/ TickDelay
  BY <1>4 DEF KeepPolling, TickDelay, Unanswered, Check, loop
<1>5. CASE Resend
  BY <1>5 DEF Resend, Unanswered, Check, QueriesLeft, CountOfQuery, SendQuery, Done,
    dns_query_sent, dns_failed
<1>6. CASE NoDatagram
  BY <1>6 DEF NoDatagram, Poll, loop
<1>7. ASSUME NEW p \in replies, Receive(p) PROVE ResolverTypeOK'
  <2>1. p.answer \in Answer
    BY DEF DatagramsOK
  <2>2. CASE DnsIn(p.answer)
    BY <1>7, <2>1, <2>2 DEF Receive, Poll, DnsIn, Answer, loop, dns_failed, dns_complete
  <2> QED
    BY <1>7, <2>2 DEF Receive, Poll, loop
<1>8. CASE UNCHANGED dnsVars
  BY <1>8 DEF dnsVars, loop
<1>9. ASSUME NEW q \in queries, ServerAnswers(q) PROVE ResolverTypeOK'
  BY <1>9 DEF ServerAnswers, loop
<1> QED
  BY <1>1, <1>2, <1>3, <1>4, <1>5, <1>6, <1>7, <1>8, <1>9 DEF DnsNext, FollowCname,
    TickResend, AppListen, AppUnlisten

\* Each kind of step keeps the datagrams well typed.
LEMMA DatagramsStep ==
  ASSUME DnsTypeOK, DnsNext
  PROVE  DatagramsOK'
<1> USE TypeParts DEF DatagramsOK
<1>1. CASE UNCHANGED <<queries, replies>>
  BY <1>1
<1>2. ASSUME NEW name \in Names, Resolve(name) PROVE DatagramsOK'
  <2>1. ClientPort(dns_client_port') \in Port
    BY <1>2, ClientPortType, DnsBoundAssumption DEF Resolve, ResolverTypeOK, NextClientPort
  <2> QED
    BY <1>2, <2>1 DEF Resolve, SendQuery
<1>3. CASE Resend
  BY <1>3, ClientPortType, NamesAssumption DEF Resend, Unanswered, Check, SendQuery, ResolverTypeOK
<1>4. ASSUME NEW q \in queries, ServerAnswers(q) PROVE DatagramsOK'
  BY <1>4, ZoneAssumption DEF ServerAnswers
<1> QED
  BY <1>1, <1>2, <1>3, <1>4 DEF DnsNext, ResolveQuad, Abort, Complete, Failed, Check,
    KeepPolling, TickDelay, Unanswered, FollowCname, TickResend, NoDatagram, Receive, Poll,
    AppListen, AppUnlisten, dnsVars

\* Every reachable state of the resolver is well typed, and its query counter and
\* loop counter are inside their limits while dns_resolve is polling.
THEOREM DnsTypeCorrect == DnsSpec => []DnsTypeOK
<1>1. DnsTypeOK /\ [DnsNext]_vars => DnsTypeOK'
  <2> SUFFICES ASSUME DnsTypeOK, [DnsNext]_vars
               PROVE  DnsTypeOK'
    OBVIOUS
  <2>1. CASE DnsNext
    <3>1. UdpTypeOK' /\ ResolverTypeOK' /\ DatagramsOK'
      BY <2>1, UdpTypeStep, ResolverTypeStep, DatagramsStep
    <3> QED
      BY <3>1 DEF DnsTypeOK, ResolverTypeOK, DatagramsOK
  <2>2. CASE UNCHANGED vars
    BY <2>2 DEF vars, udpVars, dnsVars, loop, DnsTypeOK, UdpTypeOK, udp_cbcount
  <2> QED
    BY <2>1, <2>2
<1> QED
  BY InitType, <1>1, PTL DEF DnsSpec

----------------------------------------------------------------------------
(* An answer that is accepted is about the name asked for.                 *)

\* The two parts of ResolverInv.
PortsUsed == \A d \in queries \cup replies : d.port.lo <= dns_client_port

AboutAsked ==
  /\ listeners[1].lo = dns_client_port
  /\ HostAddress[dns_packed_hostname] = HostAddress[asked]
  /\ \A q \in queries : q.port.lo = dns_client_port =>
       HostAddress[q.name] = HostAddress[asked]
  /\ \A p \in replies : p.port.lo = dns_client_port =>
       /\ p.answer.type = "A" => p.answer.ip = HostAddress[asked]
       /\ p.answer.type = "CNAME" => HostAddress[p.answer.name] = HostAddress[asked]
  /\ dns_state = dns_complete => dns_ip = HostAddress[asked]

\* ResolverInv is the conjunction of the two.
LEMMA InvParts ==
  ResolverInv <=> PortsUsed /\ (call = "resolve" /\ udp_cbcount = 1 => AboutAsked)
  BY DEF ResolverInv, PortsUsed, AboutAsked

\* Datagrams carry the port of a call that has been made.
LEMMA PortsStep ==
  ASSUME DnsTypeOK, PortsUsed, DnsNext
  PROVE  PortsUsed'
<1> USE DEF PortsUsed
<1>1. CASE UNCHANGED <<queries, replies, dns_client_port>>
  BY <1>1
<1>2. ASSUME NEW name \in Names, Resolve(name) PROVE PortsUsed'
  <2>1. dns_client_port \in Nat /\ dns_client_port' = dns_client_port + 1
    BY <1>2, TypeParts, DnsBoundAssumption DEF Resolve, ResolverTypeOK, NextClientPort
  <2>2. \A d \in queries \cup replies : d.port.lo \in Nat
    BY TypeParts DEF DatagramsOK, Port, Byte
  <2>3. replies' = replies
    BY <1>2 DEF Resolve
  <2>4. queries' \subseteq queries \cup {[port |-> ClientPort(dns_client_port'), name |-> name]}
    BY <1>2 DEF Resolve, SendQuery
  <2>5. ClientPort(dns_client_port').lo = dns_client_port'
    BY DEF ClientPort
  <2> QED
    BY <2>1, <2>2, <2>3, <2>4, <2>5
<1>3. CASE Resend
  <2>1. queries' \subseteq queries \cup
          {[port |-> ClientPort(dns_client_port), name |-> dns_packed_hostname]}
    BY <1>3 DEF Resend, SendQuery
  <2>2. ClientPort(dns_client_port).lo = dns_client_port
    BY DEF ClientPort
  <2>3. dns_client_port \in Nat /\ UNCHANGED <<replies, dns_client_port>>
    BY <1>3, TypeParts, DnsBoundAssumption DEF Resend, Unanswered, Check, ResolverTypeOK
  <2> QED
    BY <2>1, <2>2, <2>3
<1>4. ASSUME NEW q \in queries, ServerAnswers(q) PROVE PortsUsed'
  BY <1>4 DEF ServerAnswers
<1> QED
  BY <1>1, <1>2, <1>3, <1>4 DEF DnsNext, ResolveQuad, Abort, Complete, Failed, Check,
    KeepPolling, TickDelay, Unanswered, FollowCname, TickResend, NoDatagram, Receive, Poll,
    AppListen, AppUnlisten, dnsVars

\* A new call: its port is its own, and in an empty table the stored byte is right.
LEMMA AboutResolve ==
  ASSUME DnsTypeOK, PortsUsed, NEW name \in Names, Resolve(name),
         call' = "resolve", udp_cbcount' = 1
  PROVE  AboutAsked'
<1> DEFINE port == ClientPort(dns_client_port')
<1>1. UdpAdd(port, "dns_in")
  BY DEF Resolve
<1>2. udp_cbcount = 0 /\ listeners' = <<[lo |-> StoredLow(port), hi |-> port.hi, vec |-> "dns_in"]>>
  BY <1>1, OnlyListener DEF DnsTypeOK
<1>3. listeners'[1].lo = dns_client_port'
  BY <1>2 DEF StoredLow, ClientPort
<1>4. dns_client_port \in Nat /\ dns_client_port' = dns_client_port + 1
  BY TypeParts, DnsBoundAssumption DEF Resolve, ResolverTypeOK, NextClientPort
<1>5. \A d \in queries \cup replies : d.port.lo # dns_client_port'
  <2>1. \A d \in queries \cup replies : d.port.lo \in Nat
    BY TypeParts DEF DatagramsOK, Port, Byte
  <2> QED
    BY <1>4, <2>1 DEF PortsUsed
<1>6. dns_packed_hostname' = name /\ asked' = name /\ replies' = replies
  BY DEF Resolve
<1>7. queries' \subseteq queries \cup {[port |-> port, name |-> name]}
  BY DEF Resolve, SendQuery
<1>8. dns_state' # dns_complete
  BY <1>1 DEF Resolve, UdpAdd, SendQuery, dns_initializing, dns_query_sent, dns_complete
<1> QED
  BY <1>3, <1>5, <1>6, <1>7, <1>8 DEF AboutAsked

\* A datagram that reaches dns_in through the only listener is for the port of the call.
LEMMA AboutReceive ==
  ASSUME DnsTypeOK, AboutAsked, udp_cbcount = 1, NEW p \in replies, Receive(p)
  PROVE  AboutAsked'
<1>1. UNCHANGED <<listeners, dns_client_port, asked, queries, replies>>
  BY DEF Receive, Poll, udpVars
<1>2. CASE Handler(p.port) = "dns_in"
  <2>1. Slots(p.port) # {}
    BY <1>2 DEF Handler
  <2>2. LastSlot(p.port) \in Slots(p.port)
    BY <2>1, TypeParts, LastSlotFound
  <2>3. p.port.lo = dns_client_port
    BY <2>2 DEF Slots, AboutAsked
  <2>4. DnsIn(p.answer)
    BY <1>2 DEF Receive
  <2> QED
    BY <1>1, <2>3, <2>4 DEF AboutAsked, DnsIn, dns_failed, dns_complete
<1>3. CASE Handler(p.port) # "dns_in"
  BY <1>1, <1>3 DEF Receive, AboutAsked
<1> QED
  BY <1>2, <1>3

\* The other steps of a call, and the server.
LEMMA AboutStep ==
  ASSUME DnsTypeOK, ResolverInv, DnsNext, call' = "resolve", udp_cbcount' = 1
  PROVE  AboutAsked'
<1>1. ASSUME NEW name \in Names, Resolve(name) PROVE AboutAsked'
  BY <1>1, AboutResolve, InvParts
<1>2. ASSUME UNCHANGED <<udpVars, call>> PROVE AboutAsked /\ call = "resolve" /\ udp_cbcount = 1
  BY <1>2, InvParts DEF udpVars, udp_cbcount
<1>3. ASSUME KeepPolling \/ TickDelay \/ NoDatagram PROVE AboutAsked'
  BY <1>2, <1>3 DEF KeepPolling, TickDelay, Unanswered, Check, NoDatagram, Poll, AboutAsked, udpVars
<1>4. ASSUME Resend PROVE AboutAsked'
  <2>1. UNCHANGED <<udpVars, call>>
    BY <1>4 DEF Resend, Done
  <2>2. UNCHANGED <<listeners, dns_client_port, dns_packed_hostname, dns_ip, asked, replies>>
    BY <1>4, <2>1 DEF Resend, Unanswered, Check, udpVars
  <2>3. queries' \subseteq queries \cup
          {[port |-> ClientPort(dns_client_port), name |-> dns_packed_hostname]}
    BY <1>4 DEF Resend, SendQuery
  <2>4. dns_state' # dns_complete
    BY <1>4 DEF Resend, Unanswered, SendQuery, dns_query_sent, dns_complete
  <2> QED
    BY <1>2, <2>1, <2>2, <2>3, <2>4 DEF AboutAsked
<1>5. ASSUME NEW p \in replies, Receive(p) PROVE AboutAsked'
  <2>1. UNCHANGED <<udpVars, call>>
    BY <1>5 DEF Receive, Poll
  <2> QED
    BY <1>2, <1>5, <2>1, AboutReceive
<1>6. ASSUME NEW q \in queries, ServerAnswers(q) PROVE AboutAsked'
  <2>1. UNCHANGED <<udpVars, call>>
    BY <1>6 DEF ServerAnswers
  <2>2. q.name \in Names
    BY TypeParts DEF DatagramsOK
  <2> QED
    BY <1>2, <1>6, <2>1, <2>2, ZoneAssumption DEF ServerAnswers, AboutAsked, udpVars
<1> QED
  BY <1>1, <1>3, <1>4, <1>5, <1>6 DEF DnsNext, ResolveQuad, Abort, Complete, Failed, Done,
    FollowCname, TickResend, AppListen, AppUnlisten, dnsVars

\* No datagram comes from a port not yet used, and while the resolver's listener is
\* the only one, all that its port can receive is about the name asked for.
THEOREM ResolverInvariant == DnsSpec => []ResolverInv
<1>1. DnsInit => ResolverInv
  BY DEF DnsInit, ResolverInv
<1>2. DnsTypeOK /\ ResolverInv /\ [DnsNext]_vars => ResolverInv'
  <2> SUFFICES ASSUME DnsTypeOK, ResolverInv, [DnsNext]_vars
               PROVE  ResolverInv'
    OBVIOUS
  <2>1. CASE DnsNext
    <3>1. PortsUsed'
      BY <2>1, PortsStep, InvParts
    <3>2. call' = "resolve" /\ udp_cbcount' = 1 => AboutAsked'
      BY <2>1, AboutStep
    <3> QED
      BY <3>1, <3>2 DEF ResolverInv, PortsUsed, AboutAsked
  <2>2. CASE UNCHANGED vars
    BY <2>2 DEF vars, udpVars, dnsVars, ResolverInv, udp_cbcount
  <2> QED
    BY <2>1, <2>2
<1> QED
  BY <1>1, <1>2, DnsTypeCorrect, PTL DEF DnsSpec

\* dns_resolve succeeds with the address of the name it was asked for, never with a
\* late answer to an earlier call, as long as its listener is the only one.
THEOREM AnswerIsOwn == DnsSpec => []ResolvedIsAskedAlone
<1>1. ResolverInv => ResolvedIsAskedAlone
  BY DEF ResolverInv, ResolvedIsAskedAlone, ResolvedIsAsked
<1> QED
  BY <1>1, ResolverInvariant, PTL

----------------------------------------------------------------------------
(* The listener of the call is released.                                   *)

\* With the low byte that ResolverInv gives: the only listener of the table is for
\* the port of the call in progress.
HighByteOwn == call = "resolve" /\ udp_cbcount = 1 => listeners[1].hi = 53

\* A call adds its listener with that high byte, and keeps the table until it returns.
LEMMA HighByteStep ==
  ASSUME DnsTypeOK, HighByteOwn, DnsNext
  PROVE  HighByteOwn'
<1> SUFFICES ASSUME call' = "resolve", udp_cbcount' = 1
             PROVE  listeners'[1].hi = 53
  BY DEF HighByteOwn
<1>1. ASSUME NEW name \in Names, Resolve(name) PROVE listeners'[1].hi = 53
  <2> DEFINE port == ClientPort(dns_client_port')
  <2>1. CASE UdpAdd(port, "dns_in")
    <3>1. listeners' = <<[lo |-> StoredLow(port), hi |-> port.hi, vec |-> "dns_in"]>>
      BY <2>1, OnlyListener DEF DnsTypeOK
    <3> QED
      BY <3>1 DEF ClientPort
  <2>2. UdpAdd(port, "dns_in")
    BY <1>1 DEF Resolve
  <2> QED
    BY <2>1, <2>2
<1>2. ASSUME UNCHANGED <<udpVars, call>> PROVE listeners'[1].hi = 53
  BY <1>2 DEF udpVars, udp_cbcount, HighByteOwn
<1>3. ASSUME Resend PROVE listeners'[1].hi = 53
  BY <1>2, <1>3 DEF Resend, Done
<1> QED
  BY <1>1, <1>2, <1>3 DEF DnsNext, ResolveQuad, Abort, Complete, Failed, Done, KeepPolling,
    TickDelay, FollowCname, TickResend, NoDatagram, Receive, Poll, ServerAnswers, AppListen,
    AppUnlisten, dnsVars

\* dns_resolve takes its listener out of the table on every way out of its polling
\* loop but the abort key, if the table held no other.
THEOREM ListenerIsReleased == DnsSpec => ListenerReleased
<1>1. DnsInit => HighByteOwn
  BY DEF DnsInit, HighByteOwn
<1>2. DnsTypeOK /\ HighByteOwn /\ [DnsNext]_vars => HighByteOwn'
  <2>1. CASE UNCHANGED vars
    BY <2>1 DEF vars, udpVars, dnsVars, HighByteOwn, udp_cbcount
  <2> QED
    BY <2>1, HighByteStep
<1>3. DnsTypeOK /\ ResolverInv /\ HighByteOwn /\ [DnsNext]_vars =>
        [call = "resolve" /\ call' = "none" /\ udp_cbcount = 1 =>
           listeners' = <<>> \/ Abort]_vars
  <2> SUFFICES ASSUME DnsTypeOK, ResolverInv, HighByteOwn, DnsNext,
                      call = "resolve", call' = "none", udp_cbcount = 1, ~ Abort
               PROVE  listeners' = <<>>
    OBVIOUS
  <2>1. PICK result : Done(result) /\ UNCHANGED dns_client_port
    BY DEF DnsNext, Resolve, ResolveQuad, Complete, Failed, KeepPolling, TickDelay, Check,
      Unanswered, FollowCname, TickResend, Resend, NoDatagram, Receive, Poll, ServerAnswers,
      AppListen, AppUnlisten
  <2>2. listeners[1].lo = dns_client_port /\ listeners[1].hi = 53
    BY DEF ResolverInv, HighByteOwn
  <2>3. UdpRemove(ClientPort(dns_client_port))
    BY <2>1 DEF Done
  <2> QED
    BY <2>2, <2>3, OnlyRemoved DEF ClientPort, DnsTypeOK
<1> QED
  BY <1>1, <1>2, <1>3, DnsTypeCorrect, ResolverInvariant, PTL DEF DnsSpec, ListenerReleased
=============================================================================
