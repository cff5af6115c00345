-------------------------------- MODULE Arp --------------------------------
(***************************************************************************)
(* The ARP resolver of ip65 (ip65/arp.s), which ip_send asks for the next  *)
(* hop of every packet, and the configuration it reads (ip65/config.s).    *)
(*                                                                         *)
(* A machine has one address, so an entry of the cache is written as its   *)
(* address. Time is abstracted: whether the 100 ms of a request are over   *)
(* is left open, which includes the wrap of the 16-bit clock.              *)
(*                                                                         *)
(* The machines that answer and ask are external to the repository. An ARP *)
(* reply may come at any time after the request, repeatedly, or never.     *)
(***************************************************************************)
EXTENDS Integers, Sequences

CONSTANTS
  Hosts,        \* addresses of the other machines
  Wire,         \* those on the same Ethernet
  Zero,         \* 0.0.0.0
  Broadcast,    \* 255.255.255.255
  MyAddresses,  \* addresses this machine may be given
  Netmasks,
  NetworkOf,    \* hosts on the network that a netmask and a gateway describe
  ac_size,
  Senders,      \* who may ask for our address; Zero if it is only probed
  MaxHeard      \* bound: requests for our address

VARIABLES
  cfg_ip, cfg_netmask, cfg_gateway,
  gw,           \* gw_mask, gw_test: netmask and gateway when last calculated
  arp_cache,    \* addresses in the slots used, the latest first
  arp_state,
  arp_asked,    \* addresses ever asked for on the wire
  heard         \* requests for our address so far

cfgVars == <<cfg_ip, cfg_netmask, cfg_gateway, gw>>
arpVars == <<arp_cache, arp_state, arp_asked, heard>>

ASSUME HostsAssumption ==
  /\ Wire \subseteq Hosts
  /\ Senders \subseteq Wire \cup {Zero}
  /\ {Zero, Broadcast} \cap (Hosts \cup MyAddresses) = {}
  /\ Hosts \cap MyAddresses = {}
ASSUME NetworkAssumption == NetworkOf \in [Netmasks -> [Hosts -> SUBSET Hosts]]
ASSUME ArpBoundAssumption == ac_size \in Nat \ {0} /\ MaxHeard \in Nat

arp_idle == 1
arp_wait == 2

\* The default configuration is some network's; arp_init clears the cache.
ArpInit ==
  /\ cfg_ip \in MyAddresses
  /\ cfg_netmask \in Netmasks
  /\ cfg_gateway \in Hosts
  /\ gw = [netmask |-> cfg_netmask, gateway |-> cfg_gateway]
  /\ arp_cache = <<>>
  /\ arp_state = arp_idle
  /\ arp_asked = {}
  /\ heard = 0

\* arp_calculate_gateway_mask also ends the wait for a reply.
CalculateGatewayMask ==
  /\ gw' = [netmask |-> cfg_netmask', gateway |-> cfg_gateway']
  /\ arp_state' = arp_idle

NextHop(ip) == IF ip \in NetworkOf[gw.netmask][gw.gateway] THEN ip ELSE cfg_gateway

\* Mutant: only the first entry is compared.
CachedOnTop(ip) == arp_cache # <<>> /\ arp_cache[1] = ip

\* findip stops at the first entry whose address begins with 0.
Cached(ip) ==
  \E i \in 1 .. Len(arp_cache) :
    arp_cache[i] = ip /\ \A j \in 1 .. i - 1 : arp_cache[j] # Zero

Resolved(ip) == ip = Broadcast \/ Cached(NextHop(ip))

\* @cachemiss: a request is sent unless one was sent less than 100 ms ago.
AskOnMiss(ip) ==
  \/ /\ arp_state' = arp_wait
     /\ arp_asked' = arp_asked \cup {NextHop(ip)}
  \/ /\ arp_state = arp_wait
     /\ UNCHANGED <<arp_state, arp_asked>>

ArpLookup(ip) ==
  /\ IF Resolved(ip) THEN UNCHANGED <<arp_state, arp_asked>> ELSE AskOnMiss(ip)
  /\ UNCHANGED <<arp_cache, heard>>

\* ac_add_source: on top of the others, without a search for an older entry.
AddSource(ip) ==
  LET entries == <<ip>> \o arp_cache
  IN arp_cache' = IF Len(entries) > ac_size THEN SubSeq(entries, 1, ac_size) ELSE entries

\* @request, for our address: the sender is added and answered.
ArpRequest(sender) ==
  /\ cfg_ip # Zero
  /\ heard < MaxHeard
  /\ heard' = heard + 1
  /\ AddSource(sender)
  /\ UNCHANGED <<arp_state, arp_asked>>

\* @reply: whoever it is from, the wait is over; without a wait it is a bad packet.
ArpReply(host) ==
  /\ IF arp_state = arp_wait
     THEN AddSource(host) /\ arp_state' = arp_idle
     ELSE UNCHANGED <<arp_cache, arp_state>>
  /\ UNCHANGED <<arp_asked, heard>>

ArpPacket ==
  \/ \E sender \in Senders : ArpRequest(sender)
  \/ \E host \in arp_asked \cap Wire : ArpReply(host)

ArpTypeOK ==
  /\ cfg_ip \in MyAddresses \cup {Zero}
  /\ cfg_netmask \in Netmasks
  /\ cfg_gateway \in Hosts
  /\ gw \in [netmask : Netmasks, gateway : Hosts]
  /\ arp_cache \in Seq(Wire \cup {Zero}) /\ Len(arp_cache) <= ac_size
  /\ arp_state \in {arp_idle, arp_wait}
  /\ arp_asked \subseteq Hosts
  /\ heard \in 0 .. MaxHeard
=============================================================================
