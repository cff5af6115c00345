-------------------------------- MODULE Dhcp --------------------------------
(***************************************************************************)
(* The DHCP client of ip65 (ip65/dhcp.s) on top of the listener table.     *)
(* dhcp_init is a polling loop of two phases, "poll" (ip65_process, at     *)
(* most one packet) and "check" (abort key, break flag, timer).            *)
(*                                                                         *)
(* The servers are external: each has one offer, made to any DISCOVER and  *)
(* repeated as its ACK of a REQUEST; the client cannot tell the two apart. *)
(* DISCOVER and REQUEST are broadcast, so sending them needs no ARP.       *)
(***************************************************************************)
EXTENDS UdpListeners, Arp

CONSTANTS
  DhcpServers,
  Offer,        \* what each server offers: ip, netmask, gateway
  MAX_DHCP_MESSAGES_SENT,
  MaxInits      \* bound: calls of dhcp_init

VARIABLES
  dhcp_state,
  dhcp_message_sent_count,
  dhcp_loop_count,
  dhcp_break_polling_loop,
  dhcp_ip, dhcp_server,
  dhcp_phase,      \* "idle", "poll" or "check"
  dhcp_result,     \* of the last call: "none", "ok", "error" or "aborted"
  dhcp_inits,      \* calls so far
  dhcp_discovered, \* TRUE once a DISCOVER has been sent
  dhcp_requests    \* REQUESTs sent: address and server

dhcpLoop == <<dhcp_message_sent_count, dhcp_loop_count>>
dhcpMsgs == <<dhcp_discovered, dhcp_requests>>
dhcpVars == <<dhcp_state, dhcpLoop, dhcp_break_polling_loop, dhcp_ip, dhcp_server,
              dhcp_phase, dhcp_result, dhcp_inits, dhcpMsgs>>

ASSUME OfferAssumption ==
  /\ DhcpServers \subseteq Wire
  /\ Offer \in [DhcpServers -> [ip : MyAddresses, netmask : Netmasks, gateway : Hosts]]
ASSUME DhcpBoundAssumption ==
  /\ MAX_DHCP_MESSAGES_SENT \in Nat /\ MAX_DHCP_MESSAGES_SENT > 2
  /\ MaxInits \in Nat /\ "dhcp_in" \in Callbacks

dhcp_initializing     == 1
dhcp_selecting        == 2
dhcp_ready_to_request == 3
dhcp_requesting       == 4
dhcp_bound            == 5

dhcp_client_port == [lo |-> 68, hi |-> 0]

DhcpInit ==
  /\ dhcp_state = 0
  /\ dhcp_message_sent_count = 0
  /\ dhcp_loop_count = 0
  /\ dhcp_break_polling_loop = 0
  /\ dhcp_ip = Zero
  /\ dhcp_server = Zero
  /\ dhcp_phase = "idle"
  /\ dhcp_result = "none"
  /\ dhcp_inits = 0
  /\ dhcp_discovered = FALSE
  /\ dhcp_requests = {}

\* send_dhcpdiscover. It is a broadcast, for which no ARP entry is needed: udp_send succeeds.
SendDiscover ==
  /\ dhcp_state' = dhcp_selecting
  /\ dhcp_discovered' = TRUE
  /\ UNCHANGED <<cfg_ip, dhcp_requests>>

\* Mutant: the address requested is not made the machine's own.
SendDhcpRequestOnly ==
  /\ dhcp_requests' = dhcp_requests \cup {[ip |-> dhcp_ip, server |-> dhcp_server]}
  /\ dhcp_state' = dhcp_bound
  /\ UNCHANGED <<cfg_ip, dhcp_discovered>>

\* send_dhcprequest, a broadcast too: bound as soon as it is sent.
SendDhcpRequest ==
  /\ dhcp_requests' = dhcp_requests \cup {[ip |-> dhcp_ip, server |-> dhcp_server]}
  /\ dhcp_state' = dhcp_bound
  /\ cfg_ip' = dhcp_ip
  /\ UNCHANGED dhcp_discovered

\* dhcp_init up to its polling loop.
CallDhcpInit ==
  /\ dhcp_phase = "idle"
  /\ dhcp_inits < MaxInits
  /\ dhcp_inits' = dhcp_inits + 1
  /\ cfg_ip' = Zero
  /\ IF CanAdd(dhcp_client_port)
     THEN /\ UdpAdd(dhcp_client_port, "dhcp_in")
          /\ dhcp_message_sent_count' = 0
          /\ dhcp_loop_count' = 1
          /\ dhcp_break_polling_loop' = 0
          /\ dhcp_state' = dhcp_selecting
          /\ dhcp_discovered' = TRUE
          /\ dhcp_phase' = "poll"
          /\ dhcp_result' = "none"
     ELSE /\ UdpAddFails(dhcp_client_port)
          /\ dhcp_state' = dhcp_initializing
          /\ dhcp_result' = "error"
          /\ UNCHANGED <<dhcpLoop, dhcp_break_polling_loop, dhcp_discovered, dhcp_phase>>
  /\ UNCHANGED <<cfg_netmask, cfg_gateway, gw, dhcp_ip, dhcp_server, dhcp_requests>>

----------------------------------------------------------------------------
(* The check phase.                                                        *)

DhcpCheck ==
  /\ dhcp_phase = "check"
  /\ UNCHANGED <<cfg_netmask, cfg_gateway, gw, dhcp_ip, dhcp_server, dhcp_inits>>

DhcpReturns(result) ==
  /\ dhcp_phase' = "idle"
  /\ dhcp_result' = result
  /\ UNCHANGED <<cfg_ip, dhcp_state, dhcp_loop_count, dhcp_break_polling_loop, dhcpMsgs>>

\* The listener stays installed.
DhcpAbort ==
  /\ DhcpCheck
  /\ DhcpReturns("aborted")
  /\ UNCHANGED <<udpVars, dhcp_message_sent_count>>

DhcpKeepPolling ==
  /\ DhcpCheck
  /\ dhcp_break_polling_loop = 0
  /\ dhcp_phase' = "poll"
  /\ UNCHANGED <<cfg_ip, udpVars, dhcp_state, dhcpLoop, dhcp_break_polling_loop, dhcp_result,
                 dhcpMsgs>>

DhcpTickDelay ==
  /\ DhcpCheck
  /\ dhcp_break_polling_loop = 0
  /\ dhcp_loop_count > 1
  /\ dhcp_loop_count' = dhcp_loop_count - 1
  /\ dhcp_phase' = "poll"
  /\ UNCHANGED <<cfg_ip, udpVars, dhcp_state, dhcp_message_sent_count,
                 dhcp_break_polling_loop, dhcp_result, dhcpMsgs>>

\* Mutant: one message more.
MessagesLeftOneMore == dhcp_message_sent_count' <= MAX_DHCP_MESSAGES_SENT - 1

\* The limit is looked at before the state: reaching it when bound is an error too.
MessagesLeft == dhcp_message_sent_count' < MAX_DHCP_MESSAGES_SENT - 1

\* @bound ends with the carry of udp_remove_listener.
Carry == IF Slots(dhcp_client_port) = {} THEN "error" ELSE "ok"

\* @break_polling_loop
DhcpBreak ==
  /\ DhcpCheck
  /\ dhcp_message_sent_count' = dhcp_message_sent_count + 1
  /\ \/ /\ ~MessagesLeft
        /\ UdpRemove(dhcp_client_port)
        /\ DhcpReturns("error")
     \/ /\ MessagesLeft
        /\ dhcp_state = dhcp_bound
        /\ UdpRemove(dhcp_client_port)
        /\ DhcpReturns(Carry)
     \/ /\ MessagesLeft
        /\ dhcp_state # dhcp_bound
        /\ IF dhcp_state = dhcp_ready_to_request THEN SendDhcpRequest ELSE SendDiscover
        /\ dhcp_loop_count' = dhcp_message_sent_count' + 1
        /\ dhcp_break_polling_loop' = 0
        /\ dhcp_phase' = "poll"
        /\ UNCHANGED <<udpVars, dhcp_result>>

DhcpAnswered   == dhcp_break_polling_loop = 1 /\ DhcpBreak
DhcpTickResend == dhcp_break_polling_loop = 0 /\ dhcp_loop_count = 1 /\ DhcpBreak

----------------------------------------------------------------------------
\* dhcp_in: neither xid, hardware address nor message type is compared, and in state
\* bound everything but cfg_ip is taken over as well.
DhcpIn(server) ==
  /\ dhcp_ip' = Offer[server].ip
  /\ dhcp_server' = server
  /\ cfg_netmask' = Offer[server].netmask
  /\ cfg_gateway' = Offer[server].gateway
  /\ CalculateGatewayMask
  /\ dhcp_state' = IF dhcp_state = dhcp_bound THEN dhcp_bound ELSE dhcp_ready_to_request
  /\ dhcp_break_polling_loop' = 1
  /\ UNCHANGED <<cfg_ip, dhcpLoop, dhcp_result, dhcp_inits, dhcpMsgs>>

\* Servers an offer or acknowledgement may come from.
Offering == IF dhcp_discovered THEN DhcpServers ELSE {}

DhcpTypeOK ==
  /\ dhcp_state \in 0 .. dhcp_bound
  /\ dhcp_message_sent_count \in 0 .. MAX_DHCP_MESSAGES_SENT - 1
  /\ dhcp_loop_count \in 0 .. MAX_DHCP_MESSAGES_SENT
  /\ dhcp_phase # "idle" => dhcp_loop_count > 0
  /\ dhcp_break_polling_loop \in {0, 1}
  /\ dhcp_ip \in MyAddresses \cup {Zero}
  /\ dhcp_server \in DhcpServers \cup {Zero}
  /\ dhcp_phase \in {"idle", "poll", "check"}
  /\ dhcp_result \in {"none", "ok", "error", "aborted"}
  /\ dhcp_inits \in 0 .. MaxInits
  /\ dhcp_discovered \in BOOLEAN
  /\ dhcp_requests \subseteq [ip : MyAddresses, server : DhcpServers]
=============================================================================
