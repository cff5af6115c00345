------------------------------ MODULE Netboot ------------------------------
(***************************************************************************)
(* A program that gets its configuration by DHCP and then transfers files  *)
(* by TFTP, as test/tftp.s does: the modules Dhcp and Tftp on one listener *)
(* table and one ARP resolver, fed by one ip65_process.                    *)
(***************************************************************************)
EXTENDS Dhcp, Tftp

CONSTANT MaxCalls   \* bound: calls of both kinds

ASSUME MaxCalls \in Nat

vars == <<udpVars, cfgVars, arpVars, dhcpVars, tftpVars>>

Init == UdpInit /\ ArpInit /\ DhcpInit /\ TftpInit

----------------------------------------------------------------------------
(* ip65_process, called by the loop in progress.                           *)

Poll ==
  \/ /\ dhcp_phase = "poll" /\ dhcp_phase' = "check"
     /\ UNCHANGED tftp_phase
  \/ /\ tftp_phase = "poll" /\ tftp_phase' = "check"
     /\ UNCHANGED dhcp_phase

dhcpRest == <<dhcp_state, dhcpLoop, dhcp_break_polling_loop, dhcp_ip, dhcp_server, dhcp_result,
              dhcp_inits, dhcpMsgs>>
tftpRest == <<tftp_client_port, tftp_ip, tftp_state, tftpLoop, tftpXfer, tftp_outp, tftp_call,
              tftp_result, sent, sessions>>

NoPacketWaiting ==
  /\ Poll
  /\ UNCHANGED <<udpVars, cfgVars, arpVars, dhcpRest, tftpRest>>

ReceiveArp ==
  /\ Poll
  /\ ArpPacket
  /\ UNCHANGED <<udpVars, cfgVars, dhcpRest, tftpRest>>

ReceiveOffer ==
  /\ Poll
  /\ Handler(dhcp_client_port) = "dhcp_in"
  /\ \E server \in Offering : DhcpIn(server)
  /\ UNCHANGED <<udpVars, arp_cache, arp_asked, heard, tftpRest>>

\* checkaddr drops what is for another address.
ReceiveTftp ==
  /\ Poll
  /\ \E p \in Datagrams :
       /\ p.to.ip = cfg_ip
       /\ Handler(p.to.port) = "tftp_in"
       /\ TftpIn(p)
  /\ UNCHANGED <<udpVars, cfgVars, dhcpRest>>

----------------------------------------------------------------------------
Idle == dhcp_phase = "idle" /\ tftp_phase = "idle"

\* The program goes on when dhcp_init has reported no error, and tries again if not.
Call ==
  /\ Idle
  /\ dhcp_inits + tftp_client_port < MaxCalls
  /\ \/ /\ dhcp_result # "ok"
        /\ CallDhcpInit
        /\ UNCHANGED <<arpVars, tftpVars>>
     \/ /\ dhcp_result = "ok"
        /\ \E call \in {"download", "upload"} : \E ip \in TftpDests[call] : Transfer(call, ip)
        /\ UNCHANGED <<cfgVars, dhcpVars>>

\* What follows when the timer has not moved, when it has, and when the key is pressed.
Step(dhcp, tftp) ==
  \/ dhcp /\ UNCHANGED <<arpVars, tftpVars>>
  \/ tftp /\ UNCHANGED <<cfgVars, dhcpVars>>

CheckStep ==
  Step(DhcpKeepPolling \/ DhcpAnswered, StartLoop \/ TftpKeepPolling \/ BlockArrived)
TickStep ==
  Step(DhcpTickDelay \/ DhcpTickResend, TftpTickResend \/ TftpTickTimeout)
AbortStep == Step(DhcpAbort, TftpAbort)

PollStep == NoPacketWaiting \/ ReceiveArp \/ ReceiveOffer \/ ReceiveTftp

Next ==
  \/ Call
  \/ PollStep
  \/ CheckStep
  \/ TickStep
  \/ AbortStep
  \/ ServerStep /\ UNCHANGED <<cfgVars, dhcpVars>>

Spec == Init /\ [][Next]_vars

\* The loops run on (NoPacketWaiting is enabled whenever ip65_process is called), and
\* the timer's high byte moves again and again.
FairSpec == Spec /\ WF_vars(NoPacketWaiting) /\ WF_vars(CheckStep) /\ SF_vars(TickStep)

----------------------------------------------------------------------------
\* Types, and counters above zero while their loop runs.
NetTypeOK == UdpTypeOK /\ ArpTypeOK /\ DhcpTypeOK /\ TftpTypeOK

\* After dhcp_init the address is one this machine has requested from the server that
\* offered it, and all the rest is the offer of dhcp_server ("will be set to address of
\* server that provided configuration"): offers are taken over whole, however late.
AddressIsRequested ==
  dhcp_result = "ok" =>
    /\ \E r \in dhcp_requests : r.ip = cfg_ip
    /\ \A r \in dhcp_requests : r.ip = Offer[r.server].ip
    /\ cfg_netmask = Offer[dhcp_server].netmask
    /\ cfg_gateway = Offer[dhcp_server].gateway

\* The blocks of a download are given to the callback in order, each once, all from one
\* session of one server the request went to, whoever else answers a broadcast and
\* whatever comes late to an earlier transfer (tftp_in looks at the number of the block
\* only; "each transfer uses a different client port so we don't get confused").
BlocksInOrder ==
  \A i \in 1 .. Len(delivered) :
    /\ delivered[i].blk = i
    /\ delivered[i].from = delivered[1].from
    /\ Reaches(delivered[i].from.host, tftp_ip)

WholeFile == delivered # <<>> /\ Len(delivered) = FileLen[delivered[1].from.host]

\* A download that reports success has given all the blocks of the file, and one that
\* runs out of time has not -- unless the request was broadcast or the server's entry
\* has been pushed out of the ARP cache, by requests for our address or by a late reply
\* to an earlier transfer, or hidden: then the last block may stay without an
\* acknowledgement, and the request is repeated in vain (tftp.s, @not_complete).
Reachable ==
  /\ tftp_ip # Broadcast
  /\ heard < ac_size /\ arp_asked \subseteq {NextHop(tftp_ip)}
  /\ \A i \in 1 .. Len(arp_cache) : arp_cache[i] # Zero

DownloadReported ==
  produced = 0 =>
    /\ tftp_result = "ok" => WholeFile
    /\ tftp_result = "timeout" /\ Reachable => ~WholeFile

\* What a server stores are the blocks the callback gave, in order, each once; when
\* an upload reports success only the last may be missing, which is sent once.
UploadedButLast ==
  /\ \A s \in sessions : \A i \in 1 .. Len(s.stored) : s.stored[i] = i
  /\ tftp_result = "ok" /\ produced > 0 =>
       \E s \in sessions : s.client.port = MyPort /\ Len(s.stored) >= UploadLen - 1

\* dhcp_init and a transfer return, whatever is lost, late or repeated.
LoopsEnd == ~Idle ~> Idle
=============================================================================
