--------------------------- MODULE NetbootProofs ---------------------------
(***************************************************************************)
(* Proofs about configuration and transfers: that NetInv is invariant, and *)
(* with it every safety property of Netboot, for all sets of hosts,        *)
(* networks, offers, files and bounds, as long as no file has more than    *)
(* 255 blocks (ShortFiles); what is about the configuration, for all.      *)
(***************************************************************************)
EXTENDS NetbootInvariant, SequenceTheorems, TLAPS

----------------------------------------------------------------------------
(* The steps, one by one.                                                  *)

CallDhcp ==
  /\ Idle /\ dhcp_result # "ok"
  /\ CallDhcpInit
  /\ UNCHANGED <<arpVars, tftpVars>>

CallTransfer(call, ip) ==
  /\ Idle /\ dhcp_result = "ok"
  /\ Transfer(call, ip)
  /\ UNCHANGED <<cfgVars, dhcpVars>>

DhcpMove ==
  /\ DhcpKeepPolling \/ DhcpAnswered \/ DhcpTickDelay \/ DhcpTickResend \/ DhcpAbort
  /\ UNCHANGED <<arpVars, tftpVars>>

TftpMove ==
  /\ \/ StartLoop \/ TftpKeepPolling \/ BlockArrived
     \/ TftpTickResend \/ TftpTickTimeout \/ TftpAbort
  /\ UNCHANGED <<cfgVars, dhcpVars>>

ServerMove == ServerStep /\ UNCHANGED <<cfgVars, dhcpVars>>

\* Next is one of these steps and the four of PollStep.
LEMMA Moves ==
  ASSUME Next
  PROVE  \/ CallDhcp
         \/ \E call \in {"download", "upload"} : \E ip \in TftpDests[call] : CallTransfer(call, ip)
         \/ NoPacketWaiting
         \/ ReceiveArp
         \/ ReceiveOffer
         \/ ReceiveTftp
         \/ DhcpMove
         \/ TftpMove
         \/ ServerMove
<1>1. CASE Call
  BY <1>1 DEF Call, CallDhcp, CallTransfer
<1>2. CASE PollStep
  BY <1>2 DEF PollStep
<1>3. CASE CheckStep \/ TickStep \/ AbortStep
  BY <1>3, Zenon DEF CheckStep, TickStep, AbortStep, Step, DhcpMove, TftpMove
<1>4. CASE ServerStep /\ UNCHANGED <<cfgVars, dhcpVars>>
  BY <1>4 DEF ServerMove
<1> QED
  BY <1>1, <1>2, <1>3, <1>4 DEF Next

----------------------------------------------------------------------------
(* The table of at most one listener.                                      *)

\* Whoever gets a datagram is the one listener of the table, under its port.
LEMMA OneSlot ==
  ASSUME NEW l, listeners = <<l>>, NEW port, Handler(port) # "drop"
  PROVE  l.lo = port.lo /\ l.hi = port.hi /\ Handler(port) = l.vec
<1>1. Slots(port) # {}
  BY DEF Handler
<1>2. Slots(port) = {1} /\ l.lo = port.lo /\ l.hi = port.hi
  BY <1>1 DEF Slots, udp_cbcount
<1>3. LastSlot(port) = 1
  BY <1>2 DEF LastSlot
<1> QED
  BY <1>1, <1>2, <1>3 DEF Handler

\* Nobody gets a datagram when the table is empty.
LEMMA NoSlot ==
  ASSUME listeners = <<>>, NEW port
  PROVE  Slots(port) = {} /\ Handler(port) = "drop"
<1>1. Slots(port) = {}
  BY DEF Slots, udp_cbcount
<1> QED
  BY <1>1 DEF Handler

\* Removing the one listener empties the table.
LEMMA RemoveOne ==
  ASSUME NEW l, listeners = <<l>>, NEW port, l.lo = port.lo, l.hi = port.hi, UdpRemove(port)
  PROVE  listeners' = <<>>
<1>1. Slots(port) = {1}
  BY DEF Slots, udp_cbcount
<1>2. LastSlot(port) = 1
  BY <1>1 DEF LastSlot
<1>3. Remaining(1) = <<>>
  <2>1. SubSeq(listeners, 1, 0) = <<>> /\ SubSeq(listeners, 2, 1) = <<>>
    BY SubSeqEmpty
  <2> QED
    BY <2>1 DEF Remaining, udp_cbcount
<1> QED
  BY <1>1, <1>2, <1>3 DEF UdpRemove

\* Adding to the empty table.
LEMMA AddOne ==
  ASSUME listeners = <<>>, NEW port, NEW vec, UdpAdd(port, vec)
  PROVE  listeners' = <<[lo |-> port.lo, hi |-> port.hi, vec |-> vec]>>
<1>1. StoredLow(port) = port.lo
  BY DEF StoredLow, udp_cbcount
<1> QED
  BY <1>1 DEF UdpAdd

\* The ports are ports.
LEMMA Ports ==
  ASSUME tftp_client_port \in 0 .. MaxTransfers
  PROVE  dhcp_client_port \in Port /\ MyPort \in Port
BY TftpAssumption DEF dhcp_client_port, MyPort, Port69, Port, Byte

\* A table of none or one of the two listeners is well formed.
LEMMA ShortTable ==
  ASSUME NEW n \in Byte, NEW l,
         \/ l = <<>> \/ l = <<DhcpSlot>>
         \/ l = <<[lo |-> n, hi |-> 105, vec |-> "tftp_in"]>>
  PROVE  l \in Seq(Listener) /\ Len(l) <= udp_cbmax
<1>1. DhcpSlot \in Listener /\ [lo |-> n, hi |-> 105, vec |-> "tftp_in"] \in Listener
  BY DhcpBoundAssumption, TftpAssumption DEF DhcpSlot, Listener, Byte
<1>2. \A r \in Listener : <<r>> \in Seq(Listener) /\ Len(<<r>>) = 1
  OBVIOUS
<1>3. CASE l = <<>>
  BY <1>3, EmptySeq, CbMaxAssumption
<1>4. CASE l # <<>>
  <2>1. PICK r \in Listener : l = <<r>>
    BY <1>1, <1>4, Zenon
  <2> QED
    BY <1>2, <2>1, CbMaxAssumption
<1> QED
  BY <1>3, <1>4

\* What a step of the TFTP loop leaves alone, and that it polls or returns.
LEMMA TftpMoveShape ==
  ASSUME TftpMove
  PROVE  /\ tftp_phase \in {"start", "check"}
         /\ UNCHANGED <<cfgVars, dhcpVars, tftp_client_port, tftp_ip, tftpXfer, sessions,
                        arp_cache, heard>>
         /\ \/ tftp_phase' = "poll" /\ UNCHANGED <<udpVars, tftp_call, tftp_result>>
            \/ \E result \in {"ok", "error", "aborted", "rejected", "timeout"} : ExitLoop(result)
<1>1. ASSUME Outer
      PROVE  /\ UNCHANGED <<tftp_client_port, tftp_ip, tftpXfer, sessions, arp_cache, heard>>
             /\ \/ tftp_phase' = "poll" /\ UNCHANGED <<udpVars, tftp_call, tftp_result>>
                \/ \E result \in {"ok", "error", "rejected"} : ExitLoop(result)
  <2>1. CASE OuterRequest
    BY <1>1, <2>1 DEF Outer, OuterRequest, SendTftpRequest, Put, ArpLookup, Loop
  <2>2. CASE OuterResend
    BY <1>1, <2>2 DEF Outer, OuterResend, SendTftpPacket, Put, ArpLookup, Loop
  <2>3. CASE OuterError
    BY <1>1, <2>3 DEF Outer, OuterError, arpVars
  <2>4. CASE OuterComplete
    BY <1>1, <2>4 DEF Outer, OuterComplete, SendTftpPacket, Put, ArpLookup
  <2>5. CASE OuterUnacknowledged
    BY <1>1, <2>5 DEF Outer, OuterUnacknowledged, Loop
  <2> QED
    BY <1>1, <2>1, <2>2, <2>3, <2>4, <2>5 DEF Outer
<1>2. CASE StartLoop
  BY <1>1, <1>2 DEF TftpMove, StartLoop
<1>3. CASE BlockArrived \/ TftpTickResend
  BY <1>1, <1>3 DEF TftpMove, BlockArrived, TftpTickResend, TftpTick, TftpCheck
<1>4. CASE TftpKeepPolling
  BY <1>4 DEF TftpMove, TftpKeepPolling, TftpCheck, arpVars
<1>5. CASE TftpTickTimeout
  BY <1>5 DEF TftpMove, TftpTickTimeout, TftpTick, TftpCheck, ExitWithError, arpVars
<1>6. CASE TftpAbort
  BY <1>6 DEF TftpMove, TftpAbort, TftpCheck, ExitWithError, arpVars
<1> QED
  BY <1>2, <1>3, <1>4, <1>5, <1>6 DEF TftpMove

----------------------------------------------------------------------------
(* The loops and their listeners.                                          *)

\* What a poll does to the phases.
LEMMA PollShape ==
  ASSUME Poll
  PROVE  \/ dhcp_phase = "poll" /\ dhcp_phase' = "check" /\ tftp_phase' = tftp_phase
         \/ tftp_phase = "poll" /\ tftp_phase' = "check" /\ dhcp_phase' = dhcp_phase
BY DEF Poll

\* Only dhcp_init hears the servers of DHCP.
LEMMA OfferHeard ==
  ASSUME DhcpInv, ReceiveOffer
  PROVE  dhcp_phase = "poll" /\ dhcp_phase' = "check" /\ tftp_phase' = tftp_phase
<1>1. \/ dhcp_phase = "poll" /\ dhcp_phase' = "check" /\ tftp_phase' = tftp_phase
      \/ tftp_phase = "poll"
  BY PollShape DEF ReceiveOffer
<1>2. ASSUME tftp_phase = "poll" PROVE FALSE
  <2>1. listeners = <<TftpSlot>>
    BY <1>2 DEF DhcpInv, OneListener
  <2>2. Handler(dhcp_client_port) = "dhcp_in" /\ "dhcp_in" # "drop"
    BY DEF ReceiveOffer
  <2>3. TftpSlot.lo = dhcp_client_port.lo /\ TftpSlot.hi = dhcp_client_port.hi
    BY <2>1, <2>2, OneSlot
  <2> QED
    BY <2>3 DEF TftpSlot, dhcp_client_port
<1> QED
  BY <1>1, <1>2

\* Only a transfer hears the servers of TFTP, on its own port.
LEMMA BlockHeard ==
  ASSUME DhcpInv, ReceiveTftp
  PROVE  /\ tftp_phase = "poll" /\ tftp_phase' = "check" /\ dhcp_phase' = dhcp_phase
         /\ \E p \in Datagrams : p.to.port.lo = MyPort.lo /\ p.to.port.hi = MyPort.hi /\ TftpIn(p)
<1>1. PICK p \in Datagrams : Handler(p.to.port) = "tftp_in" /\ TftpIn(p)
  BY DEF ReceiveTftp
<1>2. \/ tftp_phase = "poll" /\ tftp_phase' = "check" /\ dhcp_phase' = dhcp_phase
      \/ dhcp_phase = "poll"
  BY PollShape DEF ReceiveTftp
<1>3. ASSUME dhcp_phase = "poll" PROVE FALSE
  <2>1. listeners = <<DhcpSlot>>
    BY <1>3 DEF DhcpInv, OneListener
  <2>2. Handler(p.to.port) = DhcpSlot.vec
    BY <1>1, <2>1, OneSlot
  <2> QED
    BY <1>1, <2>2 DEF DhcpSlot
<1>4. tftp_phase = "poll"
  BY <1>2, <1>3
<1>5. listeners = <<TftpSlot>>
  BY <1>4 DEF DhcpInv, OneListener
<1>6. TftpSlot.lo = p.to.port.lo /\ TftpSlot.hi = p.to.port.hi
  BY <1>1, <1>5, OneSlot
<1> QED
  BY <1>1, <1>2, <1>3, <1>6 DEF TftpSlot, MyPort, Port69

\* A step of the DHCP loop polls on or returns, and then, unless aborted, without listener.
LEMMA DhcpMoveShape ==
  ASSUME DhcpInv, DhcpMove
  PROVE  /\ dhcp_phase = "check" /\ dhcp_result = "none" /\ listeners = <<DhcpSlot>>
         /\ UNCHANGED <<arpVars, tftpVars, cfg_netmask, cfg_gateway, gw, dhcp_ip, dhcp_server,
                        dhcp_inits>>
         /\ \/ /\ dhcp_phase' = "poll" /\ UNCHANGED <<udpVars, dhcp_result>>
               /\ dhcp_message_sent_count' < MAX_DHCP_MESSAGES_SENT - 1
            \/ /\ dhcp_phase' = "idle" /\ dhcp_result' = "aborted" /\ UNCHANGED udpVars
            \/ /\ dhcp_phase' = "idle" /\ dhcp_result' \in {"ok", "error"}
               /\ UdpRemove(dhcp_client_port) /\ listeners' = <<>>
<1>1. dhcp_phase = "check"
  BY DEF DhcpMove, DhcpKeepPolling, DhcpAnswered, DhcpTickDelay, DhcpTickResend, DhcpAbort,
         DhcpBreak, DhcpCheck
<1>2. /\ dhcp_result = "none" /\ listeners = <<DhcpSlot>>
      /\ dhcp_message_sent_count < MAX_DHCP_MESSAGES_SENT - 1
  BY <1>1 DEF DhcpInv, OneListener, FirstDhcp
<1>3. UNCHANGED <<arpVars, tftpVars, cfg_netmask, cfg_gateway, gw, dhcp_ip, dhcp_server,
                  dhcp_inits>>
  BY DEF DhcpMove, DhcpKeepPolling, DhcpAnswered, DhcpTickDelay, DhcpTickResend, DhcpAbort,
         DhcpBreak, DhcpCheck
<1>4. CASE DhcpKeepPolling \/ DhcpTickDelay
  BY <1>1, <1>2, <1>3, <1>4 DEF DhcpKeepPolling, DhcpTickDelay, dhcpLoop
<1>5. CASE DhcpAbort
  BY <1>1, <1>2, <1>3, <1>5 DEF DhcpAbort, DhcpReturns
<1>6. CASE DhcpBreak
  <2>1. ASSUME UdpRemove(dhcp_client_port) PROVE listeners' = <<>>
    BY <1>2, <2>1, RemoveOne DEF DhcpSlot, dhcp_client_port
  <2> QED
    BY <1>1, <1>2, <1>3, <1>6, <2>1 DEF DhcpBreak, DhcpReturns, MessagesLeft, Carry
<1> QED
  BY <1>4, <1>5, <1>6 DEF DhcpMove, DhcpAnswered, DhcpTickResend

\* The loops take turns, each with its listener.
LEMMA OneListenerStep ==
  ASSUME DhcpInv, Next
  PROVE  OneListener' /\ FirstDhcp'
<1> USE DEF Idle
<1>1. OneListener /\ FirstDhcp /\ tftp_client_port \in Nat /\ dhcp_message_sent_count \in Nat
  BY DhcpBoundAssumption DEF DhcpInv, NetTypeOK, TftpTypeOK, DhcpTypeOK
<1>2. CASE CallDhcp
  <2>1. tftp_client_port = 0 /\ tftp_phase = "idle"
    BY <1>1, <1>2 DEF CallDhcp, FirstDhcp
  <2>2. CASE CanAdd(dhcp_client_port)
    <3>1. listeners # <<DhcpSlot>>
      <4>1. ASSUME listeners = <<DhcpSlot>> PROVE 1 \in Slots(dhcp_client_port)
        BY <4>1 DEF Slots, udp_cbcount, DhcpSlot, dhcp_client_port
      <4> QED
        BY <2>2, <4>1 DEF CanAdd
    <3>2. listeners = <<>>
      BY <1>1, <1>2, <3>1 DEF CallDhcp, OneListener
    <3>3. UdpAdd(dhcp_client_port, "dhcp_in") /\ dhcp_phase' = "poll" /\ dhcp_result' = "none"
          /\ dhcp_message_sent_count' = 0 /\ UNCHANGED tftpVars
      BY <1>2, <2>2 DEF CallDhcp, CallDhcpInit
    <3>4. listeners' = <<DhcpSlot>>
      BY <3>2, <3>3, AddOne DEF DhcpSlot, dhcp_client_port
    <3> QED
      BY <1>1, <2>1, <3>3, <3>4, DhcpBoundAssumption DEF OneListener, FirstDhcp, tftpVars, DhcpSlot
  <2>3. CASE ~ CanAdd(dhcp_client_port)
    <3>1. UNCHANGED udpVars /\ UNCHANGED dhcp_phase /\ dhcp_result' = "error" /\ UNCHANGED tftpVars
      BY <1>2, <2>3 DEF CallDhcp, CallDhcpInit, UdpAddFails
    <3> QED
      BY <1>1, <1>2, <2>1, <3>1 DEF OneListener, FirstDhcp, tftpVars, udpVars, DhcpSlot, CallDhcp
  <2> QED
    BY <2>2, <2>3
<1>3. ASSUME NEW call, NEW ip, CallTransfer(call, ip) PROVE OneListener' /\ FirstDhcp'
  <2>1. listeners = <<>> /\ UNCHANGED dhcpVars /\ dhcp_result = "ok" /\ dhcp_phase = "idle"
    BY <1>1, <1>3 DEF CallTransfer, OneListener
  <2>2. tftp_client_port' = tftp_client_port + 1 /\ Port69(tftp_client_port') = MyPort'
    BY <1>3 DEF CallTransfer, Transfer, MyPort
  <2>3. CanAdd(Port69(tftp_client_port'))
    BY <2>1, NoSlot, CbMaxAssumption DEF CanAdd, udp_cbcount
  <2>4. /\ UdpAdd(Port69(tftp_client_port'), "tftp_in") /\ tftp_phase' = "start"
        /\ tftp_result' = "none"
    BY <1>3, <2>3 DEF CallTransfer, Transfer
  <2>5. listeners' = <<[lo |-> Port69(tftp_client_port').lo, hi |-> Port69(tftp_client_port').hi,
                        vec |-> "tftp_in"]>>
    BY <2>1, <2>4, AddOne
  <2> QED
    BY <1>1, <2>1, <2>2, <2>4, <2>5 DEF OneListener, FirstDhcp, dhcpVars, TftpSlot, Port69
<1>4. CASE NoPacketWaiting \/ ReceiveArp
  <2>1. /\ UNCHANGED <<udpVars, dhcpRest, tftpRest>>
        /\ \/ dhcp_phase = "poll" /\ dhcp_phase' = "check" /\ tftp_phase' = tftp_phase
           \/ tftp_phase = "poll" /\ tftp_phase' = "check" /\ dhcp_phase' = dhcp_phase
    BY <1>4, PollShape DEF NoPacketWaiting, ReceiveArp
  <2> QED
    BY <1>1, <2>1 DEF OneListener, FirstDhcp, dhcpRest, tftpRest, dhcpLoop, udpVars, DhcpSlot, TftpSlot
<1>5. CASE ReceiveOffer
  <2>1. dhcp_phase = "poll" /\ dhcp_phase' = "check" /\ tftp_phase' = tftp_phase
    BY <1>5, OfferHeard
  <2>2. UNCHANGED <<udpVars, dhcpLoop, dhcp_result, tftpRest>>
    BY <1>5 DEF ReceiveOffer, DhcpIn
  <2> QED
    BY <1>1, <2>1, <2>2 DEF OneListener, FirstDhcp, tftpRest, dhcpLoop, udpVars, DhcpSlot, TftpSlot
<1>6. CASE ReceiveTftp
  <2>1. tftp_phase = "poll" /\ tftp_phase' = "check" /\ dhcp_phase' = dhcp_phase
    BY <1>6, BlockHeard
  <2>2. UNCHANGED <<udpVars, dhcpRest, tftp_client_port, tftp_result>>
    BY <1>6 DEF ReceiveTftp, TftpIn
  <2> QED
    BY <1>1, <2>1, <2>2 DEF OneListener, FirstDhcp, dhcpRest, dhcpLoop, udpVars, DhcpSlot, TftpSlot
<1>7. CASE DhcpMove
  <2>1. UNCHANGED tftpVars /\ dhcp_result = "none" /\ dhcp_phase = "check" /\ listeners = <<DhcpSlot>>
    BY <1>7, DhcpMoveShape
  <2>2. tftp_client_port = 0 /\ tftp_phase = "idle"
    BY <1>1, <2>1 DEF FirstDhcp
  <2>3. \/ /\ dhcp_phase' = "poll" /\ UNCHANGED <<udpVars, dhcp_result>>
           /\ dhcp_message_sent_count' < MAX_DHCP_MESSAGES_SENT - 1
        \/ /\ dhcp_phase' = "idle" /\ dhcp_result' = "aborted" /\ UNCHANGED udpVars
        \/ /\ dhcp_phase' = "idle" /\ dhcp_result' \in {"ok", "error"} /\ listeners' = <<>>
    BY <1>7, DhcpMoveShape
  <2> QED
    BY <1>1, <2>1, <2>2, <2>3 DEF OneListener, FirstDhcp, tftpVars, udpVars, DhcpSlot
<1>8. CASE TftpMove
  <2>1. /\ tftp_phase \in {"start", "check"}
        /\ UNCHANGED <<dhcpVars, tftp_client_port>>
    BY <1>8, TftpMoveShape
  <2>2. tftp_client_port > 0 /\ dhcp_result = "ok" /\ dhcp_phase = "idle" /\ listeners = <<TftpSlot>>
    BY <1>1, <2>1 DEF OneListener, FirstDhcp
  <2>3. CASE tftp_phase' = "poll" /\ UNCHANGED <<udpVars, tftp_call, tftp_result>>
    BY <1>1, <2>1, <2>2, <2>3 DEF OneListener, FirstDhcp, dhcpVars, udpVars, TftpSlot
  <2>4. ASSUME NEW result \in {"ok", "error", "aborted", "rejected", "timeout"}, ExitLoop(result)
        PROVE  OneListener' /\ FirstDhcp'
    <3>1. UdpRemove(MyPort) /\ tftp_phase' = "idle" /\ tftp_result' = result
      BY <2>4 DEF ExitLoop
    <3>2. listeners' = <<>>
      BY <2>2, <3>1, RemoveOne DEF TftpSlot, MyPort, Port69
    <3> QED
      BY <1>1, <2>1, <2>2, <3>1, <3>2 DEF OneListener, FirstDhcp, dhcpVars
  <2> QED
    BY <1>8, <2>3, <2>4, TftpMoveShape
<1>9. CASE ServerMove
  <2>1. UNCHANGED <<udpVars, dhcpVars, tftp_client_port, tftp_phase, tftp_result>>
    BY <1>9 DEF ServerMove, ServerStep
  <2> QED
    BY <1>1, <2>1 DEF OneListener, FirstDhcp, dhcpVars, dhcpLoop, udpVars, DhcpSlot, TftpSlot
<1> QED
  BY <1>2, <1>3, <1>4, <1>5, <1>6, <1>7, <1>8, <1>9, Moves

\* The client port stays within its bound.
LEMMA PortStep ==
  ASSUME DhcpInv, Next
  PROVE  tftp_client_port' \in 0 .. MaxTransfers
<1>1. tftp_client_port \in 0 .. MaxTransfers /\ MaxTransfers \in Nat
  BY TftpAssumption DEF DhcpInv, NetTypeOK, TftpTypeOK
<1>2. ASSUME NEW call, NEW ip, CallTransfer(call, ip) PROVE tftp_client_port' \in 0 .. MaxTransfers
  BY <1>1, <1>2 DEF CallTransfer, Transfer
<1>3. ASSUME NoPacketWaiting \/ ReceiveArp \/ ReceiveOffer \/ ReceiveTftp
      PROVE  tftp_client_port' = tftp_client_port
  BY <1>3 DEF NoPacketWaiting, ReceiveArp, ReceiveOffer, ReceiveTftp, tftpRest, TftpIn
<1>4. ASSUME CallDhcp \/ DhcpMove PROVE tftp_client_port' = tftp_client_port
  BY <1>4 DEF CallDhcp, DhcpMove, tftpVars
<1>5. ASSUME TftpMove PROVE tftp_client_port' = tftp_client_port
  BY <1>5, TftpMoveShape
<1>6. ASSUME ServerMove PROVE tftp_client_port' = tftp_client_port
  BY <1>6 DEF ServerMove, ServerStep
<1> QED
  BY <1>1, <1>2, <1>3, <1>4, <1>5, <1>6, Moves

\* The listener table is well formed.
LEMMA TableStep ==
  ASSUME DhcpInv, Next
  PROVE  UdpTypeOK'
<1>1. listeners' \in Seq(Listener) /\ Len(listeners') <= udp_cbmax
  <2>1. OneListener' /\ tftp_client_port' \in Byte
    BY OneListenerStep, PortStep, TftpAssumption DEF Byte
  <2>2. \/ listeners' = <<>> \/ listeners' = <<DhcpSlot>>
        \/ listeners' = <<[lo |-> tftp_client_port', hi |-> 105, vec |-> "tftp_in"]>>
    BY <2>1 DEF OneListener, Idle, TftpSlot, DhcpSlot
  <2> QED
    BY <2>1, <2>2, ShortTable
<1>2. installed \subseteq [port : Port, vec : Callbacks] /\ "dhcp_in" \in Callbacks
      /\ "tftp_in" \in Callbacks /\ dhcp_client_port \in Port
  BY Ports, DhcpBoundAssumption, TftpAssumption DEF DhcpInv, NetTypeOK, UdpTypeOK
<1>3. \/ UNCHANGED installed
      \/ \E port, vec : UdpAdd(port, vec) /\ port \in Port /\ vec \in Callbacks
      \/ \E port : UdpRemove(port)
  <2>1. CASE CallDhcp
    BY <1>2, <2>1 DEF CallDhcp, CallDhcpInit, UdpAddFails, udpVars
  <2>2. ASSUME NEW call, NEW ip, CallTransfer(call, ip)
        PROVE  \/ UNCHANGED installed
               \/ \E port, vec : UdpAdd(port, vec) /\ port \in Port /\ vec \in Callbacks
    <3>1. Port69(tftp_client_port') \in Port
      BY PortStep, TftpAssumption DEF Port69, Port, Byte
    <3> QED
      BY <1>2, <2>2, <3>1 DEF CallTransfer, Transfer, UdpAddFails, udpVars
  <2>3. CASE NoPacketWaiting \/ ReceiveArp \/ ReceiveOffer \/ ReceiveTftp
    BY <2>3 DEF NoPacketWaiting, ReceiveArp, ReceiveOffer, ReceiveTftp, udpVars
  <2>4. CASE DhcpMove
    BY <2>4, DhcpMoveShape DEF udpVars
  <2>5. CASE TftpMove
    BY <2>5, TftpMoveShape DEF udpVars, ExitLoop
  <2>6. CASE ServerMove
    BY <2>6 DEF ServerMove, ServerStep, udpVars
  <2> QED
    BY <2>1, <2>2, <2>3, <2>4, <2>5, <2>6, Moves
<1>4. installed' \subseteq [port : Port, vec : Callbacks]
  <2>1. CASE UNCHANGED installed
    BY <1>2, <2>1
  <2>2. ASSUME NEW port \in Port, NEW vec \in Callbacks, UdpAdd(port, vec)
        PROVE  installed' \subseteq [port : Port, vec : Callbacks]
    <3>1. [port |-> port, vec |-> vec] \in [port : Port, vec : Callbacks]
      OBVIOUS
    <3>2. installed' = {l \in installed : l.port # port} \cup {[port |-> port, vec |-> vec]}
      BY <2>2 DEF UdpAdd
    <3> QED
      BY <1>2, <3>1, <3>2
  <2>3. ASSUME NEW port, UdpRemove(port)
        PROVE  installed' \subseteq [port : Port, vec : Callbacks]
    BY <1>2, <2>3 DEF UdpRemove
  <2> QED
    BY <1>3, <2>1, <2>2, <2>3
<1> QED
  BY <1>1, <1>4 DEF UdpTypeOK, udp_cbcount

----------------------------------------------------------------------------
(* The configuration.                                                      *)

\* What the configuration and dhcp_init keep, without the phase.
ConfigTypeOK ==
  /\ cfg_ip \in MyAddresses \cup {Zero}
  /\ cfg_netmask \in Netmasks
  /\ cfg_gateway \in Hosts
  /\ gw \in [netmask : Netmasks, gateway : Hosts]

\* The types of dhcp_init but for what is Boolean, which needs another prover.
DhcpNumbers ==
  /\ dhcp_state \in 0 .. dhcp_bound
  /\ dhcp_message_sent_count \in 0 .. MAX_DHCP_MESSAGES_SENT - 1
  /\ dhcp_loop_count \in 0 .. MAX_DHCP_MESSAGES_SENT
  /\ dhcp_phase # "idle" => dhcp_loop_count > 0
  /\ dhcp_break_polling_loop \in {0, 1}
  /\ dhcp_ip \in MyAddresses \cup {Zero}
  /\ dhcp_server \in DhcpServers \cup {Zero}
  /\ dhcp_phase \in {"idle", "poll", "check"}
  /\ dhcp_result \in {"none", "ok", "error", "aborted"}
  /\ dhcp_inits \in 0 .. MaxInits
  /\ dhcp_requests \subseteq [ip : MyAddresses, server : DhcpServers]

ConfigInv == ConfigTypeOK /\ DhcpNumbers /\ OfferTaken

\* ConfigInv is a part of DhcpInv.
LEMMA ConfigHolds ==
  ASSUME DhcpInv
  PROVE  ConfigInv
BY Zenon DEF DhcpInv, NetTypeOK, ArpTypeOK, DhcpTypeOK, ConfigInv, ConfigTypeOK, DhcpNumbers

\* That a DISCOVER has been sent is a truth value.
LEMMA DiscoveredStep ==
  ASSUME DhcpInv, Next
  PROVE  dhcp_discovered' \in BOOLEAN
<1>1. dhcp_discovered \in BOOLEAN
  BY DEF DhcpInv, NetTypeOK, DhcpTypeOK
<1>2. dhcp_discovered' = TRUE \/ UNCHANGED dhcp_discovered
  <2>1. CASE CallDhcp
    BY <2>1, Zenon DEF CallDhcp, CallDhcpInit
  <2>2. CASE DhcpMove
    BY <2>2, Zenon DEF DhcpMove, DhcpKeepPolling, DhcpAnswered, DhcpTickDelay, DhcpTickResend,
       DhcpAbort, DhcpBreak, DhcpReturns, SendDhcpRequest, SendDiscover, dhcpMsgs
  <2>3. CASE NoPacketWaiting \/ ReceiveArp \/ ReceiveOffer \/ ReceiveTftp
    BY <2>3, Zenon DEF NoPacketWaiting, ReceiveArp, ReceiveOffer, ReceiveTftp, DhcpIn, dhcpRest, dhcpMsgs
  <2>4. CASE TftpMove \/ ServerMove \/ \E call, ip : CallTransfer(call, ip)
    BY <2>4, Zenon DEF TftpMove, ServerMove, CallTransfer, dhcpVars, dhcpMsgs
  <2> QED
    BY <2>1, <2>2, <2>3, <2>4, Moves
<1> QED
  BY <1>1, <1>2

\* What the offers and the servers are.
LEMMA OfferType ==
  ASSUME NEW server \in DhcpServers
  PROVE  /\ Offer[server] \in [ip : MyAddresses, netmask : Netmasks, gateway : Hosts]
         /\ Offer[server].ip \in MyAddresses
         /\ Offer[server].netmask \in Netmasks /\ Offer[server].gateway \in Hosts
         /\ Offer[server] = [ip |-> Offer[server].ip, netmask |-> Offer[server].netmask,
                             gateway |-> Offer[server].gateway]
<1>1. Offer[server] \in [ip : MyAddresses, netmask : Netmasks, gateway : Hosts]
  BY OfferAssumption
<1> QED
  BY <1>1

\* No server has the address 0.0.0.0.
LEMMA ZeroIsNoServer == Zero \notin DhcpServers /\ Zero \notin Hosts /\ Zero \notin MyAddresses
BY HostsAssumption, OfferAssumption

\* A step of the loop of dhcp_init requests the address that was offered.
LEMMA DhcpMoveConfig ==
  ASSUME DhcpInv, DhcpMove
  PROVE  ConfigInv'
<1>1. ConfigInv
  BY ConfigHolds
<1>2. /\ UNCHANGED <<cfg_netmask, cfg_gateway, gw, dhcp_ip, dhcp_server, dhcp_inits>>
      /\ dhcp_phase' \in {"idle", "poll", "check"} /\ dhcp_phase = "check"
      /\ dhcp_message_sent_count < MAX_DHCP_MESSAGES_SENT - 1
      /\ MAX_DHCP_MESSAGES_SENT \in Nat /\ dhcp_message_sent_count \in Nat
      /\ dhcp_loop_count \in 0 .. MAX_DHCP_MESSAGES_SENT
  BY <1>1, DhcpMoveShape, DhcpBoundAssumption DEF DhcpInv, FirstDhcp, ConfigInv, DhcpNumbers
<1>3. CASE DhcpKeepPolling \/ DhcpTickDelay \/ DhcpAbort
  <2>1. /\ UNCHANGED <<cfg_ip, dhcp_state, dhcp_message_sent_count, dhcp_break_polling_loop, dhcp_requests>>
        /\ dhcp_result' \in {"none", "aborted"}
        /\ \/ dhcp_loop_count' = dhcp_loop_count
           \/ dhcp_loop_count > 1 /\ dhcp_loop_count' = dhcp_loop_count - 1
    BY <1>3, DhcpMoveShape DEF DhcpKeepPolling, DhcpTickDelay, DhcpAbort, DhcpReturns, dhcpLoop, dhcpMsgs
  <2> QED
    BY <1>1, <1>2, <2>1 DEF ConfigInv, ConfigTypeOK, DhcpNumbers, OfferTaken
<1>4. CASE DhcpBreak
  <2>1. dhcp_message_sent_count' = dhcp_message_sent_count + 1
    BY <1>4 DEF DhcpBreak
  <2>2. CASE \/ ~ MessagesLeft /\ DhcpReturns("error")
             \/ dhcp_state = dhcp_bound /\ DhcpReturns(Carry)
    <3>1. /\ UNCHANGED <<cfg_ip, dhcp_state, dhcp_loop_count, dhcp_break_polling_loop, dhcp_requests>>
          /\ dhcp_result' \in {"ok", "error"} /\ (dhcp_result' = "ok" => dhcp_state = dhcp_bound)
      BY <2>2 DEF DhcpReturns, dhcpMsgs, Carry
    <3>2. DhcpNumbers'
      BY <1>1, <1>2, <2>1, <3>1 DEF ConfigInv, DhcpNumbers
    <3> QED
      BY <1>1, <1>2, <3>1, <3>2 DEF ConfigInv, ConfigTypeOK, OfferTaken
  <2>3. CASE /\ dhcp_message_sent_count' < MAX_DHCP_MESSAGES_SENT - 1
             /\ IF dhcp_state = dhcp_ready_to_request THEN SendDhcpRequest ELSE SendDiscover
             /\ dhcp_loop_count' = dhcp_message_sent_count' + 1
             /\ dhcp_break_polling_loop' = 0
             /\ UNCHANGED dhcp_result
    <3>1. dhcp_result' = "none" /\ dhcp_message_sent_count' \in 0 .. MAX_DHCP_MESSAGES_SENT - 1
          /\ dhcp_loop_count' \in 0 .. MAX_DHCP_MESSAGES_SENT /\ dhcp_loop_count' > 0
          /\ dhcp_break_polling_loop' = 0
      BY <1>2, <2>1, <2>3, DhcpMoveShape
    <3>2. CASE dhcp_state = dhcp_ready_to_request
      <4>1. /\ dhcp_requests' = dhcp_requests \cup {[ip |-> dhcp_ip, server |-> dhcp_server]}
            /\ dhcp_state' = dhcp_bound /\ cfg_ip' = dhcp_ip
        BY <2>3, <3>2 DEF SendDhcpRequest
      <4>2. dhcp_server \in DhcpServers /\ dhcp_ip \in MyAddresses /\ dhcp_ip = Offer[dhcp_server].ip
        BY <1>1, <3>2, OfferType DEF ConfigInv, OfferTaken
      <4> DEFINE r == [ip |-> dhcp_ip, server |-> dhcp_server]
      <4>7. r.ip = dhcp_ip /\ r.server = dhcp_server /\ r \in [ip : MyAddresses, server : DhcpServers]
        BY <4>2
      <4>8. dhcp_requests' = dhcp_requests \cup {r}
        BY <4>1
      <4> HIDE DEF r
      <4>9. DhcpNumbers
        BY <1>1 DEF ConfigInv
      <4>3. DhcpNumbers'
        <5>1. dhcp_state' \in 0 .. dhcp_bound
          BY <4>1 DEF dhcp_bound
        <5>2. dhcp_requests' \subseteq [ip : MyAddresses, server : DhcpServers]
          BY <4>9, <4>7, <4>8 DEF DhcpNumbers
        <5> QED
          BY <1>2, <3>1, <4>9, <5>1, <5>2 DEF DhcpNumbers
      <4>4. OfferTaken'
        <5>1. \E q \in dhcp_requests' : q.ip = cfg_ip'
          BY <4>1, <4>7, <4>8
        <5>2. \A q \in dhcp_requests' : q.ip = Offer[q.server].ip
          BY <1>1, <4>2, <4>7, <4>8 DEF ConfigInv, OfferTaken
        <5>3. dhcp_server' \in DhcpServers =>
                Offer[dhcp_server'] = [ip |-> dhcp_ip', netmask |-> cfg_netmask', gateway |-> cfg_gateway']
          BY <1>1, <1>2 DEF ConfigInv, OfferTaken
        <5> QED
          BY <1>2, <4>1, <4>2, <5>1, <5>2, <5>3 DEF OfferTaken
      <4>5. ConfigTypeOK'
        BY <1>1, <1>2, <4>1, <4>2 DEF ConfigInv, ConfigTypeOK
      <4> QED
        BY <4>3, <4>4, <4>5 DEF ConfigInv
    <3>3. CASE dhcp_state # dhcp_ready_to_request
      <4>1. dhcp_state' = dhcp_selecting /\ UNCHANGED <<cfg_ip, dhcp_requests>>
        BY <2>3, <3>3 DEF SendDiscover
      <4>2. DhcpNumbers'
        <5>1. dhcp_state' \in 0 .. dhcp_bound
          BY <4>1 DEF dhcp_bound, dhcp_selecting
        <5>2. DhcpNumbers
          BY <1>1 DEF ConfigInv
        <5> QED
          BY <1>2, <3>1, <4>1, <5>1, <5>2 DEF DhcpNumbers
      <4> QED
        BY <1>1, <1>2, <3>1, <4>1, <4>2 DEF ConfigInv, ConfigTypeOK, OfferTaken, dhcp_bound,
           dhcp_selecting, dhcp_ready_to_request
    <3> QED
      BY <3>2, <3>3
  <2> QED
    BY <1>4, <2>2, <2>3 DEF DhcpBreak, MessagesLeft
<1> QED
  BY <1>3, <1>4 DEF DhcpMove, DhcpAnswered, DhcpTickResend

\* The offer of one server at a time is taken over, whole.
LEMMA ConfigStep ==
  ASSUME DhcpInv, Next
  PROVE  ConfigInv'
<1>1. ConfigInv /\ MAX_DHCP_MESSAGES_SENT \in Nat /\ MAX_DHCP_MESSAGES_SENT > 2 /\ MaxInits \in Nat
  BY ConfigHolds, DhcpBoundAssumption
<1>2. CASE CallDhcp
  <2>1. /\ UNCHANGED <<cfg_netmask, cfg_gateway, gw, dhcp_ip, dhcp_server, dhcp_requests>>
        /\ cfg_ip' = Zero /\ dhcp_inits < MaxInits /\ dhcp_inits' = dhcp_inits + 1
        /\ dhcp_result # "ok"
    BY <1>2 DEF CallDhcp, CallDhcpInit
  <2>2. \/ /\ dhcp_message_sent_count' = 0 /\ dhcp_loop_count' = 1 /\ dhcp_break_polling_loop' = 0
           /\ dhcp_state' = dhcp_selecting /\ dhcp_phase' = "poll" /\ dhcp_result' = "none"
        \/ /\ dhcp_state' = dhcp_initializing /\ dhcp_result' = "error"
           /\ UNCHANGED <<dhcpLoop, dhcp_break_polling_loop, dhcp_phase>>
    BY <1>2 DEF CallDhcp, CallDhcpInit
  <2>3. DhcpNumbers'
    BY <1>1, <2>1, <2>2 DEF ConfigInv, DhcpNumbers, dhcpLoop, dhcp_selecting, dhcp_initializing, dhcp_bound
  <2> QED
    BY <1>1, <2>1, <2>2, <2>3 DEF ConfigInv, ConfigTypeOK, OfferTaken, dhcp_selecting,
       dhcp_initializing, dhcp_bound, dhcp_ready_to_request
<1>3. CASE ReceiveOffer
  <2>1. PICK server \in DhcpServers : DhcpIn(server)
    BY <1>3 DEF ReceiveOffer, Offering
  <2>2. /\ dhcp_ip' = Offer[server].ip /\ dhcp_server' = server
        /\ cfg_netmask' = Offer[server].netmask /\ cfg_gateway' = Offer[server].gateway
        /\ gw' = [netmask |-> cfg_netmask', gateway |-> cfg_gateway']
        /\ dhcp_state' \in {dhcp_ready_to_request, dhcp_bound}
        /\ (dhcp_state' = dhcp_bound => dhcp_state = dhcp_bound)
        /\ (dhcp_state = dhcp_bound => dhcp_state' = dhcp_bound)
        /\ dhcp_break_polling_loop' = 1
        /\ UNCHANGED <<cfg_ip, dhcpLoop, dhcp_result, dhcp_inits, dhcp_requests>>
    BY <2>1 DEF DhcpIn, CalculateGatewayMask, dhcpMsgs, dhcp_ready_to_request, dhcp_bound
  <2>3. dhcp_phase = "poll" /\ dhcp_phase' = "check"
    BY <1>3, OfferHeard
  <2>4. DhcpNumbers'
    <3>1. dhcp_state' \in 0 .. dhcp_bound
      BY <2>2 DEF dhcp_ready_to_request, dhcp_bound
    <3>2. dhcp_ip' \in MyAddresses /\ dhcp_server' \in DhcpServers
      BY <2>2, OfferType
    <3>3. UNCHANGED <<dhcp_message_sent_count, dhcp_loop_count, dhcp_result, dhcp_inits, dhcp_requests>>
          /\ dhcp_break_polling_loop' = 1
      BY <2>2 DEF dhcpLoop
    <3>4. DhcpNumbers
      BY <1>1 DEF ConfigInv
    <3> QED
      BY <2>3, <3>1, <3>2, <3>3, <3>4 DEF DhcpNumbers
  <2>5. ConfigTypeOK'
    BY <1>1, <2>2, OfferType DEF ConfigInv, ConfigTypeOK
  <2>6. OfferTaken'
    BY <1>1, <2>2, OfferType DEF ConfigInv, OfferTaken
  <2> QED
    BY <2>4, <2>5, <2>6 DEF ConfigInv
<1>4. ASSUME UNCHANGED <<cfg_ip, cfg_netmask, cfg_gateway, gw, dhcp_state, dhcp_message_sent_count,
                         dhcp_loop_count, dhcp_break_polling_loop, dhcp_ip, dhcp_server,
                         dhcp_result, dhcp_inits, dhcp_requests>>,
             dhcp_phase' = dhcp_phase \/ (dhcp_phase = "poll" /\ dhcp_phase' = "check")
      PROVE  ConfigInv'
  BY <1>1, <1>4 DEF ConfigInv, ConfigTypeOK, DhcpNumbers, OfferTaken
<1>5. CASE NoPacketWaiting \/ ReceiveArp \/ ReceiveTftp
  <2>1. UNCHANGED cfgVars /\ UNCHANGED dhcpRest /\ Poll
    BY <1>5, Zenon DEF NoPacketWaiting, ReceiveArp, ReceiveTftp
  <2>2. dhcp_phase' = dhcp_phase \/ (dhcp_phase = "poll" /\ dhcp_phase' = "check")
    BY <2>1, PollShape
  <2> QED
    BY <1>4, <2>1, <2>2 DEF cfgVars, dhcpRest, dhcpLoop, dhcpMsgs
<1>6. ASSUME UNCHANGED <<cfgVars, dhcpVars>> PROVE ConfigInv'
  BY <1>4, <1>6 DEF cfgVars, dhcpVars, dhcpLoop, dhcpMsgs
<1>7. CASE TftpMove \/ ServerMove \/ \E call, ip : CallTransfer(call, ip)
  BY <1>6, <1>7 DEF TftpMove, ServerMove, CallTransfer
<1>8. CASE DhcpMove
  BY <1>8, DhcpMoveConfig
<1> QED
  BY <1>2, <1>3, <1>5, <1>7, <1>8, Moves

----------------------------------------------------------------------------
(* The ARP cache.                                                          *)

CacheType == arp_cache \in Seq(Wire \cup {Zero}) /\ Len(arp_cache) <= ac_size

\* What ac_add_source does to the cache, entry by entry.
LEMMA Added ==
  ASSUME CacheType, NEW ip \in Wire \cup {Zero}, AddSource(ip)
  PROVE  /\ CacheType'
         /\ Len(arp_cache) \in Nat /\ Len(arp_cache') \in Nat
         /\ Len(arp_cache') = IF Len(arp_cache) = ac_size THEN ac_size ELSE Len(arp_cache) + 1
         /\ arp_cache'[1] = ip
         /\ \A i \in 2 .. Len(arp_cache') : arp_cache'[i] = arp_cache[i - 1]
<1> DEFINE S == Wire \cup {Zero}
           old == arp_cache
           entries == <<ip>> \o old
           cut == SubSeq(entries, 1, ac_size)
<1>1. ac_size \in Nat /\ ac_size > 0 /\ old \in Seq(S) /\ Len(old) <= ac_size /\ Len(old) \in Nat
  BY ArpBoundAssumption DEF CacheType
<1>2. <<ip>> \in Seq(S) /\ Len(<<ip>>) = 1 /\ <<ip>>[1] = ip
  OBVIOUS
<1>3. /\ entries \in Seq(S) /\ Len(entries) = 1 + Len(old)
      /\ \A i \in 1 .. 1 + Len(old) : entries[i] = IF i <= 1 THEN <<ip>>[i] ELSE old[i - 1]
  <2> HIDE DEF S
  <2> QED
    BY <1>1, <1>2, ConcatProperties
<1>4. arp_cache' = IF Len(entries) > ac_size THEN cut ELSE entries
  BY DEF AddSource
<1> HIDE DEF S, old, entries
<1>5. CASE Len(old) = ac_size
  <2>1. arp_cache' = cut
    BY <1>1, <1>3, <1>4, <1>5
  <2>2. \A i \in 1 .. ac_size : entries[i] \in S
    BY <1>1, <1>3, <1>5, ElementOfSeq
  <2>3. cut \in Seq(S) /\ Len(cut) = ac_size /\ \A i \in 1 .. ac_size : cut[i] = entries[i]
    BY <1>1, <2>2, SubSeqProperties
  <2> QED
    BY <1>1, <1>2, <1>3, <1>5, <2>1, <2>3 DEF CacheType, S, old
<1>6. CASE Len(old) # ac_size
  <2>1. arp_cache' = entries
    BY <1>1, <1>3, <1>4, <1>6
  <2> QED
    BY <1>1, <1>2, <1>3, <1>6, <2>1 DEF CacheType, S, old
<1> QED
  BY <1>5, <1>6

\* The next hop of any address is a host.
LEMMA HopType ==
  ASSUME ConfigTypeOK, NEW ip
  PROVE  NextHop(ip) \in Hosts
BY NetworkAssumption DEF ConfigTypeOK, NextHop

\* A packet to send is the only reason to ask, and an ARP packet to change the cache.
LEMMA ArpShape ==
  ASSUME DhcpInv, Next
  PROVE  \/ /\ UNCHANGED <<arp_cache, arp_asked, heard>>
            /\ UNCHANGED arp_state \/ arp_state' = arp_idle
         \/ ArpPacket
         \/ \E ip : ArpLookup(ip)
<1> DEFINE Same == UNCHANGED arpVars
           Asks == \E ip : ArpLookup(ip)
<1>1. CASE CallDhcp \/ DhcpMove \/ NoPacketWaiting
  BY <1>1 DEF CallDhcp, DhcpMove, NoPacketWaiting, arpVars
<1>2. CASE \E call, ip : CallTransfer(call, ip)
  BY <1>2 DEF CallTransfer, Transfer, arpVars
<1>3. CASE ReceiveArp
  BY <1>3 DEF ReceiveArp
<1>4. CASE ReceiveOffer
  BY <1>4 DEF ReceiveOffer, DhcpIn, CalculateGatewayMask
<1>5. CASE ReceiveTftp
  <2>1. ASSUME NEW p, TftpIn(p) PROVE Same \/ Asks
    <3>1. ASSUME NEW packet, NEW last, GotExpectedBlock(p, packet, last) PROVE Asks
      BY <3>1 DEF GotExpectedBlock, SendTftpPacket, Put
    <3> QED
      BY <2>1, <3>1 DEF TftpIn, DataIn, AckIn, ErrorIn, IgnoredBlock
  <2> QED
    BY <1>5, <2>1 DEF ReceiveTftp, arpVars
<1>6. CASE TftpMove
  <2>1. ASSUME Outer PROVE Same \/ Asks
    <3>1. CASE OuterUnacknowledged
      BY <3>1 DEF OuterUnacknowledged, ArpLookup
    <3>2. CASE OuterRequest \/ OuterResend \/ OuterError \/ OuterComplete
      BY <3>2 DEF OuterRequest, OuterResend, OuterError, OuterComplete, SendTftpRequest,
         SendTftpPacket, Put
    <3> QED
      BY <2>1, <3>1, <3>2 DEF Outer
  <2>2. ASSUME TftpKeepPolling \/ TftpTickTimeout \/ TftpAbort PROVE Same
    BY <2>2 DEF TftpKeepPolling, TftpTickTimeout, TftpAbort, ExitWithError
  <2> QED
    BY <1>6, <2>1, <2>2 DEF TftpMove, StartLoop, BlockArrived, TftpTickResend, arpVars
<1>7. CASE ServerMove
  BY <1>7 DEF ServerMove, ServerStep, arpVars
<1> QED
  BY <1>1, <1>2, <1>3, <1>4, <1>5, <1>6, <1>7, Moves

\* Of the places up to n + 1 there is a first one.
LEMMA OneIsFirst == \A n \in Nat : 1 \in 1 .. n + 1
OBVIOUS

ArpCacheTypeOK ==
  /\ CacheType
  /\ arp_state \in {arp_idle, arp_wait}
  /\ arp_asked \subseteq Hosts
  /\ heard \in 0 .. MaxHeard

\* The cache holds machines of the wire, within its size.
LEMMA ArpTypeStep ==
  ASSUME DhcpInv, Next
  PROVE  ArpCacheTypeOK'
<1>1. ArpCacheTypeOK /\ ConfigTypeOK /\ MaxHeard \in Nat
  BY ConfigHolds, ArpBoundAssumption
     DEF DhcpInv, NetTypeOK, ArpTypeOK, ArpCacheTypeOK, CacheType, ConfigInv
<1>2. CASE UNCHANGED <<arp_cache, arp_asked, heard>> /\ (UNCHANGED arp_state \/ arp_state' = arp_idle)
  BY <1>1, <1>2 DEF ArpCacheTypeOK, CacheType
<1>3. CASE ArpPacket
  <2>1. ASSUME NEW sender \in Senders, ArpRequest(sender) PROVE ArpCacheTypeOK'
    <3>1. CacheType'
      BY <1>1, <2>1, Added, HostsAssumption DEF ArpRequest, ArpCacheTypeOK
    <3> QED
      BY <1>1, <2>1, <3>1 DEF ArpRequest, ArpCacheTypeOK
  <2>2. ASSUME NEW host \in arp_asked \cap Wire, ArpReply(host) PROVE ArpCacheTypeOK'
    <3>1. CASE arp_state = arp_wait
      <4>1. CacheType'
        BY <1>1, <2>2, <3>1, Added DEF ArpReply, ArpCacheTypeOK
      <4> QED
        BY <1>1, <2>2, <3>1, <4>1 DEF ArpReply, ArpCacheTypeOK
    <3>2. CASE arp_state # arp_wait
      BY <1>1, <2>2, <3>2 DEF ArpReply, ArpCacheTypeOK, CacheType
    <3> QED
      BY <3>1, <3>2
  <2> QED
    BY <1>3, <2>1, <2>2 DEF ArpPacket
<1>4. ASSUME NEW ip, ArpLookup(ip) PROVE ArpCacheTypeOK'
  BY <1>1, <1>4, HopType DEF ArpLookup, AskOnMiss, ArpCacheTypeOK, CacheType
<1> QED
  BY <1>2, <1>3, <1>4, ArpShape

\* An entry of a host that alone was asked for stays in the cache.
LEMMA EntryKept ==
  ASSUME DhcpInv, ArpInv, Next, NEW h \in Hosts, OnlyAsked(h)',
         (\E i \in Slot : EntryAt(h, i)) \/ (\E i \in Slot : EntryAt(h, i))'
  PROVE  (\E j \in 1 .. heard + 1 : EntryAt(h, j))'
<1>1. CacheType /\ heard \in Nat /\ ac_size \in Nat /\ heard' \in Nat
  BY ArpTypeStep, ArpBoundAssumption DEF DhcpInv, NetTypeOK, ArpTypeOK, CacheType, ArpCacheTypeOK
<1>2. (\E i \in Slot : EntryAt(h, i)) /\ OnlyAsked(h) => \E j \in 1 .. heard + 1 : EntryAt(h, j)
  BY DEF ArpInv, EntryStays
<1>3. CASE UNCHANGED <<arp_cache, arp_asked, heard>>
  BY <1>2, <1>3 DEF OnlyAsked, EntryAt, Slot
<1>4. ASSUME NEW ip \in Wire \cup {Zero}, AddSource(ip), OnlyAsked(h),
             ip = h \/ heard' = heard + 1
      PROVE  (\E j \in 1 .. heard + 1 : EntryAt(h, j))'
  <2> DEFINE n == Len(arp_cache)
             m == Len(arp_cache')
  <2>1. /\ n \in Nat /\ m \in Nat /\ m = (IF n = ac_size THEN ac_size ELSE n + 1)
        /\ arp_cache'[1] = ip /\ \A i \in 2 .. m : arp_cache'[i] = arp_cache[i - 1]
        /\ n <= ac_size /\ ac_size > 0
    BY <1>1, <1>4, Added, ArpBoundAssumption DEF CacheType
  <2>2. CASE ip = h
    <3>1. EntryAt(h, 1)'
      BY <1>1, <2>1, <2>2 DEF EntryAt, Slot
    <3>2. 1 \in 1 .. heard' + 1
      BY <1>1, OneIsFirst
    <3> QED
      BY <3>1, <3>2, Zenon
  <2>3. CASE ip # h
    <3>1. ASSUME NEW i \in 1 .. m, arp_cache'[i] = h PROVE i - 1 \in 1 .. n /\ arp_cache[i - 1] = h
      <4> HIDE DEF n, m
      <4> QED
        BY <1>1, <2>1, <2>3, <3>1
    <3>2. \E i \in Slot : EntryAt(h, i)
      BY <3>1 DEF EntryAt, Slot
    <3>3. PICK j \in 1 .. heard + 1 : j \in 1 .. n /\ arp_cache[j] = h
      BY <1>2, <1>4, <3>2 DEF EntryAt, Slot
    <3>4. heard' = heard + 1 /\ heard' < ac_size
      BY <1>4, <2>3 DEF OnlyAsked
    <3>5. j + 1 \in 2 .. m /\ arp_cache'[j + 1] = h /\ j + 1 \in 1 .. heard' + 1
      <4>1. j \in Nat /\ j >= 1 /\ j <= n /\ j <= heard + 1
        BY <1>1, <3>3
      <4>2. j + 1 \in 2 .. m /\ j + 1 \in 1 .. heard' + 1 /\ (j + 1) - 1 = j
        <5> HIDE DEF n, m
        <5> QED
          BY <1>1, <2>1, <3>4, <4>1
      <4> HIDE DEF m
      <4> QED
        BY <2>1, <3>3, <4>2
    <3>6. EntryAt(h, j + 1)'
      BY <3>5 DEF EntryAt, Slot
    <3> QED
      BY <3>5, <3>6
  <2> QED
    BY <2>2, <2>3
<1>5. CASE ArpPacket
  <2>1. ASSUME NEW sender \in Senders, ArpRequest(sender)
        PROVE  (\E j \in 1 .. heard + 1 : EntryAt(h, j))'
    <3>1. /\ AddSource(sender) /\ heard' = heard + 1 /\ arp_asked' = arp_asked
          /\ sender \in Wire \cup {Zero}
      BY <2>1, HostsAssumption DEF ArpRequest
    <3>2. OnlyAsked(h)
      BY <1>1, <3>1 DEF OnlyAsked
    <3> QED
      BY <1>4, <3>1, <3>2
  <2>2. ASSUME NEW host \in arp_asked \cap Wire, ArpReply(host)
        PROVE  (\E j \in 1 .. heard + 1 : EntryAt(h, j))'
    <3>1. CASE arp_state = arp_wait
      <4>1. host = h /\ AddSource(host) /\ OnlyAsked(h)
        BY <2>2, <3>1 DEF ArpReply, OnlyAsked
      <4> QED
        BY <1>4, <2>2, <4>1
    <3>2. CASE arp_state # arp_wait
      BY <1>3, <2>2, <3>2 DEF ArpReply
    <3> QED
      BY <3>1, <3>2
  <2> QED
    BY <1>5, <2>1, <2>2 DEF ArpPacket
<1>6. ASSUME NEW ip, ArpLookup(ip) PROVE (\E j \in 1 .. heard + 1 : EntryAt(h, j))'
  <2>1. UNCHANGED <<arp_cache, heard>> /\ arp_asked \subseteq arp_asked'
    BY <1>6 DEF ArpLookup, AskOnMiss
  <2> QED
    BY <1>2, <2>1 DEF OnlyAsked, EntryAt, Slot
<1> QED
  BY <1>3, <1>5, <1>6, ArpShape

\* Once in the cache, it stays near the top.
LEMMA EntryStaysStep ==
  ASSUME DhcpInv, ArpInv, Next
  PROVE  EntryStays'
BY EntryKept DEF EntryStays

\* An entry that hides the others stays in the cache as long.
LEMMA ZeroKept ==
  ASSUME DhcpInv, ArpInv, Next, NEW h \in Hosts, OnlyAsked(h)',
         (\E i \in Slot : EntryAt(Zero, i)) \/ (\E i \in Slot : EntryAt(Zero, i))'
  PROVE  (\E i \in 1 .. heard + 1 :
            /\ EntryAt(Zero, i) /\ \A j \in 1 .. i - 1 : ~ EntryAt(Zero, j)
            /\ i <= heard \/ (arp_state = arp_idle /\ \E j \in 1 .. i - 1 : EntryAt(h, j)))'
<1> DEFINE Top(i) ==
      /\ EntryAt(Zero, i) /\ \A j \in 1 .. i - 1 : ~ EntryAt(Zero, j)
    Above(g, i) == \E j \in 1 .. i - 1 : EntryAt(g, j)
<1>1. /\ CacheType /\ heard \in Nat /\ ac_size \in Nat /\ heard' \in Nat /\ Len(arp_cache) \in Nat
      /\ Zero \notin Hosts /\ arp_idle # arp_wait
  BY ArpTypeStep, ArpBoundAssumption, HostsAssumption
     DEF DhcpInv, NetTypeOK, ArpTypeOK, CacheType, ArpCacheTypeOK, arp_idle, arp_wait
<1> SUFFICES (\E i \in 1 .. heard + 1 :
                Top(i) /\ (i <= heard \/ (arp_state = arp_idle /\ Above(h, i))))'
  OBVIOUS
<1>2. ASSUME \E i \in Slot : EntryAt(Zero, i), OnlyAsked(h)
      PROVE  \E i \in 1 .. heard + 1 :
               Top(i) /\ (i <= heard \/ (arp_state = arp_idle /\ Above(h, i)))
  BY <1>2 DEF ArpInv, ZeroStays
<1>3. CASE UNCHANGED <<arp_cache, arp_asked, heard>> /\ (UNCHANGED arp_state \/ arp_state' = arp_idle)
  <2>1. (\E i \in Slot : EntryAt(Zero, i)) /\ OnlyAsked(h)
    BY <1>3 DEF OnlyAsked, EntryAt, Slot
  <2>2. PICK i \in 1 .. heard + 1 :
          Top(i) /\ (i <= heard \/ (arp_state = arp_idle /\ Above(h, i)))
    BY <1>2, <2>1
  <2>3. Top(i)' /\ (Above(h, i) => Above(h, i)')
    BY <1>3, <2>2 DEF EntryAt, Slot
  <2> QED
    BY <1>3, <2>2, <2>3
<1>4. ASSUME NEW ip \in Wire \cup {Zero}, AddSource(ip), OnlyAsked(h),
             \/ heard' = heard + 1 /\ UNCHANGED arp_state
             \/ ip = h /\ heard' = heard /\ arp_state = arp_wait /\ arp_state' = arp_idle
      PROVE  (\E i \in 1 .. heard + 1 :
                Top(i) /\ (i <= heard \/ (arp_state = arp_idle /\ Above(h, i))))'
  <2> DEFINE n == Len(arp_cache)
             m == Len(arp_cache')
  <2>1. /\ n \in Nat /\ m \in Nat /\ m = (IF n = ac_size THEN ac_size ELSE n + 1)
        /\ arp_cache'[1] = ip /\ \A i \in 2 .. m : arp_cache'[i] = arp_cache[i - 1]
        /\ n <= ac_size /\ ac_size > 0 /\ heard' < ac_size
    BY <1>1, <1>4, Added, ArpBoundAssumption DEF CacheType, OnlyAsked
  <2>2. CASE ip = Zero
    <3>1. heard' = heard + 1 /\ 1 \in 1 .. m /\ 1 \in 1 .. heard' + 1
      <4>1. heard' = heard + 1
        <5>1. ip # h
          BY <1>1, <2>2
        <5> QED
          BY <1>4, <5>1, Zenon
      <4>2. 1 \in 1 .. heard' + 1
        BY <1>1, OneIsFirst
      <4>3. 1 \in 1 .. m
        <5> HIDE DEF n, m
        <5> QED
          BY <1>1, <2>1
      <4> QED
        BY <4>1, <4>2, <4>3
    <3>2. Top(1)'
      BY <2>1, <2>2, <3>1 DEF EntryAt, Slot
    <3>3. 1 <= heard'
      BY <1>1, <3>1
    <3> QED
      BY <3>1, <3>2, <3>3
  <2>3. CASE ip # Zero
    <3>1. ASSUME NEW z \in 1 .. m, arp_cache'[z] = Zero
          PROVE  z - 1 \in 1 .. n /\ arp_cache[z - 1] = Zero
      <4> HIDE DEF n, m
      <4> QED
        BY <1>1, <2>1, <2>3, <3>1
    <3>2. (\E i \in Slot : EntryAt(Zero, i))' => \E i \in Slot : EntryAt(Zero, i)
      BY <3>1 DEF EntryAt, Slot
    <3>3. \E i \in Slot : EntryAt(Zero, i)
      BY <3>2
    <3>4. PICK i \in 1 .. heard + 1 :
            Top(i) /\ (i <= heard \/ (arp_state = arp_idle /\ Above(h, i)))
      BY <1>2, <1>4, <3>3
    <3>5. i \in 1 .. n /\ arp_cache[i] = Zero /\ \A j \in 1 .. i - 1 : j \in 1 .. n => arp_cache[j] # Zero
      BY <3>4 DEF EntryAt, Slot
    <3>6. /\ i + 1 \in 2 .. m /\ i + 1 \in 1 .. heard' + 1 /\ (i + 1) - 1 = i
          /\ i <= heard => i + 1 <= heard' \/ ip = h
          /\ heard' = heard + 1 \/ i <= heard
      <4>1. i \in Nat /\ i >= 1 /\ i <= n /\ i <= heard + 1
        BY <1>1, <3>5
      <4>2. heard' = heard + 1 \/ (i <= heard /\ heard' = heard)
        BY <1>1, <1>4, <3>4
      <4>3. heard' = heard + 1 \/ ip = h
        BY <1>4
      <4> HIDE DEF n, m
      <4> QED
        BY <1>1, <2>1, <4>1, <4>2, <4>3
    <3>7. arp_cache'[i + 1] = Zero
      <4> HIDE DEF m
      <4> QED
        BY <2>1, <3>5, <3>6
    <3>8. ASSUME NEW j \in 1 .. (i + 1) - 1, j \in 1 .. m PROVE arp_cache'[j] # Zero
      <4>1. CASE j = 1
        BY <2>1, <2>3, <4>1
      <4>2. CASE j # 1
        <5>1. j \in 2 .. m /\ j - 1 \in 1 .. i - 1 /\ j - 1 \in 1 .. n
          <6> HIDE DEF n, m
          <6> QED
            BY <2>1, <3>5, <3>8, <4>2
        <5> HIDE DEF n, m
        <5> QED
          BY <2>1, <3>5, <5>1
      <4> QED
        BY <4>1, <4>2
    <3>9. Top(i + 1)'
      <4>1. EntryAt(Zero, i + 1)'
        <5>1. i + 1 \in 1 .. m
          <6> HIDE DEF n, m
          <6> QED
            BY <2>1, <3>6
        <5> QED
          BY <3>7, <5>1 DEF EntryAt, Slot
      <4>2. ASSUME NEW j \in 1 .. (i + 1) - 1 PROVE ~ EntryAt(Zero, j)'
        BY <3>8, <4>2 DEF EntryAt, Slot
      <4> QED
        BY <4>1, <4>2
    <3>10. ASSUME NEW j \in 1 .. i - 1, EntryAt(h, j) PROVE j + 1 \in 1 .. (i + 1) - 1 /\ EntryAt(h, j + 1)'
      <4>1. j + 1 \in 1 .. (i + 1) - 1 /\ j + 1 \in 2 .. m /\ j + 1 \in 1 .. m /\ (j + 1) - 1 = j
        <5>1. i \in 1 .. n /\ i \in Nat
          BY <3>5, <1>1
        <5>2. j + 1 <= m
          <6> HIDE DEF n, m
          <6> QED
            BY <2>1, <3>5, <3>6, <5>1
        <5> HIDE DEF n, m
        <5> QED
          BY <2>1, <5>1, <5>2
      <4>2. arp_cache'[j + 1] = h
        <5>1. arp_cache[j] = h
          BY <3>10 DEF EntryAt
        <5> HIDE DEF m
        <5> QED
          BY <2>1, <4>1, <5>1
      <4> QED
        BY <4>1, <4>2 DEF EntryAt, Slot
    <3>11. CASE heard' = heard + 1 /\ UNCHANGED arp_state
      <4>1. i <= heard => i + 1 <= heard'
        BY <1>1, <3>11
      <4>2. Above(h, i) => Above(h, i + 1)'
        BY <3>10
      <4> HIDE DEF Top, Above
      <4> QED
        BY <3>4, <3>6, <3>9, <3>11, <4>1, <4>2
    <3>12. CASE ip = h /\ arp_state' = arp_idle
      <4>1. EntryAt(h, 1)' /\ 1 \in 1 .. (i + 1) - 1
        <5>1. 1 \in 1 .. m /\ 1 \in 1 .. (i + 1) - 1
          <6> HIDE DEF n, m
          <6> QED
            BY <2>1, <3>6
        <5> QED
          BY <2>1, <3>12, <5>1 DEF EntryAt, Slot
      <4>2. Above(h, i + 1)'
        BY <4>1
      <4> HIDE DEF Top, Above
      <4> QED
        BY <3>6, <3>9, <3>12, <4>2
    <3> QED
      BY <1>4, <3>11, <3>12
  <2> QED
    BY <2>2, <2>3
<1>5. CASE ArpPacket
  <2>1. ASSUME NEW sender \in Senders, ArpRequest(sender)
        PROVE  (\E i \in 1 .. heard + 1 :
                  Top(i) /\ (i <= heard \/ (arp_state = arp_idle /\ Above(h, i))))'
    <3>1. /\ AddSource(sender) /\ heard' = heard + 1 /\ arp_asked' = arp_asked
          /\ sender \in Wire \cup {Zero} /\ UNCHANGED arp_state
      BY <2>1, HostsAssumption DEF ArpRequest
    <3>2. OnlyAsked(h)
      BY <1>1, <3>1 DEF OnlyAsked
    <3> QED
      BY <1>4, <3>1, <3>2
  <2>2. ASSUME NEW host \in arp_asked \cap Wire, ArpReply(host)
        PROVE  (\E i \in 1 .. heard + 1 :
                  Top(i) /\ (i <= heard \/ (arp_state = arp_idle /\ Above(h, i))))'
    <3>1. CASE arp_state = arp_wait
      <4>1. host = h /\ AddSource(host) /\ OnlyAsked(h) /\ heard' = heard /\ arp_state' = arp_idle
        BY <2>2, <3>1 DEF ArpReply, OnlyAsked
      <4> QED
        BY <1>4, <2>2, <3>1, <4>1
    <3>2. CASE arp_state # arp_wait
      BY <1>3, <2>2, <3>2 DEF ArpReply
    <3> QED
      BY <3>1, <3>2
  <2> QED
    BY <1>5, <2>1, <2>2 DEF ArpPacket
<1>6. ASSUME NEW ip, ArpLookup(ip)
      PROVE  (\E i \in 1 .. heard + 1 :
                Top(i) /\ (i <= heard \/ (arp_state = arp_idle /\ Above(h, i))))'
  <2>1. UNCHANGED <<arp_cache, heard>> /\ arp_asked \subseteq arp_asked'
    BY <1>6 DEF ArpLookup, AskOnMiss
  <2>2. (\E i \in Slot : EntryAt(Zero, i)) /\ OnlyAsked(h)
    BY <2>1 DEF OnlyAsked, EntryAt, Slot
  <2>3. PICK i \in 1 .. heard + 1 :
          Top(i) /\ (i <= heard \/ (arp_state = arp_idle /\ Above(h, i)))
    BY <1>2, <2>2
  <2>4. Top(i)' /\ (Above(h, i) => Above(h, i)')
    BY <2>1, <2>3 DEF EntryAt, Slot
  <2>5. CASE UNCHANGED arp_state
    BY <2>1, <2>3, <2>4, <2>5
  <2>6. CASE ~ UNCHANGED arp_state
    <3>1. ~ Resolved(ip) /\ arp_state' = arp_wait /\ arp_asked' = arp_asked \cup {NextHop(ip)}
      BY <1>6, <2>6 DEF ArpLookup, AskOnMiss
    <3>2. NextHop(ip) = h
      BY <3>1 DEF OnlyAsked
    <3>3. ~ Above(h, i)
      <4>1. ASSUME NEW j \in 1 .. i - 1, EntryAt(h, j) PROVE FALSE
        <5>1. j \in 1 .. Len(arp_cache) /\ arp_cache[j] = h
          BY <4>1 DEF EntryAt, Slot
        <5>2. ASSUME NEW k \in 1 .. j - 1 PROVE arp_cache[k] # Zero
          <6>1. k \in 1 .. i - 1 /\ k \in 1 .. Len(arp_cache)
            BY <1>1, <5>1, <5>2
          <6> QED
            BY <2>3, <6>1 DEF EntryAt, Slot
        <5> QED
          BY <3>1, <3>2, <5>1, <5>2 DEF Resolved, Cached
      <4> QED
        BY <4>1
    <3> QED
      BY <2>1, <2>3, <2>4, <3>3
  <2> QED
    BY <2>5, <2>6
<1> QED
  BY <1>3, <1>5, <1>6, ArpShape

\* What hides the others stays first of its kind, with the entry of h above it at the limit.
LEMMA ZeroStaysStep ==
  ASSUME DhcpInv, ArpInv, Next
  PROVE  ZeroStays'
BY ZeroKept DEF ZeroStays

----------------------------------------------------------------------------
(* Ports, packets and sessions.                                            *)

\* The ports of transfers are different, and the current one is the last.
LEMMA PortFacts ==
  ASSUME tftp_client_port \in 0 .. MaxTransfers
  PROVE  /\ UsedPorts \subseteq Port
         /\ tftp_client_port > 0 => MyPort \in UsedPorts
         /\ tftp_client_port = 0 => UsedPorts = {}
         /\ tftp_client_port \in Nat
<1>1. MaxTransfers \in 0 .. 255 /\ tftp_client_port \in 0 .. 255
  BY TftpAssumption
<1>2. \A n \in 0 .. 255 : Port69(n) \in Port
  BY DEF Port69, Port, Byte
<1> QED
  BY <1>1, <1>2 DEF UsedPorts, MyPort

\* A port no packet and no session has used.
LEMMA FreshPort ==
  ASSUME tftp_client_port \in Nat
  PROVE  Port69(tftp_client_port + 1) \notin UsedPorts
<1>1. ASSUME NEW n \in 1 .. tftp_client_port, Port69(n) = Port69(tftp_client_port + 1) PROVE FALSE
  <2>1. Port69(n).lo = n /\ Port69(tftp_client_port + 1).lo = tftp_client_port + 1
    BY DEF Port69
  <2> QED
    BY <1>1, <2>1
<1> QED
  BY <1>1 DEF UsedPorts

\* A packet of the current transfer.
Packet(server, blk, packet) ==
  [op |-> packet.op, to |-> server, from |-> Me, blk |-> blk,
   data |-> packet.data, last |-> packet.last]

\* The fields of what is sent.
LEMMA PacketFields ==
  ASSUME NEW server, NEW blk, NEW packet
  PROVE  /\ Packet(server, blk, packet).op = packet.op
         /\ Packet(server, blk, packet).to = server
         /\ Packet(server, blk, packet).from = Me
         /\ Packet(server, blk, packet).blk = blk
         /\ Packet(server, blk, packet).data = packet.data
BY DEF Packet

\* ... and its last field.
LEMMA PacketLast ==
  ASSUME NEW server, NEW blk, NEW packet, packet.last \in BOOLEAN
  PROVE  Packet(server, blk, packet).last \in BOOLEAN
BY DEF Packet

\* The two packets that tftp_in builds.
LEMMA PacketsBuilt ==
  /\ AckPacket.op = "ACK" /\ AckPacket.last \in BOOLEAN
  /\ \A n : DataPacket(n).op = "DATA" /\ DataPacket(n).data = n /\ DataPacket(n).last \in BOOLEAN
BY DEF AckPacket, DataPacket

\* The request of a call.
LEMMA RequestBuilt ==
  /\ Request.op = (IF tftp_call = "download" THEN "RRQ" ELSE "WRQ")
  /\ Request.to.host = tftp_ip /\ Request.from = Me /\ Request.last \in BOOLEAN
BY DEF Request

\* What a call has set up before the first packet is sent.
LEMMA TransferShape ==
  ASSUME DhcpInv, NEW call \in {"download", "upload"}, NEW ip, CallTransfer(call, ip)
  PROVE  /\ tftp_client_port' = tftp_client_port + 1 /\ tftp_ip' = ip
         /\ tftp_state' = tftp_initializing /\ tftp_current_block_number' = 0
         /\ tftp_call' = call /\ tftp_call' # "none"
         /\ delivered' = <<>> /\ produced' = 0
         /\ tftp_resend_counter' = TFTP_MAX_RESENDS
         /\ tftp_phase' = "start" /\ tftp_result' = "none"
         /\ UNCHANGED <<arpVars, cfgVars, dhcpVars, tftp_break_inner_loop, tftp_actual_server,
                        tftp_outp, sent, sessions>>
<1>1. OneListener
  BY DEF DhcpInv
<1>2. listeners = <<>>
  BY <1>1, Zenon DEF CallTransfer, OneListener
<1>3. CanAdd(Port69(tftp_client_port'))
  BY <1>2, NoSlot, CbMaxAssumption DEF CanAdd, udp_cbcount
<1> QED
  BY <1>3, Zenon DEF CallTransfer, Transfer

\* The packets a step of the TFTP loop sends, and the states it goes to.
LEMMA TftpMoveSends ==
  ASSUME TftpMove
  PROVE  /\ \/ sent' = sent
            \/ sent' = sent \cup {Request}
            \/ /\ Unfinished
               /\ sent' = sent \cup {Packet(tftp_actual_server, tftp_current_block_number, tftp_outp)}
            \/ /\ Finished
               /\ sent' = sent \cup {Packet(tftp_actual_server, tftp_current_block_number, AckPacket)}
         /\ \/ tftp_state' = tftp_state /\ (tftp_outp' = tftp_outp \/ Finished)
            \/ tftp_state' \in {tftp_initializing, tftp_initial_request_sent}
         /\ tftp_phase' # "check"
         /\ tftp_phase' # "idle" =>
              ~ (Acknowledging /\ Resolved(tftp_actual_server.host))
         /\ tftp_phase' = "idle" => (tftp_result' = "ok" => Finished)
         /\ tftp_phase' = "idle" => tftp_state' = tftp_state
         /\ tftp_actual_server' = tftp_actual_server
<1> USE DEF Unfinished, Finished, Acknowledging, tftp_initializing, tftp_initial_request_sent,
            tftp_transmission_in_progress, tftp_complete, tftp_error
<1>1. ASSUME Outer
      PROVE  /\ \/ sent' = sent
                \/ sent' = sent \cup {Request}
                \/ /\ Unfinished
                   /\ sent' = sent \cup {Packet(tftp_actual_server, tftp_current_block_number, tftp_outp)}
                \/ /\ Finished
                   /\ sent' = sent \cup {Packet(tftp_actual_server, tftp_current_block_number, AckPacket)}
             /\ \/ tftp_state' = tftp_state /\ (tftp_outp' = tftp_outp \/ Finished)
                \/ tftp_state' \in {tftp_initializing, tftp_initial_request_sent}
             /\ tftp_phase' # "check"
             /\ tftp_phase' # "idle" => ~ (Finished /\ Resolved(tftp_actual_server.host))
             /\ tftp_phase' = "idle" => (tftp_result' = "ok" => Finished)
             /\ tftp_phase' = "idle" => tftp_state' = tftp_state
             /\ tftp_actual_server' = tftp_actual_server
  <2>0. tftp_actual_server' = tftp_actual_server
    BY <1>1 DEF Outer, tftpXfer
  <2>1. CASE OuterRequest
    BY <2>0, <2>1 DEF OuterRequest, SendTftpRequest, Put, Loop
  <2>2. CASE OuterResend
    BY <2>0, <2>2 DEF OuterResend, SendTftpPacket, Packet, Put, Loop
  <2>3. CASE OuterError
    BY <2>0, <2>3 DEF OuterError, ExitLoop
  <2>4. CASE OuterComplete
    BY <2>0, <2>4 DEF OuterComplete, SendTftpPacket, Packet, Put, ExitLoop
  <2>5. CASE OuterUnacknowledged
    BY <2>0, <2>5 DEF OuterUnacknowledged, Loop
  <2> QED
    BY <1>1, <2>1, <2>2, <2>3, <2>4, <2>5 DEF Outer
<1>2. CASE StartLoop \/ BlockArrived \/ TftpTickResend
  BY <1>1, <1>2 DEF StartLoop, BlockArrived, TftpTickResend
<1>3. CASE TftpKeepPolling
  BY <1>3 DEF TftpKeepPolling, TftpCheck, tftpXfer
<1>4. CASE TftpTickTimeout \/ TftpAbort
  BY <1>4 DEF TftpTickTimeout, TftpAbort, ExitWithError, ExitLoop, tftpXfer
<1> QED
  BY <1>2, <1>3, <1>4 DEF TftpMove

\* What tftp_in is given comes from a session of this transfer, or is an error.
LEMMA Heard ==
  ASSUME DhcpInv, TftpTypeOK, TransferInv, ReceiveTftp
  PROVE  \E p : /\ TftpIn(p)
                /\ \/ p.op = "ERROR"
                   \/ \E s \in MySessions :
                        /\ s.op = "RRQ" /\ p.op = "DATA" /\ p.from = s.id /\ p.blk \in 1 .. s.blk
                        /\ p.last \in BOOLEAN /\ (p.last <=> p.blk = FileLen[s.id.host])
                   \/ \E s \in MySessions :
                        s.op = "WRQ" /\ p.op = "ACK" /\ p.from = s.id /\ p.blk \in 0 .. s.blk
<1>1. PICK p \in Datagrams : p.to.port.lo = MyPort.lo /\ p.to.port.hi = MyPort.hi /\ TftpIn(p)
  BY BlockHeard
<1>2. CASE \E h \in Refusing : p \in ErrorsOf(h)
  <2>1. p.op = "ERROR"
    BY <1>2 DEF ErrorsOf
  <2> QED
    BY <1>1, <2>1
<1>3. ASSUME NEW s \in sessions, p \in FromSession(s)
      PROVE  \/ \E t \in MySessions :
                  /\ t.op = "RRQ" /\ p.op = "DATA" /\ p.from = t.id /\ p.blk \in 1 .. t.blk
                  /\ p.last \in BOOLEAN /\ (p.last <=> p.blk = FileLen[t.id.host])
             \/ \E t \in MySessions :
                  t.op = "WRQ" /\ p.op = "ACK" /\ p.from = t.id /\ p.blk \in 0 .. t.blk
  <2>1. s \in Session /\ s.client.port \in Port /\ s.op \in {"RRQ", "WRQ"}
    BY DEF TransferInv, SessionInv, Session
  <2>2. p.to = s.client
    BY <1>3 DEF FromSession
  <2>3. s.client.port = MyPort
    <3>1. MyPort \in Port
      BY Ports DEF DhcpInv, NetTypeOK
    <3> QED
      BY <1>1, <2>1, <2>2, <3>1 DEF Port
  <2>4. s \in MySessions
    BY <2>3 DEF MySessions
  <2>5. CASE s.op = "RRQ"
    <3>1. PICK n \in 1 .. s.blk :
            p = [op |-> "DATA", from |-> s.id, to |-> s.client, blk |-> n,
                 last |-> n = FileLen[s.id.host]]
      BY <1>3, <2>5 DEF FromSession
    <3>2. p.op = "DATA" /\ p.from = s.id /\ p.blk = n
      BY <3>1
    <3>3. p.last \in BOOLEAN /\ (p.last <=> n = FileLen[s.id.host])
      BY <3>1
    <3> QED
      BY <2>4, <2>5, <3>2, <3>3, Zenon
  <2>6. CASE s.op = "WRQ"
    <3>1. p.op = "ACK" /\ p.from = s.id /\ p.blk \in 0 .. s.blk
      BY <1>3, <2>6 DEF FromSession
    <3> QED
      BY <2>4, <2>6, <3>1
  <2> QED
    BY <2>1, <2>5, <2>6
<1>4. (\E h \in Refusing : p \in ErrorsOf(h)) \/ (\E s \in sessions : p \in FromSession(s))
  <2>1. p \in (UNION {FromSession(s) : s \in sessions}) \/ p \in (UNION {ErrorsOf(h) : h \in Refusing})
    BY <1>1 DEF Datagrams
  <2>2. ASSUME p \in UNION {FromSession(s) : s \in sessions}
        PROVE  \E s \in sessions : p \in FromSession(s)
    <3>1. PICK T \in {FromSession(s) : s \in sessions} : p \in T
      BY <2>2
    <3>2. PICK s \in sessions : T = FromSession(s)
      BY <3>1
    <3> QED
      BY <3>1, <3>2
  <2>3. ASSUME p \in UNION {ErrorsOf(h) : h \in Refusing}
        PROVE  \E h \in Refusing : p \in ErrorsOf(h)
    <3>1. PICK T \in {ErrorsOf(h) : h \in Refusing} : p \in T
      BY <2>3
    <3>2. PICK h \in Refusing : T = ErrorsOf(h)
      BY <3>1
    <3> QED
      BY <3>1, <3>2
  <2> QED
    BY <2>1, <2>2, <2>3
<1> QED
  BY <1>1, <1>2, <1>3, <1>4, Zenon

----------------------------------------------------------------------------
(* The blocks of a transfer.                                               *)

\* Small numbers are their own low byte.
LEMMA LowByte == \A a \in 0 .. 255 : a % 256 = a
OBVIOUS

\* The types of what TransferInv is about.
LEMMA TransferTypes ==
  ASSUME DhcpInv, TftpTypeOK, TransferInv
  PROVE  /\ Len(delivered) \in Nat /\ produced \in 0 .. UploadLen /\ produced \in Nat
         /\ UploadLen \in Nat /\ UploadLen > 0
         /\ tftp_client_port \in 0 .. MaxTransfers /\ tftp_client_port \in Nat
         /\ \A h \in Hosts : FileLen[h] \in Nat
         /\ tftp_current_block_number = Len(delivered) + produced
BY TftpAssumption DEF DhcpInv, NetTypeOK, TftpTypeOK, TransferInv, DownloadInv

\* The lengths of files fit a byte.
LEMMA ShortFile ==
  ASSUME ShortFiles
  PROVE  /\ UploadLen \in 0 .. 255 /\ UploadLen \in Nat /\ UploadLen > 0
         /\ \A h \in Hosts : FileLen[h] \in 0 .. 255 /\ FileLen[h] \in Nat
<1>1. UploadLen \in Nat \ {0} /\ \A h \in Hosts : FileLen[h] \in Nat
  BY TftpAssumption
<1>2. UploadLen < 256 /\ \A h \in Hosts : FileLen[h] < 256
  BY DEF ShortFiles
<1>3. ASSUME NEW h \in Hosts PROVE FileLen[h] \in 0 .. 255 /\ FileLen[h] \in Nat
  BY <1>1, <1>2
<1> QED
  BY <1>1, <1>2, <1>3

\* What MySessions are.
LEMMA SessionFacts ==
  ASSUME TransferInv, NEW s \in MySessions
  PROVE  /\ s \in sessions /\ s \in Session /\ s.id.host \in Hosts /\ s.blk \in Nat
         /\ s.id \in [host : Hosts, tid : Tids]
         /\ s.client.port = MyPort /\ s.op \in {"RRQ", "WRQ"}
         /\ Asked(s.op) /\ Reaches(s.id.host, tftp_ip)
         /\ s.op = "RRQ" => s.blk \in 1 .. FileLen[s.id.host]
<1>1. s \in sessions /\ s.client.port = MyPort /\ sessions \subseteq Session
  BY DEF MySessions, TransferInv, SessionInv
<1>2. s \in Session
  BY <1>1
<1>3. /\ s.id \in [host : Hosts, tid : Tids] /\ s.id.host \in Hosts /\ s.blk \in Nat
      /\ s.op \in {"RRQ", "WRQ"}
  BY <1>2 DEF Session
<1>4. Asked(s.op) /\ Reaches(s.id.host, tftp_ip)
  BY DEF TransferInv, RequestInv
<1>5. s.op = "RRQ" => s.blk \in 1 .. FileLen[s.id.host]
  BY <1>1 DEF TransferInv, SessionInv
<1> QED
  BY <1>1, <1>2, <1>3, <1>4, <1>5

\* The block that tftp_in takes for the next one is the next one, from the source.
LEMMA DataHeard ==
  ASSUME DhcpInv, TftpTypeOK, TransferInv, ShortFiles,
         NEW p, NEW s \in MySessions, s.op = "RRQ", p.blk \in 1 .. s.blk, ExpectedData(p)
  PROVE  /\ p.blk = Len(delivered) + 1 /\ produced = 0
         /\ Asked("RRQ") /\ ~ Asked("WRQ")
         /\ FileLen[s.id.host] \in Nat /\ p.blk <= FileLen[s.id.host]
         /\ delivered # <<>> => s.id = Source
<1>1. /\ s.id.host \in Hosts /\ s.blk \in 1 .. FileLen[s.id.host] /\ Asked("RRQ")
      /\ FileLen[s.id.host] \in 0 .. 255 /\ FileLen[s.id.host] \in Nat
  BY SessionFacts, ShortFile
<1>2. ~ Asked("WRQ")
  BY <1>1 DEF TransferInv, RequestInv
<1>3. produced = 0 /\ tftp_current_block_number = Len(delivered) /\ Len(delivered) \in Nat
  BY <1>2, TransferTypes DEF TransferInv, UploadInv
<1>4. p.blk - 1 \in 0 .. 255 /\ p.blk <= FileLen[s.id.host]
  BY <1>1
<1>5. Len(delivered) \in 0 .. 255
  <2>1. CASE delivered = <<>>
    BY <2>1
  <2>2. CASE delivered # <<>>
    <3>1. Source.host \in Hosts
      <4>1. delivered \in Seq([from : [host : Hosts, tid : Tids], blk : Nat])
        BY DEF TransferInv, DownloadInv
      <4>2. Len(delivered) > 0
        BY <2>2, <4>1, EmptySeq
      <4>3. delivered[1] \in [from : [host : Hosts, tid : Tids], blk : Nat]
        <5>1. 1 \in 1 .. Len(delivered)
          BY <1>3, <4>2
        <5> QED
          BY <4>1, <5>1, ElementOfSeq
      <4> QED
        BY <4>3 DEF Source
    <3>2. FileLen[Source.host] \in 0 .. 255
      BY <3>1, ShortFile
    <3>3. Len(delivered) <= FileLen[Source.host]
      BY <2>2 DEF TransferInv, DownloadInv
    <3> DEFINE n == Len(delivered)
               f == FileLen[Source.host]
    <3> HIDE DEF n, f
    <3>4. n \in Nat /\ f \in 0 .. 255 /\ n <= f
      BY <1>3, <3>2, <3>3 DEF n, f
    <3>5. n \in 0 .. 255
      BY <3>4
    <3> QED
      BY <3>5 DEF n
  <2> QED
    BY <2>1, <2>2
<1>6. (p.blk - 1) % 256 = Len(delivered) % 256
  BY <1>3 DEF ExpectedData
<1>7. p.blk = Len(delivered) + 1
  <2>1. p.blk - 1 = Len(delivered)
    BY <1>4, <1>5, <1>6, LowByte
  <2> QED
    BY <1>1, <1>3, <2>1
<1>8. ASSUME delivered # <<>> PROVE s.id = Source
  <2>1. Len(delivered) > 0
    <3>1. delivered \in Seq([from : [host : Hosts, tid : Tids], blk : Nat])
      BY DEF TransferInv, DownloadInv
    <3> QED
      BY <1>8, <3>1, EmptySeq
  <2>2. s.blk > 1
    BY <1>1, <1>3, <1>7, <2>1
  <2> QED
    BY <2>2 DEF TransferInv, DownloadInv
<1> QED
  BY <1>1, <1>2, <1>3, <1>4, <1>7, <1>8

\* The acknowledgement that tftp_in takes for that of the last block is of that block, and
\* there is another to send.
LEMMA AckHeard ==
  ASSUME DhcpInv, TftpTypeOK, TransferInv, ShortFiles, tftp_phase = "poll",
         NEW p, NEW s \in MySessions, s.op = "WRQ", p.blk \in 0 .. s.blk, ExpectedAck(p)
  PROVE  /\ p.blk = produced /\ s.blk = produced /\ produced < UploadLen
         /\ delivered = <<>> /\ Len(delivered) = 0
         /\ Asked("WRQ") /\ ~ Asked("RRQ")
<1>1. Asked("WRQ") /\ s.blk \in Nat
  BY SessionFacts
<1>2. ~ Asked("RRQ")
  BY <1>1 DEF TransferInv, RequestInv
<1>3. delivered = <<>> /\ Len(delivered) = 0
  BY <1>2, EmptySeq DEF TransferInv, DownloadInv
<1>4. tftp_current_block_number = produced /\ produced \in Nat /\ produced <= UploadLen
      /\ UploadLen \in 0 .. 255 /\ UploadLen > 0
  BY <1>3, TransferTypes, ShortFile
<1>5. s.blk = 0 \/ \E q \in Mine : q.op = "DATA" /\ q.blk = s.blk
  BY DEF TransferInv, UploadInv
<1>6. s.blk = 0 \/ s.blk \in 1 .. produced
  BY <1>5 DEF TransferInv, UploadInv
<1>7. p.blk \in 0 .. 255 /\ produced \in 0 .. 255
  BY <1>1, <1>4, <1>6
<1>8. p.blk = produced
  BY <1>4, <1>7, LowByte DEF ExpectedAck
<1>9. s.blk = produced
  BY <1>1, <1>4, <1>6, <1>8
<1>10. ASSUME produced = UploadLen PROVE FALSE
  <2>1. LastSent
    BY <1>4, <1>5, <1>9, <1>10 DEF LastSent
  <2> QED
    BY <2>1 DEF TransferInv, LastBlockInv, Acknowledging
<1> QED
  BY <1>1, <1>2, <1>3, <1>4, <1>8, <1>9, <1>10

\* The numbers of a transfer.
LEMMA TftpTypeStep ==
  ASSUME DhcpInv, TftpTypeOK, TransferInv, ShortFiles, Next
  PROVE  TftpTypeOK'
<1> USE DEF tftp_error, tftp_initializing, tftp_initial_request_sent,
            tftp_transmission_in_progress, tftp_complete
<1>1. TftpTypeOK /\ TFTP_MAX_RESENDS \in Nat /\ TFTP_MAX_RESENDS > 0 /\ FirstDhcp
      /\ tftp_client_port' \in 0 .. MaxTransfers /\ UploadLen \in Nat
  BY PortStep, TftpAssumption DEF DhcpInv, NetTypeOK
<1>2. ASSUME UNCHANGED <<tftp_client_port, tftp_ip, tftp_state, tftp_resend_counter,
                         tftp_break_inner_loop, tftp_current_block_number, tftp_call,
                         tftp_result, produced>>,
             tftp_phase' = tftp_phase \/ (tftp_phase = "poll" /\ tftp_phase' = "check")
      PROVE  TftpTypeOK'
  BY <1>1, <1>2 DEF TftpTypeOK
<1>3. CASE CallDhcp \/ DhcpMove \/ ServerMove
  BY <1>2, <1>3 DEF CallDhcp, DhcpMove, ServerMove, ServerStep, tftpVars, tftpLoop, tftpXfer
<1>4. CASE NoPacketWaiting \/ ReceiveArp \/ ReceiveOffer
  <2>1. UNCHANGED tftpRest /\ Poll
    BY <1>4 DEF NoPacketWaiting, ReceiveArp, ReceiveOffer
  <2>2. tftp_phase' = tftp_phase \/ (tftp_phase = "poll" /\ tftp_phase' = "check")
    BY <2>1, PollShape
  <2> QED
    BY <1>2, <2>1, <2>2 DEF tftpRest, tftpLoop, tftpXfer
<1>5. ASSUME NEW call \in {"download", "upload"}, NEW ip \in TftpDests[call],
             CallTransfer(call, ip)
      PROVE  TftpTypeOK'
  <2>1. ip \in Hosts \cup {Broadcast}
    BY TftpAssumption
  <2>2. /\ tftp_ip' = ip /\ tftp_state' = 1 /\ tftp_current_block_number' = 0
        /\ tftp_call' = call /\ produced' = 0 /\ tftp_resend_counter' = TFTP_MAX_RESENDS
        /\ tftp_phase' = "start" /\ tftp_result' = "none"
        /\ UNCHANGED tftp_break_inner_loop
    BY <1>5, TransferShape
  <2> QED
    BY <1>1, <2>1, <2>2 DEF TftpTypeOK
<1>6. CASE ReceiveTftp
  <2>1. tftp_phase = "poll" /\ tftp_phase' = "check"
    BY <1>6, BlockHeard
  <2>2. PICK p :
          /\ TftpIn(p)
          /\ \/ p.op = "ERROR"
             \/ \E s \in MySessions : s.op = "RRQ" /\ p.op = "DATA" /\ p.blk \in 1 .. s.blk
             \/ \E s \in MySessions : s.op = "WRQ" /\ p.op = "ACK" /\ p.blk \in 0 .. s.blk
    BY <1>6, Heard
  <2>3. UNCHANGED <<tftp_client_port, tftp_ip, tftp_call, tftp_result>>
    BY <2>2 DEF TftpIn
  <2>4. ASSUME NEW packet, NEW last, GotExpectedBlock(p, packet, last),
               produced' \in 0 .. UploadLen
        PROVE  TftpTypeOK'
    <3>1. /\ tftp_current_block_number' = tftp_current_block_number + 1
          /\ tftp_resend_counter' = TFTP_MAX_RESENDS /\ tftp_break_inner_loop' = 1
          /\ tftp_state' \in {3, 4}
      BY <2>4 DEF GotExpectedBlock
    <3> QED
      BY <1>1, <2>1, <2>3, <2>4, <3>1 DEF TftpTypeOK
  <2>5. CASE IgnoredBlock
    BY <1>2, <2>1, <2>3, <2>5 DEF IgnoredBlock, tftpLoop, tftpXfer
  <2>6. CASE ErrorIn(p)
    BY <1>1, <2>1, <2>3, <2>6 DEF ErrorIn, tftpLoop, tftpXfer, TftpTypeOK
  <2>7. CASE DataIn(p)
    BY <1>1, <2>4, <2>5, <2>7 DEF DataIn, TftpTypeOK
  <2>8. CASE AckIn(p)
    <3>1. CASE ~ ExpectedAck(p)
      BY <2>5, <2>8, <3>1 DEF AckIn
    <3>2. CASE ExpectedAck(p)
      <4>1. PICK s \in MySessions : s.op = "WRQ" /\ p.blk \in 0 .. s.blk
        BY <2>2, <2>8 DEF AckIn
      <4>2. produced < UploadLen /\ produced \in 0 .. UploadLen
        BY <1>1, <2>1, <3>2, <4>1, AckHeard DEF TftpTypeOK
      <4>3. produced' = produced + 1
            /\ GotExpectedBlock(p, DataPacket(produced'), produced' = UploadLen)
        BY <2>8, <3>2 DEF AckIn
      <4>4. produced' \in 0 .. UploadLen
        BY <1>1, <4>2, <4>3
      <4> QED
        BY <2>4, <4>3, <4>4
    <3> QED
      BY <3>1, <3>2
  <2> QED
    BY <2>2, <2>6, <2>7, <2>8 DEF TftpIn
<1>7. CASE TftpMove
  <2>1. /\ UNCHANGED <<tftp_client_port, tftp_ip, tftpXfer>>
        /\ tftp_phase \in {"start", "check"} /\ tftp_phase' \in {"poll", "idle"}
        /\ \/ UNCHANGED <<tftp_call, tftp_result>>
           \/ tftp_call' = "none" /\ tftp_result' \in {"ok", "error", "aborted", "rejected", "timeout"}
    BY <1>7, TftpMoveShape DEF ExitLoop
  <2>2. tftp_state' \in {tftp_state, 1, 2}
    BY <1>7, TftpMoveSends
  <2>3. tftp_resend_counter \in 0 .. TFTP_MAX_RESENDS /\ tftp_resend_counter > 0
    BY <1>1, <2>1 DEF TftpTypeOK
  <2>4. /\ tftp_resend_counter' \in 0 .. TFTP_MAX_RESENDS
        /\ tftp_phase' # "idle" => tftp_resend_counter' > 0
    <3>1. CASE StartLoop \/ BlockArrived \/ TftpAbort
      BY <2>3, <3>1 DEF StartLoop, BlockArrived, TftpAbort
    <3>2. CASE TftpKeepPolling
      BY <2>3, <3>2 DEF TftpKeepPolling, tftpLoop
    <3>3. CASE TftpTickResend
      BY <1>1, <2>3, <3>3 DEF TftpTickResend, TftpTick
    <3>4. CASE TftpTickTimeout
      BY <1>1, <2>3, <3>4 DEF TftpTickTimeout, TftpTick, ExitWithError, ExitLoop
    <3> QED
      BY <1>7, <3>1, <3>2, <3>3, <3>4 DEF TftpMove
  <2>5. tftp_break_inner_loop' \in {tftp_break_inner_loop, 0}
    <3>1. ASSUME Outer PROVE tftp_break_inner_loop' \in {tftp_break_inner_loop, 0}
      BY <3>1 DEF Outer, OuterRequest, OuterResend, OuterError, OuterComplete,
         OuterUnacknowledged, Loop
    <3> QED
      BY <1>7, <3>1 DEF TftpMove, StartLoop, BlockArrived, TftpTickResend, TftpKeepPolling,
         tftpLoop, TftpTickTimeout, TftpAbort, ExitWithError
  <2> QED
    BY <1>1, <2>1, <2>2, <2>4, <2>5 DEF TftpTypeOK, tftpXfer
<1> QED
  BY <1>3, <1>4, <1>5, <1>6, <1>7, Moves

----------------------------------------------------------------------------
(* TransferInv, step by step.                                              *)

\* The states of a transfer are different.
LEMMA States ==
  /\ tftp_initializing = 1 /\ tftp_initial_request_sent = 2
  /\ tftp_transmission_in_progress = 3 /\ tftp_complete = 4 /\ tftp_error = 5
BY DEF tftp_initializing, tftp_initial_request_sent, tftp_transmission_in_progress,
       tftp_complete, tftp_error

\* A step that is not the transfer's leaves its invariant alone.
LEMMA TransferFrame ==
  ASSUME TransferInv, LastBlockInv',
         UNCHANGED <<tftp_client_port, tftp_ip, tftp_state, tftp_current_block_number,
                     tftp_actual_server, tftp_outp, tftp_call, tftp_result, delivered, produced,
                     sent, sessions>>,
         tftp_phase' = tftp_phase \/ (tftp_phase = "poll" /\ tftp_phase' = "check")
  PROVE  TransferInv'
<1> USE DEF MyPort, Mine, MySessions, Asked, Source, Unfinished, Finished
<1>1. SentInv' /\ SessionInv'
  BY DEF TransferInv, SentInv, SessionInv, UsedPorts
<1>2. RequestInv'
  BY DEF TransferInv, RequestInv
<1>3. DownloadInv'
  <2>1. BlocksInOrder'
    BY DEF TransferInv, DownloadInv, BlocksInOrder
  <2> QED
    BY <2>1 DEF TransferInv, DownloadInv
<1>4. UploadInv'
  BY DEF TransferInv, UploadInv
<1>5. StateInv'
  BY DEF TransferInv, StateInv, Whole
<1>6. ResultInv'
  BY DEF TransferInv, ResultInv
<1> QED
  BY <1>1, <1>2, <1>3, <1>4, <1>5, <1>6 DEF TransferInv

\* While dhcp_init runs there is no transfer, and the last block is not on its way while
\* packets are waited for.
LEMMA PollKeepsLastBlock ==
  ASSUME DhcpInv, TftpTypeOK, TransferInv, Poll, UNCHANGED <<tftpRest>>
  PROVE  LastBlockInv'
<1>1. CASE tftp_phase = "poll" /\ tftp_phase' = "check"
  <2>1. ~ LastSent
    BY <1>1 DEF TransferInv, LastBlockInv, Acknowledging
  <2>2. ~ LastSent'
    BY <2>1 DEF LastSent, Mine, MyPort, tftpRest
  <2> QED
    BY <2>2 DEF LastBlockInv
<1>2. CASE dhcp_phase = "poll" /\ tftp_phase' = tftp_phase
  <2>1. tftp_client_port = 0
    BY <1>2, TransferTypes DEF DhcpInv, FirstDhcp
  <2>2. tftp_phase = "idle"
    BY <2>1 DEF DhcpInv, FirstDhcp
  <2> QED
    BY <1>2, <2>2 DEF LastBlockInv
<1> QED
  BY <1>1, <1>2, PollShape

\* Steps that are not the transfer's.
LEMMA OtherStepTransfer ==
  ASSUME DhcpInv, TftpTypeOK, TransferInv,
         CallDhcp \/ DhcpMove \/ NoPacketWaiting \/ ReceiveArp \/ ReceiveOffer
  PROVE  TransferInv'
<1>1. CASE CallDhcp \/ DhcpMove
  <2>1. UNCHANGED tftpVars
    BY <1>1 DEF CallDhcp, DhcpMove
  <2>2. tftp_phase = "idle"
    <3>1. CASE CallDhcp
      BY <3>1 DEF CallDhcp, Idle
    <3>2. CASE DhcpMove
      <4>1. dhcp_result = "none"
        BY <3>2, DhcpMoveShape
      <4>2. tftp_client_port = 0
        BY <4>1, TransferTypes DEF DhcpInv, FirstDhcp
      <4> QED
        BY <4>2 DEF DhcpInv, FirstDhcp
    <3> QED
      BY <1>1, <3>1, <3>2
  <2>3. LastBlockInv'
    BY <2>1, <2>2 DEF LastBlockInv, tftpVars
  <2> QED
    BY <2>1, <2>3, TransferFrame DEF tftpVars, tftpXfer
<1>2. CASE NoPacketWaiting \/ ReceiveArp \/ ReceiveOffer
  <2>1. Poll /\ UNCHANGED tftpRest
    BY <1>2 DEF NoPacketWaiting, ReceiveArp, ReceiveOffer
  <2>2. LastBlockInv'
    BY <2>1, PollKeepsLastBlock
  <2>3. tftp_phase' = tftp_phase \/ (tftp_phase = "poll" /\ tftp_phase' = "check")
    BY <2>1, PollShape
  <2> QED
    BY <2>1, <2>2, <2>3, TransferFrame DEF tftpRest, tftpXfer
<1> QED
  BY <1>1, <1>2

\* A new transfer has a port of its own.
LEMMA CallTransferStep ==
  ASSUME DhcpInv, TftpTypeOK, TransferInv,
         NEW call \in {"download", "upload"}, NEW ip, CallTransfer(call, ip)
  PROVE  TransferInv'
<1>1. /\ tftp_client_port' = tftp_client_port + 1 /\ tftp_ip' = ip
      /\ tftp_state' = 1 /\ tftp_current_block_number' = 0
      /\ tftp_call' = call /\ tftp_call' # "none" /\ delivered' = <<>> /\ produced' = 0
      /\ tftp_phase' = "start" /\ tftp_result' = "none" /\ UNCHANGED <<sent, sessions>>
  BY TransferShape, States
<1>2. tftp_client_port \in Nat
  BY TransferTypes
<1>3. MyPort' \notin UsedPorts
  BY <1>1, <1>2, FreshPort DEF MyPort
<1>4. UsedPorts \subseteq UsedPorts'
  <2>1. 1 .. tftp_client_port \subseteq 1 .. tftp_client_port'
    BY <1>1, <1>2
  <2> QED
    BY <2>1 DEF UsedPorts
<1>5. Mine' = {} /\ MySessions' = {}
  <2>1. ASSUME NEW p \in sent PROVE p.from.port # MyPort'
    <3>1. p.from.port \in UsedPorts
      BY DEF TransferInv, SentInv
    <3> QED
      BY <1>3, <3>1
  <2>2. ASSUME NEW s \in sessions PROVE s.client.port # MyPort'
    BY <1>3 DEF TransferInv, SessionInv
  <2> QED
    BY <1>1, <2>1, <2>2 DEF Mine, MySessions
<1>6. SentInv'
  <2>1. ASSUME NEW p \in sent
        PROVE  p.from \in [ip : MyAddresses \cup {Zero}, port : UsedPorts']
    <3>1. p.from \in [ip : MyAddresses \cup {Zero}, port : UsedPorts]
      BY DEF TransferInv, SentInv
    <3> QED
      BY <1>4, <3>1
  <2> QED
    BY <1>1, <2>1 DEF TransferInv, SentInv
<1>7. SessionInv'
  BY <1>1, <1>4 DEF TransferInv, SessionInv
<1>8. \A op : ~ Asked(op)'
  BY <1>5 DEF Asked
<1>9. RequestInv' /\ UploadInv' /\ LastBlockInv' /\ ResultInv'
  <2>1. RequestInv'
    BY <1>1, <1>5, <1>8 DEF RequestInv
  <2>2. UploadInv'
    BY <1>1, <1>5, <1>8 DEF UploadInv
  <2>3. LastBlockInv' /\ ResultInv'
    BY <1>1, <1>5 DEF LastBlockInv, LastSent, ResultInv
  <2> QED
    BY <2>1, <2>2, <2>3
<1>10. StateInv'
  BY <1>1, States DEF StateInv, Unfinished, Finished
<1>11. DownloadInv'
  <2>1. BlocksInOrder'
    BY <1>1 DEF BlocksInOrder
  <2>2. Len(<<>>) = 0 /\ <<>> \in Seq([from : [host : Hosts, tid : Tids], blk : Nat])
    BY EmptySeq
  <2> QED
    BY <1>1, <1>5, <1>8, <2>1, <2>2 DEF DownloadInv
<1> QED
  BY <1>6, <1>7, <1>9, <1>10, <1>11 DEF TransferInv

\* A server accepts a request, or answers what it has got.
LEMMA ServerStepTransfer ==
  ASSUME DhcpInv, TftpTypeOK, TransferInv, ServerMove
  PROVE  TransferInv'
<1>1. /\ UNCHANGED <<udpVars, arpVars, cfgVars, tftp_client_port, tftp_ip, tftp_state, tftpLoop, tftpXfer,
                     tftp_outp, tftp_call, tftp_phase, tftp_result, sent>>
      /\ MyPort' = MyPort /\ Mine' = Mine /\ UsedPorts' = UsedPorts /\ \A op : Asked(op)' <=> Asked(op)
      /\ Source' = Source /\ (Finished' <=> Finished) /\ (Unfinished' <=> Unfinished)
  BY DEF ServerMove, ServerStep, MyPort, Mine, UsedPorts, Asked, Source, Finished, Unfinished, tftpXfer
<1>2. SentInv' /\ ResultInv'
  BY <1>1 DEF TransferInv, SentInv, ResultInv
<1>3. LastBlockInv'
  <2>1. Acknowledging' <=> Acknowledging
    BY <1>1 DEF Acknowledging, tftpLoop
  <2>2. Resolved(tftp_actual_server.host)' <=> Resolved(tftp_actual_server.host)
    BY <1>1 DEF Resolved, Cached, NextHop, arpVars, cfgVars, tftpXfer
  <2> QED
    BY <1>1, <2>1, <2>2 DEF TransferInv, LastBlockInv, LastSent
<1>4. BlocksInOrder'
  BY <1>1 DEF TransferInv, DownloadInv, BlocksInOrder, tftpXfer
\* What has to be shown of the session that changes.
<1>5. ASSUME NEW t, NEW old \in SUBSET sessions, sessions' = (sessions \ old) \cup {t},
             t \in Session, t.client.port \in UsedPorts,
             t.op = "RRQ" => t.blk \in 1 .. FileLen[t.id.host] /\ t.stored = <<>>,
             t.op = "WRQ" => Len(t.stored) = t.blk /\ \A i \in 1 .. t.blk : t.stored[i] = i,
             \A s \in old : s.op = t.op /\ t.client = s.client /\ t.blk >= s.blk,
             t.client.port = MyPort =>
               /\ Asked(t.op) /\ Reaches(t.id.host, tftp_ip)
               /\ t.op = "RRQ" /\ t.blk > 1 => delivered # <<>> /\ t.id = Source
               /\ t.op = "WRQ" => t.blk = 0 \/ \E p \in Mine : p.op = "DATA" /\ p.blk = t.blk
      PROVE  TransferInv'
  <2>1. SessionInv'
    BY <1>1, <1>5 DEF TransferInv, SessionInv
  <2>2. \A s \in MySessions' : s \in MySessions \/ (s = t /\ t.client.port = MyPort)
    BY <1>1, <1>5 DEF MySessions
  <2>3. RequestInv'
    BY <1>1, <1>5, <2>2 DEF TransferInv, RequestInv, Reaches
  <2>4. DownloadInv'
    BY <1>1, <1>4, <1>5, <2>2 DEF TransferInv, DownloadInv, tftpXfer
  <2>5. UploadInv'
    BY <1>1, <1>5, <2>2 DEF TransferInv, UploadInv, tftpXfer
  <2>6. StateInv'
    <3>1. ASSUME NEW s \in MySessions, s.op = "WRQ", s.blk >= UploadLen - 1
          PROVE  \E q \in MySessions' : q.op = "WRQ" /\ q.blk >= UploadLen - 1
      <4>1. CASE s \in old
        <5>1. t.op = "WRQ" /\ t.blk >= s.blk /\ t.client.port = MyPort
          BY <1>5, <3>1, <4>1 DEF MySessions
        <5>2. t.blk \in Nat /\ s.blk \in Nat /\ UploadLen \in Nat
          BY <1>5, SessionFacts, TransferTypes DEF Session
        <5>3. t.blk >= UploadLen - 1
          BY <3>1, <5>1, <5>2
        <5>4. t \in MySessions'
          BY <1>1, <1>5, <5>1 DEF MySessions
        <5> QED
          BY <5>1, <5>3, <5>4
      <4>2. CASE s \notin old
        <5>1. s \in MySessions'
          BY <1>1, <1>5, <4>2 DEF MySessions
        <5> QED
          BY <3>1, <5>1
      <4> QED
        BY <4>1, <4>2
    <3>2. Whole(Len(delivered))' <=> Whole(Len(delivered))
      BY <1>1 DEF Whole, tftpXfer
    <3> QED
      BY <1>1, <3>1, <3>2 DEF TransferInv, StateInv, tftpXfer
  <2> QED
    BY <1>2, <1>3, <2>1, <2>3, <2>4, <2>5, <2>6 DEF TransferInv
<1>6. ASSUME NEW p \in Requests, NEW host \in Hosts, NEW tid \in Tids, ServerAccepts(host, tid, p)
      PROVE  TransferInv'
  <2> DEFINE t == [id |-> [host |-> host, tid |-> tid], client |-> p.from, op |-> p.op,
                   blk |-> IF p.op = "RRQ" THEN 1 ELSE 0, stored |-> <<>>, done |-> FALSE]
  <2>1. sessions' = sessions \cup {t} /\ FileLen[host] > 0 /\ Reaches(host, p.to.host)
    BY <1>6 DEF ServerAccepts
  <2>2. p \in sent /\ p.op \in {"RRQ", "WRQ"}
        /\ p.from \in [ip : MyAddresses \cup {Zero}, port : UsedPorts]
    BY DEF Requests, TransferInv, SentInv
  <2>3. UsedPorts \subseteq Port /\ FileLen[host] \in Nat
    BY TransferTypes, PortFacts
  <2>4. p.from \in [ip : MyAddresses \cup {Zero}, port : Port] /\ p.from.port \in UsedPorts
    BY <2>2, <2>3
  <2>5. /\ t.client = p.from /\ t.op = p.op /\ t.id.host = host /\ t.stored = <<>>
        /\ t.blk = (IF p.op = "RRQ" THEN 1 ELSE 0) /\ t \in Session
    <3>1. <<>> \in Seq(Nat)
      BY EmptySeq
    <3> QED
      BY <2>2, <2>4, <3>1 DEF Session
  <2> HIDE DEF t
  <2>6. p.from.port = MyPort => Asked(p.op) /\ p.to.host = tftp_ip
    <3>1. p.from.port = MyPort => p \in Mine
      BY <2>2 DEF Mine
    <3> QED
      BY <2>2, <3>1 DEF Asked, TransferInv, RequestInv
  <2>7. sessions' = (sessions \ {}) \cup {t} /\ {} \in SUBSET sessions
    BY <2>1
  <2>8. /\ t.op = "RRQ" => t.blk \in 1 .. FileLen[t.id.host] /\ t.stored = <<>>
        /\ t.op = "WRQ" => Len(t.stored) = t.blk /\ \A i \in 1 .. t.blk : t.stored[i] = i
    <3>1. Len(<<>>) = 0
      BY EmptySeq
    <3> QED
      BY <2>1, <2>2, <2>3, <2>5, <3>1
  <2>9. t.client.port = MyPort =>
          /\ Asked(t.op) /\ Reaches(t.id.host, tftp_ip)
          /\ t.op = "RRQ" /\ t.blk > 1 => delivered # <<>> /\ t.id = Source
          /\ t.op = "WRQ" => t.blk = 0 \/ \E q \in Mine : q.op = "DATA" /\ q.blk = t.blk
    BY <2>1, <2>2, <2>5, <2>6
  <2>10. t \in Session /\ t.client.port \in UsedPorts
    BY <2>4, <2>5
  <2> QED
    BY <1>5, <2>7, <2>8, <2>9, <2>10
<1>7. ASSUME NEW s \in sessions, NEW p \in sent, ServerReceives(s, p)
      PROVE  TransferInv'
  <2>1. /\ s \in Session /\ s.client.port \in UsedPorts /\ s.blk \in Nat
        /\ s.op \in {"RRQ", "WRQ"} /\ s.stored \in Seq(Nat) /\ s.id.host \in Hosts
        /\ s.op = "RRQ" => s.blk \in 1 .. FileLen[s.id.host] /\ s.stored = <<>>
        /\ s.op = "WRQ" => Len(s.stored) = s.blk /\ \A i \in 1 .. s.blk : s.stored[i] = i
    BY DEF TransferInv, SessionInv, Session
  <2>2. p.to = s.id /\ p.from = s.client
    BY <1>7 DEF ServerReceives
  <2>3. s.client.port = MyPort =>
          s \in MySessions /\ p \in Mine /\ Asked(s.op) /\ Reaches(s.id.host, tftp_ip)
    <3>1. s.client.port = MyPort => s \in MySessions /\ p \in Mine
      BY <2>2 DEF MySessions, Mine
    <3> QED
      BY <3>1, SessionFacts
  <2>4. CASE /\ s.op = "RRQ" /\ p.op = "ACK" /\ s.blk < FileLen[s.id.host]
             /\ sessions' = (sessions \ {s}) \cup {[s EXCEPT !.blk = @ + 1]}
    <3> DEFINE t == [s EXCEPT !.blk = @ + 1]
    <3>1. /\ t \in Session /\ t.client = s.client /\ t.op = s.op /\ t.id = s.id
          /\ t.stored = s.stored /\ t.blk = s.blk + 1
      BY <2>1 DEF Session
    <3>2. sessions' = (sessions \ {s}) \cup {t} /\ {s} \in SUBSET sessions
      BY <2>4
    <3> HIDE DEF t
    <3>3. FileLen[s.id.host] \in Nat /\ t.blk \in 1 .. FileLen[t.id.host] /\ t.blk >= s.blk
      <4>1. FileLen[s.id.host] \in Nat
        BY <2>1, TransferTypes
      <4> QED
        BY <2>1, <2>4, <3>1, <4>1
    <3>4. s.client.port = MyPort => delivered # <<>> /\ s.id = Source
      BY <2>2, <2>3, <2>4 DEF TransferInv, DownloadInv, RequestInv
    <3>5. t.client.port = MyPort =>
            /\ Asked(t.op) /\ Reaches(t.id.host, tftp_ip)
            /\ t.op = "RRQ" /\ t.blk > 1 => delivered # <<>> /\ t.id = Source
            /\ t.op = "WRQ" => t.blk = 0 \/ \E q \in Mine : q.op = "DATA" /\ q.blk = t.blk
      BY <2>3, <2>4, <3>1, <3>4
    <3>6. /\ t.op = "RRQ" => t.blk \in 1 .. FileLen[t.id.host] /\ t.stored = <<>>
          /\ t.op = "WRQ" => Len(t.stored) = t.blk /\ \A i \in 1 .. t.blk : t.stored[i] = i
          /\ t.client.port \in UsedPorts
          /\ \A q \in {s} : q.op = t.op /\ t.client = q.client /\ t.blk >= q.blk
      BY <2>1, <2>4, <3>1, <3>3
    <3> QED
      BY <1>5, <3>1, <3>2, <3>5, <3>6
  <2>5. CASE /\ s.op = "WRQ" /\ p.op = "DATA" /\ p.blk = s.blk + 1
             /\ sessions' = (sessions \ {s}) \cup
                  {[s EXCEPT !.blk = @ + 1, !.stored = Append(@, p.data), !.done = p.last]}
    <3> DEFINE t == [s EXCEPT !.blk = @ + 1, !.stored = Append(@, p.data), !.done = p.last]
    <3>1. p.data = s.blk + 1 /\ p.data \in Nat /\ p.last \in BOOLEAN
      BY <2>1, <2>5 DEF TransferInv, SentInv
    <3>2. Append(s.stored, p.data) \in Seq(Nat)
      BY <2>1, <3>1
    <3>3. /\ t \in Session /\ t.client = s.client /\ t.op = s.op /\ t.id = s.id
          /\ t.stored = Append(s.stored, p.data) /\ t.blk = s.blk + 1
      BY <2>1, <3>1, <3>2 DEF Session
    <3>4. sessions' = (sessions \ {s}) \cup {t} /\ {s} \in SUBSET sessions
      BY <2>5
    <3> HIDE DEF t
    <3>5. Len(t.stored) = t.blk /\ \A i \in 1 .. t.blk : t.stored[i] = i
      <4>1. /\ Len(s.stored) = s.blk /\ \A i \in 1 .. s.blk : s.stored[i] = i
            /\ s.stored \in Seq(Nat) /\ s.blk \in Nat
        BY <2>1, <2>5
      <4>2. /\ Len(Append(s.stored, p.data)) = s.blk + 1
            /\ \A i \in 1 .. s.blk + 1 :
                 Append(s.stored, p.data)[i] = IF i <= s.blk THEN s.stored[i] ELSE p.data
        BY <3>1, <4>1, AppendProperties
      <4>3. ASSUME NEW i \in 1 .. s.blk + 1 PROVE Append(s.stored, p.data)[i] = i
        <5>1. CASE i <= s.blk
          BY <4>1, <4>2, <5>1
        <5>2. CASE ~ (i <= s.blk)
          BY <3>1, <4>1, <4>2, <5>2
        <5> QED
          BY <5>1, <5>2
      <4> QED
        BY <3>3, <4>2, <4>3
    <3>6. t.client.port = MyPort =>
            /\ Asked(t.op) /\ Reaches(t.id.host, tftp_ip)
            /\ t.op = "RRQ" /\ t.blk > 1 => delivered # <<>> /\ t.id = Source
            /\ t.op = "WRQ" => t.blk = 0 \/ \E q \in Mine : q.op = "DATA" /\ q.blk = t.blk
      BY <2>3, <2>5, <3>3
    <3>7. /\ t.op = "RRQ" => t.blk \in 1 .. FileLen[t.id.host] /\ t.stored = <<>>
          /\ t.client.port \in UsedPorts
          /\ \A q \in {s} : q.op = t.op /\ t.client = q.client /\ t.blk >= q.blk
      BY <2>1, <2>5, <3>3
    <3> QED
      BY <1>5, <3>3, <3>4, <3>5, <3>6, <3>7
  <2> QED
    BY <1>7, <2>4, <2>5, Zenon DEF ServerReceives
<1> QED
  BY <1>6, <1>7 DEF ServerMove, ServerStep

\* What a packet more changes.
LEMMA MoreSent ==
  ASSUME DhcpInv, TftpTypeOK, TransferInv, NEW q, sent' = sent \cup {q}, q.from = Me, q.last \in BOOLEAN,
         q.op = "DATA" => q.blk = q.data, tftp_client_port > 0,
         UNCHANGED <<tftp_client_port, sessions>>
  PROVE  /\ SentInv' /\ SessionInv'
         /\ MyPort' = MyPort /\ MySessions' = MySessions
         /\ Mine' = Mine \cup {q}
         /\ \A op : Asked(op)' <=> (Asked(op) \/ q.op = op)
<1>1. MyPort' = MyPort /\ UsedPorts' = UsedPorts
  BY DEF MyPort, UsedPorts
<1>2. MyPort \in UsedPorts /\ cfg_ip \in MyAddresses \cup {Zero}
  BY PortFacts DEF DhcpInv, NetTypeOK, TftpTypeOK, ArpTypeOK
<1>3. q.from \in [ip : MyAddresses \cup {Zero}, port : UsedPorts] /\ q.from.port = MyPort
  BY <1>2 DEF Me
<1>4. SentInv'
  BY <1>1, <1>3 DEF TransferInv, SentInv
<1>5. SessionInv' /\ MySessions' = MySessions
  BY <1>1 DEF TransferInv, SessionInv, MySessions
<1>6. Mine' = Mine \cup {q}
  BY <1>1, <1>3 DEF Mine
<1>7. \A op : Asked(op)' <=> (Asked(op) \/ q.op = op)
  BY <1>6 DEF Asked
<1> QED
  BY <1>1, <1>4, <1>5, <1>6, <1>7

\* What no packet more leaves alone.
LEMMA NoneSent ==
  ASSUME TransferInv, UNCHANGED <<tftp_client_port, sessions, sent>>
  PROVE  /\ SentInv' /\ SessionInv'
         /\ MyPort' = MyPort /\ MySessions' = MySessions /\ Mine' = Mine
         /\ \A op : Asked(op)' <=> Asked(op)
<1>1. MyPort' = MyPort /\ UsedPorts' = UsedPorts
  BY DEF MyPort, UsedPorts
<1>2. SentInv' /\ SessionInv'
  BY <1>1 DEF TransferInv, SentInv, SessionInv
<1>3. MySessions' = MySessions /\ Mine' = Mine
  BY <1>1 DEF MySessions, Mine
<1>4. \A op : Asked(op)' <=> Asked(op)
  BY <1>3 DEF Asked
<1> QED
  BY <1>1, <1>2, <1>3, <1>4

\* A resend or an acknowledgement is of the block that is due.
LEMMA Resent ==
  ASSUME DhcpInv, TftpTypeOK, TransferInv, NEW q,
         \/ /\ Unfinished
            /\ q = Packet(tftp_actual_server, tftp_current_block_number, tftp_outp)
         \/ /\ Finished
            /\ q = Packet(tftp_actual_server, tftp_current_block_number, AckPacket)
  PROVE  /\ q.from = Me /\ q.last \in BOOLEAN
         /\ \/ /\ q.op = "ACK"
               /\ Asked("WRQ") \/ (delivered # <<>> /\ q.to = Source)
            \/ /\ q.op = "DATA" /\ q.blk = q.data /\ q.blk \in 1 .. produced
               /\ q.blk # UploadLen
<1>1. produced \in Nat /\ tftp_current_block_number = Len(delivered) + produced
  BY TransferTypes
<1>2. \/ /\ delivered # <<>> /\ tftp_actual_server = Source
         /\ Unfinished => tftp_outp = AckPacket
      \/ /\ produced > 0 /\ (Finished <=> produced = UploadLen)
         /\ Unfinished => tftp_outp = DataPacket(produced)
  BY DEF TransferInv, StateInv
<1>3. produced > 0 => Asked("WRQ") /\ delivered = <<>>
  BY DEF TransferInv, UploadInv
<1>4. ASSUME q = Packet(tftp_actual_server, tftp_current_block_number, AckPacket)
      PROVE  /\ q.from = Me /\ q.last \in BOOLEAN /\ q.op = "ACK"
             /\ Asked("WRQ") \/ (delivered # <<>> /\ q.to = Source)
  <2>1. q.from = Me /\ q.op = "ACK" /\ q.to = tftp_actual_server
    BY <1>4, PacketFields, PacketsBuilt
  <2>2. q.last \in BOOLEAN
    BY <1>4, PacketLast, PacketsBuilt
  <2>3. Asked("WRQ") \/ (delivered # <<>> /\ q.to = Source)
    BY <1>2, <1>3, <2>1
  <2> QED
    BY <2>1, <2>2, <2>3
<1>5. ASSUME Unfinished, produced > 0, Finished <=> produced = UploadLen,
             tftp_outp = DataPacket(produced),
             q = Packet(tftp_actual_server, tftp_current_block_number, tftp_outp)
      PROVE  /\ q.from = Me /\ q.last \in BOOLEAN
             /\ q.op = "DATA" /\ q.blk = q.data /\ q.blk \in 1 .. produced /\ q.blk # UploadLen
  <2>1. /\ q.from = Me /\ q.op = "DATA" /\ q.blk = tftp_current_block_number
        /\ q.data = produced
    BY <1>5, PacketFields, PacketsBuilt
  <2>2. q.last \in BOOLEAN
    BY <1>5, PacketLast, PacketsBuilt
  <2>3. tftp_current_block_number = produced
    BY <1>1, <1>3, <1>5, EmptySeq
  <2>4. produced # UploadLen
    BY <1>5, States DEF Unfinished, Finished
  <2>5. q.blk = q.data /\ q.blk \in 1 .. produced /\ q.blk # UploadLen
    BY <1>1, <1>5, <2>1, <2>3, <2>4
  <2> QED
    BY <2>1, <2>2, <2>5
<1>6. CASE q = Packet(tftp_actual_server, tftp_current_block_number, AckPacket)
  BY <1>4, <1>6
<1>7. CASE /\ Unfinished
           /\ q = Packet(tftp_actual_server, tftp_current_block_number, tftp_outp)
  <2>1. CASE tftp_outp = AckPacket
    BY <1>4, <1>7, <2>1
  <2>2. CASE /\ produced > 0 /\ (Finished <=> produced = UploadLen)
             /\ tftp_outp = DataPacket(produced)
    BY <1>5, <1>7, <2>2
  <2> QED
    BY <1>2, <1>7, <2>1, <2>2
<1> QED
  BY <1>6, <1>7

\* The loop sends the request and the packets of its own transfer.
LEMMA TftpMoveTransfer ==
  ASSUME DhcpInv, TftpTypeOK, TransferInv, TftpMove
  PROVE  TransferInv'
<1>1. /\ tftp_phase \in {"start", "check"} /\ tftp_result = "none" /\ tftp_client_port > 0
      /\ tftp_call \in {"download", "upload"}
  <2>1. tftp_phase \in {"start", "check"}
    BY TftpMoveShape
  <2> QED
    BY <2>1, TransferTypes
       DEF DhcpInv, FirstDhcp, TransferInv, RequestInv, NetTypeOK, TftpTypeOK
<1>2. /\ UNCHANGED <<tftp_client_port, tftp_ip, tftp_current_block_number, tftp_actual_server,
                     delivered, produced, sessions>>
      /\ \/ tftp_phase' = "poll" /\ UNCHANGED <<tftp_call, tftp_result>>
         \/ tftp_phase' = "idle" /\ tftp_call' = "none"
  BY TftpMoveShape DEF tftpXfer, ExitLoop
<1>3. /\ \/ tftp_state' = tftp_state /\ (tftp_outp' = tftp_outp \/ Finished)
         \/ tftp_state' \in {tftp_initializing, tftp_initial_request_sent}
      /\ tftp_phase' # "idle" => ~ (Acknowledging /\ Resolved(tftp_actual_server.host))
      /\ tftp_phase' = "idle" => (tftp_result' = "ok" => Finished)
      /\ tftp_phase' = "idle" => tftp_state' = tftp_state
  BY TftpMoveSends
<1>4. StateInv' \/ MySessions' # MySessions
  BY <1>2, <1>3, States
     DEF TransferInv, StateInv, Unfinished, Finished, Source, Whole
<1>5. ResultInv'
  BY <1>1, <1>2, <1>3 DEF ResultInv, Finished
<1>6. ~ LastSent \/ tftp_phase' = "idle"
  BY <1>1, <1>3 DEF TransferInv, LastBlockInv
<1>7. BlocksInOrder' /\ Source' = Source
  BY <1>2 DEF TransferInv, DownloadInv, BlocksInOrder, Source
<1>8. CASE sent' = sent
  <2>1. /\ SentInv' /\ SessionInv' /\ MySessions' = MySessions /\ Mine' = Mine
        /\ \A op : Asked(op)' <=> Asked(op)
    BY <1>2, <1>8, NoneSent
  <2>2. RequestInv'
    BY <1>1, <1>2, <2>1 DEF TransferInv, RequestInv
  <2>3. DownloadInv'
    BY <1>2, <1>7, <2>1 DEF TransferInv, DownloadInv
  <2>4. UploadInv'
    BY <1>2, <2>1 DEF TransferInv, UploadInv
  <2>5. LastBlockInv'
    BY <1>6, <2>1 DEF LastBlockInv, LastSent
  <2> QED
    BY <1>4, <1>5, <2>1, <2>2, <2>3, <2>4, <2>5 DEF TransferInv
<1>9. ASSUME NEW q, sent' = sent \cup {q}, q.from = Me, q.last \in BOOLEAN,
             \/ /\ q.op = (IF tftp_call = "download" THEN "RRQ" ELSE "WRQ")
                /\ q.to.host = tftp_ip
             \/ /\ q.op = "ACK"
                /\ Asked("WRQ") \/ (delivered # <<>> /\ q.to = Source)
             \/ /\ q.op = "DATA" /\ q.blk = q.data /\ q.blk \in 1 .. produced
                /\ q.blk # UploadLen
      PROVE  TransferInv'
  <2>1. /\ SentInv' /\ SessionInv' /\ MySessions' = MySessions /\ Mine' = Mine \cup {q}
        /\ \A op : Asked(op)' <=> (Asked(op) \/ q.op = op)
    BY <1>1, <1>2, <1>9, MoreSent
  <2>2. RequestInv'
    BY <1>1, <1>2, <1>9, <2>1 DEF TransferInv, RequestInv
  <2>3. DownloadInv'
    BY <1>2, <1>7, <1>9, <2>1 DEF TransferInv, DownloadInv
  <2>4. UploadInv'
    BY <1>2, <1>9, <2>1 DEF TransferInv, UploadInv
  <2>5. LastBlockInv'
    BY <1>6, <1>9, <2>1 DEF LastBlockInv, LastSent
  <2> QED
    BY <1>4, <1>5, <2>1, <2>2, <2>3, <2>4, <2>5 DEF TransferInv
<1>10. CASE sent' = sent \cup {Request}
  BY <1>9, <1>10, RequestBuilt
<1>11. ASSUME NEW q, sent' = sent \cup {q},
              \/ /\ Unfinished
                 /\ q = Packet(tftp_actual_server, tftp_current_block_number, tftp_outp)
              \/ /\ Finished
                 /\ q = Packet(tftp_actual_server, tftp_current_block_number, AckPacket)
       PROVE  TransferInv'
  <2>1. /\ q.from = Me /\ q.last \in BOOLEAN
        /\ \/ /\ q.op = "ACK"
              /\ Asked("WRQ") \/ (delivered # <<>> /\ q.to = Source)
           \/ /\ q.op = "DATA" /\ q.blk = q.data /\ q.blk \in 1 .. produced
              /\ q.blk # UploadLen
    BY <1>11, Resent
  <2> QED
    BY <1>9, <1>11, <2>1
<1> QED
  BY <1>8, <1>10, <1>11, TftpMoveSends

\* The sequence of blocks with one more.
LEMMA OneMoreBlock ==
  ASSUME NEW S, NEW s \in Seq(S), NEW e \in S
  PROVE  /\ Append(s, e) \in Seq(S) /\ Len(Append(s, e)) = Len(s) + 1 /\ Append(s, e) # <<>>
         /\ Append(s, e)[Len(s) + 1] = e
         /\ \A i \in 1 .. Len(s) : Append(s, e)[i] = s[i]
         /\ Append(s, e)[1] = IF s = <<>> THEN e ELSE s[1]
<1>1. /\ Append(s, e) \in Seq(S) /\ Len(Append(s, e)) = Len(s) + 1 /\ Len(s) \in Nat
      /\ \A i \in 1 .. Len(s) : Append(s, e)[i] = s[i]
      /\ Append(s, e)[Len(s) + 1] = e
  BY AppendProperties, LenProperties
<1>2. CASE s = <<>>
  BY <1>1, <1>2, EmptySeq
<1>3. CASE s # <<>>
  <2>1. Len(s) > 0
    BY <1>1, <1>3, EmptySeq
  <2>2. 1 \in 1 .. Len(s)
    BY <1>1, <2>1
  <2> QED
    BY <1>1, <1>3, <2>2, EmptySeq
<1> QED
  BY <1>2, <1>3

\* What tftp_in does with a block it expects.
LEMMA BlockTaken ==
  ASSUME DhcpInv, TftpTypeOK, TransferInv, ReceiveTftp, NEW p, NEW packet, NEW last,
         TftpIn(p), GotExpectedBlock(p, packet, last), packet.last \in BOOLEAN,
         packet.op = "DATA" => packet.data = tftp_current_block_number + 1
  PROVE  /\ UNCHANGED <<tftp_client_port, tftp_ip, tftp_call, tftp_result, sessions, arp_cache,
                        cfgVars>>
         /\ tftp_phase = "poll" /\ tftp_phase' = "check" /\ tftp_client_port > 0
         /\ tftp_result' = "none"
         /\ tftp_current_block_number' = tftp_current_block_number + 1
         /\ tftp_break_inner_loop' = 1
         /\ tftp_actual_server' = p.from
         /\ tftp_outp' = packet
         /\ tftp_state' = (IF last THEN tftp_complete ELSE tftp_transmission_in_progress)
         /\ SentInv' /\ SessionInv' /\ MySessions' = MySessions
         /\ ~ LastSent
         /\ \/ Mine' = Mine
            \/ /\ Resolved(p.from.host)
               /\ \E q : /\ Mine' = Mine \cup {q} /\ q.op = packet.op /\ q.to = p.from
                         /\ q.blk = tftp_current_block_number'
         /\ \A op \in {"RRQ", "WRQ"} : packet.op # op => (Asked(op)' <=> Asked(op))
<1>1. /\ UNCHANGED <<tftp_client_port, tftp_ip, tftp_call, tftp_result, sessions, arp_cache, cfgVars>>
      /\ tftp_current_block_number' = tftp_current_block_number + 1
      /\ tftp_break_inner_loop' = 1
      /\ tftp_actual_server' = p.from
      /\ tftp_outp' = packet
      /\ tftp_state' = (IF last THEN tftp_complete ELSE tftp_transmission_in_progress)
  BY DEF ReceiveTftp, TftpIn, GotExpectedBlock, SendTftpPacket, Put, ArpLookup
<1>2. tftp_phase = "poll" /\ tftp_phase' = "check"
  BY BlockHeard
<1>3. tftp_client_port > 0 /\ tftp_result = "none"
  BY <1>2, TransferTypes DEF DhcpInv, FirstDhcp
<1>4. ~ LastSent
  BY <1>2 DEF TransferInv, LastBlockInv, Acknowledging
<1> DEFINE q == Packet(p.from, tftp_current_block_number', packet)
<1>5. sent' = IF Resolved(p.from.host) THEN sent \cup {q} ELSE sent
  BY DEF GotExpectedBlock, SendTftpPacket, Put, Packet
<1>6. /\ q.from = Me /\ q.op = packet.op /\ q.to = p.from
      /\ q.blk = tftp_current_block_number' /\ q.data = packet.data
  BY PacketFields
<1>7. q.last \in BOOLEAN
  BY PacketLast
<1> HIDE DEF q
<1>8. CASE sent' = sent
  <2>1. /\ SentInv' /\ SessionInv' /\ MySessions' = MySessions /\ Mine' = Mine
        /\ \A op : Asked(op)' <=> Asked(op)
    BY <1>1, <1>8, NoneSent
  <2> QED
    BY <1>1, <1>2, <1>3, <1>4, <2>1
<1>9. CASE Resolved(p.from.host) /\ sent' = sent \cup {q}
  <2>1. q.op = "DATA" => q.blk = q.data
    BY <1>1, <1>6
  <2>2. /\ SentInv' /\ SessionInv' /\ MySessions' = MySessions /\ Mine' = Mine \cup {q}
        /\ \A op : Asked(op)' <=> (Asked(op) \/ q.op = op)
    BY <1>1, <1>3, <1>6, <1>7, <1>9, <2>1, MoreSent
  <2>3. \A op \in {"RRQ", "WRQ"} : packet.op # op => (Asked(op)' <=> Asked(op))
    BY <1>6, <2>2
  <2>4. \E r : /\ Mine' = Mine \cup {r} /\ r.op = packet.op /\ r.to = p.from
               /\ r.blk = tftp_current_block_number'
    BY <1>6, <2>2
  <2> QED
    BY <1>1, <1>2, <1>3, <1>4, <1>9, <2>2, <2>3, <2>4
<1> QED
  BY <1>5, <1>8, <1>9

\* A block of a download is taken.
LEMMA DataTaken ==
  ASSUME DhcpInv, TftpTypeOK, TransferInv, ShortFiles, ReceiveTftp, NEW p, TftpIn(p),
         DataIn(p), ExpectedData(p), NEW s \in MySessions,
         s.op = "RRQ", p.from = s.id, p.blk \in 1 .. s.blk,
         p.last \in BOOLEAN, p.last <=> p.blk = FileLen[s.id.host]
  PROVE  TransferInv'
<1>1. /\ p.blk = Len(delivered) + 1 /\ produced = 0
      /\ Asked("RRQ") /\ ~ Asked("WRQ")
      /\ FileLen[s.id.host] \in Nat /\ p.blk <= FileLen[s.id.host]
      /\ delivered # <<>> => s.id = Source
  BY DataHeard
<1>2. /\ GotExpectedBlock(p, AckPacket, p.last)
      /\ delivered' = Append(delivered, [from |-> s.id, blk |-> p.blk])
      /\ produced' = produced
  BY DEF DataIn
<1>3. /\ UNCHANGED <<tftp_client_port, tftp_ip, tftp_call, sessions>>
      /\ tftp_phase' = "check" /\ tftp_phase = "poll" /\ tftp_result' = "none"
      /\ tftp_current_block_number' = tftp_current_block_number + 1
      /\ tftp_actual_server' = s.id
      /\ tftp_outp' = AckPacket
      /\ tftp_state' = (IF p.last THEN tftp_complete ELSE tftp_transmission_in_progress)
      /\ SentInv' /\ SessionInv' /\ MySessions' = MySessions
      /\ ~ LastSent
      /\ \/ Mine' = Mine
         \/ \E q : Mine' = Mine \cup {q} /\ q.op = "ACK" /\ q.to = s.id
      /\ Asked("RRQ")' /\ ~ Asked("WRQ")'
  <2>1. AckPacket.op = "ACK" /\ AckPacket.last \in BOOLEAN
    BY PacketsBuilt
  <2> QED
    BY <1>1, <1>2, <2>1, BlockTaken
<1>4. /\ s.id \in [host : Hosts, tid : Tids] /\ s.id.host \in Hosts /\ s.blk \in Nat
      /\ Reaches(s.id.host, tftp_ip)
  BY SessionFacts
<1>5. delivered \in Seq([from : [host : Hosts, tid : Tids], blk : Nat]) /\ BlocksInOrder
      /\ tftp_current_block_number = Len(delivered) + produced /\ Len(delivered) \in Nat
  BY TransferTypes DEF TransferInv, DownloadInv
<1> DEFINE e == [from |-> s.id, blk |-> p.blk]
           n == Len(delivered)
<1>6. e \in [from : [host : Hosts, tid : Tids], blk : Nat] /\ e.from = s.id /\ e.blk = n + 1
  BY <1>1, <1>4, <1>5
<1>7. /\ delivered' \in Seq([from : [host : Hosts, tid : Tids], blk : Nat])
      /\ Len(delivered') = n + 1 /\ delivered' # <<>>
      /\ delivered'[n + 1] = e
      /\ \A i \in 1 .. n : delivered'[i] = delivered[i]
      /\ delivered'[1] = IF delivered = <<>> THEN e ELSE delivered[1]
  BY <1>2, <1>5, <1>6, OneMoreBlock
<1> HIDE DEF e
<1>8. Source' = s.id
  BY <1>1, <1>6, <1>7 DEF Source
<1>9. BlocksInOrder'
  <2>1. Reaches(s.id.host, tftp_ip')
    BY <1>3, <1>4 DEF Reaches
  <2>2. ASSUME NEW i \in 1 .. n + 1
        PROVE  /\ delivered'[i].blk = i /\ delivered'[i].from = s.id
               /\ Reaches(delivered'[i].from.host, tftp_ip')
    <3>1. CASE i = n + 1
      <4>1. delivered'[i] = e
        BY <1>7, <3>1
      <4> QED
        BY <1>6, <2>1, <3>1, <4>1
    <3>2. CASE i # n + 1
      <4>1. i \in 1 .. n
        BY <1>5, <3>2
      <4>2. delivered # <<>>
        BY <4>1, EmptySeq
      <4>3. delivered[i].blk = i /\ delivered[i].from = Source
        BY <1>5, <4>1 DEF BlocksInOrder, Source
      <4>4. delivered'[i] = delivered[i]
        BY <1>7, <4>1
      <4> QED
        BY <1>1, <2>1, <4>2, <4>3, <4>4
    <3> QED
      BY <3>1, <3>2
  <2>3. delivered'[1].from = s.id
    BY <1>8 DEF Source
  <2>4. 1 .. Len(delivered') = 1 .. n + 1
    BY <1>7
  <2> HIDE DEF n
  <2>5. \A i \in 1 .. n + 1 :
          /\ delivered'[i].blk = i /\ delivered'[i].from = delivered'[1].from
          /\ Reaches(delivered'[i].from.host, tftp_ip')
    BY <2>2, <2>3
  <2> QED
    BY <2>4, <2>5 DEF BlocksInOrder, Reaches
<1>10. RequestInv'
  <2>1. RequestInv /\ tftp_call # "none"
    BY <1>3 DEF TransferInv, RequestInv
  <2>2. \A q \in Mine' : q.op \in {"RRQ", "WRQ"} => q.to.host = tftp_ip
    BY <1>3, <2>1 DEF RequestInv
  <2>3. \A t \in MySessions' : Asked(t.op)' /\ Reaches(t.id.host, tftp_ip)'
    <3>1. ASSUME NEW t \in MySessions PROVE Asked(t.op)'
      BY <1>1, <1>3, <3>1, SessionFacts
    <3> QED
      BY <1>3, <2>1, <3>1 DEF RequestInv, Reaches
  <2> QED
    BY <1>1, <1>3, <2>1, <2>2, <2>3 DEF RequestInv
<1>11. DownloadInv'
  <2>1. \A q \in Mine' : q.op = "ACK" => delivered' # <<>> /\ q.to = Source'
    BY <1>1, <1>3, <1>7, <1>8 DEF TransferInv, DownloadInv
  <2>2. \A t \in MySessions' : t.op = "RRQ" /\ t.blk > 1 => delivered' # <<>> /\ t.id = Source'
    BY <1>1, <1>3, <1>7, <1>8 DEF TransferInv, DownloadInv
  <2>3. tftp_current_block_number' = Len(delivered') + produced'
    BY <1>1, <1>2, <1>3, <1>5, <1>7
  <2>4. Len(delivered') <= FileLen[Source'.host]
    BY <1>1, <1>7, <1>8
  <2> QED
    BY <1>3, <1>7, <1>9, <2>1, <2>2, <2>3, <2>4 DEF DownloadInv
<1>12. UploadInv'
  <2>1. \A t \in MySessions' : t.op # "WRQ"
    BY <1>1, <1>3, SessionFacts
  <2> QED
    BY <1>1, <1>2, <1>3, <2>1 DEF TransferInv, UploadInv
<1>13. LastBlockInv'
  BY <1>3 DEF LastBlockInv, LastSent
<1>14. StateInv'
  <2>1. Whole(Len(delivered))' <=> p.last
    BY <1>1, <1>7, <1>8 DEF Whole
  <2>2. Finished' <=> p.last
    BY <1>3, States DEF Finished
  <2>3. Finished' <=> Whole(Len(delivered))'
    BY <2>1, <2>2
  <2> QED
    BY <1>3, <1>4, <1>7, <1>8, <2>3 DEF StateInv
<1>15. ResultInv'
  BY <1>3 DEF ResultInv
<1> QED
  BY <1>3, <1>10, <1>11, <1>12, <1>13, <1>14, <1>15 DEF TransferInv

\* An acknowledgement is taken, and the next block of an upload sent.
LEMMA AckTaken ==
  ASSUME DhcpInv, TftpTypeOK, TransferInv, ShortFiles, ReceiveTftp, NEW p, TftpIn(p),
         AckIn(p), ExpectedAck(p), NEW s \in MySessions,
         s.op = "WRQ", p.from = s.id, p.blk \in 0 .. s.blk
  PROVE  TransferInv'
<1>1. /\ s.blk = produced /\ produced < UploadLen
      /\ delivered = <<>> /\ Len(delivered) = 0
      /\ Asked("WRQ") /\ ~ Asked("RRQ")
  BY AckHeard, BlockHeard
<1>2. produced \in Nat /\ UploadLen \in Nat /\ tftp_current_block_number = produced
      /\ s.id.host \in Hosts
  BY <1>1, TransferTypes, SessionFacts
<1> DEFINE n == produced + 1
<1>3. /\ GotExpectedBlock(p, DataPacket(n), n = UploadLen) /\ produced' = n
      /\ delivered' = <<>>
  BY <1>1 DEF AckIn
<1>4. /\ DataPacket(n).op = "DATA" /\ DataPacket(n).data = n /\ DataPacket(n).last \in BOOLEAN
  BY PacketsBuilt
<1>5. n \in Nat /\ n > 0 /\ n <= UploadLen /\ tftp_current_block_number + 1 = n
  BY <1>1, <1>2
<1> HIDE DEF n
<1>6. /\ UNCHANGED <<tftp_client_port, tftp_ip, tftp_call, sessions, arp_cache, cfgVars>>
      /\ tftp_phase' = "check" /\ tftp_phase = "poll" /\ tftp_result' = "none"
      /\ tftp_current_block_number' = n
      /\ tftp_break_inner_loop' = 1
      /\ tftp_actual_server' = s.id
      /\ tftp_outp' = DataPacket(n)
      /\ tftp_state' = (IF n = UploadLen THEN tftp_complete ELSE tftp_transmission_in_progress)
      /\ SentInv' /\ SessionInv' /\ MySessions' = MySessions
      /\ ~ LastSent
      /\ \/ Mine' = Mine
         \/ /\ Resolved(s.id.host)
            /\ \E q : Mine' = Mine \cup {q} /\ q.op = "DATA" /\ q.to = s.id /\ q.blk = n
      /\ Asked("WRQ")' /\ ~ Asked("RRQ")'
  <2>1. DataPacket(n).op = "DATA" => DataPacket(n).data = tftp_current_block_number + 1
    BY <1>4, <1>5
  <2>2. /\ UNCHANGED <<tftp_client_port, tftp_ip, tftp_call, sessions, arp_cache, cfgVars>>
        /\ tftp_phase = "poll" /\ tftp_phase' = "check" /\ tftp_result' = "none"
        /\ tftp_current_block_number' = tftp_current_block_number + 1
        /\ tftp_break_inner_loop' = 1
        /\ tftp_actual_server' = p.from
        /\ tftp_outp' = DataPacket(n)
        /\ SentInv' /\ SessionInv' /\ MySessions' = MySessions
        /\ ~ LastSent
        /\ \/ Mine' = Mine
           \/ /\ Resolved(p.from.host)
              /\ \E q : /\ Mine' = Mine \cup {q} /\ q.op = DataPacket(n).op /\ q.to = p.from
                        /\ q.blk = tftp_current_block_number'
        /\ \A op \in {"RRQ", "WRQ"} : DataPacket(n).op # op => (Asked(op)' <=> Asked(op))
    BY <1>3, <1>4, <2>1, BlockTaken, Zenon
  <2>3. tftp_state' = (IF n = UploadLen THEN tftp_complete ELSE tftp_transmission_in_progress)
    BY <1>3 DEF GotExpectedBlock
  <2> QED
    BY <1>1, <1>4, <1>5, <2>2, <2>3
<1>7. RequestInv'
  <2>1. RequestInv /\ tftp_call # "none"
    BY <1>6 DEF TransferInv, RequestInv
  <2>2. \A q \in Mine' : q.op \in {"RRQ", "WRQ"} => q.to.host = tftp_ip
    BY <1>6, <2>1 DEF RequestInv
  <2>3. \A t \in MySessions' : Asked(t.op)' /\ Reaches(t.id.host, tftp_ip)'
    <3>1. ASSUME NEW t \in MySessions PROVE Asked(t.op)'
      BY <1>1, <1>6, <3>1, SessionFacts
    <3> QED
      BY <1>6, <2>1, <3>1 DEF RequestInv, Reaches
  <2> QED
    BY <1>1, <1>6, <2>1, <2>2, <2>3 DEF RequestInv
<1>8. DownloadInv'
  <2>1. BlocksInOrder'
    BY <1>3, EmptySeq DEF BlocksInOrder
  <2>2. \A t \in MySessions' : t.op # "RRQ"
    BY <1>1, <1>6, SessionFacts
  <2>3. tftp_current_block_number' = Len(delivered') + produced'
    BY <1>3, <1>5, <1>6, EmptySeq
  <2>4. delivered' \in Seq([from : [host : Hosts, tid : Tids], blk : Nat])
    BY <1>3, EmptySeq
  <2> QED
    BY <1>3, <1>6, <2>1, <2>2, <2>3, <2>4 DEF DownloadInv
<1>9. UploadInv'
  <2>1. \A q \in Mine' : q.op = "DATA" => q.blk \in 1 .. n
    BY <1>2, <1>5, <1>6 DEF TransferInv, UploadInv, n
  <2>2. Mine \subseteq Mine'
    BY <1>6
  <2> QED
    BY <1>3, <1>6, <2>1, <2>2 DEF TransferInv, UploadInv
<1>10. LastBlockInv'
  <2>1. ASSUME LastSent' PROVE Acknowledging' /\ Resolved(tftp_actual_server.host)'
    <3>1. Resolved(s.id.host) /\ n = UploadLen
      BY <1>6, <2>1 DEF LastSent
    <3>2. Acknowledging'
      BY <1>6, <3>1 DEF Acknowledging, Finished
    <3>3. Resolved(tftp_actual_server.host)'
      BY <1>6, <3>1 DEF Resolved, Cached, NextHop, cfgVars
    <3> QED
      BY <3>2, <3>3
  <2> QED
    BY <2>1 DEF LastBlockInv
<1>11. StateInv'
  <2>1. Finished' <=> produced' = UploadLen
    BY <1>3, <1>6, States DEF Finished
  <2>2. s.blk >= UploadLen - 1 \/ produced' # UploadLen
    BY <1>1, <1>2, <1>3, <1>5 DEF n
  <2>3. Finished' => \E t \in MySessions' : t.op = "WRQ" /\ t.blk >= UploadLen - 1
    BY <1>6, <2>1, <2>2
  <2>4. tftp_outp' = DataPacket(produced)' /\ produced' > 0
    BY <1>3, <1>5, <1>6 DEF DataPacket
  <2> QED
    BY <1>2, <1>6, <2>1, <2>3, <2>4 DEF StateInv
<1>12. ResultInv'
  BY <1>6 DEF ResultInv
<1> QED
  BY <1>6, <1>7, <1>8, <1>9, <1>10, <1>11, <1>12 DEF TransferInv

\* A datagram is ignored, or taken as an error: the state says nothing of blocks then.
LEMMA NoBlockTaken ==
  ASSUME DhcpInv, TftpTypeOK, TransferInv, ReceiveTftp, NEW p, TftpIn(p), IgnoredBlock \/ ErrorIn(p)
  PROVE  TransferInv'
<1>1. /\ UNCHANGED <<tftp_client_port, tftp_ip, tftp_call, tftp_result, tftp_current_block_number,
                     tftp_actual_server, delivered, produced, tftp_outp, sent, sessions>>
      /\ tftp_phase = "poll" /\ tftp_phase' = "check"
  BY BlockHeard DEF TftpIn, IgnoredBlock, ErrorIn, tftpXfer
<1>2. ~ LastSent /\ tftp_result = "none" /\ tftp_call # "none"
  BY <1>1 DEF TransferInv, LastBlockInv, Acknowledging, DhcpInv, FirstDhcp, RequestInv
<1>3. LastBlockInv'
  BY <1>1, <1>2 DEF LastBlockInv, LastSent, Mine, MyPort
<1>4. CASE IgnoredBlock
  <2>1. UNCHANGED tftp_state
    BY <1>4 DEF IgnoredBlock
  <2> QED
    BY <1>1, <1>3, <2>1, TransferFrame
<1>5. CASE ErrorIn(p)
  <2>1. /\ SentInv' /\ SessionInv' /\ MySessions' = MySessions /\ Mine' = Mine
        /\ \A op : Asked(op)' <=> Asked(op)
    BY <1>1, NoneSent
  <2>2. RequestInv'
    BY <1>1, <1>2, <2>1 DEF TransferInv, RequestInv
  <2>3. BlocksInOrder' /\ Source' = Source
    BY <1>1 DEF TransferInv, DownloadInv, BlocksInOrder, Source
  <2>4. DownloadInv'
    BY <1>1, <2>1, <2>3 DEF TransferInv, DownloadInv
  <2>5. UploadInv'
    BY <1>1, <2>1 DEF TransferInv, UploadInv
  <2>6. StateInv'
    BY <1>5, States DEF ErrorIn, StateInv, Unfinished, Finished
  <2>7. ResultInv'
    BY <1>1, <1>2 DEF ResultInv
  <2> QED
    BY <1>3, <2>1, <2>2, <2>4, <2>5, <2>6, <2>7 DEF TransferInv
<1> QED
  BY <1>4, <1>5

\* A datagram for the transfer.
LEMMA ReceiveTftpTransfer ==
  ASSUME DhcpInv, TftpTypeOK, TransferInv, ShortFiles, ReceiveTftp
  PROVE  TransferInv'
<1>1. PICK p :
        /\ TftpIn(p)
        /\ \/ p.op = "ERROR"
           \/ \E s \in MySessions :
                /\ s.op = "RRQ" /\ p.op = "DATA" /\ p.from = s.id /\ p.blk \in 1 .. s.blk
                /\ p.last \in BOOLEAN /\ (p.last <=> p.blk = FileLen[s.id.host])
           \/ \E s \in MySessions :
                s.op = "WRQ" /\ p.op = "ACK" /\ p.from = s.id /\ p.blk \in 0 .. s.blk
  BY Heard
<1>2. \/ ErrorIn(p) \/ IgnoredBlock
      \/ DataIn(p) /\ ExpectedData(p) /\ p.op = "DATA"
      \/ AckIn(p) /\ ExpectedAck(p) /\ p.op = "ACK"
  BY <1>1 DEF TftpIn, DataIn, AckIn
<1>3. CASE DataIn(p) /\ ExpectedData(p) /\ p.op = "DATA"
  <2>1. PICK s \in MySessions :
          /\ s.op = "RRQ" /\ p.from = s.id /\ p.blk \in 1 .. s.blk
          /\ p.last \in BOOLEAN /\ (p.last <=> p.blk = FileLen[s.id.host])
    BY <1>1, <1>3, Zenon
  <2> QED
    BY <1>1, <1>3, <2>1, DataTaken, Zenon
<1>4. CASE AckIn(p) /\ ExpectedAck(p) /\ p.op = "ACK"
  <2>1. PICK s \in MySessions : s.op = "WRQ" /\ p.from = s.id /\ p.blk \in 0 .. s.blk
    BY <1>1, <1>4, Zenon
  <2> QED
    BY <1>1, <1>4, <2>1, AckTaken, Zenon
<1> QED
  BY <1>1, <1>2, <1>3, <1>4, NoBlockTaken, Zenon

\* TransferInv is invariant.
LEMMA TransferStep ==
  ASSUME DhcpInv, TftpTypeOK, TransferInv, ShortFiles, Next
  PROVE  TransferInv'
BY Moves, OtherStepTransfer, CallTransferStep, ServerStepTransfer, TftpMoveTransfer,
   ReceiveTftpTransfer, Zenon

----------------------------------------------------------------------------
(* The file that is complete while its transfer goes on.                   *)

\* What was asked for and heard is not forgotten.
LEMMA ArpGrows ==
  ASSUME DhcpInv, Next, NEW h, OnlyAsked(h)'
  PROVE  OnlyAsked(h)
<1>1. heard \in Nat /\ heard' \in Nat /\ ac_size \in Nat
  BY ArpTypeStep, ArpBoundAssumption DEF DhcpInv, NetTypeOK, ArpTypeOK, ArpCacheTypeOK
<1>2. CASE UNCHANGED <<arp_asked, heard>>
  BY <1>2 DEF OnlyAsked
<1>3. CASE ArpPacket
  <2>1. UNCHANGED arp_asked /\ (heard' = heard \/ heard' = heard + 1)
    BY <1>3 DEF ArpPacket, ArpRequest, ArpReply
  <2> QED
    BY <1>1, <2>1 DEF OnlyAsked
<1>4. ASSUME NEW ip, ArpLookup(ip) PROVE OnlyAsked(h)
  <2>1. UNCHANGED heard /\ arp_asked \subseteq arp_asked'
    BY <1>4 DEF ArpLookup, AskOnMiss
  <2> QED
    BY <2>1 DEF OnlyAsked
<1> QED
  BY <1>2, <1>3, <1>4, ArpShape

\* An address with an entry that is not resolved is hidden.
LEMMA HiddenByZero ==
  ASSUME DhcpInv, NEW ip, ip # Broadcast, ~ Resolved(ip),
         \E i \in Slot : EntryAt(NextHop(ip), i)
  PROVE  \E i \in Slot : EntryAt(Zero, i)
<1>1. Len(arp_cache) \in Nat
  BY DEF DhcpInv, NetTypeOK, ArpTypeOK
<1>2. PICK i \in 1 .. Len(arp_cache) : arp_cache[i] = NextHop(ip)
  BY DEF EntryAt, Slot
<1>3. PICK j \in 1 .. i - 1 : arp_cache[j] = Zero
  BY <1>2 DEF Resolved, Cached
<1>4. j \in 1 .. Len(arp_cache)
  BY <1>1, <1>3
<1> QED
  BY <1>3, <1>4 DEF EntryAt, Slot

\* Without a call of TFTP there is nothing in transfer.
LEMMA NoTransferYet ==
  ASSUME DhcpInv, TftpTypeOK, TransferInv, tftp_client_port = 0
  PROVE  Mine = {} /\ ~ WholeFile
<1>1. UsedPorts = {}
  BY PortFacts DEF DhcpInv, NetTypeOK, TftpTypeOK
<1>2. sent = {}
  BY <1>1 DEF TransferInv, SentInv
<1>3. Mine = {}
  BY <1>2 DEF Mine
<1> QED
  BY <1>3 DEF WholeFile, TransferInv, DownloadInv, Asked

Going == WholeFile /\ tftp_result \in {"none", "timeout"} /\ ~ Acknowledging

\* A step that asks and completes nothing, or does so for the right address.
LEMMA HiddenFrame ==
  ASSUME DhcpInv, ArpInv, Next, ConfigTypeOK,
         UNCHANGED <<tftp_ip, gw, cfg_gateway>>,
         tftp_ip # Broadcast /\ Mine' # {} =>
           Mine # {} \/ (Resolved(tftp_ip) /\ arp_cache' = arp_cache),
         tftp_ip # Broadcast /\ Going' =>
           Going \/ (~ Resolved(tftp_ip) /\ Mine # {} /\ arp_cache' = arp_cache)
  PROVE  Hidden'
<1>0. PICK h \in Hosts : h = NextHop(tftp_ip)
  BY HopType
<1>1. NextHop(tftp_ip)' = h
  BY <1>0 DEF NextHop
<1> SUFFICES ASSUME OnlyAsked(h)', tftp_ip # Broadcast
             PROVE  /\ Mine' # {} => (\E i \in Slot : EntryAt(h, i))'
                    /\ Going' => (\E i \in Slot : EntryAt(Zero, i))'
  <2>1. (OnlyAsked(NextHop(tftp_ip)))' = OnlyAsked(h)'
    BY <1>1 DEF OnlyAsked
  <2>2. (\E i \in Slot : EntryAt(NextHop(tftp_ip), i))' <=> (\E i \in Slot : EntryAt(h, i))'
    BY <1>1 DEF EntryAt
  <2> QED
    BY <2>1, <2>2 DEF Hidden, Going
<1>2. OnlyAsked(h)
  BY ArpGrows
<1>3. /\ Mine # {} => \E i \in Slot : EntryAt(h, i)
      /\ Going => \E i \in Slot : EntryAt(Zero, i)
  BY <1>0, <1>2 DEF ArpInv, Hidden, Going
<1>4. ASSUME \E i \in Slot : EntryAt(h, i) PROVE (\E i \in Slot : EntryAt(h, i))'
  <2>1. (\E j \in 1 .. heard + 1 : EntryAt(h, j))'
    BY <1>1, <1>4, EntryKept
  <2> QED
    BY <2>1 DEF EntryAt
<1>5. ASSUME \E i \in Slot : EntryAt(Zero, i) PROVE (\E i \in Slot : EntryAt(Zero, i))'
  <2>1. (\E i \in 1 .. heard + 1 : EntryAt(Zero, i))'
    BY <1>1, <1>5, ZeroKept
  <2> QED
    BY <2>1 DEF EntryAt
<1>6. ASSUME Resolved(tftp_ip) PROVE \E i \in Slot : EntryAt(h, i)
  BY <1>0, <1>6 DEF Resolved, Cached, EntryAt, Slot
<1>7. ASSUME ~ Resolved(tftp_ip), Mine # {} PROVE \E i \in Slot : EntryAt(Zero, i)
  BY <1>0, <1>3, <1>7, HiddenByZero
<1> QED
  BY <1>3, <1>4, <1>5, <1>6, <1>7

\* A step that leaves the transfer alone.
LEMMA HiddenOther ==
  ASSUME DhcpInv, TftpTypeOK, TransferInv, ArpInv, Next, ConfigTypeOK,
         CallDhcp \/ DhcpMove \/ NoPacketWaiting \/ ReceiveArp \/ ReceiveOffer \/ ServerMove
  PROVE  Hidden'
<1>1. /\ UNCHANGED <<tftp_client_port, tftp_ip, tftp_state, delivered, tftp_result, sent>>
      /\ UNCHANGED tftp_break_inner_loop
      /\ tftp_phase' = tftp_phase \/ (tftp_phase = "poll" /\ tftp_phase' = "check")
  <2>1. CASE CallDhcp \/ DhcpMove \/ ServerMove
    BY <2>1 DEF CallDhcp, DhcpMove, ServerMove, ServerStep, tftpVars, tftpXfer, tftpLoop
  <2>2. CASE NoPacketWaiting \/ ReceiveArp \/ ReceiveOffer
    <3>1. UNCHANGED tftpRest /\ Poll
      BY <2>2 DEF NoPacketWaiting, ReceiveArp, ReceiveOffer
    <3> QED
      BY <3>1, PollShape DEF tftpRest, tftpXfer, tftpLoop
  <2> QED
    BY <2>1, <2>2
<1>2. Mine' = Mine
  BY <1>1 DEF Mine, MyPort
<1>3. WholeFile' <=> WholeFile
  BY <1>1 DEF WholeFile
<1>4. Acknowledging => Acknowledging'
  BY <1>1 DEF Acknowledging, Finished
<1>5. Going' => Going
  BY <1>1, <1>3, <1>4 DEF Going
<1>6. CASE ReceiveOffer
  <2>1. dhcp_phase = "poll"
    BY <1>6, OfferHeard
  <2>2. tftp_client_port = 0
    BY <2>1, TransferTypes DEF DhcpInv, FirstDhcp
  <2>3. Mine' = {} /\ ~ Going'
    BY <1>2, <1>5, <2>2, NoTransferYet DEF Going
  <2> QED
    BY <2>3 DEF Hidden, Going
<1>7. CASE ~ ReceiveOffer
  <2>1. UNCHANGED <<gw, cfg_gateway>>
    BY <1>7, DhcpMoveShape
       DEF CallDhcp, CallDhcpInit, NoPacketWaiting, ReceiveArp, ServerMove, cfgVars
  <2> QED
    BY <1>1, <1>2, <1>5, <2>1, HiddenFrame
<1> QED
  BY <1>6, <1>7

\* A new transfer has sent nothing.
LEMMA HiddenCall ==
  ASSUME DhcpInv, TftpTypeOK, TransferInv, NEW call \in {"download", "upload"}, NEW ip, CallTransfer(call, ip)
  PROVE  Hidden'
<1>1. tftp_client_port' = tftp_client_port + 1 /\ delivered' = <<>> /\ UNCHANGED sent
  BY TransferShape
<1>2. MyPort' \notin UsedPorts
  BY <1>1, FreshPort, TransferTypes DEF MyPort
<1>3. Mine' = {}
  <2>1. ASSUME NEW p \in sent PROVE p.from.port # MyPort'
    <3>1. p.from.port \in UsedPorts
      BY DEF TransferInv, SentInv
    <3> QED
      BY <1>2, <3>1
  <2> QED
    BY <1>1, <2>1 DEF Mine
<1> QED
  BY <1>1, <1>3 DEF Hidden, WholeFile

\* A packet of a session is sent only when a request was.
LEMMA SessionIsAsked ==
  ASSUME TransferInv, Unfinished \/ Finished \/ delivered # <<>>
  PROVE  Mine # {}
BY DEF TransferInv, StateInv, DownloadInv, UploadInv, Asked

\* The loop: what it sends, and when it goes on with a complete file.
LEMMA HiddenMove ==
  ASSUME DhcpInv, TftpTypeOK, TransferInv, ArpInv, Next, ConfigTypeOK, TftpMove
  PROVE  Hidden'
<1>1. /\ UNCHANGED <<tftp_client_port, tftp_ip, tftpXfer, gw, cfg_gateway, arp_cache>>
      /\ tftp_phase \in {"start", "check"} /\ tftp_result = "none"
  BY TftpMoveShape DEF cfgVars, DhcpInv, FirstDhcp
<1>2. WholeFile' <=> WholeFile
  BY <1>1 DEF WholeFile, tftpXfer
<1>3. ASSUME tftp_ip # Broadcast, Mine' # {} PROVE Mine # {} \/ Resolved(tftp_ip)
  <2>1. CASE sent' = sent
    BY <1>1, <1>3, <2>1 DEF Mine, MyPort
  <2>2. CASE Unfinished \/ Finished
    BY <2>2, SessionIsAsked
  <2>3. CASE sent' # sent /\ ~ Unfinished /\ ~ Finished
    <3>1. Outer
      BY <2>3 DEF TftpMove, StartLoop, BlockArrived, TftpTickResend, TftpKeepPolling,
                  TftpTickTimeout, TftpAbort, ExitWithError
    <3>2. OuterRequest
      BY <2>3, <3>1, States
         DEF Outer, OuterResend, OuterError, OuterComplete, OuterUnacknowledged,
             Unfinished, Finished
    <3> QED
      BY <2>3, <3>2 DEF OuterRequest, SendTftpRequest, Put
  <2> QED
    BY <2>1, <2>2, <2>3
<1>4. ASSUME tftp_ip # Broadcast, Going', ~ Going PROVE ~ Resolved(tftp_ip) /\ Mine # {}
  <2>1. WholeFile /\ Acknowledging
    BY <1>1, <1>2, <1>4 DEF Going
  <2>2. tftp_phase' # "idle"
    <3>1. ASSUME tftp_phase' = "idle" PROVE tftp_result' \notin {"none", "timeout"}
      <4>1. TftpMove /\ tftp_break_inner_loop = 1 /\ Finished /\ tftp_phase = "check"
        BY <2>1 DEF Acknowledging
      <4>2. BlockArrived \/ TftpAbort
        BY <4>1 DEF TftpMove, StartLoop, TftpKeepPolling, TftpTickResend, TftpTickTimeout, TftpTick
      <4>3. CASE TftpAbort
        BY <4>3 DEF TftpAbort, ExitWithError, ExitLoop
      <4>4. CASE BlockArrived
        <5>1. OuterComplete \/ OuterUnacknowledged
          BY <4>1, <4>4, States
             DEF BlockArrived, Outer, OuterRequest, OuterResend, OuterError, Finished
        <5>2. CASE OuterComplete
          BY <5>2 DEF OuterComplete, ExitLoop
        <5>3. CASE OuterUnacknowledged
          BY <3>1, <5>3 DEF OuterUnacknowledged, Loop
        <5> QED
          BY <5>1, <5>2, <5>3
      <4> QED
        BY <4>2, <4>3, <4>4
    <3> QED
      BY <1>4, <3>1 DEF Going
  <2>3. ~ Resolved(tftp_actual_server.host)
    BY <2>1, <2>2, TftpMoveSends
  <2>4. delivered # <<>> /\ tftp_actual_server = Source
    <3>1. delivered # <<>>
      BY <2>1 DEF WholeFile
    <3>2. ~ (produced > 0)
      BY <3>1 DEF TransferInv, UploadInv
    <3> QED
      BY <2>1, <3>1, <3>2 DEF TransferInv, StateInv, Acknowledging
  <2>5. Source.host = tftp_ip
    <3>1. Len(delivered) \in Nat /\ Len(delivered) # 0
      <4>1. delivered \in Seq([from : [host : Hosts, tid : Tids], blk : Nat])
        BY DEF TransferInv, DownloadInv
      <4> QED
        BY <2>4, <4>1, EmptySeq, LenProperties
    <3>2. 1 \in 1 .. Len(delivered)
      BY <3>1
    <3> QED
      BY <1>4, <3>2 DEF TransferInv, DownloadInv, BlocksInOrder, Source, Reaches
  <2> QED
    BY <2>3, <2>4, <2>5, SessionIsAsked
<1> QED
  BY <1>1, <1>3, <1>4, HiddenFrame

\* The block that completes a file leaves it to be acknowledged.
LEMMA HiddenReceive ==
  ASSUME DhcpInv, TftpTypeOK, TransferInv, ArpInv, ShortFiles, Next, ConfigTypeOK, ReceiveTftp
  PROVE  Hidden'
<1>1. TransferInv'
  BY ReceiveTftpTransfer
<1>2. PICK p : /\ TftpIn(p)
               /\ \/ p.op = "ERROR"
                  \/ \E s \in MySessions : s.op = "RRQ"
                  \/ \E s \in MySessions : s.op = "WRQ"
  BY Heard
<1>3. /\ UNCHANGED <<tftp_client_port, tftp_ip, tftp_result, gw, cfg_gateway>>
      /\ tftp_phase = "poll" /\ tftp_phase' = "check"
  BY <1>2, BlockHeard DEF ReceiveTftp, TftpIn, cfgVars
<1>4. CASE p.op # "ERROR"
  <2>1. Mine # {}
    <3>1. PICK s \in MySessions : TRUE
      BY <1>2, <1>4
    <3>2. Asked(s.op)
      BY SessionFacts
    <3> QED
      BY <3>2 DEF Asked
  <2>2. ASSUME Going' PROVE Going
    <3>1. CASE DataIn(p) /\ ExpectedData(p)
      <4>1. GotExpectedBlock(p, AckPacket, p.last)
        BY <3>1 DEF DataIn
      <4>2. tftp_break_inner_loop' = 1 /\ tftp_state' \in {3, 4}
        BY <4>1, States DEF GotExpectedBlock
      <4>3. delivered' # <<>> /\ Whole(Len(delivered))'
        BY <2>2 DEF Going, WholeFile, Whole, Source
      <4>4. ~ (produced > 0)'
        BY <1>1, <4>3 DEF TransferInv, UploadInv
      <4>5. Finished'
        BY <1>1, <4>2, <4>3, <4>4, States DEF TransferInv, StateInv, Unfinished, Finished
      <4> QED
        BY <1>3, <2>2, <4>2, <4>5 DEF Going, Acknowledging
    <3>2. CASE AckIn(p) /\ ExpectedAck(p)
      <4>1. UNCHANGED delivered
        BY <3>2 DEF AckIn
      <4> QED
        BY <1>3, <2>2, <4>1 DEF Going, WholeFile, Acknowledging
    <3>3. CASE IgnoredBlock
      <4>1. UNCHANGED delivered
        BY <3>3 DEF IgnoredBlock, tftpXfer
      <4> QED
        BY <1>3, <2>2, <4>1 DEF Going, WholeFile, Acknowledging
    <3> QED
      BY <1>2, <1>4, <3>1, <3>2, <3>3 DEF TftpIn, DataIn, AckIn, ErrorIn
  <2> QED
    BY <1>3, <2>1, <2>2, HiddenFrame
<1>5. CASE p.op = "ERROR"
  <2>1. UNCHANGED <<delivered, sent>>
    BY <1>2, <1>5 DEF TftpIn, DataIn, AckIn, ErrorIn, tftpXfer
  <2>2. Mine' = Mine
    BY <1>3, <2>1 DEF Mine, MyPort
  <2>3. Going' => Going
    BY <1>3, <2>1 DEF Going, WholeFile, Acknowledging
  <2> QED
    BY <1>3, <2>2, <2>3, HiddenFrame
<1> QED
  BY <1>4, <1>5

\* ArpInv is invariant.
LEMMA ArpStep ==
  ASSUME DhcpInv, TftpTypeOK, TransferInv, ArpInv, ShortFiles, Next
  PROVE  ArpInv'
<1>1. ConfigTypeOK
  BY ConfigHolds DEF ConfigInv
<1>2. EntryStays' /\ ZeroStays'
  BY EntryStaysStep, ZeroStaysStep
<1>3. Hidden'
  BY <1>1, Moves, HiddenOther, HiddenCall, HiddenMove, HiddenReceive, Zenon
<1> QED
  BY <1>2, <1>3 DEF ArpInv

----------------------------------------------------------------------------
(* The invariants.                                                         *)

\* It holds before the first call.
LEMMA NetInit ==
  ASSUME Init
  PROVE  NetInv
<1> USE DEF Init, UdpInit, ArpInit, DhcpInit, TftpInit
<1>1. UdpTypeOK
  BY EmptySeq, CbMaxAssumption DEF UdpTypeOK, udp_cbcount
<1>2. ArpTypeOK
  <2>1. arp_cache \in Seq(Wire \cup {Zero}) /\ Len(arp_cache) <= ac_size
    BY EmptySeq, ArpBoundAssumption
  <2> QED
    BY <2>1, ArpBoundAssumption DEF ArpTypeOK, arp_idle, arp_wait
<1>3. DhcpTypeOK
  <2>1. dhcp_discovered \in BOOLEAN
    OBVIOUS
  <2>2. /\ dhcp_state \in 0 .. dhcp_bound
        /\ dhcp_message_sent_count \in 0 .. MAX_DHCP_MESSAGES_SENT - 1
        /\ dhcp_loop_count \in 0 .. MAX_DHCP_MESSAGES_SENT
        /\ dhcp_break_polling_loop \in {0, 1}
        /\ dhcp_inits \in 0 .. MaxInits
    BY DhcpBoundAssumption DEF dhcp_bound
  <2>3. /\ dhcp_phase = "idle" /\ dhcp_ip = Zero /\ dhcp_server = Zero
        /\ dhcp_result = "none" /\ dhcp_requests = {}
    OBVIOUS
  <2> QED
    BY <2>1, <2>2, <2>3, Zenon DEF DhcpTypeOK
<1>4. TftpTypeOK
  BY TftpAssumption DEF TftpTypeOK, tftp_error
<1>5. OneListener /\ FirstDhcp
  BY DEF OneListener, FirstDhcp, Idle
<1>6. OfferTaken
  BY HostsAssumption, OfferAssumption DEF OfferTaken, dhcp_ready_to_request, dhcp_bound
<1>7. Mine = {} /\ MySessions = {} /\ sent = {} /\ sessions = {} /\ \A op : ~ Asked(op)
  BY DEF Mine, MySessions, Asked
<1>8. SentInv /\ SessionInv /\ RequestInv
  BY <1>7 DEF SentInv, SessionInv, RequestInv
<1>9. DownloadInv
  <2>1. BlocksInOrder
    BY EmptySeq DEF BlocksInOrder
  <2>2. tftp_current_block_number = Len(delivered) + produced
    BY EmptySeq
  <2>3. delivered \in Seq([from : [host : Hosts, tid : Tids], blk : Nat])
    BY EmptySeq
  <2> QED
    BY <1>7, <2>1, <2>2, <2>3 DEF DownloadInv
<1>10. UploadInv /\ LastBlockInv /\ StateInv /\ ResultInv
  BY <1>7, States DEF UploadInv, LastBlockInv, StateInv, ResultInv, Unfinished, Finished
<1>11. ArpInv
  BY <1>7, EmptySeq DEF ArpInv, EntryStays, ZeroStays, Hidden, EntryAt, Slot, WholeFile
<1>12. tftp_client_port \in 0 .. MaxTransfers
  BY <1>4 DEF TftpTypeOK
<1> HIDE DEF Init, UdpInit, ArpInit, DhcpInit, TftpInit
<1>13. DhcpInv
  BY <1>1, <1>2, <1>3, <1>5, <1>6, <1>12 DEF DhcpInv
<1>14. TransferInv
  BY <1>8, <1>9, <1>10 DEF TransferInv
<1> QED
  BY <1>4, <1>11, <1>13, <1>14 DEF NetInv

\* Configuration keeps to itself, whatever is transferred.
LEMMA DhcpStep ==
  ASSUME DhcpInv, Next
  PROVE  DhcpInv'
<1>1. UdpTypeOK' /\ OneListener' /\ FirstDhcp' /\ tftp_client_port' \in 0 .. MaxTransfers
  BY TableStep, OneListenerStep, PortStep
<1>2. ConfigInv' /\ ArpCacheTypeOK' /\ dhcp_discovered' \in BOOLEAN
  BY ConfigStep, ArpTypeStep, DiscoveredStep
<1>3. ArpTypeOK' /\ OfferTaken'
  BY <1>2 DEF ConfigInv, ConfigTypeOK, ArpCacheTypeOK, CacheType, ArpTypeOK
<1>4. DhcpTypeOK'
  BY <1>2, Zenon DEF ConfigInv, DhcpNumbers, DhcpTypeOK
<1> QED
  BY <1>1, <1>3, <1>4 DEF DhcpInv

\* Nothing happens to DhcpInv when nothing happens.
LEMMA DhcpStutter ==
  ASSUME DhcpInv, UNCHANGED vars
  PROVE  DhcpInv'
<1> USE DEF vars, udpVars, cfgVars, arpVars, dhcpVars, dhcpLoop, dhcpMsgs, tftpVars
<1>1. UdpTypeOK' /\ ArpTypeOK'
  BY DEF DhcpInv, UdpTypeOK, udp_cbcount, ArpTypeOK
<1>2. DhcpTypeOK'
  <2>1. dhcp_discovered' \in BOOLEAN
    <3>1. dhcp_discovered \in BOOLEAN /\ UNCHANGED dhcp_discovered
      BY Zenon DEF DhcpInv, DhcpTypeOK
    <3> QED
      BY <3>1
  <2>2. DhcpNumbers'
    <3>1. DhcpNumbers
      BY ConfigHolds DEF ConfigInv
    <3> QED
      BY <3>1 DEF DhcpNumbers
  <2> QED
    BY <2>1, <2>2, Zenon DEF DhcpNumbers, DhcpTypeOK
<1>3. OneListener' /\ FirstDhcp' /\ OfferTaken' /\ tftp_client_port' \in 0 .. MaxTransfers
  BY DEF DhcpInv, OneListener, FirstDhcp, OfferTaken, Idle, DhcpSlot, TftpSlot
<1> QED
  BY <1>1, <1>2, <1>3 DEF DhcpInv

\* Nor to the rest.
LEMMA NetStutter ==
  ASSUME NetInv, UNCHANGED vars
  PROVE  NetInv'
<1> USE DEF vars, udpVars, cfgVars, arpVars, tftpVars, tftpLoop, tftpXfer
<1>1. DhcpInv' /\ TransferInv
  BY DhcpStutter DEF NetInv
<1>2. TftpTypeOK'
  BY DEF NetInv, TftpTypeOK
<1>3. LastBlockInv'
  <2>1. LastBlockInv
    BY <1>1 DEF TransferInv
  <2> QED
    BY <2>1 DEF LastBlockInv, LastSent, Mine, MyPort, Acknowledging, Finished,
                Resolved, Cached, NextHop
<1>4. TransferInv'
  BY <1>1, <1>3, TransferFrame
<1>5. EntryStays' /\ ZeroStays'
  BY DEF NetInv, ArpInv, EntryStays, ZeroStays, OnlyAsked, EntryAt, Slot
<1>6. Hidden'
  <2>1. Hidden
    BY DEF NetInv, ArpInv
  <2>2. Mine' = Mine /\ (WholeFile' <=> WholeFile) /\ (Acknowledging' <=> Acknowledging)
    BY DEF Mine, MyPort, WholeFile, Acknowledging, Finished
  <2>3. NextHop(tftp_ip)' = NextHop(tftp_ip)
    BY DEF NextHop
  <2> QED
    BY <2>1, <2>2, <2>3 DEF Hidden, OnlyAsked, EntryAt, Slot
<1> QED
  BY <1>1, <1>2, <1>4, <1>5, <1>6 DEF NetInv, ArpInv

\* The listener table, the configuration and the loop of dhcp_init: each loop has its own
\* listener, and what has been configured is one offer, for files of any length.
THEOREM ConfigurationInvariant == Spec => []DhcpInv
<1>1. Init => DhcpInv
  BY NetInit DEF NetInv
<1>2. DhcpInv /\ [Next]_vars => DhcpInv'
  BY DhcpStep, DhcpStutter
<1> QED
  BY <1>1, <1>2, PTL DEF Spec

\* After dhcp_init the address is one requested from the server that offered it, and the
\* rest is the offer of one server.
THEOREM RequestedAddress == Spec => []AddressIsRequested
<1>1. DhcpInv => AddressIsRequested
  <2> SUFFICES ASSUME DhcpInv, dhcp_result = "ok"
               PROVE  /\ \E r \in dhcp_requests : r.ip = cfg_ip
                      /\ \A r \in dhcp_requests : r.ip = Offer[r.server].ip
                      /\ cfg_netmask = Offer[dhcp_server].netmask
                      /\ cfg_gateway = Offer[dhcp_server].gateway
    BY DEF AddressIsRequested
  <2>1. OfferTaken
    BY DEF DhcpInv
  <2>2. Offer[dhcp_server] = [ip |-> dhcp_ip, netmask |-> cfg_netmask, gateway |-> cfg_gateway]
    BY <2>1 DEF OfferTaken
  <2>3. cfg_netmask = Offer[dhcp_server].netmask /\ cfg_gateway = Offer[dhcp_server].gateway
    BY <2>2
  <2> QED
    BY <2>1, <2>3 DEF OfferTaken
<1> QED
  BY <1>1, ConfigurationInvariant, PTL

\* Everything that holds of configuration and transfers together.
THEOREM NetInvariant ==
  ASSUME ShortFiles
  PROVE  Spec => []NetInv
<1>1. Init => NetInv
  BY NetInit
<1>2. NetInv /\ [Next]_vars => NetInv'
  <2>1. ASSUME NetInv, Next PROVE NetInv'
    BY <2>1, DhcpStep, TftpTypeStep, TransferStep, ArpStep DEF NetInv
  <2> QED
    BY <2>1, NetStutter
<1> QED
  BY <1>1, <1>2, PTL DEF Spec

\* The variables have their types, and no counter is zero while its loop runs.
THEOREM NetTypes ==
  ASSUME ShortFiles
  PROVE  Spec => []NetTypeOK
<1>1. NetInv => NetTypeOK
  BY DEF NetInv, DhcpInv, NetTypeOK
<1> QED
  BY <1>1, NetInvariant, PTL

\* The blocks of a download are given to the callback in order, each once, all from one
\* session of one server the request went to.
THEOREM DownloadInOrder ==
  ASSUME ShortFiles
  PROVE  Spec => []BlocksInOrder
<1>1. NetInv => BlocksInOrder
  BY DEF NetInv, TransferInv, DownloadInv
<1> QED
  BY <1>1, NetInvariant, PTL

\* A download reported as a success is the whole file, and one reported as out of time is
\* not, as long as the server's entry can be found in the ARP cache.
THEOREM DownloadIsReported ==
  ASSUME ShortFiles
  PROVE  Spec => []DownloadReported
<1>1. NetInv => DownloadReported
  <2> SUFFICES ASSUME NetInv, produced = 0
               PROVE  /\ tftp_result = "ok" => WholeFile
                      /\ tftp_result = "timeout" /\ Reachable => ~WholeFile
    BY DEF DownloadReported
  <2>1. ASSUME tftp_result = "ok" PROVE WholeFile
    <3>1. Finished
      BY <2>1 DEF NetInv, TransferInv, ResultInv
    <3>2. delivered # <<>> /\ Whole(Len(delivered))
      BY <3>1 DEF NetInv, TransferInv, StateInv
    <3> QED
      BY <3>2 DEF WholeFile, Whole, Source
  <2>2. ASSUME tftp_result = "timeout", Reachable PROVE ~ WholeFile
    <3>1. OnlyAsked(NextHop(tftp_ip)) /\ tftp_ip # Broadcast
      BY <2>2 DEF Reachable, OnlyAsked
    <3>2. ~ \E i \in Slot : EntryAt(Zero, i)
      BY <2>2 DEF Reachable, EntryAt, Slot
    <3>3. ~ Acknowledging
      BY <2>2 DEF NetInv, DhcpInv, FirstDhcp, Acknowledging
    <3> QED
      BY <2>2, <3>1, <3>2, <3>3 DEF NetInv, ArpInv, Hidden
  <2> QED
    BY <2>1, <2>2
<1> QED
  BY <1>1, NetInvariant, PTL

\* A server stores the blocks in order, each once, and all but the last of an upload that
\* is reported as a success.
THEOREM UploadIsStored ==
  ASSUME ShortFiles
  PROVE  Spec => []UploadedButLast
<1>1. NetInv => UploadedButLast
  <2> SUFFICES ASSUME NetInv
               PROVE  UploadedButLast
    OBVIOUS
  <2>1. SessionInv /\ StateInv /\ ResultInv /\ UploadInv /\ produced \in Nat /\ UploadLen \in Nat
    BY TftpAssumption DEF NetInv, TransferInv, TftpTypeOK
  <2>2. ASSUME NEW s \in sessions, NEW i \in 1 .. Len(s.stored) PROVE s.stored[i] = i
    <3>1. s \in Session
      BY <2>1 DEF SessionInv
    <3>2. s.op \in {"RRQ", "WRQ"}
      BY <3>1 DEF Session
    <3>3. s.op = "WRQ"
      BY <2>1, <3>2, EmptySeq DEF SessionInv
    <3> QED
      BY <2>1, <3>3 DEF SessionInv
  <2>3. ASSUME tftp_result = "ok", produced > 0
        PROVE  \E s \in sessions : s.client.port = MyPort /\ Len(s.stored) >= UploadLen - 1
    <3>1. Finished /\ delivered = <<>>
      BY <2>1, <2>3 DEF ResultInv, UploadInv
    <3>2. PICK s \in MySessions : s.op = "WRQ" /\ s.blk >= UploadLen - 1
      BY <2>1, <3>1 DEF StateInv
    <3>3. s \in sessions /\ s.client.port = MyPort
      BY DEF MySessions
    <3>4. Len(s.stored) = s.blk
      BY <2>1, <3>2, <3>3 DEF SessionInv
    <3> QED
      BY <3>2, <3>3, <3>4
  <2> QED
    BY <2>2, <2>3 DEF UploadedButLast
<1> QED
  BY <1>1, NetInvariant, PTL
=============================================================================
