-------------------------- MODULE NetbootInvariant --------------------------
(***************************************************************************)
(* The inductive invariant of Netboot, from which NetbootProofs proves its *)
(* safety properties.                                                      *)
(***************************************************************************)
EXTENDS Netboot

\* Only the low byte of a block's number is compared: up to 255 blocks, what an earlier
\* block left behind cannot be mistaken for the next one.
ShortFiles == UploadLen < 256 /\ \A h \in Hosts : FileLen[h] < 256

----------------------------------------------------------------------------
(* The loops and their listeners.                                          *)

DhcpSlot == [lo |-> 68, hi |-> 0, vec |-> "dhcp_in"]
TftpSlot == [lo |-> tftp_client_port, hi |-> 105, vec |-> "tftp_in"]

\* The table holds the listener of the loop that runs, under its own port; in between it
\* is empty, unless dhcp_init was aborted.
OneListener ==
  /\ dhcp_phase # "idle" => listeners = <<DhcpSlot>>
  /\ tftp_phase # "idle" => listeners = <<TftpSlot>>
  /\ Idle => listeners = <<>> \/ (dhcp_result # "ok" /\ listeners = <<DhcpSlot>>)

\* Transfers come after the configuration, and end with a result.
FirstDhcp ==
  /\ dhcp_phase # "idle" =>
       dhcp_result = "none" /\ dhcp_message_sent_count < MAX_DHCP_MESSAGES_SENT - 1
  /\ tftp_client_port > 0 => dhcp_result = "ok"
  /\ tftp_client_port = 0 => tftp_phase = "idle" /\ tftp_result = "none"
  /\ tftp_phase # "idle" => tftp_result = "none"
  /\ tftp_result # "busy"

\* What dhcp_in has stored is one server's offer.
OfferTaken ==
  /\ dhcp_server \in DhcpServers =>
       Offer[dhcp_server] = [ip |-> dhcp_ip, netmask |-> cfg_netmask, gateway |-> cfg_gateway]
  /\ dhcp_state \in {dhcp_ready_to_request, dhcp_bound} => dhcp_server \in DhcpServers
  /\ dhcp_state = dhcp_bound => \E r \in dhcp_requests : r.ip = cfg_ip
  /\ \A r \in dhcp_requests : r.ip = Offer[r.server].ip
  /\ dhcp_result = "ok" => dhcp_state = dhcp_bound

DhcpInv ==
  /\ UdpTypeOK /\ ArpTypeOK /\ DhcpTypeOK /\ tftp_client_port \in 0 .. MaxTransfers
  /\ OneListener /\ FirstDhcp /\ OfferTaken

----------------------------------------------------------------------------
(* Packets and sessions.                                                   *)

UsedPorts == {Port69(n) : n \in 1 .. tftp_client_port}

\* Each block of an upload is sent under its own number.
SentInv ==
  \A p \in sent :
    /\ p.from \in [ip : MyAddresses \cup {Zero}, port : UsedPorts]
    /\ p.op = "DATA" => p.blk = p.data
    /\ p.last \in BOOLEAN

Session ==
  [id : [host : Hosts, tid : Tids], client : [ip : MyAddresses \cup {Zero}, port : Port],
   op : {"RRQ", "WRQ"}, blk : Nat, stored : Seq(Nat), done : BOOLEAN]

\* A session has sent blocks of its file, or stored blocks in order.
SessionInv ==
  /\ sessions \subseteq Session
  /\ \A s \in sessions :
       /\ s.client.port \in UsedPorts
       /\ s.op = "RRQ" => s.blk \in 1 .. FileLen[s.id.host] /\ s.stored = <<>>
       /\ s.op = "WRQ" => Len(s.stored) = s.blk /\ \A i \in 1 .. s.blk : s.stored[i] = i

\* What belongs to the current or last transfer: it has a port of its own.
Mine == {p \in sent : p.from.port = MyPort}
MySessions == {s \in sessions : s.client.port = MyPort}
Asked(op) == \E p \in Mine : p.op = op

\* All its requests are of one kind and went to tftp_ip.
RequestInv ==
  /\ \A p \in Mine : p.op \in {"RRQ", "WRQ"} => p.to.host = tftp_ip
  /\ \A s \in MySessions : Asked(s.op) /\ Reaches(s.id.host, tftp_ip)
  /\ ~ (Asked("RRQ") /\ Asked("WRQ"))
  /\ tftp_call = "download" => ~ Asked("WRQ")
  /\ tftp_call = "upload" => ~ Asked("RRQ")
  /\ tftp_phase # "idle" => tftp_call # "none"

----------------------------------------------------------------------------
(* The blocks of a transfer.                                               *)

Source == delivered[1].from
Unfinished == tftp_state = tftp_transmission_in_progress
Finished == tftp_state = tftp_complete
Acknowledging == tftp_phase = "check" /\ tftp_break_inner_loop = 1 /\ Finished

Whole(n) == n = FileLen[Source.host]

\* A download: only the source of its first block has been acknowledged, so only that
\* session has gone on.
DownloadInv ==
  /\ BlocksInOrder
  /\ tftp_current_block_number = Len(delivered) + produced
  /\ delivered \in Seq([from : [host : Hosts, tid : Tids], blk : Nat])
  /\ delivered # <<>> =>
       Asked("RRQ") /\ Len(delivered) <= FileLen[Source.host]
  /\ ~ Asked("WRQ") => \A p \in Mine : p.op = "ACK" => delivered # <<>> /\ p.to = Source
  /\ \A s \in MySessions : s.op = "RRQ" /\ s.blk > 1 => delivered # <<>> /\ s.id = Source

\* An upload: a block is stored after it was sent, and sent after the one before it was
\* acknowledged.
UploadInv ==
  /\ produced > 0 => Asked("WRQ") /\ delivered = <<>>
  /\ \A p \in Mine : p.op = "DATA" => p.blk \in 1 .. produced
  /\ \A s \in MySessions : s.op = "WRQ" =>
       s.blk = 0 \/ \E p \in Mine : p.op = "DATA" /\ p.blk = s.blk

\* When the last block is sent the transfer is over: its acknowledgement is not heard.
LastSent == \E p \in Mine : p.op = "DATA" /\ p.blk = UploadLen
LastBlockInv ==
  tftp_phase # "idle" /\ LastSent =>
    Acknowledging /\ Resolved(tftp_actual_server.host)

\* What tftp_state says about the blocks, and what a resend would send.
StateInv ==
  Unfinished \/ Finished =>
    /\ tftp_actual_server.host \in Hosts
    /\ \/ /\ delivered # <<>> /\ tftp_actual_server = Source
          /\ Finished <=> Whole(Len(delivered))
          /\ Unfinished => tftp_outp = AckPacket
       \/ /\ produced > 0 /\ (Finished <=> produced = UploadLen)
          /\ Unfinished => tftp_outp = DataPacket(produced)
          /\ Finished => \E s \in MySessions : s.op = "WRQ" /\ s.blk >= UploadLen - 1

\* What tftp_result says.
ResultInv ==
  tftp_result = "ok" => Finished

TransferInv ==
  /\ SentInv /\ SessionInv /\ RequestInv
  /\ DownloadInv /\ UploadInv /\ LastBlockInv /\ StateInv /\ ResultInv

----------------------------------------------------------------------------
(* The next hop of a transfer in the ARP cache.                            *)

\* No reply but those of h can push its entry out.
OnlyAsked(h) == heard < ac_size /\ arp_asked \subseteq {h}
Slot == 1 .. Len(arp_cache)
EntryAt(h, i) == i \in Slot /\ arp_cache[i] = h

\* Once in the cache an entry stays, and so does an entry that hides it: of those above it
\* at most one is a reply's.
EntryStays ==
  \A h \in Hosts : OnlyAsked(h) /\ (\E i \in Slot : EntryAt(h, i)) =>
    \E j \in 1 .. heard + 1 : EntryAt(h, j)
ZeroStays ==
  \A h \in Hosts : OnlyAsked(h) /\ (\E i \in Slot : EntryAt(Zero, i)) =>
    \E i \in 1 .. heard + 1 :
      /\ EntryAt(Zero, i) /\ \A j \in 1 .. i - 1 : ~ EntryAt(Zero, j)
      /\ i <= heard \/ (arp_state = arp_idle /\ \E j \in 1 .. i - 1 : EntryAt(h, j))

\* A file that is complete while the loop goes on lacks its acknowledgement, because the
\* entry of its server is hidden.
Hidden ==
  OnlyAsked(NextHop(tftp_ip)) /\ tftp_ip # Broadcast =>
    /\ Mine # {} => \E i \in Slot : EntryAt(NextHop(tftp_ip), i)
    /\ WholeFile /\ tftp_result \in {"none", "timeout"} /\ ~ Acknowledging =>
         \E i \in Slot : EntryAt(Zero, i)

ArpInv == EntryStays /\ ZeroStays /\ Hidden

NetInv == DhcpInv /\ TftpTypeOK /\ TransferInv /\ ArpInv
=============================================================================
