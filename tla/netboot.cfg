CONSTANTS
  udp_cbmax = 4
  Callbacks = {"dhcp_in", "tftp_in"}
  Hosts = {"near", "rogue", "far"}
  Wire = {"near", "rogue"}
  Zero = "0.0.0.0"
  Broadcast = "255.255.255.255"
  MyAddresses = {"mine", "other"}
  Netmasks <- OneMask
  NetworkOf <- Networks
  ac_size = 2
  Senders = {"near", "0.0.0.0"}
  MaxHeard = 1
  DhcpServers = {"near", "rogue"}
  Offer <- Offers
  MAX_DHCP_MESSAGES_SENT = 4
  MaxInits = 2
  FileLen <- Files
  Refusing = {"rogue"}
  UploadLen = 2
  Tids = {1}
  TftpDests <- Dests
  MaxTransfers = 2
  MaxCalls = 3
  TFTP_MAX_RESENDS = 2
SPECIFICATION FairSpec
INVARIANTS
  NetInv
  AddressIsRequested
  BlocksInOrder
  DownloadReported
  UploadedButLast
PROPERTIES
  LoopsEnd
CHECK_DEADLOCK FALSE
