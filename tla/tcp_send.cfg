CONSTANTS
  c1 = c1
  c2 = c2
  NoConn = NoConn
  Stranger = Stranger
  Conns <- OneConn
  ListenConns <- NoConns
  SeqMod = 16
  Isn <- WrapIsn
  ListenIsns = {}
  MaxListens = 1
  SendLens = {2}
  MaxBytes = 2
  Carries = {0, 1}
  MAX_TCP_PACKETS_SENT = 3
  Calls = {"connect", "send", "close"}
  Aborts = {"connect", "send"}
  StrayPackets <- NoStrays
  PeerIsn <- WrapPeerIsn
  PeerLen = 0
  PeerMss = 0
  RstIds = {"1234", "other"}
SPECIFICATION FairSpec
INVARIANTS
  SendDelivered
  PeerInOrderWhileOpen
PROPERTIES
  CloseWaitsForPeer
  CallsReturn
