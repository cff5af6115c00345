CONSTANTS
  c1 = c1
  c2 = c2
  NoConn = NoConn
  Stranger = Stranger
  Conns <- OneConn
  ListenConns <- OneConn
  SeqMod = 16
  Isn <- WrapIsn
  ListenIsns = {14}
  MaxListens = 1
  SendLens = {2}
  MaxBytes = 2
  Carries = {0}
  MAX_TCP_PACKETS_SENT = 3
  Calls = {"listen", "send"}
  Aborts = {"send"}
  StrayPackets <- NoStrays
  PeerIsn <- WrapPeerIsn
  PeerLen = 0
  PeerMss = 2
  RstIds = {"other"}
SPECIFICATION Spec
INVARIANTS
  SendDelivered
CONSTRAINT BoundedDelivery
