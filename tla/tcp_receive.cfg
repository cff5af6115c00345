CONSTANTS
  c1 = c1
  c2 = c2
  NoConn = NoConn
  Stranger = Stranger
  Conns <- OneConn
  ListenConns <- NoConns
  SeqMod = 16
  Isn <- WrapIsn
  ListenIsns = {}
  MaxListens = 1
  SendLens = {1}
  MaxBytes = 0
  Carries = {0}
  MAX_TCP_PACKETS_SENT = 3
  Calls = {"connect", "keep_alive"}
  Aborts = {"connect", "send"}
  StrayPackets <- Strays
  PeerIsn <- WrapPeerIsn
  PeerLen = 2
  PeerMss = 2
  RstIds = {"other"}
SPECIFICATION Spec
INVARIANTS
  TypeOK
  ClientInv
  InOrderDelivery
  EofAfterAllData
  AckedIsDelivered
PROPERTIES
  AckNeverRetreats
  ImplementsByteStream
