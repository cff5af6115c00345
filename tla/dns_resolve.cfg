CONSTANTS
  udp_cbmax = 2
  Callbacks = {"dns_in", "app"}
  Names <- Hosts
  Quads <- Quad
  HostAddress <- Addresses
  Zone <- Records
  NoName = NoName
  NoAddress = NoAddress
  MaxResolves = 2
  Carries = {0, 1}
  MAX_DNS_MESSAGES_SENT = 3
  MayAbort = TRUE
  AppPorts <- OnePort
SPECIFICATION DnsFairSpec
INVARIANTS
  DnsTypeOK
  ResolvedIsAskedAlone
PROPERTIES
  ListenerReleased
  ResolveReturns
