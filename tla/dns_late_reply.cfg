CONSTANTS
  udp_cbmax = 4
  Callbacks = {"dns_in", "app"}
  Names <- TwoHosts
  Quads <- Quad
  HostAddress <- TwoAddresses
  Zone <- TwoRecords
  NoName = NoName
  NoAddress = NoAddress
  MaxResolves = 2
  Carries = {0}
  MAX_DNS_MESSAGES_SENT = 3
  MayAbort = TRUE
  AppPorts <- NoPorts
SPECIFICATION DnsSpec
INVARIANTS
  ResolvedIsAsked
