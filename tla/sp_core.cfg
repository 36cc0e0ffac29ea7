\* Two clients, two threads, one place in each map of the policy; one upstream
\* server, one place for the queries it is asked, two lives of the DNS server.
CONSTANTS
  Threads = {x, y}
  IPs = {a, b}
  RateLimit = 1
  RateWindow = 2
  ViolationThreshold = 2
  ViolationWindow = 2
  SuspiciousThreshold = 2
  SuspiciousWindow = 2
  BlockDuration = 2
  MaxTracked = 1
  MaxBlocks = 1
  SweepInterval = 1
  AclDefault = "allow"
  WhitelistOverrides = TRUE
  WhitelistBypasses = TRUE
  Listable = {a}
  MaxClock = 3
  MaxCalls = 3
  Datagrams <- Asks
  Zones <- AliasZone
  Ttl = 1
  DefaultRows <- LocalhostRow
  EditRows <- WwwRow
  Upstreams = 1
  UpstreamWorkers = 1
  MaxPendingUpstream = 1
  MinPayload = 1
  MaxUdpPayload = 2
  MaxQueries = 2
  MaxStarts = 2
  MaxEdits = 1
SYMMETRY Interchangeable
SPECIFICATION EitherSpec
INVARIANTS LimitsHold CloseHolds ChainFollowed EveryQueryAccounted
PROPERTIES NoAdmissionWhileBlocked
\* Clients may stop asking, and the bounds on calls stop the others.
CHECK_DEADLOCK FALSE
