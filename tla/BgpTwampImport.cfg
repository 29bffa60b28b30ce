CONSTANTS
  dflt = dflt
  red = red
  p1 = p1
  p2 = p2
  p3 = p3
  a1 = a1
  a2 = a2
  a3 = a3
  NULL = NULL
  UINT32_MAX = UINT32_MAX
  Instances = {dflt, red}
  Default = dflt
  Peers = {p1}
  Addrs = {a1}
  peerList <- OnlyDefault
  su <- OnlyDefaultAddr
  IBGP = {p1}
  INET = {p1}
  Advertising = {p1}
  Latencies = {10}
  Deletable = {dflt}
  MAX_NEXTHOPS = 1
  MaxSequence = 2
  MaxTroubles = 2
SPECIFICATION Spec
INVARIANTS
  ImportsCurrent
PROPERTIES
  PollingContinues
  ChangeIsReimported
