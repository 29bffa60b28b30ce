CONSTANTS
  dflt = dflt
  red = red
  p1 = p1
  p2 = p2
  p3 = p3
  a1 = a1
  a2 = a2
  a3 = a3
  NULL = NULL
  UINT32_MAX = UINT32_MAX
  Instances = {dflt}
  Default = dflt
  Peers = {p1, p2, p3}
  Addrs = {a1, a2, a3}
  peerList <- Three
  su <- ThreeAddrs
  IBGP = {p1, p2, p3}
  INET = {p1, p2, p3}
  Advertising = {}
  Latencies = {10}
  Deletable = {dflt}
  MAX_NEXTHOPS = 2
  MaxSequence = 0
  MaxTroubles = 1
SPECIFICATION Spec
INVARIANTS
  TypeOK
  UniqueNexthops
  LatencyIsFresh
  EstablishedPeersExact
  CollectedPeersListed
PROPERTIES
  SlotsStable
  ImplementsLatencyTable
