SPECIFICATION Spec
CONSTANTS
  AddrBits = 4
  Ports = 3
  ByteBits = 2
  HostBits = 3
  WordBits = 4
  None = None
  Network = Network
  Zones <- Z
  Routers <- R
  Links <- L
  HostNet <- N1
  Policies <- AllPolicies
INVARIANTS RangesNested OthersMarked HostsKeepAddresses UpIsComplete ListsMeanGroups RulesKeepPairs RedundantCanGo GivenPasses OnlyGivenPasses RoutesLead
