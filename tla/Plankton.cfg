SPECIFICATION Spec
CONSTANTS
  Nodes <- MCNodes
  NoNode = "no_node"
  Addrs <- MCAddrs
  NoAddr = "no_addr"
  Intfs <- MCIntfs
  NoIntf = "no_intf"
  Owner <- MCOwner
  IntfAddr <- MCIntfAddr
  Links <- MCLinks
  Networks <- MCNetworks
  NetworkLen <- MCNetworkLen
  NetworkAddrs <- MCNetworkAddrs
  Emulated <- MCEmulated
  Ecs <- MCEcs
  NoEc = "no_ec"
  EcOf <- MCEcOf
  IntfNetwork <- MCIntfNetwork
  StaticRoutes <- MCStaticRoutes
  Updates <- MCUpdates
  MaxConns = 3
  Queries <- MCQueries
  Rewrites <- MCRewrites
  MbIntf <- MCMbIntf
  ReportTo = "e2"
  MaxPkts = 1
  MaxResults = 2
INVARIANTS TypeOK ChoiceInRange InjectWhenQuiet NeverFails EndsWhenDone ReachabilityVerdict
INVARIANTS ConditionalVerdict ConsistencyVerdict FibsAreSnapshots
PROPERTIES PathEnds PartsStartAfresh FlowsKeepPath
CHECK_DEADLOCK FALSE
