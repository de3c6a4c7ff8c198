SPECIFICATION MonitorSpec
CONSTANTS
    seed = seed
    found = found
    other = other
    net = net
    None = None
    Ips <- MCIps
    Subnets = {net}
    SubnetOf <- MCSubnetOf
    Seeds = {seed, other}
    Whitelisted <- MCIps
    MaxSameSubnetPeers = 2
    DisableDiscovery = FALSE
    Objects = {1, 2}
    Runs = {r1}
    MinimumNetworkReach = 2
    IgnoreMinimumNetworkReach = FALSE
    SkipDiscovery = FALSE
    NetworkStart = FALSE
    Updates = {u1}
    ExternalCalls = FALSE
    SlowPings = FALSE
    Unreliable = FALSE
    MalformedLists = FALSE
    MalformedSeeds = FALSE
INVARIANTS
    PingsCheckListedPeers
    UpdatesTakeTurns
PROPERTIES
    UpdatesRecur
    DeadPeersLeave
    RecoversFromSeeds
    StoreSpec
