SPECIFICATION MonitorSafety
CONSTANTS
    seed = seed
    found = found
    other = other
    net = net
    None = None
    Ips <- MCOne
    Subnets = {net}
    SubnetOf <- MCOneSubnetOf
    Seeds = {seed}
    Whitelisted <- MCOne
    MaxSameSubnetPeers = 2
    DisableDiscovery = FALSE
    Objects = {1, 2, 3, 4}
    Runs = {r1, r2}
    MinimumNetworkReach = 2
    IgnoreMinimumNetworkReach = FALSE
    SkipDiscovery = FALSE
    NetworkStart = FALSE
    Updates = {u1, u2}
    ExternalCalls = TRUE
    SlowPings = TRUE
    Unreliable = TRUE
    MalformedLists = TRUE
    MalformedSeeds = TRUE
INVARIANTS
    MonitorTypeOK
    TimerMatchesFlag
SYMMETRY MCSymmetry
