SPECIFICATION StoreSafety
CONSTANTS
    seed = seed
    found = found
    stranger = stranger
    net = net
    otherNet = otherNet
    None = None
    Ips <- MCIps
    Subnets <- MCSubnets
    SubnetOf <- MCSubnetOf
    Seeds <- MCSeeds
    Whitelisted <- MCIps
    Objects <- MCObjects
    Runs = {r1, r2}
    MaxSameSubnetPeers = 1
    DisableDiscovery = FALSE
INVARIANT
    SubnetLimit
