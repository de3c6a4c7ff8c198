SPECIFICATION StoreSpec
CONSTANTS
    seed = seed
    found = found
    stranger = stranger
    net = net
    otherNet = otherNet
    None = None
    Ips <- MCIps
    Subnets <- MCSubnets
    SubnetOf <- MCSubnetOf
    Seeds <- MCSeeds
    Whitelisted <- MCWhitelisted
    Objects <- MCObjects
    Runs = {r1, r2}
    MaxSameSubnetPeers = 2
    DisableDiscovery = FALSE
INVARIANTS
    StoreTypeOK
    VerifiedOncePerAddress
    PendingIsNotStored
    ConnectionsOwned
PROPERTIES
    PeersNeverReplaced
    ImplementsLifecycle
