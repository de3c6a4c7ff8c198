SPECIFICATION RateLimiterSpec
CONSTANTS
    host = host
    trusted = trusted
    all = all
    getPeers = getPeers
    postBlock = postBlock
    None = None
    Addresses = {host, trusted}
    Whitelist = {trusted}
    Endpoints = {getPeers, postBlock}
    Global = all
    Points <- MCPoints
    Duration <- MCDuration
    BlockDuration <- MCBlockDuration
    Requests = {1, 2}
    MaxConsumed = 5
INVARIANTS
    RateLimiterTypeOK
    LimitsHold
    BlockedIsExceeded
PROPERTIES
    BansHold
    BansEnd
