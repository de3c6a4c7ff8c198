SPECIFICATION UpgradeSpec
CONSTANTS
    p = p
    q = q
    Absent = Absent
    Torn = Torn
    Peers <- MCPeers
    UserLists <- MCUserLists
    Fetched <- MCFetched
    Networks = {"mainnet"}
    Keys = {"CORE_PATH_DATA", "CORE_PATH_CONFIG"}
    Originals = {"delegates", "peers"}
INVARIANTS
    UpgradeTypeOK
    UserFilesKept
    DoneIsComplete
    PeersKept
