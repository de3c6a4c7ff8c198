SPECIFICATION ServicesSpec
CONSTANTS
    None = None
    Drivers <- MCDrivers
    Servers <- MCServers
    Registrations <- MCRegistrations
    MayFail = {"create", "register", "listen"}
    Clients = {c1}
CHECK_DEADLOCK FALSE
INVARIANTS
    ServicesTypeOK
    RestartedListen
    QueriesFindConnection
    EndedBehindServers
PROPERTIES
    TearDownEnds
