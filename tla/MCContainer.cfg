SPECIFICATION ContainerSpec
CONSTANTS
    logManager = logManager
    logger = logger
    emitter = emitter
    dbManager = dbManager
    mysql = mysql
    mssql = mssql
    p2p = p2p
    api = api
    addon = addon
    None = None
    Plugins <- MCPlugins
    Listed <- MCListed
    Include <- MCInclude
    Exclude <- MCExclude
    ExitAt = None
    Extends <- MCExtends
    Depends <- MCDepends
    Required <- MCRequired
    Loadable <- MCLoadable
    Registrable <- MCRegistrable
    Versioned <- MCPlugins
    Deregistrable <- MCDeregistrable
    LoggerPlugin = logger
    TearDowns = {"exit", "app"}
    Faults = {"version", "config", "register", "deregister", "runtime"}
    AppTearsDown = TRUE
CHECK_DEADLOCK FALSE
INVARIANTS
    ContainerTypeOK
    TearDownInReverse
    RegisteredOnce
    BasesFirst
    ReadyIsComplete
    GracefulExit
PROPERTY
    ShutdownEnds
