SPECIFICATION ContainerSpec
CONSTANTS
    logManager = logManager
    logger = logger
    emitter = emitter
    dbManager = dbManager
    mysql = mysql
    mssql = mssql
    p2p = p2p
    api = api
    addon = addon
    None = None
    Plugins <- MCPlugins
    Listed <- MCListed
    Include = None
    Exclude = None
    ExitAt = None
    Extends <- MCExtends
    Depends <- MCDepends
    Required <- MCRequired
    Loadable <- MCPlugins
    Registrable <- MCPlugins
    Versioned <- MCPlugins
    Deregistrable <- MCDeregistrable
    LoggerPlugin = logger
    TearDowns = {"exit", "app"}
    Faults = {"deregister"}
    AppTearsDown = FALSE
CHECK_DEADLOCK FALSE
PROPERTY
    TearDownDeregistersAll
