CONSTANTS
    a = a
    b = b
    main = main
    alt = alt
    r = r
    s = s
    c1 = c1
    c2 = c2
    c3 = c3
    u1 = u1
    u2 = u2
    k1 = k1
    k2 = k2
    h1 = h1
    None = None
    Bad = Bad
    Absent = Absent
    Garbled = Garbled
    Listens = {a, b}
    Names = {r, s}
    Tables = {{r}, {r, s}}
    SecPaths = {main, alt}
    SecConfigs <- MCSecConfigs
    SecEnvs <- MCSecEnvs
    InitSecEnv <- MCInitSecEnv
    InitSecFile <- MCInitSecFile
    InitTable = {r, s}
    MaxSecEdits = 2
    MaxCalls = 1
    MaxSecFaults = 1
    LogCapacity = 2
    FileLines = 2
    MaxBackups = 2
    BatchSize = 1
    MaxLogged = 5
    MaxLogFaults = 2
    Contents = {c1, c2, c3}
    FirstContent = c1
    KeepBackups = 2
    MaxSaves = 3
    MaxFileFaults = 2
    Upgrades = {u1, u2}
    Closers = {k1, k2}
    Checks = {h1}
    MaxReloads = 2
    HistoryCapacity = 2
    SampleInterval = 2
    HistoryBytes = 2
    MaxElapsed = 3
    MaxServed = 1
    MaxHistoryFaults = 2
    RawRoutes <- MCRawRoutes
    MaxTable = 3
    Hosts <- MCHosts
    Paths <- MCPaths
    Policies <- MCPolicies
    Asks <- MCAsks
    Responses <- MCResponses
    Tag <- MCTag
    Modified <- MCModified
    DefaultTTL = 2
    StaleIfError = 1
    MaxClock = 3
    MaxExchanges = 1
SPECIFICATION PlatformSpec
INVARIANTS
    PlatformTypeOK
    ServesItsFile
    RoutesFollow
    LogKeepsHistory
    ConfigSurvives
    HandlerShutsDown
    HistoryIsHonest
    ProgramsAgreeOnRoute
    CacheAnswersFit
PROPERTIES
    RecoversBound
    SupervisorCompletes
CHECK_DEADLOCK FALSE
