CONSTANTS
    a = a
    b = b
    main = main
    alt = alt
    r = r
    s = s
    None = None
    Bad = Bad
    Listens = {a, b}
    Names = {r, s}
    Tables = {{r}, {r, s}}
    SecPaths = {main, alt}
    SecConfigs <- MCSecConfigs
    SecEnvs <- MCSecEnvs
    InitSecEnv <- MCInitSecEnv
    InitSecFile <- MCInitSecFile
    InitTable = {r, s}
    MaxSecEdits = 1
    MaxCalls = 1
    MaxSecFaults = 0
SPECIFICATION FairSecSpec
PROPERTIES
    RouteEditsAreAdopted
CHECK_DEADLOCK FALSE
