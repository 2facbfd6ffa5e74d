SPECIFICATION Spec
CONSTANTS
    Nil = Nil
    c1 = c1
    c2 = c2
    Half = 8
    Char <- mcChar
    Keys <- mcKeys
    RestartNo <- mcRestartNo
    Configs <- mcConfigs
    Registered <- mcRegistered
    Alnum <- mcAlnum
    MaxLabel = 3
    MaxPort = 5
    MainListener <- mcMain
    TCP <- mcTCP
    HTTP <- mcHTTP
    Instances <- mcInstances
    Modules <- mcModules
    Values <- mcValues
    Zone <- mcZone
    MaxAsks = 2
INVARIANTS BackendsMeet ArrivesIntact CheckedIsTaken HostsApart
