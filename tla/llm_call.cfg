\* One turn of two rounds with up to two tool calls, responses in three pieces, two
\* console commands, a proxy in the build; one port wraps around to 0.
CONSTANTS
    Keys = {"", "long"}
    LongKeys = {"long"}
    Hosts = {"", "home", "far"}
    LongHosts = {"far"}
    Ports = {8080, 65536}
    Build <- MCBuild
    MaxCommands = 2
    MaxIter = 2
    MaxCalls = 2
    Chunks = 3
    MaxTurns = 1
SPECIFICATION FairSpec
INVARIANTS NothingLeftOpen QuietCallsAreConsistent NothingTakenFromBrokenCalls RequestsPairCalls RestartIsTransparent
PROPERTY CallsEnd
CHECK_DEADLOCK FALSE
