SPECIFICATION Spec
CONSTANTS
    NULL = NULL
    Handlers = {"ack", "leave"}
    Clearing = {"ack"}
    MaxEdges = 2
    WORD = 3
    MaxTicks = 4
    Configs <- MCConfigs
    Registrations <- MCRegistrations
    Delays = {2}
    Edges <- MCEdges
    Watched <- MCWatched
    LedWord = 4
    CallCost = 2
    MaxCalls = 6
CHECK_DEADLOCK FALSE
INVARIANT RegisteredPinRouted
