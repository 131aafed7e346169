SPECIFICATION Spec
CONSTANTS
    Servers = {m1}
    Cli = cli
    Calls = {c1, c2}
    NoCall = none
    Amounts = {2}
    LimitValues = {2}
    MaxDay = 2
    MaxInFlight = 2
    Tools = {}
    Commands = {"lock", "unlock", "set", "send"}
    Faults = {"disk"}
    InitialConfig <- MCInitialConfig
SYMMETRY CallsAlike

    
PROPERTIES
    LockSeenByServers
CHECK_DEADLOCK FALSE
