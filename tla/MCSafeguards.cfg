SPECIFICATION Spec
CONSTANTS
    Servers = {m1}
    Cli = cli
    Calls = {c1, c2, c3}
    NoCall = none
    Amounts = {2, 3}
    LimitValues = {1, 2}
    MaxDay = 2
    MaxInFlight = 2
    Tools = {"lock", "show"}
    Commands = {}
    Faults = {"crash", "throw"}
    InitialConfig <- MCInitialConfig
INVARIANTS
    DiskMatchesMemory
    OvershootBounded
PROPERTIES
    LockSticks
    LimitsStick
CHECK_DEADLOCK FALSE
