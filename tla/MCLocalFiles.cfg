SPECIFICATION FilesSpec
CONSTANTS
    Processes = {p1, p2}
    FileCommands <- MCCommands
    Keys = {k1, k2, k3}
    NoPassword = "none"
    OtherServers <- MCServers
    MaxCommands = 4
    MaxCrashes = 1
SYMMETRY Symmetry
PROPERTIES
    WalletsSpared
    AloneIsAtomic
CHECK_DEADLOCK FALSE
