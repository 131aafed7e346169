SPECIFICATION Spec
CONSTANTS
    Servers = {m1}
    Cli = cli
    Calls = {c1}
    NoCall = none
    Amounts = {2}
    LimitValues = {1, 2}
    MaxDay = 1
    MaxInFlight = 2
    Tools = {}
    Commands = {"lock"}
    Faults = {}
    InitialConfig <- MCDatedConfig
PROPERTIES
    RecordingKeepsLock
CHECK_DEADLOCK FALSE
