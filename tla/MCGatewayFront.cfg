SPECIFICATION Spec
CONSTANTS
    payer1 = payer1
    payer2 = payer2
    reader = reader
    auditor = auditor
    Clients = {payer1, payer2, reader, auditor}
    Kind <- MCKind
    Ip <- MCIp
    Admins = {reader, auditor}
    AdminToken = TRUE
    Services = {"openai"}
    Window = 2
    MaxRequests = 2
    TicksPerSecond = 2
    Limit = 1
    MaxTime = 4
    MaxRows = 2
    Asks <- MCAsks
    MaxRestarts = 1
SYMMETRY Payers
INVARIANTS
    LessThanTwiceMax
    PagingMissesNothing
PROPERTIES
    RetryAfterKept
CHECK_DEADLOCK FALSE
