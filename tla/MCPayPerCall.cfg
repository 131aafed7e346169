SPECIFICATION Spec
CONSTANTS
    Jobs = {j1, j2}
    Requests <- MCRequests
    Verifications = {v1, v2}
    NumAccounts = 2
    StartBalances <- MCBalances
    StartReceived = 1
    MaxLookups = 2
INVARIANTS
    VerifiersAgree
    HonouredArePaid
    RefusedForCause
PROPERTIES
    ChargesEnd
    ImplementsTickets
CHECK_DEADLOCK FALSE
