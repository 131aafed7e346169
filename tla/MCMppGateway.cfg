SPECIFICATION FairSpec
CONSTANTS
    cheap = cheap
    dear = dear
    closed = closed
    Requests = {r1, r2}
    Signatures = {s1}
    NoSignature = nosig
    Malformed = malformed
    Routes = {cheap, dear, closed}
    NoRoute = noroute
    Configured = {cheap, dear}
    Price <- MCPrice
    Amounts = {1, 2}
    MaxRetries = 2
    FetchRetries = 3
    MaxTxAge = 1
    TxTtl = 2
    MaxTime = 4
    Faults = {"rpc", "redis", "flush", "db", "upstream", "crash"}
INVARIANTS
    OneCallPerPayment
    BooksBalance
    KeyOutlivesPayment
PROPERTIES
    SellsTickets
    EveryRequestAnswered
CHECK_DEADLOCK FALSE
