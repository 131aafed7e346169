SPECIFICATION Spec
CONSTANTS
    usdc = usdc
    twin = twin
    sol = sol
    Jobs = {j1, j2}
    Requests <- MCRequests
    NumVenues = 3
    Protocol <- MCProtocol
    Mint <- MCMint
    SwapTo = sol
    StartFunds <- MCFunds
    StartSupply <- MCSupply
    MaxApy = 1
INVARIANTS
    RebalanceWholeOrThrown
    MovesUpOnly
    FeeAfterOperation
CHECK_DEADLOCK FALSE
