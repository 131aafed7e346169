SPECIFICATION Spec
CONSTANTS
    a = a
    b = b
    usdc = usdc
    other = other
    Keys = {a, b}
    Payers = {b}
    Deployer = a
    TREASURY_WALLET = a
    Mints = {usdc, other}
    FeeMint = usdc
    Funds <- MCFunds
    Amounts = {3}
    Rates = {1, 3}
    StartRates <- MCStartRates
    BPS_DENOMINATOR = 2
    MAX_FEE_BPS = 1
    U64Max = 3
    MaxDecisions = 2
INVARIANTS
    TrailNumbersEachDecision
PROPERTIES
    ChargeCapped
    FeeChangesAnnounced
