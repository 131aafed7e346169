SPECIFICATION AgentSpec
CONSTANTS
    oracle = oracle
    admin = admin
    first = first
    second = second
    NumUsers = 1
    Funds <- MCFunds
    OutsideFunds = 0
    Keys = {admin, oracle}
    Admin = admin
    U64Max = 2
    MaxDecisions = 2
    StrategyArgs = {}
    ConfidenceArgs = {}
    NumTicks = 2
    Demos = {demo}
    Scripts = {first, second}
    OracleOf <- MCOracleOf
    AgentKey = oracle
    MIN_CONFIDENCE = 60
    Parts = 4
    Drift = 1
    Answers <- MCAnswers
    DemoAmount = 1
INVARIANTS
    OneDecisionPerTick
    LandsOnLatestDecision
    AnswersKeptOnChain
CHECK_DEADLOCK FALSE
