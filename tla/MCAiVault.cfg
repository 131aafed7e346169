SPECIFICATION Spec
CONSTANTS
    NumUsers = 2
    Funds <- MCFunds
    OutsideFunds = 1
    Keys = {admin, oracle}
    Admin = admin
    U64Max = 4
    MaxDecisions = 3
    StrategyArgs <- MCStrategyArgs
    ConfidenceArgs <- MCConfidenceArgs
INVARIANTS
    SharesAddUp
    Solvent
    PrincipalKept
    AuditTrailReplays
PROPERTIES
    AuditTrail
    ImplementsCustody
