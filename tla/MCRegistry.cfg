SPECIFICATION RegistrySpec
CONSTANTS
    allGatewayRoutes <- AllRows
    enabledServiceIds <- EnabledServices
    serviceMeta <- DescribedServices
    Parameters <- ParameterSegments
    Callers = {c1}
    Paths <- MCPaths
    SafeTexts = {"abc", "batch"}
    Bodies <- MCBodies
    Lower <- MCLower
    Envs <- MCEnvs
INVARIANTS
    ListedResolves
PROPERTIES
    PaidFailsForCause
