CONSTANTS
    Nil = Nil
    NoValue = NoValue
    Garbage = Garbage
    Shapes <- MCShapes
    BodyShapes <- MCBodyShapes
    SetJobs <- MCSetJobs
    BodyJobs <- MCBodyJobs
    SetWindow = 1
    SharedSecrets = {"secret"}
    PublicKeys = {"pub1", "pub2"}
    QueryBlocks <- GraphQLBlocks
    KeepDigits = 2
    MaxLeeway = 2
    MaxWindow = 6
    MinSecretLen = 3
    HTTPSigMinLen = 4
    MaxSaneBodyBytes = 8
    Configs <- MCConfigs
    RequestsOf <- MCRequestsOf
SPECIFICATION InspectionSpec
INVARIANTS
    
    FindingsSurface
    LimitsBindExpansion
    RedactionExact
    
    ScopesApply
    
    
CHECK_DEADLOCK FALSE
