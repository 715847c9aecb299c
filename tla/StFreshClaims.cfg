SPECIFICATION Spec
CONSTANTS
    o1 = o1
    e1 = e1
    Objects <- MCObjects
    Endpoints <- MCEndpoints
    Labels <- MCLabels
    HistoryPerKey = 1
    MaxObjects = 1
    MaxEndpoints = 1
    MaxSources = 2
    MaxSides = 1
    MaxPorts = 1
    MaxSlots = 1
    MaxClaimsPerPort = 2
    MaxObjectIncarnation = 2
    SessionsPerSource = 64
    U32 = 65536
    MaxLog = 8
    MaxFaults = 2
    i1 = i1
    i2 = i2
    Ids <- MCIds
    NilId = NilId
    Evidence <- MCDisagreement
    Openings <- MCTwoSources
INVARIANTS
    ValidatedRestsOnFreshClaims
CHECK_DEADLOCK FALSE
