SPECIFICATION Spec
CONSTANTS
    o1 = o1
    e1 = e1
    Objects <- MCObjects
    Endpoints <- MCEndpoints
    Labels <- MCLabels
    HistoryPerKey = 1
    MaxObjects = 1
    MaxEndpoints = 1
    MaxSources = 2
    MaxSides = 1
    MaxPorts = 2
    MaxSlots = 1
    MaxClaimsPerPort = 4
    MaxObjectIncarnation = 3
    Evidence <- MCEvidence
    Openings <- MCOpenings
INVARIANTS
    SameEvidenceSameGraph
