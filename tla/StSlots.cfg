SPECIFICATION Spec
CONSTANTS
    o1 = o1
    o2 = o2
    e1 = e1
    Objects <- MCObjects
    Endpoints <- MCEndpoints
    Labels <- MCLabels
    HistoryPerKey = 1
    MaxObjects = 2
    MaxEndpoints = 1
    MaxSources = 2
    MaxSides = 2
    MaxPorts = 2
    MaxSlots = 2
    MaxClaimsPerPort = 2
    MaxObjectIncarnation = 3
    Evidence <- TwoSlots
    Openings <- EqualSources
INVARIANTS
    EdgeSlotClaimed
