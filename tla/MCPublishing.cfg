SPECIFICATION PublishingSpec
CONSTANTS
    o1 = o1
    e1 = e1
    Objects <- MCObjects
    Endpoints <- MCEndpoints
    Labels <- MCLabels
    HistoryPerKey = 1
    MaxObjects = 1
    MaxEndpoints = 1
    MaxSources = 4
    MaxSides = 1
    MaxPorts = 2
    MaxSlots = 1
    MaxClaimsPerPort = 4
    MaxObjectIncarnation = 2
    SessionsPerSource = 64
    U32 = 65536
    MaxLog = 20
    MaxFaults = 2
    i1 = i1
    Ids <- MCIds
    NilId = NilId
    Evidence <- MCEvidence
    Openings <- MCOpenings
    Script <- MCScript
    Publisher = 1
    MaxIncarnation = 2
INVARIANTS
    LearntIsRecorded
    GraphFollowsPublisher
    RepeatsWereOvertaken
PROPERTIES
    ScriptCompleted
CHECK_DEADLOCK FALSE
