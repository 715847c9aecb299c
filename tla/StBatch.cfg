\* A batch whose reply does not arrive.
SPECIFICATION Spec
CONSTANTS
    Clients = {c1}
    Waiters <- Daemon
    Stoppers <- Outsider
    Kinds = {"Batch"}
    MaxConnections = 1
    ListenBacklog = 1
    AllowShutdown = TRUE
    MaxRequests = 1
    CallsFail = FALSE
INVARIANT RefusedMeansNotApplied
CHECK_DEADLOCK FALSE
