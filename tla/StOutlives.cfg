\* Stop returns as soon as the last connection left the count.
SPECIFICATION Spec
CONSTANTS
    Clients = {c1}
    Waiters <- Daemon
    Stoppers <- Outsider
    Kinds = {"Call"}
    MaxConnections = 1
    ListenBacklog = 1
    AllowShutdown = TRUE
    MaxRequests = 1
    CallsFail = FALSE
INVARIANT NoConnectionOutlivesServer
CHECK_DEADLOCK FALSE
