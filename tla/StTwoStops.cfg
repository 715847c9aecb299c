\* Two threads stop the server.
SPECIFICATION Spec
CONSTANTS
    Clients = {c1}
    Waiters <- Daemon
    Stoppers <- Owners
    Kinds = {"Call"}
    MaxConnections = 1
    ListenBacklog = 1
    AllowShutdown = TRUE
    MaxRequests = 1
    CallsFail = FALSE
INVARIANT AcceptorJoinedOnce
CHECK_DEADLOCK FALSE
