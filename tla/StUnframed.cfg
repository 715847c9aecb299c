\* Queries whose reply does not fit one frame, or not the buffers of the socket.
SPECIFICATION Spec
CONSTANTS
    Clients = {c1}
    Waiters <- Daemon
    Stoppers <- Outsider
    Kinds = {"Big", "Bulk"}
    MaxConnections = 1
    ListenBacklog = 1
    AllowShutdown = TRUE
    MaxRequests = 1
    CallsFail = FALSE
PROPERTY CallsReturn
CHECK_DEADLOCK FALSE
