\* One connection served at a time, system calls that fail, an outsider that stops.
SPECIFICATION Spec
CONSTANTS
    Clients = {c1, c2}
    Waiters <- Daemon
    Stoppers <- Outsider
    Kinds = {"Shutdown", "Bulk"}
    MaxConnections = 1
    ListenBacklog = 1
    AllowShutdown = TRUE
    MaxRequests = 1
    CallsFail = TRUE
INVARIANTS TypeOK ConnectionsCounted QuietAfterStop
PROPERTIES StopReturns ShutdownHonoured
CHECK_DEADLOCK FALSE
