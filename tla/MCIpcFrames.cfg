\* The daemon with one client that meets every kind of reply and refusal, and accept and
\* thread creation failing.
SPECIFICATION Spec
CONSTANTS
    Clients = {c1}
    Waiters <- Daemon
    Stoppers <- Daemon
    Kinds = {"Call", "Batch", "Shutdown", "Huge", "Wide", "Big", "Bulk"}
    MaxConnections = 1
    ListenBacklog = 1
    AllowShutdown = TRUE
    MaxRequests = 4
    CallsFail = TRUE
INVARIANT AnswerIsForRequest
PROPERTY NobodyLeftWaiting
CHECK_DEADLOCK FALSE
