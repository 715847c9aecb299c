\* The lock of the validated platform.  The nested circle stops its threads.
SPECIFICATION LockSpec
CONSTANTS
    t1 = t1
    t2 = t2
    t3 = t3
    Threads <- MCThreads
    NoThread = NoThread
    MaxEndpoints = 2
    MaxWrites = 2
    WriterPreference = TRUE
INVARIANTS
    AnswersAtOneInstant
    NothingAcceptedAfterClose
    OnlyNestedWaits
CHECK_DEADLOCK FALSE
