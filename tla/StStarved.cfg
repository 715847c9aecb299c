SPECIFICATION FairSpec
CONSTANTS
    t1 = t1
    t2 = t2
    t3 = t3
    Threads <- MCThreads
    NoThread = NoThread
    MaxEndpoints = 1
    MaxWrites = 2
    WriterPreference = FALSE
PROPERTIES
    WritesReturn
