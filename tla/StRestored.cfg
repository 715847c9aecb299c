SPECIFICATION Spec
CONSTANTS
    short = short
    long = long
    Records <- MCRecords
    BodyCells <- MCBodyCells
    ImageCells = 1
    Strict = TRUE
    Fsync = TRUE
    DirectoryDurable = TRUE
    PowerFails = TRUE
    RenameFails = TRUE
    ReopenFails = TRUE
    MaxRecords = 3
    MaxFaults = 4
    MaxDamage = 0
INVARIANTS
    RestoredUsable
CHECK_DEADLOCK FALSE
