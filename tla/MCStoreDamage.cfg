SPECIFICATION Spec
CONSTANTS
    short = short
    long = long
    Records <- MCRecords
    BodyCells <- MCBodyCells
    ImageCells = 1
    Strict = FALSE
    Fsync = TRUE
    DirectoryDurable = TRUE
    PowerFails = FALSE
    RenameFails = FALSE
    ReopenFails = TRUE
    MaxRecords = 3
    MaxFaults = 3
    MaxDamage = 1
PROPERTIES
    NothingSpliced
CHECK_DEADLOCK FALSE
