SPECIFICATION Spec
CONSTANTS
    short = short
    long = long
    Records <- MCRecords
    BodyCells <- MCBodyCells
    ImageCells = 1
    Strict = TRUE
    Fsync = TRUE
    DirectoryDurable = TRUE
    PowerFails = TRUE
    RenameFails = TRUE
    ReopenFails = FALSE
    MaxRecords = 3
    MaxFaults = 3
    MaxDamage = 1
INVARIANTS
    DamageBeforeTailIsFatal
CHECK_DEADLOCK FALSE
