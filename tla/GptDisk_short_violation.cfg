\* write(2) may be short or interrupted.
SPECIFICATION Spec
CONSTANTS
    NoTable = NoTable
    Protective = Protective
    Garbage = Garbage
    Tables = {t1, t2}
    MaxRuns = 1
    PowerLoss = FALSE
    ShortWrites = TRUE
INVARIANTS WrittenIsRead
CHECK_DEADLOCK FALSE
