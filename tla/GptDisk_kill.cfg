\* Runs killed at any write, power stays on.
SPECIFICATION Spec
CONSTANTS
    NoTable = NoTable
    Protective = Protective
    Garbage = Garbage
    Tables = {t1, t2, t3}
    MaxRuns = 3
    PowerLoss = FALSE
    ShortWrites = FALSE
INVARIANTS TypeOK OldOrNew WrittenHeals
PROPERTIES SingleSwitch ImplementsStore
CHECK_DEADLOCK FALSE
