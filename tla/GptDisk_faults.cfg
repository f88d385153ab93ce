\* One gpt_write whose write(2) calls may be short or interrupted, killed at any
\* write, power lost at any moment.
SPECIFICATION Spec
CONSTANTS
    NoTable = NoTable
    Protective = Protective
    Garbage = Garbage
    Tables = {t1, t2, t3}
    MaxRuns = 1
    PowerLoss = TRUE
    ShortWrites = TRUE
SYMMETRY TableSymmetry
INVARIANTS Durable PowerLossOutcome
CHECK_DEADLOCK FALSE
