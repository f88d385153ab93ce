\* BLKRRPART may fail: the kernel keeps the table of before.
SPECIFICATION Spec
CONSTANTS
    PartList <- AllModes
    NumEntries = 9
    NumCells = 9
    Layouts <- AllLayouts
    Loaders = {"gummiboot"}
    Otas = {FALSE}
    BootLists <- OneBoot
    MaxWait = 1
    MaxRuns = 1
    PowerLoss = FALSE
    BusyDisk = TRUE
INVARIANTS CompleteAnyway
CHECK_DEADLOCK FALSE
