\* One installation of each kind on each disk; the kernel may keep the old table,
\* power may fail.
SPECIFICATION Spec
CONSTANTS
    PartList <- AllModes
    NumEntries = 9
    NumCells = 9
    Layouts <- SingleLayouts
    Loaders = {"gummiboot", "syslinux"}
    Otas = {TRUE, FALSE}
    BootLists <- OneBoot
    MaxWait = 1
    MaxRuns = 1
    PowerLoss = TRUE
    BusyDisk = TRUE
INVARIANTS TypeOK ForeignUntouched CompleteIsInstalled NoWriteUnderMount
PROPERTIES Ends
CHECK_DEADLOCK FALSE
