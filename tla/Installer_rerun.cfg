\* Two installations, one over the other, the first of which may die anywhere.
SPECIFICATION Spec
CONSTANTS
    PartList <- TwoImages
    NumEntries = 9
    NumCells = 6
    Layouts <- RerunLayouts
    Loaders = {"gummiboot"}
    Otas = {TRUE}
    BootLists <- TwoBoots
    MaxWait = 1
    MaxRuns = 2
    PowerLoss = FALSE
    BusyDisk = FALSE
INVARIANTS CommandHasPackage EntryLeadsToAndroid NoStaleEntries
CHECK_DEADLOCK FALSE
