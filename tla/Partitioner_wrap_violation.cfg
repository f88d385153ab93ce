\* The automatic installer (iago-default.ini) on the same disks.
SPECIFICATION Spec
CONSTANTS
    SectorsPerMiB = 4
    TableSectors = 1
    NewEntries = 6
    PartList <- MCPartList
    BootloaderLen = 1
    Prefixed = {"bootloader", "bootloader2"}
    MIN_DATA_PART_SIZE = 1
    Word = 4096
    MibWord = 512
    Disks <- MCDisks
    Modes = {"default"}
    NoTable = NoTable
INVARIANTS LaidOutInEnoughSpace
CHECK_DEADLOCK FALSE
