\* Every layout and every answer, on a disk of 11 MiB.
SPECIFICATION Spec
CONSTANTS
    SectorsPerMiB = 4
    TableSectors = 1
    NewEntries = 6
    PartList <- MCPartList
    BootloaderLen = 1
    Prefixed = {"bootloader", "bootloader2"}
    MIN_DATA_PART_SIZE = 1
    Word = 4096
    MibWord = 512
    Disks <- MCDisks
    Modes = {"interactive", "default", "provision"}
    NoTable = NoTable
INVARIANTS
    TypeOK NewTableIsSound ForeignKept NtfsFits AndroidComplete AcceptedFits GapIsLargest
CHECK_DEADLOCK FALSE
