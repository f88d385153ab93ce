\* From preinit to the disk that is written, while devices come and go.
SPECIFICATION BootSpec
CONSTANTS
    Disks = {"sda", "sr0", "sdb", "vda"}
    Parts <- MCParts
    HasFs = {"sda1", "sda2", "sdb1", "sr0"}
    Cookies = {"sda2", "sr0"}
    Count = 1
    MaxPlugs = 2
    Errors = TRUE
    Optical = {"sr0"}
    Unnamed = {"vda"}
    Windows = {"sdb"}
    InstallDisk = "sda"
    Attempts = 2
    UintWidth = 16
INVARIANTS ChoiceTypeOK InitHasMedia PanicOnlyIfMissed
    MediaSpared EveryDiskOffered TargetAsAsked
PROPERTIES ComesToAnEnd
CHECK_DEADLOCK FALSE
