\* A failure behind the mount of the media; no device comes or goes.
SPECIFICATION BootSpec
CONSTANTS
    Disks = {"sda", "sr0", "sdb", "vda"}
    Parts <- MCParts
    HasFs = {"sda1", "sda2", "sdb1", "sr0"}
    Cookies = {"sda2", "sr0"}
    Count = 2
    MaxPlugs = 0
    Errors = TRUE
    Optical = {"sr0"}
    Unnamed = {"vda"}
    Windows = {"sdb"}
    InstallDisk = "sda"
    Attempts = 2
    UintWidth = 16
INVARIANTS PanicMeansNotFound
CHECK_DEADLOCK FALSE
