\* One partition of each kind, with short reads and writes.
SPECIFICATION Spec
CONSTANTS
    Jobs <- MCJobs
    Chunk = 3
    KB = 2
    Word = 1024
INVARIANTS TypeOK WrittenInOrder FileSystemFits
PROPERTIES ImplementsCell
CHECK_DEADLOCK FALSE
