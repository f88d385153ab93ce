\* Layouts of up to eight partitions on files of several sizes.
SPECIFICATION Spec
CONSTANTS
    SectSize = 2
    KB = 4
    Word = 4096
    Layouts <- MCLayouts
INVARIANTS TypeOK ReadBackIsLayout NothingShared KilledIsPartOfNew AppliesWhatItChecked
    ImagesInPlace
CHECK_DEADLOCK FALSE
