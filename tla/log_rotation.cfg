CONSTANTS
    MaxBoot = 2
    MaxTime = 3
    MaxArchives = 2
    MaxBytes = 3
    Size = {1, 2}
    NewSize = 1
    NoDir = nodir
SPECIFICATION FairSpec
INVARIANTS
    TypeOK
    OldIsNotNew
    MarkedIsPruned
PROPERTIES
    OnlyOldestIsLost
    GetsPrepared
