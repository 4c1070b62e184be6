CONSTANTS
    MaxPid = 2
    MaxBirths = 3
    NoProcess = noprocess
SPECIFICATION Spec
INVARIANTS
    TypeOK
    NoStraySignal
    HaltedAreGone
    WatcherIsStopped
    PidFileNamesWatcher
PROPERTIES
    SweepEnds
