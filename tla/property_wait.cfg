CONSTANTS
    Value = {"", "0", "1"}
    Expected = "1"
    MaxChanges = 4
    NoProp = noprop
    NoValue = novalue
SPECIFICATION FairSpec
INVARIANTS
    TypeOK
    NoLostWakeup
    NoLostEvent
PROPERTIES
    Arrives
    DeadlineEnds
CHECK_DEADLOCK FALSE
