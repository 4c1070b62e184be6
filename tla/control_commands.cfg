CONSTANTS
    Cmd = {c1}
    Watch = watch
    Free = free
    Addr = {"A", "B"}
    Port = {"445"}
    Op <- CommandsOp
    Killable = {}
    Lans <- CommandsLans
    Storages = {"locked", "ready"}
    Fault = {"launch"}
    InitCfg <- DefaultCfg
    NoSmbd = nosmbd
    NoFile = nofile
SPECIFICATION Spec
INVARIANTS
    TypeOK
    AppliedIsRunning
    WaitingIsDown
    RunningIsEnabled
PROPERTIES
    AcceptsOnlyCurrent
