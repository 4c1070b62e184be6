CONSTANTS
    Cmd = {c1}
    Watch = watch
    Free = free
    Addr = {"A"}
    Port = {"445"}
    Op <- FaultsOp
    Killable = {c1, watch}
    Lans <- OneLan
    Storages = {"locked", "ready"}
    Fault = {"load", "halt", "launch", "crash", "reboot"}
    InitCfg <- DefaultCfg
    NoSmbd = nosmbd
    NoFile = nofile
SPECIFICATION Spec
INVARIANTS
    OneMaster
    AuthGuard
    RestartApplies
PROPERTIES
    StopSticks
    LaunchFromDisk
    KeysKept
    KeepsContract
