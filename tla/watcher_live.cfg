CONSTANTS
    Cmd = {c1}
    Watch = watch
    Free = free
    Addr = {"A"}
    Port = {"445"}
    Op <- NoOps
    Killable = {}
    Lans <- OneLan
    Storages = {"ready"}
    Fault = {"crash", "launch", "load"}
    InitCfg <- EnabledCfg
    NoSmbd = nosmbd
    NoFile = nofile
    NoSig = nosig
SPECIFICATION WFairSpec
PROPERTIES
    FailureRetried
    CrashNoticed
    ComesToRest
