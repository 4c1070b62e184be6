CONSTANTS
    Cmd = {c1}
    Watch = watch
    Free = free
    Addr = {"A"}
    Port = {"445"}
    Op <- NoOps
    Killable = {}
    Lans <- OneLan
    Storages = {"ready"}
    Fault = {}
    InitCfg <- EnabledCfg
    NoSmbd = nosmbd
    NoFile = nofile
    NoSig = nosig
SPECIFICATION WSpec
INVARIANTS
    LanGuardAtRest
