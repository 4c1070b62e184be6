CONSTANTS
    Cmd = {c1}
    Watch = watch
    Free = free
    Addr = {"A"}
    Port = {"445"}
    Op <- NoOps
    Killable = {}
    Lans <- FirstLan
    Storages = {"ready"}
    Fault = {"crash"}
    InitCfg <- EnabledCfg
    NoSmbd = nosmbd
    NoFile = nofile
    NoSig = nosig
SPECIFICATION WSpec
INVARIANTS
    ServingAtRest
