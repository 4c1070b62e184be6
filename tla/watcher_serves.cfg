CONSTANTS
    Cmd = {c1}
    Watch = watch
    Free = free
    Addr = {"A"}
    Port = {"445"}
    Op <- RestartOnly
    Killable = {c1}
    Lans <- FirstLan
    Storages = {"ready"}
    Fault = {"crash", "launch"}
    InitCfg <- EnabledCfg
    NoSmbd = nosmbd
    NoFile = nofile
    NoSig = nosig
SPECIFICATION WFairSpec
PROPERTIES
    CommandsReturn
    Converges
