CONSTANTS
    Cmd = {c1}
    Watch = watch
    Free = free
    Addr = {"A"}
    Port = {"445"}
    Op <- BackAndForthOp
    Killable = {watch}
    Lans <- OneLan
    Storages = {"locked", "ready"}
    Fault = {}
    InitCfg <- DefaultCfg
    NoSmbd = nosmbd
    NoFile = nofile
SPECIFICATION Spec
PROPERTIES
    AcceptsOnlyCurrent
