CONSTANTS
    Cmd = {c1}
    Watch = watch
    Free = free
    Addr = {"A"}
    Port = {"445"}
    Op <- StartStop
    Killable = {watch}
    Lans <- FirstLan
    Storages = {"ready"}
    Fault = {"crash", "reboot"}
    InitCfg <- DefaultCfg
    NoSmbd = nosmbd
    NoFile = nofile
    NoSig = nosig
SPECIFICATION WSpec
INVARIANTS
    WTypeOK
    NoMissedChange
PROPERTIES
    ControlSpec
