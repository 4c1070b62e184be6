------------------------------ MODULE MCWatcher -------------------------------
(* Small instances of Watcher for TLC.                                        *)
EXTENDS Watcher

(* The defaults of config.rs 4-20, and the same once the server is enabled.   *)
DefaultCfg ==
    [k \in Key |-> CASE k = "PORT" -> "445"
                     [] k = "AUTH_MODE" -> "guest"
                     [] k = "EXTRA_INTERFACES" -> ""
                     [] k \in {"BIND_INTERFACES", "INTERFACES_AUTO"} -> "1"
                     [] OTHER -> "0"]
EnabledCfg == Set(DefaultCfg, "ENABLED", "1")

NoOps == {}
Do(c) == [cmd |-> c, args |-> <<>>]

RestartOnly == {Do("restart")}
StartStop == {Do("start"), Do("stop")}
OneLan == {{}, {"A"}}
FirstLan == {{"A"}}
=============================================================================
