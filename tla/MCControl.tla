------------------------------ MODULE MCControl -------------------------------
(* Small instances of SmbControl for TLC: one run per question.               *)
EXTENDS SmbControl

(* The defaults of config.rs 4-20.                                            *)
DefaultCfg ==
    [k \in Key |-> CASE k = "PORT" -> "445"
                     [] k = "AUTH_MODE" -> "guest"
                     [] k = "EXTRA_INTERFACES" -> ""
                     [] k \in {"BIND_INTERFACES", "INTERFACES_AUTO"} -> "1"
                     [] OTHER -> "0"]

Do(c) == [cmd |-> c, args |-> <<>>]
SetConfig(u) == [cmd |-> "set_config", args |-> u]
SaveRestart(u) == [cmd |-> "save_restart", args |-> u]

ToUser == SaveRestart([AUTH_MODE |-> "user"])

(* control_commands: users change what is shared, and where, while the LAN    *)
(* comes, moves and goes; one update is refused by validate.                  *)
CommandsOp == {Do("start"), Do("stop"), Do("set_password_hex"),
               SaveRestart([AUTH_MODE |-> "user", BIND_INTERFACES |-> "0"]),
               SetConfig([INTERFACES_AUTO |-> "0", EXTRA_INTERFACES |-> "B"]),
               SetConfig([PORT |-> "0"])}
CommandsLans == {{}, {"A"}, {"A", "B"}}

(* control_faults: anything may fail or be killed between any two steps.      *)
FaultsOp == {Do("start"), Do("stop"), Do("boot"), Do("set_password_hex"),
             ToUser, SetConfig([AUTO_START |-> "1"])}

(* control_stale_applied: a setting is changed and changed back.              *)
BackAndForthOp == {Do("start"), SetConfig([READ_ONLY |-> "1"]),
                   SetConfig([READ_ONLY |-> "0"])}

OneLan == {{}, {"A"}}
=============================================================================
