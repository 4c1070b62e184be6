---------------------------- MODULE ServiceContract ----------------------------
(* What the module promises, without the lock, the files and the steps of its *)
(* commands: requests take turns; a turn changes only what it was asked for;  *)
(* a server is launched with the settings that are wished for, and only when  *)
(* it is wanted; and a turn that ends with OK has done what its name says.    *)
CONSTANTS
    Key,      \* the keys of a configuration
    Config,   \* the valid configurations
    Request,  \* [cmd, args]: the commands and the watcher's reconcile
    Nobody,   \* no request has the turn
    Down      \* no server

VARIABLES
    wish,      \* the configuration
    password,  \* an account has a password
    serving,   \* the settings of the server, or Down
    turn,      \* the request that has the turn, or Nobody
    outcome    \* "ok" once it has succeeded

service == <<wish, password, serving>>
vars == <<service, turn, outcome>>

StartCommands == {"start", "restart", "save_restart", "set_password_hex"}

(* What of a configuration reaches the server.                                *)
Settings(c) == [c EXCEPT !["ENABLED"] = "1"]

(* The request r may give the key k the value v.                              *)
Entitled(r, k, v) ==
    \/ k \in DOMAIN r.args /\ r.args[k] = v
    \/ k = "ENABLED" /\ v = "0" /\ r.cmd = "stop"
    \/ k = "ENABLED" /\ v = "1"
       /\ r.cmd \in StartCommands \cup {"suspend_network", "boot"}

(* What the request r has reached when it ends with OK.                       *)
Reached(r) ==
    /\ r.cmd \in {"stop", "suspend_network"} =>
          serving = Down /\ wish["ENABLED"] = IF r.cmd = "stop" THEN "0" ELSE "1"
    /\ r.cmd \in {"restart", "save_restart"} =>
          serving \in {Down, Settings(wish)}
    /\ r.cmd \in {"set_config", "save_restart"} =>
          \A k \in DOMAIN r.args \ {"ENABLED"} : wish[k] = r.args[k]
    /\ r.cmd = "set_password_hex" => password
    /\ r.cmd = "boot" /\ wish["AUTO_START"] = "1" => wish["ENABLED"] = "1"

-------------------------------------------------------------------------------
Init == /\ wish \in Config
        /\ password = FALSE
        /\ serving = Down
        /\ turn = Nobody
        /\ outcome = "none"

Begin == /\ turn = Nobody /\ turn' \in Request
         /\ UNCHANGED <<service, outcome>>

Configure ==
    /\ wish' \in Config
    /\ \A k \in Key : wish'[k] # wish[k] => Entitled(turn, k, wish'[k])
    /\ UNCHANGED <<password, serving>>

Learn == /\ turn.cmd = "set_password_hex" /\ password' = TRUE
         /\ UNCHANGED <<wish, serving>>

Launch == /\ serving = Down
          /\ wish["ENABLED"] = "1" \/ turn.cmd \in StartCommands
          /\ wish["AUTH_MODE"] = "user" => password
          /\ serving' = Settings(wish)
          /\ UNCHANGED <<wish, password>>

Quit == serving' = Down /\ UNCHANGED <<wish, password>>

(* The request that has the turn does something, and may have succeeded then. *)
Work == /\ turn # Nobody /\ outcome = "none"
        /\ Configure \/ Learn \/ Launch \/ Quit \/ UNCHANGED service
        /\ outcome' \in {"none", "ok"}
        /\ outcome' = "ok" => Reached(turn)'
        /\ UNCHANGED turn

(* It has succeeded or failed, or was killed.                                 *)
End == /\ turn # Nobody /\ turn' = Nobody
       /\ outcome' = "none"
       /\ UNCHANGED service

(* The server ends by itself.                                                 *)
Crash == Quit /\ UNCHANGED <<turn, outcome>>

Reboot == Quit /\ turn' = Nobody /\ outcome' = "none"

Next == Begin \/ Work \/ End \/ Crash \/ Reboot

Spec == Init /\ [][Next]_vars
=============================================================================
