------------------------------ MODULE SmbControl ------------------------------
(* The control plane of the module: every smbctl command and the watcher's    *)
(* reconcile as processes that serialise on the flock of control.lock, the    *)
(* files they read and write under data/ and runtime/, the one smbd they      *)
(* launch and halt, and the device around them (LAN, CE storage, crashes,     *)
(* kills and reboots).  A step is what one process does between two writes    *)
(* (or between a read of the world and its use), so a kill can fall between   *)
(* any two of them.                                                           *)
EXTENDS Naturals, FiniteSets

CONSTANTS
    Cmd,       \* processes that run smbctl commands (shell, WebUI, boot)
    Watch,     \* the watcher process, which runs reconcile
    Free,      \* value of the lock when nobody holds it
    Addr,      \* trusted LAN addresses (interface and CIDR), as strings
    Port,      \* valid values of PORT, as strings
    Op,        \* the commands issued: [cmd, args], args a partial config
    Killable,  \* processes a SIGKILL or a failed write may end at any step
    Lans,      \* the LANs the device may join: sets of addresses
    Storages,  \* the states of the CE storage that the run visits
    Fault,     \* which other faults happen
    InitCfg,   \* config.conf at installation
    NoSmbd,    \* no server process
    NoFile     \* a runtime file that does not exist

Proc == Cmd \cup {Watch}

AnyAddr == "0.0.0.0"      \* the wildcard listening address

Flag == {"AUTO_START", "ENABLED", "READ_ONLY", "BIND_INTERFACES",
         "INTERFACES_AUTO"}

(* Keys of config.conf that the control logic reads.  READ_ONLY stands for    *)
(* all the keys that only reach smb.conf.  EXTRA_INTERFACES holds one address.*)
Key == Flag \cup {"PORT", "AUTH_MODE", "EXTRA_INTERFACES"}

Value == {"0", "1", "guest", "user", ""} \cup Port \cup Addr

Valid(c) == /\ \A k \in Flag : c[k] \in {"0", "1"}
            /\ c["PORT"] \in Port
            /\ c["AUTH_MODE"] \in {"guest", "user"}
            /\ c["EXTRA_INTERFACES"] \in Addr \cup {""}

Config == {c \in [Key -> Value] : Valid(c)}

Command == {"start", "stop", "restart", "suspend_network", "set_config",
            "save_restart", "set_password_hex", "boot", "reconcile"}

Reconcile == [cmd |-> "reconcile", args |-> <<>>]

NoOp == [cmd |-> "none", args |-> <<>>]

Ops == Op \cup {Reconcile, NoOp}

Storage == {"locked", "unlocked", "ready"}

Faults == {"load", "halt", "launch", "crash", "reboot"}

Entry == {"start", "halt", "update", "passwd", "boot", "reconcile"}

Label == Entry \cup {"idle", "lock", "defer", "conf", "launch", "await",
                     "enable", "unflag", "key", "applied", "save", "forget",
                     "flags", "pend", "pendsave", "decide", "done", "fail"}

(* Where a process may continue after a halt.                                 *)
Continuation == {"save", "start", "defer", "conf", "pend", "done", "fail"}

ASSUME ProcAssumption == Free \notin Proc /\ Watch \notin Cmd
ASSUME AddrAssumption == AnyAddr \notin Addr
ASSUME OpAssumption == \A o \in Op : o.cmd \in Command \ {"reconcile"}
ASSUME FaultAssumption == /\ Killable \subseteq Proc
                          /\ Fault \subseteq Faults
                          /\ Lans \subseteq SUBSET Addr
                          /\ Storages \subseteq Storage
ASSUME ConfigAssumption == InitCfg \in Config

(* The server: the configuration of the smb.conf it was launched with, the    *)
(* addresses written there, and the sockets it listens on.                    *)
Conf == [cfg : Config, iface : SUBSET Addr]
Server == [cfg : Config, iface : SUBSET Addr, socks : SUBSET (Addr \cup {AnyAddr})]

ASSUME FileAssumption == /\ NoSmbd \notin Server
                         /\ NoFile \notin Conf /\ NoFile \notin Config

VARIABLES
    lock,      \* holder of control.lock, or Free
    cfg,       \* config.conf
    password,  \* private/smbpasswd has an entry
    waiting,   \* waiting_network exists
    pending,   \* pending_auth_start exists
    ikey,      \* interface_key, {} when it is missing
    applied,   \* applied_config.json
    conf,      \* smb.conf
    smbd,      \* the running server
    lan,       \* trusted addresses that are up now
    storage,   \* the CE storage of the shared path
    pc, ret,   \* where a process is, and where its halt returns to
    op,        \* the command a process runs
    loc,       \* the Config a process loaded and works on
    seen       \* the network a reconcile read

files == <<cfg, password, waiting, pending, ikey, applied, conf>>
device == <<lan, storage>>
locals == <<op, loc, seen>>
vars == <<lock, files, smbd, device, pc, ret, locals>>

-------------------------------------------------------------------------------
(* Pure helpers.                                                              *)

Merge(c, u) == [k \in Key |-> IF k \in DOMAIN u THEN u[k] ELSE c[k]]

Set(c, k, v) == [c EXCEPT ![k] = v]

Interfaces(c, n) ==
    {a \in n : c["INTERFACES_AUTO"] = "1" \/ c["EXTRA_INTERFACES"] = a}

Wildcard(c) == c["BIND_INTERFACES"] = "0" /\ c["AUTO_START"] = "0"

(* smbd owns every listening socket that c asks for on the network n.         *)
ReadyWith(c, n) ==
    /\ smbd # NoSmbd
    /\ smbd.cfg["PORT"] = c["PORT"]
    /\ IF Wildcard(c) THEN AnyAddr \in smbd.socks
       ELSE Interfaces(c, n) # {} /\ Interfaces(c, n) \subseteq smbd.socks

Ready(c) == ReadyWith(c, lan)

NeedsPassword(c) == c["AUTH_MODE"] = "user" /\ ~password

Goto(p, l) == pc' = [pc EXCEPT ![p] = l] /\ UNCHANGED ret

(* Call halt, and continue at l when it has succeeded.                        *)
HaltThen(p, l) == /\ pc' = [pc EXCEPT ![p] = "halt"]
                  /\ ret' = [ret EXCEPT ![p] = l]

-------------------------------------------------------------------------------
Init == /\ lock = Free
        /\ cfg = InitCfg
        /\ password = FALSE
        /\ waiting = FALSE
        /\ pending = FALSE
        /\ ikey = {}
        /\ applied = NoFile
        /\ conf = NoFile
        /\ smbd = NoSmbd
        /\ lan = {}
        /\ storage = "locked"
        /\ pc = [p \in Proc |-> "idle"]
        /\ ret = [p \in Proc |-> "done"]
        /\ op = [p \in Proc |-> NoOp]
        /\ loc = [p \in Proc |-> InitCfg]
        /\ seen = [p \in Proc |-> {}]

(* A process starts with a command and blocks in flock.                       *)
Issue(p, o) ==
    /\ pc[p] = "idle"
    /\ op' = [op EXCEPT ![p] = o]
    /\ Goto(p, "lock")
    /\ UNCHANGED <<lock, files, smbd, device, loc, seen>>

(* Mutant of Dispatch: stop does not halt.                                    *)
DispatchUnhalted(p) ==
    LET c == op[p].cmd
    IN  \/ c \in {"stop", "suspend_network"} /\ Goto(p, "save")
        \/ c = "restart" /\ HaltThen(p, "start")
        \/ c \in {"set_config", "save_restart"} /\ Goto(p, "update")
        \/ c = "set_password_hex" /\ Goto(p, "passwd")
        \/ c \in {"start", "boot", "reconcile"} /\ Goto(p, c)

(* The first step of each command under the lock.                             *)
Dispatch(p) ==
    LET c == op[p].cmd
    IN  \/ c \in {"stop", "suspend_network"} /\ HaltThen(p, "save")
        \/ c = "restart" /\ HaltThen(p, "start")
        \/ c \in {"set_config", "save_restart"} /\ Goto(p, "update")
        \/ c = "set_password_hex" /\ Goto(p, "passwd")
        \/ c \in {"start", "boot", "reconcile"} /\ Goto(p, c)

(* flock is granted; the configuration is loaded under it.                    *)
Lock(p) ==
    /\ pc[p] = "lock"
    /\ lock = Free
    /\ lock' = p
    /\ loc' = [loc EXCEPT ![p] = cfg]
    /\ Dispatch(p)
    /\ UNCHANGED <<files, smbd, device, op, seen>>

(* The lock is granted, but the file cannot be read or parsed.                *)
LoadFails(p) ==
    /\ "load" \in Fault
    /\ pc[p] = "lock"
    /\ lock = Free
    /\ lock' = p
    /\ Goto(p, "fail")
    /\ UNCHANGED <<files, smbd, device, locals>>

(* Mutant of Exit: an early Err leaves the lock held.                         *)
ExitLeaky(p) ==
    /\ lock' = IF lock = p /\ pc[p] # "fail" THEN Free ELSE lock
    /\ pc' = [pc EXCEPT ![p] = "idle"]
    /\ ret' = [ret EXCEPT ![p] = "done"]
    /\ op' = [op EXCEPT ![p] = NoOp]
    /\ loc' = [loc EXCEPT ![p] = InitCfg]
    /\ seen' = [seen EXCEPT ![p] = {}]

(* The process exits, by its last statement or by an early Err: the lock is   *)
(* released and its locals are gone.                                          *)
Exit(p) ==
    /\ lock' = IF lock = p THEN Free ELSE lock
    /\ pc' = [pc EXCEPT ![p] = "idle"]
    /\ ret' = [ret EXCEPT ![p] = "done"]
    /\ op' = [op EXCEPT ![p] = NoOp]
    /\ loc' = [loc EXCEPT ![p] = InitCfg]
    /\ seen' = [seen EXCEPT ![p] = {}]

Return(p) ==
    /\ pc[p] \in {"done", "fail"}
    /\ Exit(p)
    /\ UNCHANGED <<files, smbd, device>>

-------------------------------------------------------------------------------
(* halt: SIGTERM, then SIGKILL, then wait for the exit of every server.       *)

Halt(p) ==
    /\ pc[p] = "halt"
    /\ smbd' = NoSmbd
    /\ Goto(p, ret[p])
    /\ UNCHANGED <<lock, files, device, locals>>

HaltFails(p) ==
    /\ "halt" \in Fault
    /\ pc[p] = "halt"
    /\ Goto(p, "fail")
    /\ UNCHANGED <<lock, files, smbd, device, locals>>

(* Save the loaded configuration with ENABLED = v, and go on at l.            *)
SaveEnabled(p, v, l) ==
    /\ cfg' = Set(loc[p], "ENABLED", v)
    /\ loc' = [loc EXCEPT ![p] = cfg']
    /\ Goto(p, l)
    /\ UNCHANGED <<lock, password, waiting, pending, ikey, applied, conf,
                   smbd, device, op, seen>>

-------------------------------------------------------------------------------
(* start *)

(* Mutant of Start: no halt before the launch.                                *)
StartOver(p) ==
    /\ pc[p] = "start"
    /\ \/ storage # "ready" /\ HaltThen(p, "defer")
       \/ storage = "ready" /\ Ready(loc[p]) /\ Goto(p, "done")
       \/ storage = "ready" /\ ~Ready(loc[p]) /\ Goto(p, "conf")
    /\ UNCHANGED <<lock, files, smbd, device, locals>>

Start(p) ==
    /\ pc[p] = "start"
    /\ \/ storage # "ready" /\ HaltThen(p, "defer")
       \/ storage = "ready" /\ Ready(loc[p]) /\ Goto(p, "done")
       \/ storage = "ready" /\ ~Ready(loc[p]) /\ HaltThen(p, "conf")
    /\ UNCHANGED <<lock, files, smbd, device, locals>>

Defer(p) == pc[p] = "defer" /\ SaveEnabled(p, "1", "done")

(* Mutant of WriteConf: the password is not required.                         *)
WriteConfOpen(p) ==
    /\ pc[p] = "conf"
    /\ IF Interfaces(loc[p], lan) = {}
       THEN Goto(p, "fail") /\ UNCHANGED conf
       ELSE /\ conf' = [cfg |-> loc[p], iface |-> Interfaces(loc[p], lan)]
            /\ Goto(p, "launch")
    /\ UNCHANGED <<lock, cfg, password, waiting, pending, ikey, applied, smbd,
                   device, locals>>

WriteConf(p) ==
    /\ pc[p] = "conf"
    /\ IF Interfaces(loc[p], lan) = {} \/ NeedsPassword(loc[p])
       THEN Goto(p, "fail") /\ UNCHANGED conf
       ELSE /\ conf' = [cfg |-> loc[p], iface |-> Interfaces(loc[p], lan)]
            /\ Goto(p, "launch")
    /\ UNCHANGED <<lock, cfg, password, waiting, pending, ikey, applied, smbd,
                   device, locals>>

(* smbd -D forks into the background; its sockets come later.                 *)
Launch(p) ==
    /\ pc[p] = "launch"
    /\ smbd' = [cfg |-> conf.cfg, iface |-> conf.iface, socks |-> {}]
    /\ Goto(p, "await")
    /\ UNCHANGED <<lock, files, device, locals>>

LaunchFails(p) ==
    /\ "launch" \in Fault
    /\ pc[p] = "launch"
    /\ HaltThen(p, "fail")
    /\ UNCHANGED <<lock, files, smbd, device, locals>>

(* The wait for the listeners ends: they are all owned, or 5 s have passed.   *)
Await(p) ==
    /\ pc[p] = "await"
    /\ IF Ready(loc[p]) THEN Goto(p, "enable")
       ELSE HaltThen(p, "fail")
    /\ UNCHANGED <<lock, files, smbd, device, locals>>

(* Mutant of Enable: ENABLED stays as it was loaded.                          *)
EnableNot(p) == pc[p] = "enable" /\ SaveEnabled(p, loc[p]["ENABLED"], "unflag")

Enable(p) == pc[p] = "enable" /\ SaveEnabled(p, "1", "unflag")

(* Mutant of Unflag: pending_auth_start is not removed.                       *)
UnflagOne(p) ==
    /\ pc[p] = "unflag"
    /\ waiting' = FALSE
    /\ Goto(p, "key")
    /\ UNCHANGED <<lock, cfg, password, pending, ikey, applied, conf, smbd,
                   device, locals>>

Unflag(p) ==
    /\ pc[p] = "unflag"
    /\ waiting' = FALSE
    /\ pending' = FALSE
    /\ Goto(p, "key")
    /\ UNCHANGED <<lock, cfg, password, ikey, applied, conf, smbd, device,
                   locals>>

(* interface_key is of the network read now, not of the one in smb.conf.      *)
WriteKey(p) ==
    /\ pc[p] = "key"
    /\ ikey' = lan
    /\ Goto(p, "applied")
    /\ UNCHANGED <<lock, cfg, password, waiting, pending, applied, conf, smbd,
                   device, locals>>

(* Mutant of WriteApplied: only the first start records what it applied.      *)
WriteAppliedOnce(p) ==
    /\ pc[p] = "applied"
    /\ applied' = IF applied = NoFile THEN loc[p] ELSE applied
    /\ Goto(p, "done")
    /\ UNCHANGED <<lock, cfg, password, waiting, pending, ikey, conf, smbd,
                   device, locals>>

WriteApplied(p) ==
    /\ pc[p] = "applied"
    /\ applied' = loc[p]
    /\ Goto(p, "done")
    /\ UNCHANGED <<lock, cfg, password, waiting, pending, ikey, conf, smbd,
                   device, locals>>

-------------------------------------------------------------------------------
(* stop, suspend_network and the suspension in reconcile *)

(* Mutant of Suspends: reconcile stops for good when the LAN is gone.         *)
SuspendsOnRequest(p) == op[p].cmd = "suspend_network"

Suspends(p) == op[p].cmd # "stop"

Save(p) ==
    /\ pc[p] = "save"
    /\ SaveEnabled(p, IF Suspends(p) THEN "1" ELSE "0", "forget")

Forget(p) ==
    /\ pc[p] = "forget"
    /\ ikey' = {}
    /\ Goto(p, "flags")
    /\ UNCHANGED <<lock, cfg, password, waiting, pending, applied, conf, smbd,
                   device, locals>>

Flags(p) ==
    /\ pc[p] = "flags"
    /\ waiting' = Suspends(p)
    /\ pending' = (Suspends(p) /\ pending)
    /\ Goto(p, "done")
    /\ UNCHANGED <<lock, cfg, password, ikey, applied, conf, smbd, device,
                   locals>>

-------------------------------------------------------------------------------
(* set_config, save_restart, set_password_hex, boot *)

(* Mutant of Update: the new configuration is not validated.                  *)
UpdateBlindly(p) ==
    /\ pc[p] = "update"
    /\ LET new == Merge(loc[p], op[p].args)
       IN  /\ cfg' = new
           /\ loc' = [loc EXCEPT ![p] = new]
           /\ CASE op[p].cmd = "set_config" -> Goto(p, "done")
                [] op[p].cmd # "set_config" ->
                     HaltThen(p, IF NeedsPassword(new) THEN "pend" ELSE "start")
    /\ UNCHANGED <<lock, password, waiting, pending, ikey, applied, conf, smbd,
                   device, op, seen>>

(* Mutant of Update: save_restart starts without a halt.                      *)
UpdateInPlace(p) ==
    /\ pc[p] = "update"
    /\ LET new == Merge(loc[p], op[p].args)
       IN  IF DOMAIN op[p].args \subseteq Key /\ new \in Config
           THEN /\ cfg' = new
                /\ loc' = [loc EXCEPT ![p] = new]
                /\ CASE op[p].cmd = "set_config" -> Goto(p, "done")
                     [] op[p].cmd # "set_config" ->
                          IF NeedsPassword(new) THEN HaltThen(p, "pend")
                                                ELSE Goto(p, "start")
           ELSE Goto(p, "fail") /\ UNCHANGED <<cfg, loc>>
    /\ UNCHANGED <<lock, password, waiting, pending, ikey, applied, conf, smbd,
                   device, op, seen>>

(* Mutant of Update: the configuration is applied but not saved.              *)
UpdateUnsaved(p) ==
    /\ pc[p] = "update"
    /\ LET new == Merge(loc[p], op[p].args)
       IN  IF DOMAIN op[p].args \subseteq Key /\ new \in Config
           THEN /\ loc' = [loc EXCEPT ![p] = new]
                /\ CASE op[p].cmd = "set_config" -> Goto(p, "done")
                     [] op[p].cmd # "set_config" ->
                          HaltThen(p, IF NeedsPassword(new) THEN "pend"
                                                            ELSE "start")
           ELSE Goto(p, "fail") /\ UNCHANGED loc
    /\ UNCHANGED <<lock, files, smbd, device, op, seen>>

Update(p) ==
    /\ pc[p] = "update"
    /\ LET new == Merge(loc[p], op[p].args)
       IN  IF DOMAIN op[p].args \subseteq Key /\ new \in Config
           THEN /\ cfg' = new
                /\ loc' = [loc EXCEPT ![p] = new]
                /\ CASE op[p].cmd = "set_config" -> Goto(p, "done")
                     [] op[p].cmd # "set_config" ->
                          HaltThen(p, IF NeedsPassword(new) THEN "pend"
                                                            ELSE "start")
           ELSE Goto(p, "fail") /\ UNCHANGED <<cfg, loc>>
    /\ UNCHANGED <<lock, password, waiting, pending, ikey, applied, conf, smbd,
                   device, op, seen>>

Pend(p) ==
    /\ pc[p] = "pend"
    /\ pending' = TRUE
    /\ Goto(p, "pendsave")
    /\ UNCHANGED <<lock, cfg, password, waiting, ikey, applied, conf, smbd,
                   device, locals>>

PendSave(p) == pc[p] = "pendsave" /\ SaveEnabled(p, "1", "done")

(* A malformed hexadecimal password is refused before anything is written.    *)
Passwd(p) ==
    /\ pc[p] = "passwd"
    /\ \/ Goto(p, "fail") /\ UNCHANGED password
       \/ /\ password' = TRUE
          /\ IF loc[p]["AUTH_MODE"] = "user" /\ (pending \/ smbd # NoSmbd)
             THEN HaltThen(p, "start") ELSE Goto(p, "done")
    /\ UNCHANGED <<lock, cfg, waiting, pending, ikey, applied, conf, smbd,
                   device, locals>>

Boot(p) ==
    /\ pc[p] = "boot"
    /\ SaveEnabled(p, IF loc[p]["AUTO_START"] = "1" THEN "1"
                      ELSE loc[p]["ENABLED"], "done")

-------------------------------------------------------------------------------
(* reconcile *)

ReadNetwork(p) ==
    /\ pc[p] = "reconcile"
    /\ seen' = [seen EXCEPT ![p] = lan]
    /\ Goto(p, "decide")
    /\ UNCHANGED <<lock, files, smbd, device, op, loc>>

(* A server that must not run now is halted.                                  *)
Quench(p) == /\ IF smbd # NoSmbd THEN HaltThen(p, "done") ELSE Goto(p, "done")
             /\ UNCHANGED waiting

(* The LAN is gone: suspend the server, or note that we wait for a network.   *)
LeaveLan(p) == IF smbd # NoSmbd THEN HaltThen(p, "save") /\ UNCHANGED waiting
                                ELSE waiting' = TRUE /\ Goto(p, "done")

(* Mutant of Outdated: the applied configuration is not compared.             *)
OutdatedByNet(p) == ikey # seen[p] \/ ~Ready(loc[p])

(* Mutant of Outdated: the running server is not inspected.                   *)
OutdatedByFiles(p) == ikey # seen[p] \/ applied # loc[p]

(* What runs is not what the configuration asks for on this network.          *)
Outdated(p) == ikey # seen[p] \/ applied # loc[p] \/ ~Ready(loc[p])

(* Mutant of Decide: ENABLED is not looked at.                                *)
DecideAlways(p) ==
    /\ pc[p] = "decide"
    /\ CASE pending /\ NeedsPassword(loc[p]) ->
              Goto(p, "done") /\ UNCHANGED waiting
         [] OTHER ->
              CASE storage # "ready" -> Quench(p)
                [] storage = "ready" /\ seen[p] = {} -> LeaveLan(p)
                [] storage = "ready" /\ seen[p] # {} ->
                     /\ IF Outdated(p) THEN HaltThen(p, "start")
                                       ELSE Goto(p, "done")
                     /\ UNCHANGED waiting
    /\ UNCHANGED <<lock, cfg, password, pending, ikey, applied, conf, smbd,
                   device, locals>>

Decide(p) ==
    /\ pc[p] = "decide"
    /\ CASE loc[p]["ENABLED"] # "1" -> Quench(p)
         [] loc[p]["ENABLED"] = "1" /\ pending /\ NeedsPassword(loc[p]) ->
              Goto(p, "done") /\ UNCHANGED waiting
         [] OTHER ->
              CASE storage # "ready" -> Quench(p)
                [] storage = "ready" /\ seen[p] = {} -> LeaveLan(p)
                [] storage = "ready" /\ seen[p] # {} ->
                     /\ IF Outdated(p) THEN HaltThen(p, "start")
                                       ELSE Goto(p, "done")
                     /\ UNCHANGED waiting
    /\ UNCHANGED <<lock, cfg, password, pending, ikey, applied, conf, smbd,
                   device, locals>>

-------------------------------------------------------------------------------
(* The device *)

(* SIGKILL (watch-stop after 2 s, the low memory killer), or a write that     *)
(* fails and is returned with ?: the rest of the command does not happen.     *)
Kill(p) ==
    /\ p \in Killable
    /\ pc[p] # "idle"
    /\ Exit(p)
    /\ UNCHANGED <<files, smbd, device>>

LanChange ==
    /\ \E n \in Lans \ {lan} : lan' = n
    /\ UNCHANGED <<lock, files, smbd, storage, pc, ret, locals>>

StorageChange ==
    /\ \E s \in Storages \ {storage} : storage' = s
    /\ UNCHANGED <<lock, files, smbd, lan, pc, ret, locals>>

(* smbd binds the wildcard, or those addresses of its smb.conf that are up.   *)
Listen ==
    /\ smbd # NoSmbd
    /\ smbd.socks = {}
    /\ smbd' = [smbd EXCEPT !.socks = IF Wildcard(smbd.cfg) THEN {AnyAddr}
                                      ELSE smbd.iface \cap lan]
    /\ smbd' # smbd
    /\ UNCHANGED <<lock, files, device, pc, ret, locals>>

Crash ==
    /\ "crash" \in Fault
    /\ smbd # NoSmbd
    /\ smbd' = NoSmbd
    /\ UNCHANGED <<lock, files, device, pc, ret, locals>>

(* Only the files survive.                                                    *)
Reboot ==
    /\ "reboot" \in Fault
    /\ lock' = Free
    /\ smbd' = NoSmbd
    /\ lan' = {}
    /\ storage' = "locked"
    /\ pc' = [p \in Proc |-> "idle"]
    /\ ret' = [p \in Proc |-> "done"]
    /\ op' = [p \in Proc |-> NoOp]
    /\ loc' = [p \in Proc |-> InitCfg]
    /\ seen' = [p \in Proc |-> {}]
    /\ UNCHANGED files

-------------------------------------------------------------------------------
StartSteps(p) ==
    \/ Start(p) \/ Defer(p) \/ WriteConf(p) \/ Launch(p) \/ LaunchFails(p)
    \/ Await(p) \/ Enable(p) \/ Unflag(p) \/ WriteKey(p) \/ WriteApplied(p)

StopSteps(p) ==
    Halt(p) \/ HaltFails(p) \/ Save(p) \/ Forget(p) \/ Flags(p)

ConfigSteps(p) ==
    Update(p) \/ Pend(p) \/ PendSave(p) \/ Passwd(p) \/ Boot(p)

(* The steps a process takes once it has the lock.                            *)
Step(p) ==
    \/ StartSteps(p) \/ StopSteps(p) \/ ConfigSteps(p)
    \/ ReadNetwork(p) \/ Decide(p)

Env == LanChange \/ StorageChange \/ Listen \/ Crash \/ Reboot

Requests == \/ \E p \in Cmd, o \in Op : Issue(p, o)
            \/ Issue(Watch, Reconcile)

Next == \/ Requests
        \/ \E p \in Proc : Lock(p) \/ LoadFails(p) \/ Step(p) \/ Return(p)
        \/ \E p \in Proc : Kill(p)
        \/ Env

Spec == Init /\ [][Next]_vars
-------------------------------------------------------------------------------
(* What the design relies on. *)

(* Every variable keeps its type: config.conf is always a valid Config, as    *)
(* update and save validate before the rename (config.rs 132-182).            *)
TypeOK ==
    /\ lock \in Proc \cup {Free}
    /\ cfg \in Config
    /\ password \in BOOLEAN /\ waiting \in BOOLEAN /\ pending \in BOOLEAN
    /\ ikey \subseteq Addr
    /\ applied \in Config \cup {NoFile}
    /\ conf \in Conf \cup {NoFile}
    /\ smbd \in Server \cup {NoSmbd}
    /\ lan \subseteq Addr
    /\ storage \in Storage
    /\ pc \in [Proc -> Label]
    /\ ret \in [Proc -> Continuation]
    /\ op \in [Proc -> Ops]
    /\ loc \in [Proc -> Config]
    /\ seen \in [Proc -> SUBSET Addr]

(* start launches smbd only after halt has ended every other one, whatever    *)
(* was killed or crashed before: two masters never share the ports.           *)
OneMaster == \A p \in Proc : pc[p] = "launch" => smbd = NoSmbd

(* A server that asks for a password never runs without a passdb entry, which *)
(* conf checks once and set_password_hex and kills could slip past.           *)
AuthGuard == smbd # NoSmbd /\ smbd.cfg["AUTH_MODE"] = "user" => password

(* smbd runs with the settings c, ENABLED aside (it is not in smb.conf).      *)
RunsAs(c) == /\ smbd # NoSmbd
             /\ Set(smbd.cfg, "ENABLED", "1") = Set(c, "ENABLED", "1")

(* When restart or save_restart ends with OK, a server that runs has the      *)
(* settings it loaded or saved, and every file that earlier commands, killed  *)
(* between two writes, may have left behind tells the truth again.            *)
RestartApplies ==
    \A p \in Proc :
        /\ pc[p] = "done"
        /\ op[p].cmd \in {"restart", "save_restart"}
        /\ smbd # NoSmbd
        => /\ RunsAs(loc[p])
           /\ applied # NoFile /\ RunsAs(applied)
           /\ ~waiting /\ ~pending
           /\ cfg["ENABLED"] = "1"

Launched == \E p \in Proc : pc[p] = "launch" /\ pc'[p] = "await"

StartCommands == {"start", "restart", "save_restart", "set_password_hex"}

(* After a stop nothing but a user's own command brings the server back: a    *)
(* reconcile that raced with the stop launches nothing.                       *)
StopSticks ==
    [][Launched => \/ cfg["ENABLED"] = "1"
                   \/ \E p \in Proc : lock = p /\ op[p].cmd \in StartCommands
      ]_vars

(* smbd is launched with the very configuration that is on disk then.         *)
LaunchFromDisk == [][Launched => smbd'.cfg = cfg]_vars

(* o asked for the value v of the key k.                                      *)
Entitled(o, k, v) ==
    \/ k \in DOMAIN o.args /\ o.args[k] = v
    \/ k = "ENABLED" /\ v = "0" /\ o.cmd = "stop"
    \/ k = "ENABLED" /\ v = "1"
       /\ o.cmd \in StartCommands \cup {"suspend_network", "boot"}

(* No lost update: a key of config.conf changes only to a value that the      *)
(* command holding the lock was asked for; in particular the watcher's start  *)
(* and suspend never write back a configuration that a command has replaced.  *)
KeysKept ==
    [][\A k \in Key : cfg'[k] # cfg[k] =>
           \E p \in Proc : lock = p /\ Entitled(op[p], k, cfg'[k])]_vars

(* While nothing is killed: whenever the lock is free, applied_config.json    *)
(* describes the server that runs, which is what reconcile trusts.            *)
AppliedIsRunning ==
    lock = Free /\ smbd # NoSmbd => applied # NoFile /\ RunsAs(applied)

(* While nothing is killed: whenever the lock is free, a flag that says the   *)
(* server waits for a LAN or a password means that no server runs.            *)
WaitingIsDown == lock = Free /\ (waiting \/ pending) => smbd = NoSmbd

(* While nothing is killed, and nobody sets ENABLED by set_config: whenever   *)
(* the lock is free, a server that runs is one config.conf enables, so the    *)
(* watcher keeps it.                                                          *)
RunningIsEnabled == lock = Free /\ smbd # NoSmbd => cfg["ENABLED"] = "1"

(* reconcile leaves a server alone only if it runs with the settings on disk. *)
AcceptsOnlyCurrent ==
    [][\A p \in Proc : pc[p] = "decide" /\ pc'[p] = "done" /\ smbd # NoSmbd
           => RunsAs(loc[p])]_vars

-------------------------------------------------------------------------------
(* The abstract specification.  The holder of control.lock has the turn; a    *)
(* request has succeeded when its process is about to return OK.              *)
Serving == IF smbd = NoSmbd THEN NoSmbd ELSE Set(smbd.cfg, "ENABLED", "1")
Turn == IF lock = Free THEN NoOp ELSE op[lock]
Outcome == IF lock # Free /\ pc[lock] = "done" THEN "ok" ELSE "none"

Contract == INSTANCE ServiceContract WITH
    Request <- Ops, Nobody <- NoOp, Down <- NoSmbd,
    wish <- cfg, serving <- Serving, turn <- Turn, outcome <- Outcome

(* The commands keep the contract, whatever is killed, fails or restarts:     *)
(* requests take turns, change nothing they were not asked to change, launch  *)
(* only what is wished for, and have done their work when they return OK.     *)
KeepsContract == Contract!Spec

-------------------------------------------------------------------------------
(* A command that waits for control.lock gets it and returns: no path of a    *)
(* command keeps the lock.                                                    *)
CommandsReturn == \A p \in Proc : pc[p] = "lock" ~> pc[p] = "idle"

(* The configuration and the device ask for a server.                        *)
Wanted == /\ cfg["ENABLED"] = "1"
          /\ storage = "ready"
          /\ Interfaces(cfg, lan) # {}
          /\ ~NeedsPassword(cfg)

(* The server that the configuration and the LAN ask for runs and listens.    *)
Served == RunsAs(cfg) /\ Ready(cfg)
=============================================================================
