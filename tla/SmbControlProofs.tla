--------------------------- MODULE SmbControlProofs ---------------------------
(* Theorems about SmbControl, for every set of processes, addresses, commands *)
(* and faults.                                                                *)
EXTENDS SmbControl, TLAPS

USE DEF vars, files, device, locals

(* Setting one flag of a valid configuration keeps it valid.                  *)
LEMMA SetValid ==
    ASSUME NEW c \in Config, NEW k \in Flag, NEW v \in {"0", "1"}
    PROVE  Set(c, k, v) \in Config
BY DEF Set, Config, Valid, Key, Flag, Value

(* The selected interfaces are interfaces of the network.                     *)
LEMMA InterfacesSubset ==
    ASSUME NEW c, NEW n
    PROVE  Interfaces(c, n) \subseteq n
BY DEF Interfaces

-------------------------------------------------------------------------------
(* Type correctness.  TypeOK alone is not inductive: Launch reads smb.conf,   *)
(* so the file must exist by then, and a halt must not continue at "launch".  *)

ConfWritten == \A p \in Proc : pc[p] = "launch" => conf \in Conf

TypeInv == TypeOK /\ ConfWritten

(* A jump other than to "launch" keeps the types and ConfWritten.             *)
LEMMA GotoType ==
    ASSUME TypeInv, NEW p \in Proc, NEW l \in Label \ {"launch"}, Goto(p, l),
           conf' = conf
    PROVE  /\ pc' \in [Proc -> Label]
           /\ ret' \in [Proc -> Continuation]
           /\ ConfWritten'
BY DEF TypeInv, TypeOK, Goto, ConfWritten

LEMMA HaltThenType ==
    ASSUME TypeInv, NEW p \in Proc, NEW l \in Continuation, HaltThen(p, l),
           conf' = conf
    PROVE  /\ pc' \in [Proc -> Label]
           /\ ret' \in [Proc -> Continuation]
           /\ ConfWritten'
BY DEF TypeInv, TypeOK, HaltThen, Label, Entry, ConfWritten

LEMMA SaveEnabledType ==
    ASSUME TypeInv, NEW p \in Proc, NEW v \in {"0", "1"},
           NEW l \in Label \ {"launch"}, SaveEnabled(p, v, l)
    PROVE  TypeInv'
<1>1. cfg' \in Config
  BY SetValid DEF SaveEnabled, TypeInv, TypeOK, Flag
<1>2. loc' \in [Proc -> Config]
  BY <1>1 DEF SaveEnabled, TypeInv, TypeOK
<1>3. pc' \in [Proc -> Label] /\ ret' \in [Proc -> Continuation] /\ ConfWritten'
  BY GotoType DEF SaveEnabled
<1>4. QED
  BY <1>1, <1>2, <1>3 DEF SaveEnabled, TypeInv, TypeOK

LEMMA ExitType ==
    ASSUME TypeInv, NEW p \in Proc, Exit(p), UNCHANGED <<files, smbd, device>>
    PROVE  TypeInv'
BY ConfigAssumption
   DEF TypeInv, TypeOK, ConfWritten, Exit, Label, Entry, Continuation, Ops

(* Every step of the start command keeps the types.                           *)
LEMMA StartStepsType ==
    ASSUME TypeInv, NEW p \in Proc, StartSteps(p)
    PROVE  TypeInv'
<1> USE DEF Label, Entry, Continuation
<1>1. CASE Start(p)
  <2>1. /\ pc' \in [Proc -> Label] /\ ret' \in [Proc -> Continuation]
        /\ ConfWritten'
    BY <1>1, GotoType, HaltThenType DEF Start
  <2>2. QED
    BY <1>1, <2>1 DEF Start, TypeInv, TypeOK
<1>2. CASE Defer(p)
  BY <1>2, SaveEnabledType DEF Defer
<1>3. CASE WriteConf(p)
  <2>1. pc' \in [Proc -> Label] /\ ret' \in [Proc -> Continuation]
    BY <1>3 DEF WriteConf, Goto, TypeInv, TypeOK
  <2>2. conf' \in Conf \/ (conf' = conf /\ Goto(p, "fail"))
    BY <1>3, InterfacesSubset DEF WriteConf, Conf, TypeInv, TypeOK
  <2>3. ConfWritten'
    <3>1. CASE conf' \in Conf
      BY <3>1 DEF ConfWritten
    <3>2. CASE conf' = conf /\ Goto(p, "fail")
      BY <3>2, GotoType
    <3>3. QED
      BY <2>2, <3>1, <3>2
  <2>4. QED
    BY <1>3, <2>1, <2>2, <2>3 DEF WriteConf, TypeInv, TypeOK
<1>4. CASE Launch(p)
  <2>1. /\ pc' \in [Proc -> Label] /\ ret' \in [Proc -> Continuation]
        /\ ConfWritten'
    BY <1>4, GotoType DEF Launch
  <2>2. conf \in Conf
    BY <1>4 DEF Launch, TypeInv, ConfWritten
  <2>3. smbd' \in Server
    BY <1>4, <2>2 DEF Launch, Server, Conf
  <2>4. QED
    BY <1>4, <2>1, <2>3 DEF Launch, TypeInv, TypeOK
<1>5. CASE LaunchFails(p) \/ Await(p)
  <2>1. /\ pc' \in [Proc -> Label] /\ ret' \in [Proc -> Continuation]
        /\ ConfWritten'
    BY <1>5, GotoType, HaltThenType DEF LaunchFails, Await
  <2>2. QED
    BY <1>5, <2>1 DEF LaunchFails, Await, TypeInv, TypeOK
<1>6. CASE Enable(p)
  BY <1>6, SaveEnabledType DEF Enable
<1>7. CASE Unflag(p) \/ WriteKey(p) \/ WriteApplied(p)
  <2>1. /\ pc' \in [Proc -> Label] /\ ret' \in [Proc -> Continuation]
        /\ ConfWritten'
    BY <1>7, GotoType DEF Unflag, WriteKey, WriteApplied
  <2>2. QED
    BY <1>7, <2>1 DEF Unflag, WriteKey, WriteApplied, TypeInv, TypeOK
<1>8. QED
  BY <1>1, <1>2, <1>3, <1>4, <1>5, <1>6, <1>7 DEF StartSteps

(* So does every step of halt and stop.                                       *)
LEMMA StopStepsType ==
    ASSUME TypeInv, NEW p \in Proc, StopSteps(p)
    PROVE  TypeInv'
<1> USE DEF Label, Entry, Continuation
<1>1. CASE Halt(p)
  <2>1. ret[p] \in Continuation
    BY DEF TypeInv, TypeOK
  <2>2. /\ pc' \in [Proc -> Label] /\ ret' \in [Proc -> Continuation]
        /\ ConfWritten'
    BY <1>1, <2>1, GotoType DEF Halt
  <2>3. QED
    BY <1>1, <2>2 DEF Halt, TypeInv, TypeOK
<1>2. CASE HaltFails(p)
  <2>1. /\ pc' \in [Proc -> Label] /\ ret' \in [Proc -> Continuation]
        /\ ConfWritten'
    BY <1>2, GotoType DEF HaltFails
  <2>2. QED
    BY <1>2, <2>1 DEF HaltFails, TypeInv, TypeOK
<1>3. CASE Save(p)
  BY <1>3, SaveEnabledType DEF Save
<1>4. CASE Forget(p) \/ Flags(p)
  <2>1. /\ pc' \in [Proc -> Label] /\ ret' \in [Proc -> Continuation]
        /\ ConfWritten'
    BY <1>4, GotoType DEF Forget, Flags
  <2>2. Suspends(p) \in BOOLEAN
    BY DEF Suspends
  <2>3. QED
    BY <1>4, <2>1, <2>2 DEF Forget, Flags, TypeInv, TypeOK
<1>5. QED
  BY <1>1, <1>2, <1>3, <1>4 DEF StopSteps

(* So does every step of the commands on the configuration.                   *)
LEMMA ConfigStepsType ==
    ASSUME TypeInv, NEW p \in Proc, ConfigSteps(p)
    PROVE  TypeInv'
<1> USE DEF Label, Entry, Continuation
<1>1. CASE Update(p)
  <2>1. /\ pc' \in [Proc -> Label] /\ ret' \in [Proc -> Continuation]
        /\ ConfWritten'
    BY <1>1, GotoType, HaltThenType DEF Update
  <2>2. cfg' \in Config /\ loc' \in [Proc -> Config]
    BY <1>1 DEF Update, TypeInv, TypeOK
  <2>3. QED
    BY <1>1, <2>1, <2>2 DEF Update, TypeInv, TypeOK
<1>2. CASE Pend(p) \/ Passwd(p)
  <2>1. /\ pc' \in [Proc -> Label] /\ ret' \in [Proc -> Continuation]
        /\ ConfWritten'
    BY <1>2, GotoType, HaltThenType DEF Pend, Passwd
  <2>2. QED
    BY <1>2, <2>1 DEF Pend, Passwd, TypeInv, TypeOK
<1>3. CASE PendSave(p)
  BY <1>3, SaveEnabledType DEF PendSave
<1>4. CASE Boot(p)
  <2>1. loc[p]["ENABLED"] \in {"0", "1"}
    BY DEF TypeInv, TypeOK, Config, Valid, Flag
  <2>2. QED
    BY <1>4, <2>1, SaveEnabledType DEF Boot
<1>5. QED
  BY <1>1, <1>2, <1>3, <1>4 DEF ConfigSteps

(* So do the two steps of reconcile.                                          *)
LEMMA ReconcileType ==
    ASSUME TypeInv, NEW p \in Proc, ReadNetwork(p) \/ Decide(p)
    PROVE  TypeInv'
<1> USE DEF Label, Entry, Continuation
<1>1. CASE ReadNetwork(p)
  <2>1. /\ pc' \in [Proc -> Label] /\ ret' \in [Proc -> Continuation]
        /\ ConfWritten'
    BY <1>1, GotoType DEF ReadNetwork
  <2>2. QED
    BY <1>1, <2>1 DEF ReadNetwork, TypeInv, TypeOK
<1>2. CASE Decide(p)
  <2>1. /\ pc' \in [Proc -> Label] /\ ret' \in [Proc -> Continuation]
        /\ ConfWritten'
    BY <1>2, GotoType, HaltThenType DEF Decide, Quench, LeaveLan
  <2>2. waiting' \in BOOLEAN
    BY <1>2 DEF Decide, Quench, LeaveLan, TypeInv, TypeOK
  <2>3. QED
    BY <1>2, <2>1, <2>2 DEF Decide, TypeInv, TypeOK
<1>3. QED
  BY <1>1, <1>2

(* So do the requests, the lock and the device.                               *)
LEMMA LockType ==
    ASSUME TypeInv, NEW p \in Proc, Lock(p) \/ LoadFails(p)
    PROVE  TypeInv'
<1> USE DEF Label, Entry, Continuation
<1>1. CASE Lock(p)
  <2>1. op[p] \in Ops
    BY DEF TypeInv, TypeOK
  <2>2. /\ pc' \in [Proc -> Label] /\ ret' \in [Proc -> Continuation]
        /\ ConfWritten'
    BY <1>1, GotoType, HaltThenType DEF Lock, Dispatch
  <2>3. QED
    BY <1>1, <2>2 DEF Lock, TypeInv, TypeOK
<1>2. CASE LoadFails(p)
  <2>1. /\ pc' \in [Proc -> Label] /\ ret' \in [Proc -> Continuation]
        /\ ConfWritten'
    BY <1>2, GotoType DEF LoadFails
  <2>2. QED
    BY <1>2, <2>1 DEF LoadFails, TypeInv, TypeOK
<1>3. QED
  BY <1>1, <1>2

LEMMA RequestsType == ASSUME TypeInv, Requests PROVE TypeInv'
<1>0. Watch \in Proc /\ Cmd \subseteq Proc /\ Reconcile \in Ops /\ Op \subseteq Ops
  BY DEF Proc, Ops
<1>1. PICK p \in Proc, o \in Ops : Issue(p, o)
  BY <1>0, Zenon DEF Requests
<1>2. /\ pc' \in [Proc -> Label] /\ ret' \in [Proc -> Continuation]
      /\ ConfWritten'
  BY <1>1, GotoType DEF Issue, Label
<1>3. QED
  BY <1>1, <1>2 DEF Issue, TypeInv, TypeOK

LEMMA EnvType == ASSUME TypeInv, Env PROVE TypeInv'
<1>1. CASE LanChange \/ StorageChange \/ Crash
  BY <1>1, FaultAssumption
     DEF LanChange, StorageChange, Crash, TypeInv, TypeOK, ConfWritten
<1>2. CASE Listen
  <2>1. smbd \in Server /\ lan \subseteq Addr
    BY <1>2 DEF Listen, TypeInv, TypeOK
  <2>2. smbd' \in Server
    BY <1>2, <2>1 DEF Listen, Server
  <2>3. QED
    BY <1>2, <2>2 DEF Listen, TypeInv, TypeOK, ConfWritten
<1>3. CASE Reboot
  BY <1>3, ConfigAssumption
     DEF Reboot, TypeInv, TypeOK, ConfWritten, Label, Continuation, Ops, Storage
<1>4. QED
  BY <1>1, <1>2, <1>3 DEF Env

LEMMA TypeInvInit == Init => TypeInv
BY ConfigAssumption
   DEF Init, TypeInv, TypeOK, ConfWritten, Label, Continuation, Ops, Storage

LEMMA TypeInvNext == TypeInv /\ [Next]_vars => TypeInv'
<1> SUFFICES ASSUME TypeInv, [Next]_vars PROVE TypeInv'
  OBVIOUS
<1>1. CASE Requests
  BY <1>1, RequestsType
<1>2. ASSUME NEW p \in Proc, Lock(p) \/ LoadFails(p) PROVE TypeInv'
  BY <1>2, LockType
<1>3. ASSUME NEW p \in Proc, Step(p) PROVE TypeInv'
  BY <1>3, StartStepsType, StopStepsType, ConfigStepsType, ReconcileType
     DEF Step
<1>4. ASSUME NEW p \in Proc, Return(p) \/ Kill(p) PROVE TypeInv'
  BY <1>4, ExitType DEF Return, Kill
<1>5. CASE Env
  BY <1>5, EnvType
<1>6. CASE UNCHANGED vars
  BY <1>6 DEF TypeInv, TypeOK, ConfWritten
<1>7. QED
  BY <1>1, <1>2, <1>3, <1>4, <1>5, <1>6 DEF Next

(* Every variable of the control plane keeps its type; in particular          *)
(* config.conf is a valid configuration after every command, kill and crash.  *)
THEOREM TypeCorrect == Spec => []TypeOK
<1>1. TypeInv => TypeOK
  BY DEF TypeInv
<1>2. QED
  BY <1>1, TypeInvInit, TypeInvNext, PTL DEF Spec
-------------------------------------------------------------------------------
(* The inductive invariant of the safety properties.  AtOrTo(p, S) says that  *)
(* p is at a label of S or on its way there through halt.                     *)

AtOrTo(p, S) == pc[p] \in S \/ (pc[p] = "halt" /\ ret[p] \in S)

Inside(p) == pc[p] \notin {"idle", "lock"}

(* The lock is held exactly by the process inside its critical section.       *)
LockInv == \A p \in Proc : lock = p <=> Inside(p)

(* What a process works on is what is on disk.                                *)
Fresh(p) == Inside(p) /\ pc[p] # "fail" => loc[p] = cfg

(* Only commands that may do so reach a label that launches, saves or waits.  *)
Entitlement(p) ==
    /\ AtOrTo(p, {"start", "defer", "conf", "launch", "await", "enable"}) =>
         \/ op[p].cmd \in StartCommands
         \/ op[p].cmd = "reconcile" /\ loc[p]["ENABLED"] = "1"
    /\ AtOrTo(p, {"save", "forget", "flags"}) =>
         \/ op[p].cmd \in {"stop", "suspend_network"}
         \/ op[p].cmd = "reconcile" /\ loc[p]["ENABLED"] = "1"
    /\ AtOrTo(p, {"pend", "pendsave"}) => op[p].cmd = "save_restart"
    /\ pc[p] = "update" => op[p].cmd \in {"set_config", "save_restart"}
    /\ pc[p] = "passwd" => op[p].cmd = "set_password_hex"
    /\ pc[p] = "boot" => op[p].cmd = "boot"
    /\ pc[p] \in {"reconcile", "decide"} => op[p].cmd = "reconcile"

(* No server runs after a halt; smb.conf is the loaded configuration before a *)
(* launch; a restart ends with a server that has it.                          *)
ServerInv(p) ==
    /\ pc[p] \in {"defer", "conf", "launch", "pend", "pendsave"} =>
         smbd = NoSmbd
    /\ pc[p] = "launch" =>
         conf.cfg = loc[p] /\ (loc[p]["AUTH_MODE"] = "user" => password)
    /\ op[p].cmd \in {"restart", "save_restart"} =>
         /\ pc[p] = "start" => smbd = NoSmbd
         /\ pc[p] \in {"await", "enable", "unflag", "key", "applied", "done"} =>
              smbd = NoSmbd \/ RunsAs(loc[p])

ProcInv(p) == Fresh(p) /\ Entitlement(p) /\ ServerInv(p)

SafeInv == /\ TypeInv
           /\ LockInv
           /\ AuthGuard
           /\ \A p \in Proc : ProcInv(p)

(* A process outside its critical section satisfies ProcInv whatever changes. *)
LEMMA OutsideInv ==
    ASSUME NEW q \in Proc, pc[q] \in {"idle", "lock"}
    PROVE  ProcInv(q)
BY DEF ProcInv, Fresh, Entitlement, ServerInv, AtOrTo, Inside

(* So a step inside the critical section need only be checked for itself.     *)
LEMMA InsideStep ==
    ASSUME SafeInv, NEW p \in Proc, Inside(p), TypeInv',
           NEW l \in Label \ {"idle", "lock"}, pc' = [pc EXCEPT ![p] = l],
           lock' = lock, ProcInv(p)', AuthGuard'
    PROVE  SafeInv'
<1>1. LockInv'
  BY DEF SafeInv, TypeInv, TypeOK, LockInv, Inside
<1>2. ASSUME NEW q \in Proc, q # p PROVE ProcInv(q)'
  <2>1. pc'[q] \in {"idle", "lock"}
    BY <1>2 DEF SafeInv, TypeInv, TypeOK, LockInv, Inside
  <2>2. QED
    BY <2>1 DEF ProcInv, Fresh, Entitlement, ServerInv, AtOrTo, Inside
<1>3. QED
  BY <1>1, <1>2 DEF SafeInv

(* ENABLED is not part of what a server runs as.                              *)
LEMMA RunsAsEnabled ==
    ASSUME NEW c \in Config, NEW v, RunsAs(c)
    PROVE  RunsAs(Set(c, "ENABLED", v))
BY DEF RunsAs, Set, Config, Key, Flag

LEMMA StartStepsSafe ==
    ASSUME SafeInv, NEW p \in Proc, StartSteps(p)
    PROVE  SafeInv'
<1> USE DEF ProcInv, Fresh, Entitlement, ServerInv, AtOrTo, Inside, AuthGuard
<1>0. TypeInv' /\ TypeOK /\ ProcInv(p) /\ AuthGuard
  BY StartStepsType DEF SafeInv, TypeInv
<1>1. CASE Start(p)
  <2>1. ProcInv(p)'
    BY <1>0, <1>1 DEF Start, Goto, HaltThen, Ready, ReadyWith, TypeOK
  <2>2. AuthGuard'
    BY <1>0, <1>1 DEF Start
  <2>3. QED
    BY <1>0, <1>1, <2>1, <2>2, InsideStep
       DEF Start, Goto, HaltThen, Label, Entry
<1>2. CASE Defer(p)
  <2>1. ProcInv(p)'
    BY <1>0, <1>2 DEF Defer, SaveEnabled, Goto, TypeOK
  <2>2. AuthGuard'
    BY <1>0, <1>2 DEF Defer, SaveEnabled
  <2>3. QED
    BY <1>0, <1>2, <2>1, <2>2, InsideStep
       DEF Defer, SaveEnabled, Goto, Label, Entry
<1>3. CASE WriteConf(p)
  <2>1. ProcInv(p)'
    BY <1>0, <1>3 DEF WriteConf, Goto, NeedsPassword, TypeOK
  <2>2. AuthGuard'
    BY <1>0, <1>3 DEF WriteConf
  <2>3. QED
    BY <1>0, <1>3, <2>1, <2>2, InsideStep DEF WriteConf, Goto, Label, Entry
<1>4. CASE Launch(p)
  <2>1. smbd'.cfg = loc[p] /\ smbd' # NoSmbd
    <3>1. conf \in Conf
      BY <1>0, <1>4 DEF Launch, SafeInv, TypeInv, ConfWritten
    <3>2. smbd' \in Server
      BY <1>4, <3>1 DEF Launch, Conf, Server
    <3>3. QED
      BY <1>0, <1>4, <3>2, FileAssumption DEF Launch
  <2>2. RunsAs(loc[p])'
    BY <1>4, <2>1 DEF Launch, RunsAs
  <2>3. ProcInv(p)'
    BY <1>0, <1>4, <2>2 DEF Launch, Goto, TypeOK
  <2>4. AuthGuard'
    BY <1>0, <1>4, <2>1 DEF Launch
  <2>5. QED
    BY <1>0, <1>4, <2>3, <2>4, InsideStep DEF Launch, Goto, Label, Entry
<1>5. CASE LaunchFails(p) \/ Await(p)
  <2>1. ProcInv(p)'
    BY <1>0, <1>5 DEF LaunchFails, Await, Goto, HaltThen, TypeOK, RunsAs
  <2>2. AuthGuard'
    BY <1>0, <1>5 DEF LaunchFails, Await
  <2>3. QED
    BY <1>0, <1>5, <2>1, <2>2, InsideStep
       DEF LaunchFails, Await, Goto, HaltThen, Label, Entry
<1>6. CASE Enable(p)
  <2>1. loc'[p] = Set(loc[p], "ENABLED", "1") /\ cfg' = loc'[p]
    BY <1>0, <1>6 DEF Enable, SaveEnabled, TypeOK
  <2>2. RunsAs(loc[p]) => RunsAs(loc[p])'
    BY <1>0, <1>6, <2>1, RunsAsEnabled DEF Enable, SaveEnabled, TypeOK, RunsAs
  <2>3. ProcInv(p)'
    BY <1>0, <1>6, <2>1, <2>2 DEF Enable, SaveEnabled, Goto, TypeOK
  <2>4. AuthGuard'
    BY <1>0, <1>6 DEF Enable, SaveEnabled
  <2>5. QED
    BY <1>0, <1>6, <2>3, <2>4, InsideStep
       DEF Enable, SaveEnabled, Goto, Label, Entry
<1>7. CASE Unflag(p) \/ WriteKey(p) \/ WriteApplied(p)
  <2>1. ProcInv(p)'
    BY <1>0, <1>7 DEF Unflag, WriteKey, WriteApplied, Goto, TypeOK, RunsAs
  <2>2. AuthGuard'
    BY <1>0, <1>7 DEF Unflag, WriteKey, WriteApplied
  <2>3. QED
    BY <1>0, <1>7, <2>1, <2>2, InsideStep
       DEF Unflag, WriteKey, WriteApplied, Goto, Label, Entry
<1>8. QED
  BY <1>1, <1>2, <1>3, <1>4, <1>5, <1>6, <1>7 DEF StartSteps

LEMMA StopStepsSafe ==
    ASSUME SafeInv, NEW p \in Proc, StopSteps(p)
    PROVE  SafeInv'
<1> USE DEF ProcInv, Fresh, Entitlement, ServerInv, AtOrTo, Inside, AuthGuard
<1>0. TypeInv' /\ TypeOK /\ ProcInv(p) /\ AuthGuard
  BY StopStepsType DEF SafeInv, TypeInv
<1>1. CASE Halt(p)
  <2>1. ret[p] \in Continuation
    BY <1>0 DEF TypeOK
  <2>2. ProcInv(p)'
    BY <1>0, <1>1, <2>1 DEF Halt, Goto, TypeOK, Continuation
  <2>3. AuthGuard'
    BY <1>1 DEF Halt
  <2>4. QED
    BY <1>0, <1>1, <2>1, <2>2, <2>3, InsideStep
       DEF Halt, Goto, Continuation, Label, Entry
<1>2. CASE HaltFails(p) \/ Forget(p) \/ Flags(p)
  <2>1. ProcInv(p)'
    BY <1>0, <1>2 DEF HaltFails, Forget, Flags, Goto, TypeOK
  <2>2. AuthGuard'
    BY <1>0, <1>2 DEF HaltFails, Forget, Flags
  <2>3. QED
    BY <1>0, <1>2, <2>1, <2>2, InsideStep
       DEF HaltFails, Forget, Flags, Goto, Label, Entry
<1>3. CASE Save(p)
  <2>1. ProcInv(p)'
    <3>1. loc'[p]["ENABLED"] = (IF Suspends(p) THEN "1" ELSE "0")
      BY <1>0, <1>3 DEF Save, SaveEnabled, Set, TypeOK, Config, Key, Flag
    <3>2. QED
      BY <1>0, <1>3, <3>1 DEF Save, SaveEnabled, Suspends, Goto, TypeOK
  <2>2. AuthGuard'
    BY <1>0, <1>3 DEF Save, SaveEnabled
  <2>3. QED
    BY <1>0, <1>3, <2>1, <2>2, InsideStep
       DEF Save, SaveEnabled, Goto, Label, Entry
<1>4. QED
  BY <1>1, <1>2, <1>3 DEF StopSteps
LEMMA ConfigStepsSafe ==
    ASSUME SafeInv, NEW p \in Proc, ConfigSteps(p)
    PROVE  SafeInv'
<1> USE DEF ProcInv, Fresh, Entitlement, ServerInv, AtOrTo, Inside, AuthGuard
<1>0. TypeInv' /\ TypeOK /\ ProcInv(p) /\ AuthGuard
  BY ConfigStepsType DEF SafeInv, TypeInv
<1>1. CASE Update(p)
  <2>1. ProcInv(p)'
    BY <1>0, <1>1
       DEF Update, Goto, HaltThen, TypeOK, NeedsPassword, StartCommands
  <2>2. AuthGuard'
    BY <1>0, <1>1 DEF Update
  <2>3. QED
    BY <1>0, <1>1, <2>1, <2>2, InsideStep
       DEF Update, Goto, HaltThen, Label, Entry
<1>2. CASE Pend(p)
  <2>1. ProcInv(p)'
    BY <1>0, <1>2 DEF Pend, Goto, TypeOK
  <2>2. AuthGuard'
    BY <1>0, <1>2 DEF Pend
  <2>3. QED
    BY <1>0, <1>2, <2>1, <2>2, InsideStep DEF Pend, Goto, Label, Entry
<1>3. CASE Passwd(p)
  <2>1. ProcInv(p)'
    BY <1>0, <1>3 DEF Passwd, Goto, HaltThen, TypeOK, StartCommands
  <2>2. AuthGuard'
    BY <1>0, <1>3 DEF Passwd
  <2>3. QED
    BY <1>0, <1>3, <2>1, <2>2, InsideStep
       DEF Passwd, Goto, HaltThen, Label, Entry
<1>4. CASE PendSave(p) \/ Boot(p)
  <2>1. ProcInv(p)'
    BY <1>0, <1>4 DEF PendSave, Boot, SaveEnabled, Goto, TypeOK
  <2>2. AuthGuard'
    BY <1>0, <1>4 DEF PendSave, Boot, SaveEnabled
  <2>3. QED
    BY <1>0, <1>4, <2>1, <2>2, InsideStep
       DEF PendSave, Boot, SaveEnabled, Goto, Label, Entry
<1>5. QED
  BY <1>1, <1>2, <1>3, <1>4 DEF ConfigSteps

LEMMA ReconcileSafe ==
    ASSUME SafeInv, NEW p \in Proc, ReadNetwork(p) \/ Decide(p)
    PROVE  SafeInv'
<1> USE DEF ProcInv, Fresh, Entitlement, ServerInv, AtOrTo, Inside, AuthGuard
<1>0. TypeInv' /\ TypeOK /\ ProcInv(p) /\ AuthGuard
  BY ReconcileType DEF SafeInv, TypeInv
<1>1. CASE ReadNetwork(p)
  <2>1. ProcInv(p)'
    BY <1>0, <1>1 DEF ReadNetwork, Goto, TypeOK
  <2>2. AuthGuard'
    BY <1>0, <1>1 DEF ReadNetwork
  <2>3. QED
    BY <1>0, <1>1, <2>1, <2>2, InsideStep DEF ReadNetwork, Goto, Label, Entry
<1>2. CASE Decide(p)
  <2>1. \/ Goto(p, "done")
        \/ HaltThen(p, "done")
        \/ HaltThen(p, "save") /\ loc[p]["ENABLED"] = "1"
        \/ HaltThen(p, "start") /\ loc[p]["ENABLED"] = "1"
    BY <1>2 DEF Decide, Quench, LeaveLan
  <2>2. ProcInv(p)'
    BY <1>0, <1>2, <2>1 DEF Decide, Goto, HaltThen, TypeOK
  <2>3. AuthGuard'
    BY <1>0, <1>2 DEF Decide
  <2>4. QED
    BY <1>0, <1>2, <2>1, <2>2, <2>3, InsideStep
       DEF Decide, Goto, HaltThen, Label, Entry
<1>3. QED
  BY <1>1, <1>2

(* The lock is granted to one process, which then works on what is on disk.   *)
LEMMA LockSafe ==
    ASSUME SafeInv, NEW p \in Proc, Lock(p) \/ LoadFails(p)
    PROVE  SafeInv'
<1>0. TypeInv' /\ TypeOK /\ AuthGuard /\ LockInv /\ lock = Free
      /\ pc[p] = "lock"
  BY LockType DEF SafeInv, TypeInv, Lock, LoadFails
<1>1. PICK l \in Label \ {"idle", "lock"} : pc' = [pc EXCEPT ![p] = l]
  BY DEF Lock, LoadFails, Dispatch, Goto, HaltThen, Label, Entry
<1>2. \A q \in Proc : q # p => pc'[q] \in {"idle", "lock"}
  BY <1>0, <1>1, ProcAssumption DEF LockInv, Inside, TypeOK
<1>3. LockInv'
  BY <1>0, <1>1, <1>2 DEF LockInv, Inside, TypeOK, Lock, LoadFails
<1>4. AuthGuard'
  BY <1>0 DEF AuthGuard, Lock, LoadFails
<1>5. ProcInv(p)'
  BY <1>0
     DEF Lock, LoadFails, Dispatch, Goto, HaltThen, TypeOK, ProcInv, Fresh,
         Entitlement, ServerInv, AtOrTo, Inside, StartCommands
<1>6. ASSUME NEW q \in Proc, q # p PROVE ProcInv(q)'
  BY <1>2, <1>6 DEF ProcInv, Fresh, Entitlement, ServerInv, AtOrTo, Inside
<1>7. QED
  BY <1>0, <1>3, <1>4, <1>5, <1>6 DEF SafeInv

LEMMA RequestsSafe == ASSUME SafeInv, Requests PROVE SafeInv'
<1>0. TypeInv' /\ TypeOK /\ LockInv
  BY RequestsType DEF SafeInv, TypeInv
<1>1. Watch \in Proc /\ Cmd \subseteq Proc /\ Reconcile \in Ops /\ Op \subseteq Ops
  BY DEF Proc, Ops
<1>2. PICK p \in Proc, o \in Ops : Issue(p, o)
  BY <1>1, Zenon DEF Requests
<1>3. LockInv'
  BY <1>0, <1>2 DEF Issue, Goto, LockInv, Inside, TypeOK
<1>4. AuthGuard'
  BY <1>2 DEF Issue, SafeInv, AuthGuard
<1>5. ASSUME NEW q \in Proc PROVE ProcInv(q)'
  BY <1>0, <1>2
     DEF SafeInv, Issue, Goto, TypeOK, ProcInv, Fresh, Entitlement, ServerInv,
         AtOrTo, Inside, RunsAs
<1>6. QED
  BY <1>0, <1>3, <1>4, <1>5 DEF SafeInv

(* A process that ends, of its own accord or killed, releases the lock.       *)
LEMMA ExitSafe ==
    ASSUME SafeInv, NEW p \in Proc, pc[p] # "idle", Exit(p),
           UNCHANGED <<files, smbd, device>>
    PROVE  SafeInv'
<1>0. TypeInv' /\ TypeOK /\ LockInv
  BY ExitType DEF SafeInv, TypeInv
<1>1. LockInv'
  BY <1>0, ProcAssumption DEF Exit, LockInv, Inside, TypeOK
<1>2. AuthGuard'
  BY DEF SafeInv, AuthGuard
<1>3. ASSUME NEW q \in Proc PROVE ProcInv(q)'
  BY <1>0
     DEF SafeInv, Exit, TypeOK, ProcInv, Fresh, Entitlement, ServerInv,
         AtOrTo, Inside, RunsAs
<1>4. QED
  BY <1>0, <1>1, <1>2, <1>3 DEF SafeInv

LEMMA EnvSafe == ASSUME SafeInv, Env PROVE SafeInv'
<1> USE DEF ProcInv, Fresh, Entitlement, ServerInv, AtOrTo, Inside, AuthGuard
<1>0. TypeInv' /\ TypeOK
  BY EnvType DEF SafeInv, TypeInv
<1>1. CASE LanChange \/ StorageChange
  BY <1>0, <1>1 DEF LanChange, StorageChange, SafeInv, LockInv, RunsAs
<1>2. CASE Crash
  BY <1>0, <1>2 DEF Crash, SafeInv, LockInv
<1>3. CASE Listen
  <2>1. smbd \in Server /\ smbd # NoSmbd
    BY <1>0, <1>3 DEF Listen, TypeOK
  <2>2. smbd' \in Server /\ smbd'.cfg = smbd.cfg
    BY <1>0, <1>3, <2>1 DEF Listen, Server, TypeOK
  <2>3. smbd' # NoSmbd
    BY <2>2, FileAssumption
  <2>4. QED
    BY <1>0, <1>3, <2>1, <2>2, <2>3 DEF Listen, SafeInv, LockInv, RunsAs
<1>4. CASE Reboot
  BY <1>0, <1>4, ProcAssumption DEF Reboot, SafeInv, LockInv
<1>5. QED
  BY <1>1, <1>2, <1>3, <1>4 DEF Env

LEMMA SafeInvInit == Init => SafeInv
BY TypeInvInit, ProcAssumption
   DEF Init, SafeInv, LockInv, AuthGuard, ProcInv, Fresh, Entitlement,
       ServerInv, AtOrTo, Inside

LEMMA SafeInvNext == SafeInv /\ [Next]_vars => SafeInv'
<1> SUFFICES ASSUME SafeInv, [Next]_vars PROVE SafeInv'
  OBVIOUS
<1>1. CASE Requests
  BY <1>1, RequestsSafe
<1>2. ASSUME NEW p \in Proc, Lock(p) \/ LoadFails(p) PROVE SafeInv'
  BY <1>2, LockSafe
<1>3. ASSUME NEW p \in Proc, Step(p) PROVE SafeInv'
  BY <1>3, StartStepsSafe, StopStepsSafe, ConfigStepsSafe, ReconcileSafe
     DEF Step
<1>4. ASSUME NEW p \in Proc, Return(p) \/ Kill(p) PROVE SafeInv'
  BY <1>4, ExitSafe DEF Return, Kill
<1>5. CASE Env
  BY <1>5, EnvSafe
<1>6. CASE UNCHANGED vars
  BY <1>6
     DEF SafeInv, TypeInv, TypeOK, ConfWritten, LockInv, AuthGuard, ProcInv,
         Fresh, Entitlement, ServerInv, AtOrTo, Inside, RunsAs
<1>7. QED
  BY <1>1, <1>2, <1>3, <1>4, <1>5, <1>6 DEF Next

LEMMA Safe == Spec => []SafeInv
BY SafeInvInit, SafeInvNext, PTL DEF Spec
-------------------------------------------------------------------------------
(* The theorems. *)

(* smbd is never launched while another one may still own the ports.          *)
THEOREM OneMasterHolds == Spec => []OneMaster
<1>1. SafeInv => OneMaster
  BY DEF SafeInv, ProcInv, ServerInv, OneMaster
<1>2. QED
  BY <1>1, Safe, PTL

(* A server in user mode always has a passdb entry.                           *)
THEOREM AuthGuardHolds == Spec => []AuthGuard
<1>1. SafeInv => AuthGuard
  BY DEF SafeInv
<1>2. QED
  BY <1>1, Safe, PTL

(* Only Launch takes a process from "launch" to "await".                      *)
LEMMA LaunchIsLaunch ==
    ASSUME SafeInv, [Next]_vars, NEW p \in Proc,
           pc[p] = "launch", pc'[p] = "await"
    PROVE  Launch(p)
<1>0. TypeOK /\ LockInv
  BY DEF SafeInv, TypeInv
<1>1. lock = p /\ \A q \in Proc : q # p => pc[q] \in {"idle", "lock"}
  BY <1>0 DEF LockInv, Inside
<1>2. CASE Requests
  <2>1. PICK q : pc[q] = "idle" /\ pc' = [pc EXCEPT ![q] = "lock"]
    BY <1>2 DEF Requests, Issue, Goto
  <2>2. QED
    BY <1>0, <2>1 DEF TypeOK
<1>3. ASSUME NEW q \in Proc, Lock(q) \/ LoadFails(q) PROVE FALSE
  BY <1>1, <1>3, ProcAssumption DEF Lock, LoadFails
<1>4. ASSUME NEW q \in Proc, Step(q) PROVE Launch(p)
  <2>1. q = p
    BY <1>1, <1>4
       DEF Step, StartSteps, StopSteps, ConfigSteps, Start, Defer, WriteConf,
           Launch, LaunchFails, Await, Enable, Unflag, WriteKey, WriteApplied,
           Halt, HaltFails, Save, Forget, Flags, Update, Pend, PendSave,
           Passwd, Boot, ReadNetwork, Decide
  <2>2. Launch(p) \/ LaunchFails(p)
    BY <1>4, <2>1
       DEF Step, StartSteps, StopSteps, ConfigSteps, Start, Defer, WriteConf,
           Await, Enable, Unflag, WriteKey, WriteApplied, Halt, HaltFails,
           Save, Forget, Flags, Update, Pend, PendSave, Passwd, Boot,
           ReadNetwork, Decide
  <2>3. QED
    BY <1>0, <2>2 DEF LaunchFails, HaltThen, TypeOK
<1>5. ASSUME NEW q \in Proc, Return(q) \/ Kill(q) PROVE FALSE
  BY <1>0, <1>5 DEF Return, Kill, Exit, TypeOK
<1>6. CASE Env
  BY <1>6
     DEF Env, LanChange, StorageChange, Listen, Crash, Reboot
<1>7. CASE UNCHANGED vars
  BY <1>7
<1>8. QED
  BY <1>2, <1>3, <1>4, <1>5, <1>6, <1>7 DEF Next

(* After a stop only a user's own command launches a server again.            *)
THEOREM StopSticksHolds == Spec => StopSticks
<1>1. ASSUME SafeInv, [Next]_vars, Launched
      PROVE  \/ cfg["ENABLED"] = "1"
             \/ \E p \in Proc : lock = p /\ op[p].cmd \in StartCommands
  <2>1. PICK p \in Proc : pc[p] = "launch" /\ pc'[p] = "await"
    BY <1>1 DEF Launched
  <2>2. lock = p /\ loc[p] = cfg
    BY <1>1, <2>1 DEF SafeInv, LockInv, Inside, ProcInv, Fresh
  <2>3. \/ op[p].cmd \in StartCommands
        \/ loc[p]["ENABLED"] = "1"
    BY <1>1, <2>1 DEF SafeInv, ProcInv, Entitlement, AtOrTo
  <2>4. QED
    BY <2>2, <2>3
<1>2. QED
  BY <1>1, Safe, PTL DEF Spec, StopSticks

(* smbd is always launched with the configuration on disk.                    *)
THEOREM LaunchFromDiskHolds == Spec => LaunchFromDisk
<1>1. ASSUME SafeInv, [Next]_vars, Launched
      PROVE  smbd'.cfg = cfg
  <2>1. PICK p \in Proc : pc[p] = "launch" /\ pc'[p] = "await"
    BY <1>1 DEF Launched
  <2>2. Launch(p)
    BY <1>1, <2>1, LaunchIsLaunch
  <2>3. loc[p] = cfg /\ conf.cfg = loc[p]
    BY <1>1, <2>1 DEF SafeInv, ProcInv, Fresh, ServerInv, Inside
  <2>4. QED
    BY <2>2, <2>3 DEF Launch
<1>2. QED
  BY <1>1, Safe, PTL DEF Spec, LaunchFromDisk
(* Saving ENABLED = v changes no other key of what was loaded.                *)
LEMMA SaveEnabledKeeps ==
    ASSUME SafeInv, NEW p \in Proc, Inside(p), pc[p] # "fail",
           NEW v \in {"0", "1"}, NEW l, SaveEnabled(p, v, l),
           NEW k \in Key, cfg'[k] # cfg[k]
    PROVE  /\ lock = p
           /\ k = "ENABLED" /\ cfg'[k] = v /\ loc[p]["ENABLED"] # v
<1>1. lock = p /\ loc[p] = cfg /\ cfg \in Config
  BY DEF SafeInv, TypeInv, TypeOK, LockInv, ProcInv, Fresh
<1>2. cfg' = Set(cfg, "ENABLED", v)
  BY <1>1 DEF SaveEnabled
<1>3. QED
  BY <1>1, <1>2 DEF Set, Config, Key, Flag

(* A step of a command writes to config.conf only what it was asked for.      *)
LEMMA StepKeepsKeys ==
    ASSUME SafeInv, NEW p \in Proc, Step(p), NEW k \in Key, cfg'[k] # cfg[k]
    PROVE  lock = p /\ Entitled(op[p], k, cfg'[k])
<1> DEFINE Saves(q) == \/ Defer(q) \/ Enable(q) \/ Save(q) \/ PendSave(q)
                       \/ Boot(q)
<1>1. Saves(p) \/ Update(p)
  BY DEF Step, StartSteps, StopSteps, ConfigSteps, Start, WriteConf, Launch,
         LaunchFails, Await, Unflag, WriteKey, WriteApplied, Halt, HaltFails,
         Forget, Flags, Pend, Passwd, ReadNetwork, Decide
<1>2. Entitlement(p) /\ loc[p] \in Config
  BY DEF SafeInv, TypeInv, TypeOK, ProcInv
<1>3. CASE Defer(p) \/ Enable(p) \/ PendSave(p)
  <2>1. /\ lock = p /\ k = "ENABLED" /\ cfg'[k] = "1"
        /\ loc[p]["ENABLED"] # "1"
    BY <1>3, SaveEnabledKeeps DEF Defer, Enable, PendSave, Inside
  <2>2. op[p].cmd \in StartCommands
    BY <1>2, <1>3, <2>1
       DEF Defer, Enable, PendSave, Entitlement, AtOrTo, StartCommands
  <2>3. QED
    BY <2>1, <2>2 DEF Entitled
<1>4. CASE Save(p)
  <2> DEFINE v == IF Suspends(p) THEN "1" ELSE "0"
  <2>1. /\ lock = p /\ k = "ENABLED" /\ cfg'[k] = v
        /\ loc[p]["ENABLED"] # v
    BY <1>4, SaveEnabledKeeps DEF Save, Inside
  <2>2. \/ op[p].cmd = "stop" /\ v = "0"
        \/ op[p].cmd = "suspend_network" /\ v = "1"
    BY <1>2, <1>4, <2>1 DEF Save, Suspends, Entitlement, AtOrTo
  <2>3. QED
    BY <2>1, <2>2 DEF Entitled
<1>5. CASE Boot(p)
  <2> DEFINE v == IF loc[p]["AUTO_START"] = "1" THEN "1" ELSE loc[p]["ENABLED"]
  <2>1. v \in {"0", "1"}
    BY <1>2 DEF Config, Valid, Flag
  <2>2. /\ lock = p /\ k = "ENABLED" /\ cfg'[k] = v
        /\ loc[p]["ENABLED"] # v
    BY <1>5, <2>1, SaveEnabledKeeps DEF Boot, Inside
  <2>3. op[p].cmd = "boot" /\ v = "1"
    BY <1>2, <1>5, <2>2 DEF Boot, Entitlement
  <2>4. QED
    BY <2>2, <2>3 DEF Entitled
<1>6. CASE Update(p)
  <2>1. lock = p /\ loc[p] = cfg
    BY <1>6 DEF Update, SafeInv, LockInv, ProcInv, Fresh, Inside
  <2>2. cfg' = Merge(cfg, op[p].args)
    BY <1>6, <2>1 DEF Update
  <2>3. k \in DOMAIN op[p].args /\ op[p].args[k] = cfg'[k]
    BY <2>2 DEF Merge
  <2>4. QED
    BY <2>1, <2>3 DEF Entitled
<1>7. QED
  BY <1>1, <1>3, <1>4, <1>5, <1>6

(* No key of config.conf is lost or written back by anyone who was not asked. *)
THEOREM KeysKeptHolds == Spec => KeysKept
<1>1. ASSUME SafeInv, [Next]_vars
      PROVE  \A k \in Key : cfg'[k] # cfg[k] =>
                 \E p \in Proc : lock = p /\ Entitled(op[p], k, cfg'[k])
  <2>1. SUFFICES ASSUME NEW k \in Key, cfg'[k] # cfg[k]
                 PROVE  \E p \in Proc : lock = p /\ Entitled(op[p], k, cfg'[k])
    OBVIOUS
  <2>2. ~ UNCHANGED cfg
    BY <2>1
  <2>3. PICK p \in Proc : Step(p)
    BY <1>1, <2>2
       DEF Next, Requests, Issue, Lock, LoadFails, Return, Kill, Env,
           LanChange, StorageChange, Listen, Crash, Reboot
  <2>4. QED
    BY <1>1, <2>1, <2>3, StepKeepsKeys
<1>2. QED
  BY <1>1, Safe, PTL DEF Spec, KeysKept
-------------------------------------------------------------------------------
(* Progress.  ENABLED and with it weak and strong fairness are out of reach,  *)
(* but not what fairness is needed for: every step that a process takes under *)
(* the lock brings it nearer to its return, whatever the other processes, the *)
(* device and the faults do.                                                  *)

(* A step is one of the holder of the lock, and stays inside.                 *)
LEMMA StepInside ==
    ASSUME SafeInv, NEW p \in Proc, Step(p)
    PROVE  /\ Inside(p) /\ pc[p] \notin {"fail", "done"} /\ Inside(p)'
           /\ lock = p /\ lock' = p /\ op' = op
           /\ \A q \in Proc \ {p} : pc[q] \in {"idle", "lock"} /\ pc'[q] = pc[q]
<1>1. TypeOK /\ LockInv
  BY DEF SafeInv, TypeInv
<1>2. Inside(p) /\ pc[p] \notin {"fail", "done"} /\ lock' = lock /\ op' = op
  <2>. USE DEF Inside
  <2>1. CASE StartSteps(p)
    BY <2>1 DEF StartSteps, Start, Defer, WriteConf, Launch, LaunchFails, Await, Enable,
                Unflag, WriteKey, WriteApplied, SaveEnabled
  <2>2. CASE StopSteps(p)
    BY <2>2 DEF StopSteps, Halt, HaltFails, Save, Forget, Flags, SaveEnabled
  <2>3. CASE ConfigSteps(p)
    BY <2>3 DEF ConfigSteps, Update, Pend, PendSave, Passwd, Boot, SaveEnabled
  <2>4. CASE ReadNetwork(p) \/ Decide(p)
    BY <2>4 DEF ReadNetwork, Decide
  <2>. QED  BY <2>1, <2>2, <2>3, <2>4 DEF Step
<1>3. lock = p /\ \A q \in Proc \ {p} : pc[q] \in {"idle", "lock"}
  BY <1>1, <1>2 DEF LockInv, Inside
<1>4. PICK l \in Label \ {"idle", "lock"} : pc' = [pc EXCEPT ![p] = l]
  <2>1. ret[p] \in Label \ {"idle", "lock"}
    BY <1>1 DEF TypeOK, Continuation, Label, Entry
  <2>. USE DEF Goto, HaltThen, Label, Entry
  <2>2. CASE StartSteps(p)
    BY <2>2 DEF StartSteps, Start, Defer, WriteConf, Launch, LaunchFails, Await, Enable,
                Unflag, WriteKey, WriteApplied, SaveEnabled
  <2>3. CASE StopSteps(p)
    BY <2>1, <2>3 DEF StopSteps, Halt, HaltFails, Save, Forget, Flags, SaveEnabled
  <2>4. CASE ConfigSteps(p)
    BY <2>4 DEF ConfigSteps, Update, Pend, PendSave, Passwd, Boot, SaveEnabled
  <2>5. CASE ReadNetwork(p) \/ Decide(p)
    BY <2>5 DEF ReadNetwork, Decide, Quench, LeaveLan
  <2>. QED  BY <2>2, <2>3, <2>4, <2>5 DEF Step
<1>. QED  BY <1>1, <1>2, <1>3, <1>4 DEF Inside, TypeOK

(* The most steps that are left from a label, to done or fail.                *)
Dist == [done |-> 0, fail |-> 0,
         applied |-> 1, key |-> 2, unflag |-> 3, enable |-> 4, await |-> 5,
         launch |-> 6, conf |-> 7, defer |-> 1, start |-> 9,
         flags |-> 1, forget |-> 2, save |-> 3,
         pendsave |-> 1, pend |-> 2, boot |-> 1, update |-> 11, passwd |-> 11,
         decide |-> 11, reconcile |-> 12]

Left(p) == IF pc[p] = "halt" THEN Dist[ret[p]] + 1 ELSE Dist[pc[p]]

LEMMA LeftRange ==
    ASSUME SafeInv, NEW p \in Proc, Inside(p)
    PROVE  Left(p) \in 0..12 /\ (SafeInv' /\ Inside(p)' => Left(p)' \in 0..12)
BY DEF SafeInv, TypeInv, TypeOK, Label, Entry, Continuation, Inside, Left, Dist

(* Every step of a process leaves it fewer steps.                             *)
LEMMA StepLowers ==
    ASSUME SafeInv, NEW p \in Proc, Step(p)
    PROVE  Left(p)' < Left(p)
<1>0. TypeOK
  BY DEF SafeInv, TypeInv
<1>. USE <1>0 DEF Left, Dist, Goto, HaltThen, TypeOK
<1>1. CASE StartSteps(p)
  BY <1>1 DEF StartSteps, Start, Defer, WriteConf, Launch, LaunchFails, Await, Enable,
              Unflag, WriteKey, WriteApplied, SaveEnabled
<1>2. CASE Halt(p) \/ HaltFails(p)
  <2>1. ret[p] \in Continuation /\ pc[p] = "halt" /\ ret'[p] = ret[p]
        /\ pc'[p] \in {ret[p], "fail"}
    BY <1>2 DEF Halt, HaltFails
  <2>. QED  BY <2>1 DEF Continuation
<1>3. CASE Save(p) \/ Forget(p) \/ Flags(p)
  BY <1>3 DEF Save, Forget, Flags, SaveEnabled
<1>4. CASE Update(p)
  <2>. DEFINE next == IF NeedsPassword(Merge(loc[p], op[p].args)) THEN "pend" ELSE "start"
  <2>1. pc[p] = "update" /\ (Goto(p, "done") \/ Goto(p, "fail") \/ HaltThen(p, next))
    BY <1>4 DEF Update
  <2>2. next \in {"pend", "start"}
    OBVIOUS
  <2>. HIDE DEF next
  <2>. QED  BY <2>1, <2>2
<1>5. CASE Pend(p) \/ PendSave(p) \/ Passwd(p) \/ Boot(p)
  BY <1>5 DEF Pend, PendSave, Passwd, Boot, SaveEnabled
<1>6. CASE ReadNetwork(p)
  BY <1>6 DEF ReadNetwork
<1>7. CASE Decide(p)
  <2>1. /\ pc[p] = "decide"
        /\ \/ Goto(p, "done") \/ HaltThen(p, "done") \/ HaltThen(p, "save")
           \/ HaltThen(p, "start")
    BY <1>7 DEF Decide, Quench, LeaveLan
  <2>. QED  BY <2>1
<1>. QED  BY <1>1, <1>2, <1>3, <1>4, <1>5, <1>6, <1>7 DEF Step, StopSteps, ConfigSteps

(* And nobody else's step gives it more.                                      *)
LEMMA OthersKeep ==
    ASSUME SafeInv, [Next]_vars, NEW p \in Proc, ~Step(p), Inside(p), Inside(p)'
    PROVE  Left(p)' = Left(p) /\ ~Return(p)
<1>0. TypeOK /\ LockInv /\ p # Free
  BY ProcAssumption DEF SafeInv, TypeInv
<1>1. pc'[p] = pc[p] /\ ret'[p] = ret[p]
  <2>1. CASE Requests
    BY <1>0, <2>1 DEF Requests, Issue, Goto, Inside, TypeOK
  <2>2. ASSUME NEW q \in Proc, Lock(q) \/ LoadFails(q) PROVE FALSE
    BY <1>0, <2>2 DEF Lock, LoadFails, LockInv
  <2>3. ASSUME NEW q \in Proc, Step(q) PROVE FALSE
    BY <2>3, StepInside DEF Inside
  <2>4. ASSUME NEW q \in Proc, Return(q) \/ Kill(q) PROVE pc'[p] = pc[p] /\ ret'[p] = ret[p]
    BY <1>0, <2>4 DEF Return, Kill, Exit, Inside, TypeOK
  <2>5. CASE Env
    BY <2>5 DEF Env, LanChange, StorageChange, Listen, Crash, Reboot, Inside
  <2>6. CASE UNCHANGED vars
    BY <2>6
  <2>. QED  BY <2>1, <2>2, <2>3, <2>4, <2>5, <2>6 DEF Next
<1>2. ~Return(p)
  BY <1>0 DEF Return, Exit, Inside, TypeOK
<1>. QED  BY <1>1, <1>2 DEF Left

(* A command returns after at most 12 steps of its own under the lock: none   *)
(* of its paths has a loop, whatever it finds and whatever happens meanwhile. *)
THEOREM StepsRunOut ==
    Spec => [][\A p \in Proc : Inside(p) /\ Inside(p)' =>
                   /\ Left(p) \in 0..12
                   /\ Left(p)' = Left(p) \/ (Step(p) /\ Left(p)' < Left(p))]_vars
<1>1. ASSUME SafeInv, [Next]_vars, NEW p \in Proc, Inside(p), Inside(p)'
      PROVE  Left(p) \in 0..12 /\ (Left(p)' = Left(p) \/ (Step(p) /\ Left(p)' < Left(p)))
  BY <1>1, LeftRange, StepLowers, OthersKeep
<1>2. SafeInv /\ [Next]_vars =>
        \A p \in Proc : Inside(p) /\ Inside(p)' =>
            /\ Left(p) \in 0..12
            /\ Left(p)' = Left(p) \/ (Step(p) /\ Left(p)' < Left(p))
  BY <1>1
<1>. QED  BY <1>2, Safe, PTL DEF Spec

AtMost(p, n) == Left(p) <= n

LEMMA StepDown ==
    ASSUME NEW p \in Proc, NEW m \in 0..12, NEW n \in 0..12, m = n + 1 \/ m = n,
           SafeInv, SafeInv', Inside(p), Inside(p)', [Next]_vars, AtMost(p, m),
           m = n \/ Step(p) \/ Return(p)
    PROVE  AtMost(p, n)'
<1>1. Left(p) \in 0..12 /\ Left(p)' \in 0..12
  BY LeftRange
<1>2. CASE Step(p)
  BY <1>1, <1>2, StepLowers DEF AtMost
<1>3. CASE ~Step(p)
  BY <1>1, <1>3, OthersKeep DEF AtMost
<1>. QED  BY <1>2, <1>3

(* The lock passes from one holder to the next through nobody.                *)
LEMMA HolderStays ==
    ASSUME SafeInv, [Next]_vars, NEW p \in Proc, lock = p
    PROVE  lock' \in {p, Free}
<1>1. ASSUME NEW q \in Proc, Step(q) PROVE lock' = p
  BY <1>1, StepInside
<1>2. \A q \in Proc : ~Lock(q) /\ ~LoadFails(q)
  BY ProcAssumption DEF Lock, LoadFails
<1>3. ASSUME NEW q \in Proc, Return(q) \/ Kill(q) PROVE lock' \in {p, Free}
  BY <1>3 DEF Return, Kill, Exit
<1>4. CASE Requests \/ Env
  BY <1>4 DEF Requests, Issue, Env, LanChange, StorageChange, Listen, Crash, Reboot
<1>. QED  BY <1>1, <1>2, <1>3, <1>4 DEF Next

Busy == lock # Free

Held(n) == Left(lock) <= n

LEMMA HolderDown ==
    ASSUME NEW m \in 0..12, NEW n \in 0..12, m = n + 1 \/ m = n,
           SafeInv, SafeInv', Busy, Busy', [Next]_vars, Held(m),
           m = n \/ \E q \in Proc : Step(q) \/ Return(q)
    PROVE  Held(n)'
<1>1. PICK p \in Proc : lock = p /\ lock' = p
  BY HolderStays DEF SafeInv, TypeInv, TypeOK, Busy
<1>2. Inside(p) /\ Inside(p)' /\ AtMost(p, m)
  BY <1>1 DEF SafeInv, LockInv, Held, AtMost
<1>3. ASSUME NEW q \in Proc, Step(q) \/ Return(q) PROVE Step(p) \/ Return(p)
  <2>1. CASE Step(q)
    BY <1>1, <2>1, StepInside
  <2>2. CASE Return(q)
    <3>1. Inside(q)
      BY <2>2 DEF Return, Inside
    <3>. QED  BY <1>1, <2>2, <3>1 DEF SafeInv, LockInv
  <2>. QED  BY <1>3, <2>1, <2>2
<1>4. AtMost(p, n)'
  BY <1>2, <1>3, StepDown
<1>. QED  BY <1>1, <1>4 DEF Held, AtMost, Left

(* The scheduler.  Weak fairness of whoever holds the lock, and strong        *)
(* fairness of flock towards p, with the states in which the processes can go *)
(* on in the place of ENABLED.                                                *)
HolderRuns ==
    \/ []<>~Busy
    \/ []<><<\E q \in Proc : Step(q) \/ Return(q)>>_vars

Granted(p) ==
    \/ <>[]~(~Busy /\ pc[p] = "lock")
    \/ []<><<Lock(p) \/ LoadFails(p)>>_vars

(* If whoever holds the lock is scheduled, it is free again and again: no     *)
(* path of a command keeps it.                                                *)
THEOREM LockIsReleased == Spec /\ HolderRuns => []<>~Busy
<1>. DEFINE Runs == SafeInv /\ SafeInv' /\ Busy /\ Busy' /\ [Next]_vars
            Go == Runs /\ \E q \in Proc : Step(q) \/ Return(q)
<1>1. Go /\ Held(1) => Held(0)'
  BY HolderDown
<1>2. Go /\ Held(2) => Held(1)'
  BY HolderDown
<1>3. Go /\ Held(3) => Held(2)'
  BY HolderDown
<1>4. Go /\ Held(4) => Held(3)'
  BY HolderDown
<1>5. Go /\ Held(5) => Held(4)'
  BY HolderDown
<1>6. Go /\ Held(6) => Held(5)'
  BY HolderDown
<1>7. Go /\ Held(7) => Held(6)'
  BY HolderDown
<1>8. Go /\ Held(8) => Held(7)'
  BY HolderDown
<1>9. Go /\ Held(9) => Held(8)'
  BY HolderDown
<1>10. Go /\ Held(10) => Held(9)'
  BY HolderDown
<1>11. Go /\ Held(11) => Held(10)'
  BY HolderDown
<1>12. Go /\ Held(12) => Held(11)'
  BY HolderDown
<1>13. Runs => /\ Held(0) => Held(0)'
               /\ Held(1) => Held(1)'
               /\ Held(2) => Held(2)'
               /\ Held(3) => Held(3)'
               /\ Held(4) => Held(4)'
               /\ Held(5) => Held(5)'
               /\ Held(6) => Held(6)'
               /\ Held(7) => Held(7)'
               /\ Held(8) => Held(8)'
               /\ Held(9) => Held(9)'
               /\ Held(10) => Held(10)'
               /\ Held(11) => Held(11)'
               /\ Held(12) => Held(12)'
  BY HolderDown
<1>14. SafeInv /\ Busy => Held(12)
  BY LeftRange DEF SafeInv, TypeInv, TypeOK, LockInv, Held, Busy
<1>15. ~(Go /\ Held(0))
  <2>. SUFFICES ASSUME Go, Held(0) PROVE FALSE
    OBVIOUS
  <2>1. PICK p \in Proc : lock = p /\ lock' = p
    BY HolderStays DEF SafeInv, TypeInv, TypeOK, Busy
  <2>2. Inside(p) /\ Inside(p)' /\ Left(p) \in 0..12 /\ Left(p)' \in 0..12
    BY <2>1, LeftRange DEF SafeInv, LockInv
  <2>3. PICK q \in Proc : Step(q) \/ Return(q)
    OBVIOUS
  <2>4. ~Return(q)
    BY <2>1, ProcAssumption DEF Return, Exit, SafeInv, LockInv, Inside
  <2>5. q = p /\ Step(q)
    BY <2>1, <2>3, <2>4, StepInside
  <2>6. Left(p) <= 0
    BY <2>1 DEF Held, Left
  <2>7. Left(p)' < Left(p)
    BY <2>5, StepLowers
  <2>. QED  BY <2>2, <2>6, <2>7
<1>16. ~(Spec /\ <>[]Busy /\ []<><<\E q \in Proc : Step(q) \/ Return(q)>>_vars)
  <2>. DEFINE Fair == /\ Spec /\ <>[]Busy
                      /\ []<><<\E q \in Proc : Step(q) \/ Return(q)>>_vars
  <2>1. Fair => <>[]Held(12)
    BY <1>14, Safe, PTL
  <2>2. Fair /\ <>[]Held(12) => <>[]Held(11)
    BY <1>12, <1>13, Safe, PTL DEF Spec
  <2>3. Fair /\ <>[]Held(11) => <>[]Held(10)
    BY <1>11, <1>13, Safe, PTL DEF Spec
  <2>4. Fair /\ <>[]Held(10) => <>[]Held(9)
    BY <1>10, <1>13, Safe, PTL DEF Spec
  <2>5. Fair /\ <>[]Held(9) => <>[]Held(8)
    BY <1>9, <1>13, Safe, PTL DEF Spec
  <2>6. Fair /\ <>[]Held(8) => <>[]Held(7)
    BY <1>8, <1>13, Safe, PTL DEF Spec
  <2>7. Fair /\ <>[]Held(7) => <>[]Held(6)
    BY <1>7, <1>13, Safe, PTL DEF Spec
  <2>8. Fair /\ <>[]Held(6) => <>[]Held(5)
    BY <1>6, <1>13, Safe, PTL DEF Spec
  <2>9. Fair /\ <>[]Held(5) => <>[]Held(4)
    BY <1>5, <1>13, Safe, PTL DEF Spec
  <2>10. Fair /\ <>[]Held(4) => <>[]Held(3)
    BY <1>4, <1>13, Safe, PTL DEF Spec
  <2>11. Fair /\ <>[]Held(3) => <>[]Held(2)
    BY <1>3, <1>13, Safe, PTL DEF Spec
  <2>12. Fair /\ <>[]Held(2) => <>[]Held(1)
    BY <1>2, <1>13, Safe, PTL DEF Spec
  <2>13. Fair /\ <>[]Held(1) => <>[]Held(0)
    BY <1>1, <1>13, Safe, PTL DEF Spec
  <2>14. Fair /\ <>[]Held(0) => FALSE
    BY <1>15, Safe, PTL DEF Spec
  <2>. HIDE DEF Fair
  <2>. QED  BY <2>1, <2>2, <2>3, <2>4, <2>5, <2>6, <2>7, <2>8, <2>9, <2>10, <2>11,
               <2>12, <2>13, <2>14, PTL DEF Fair
<1>. QED  BY <1>16, PTL DEF HolderRuns

Returns(p) == pc[p] = "lock" ~> pc[p] = "idle"

LEMMA OneReturns ==
    ASSUME NEW p \in Proc
    PROVE  Spec /\ HolderRuns /\ Granted(p) => Returns(p)
<1>1. SafeInv /\ Inside(p) => Busy
  BY ProcAssumption DEF SafeInv, LockInv, Busy
<1>2. SafeInv /\ [Next]_vars /\ pc[p] = "lock" =>
          (pc[p] = "lock")' \/ Inside(p)' \/ (pc[p] = "idle")'
  BY DEF Inside
<1>3. SafeInv /\ (Lock(p) \/ LoadFails(p)) => ~(pc[p] = "lock")'
  BY DEF SafeInv, TypeInv, TypeOK, Lock, LoadFails, Dispatch, Goto, HaltThen
<1>4. SafeInv /\ [Next]_vars /\ Inside(p) => Inside(p)' \/ (pc[p] = "idle")'
  <2>. SUFFICES ASSUME SafeInv, [Next]_vars, Inside(p) PROVE pc'[p] # "lock"
    BY DEF Inside
  <2>0. TypeOK /\ LockInv
    BY DEF SafeInv, TypeInv
  <2>1. CASE Step(p)
    BY <2>1, StepInside DEF Inside
  <2>2. CASE ~Step(p) /\ Inside(p)'
    BY <2>2 DEF Inside
  <2>3. CASE Requests
    BY <2>0, <2>3 DEF Requests, Issue, Goto, Inside, TypeOK
  <2>4. ASSUME NEW q \in Proc, Lock(q) \/ LoadFails(q) PROVE FALSE
    BY <2>0, <2>4, ProcAssumption DEF Lock, LoadFails, LockInv
  <2>5. ASSUME NEW q \in Proc, Step(q) PROVE Step(p)
    BY <2>5, StepInside DEF Inside
  <2>6. ASSUME NEW q \in Proc, Return(q) \/ Kill(q) PROVE pc'[p] # "lock"
    BY <2>0, <2>6 DEF Return, Kill, Exit, Inside, TypeOK
  <2>7. CASE Env \/ UNCHANGED vars
    BY <2>7 DEF Env, LanChange, StorageChange, Listen, Crash, Reboot, Inside
  <2>. QED  BY <2>1, <2>3, <2>4, <2>5, <2>6, <2>7 DEF Next
<1>. QED  BY <1>1, <1>2, <1>3, <1>4, LockIsReleased, Safe, PTL
          DEF Spec, Granted, Returns

(* Every command that waits for control.lock gets it and returns, whatever    *)
(* fails or is killed meanwhile.                                              *)
THEOREM CommandsReturnHolds ==
    Spec /\ HolderRuns /\ (\A p \in Proc : Granted(p)) => CommandsReturn
<1>1. Spec /\ HolderRuns /\ (\A p \in Proc : Granted(p)) => \A p \in Proc : Returns(p)
  BY OneReturns
<1>. QED  BY <1>1 DEF Returns, CommandsReturn

=============================================================================
