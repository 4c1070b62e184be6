------------------------------ MODULE TruthProofs ------------------------------
(* While nobody is killed and no halt fails, the files tell the truth about   *)
(* the server whenever nobody holds control.lock.  Crashes, reboots, failed   *)
(* launches and files that cannot be loaded may happen all the same.  And     *)
(* whatever was killed or has failed before, the truth comes back.            *)
EXTENDS ContractProofs

USE DEF vars, files, device, locals

(* No process is killed or fails in a write, and every halt succeeds.         *)
NoFailure == Killable = {} /\ "halt" \notin Fault

(* A step that is neither a kill nor a halt that leaves the server behind.    *)
Smooth ==
    \/ Requests
    \/ \E p \in Proc : \/ Lock(p) \/ LoadFails(p) \/ Return(p)
                       \/ Step(p) /\ (pc[p] = "halt" => smbd' = NoSmbd)
    \/ Env

(* Nobody gives ENABLED a value by set_config or save_restart.                *)
EnabledIsKept == \A o \in Op : "ENABLED" \notin DOMAIN o.args

-------------------------------------------------------------------------------
(* A start makes the three parts true one after the other, and in between the *)
(* lock keeps everybody from looking.                                         *)

Applied == smbd # NoSmbd => applied # NoFile /\ RunsAs(applied)
Calm == waiting \/ pending => smbd = NoSmbd
Enabled == EnabledIsKept => (smbd # NoSmbd => cfg["ENABLED"] = "1")
Truth == Applied /\ Calm /\ Enabled

Fits(p) == smbd = NoSmbd \/ RunsAs(loc[p])

NoServer == {"save", "forget", "flags", "defer", "conf", "launch", "pend", "pendsave"}
Starting == {"await", "enable", "unflag", "key", "applied"}

(* What is true when the process that holds the lock is where it is.          *)
TruthAt(p) ==
    /\ pc[p] \in NoServer => smbd = NoSmbd
    /\ pc[p] \in Starting => Fits(p)
    /\ pc[p] \in {"unflag", "key", "applied"} => Enabled
    /\ pc[p] \in {"key", "applied"} => Calm
    /\ pc[p] \notin NoServer \cup Starting \cup {"halt"} => Truth

(* A reconcile that starts a server has ended the one before, and when it is  *)
(* done, the server that runs is the one of its copy.                         *)
ReconcileAt(p) ==
    op[p].cmd = "reconcile" => /\ pc[p] = "start" => smbd = NoSmbd
                               /\ pc[p] = "done" => Fits(p)

TruthInv == /\ lock = Free => Truth
            /\ \A p \in Proc : Inside(p) => TruthAt(p) /\ ReconcileAt(p)

(* Where no server runs everything is true.                                   *)
LEMMA DownIsTrue ==
    ASSUME smbd = NoSmbd
    PROVE  Truth /\ \A p \in Proc : TruthAt(p) /\ ReconcileAt(p)
BY DEF Truth, Applied, Calm, Enabled, TruthAt, ReconcileAt, Fits

(* A step of the holder of the lock need only be checked for itself.          *)
LEMMA HolderStep ==
    ASSUME SafeInv, TruthInv, NEW p \in Proc, Step(p), TruthAt(p)', ReconcileAt(p)'
    PROVE  TruthInv'
<1>1. lock' = p /\ \A q \in Proc \ {p} : pc'[q] \in {"idle", "lock"}
  BY StepInside
<1>2. lock' # Free
  BY <1>1, ProcAssumption
<1>. QED  BY <1>1, <1>2 DEF TruthInv, Inside

LEMMA StartStepsTruth ==
    ASSUME SafeInv, NEW p \in Proc, StartSteps(p), TruthAt(p)
    PROVE  TruthAt(p)'
<1>0. TypeOK /\ ProcInv(p)
  BY DEF SafeInv, TypeInv
<1>. USE DEF TruthAt, NoServer, Starting, Goto, HaltThen
<1>1. CASE Start(p)
  <2>1. pc[p] = "start" /\ Truth /\ UNCHANGED <<smbd, cfg, applied, waiting, pending>>
    BY <1>1 DEF Start
  <2>2. Truth'
    BY <2>1 DEF Truth, Applied, Calm, Enabled, RunsAs
  <2>3. pc'[p] \in {"halt", "done"}
    BY <1>0, <1>1 DEF Start, TypeOK
  <2>. QED  BY <2>2, <2>3
<1>2. CASE Defer(p)
  <2>1. smbd' = NoSmbd
    BY <1>2 DEF Defer, SaveEnabled
  <2>. QED  BY <2>1, DownIsTrue DEF Truth, Applied, Calm, Enabled, Fits
<1>3. CASE WriteConf(p)
  <2>1. smbd' = NoSmbd
    BY <1>3 DEF WriteConf
  <2>. QED  BY <2>1 DEF Truth, Applied, Calm, Enabled, Fits
<1>4. CASE Launch(p)
  <2>1. conf.cfg = loc[p] /\ conf \in Conf
    BY <1>0, <1>4 DEF Launch, SafeInv, TypeInv, ConfWritten, ProcInv, ServerInv
  <2>2. smbd' \in Server /\ smbd'.cfg = loc[p] /\ loc' = loc
    BY <1>4, <2>1 DEF Launch, Conf, Server
  <2>3. RunsAs(loc[p])'
    BY <2>2, FileAssumption DEF RunsAs
  <2>4. pc'[p] = "await"
    BY <1>0, <1>4 DEF Launch, TypeOK
  <2>. QED  BY <2>2, <2>3, <2>4 DEF Fits
<1>5. CASE LaunchFails(p)
  <2>1. pc'[p] = "halt"
    BY <1>0, <1>5 DEF LaunchFails, TypeOK
  <2>. QED  BY <2>1
<1>6. CASE Await(p)
  <2>1. pc'[p] \in {"halt", "enable"} /\ pc[p] = "await"
    BY <1>0, <1>6 DEF Await, TypeOK
  <2>2. Fits(p)'
    BY <1>6, <2>1 DEF Await, Fits, RunsAs
  <2>. QED  BY <2>1, <2>2
<1>7. CASE Enable(p)
  <2>1. /\ pc[p] = "enable" /\ pc'[p] = "unflag" /\ UNCHANGED smbd
        /\ loc'[p] = Set(loc[p], "ENABLED", "1") /\ cfg' = Set(loc[p], "ENABLED", "1")
    BY <1>0, <1>7 DEF Enable, SaveEnabled, TypeOK
  <2>2. Fits(p)'
    BY <1>0, <2>1, RunsAsEnabled DEF Fits, RunsAs, TypeOK
  <2>3. cfg'["ENABLED"] = "1"
    BY <1>0, <2>1 DEF Set, TypeOK, Config, Key, Flag
  <2>. QED  BY <2>1, <2>2, <2>3 DEF Enabled
<1>8. CASE Unflag(p)
  <2>1. pc[p] = "unflag" /\ pc'[p] = "key" /\ UNCHANGED <<smbd, cfg, loc>>
        /\ ~waiting' /\ ~pending'
    BY <1>0, <1>8 DEF Unflag, TypeOK
  <2>. QED  BY <2>1 DEF Fits, RunsAs, Enabled, Calm
<1>9. CASE WriteKey(p)
  <2>1. /\ pc[p] = "key" /\ pc'[p] = "applied"
        /\ UNCHANGED <<smbd, cfg, loc, waiting, pending>>
    BY <1>0, <1>9 DEF WriteKey, TypeOK
  <2>. QED  BY <2>1 DEF Fits, RunsAs, Enabled, Calm
<1>10. CASE WriteApplied(p)
  <2>1. /\ pc[p] = "applied" /\ pc'[p] = "done" /\ applied' = loc[p]
        /\ UNCHANGED <<smbd, cfg, loc, waiting, pending>>
    BY <1>0, <1>10 DEF WriteApplied, TypeOK
  <2>2. applied' # NoFile
    BY <1>0, <2>1, FileAssumption DEF TypeOK
  <2>3. Truth'
    BY <2>1, <2>2 DEF Truth, Applied, Fits, RunsAs, Enabled, Calm
  <2>. QED  BY <2>1, <2>3
<1>. QED  BY <1>1, <1>2, <1>3, <1>4, <1>5, <1>6, <1>7, <1>8, <1>9, <1>10 DEF StartSteps

(* A halt makes everything true, and where a stop goes on no server runs.     *)
LEMMA StopStepsTruth ==
    ASSUME SafeInv, NEW p \in Proc, StopSteps(p), TruthAt(p),
           pc[p] = "halt" => smbd' = NoSmbd
    PROVE  TruthAt(p)'
<1>1. smbd' = NoSmbd
  <2>1. CASE Halt(p) \/ HaltFails(p)
    BY <2>1 DEF Halt, HaltFails
  <2>2. CASE Save(p) \/ Forget(p) \/ Flags(p)
    BY <2>2 DEF Save, SaveEnabled, Forget, Flags, TruthAt, NoServer
  <2>. QED  BY <2>1, <2>2 DEF StopSteps
<1>. QED  BY <1>1 DEF Truth, Applied, Calm, Enabled, TruthAt, Fits

LEMMA ConfigStepsTruth ==
    ASSUME SafeInv, NEW p \in Proc, ConfigSteps(p), TruthAt(p)
    PROVE  TruthAt(p)'
<1>0. TypeOK /\ ProcInv(p) /\ Inside(p)
  BY DEF SafeInv, TypeInv, ConfigSteps, Update, Pend, PendSave, Passwd, Boot, Inside
<1>. USE DEF TruthAt, NoServer, Starting, Goto, HaltThen
<1>1. CASE Update(p)
  <2>1. /\ Truth /\ UNCHANGED <<smbd, applied, waiting, pending>>
        /\ pc'[p] \in {"done", "halt", "fail"}
    BY <1>0, <1>1 DEF Update, TypeOK
  <2>2. op[p] \in Op /\ loc[p] = cfg
    BY <1>0, <1>1 DEF Update, ProcInv, Entitlement, Fresh, TypeOK, Ops, Reconcile, NoOp
  <2>3. EnabledIsKept => cfg'["ENABLED"] = cfg["ENABLED"]
    BY <1>0, <1>1, <2>2 DEF Update, EnabledIsKept, Merge, Key, Flag
  <2>4. Truth'
    BY <2>1, <2>3 DEF Truth, Applied, Calm, Enabled, RunsAs
  <2>. QED  BY <2>1, <2>4
<1>2. CASE Pend(p) \/ PendSave(p)
  <2>1. smbd' = NoSmbd
    BY <1>2 DEF Pend, PendSave, SaveEnabled
  <2>. QED  BY <2>1 DEF Truth, Applied, Calm, Enabled, Fits
<1>3. CASE Passwd(p)
  <2>1. /\ Truth /\ UNCHANGED <<smbd, cfg, applied, waiting, pending>>
        /\ pc'[p] \in {"done", "halt", "fail"}
    BY <1>0, <1>3 DEF Passwd, TypeOK
  <2>2. Truth'
    BY <2>1 DEF Truth, Applied, Calm, Enabled, RunsAs
  <2>. QED  BY <2>1, <2>2
<1>4. CASE Boot(p)
  <2>1. /\ Truth /\ UNCHANGED <<smbd, applied, waiting, pending>>
        /\ pc'[p] = "done"
    BY <1>0, <1>4 DEF Boot, SaveEnabled, TypeOK
  <2>2. loc[p] = cfg
    BY <1>0, <1>4 DEF Boot, ProcInv, Fresh
  <2>3. cfg'["ENABLED"] \in {"1", cfg["ENABLED"]}
    BY <1>0, <1>4, <2>2 DEF Boot, SaveEnabled, Set, TypeOK, Config, Key, Flag
  <2>4. Truth'
    BY <2>1, <2>3 DEF Truth, Applied, Calm, Enabled, RunsAs
  <2>. QED  BY <2>1, <2>4
<1>. QED  BY <1>1, <1>2, <1>3, <1>4 DEF ConfigSteps

LEMMA ReconcileTruth ==
    ASSUME SafeInv, NEW p \in Proc, ReadNetwork(p) \/ Decide(p), TruthAt(p)
    PROVE  TruthAt(p)'
<1>0. TypeOK
  BY DEF SafeInv, TypeInv
<1>1. Truth /\ UNCHANGED <<smbd, cfg, applied, pending>>
  BY DEF ReadNetwork, Decide, TruthAt, NoServer, Starting
<1>2. UNCHANGED waiting \/ smbd = NoSmbd
  BY DEF ReadNetwork, Decide, Quench, LeaveLan
<1>3. Truth'
  BY <1>1, <1>2 DEF Truth, Applied, Calm, Enabled, RunsAs
<1>4. pc'[p] \in {"decide", "done", "halt"}
  BY <1>0 DEF ReadNetwork, Decide, Quench, LeaveLan, Goto, HaltThen, TypeOK
<1>. QED  BY <1>3, <1>4 DEF TruthAt, NoServer, Starting

(* reconcile leaves alone only a server that is the one of its copy: the file *)
(* that it compares with is true.                                             *)
LEMMA DecideAccepts ==
    ASSUME SafeInv, NEW p \in Proc, Decide(p), TruthAt(p), pc'[p] = "done"
    PROVE  Fits(p) /\ UNCHANGED <<smbd, loc>>
<1>1. TypeOK
  BY DEF SafeInv, TypeInv
<1>2. Applied /\ (pending => smbd = NoSmbd)
  BY DEF Decide, TruthAt, NoServer, Starting, Truth, Calm
<1>3. ~HaltThen(p, "done") /\ ~HaltThen(p, "save") /\ ~HaltThen(p, "start")
  BY <1>1 DEF HaltThen, TypeOK
<1>4. smbd = NoSmbd \/ ~Outdated(p)
  BY <1>1, <1>2, <1>3 DEF Decide, Quench, LeaveLan
<1>. QED  BY <1>2, <1>4 DEF Decide, Outdated, Applied, Fits

LEMMA StepReconciles ==
    ASSUME SafeInv, NEW p \in Proc, Step(p), TruthAt(p), ReconcileAt(p),
           pc[p] = "halt" => smbd' = NoSmbd
    PROVE  ReconcileAt(p)'
<1>0. TypeOK /\ Entitlement(p) /\ op' = op
  BY StepInside DEF SafeInv, TypeInv, ProcInv
<1>. SUFFICES ASSUME op[p].cmd = "reconcile", smbd' # NoSmbd, pc'[p] \in {"start", "done"}
              PROVE  pc'[p] = "done" /\ Fits(p)'
  BY <1>0, DownIsTrue DEF ReconcileAt, Fits
<1>1. CASE StartSteps(p)
  <2>1. ~Start(p)
    BY DEF Start, ReconcileAt, Ready, ReadyWith
  <2>2. ~Defer(p)
    BY DEF Defer, SaveEnabled, TruthAt, NoServer
  <2>3. WriteApplied(p)
    BY <1>0, <1>1, <2>1, <2>2
       DEF StartSteps, WriteConf, Launch, LaunchFails, Await, Enable, Unflag, WriteKey,
           SaveEnabled, Goto, HaltThen, TypeOK
  <2>. QED  BY <1>0, <2>3
            DEF WriteApplied, Goto, TruthAt, Starting, Fits, RunsAs, TypeOK
<1>2. CASE StopSteps(p)
  BY <1>2 DEF StopSteps, Halt, HaltFails, Save, Forget, Flags, SaveEnabled, TruthAt, NoServer
<1>3. CASE ConfigSteps(p)
  <2>1. ~Update(p) /\ ~Passwd(p) /\ ~Boot(p)
    BY <1>0 DEF Update, Passwd, Boot, Entitlement
  <2>. QED  BY <1>3, <2>1
            DEF ConfigSteps, Pend, PendSave, SaveEnabled, TruthAt, NoServer
<1>4. CASE ReadNetwork(p)
  BY <1>0, <1>4 DEF ReadNetwork, Goto, TypeOK
<1>5. CASE Decide(p)
  <2>1. pc'[p] \in {"done", "halt"}
    BY <1>0, <1>5 DEF Decide, Quench, LeaveLan, Goto, HaltThen, TypeOK
  <2>. QED  BY <1>5, <2>1, DecideAccepts DEF Fits, RunsAs
<1>. QED  BY <1>1, <1>2, <1>3, <1>4, <1>5 DEF Step

-------------------------------------------------------------------------------
LEMMA StepTruth ==
    ASSUME SafeInv, TruthInv, NEW p \in Proc, Step(p), pc[p] = "halt" => smbd' = NoSmbd
    PROVE  TruthInv'
<1>1. TruthAt(p) /\ ReconcileAt(p)
  BY StepInside DEF TruthInv
<1>2. TruthAt(p)'
  BY <1>1, StartStepsTruth, StopStepsTruth, ConfigStepsTruth, ReconcileTruth DEF Step
<1>3. ReconcileAt(p)'
  BY <1>1, StepReconciles
<1>. QED  BY <1>2, <1>3, HolderStep

(* The lock is granted over files that are true.                              *)
LEMMA LockTruth ==
    ASSUME SafeInv, TruthInv, NEW p \in Proc, Lock(p) \/ LoadFails(p)
    PROVE  TruthInv'
<1>0. TypeOK /\ LockInv /\ lock = Free /\ lock' = p /\ p # Free
  BY ProcAssumption DEF SafeInv, TypeInv, Lock, LoadFails
<1>1. Truth /\ UNCHANGED <<smbd, cfg, applied, waiting, pending>>
  BY <1>0 DEF TruthInv, Lock, LoadFails
<1>2. Truth'
  BY <1>1 DEF Truth, Applied, Calm, Enabled, RunsAs
<1>3. pc'[p] \in {"halt", "update", "passwd", "start", "boot", "reconcile", "fail"}
  BY <1>0 DEF Lock, LoadFails, Dispatch, Goto, HaltThen, TypeOK
<1>4. TruthAt(p)'
  BY <1>2, <1>3 DEF TruthAt, NoServer, Starting
<1>5. ReconcileAt(p)'
  BY <1>0 DEF Lock, LoadFails, Dispatch, Goto, HaltThen, ReconcileAt, TypeOK
<1>6. \A q \in Proc \ {p} : pc'[q] \in {"idle", "lock"}
  BY <1>0, ProcAssumption
     DEF LockInv, Inside, Lock, LoadFails, Dispatch, Goto, HaltThen, TypeOK
<1>. QED  BY <1>0, <1>4, <1>5, <1>6 DEF TruthInv, Inside

(* A process that returns leaves the truth behind.                            *)
LEMMA ReturnTruth ==
    ASSUME SafeInv, TruthInv, NEW p \in Proc, Return(p)
    PROVE  TruthInv'
<1>0. TypeOK /\ LockInv
  BY DEF SafeInv, TypeInv
<1>1. Inside(p) /\ lock = p /\ pc[p] \notin NoServer \cup Starting \cup {"halt"}
  BY <1>0 DEF Return, Inside, LockInv, NoServer, Starting
<1>2. Truth /\ UNCHANGED <<smbd, cfg, applied, waiting, pending>>
  BY <1>1 DEF TruthInv, TruthAt, Return
<1>3. Truth'
  BY <1>2 DEF Truth, Applied, Calm, Enabled, RunsAs
<1>4. \A q \in Proc : ~Inside(q)'
  BY <1>0, <1>1 DEF LockInv, Inside, Return, Exit, TypeOK
<1>. QED  BY <1>3, <1>4 DEF TruthInv

LEMMA RequestsTruth == ASSUME SafeInv, TruthInv, Requests PROVE TruthInv'
<1>0. TypeOK
  BY DEF SafeInv, TypeInv
<1>1. PICK p \in Proc, o \in Ops : Issue(p, o)
  <2>1. Watch \in Proc /\ Cmd \subseteq Proc /\ Reconcile \in Ops /\ Op \subseteq Ops
    BY DEF Proc, Ops
  <2>. QED  BY <2>1, Zenon DEF Requests
<1>2. \A q \in Proc : Inside(q)' => Inside(q) /\ pc'[q] = pc[q] /\ op'[q] = op[q]
  BY <1>0, <1>1 DEF Issue, Goto, Inside, TypeOK
<1>3. UNCHANGED <<lock, smbd, cfg, applied, waiting, pending, loc>>
  BY <1>1 DEF Issue
<1>4. Truth' <=> Truth
  BY <1>3 DEF Truth, Applied, Calm, Enabled, RunsAs
<1>5. ASSUME NEW q \in Proc, Inside(q)' PROVE TruthAt(q)' /\ ReconcileAt(q)'
  BY <1>2, <1>3, <1>4, <1>5
     DEF TruthInv, TruthAt, ReconcileAt, Calm, Enabled, Fits, RunsAs
<1>. QED  BY <1>3, <1>4, <1>5 DEF TruthInv

(* A server that appears in none of the device's steps, or listens, is as     *)
(* true as before.                                                            *)
LEMMA EnvTruth == ASSUME SafeInv, TruthInv, Env PROVE TruthInv'
<1>0. TypeOK
  BY DEF SafeInv, TypeInv
<1>1. CASE Crash \/ Reboot
  <2>1. smbd' = NoSmbd
    BY <1>1 DEF Crash, Reboot
  <2>. QED  BY <2>1
            DEF TruthInv, TruthAt, ReconcileAt, Truth, Applied, Calm, Enabled, Fits
<1>2. CASE LanChange \/ StorageChange \/ Listen
  <2>1. UNCHANGED <<lock, pc, op, cfg, applied, waiting, pending, loc>>
    BY <1>2 DEF LanChange, StorageChange, Listen
  <2>2. /\ smbd' = NoSmbd <=> smbd = NoSmbd
        /\ smbd # NoSmbd => smbd'.cfg = smbd.cfg
    <3>1. CASE LanChange \/ StorageChange
      BY <3>1 DEF LanChange, StorageChange
    <3>2. CASE Listen
      <4>1. smbd \in Server /\ smbd # NoSmbd /\ lan \subseteq Addr
        BY <1>0, <3>2 DEF Listen, TypeOK
      <4>2. smbd' \in Server /\ smbd'.cfg = smbd.cfg
        BY <3>2, <4>1 DEF Listen, Server
      <4>. QED  BY <4>1, <4>2, FileAssumption
    <3>. QED  BY <1>2, <3>1, <3>2
  <2>3. Truth' <=> Truth
    BY <2>1, <2>2 DEF Truth, Applied, Calm, Enabled, RunsAs
  <2>4. ASSUME NEW q \in Proc, Inside(q)' PROVE TruthAt(q)' /\ ReconcileAt(q)'
    <3>1. TruthAt(q) /\ ReconcileAt(q)
      BY <2>1, <2>4 DEF TruthInv, Inside
    <3>. QED  BY <2>1, <2>2, <2>3, <3>1
              DEF TruthAt, ReconcileAt, Calm, Enabled, Fits, RunsAs
  <2>. QED  BY <2>1, <2>3, <2>4 DEF TruthInv
<1>. QED  BY <1>1, <1>2 DEF Env

LEMMA TruthInvInit == ASSUME Init PROVE TruthInv
BY DEF Init, TruthInv, Truth, Applied, Calm, Enabled, Inside

LEMMA TruthInvNext ==
    ASSUME SafeInv, TruthInv, [Smooth]_vars
    PROVE  TruthInv'
<1>1. CASE Requests
  BY <1>1, RequestsTruth
<1>2. ASSUME NEW p \in Proc, Lock(p) \/ LoadFails(p) PROVE TruthInv'
  BY <1>2, LockTruth
<1>3. ASSUME NEW p \in Proc, Step(p), pc[p] = "halt" => smbd' = NoSmbd PROVE TruthInv'
  BY <1>3, StepTruth
<1>4. ASSUME NEW p \in Proc, Return(p) PROVE TruthInv'
  BY <1>4, ReturnTruth
<1>5. CASE Env
  BY <1>5, EnvTruth
<1>6. CASE UNCHANGED vars
  BY <1>6 DEF Inside, TruthInv, TruthAt, ReconcileAt, Truth, Applied, Calm, Enabled, Fits,
              RunsAs
<1>. QED  BY <1>1, <1>2, <1>3, <1>4, <1>5, <1>6 DEF Smooth

(* Without failures every step is smooth.                                     *)
LEMMA NoFailureIsSmooth == ASSUME NoFailure, [Next]_vars PROVE [Smooth]_vars
<1>1. ASSUME NEW p \in Proc, Step(p), pc[p] = "halt" PROVE smbd' = NoSmbd
  BY <1>1
     DEF NoFailure, Step, StartSteps, StopSteps, ConfigSteps, Start, Defer, WriteConf,
         Launch, LaunchFails, Await, Enable, Unflag, WriteKey, WriteApplied, Halt,
         HaltFails, Save, Forget, Flags, Update, Pend, PendSave, Passwd, Boot,
         ReadNetwork, Decide
<1>2. \A p \in Proc : ~Kill(p)
  BY DEF Kill, NoFailure
<1>. QED  BY <1>1, <1>2, Zenon DEF Next, Smooth

LEMMA Truthful == ASSUME NoFailure PROVE Spec => []TruthInv
<1>1. SafeInv /\ TruthInv /\ [Next]_vars => TruthInv'
  BY NoFailureIsSmooth, TruthInvNext
<1>2. Init => TruthInv
  BY TruthInvInit
<1>. QED  BY <1>1, <1>2, Safe, PTL DEF Spec

-------------------------------------------------------------------------------
(* Without kills and failed halts, applied_config.json describes the server   *)
(* that runs whenever the lock is free.                                       *)
THEOREM AppliedIsRunningHolds == ASSUME NoFailure PROVE Spec => []AppliedIsRunning
<1>1. TruthInv => AppliedIsRunning
  BY DEF TruthInv, Truth, Applied, AppliedIsRunning
<1>. QED  BY <1>1, Truthful, PTL

(* Nor does a server run then when a flag says that it waits.                 *)
THEOREM WaitingIsDownHolds == ASSUME NoFailure PROVE Spec => []WaitingIsDown
<1>1. TruthInv => WaitingIsDown
  BY DEF TruthInv, Truth, Calm, WaitingIsDown
<1>. QED  BY <1>1, Truthful, PTL

(* And if nobody sets ENABLED by hand, the server is one that is enabled.     *)
THEOREM RunningIsEnabledHolds ==
    ASSUME NoFailure, EnabledIsKept PROVE Spec => []RunningIsEnabled
<1>1. TruthInv => RunningIsEnabled
  BY DEF TruthInv, Truth, Enabled, RunningIsEnabled
<1>. QED  BY <1>1, Truthful, PTL

(* Only Decide takes a process from "decide" to "done".                       *)
LEMMA DecideIsDecide ==
    ASSUME NoFailure, SafeInv, [Next]_vars, NEW p \in Proc,
           pc[p] = "decide", pc'[p] = "done"
    PROVE  Decide(p)
<1>0. TypeOK /\ LockInv
  BY DEF SafeInv, TypeInv
<1>1. lock = p /\ p # Free
  BY <1>0, ProcAssumption DEF LockInv, Inside
<1>2. CASE Requests
  BY <1>0, <1>2 DEF Requests, Issue, Goto, TypeOK
<1>3. ASSUME NEW q \in Proc, Lock(q) \/ LoadFails(q) PROVE Decide(p)
  BY <1>1, <1>3 DEF Lock, LoadFails
<1>4. ASSUME NEW q \in Proc, Step(q) PROVE Decide(p)
  <2>1. q = p
    BY <1>1, <1>4, StepInside
  <2>. QED  BY <1>4, <2>1
            DEF Step, StartSteps, StopSteps, ConfigSteps, Start, Defer, WriteConf,
                Launch, LaunchFails, Await, Enable, Unflag, WriteKey, WriteApplied,
                Halt, HaltFails, Save, Forget, Flags, Update, Pend, PendSave,
                Passwd, Boot, ReadNetwork
<1>5. ASSUME NEW q \in Proc, Return(q) \/ Kill(q) PROVE Decide(p)
  BY <1>0, <1>5 DEF Return, Kill, Exit, TypeOK
<1>6. CASE Env
  BY <1>6 DEF Env, LanChange, StorageChange, Listen, Crash, Reboot
<1>7. CASE UNCHANGED vars
  BY <1>7
<1>. QED  BY <1>2, <1>3, <1>4, <1>5, <1>6, <1>7 DEF Next

(* So reconcile leaves alone only a server with the settings on disk.         *)
THEOREM AcceptsOnlyCurrentHolds == ASSUME NoFailure PROVE Spec => AcceptsOnlyCurrent
<1>1. ASSUME SafeInv, TruthInv, [Next]_vars, NEW p \in Proc,
             pc[p] = "decide", pc'[p] = "done", smbd # NoSmbd
      PROVE  RunsAs(loc[p])
  <2>1. TypeOK /\ Decide(p)
    BY <1>1, DecideIsDecide DEF SafeInv, TypeInv
  <2>2. TruthAt(p)
    BY <1>1 DEF TruthInv, Inside
  <2>. QED  BY <1>1, <2>1, <2>2, DecideAccepts DEF Fits
<1>2. SafeInv /\ TruthInv /\ [Next]_vars =>
        \A p \in Proc : pc[p] = "decide" /\ pc'[p] = "done" /\ smbd # NoSmbd
            => RunsAs(loc[p])
  BY <1>1
<1>. QED  BY <1>2, Safe, Truthful, PTL DEF Spec, AcceptsOnlyCurrent

-------------------------------------------------------------------------------
(* Kills, failed writes and halts that fail may leave anything behind.  What  *)
(* restart and save_restart do not rely on it: they halt first, and when they *)
(* are done everything is true again.                                         *)

Restarting(p) == op[p].cmd \in {"restart", "save_restart"}

On == smbd # NoSmbd => cfg["ENABLED"] = "1"

HealAt(p) ==
    /\ pc[p] \notin {"update", "fail"} => TruthAt(p)
    /\ pc[p] \in {"unflag", "key", "applied", "done"} => On

HealInv == \A p \in Proc : Inside(p) /\ Restarting(p) => HealAt(p)

LEMMA StepHeals ==
    ASSUME SafeInv, NEW p \in Proc, Step(p), Restarting(p), HealAt(p)
    PROVE  HealAt(p)'
<1>0. TypeOK /\ ProcInv(p) /\ op' = op
  BY StepInside DEF SafeInv, TypeInv
<1>1. CASE smbd' = NoSmbd
  BY <1>1, DownIsTrue DEF HealAt, On, TruthAt, Truth, Applied, Calm, Enabled, Fits
<1>2. CASE StartSteps(p) /\ smbd' # NoSmbd
  <2>1. pc[p] \notin {"update", "fail"} /\ TruthAt(p)
    BY <1>2
       DEF HealAt, StartSteps, Start, Defer, WriteConf, Launch, LaunchFails, Await,
           Enable, Unflag, WriteKey, WriteApplied
  <2>2. TruthAt(p)'
    BY <1>2, <2>1, StartStepsTruth
  <2>3. ASSUME pc'[p] \in {"unflag", "key", "applied", "done"} PROVE On'
    <3>1. CASE Enable(p)
      BY <1>0, <3>1
         DEF Enable, SaveEnabled, Set, On, TypeOK, Config, Key, Flag
    <3>2. CASE Unflag(p) \/ WriteKey(p) \/ WriteApplied(p)
      BY <3>2 DEF Unflag, WriteKey, WriteApplied, HealAt, On
    <3>3. ~Start(p) /\ ~Defer(p)
      BY <1>0, <1>2, <2>3
         DEF Start, Defer, SaveEnabled, ProcInv, ServerInv, Restarting, HaltThen, Ready,
             ReadyWith, TypeOK
    <3>4. ~WriteConf(p) /\ ~Launch(p) /\ ~LaunchFails(p) /\ ~Await(p)
      BY <1>0, <2>3 DEF WriteConf, Launch, LaunchFails, Await, Goto, HaltThen, TypeOK
    <3>. QED  BY <1>2, <3>1, <3>2, <3>3, <3>4 DEF StartSteps
  <2>. QED  BY <2>2, <2>3 DEF HealAt
<1>3. CASE StopSteps(p) /\ smbd' # NoSmbd
  <2>1. ~Save(p) /\ ~Forget(p) /\ ~Flags(p)
    BY <1>3
       DEF Save, SaveEnabled, Forget, Flags, HealAt, TruthAt, NoServer
  <2>2. pc'[p] = "fail"
    BY <1>0, <1>3, <2>1 DEF StopSteps, Halt, HaltFails, Goto, TypeOK
  <2>. QED  BY <2>2 DEF HealAt
<1>4. CASE ConfigSteps(p) /\ smbd' # NoSmbd
  <2>1. ~Pend(p) /\ ~PendSave(p) /\ ~Passwd(p) /\ ~Boot(p)
    BY <1>0, <1>4
       DEF Pend, PendSave, SaveEnabled, Passwd, Boot, ProcInv, ServerInv, Entitlement,
           Restarting
  <2>2. pc'[p] \in {"halt", "fail"}
    BY <1>0, <1>4, <2>1 DEF ConfigSteps, Update, Goto, HaltThen, Restarting, TypeOK
  <2>. QED  BY <2>2 DEF HealAt, TruthAt, NoServer, Starting
<1>5. ~ReadNetwork(p) /\ ~Decide(p)
  BY <1>0 DEF ReadNetwork, Decide, ProcInv, Entitlement, Restarting
<1>. QED  BY <1>1, <1>2, <1>3, <1>4, <1>5 DEF Step

(* A step that leaves a process where it is, and changes nothing that the     *)
(* files tell, heals and hurts nothing.                                       *)
LEMMA SameHeals ==
    ASSUME HealInv, NEW p \in Proc, Inside(p), Restarting(p),
           UNCHANGED <<cfg, applied, waiting, pending>>,
           pc'[p] = pc[p], loc'[p] = loc[p], op'[p] = op[p],
           smbd' = NoSmbd <=> smbd = NoSmbd, smbd # NoSmbd => smbd'.cfg = smbd.cfg
    PROVE  HealAt(p)'
<1>1. HealAt(p)
  BY DEF HealInv
<1>2. Truth' <=> Truth
  BY DEF Truth, Applied, Calm, Enabled, RunsAs
<1>. QED  BY <1>1, <1>2 DEF HealAt, On, TruthAt, Calm, Enabled, Fits, RunsAs

LEMMA HealInvNext == ASSUME SafeInv, HealInv, [Next]_vars PROVE HealInv'
<1>0. TypeOK /\ LockInv
  BY DEF SafeInv, TypeInv
<1>. SUFFICES ASSUME NEW p \in Proc, Inside(p)', Restarting(p)'
              PROVE  HealAt(p)'
  BY DEF HealInv
<1>1. CASE Requests
  <2>1. PICK q \in Proc, o \in Ops : Issue(q, o)
    <3>1. Watch \in Proc /\ Cmd \subseteq Proc /\ Reconcile \in Ops /\ Op \subseteq Ops
      BY DEF Proc, Ops
    <3>. QED  BY <1>1, <3>1, Zenon DEF Requests
  <2>2. pc'[p] = pc[p] /\ op'[p] = op[p] /\ Inside(p) /\ Restarting(p)
    BY <1>0, <2>1 DEF Issue, Goto, Inside, Restarting, TypeOK
  <2>. QED  BY <2>1, <2>2, SameHeals DEF Issue
<1>2. ASSUME NEW q \in Proc, Lock(q) \/ LoadFails(q) PROVE HealAt(p)'
  <2>1. q = p
    BY <1>0, <1>2, ProcAssumption
       DEF LockInv, Inside, Lock, LoadFails, Dispatch, Goto, HaltThen, TypeOK
  <2>2. pc'[p] \in {"halt", "update", "fail"}
    BY <1>0, <1>2, <2>1
       DEF Lock, LoadFails, Dispatch, Restarting, Goto, HaltThen, TypeOK
  <2>. QED  BY <2>2 DEF HealAt, TruthAt, NoServer, Starting
<1>3. ASSUME NEW q \in Proc, Step(q) PROVE HealAt(p)'
  <2>1. q = p /\ Inside(p) /\ Restarting(p)
    BY <1>3, StepInside DEF Inside, Restarting
  <2>. QED  BY <1>3, <2>1, StepHeals DEF HealInv
<1>4. ASSUME NEW q \in Proc, Return(q) \/ Kill(q) PROVE HealAt(p)'
  <2>1. p # q /\ Inside(p) /\ Restarting(p) /\ UNCHANGED <<pc[p], op[p], loc[p]>>
    BY <1>0, <1>4 DEF Return, Kill, Exit, Inside, Restarting, TypeOK
  <2>. QED  BY <1>4, <2>1, SameHeals DEF Return, Kill
<1>5. CASE Reboot
  BY <1>5 DEF Reboot, Inside
<1>6. CASE Crash
  <2>1. smbd' = NoSmbd
    BY <1>6 DEF Crash
  <2>. QED  BY <2>1 DEF HealAt, On, TruthAt, Truth, Applied, Calm, Enabled, Fits
<1>7. CASE LanChange \/ StorageChange
  <2>1. Inside(p) /\ Restarting(p)
    BY <1>7 DEF LanChange, StorageChange, Inside, Restarting
  <2>. QED  BY <1>7, <2>1, SameHeals DEF LanChange, StorageChange
<1>8. CASE Listen
  <2>1. smbd \in Server /\ smbd # NoSmbd /\ lan \subseteq Addr
    BY <1>0, <1>8 DEF Listen, TypeOK
  <2>2. smbd' \in Server /\ smbd'.cfg = smbd.cfg
    BY <1>8, <2>1 DEF Listen, Server
  <2>3. Inside(p) /\ Restarting(p) /\ smbd' # NoSmbd
    BY <1>8, <2>2, FileAssumption DEF Listen, Inside, Restarting
  <2>. QED  BY <1>8, <2>1, <2>2, <2>3, SameHeals DEF Listen
<1>9. CASE UNCHANGED vars
  <2>1. Inside(p) /\ Restarting(p)
    BY <1>9 DEF Inside, Restarting
  <2>. QED  BY <1>9, <2>1, SameHeals
<1>. QED  BY <1>1, <1>2, <1>3, <1>4, <1>5, <1>6, <1>7, <1>8, <1>9 DEF Next, Env

LEMMA Heals == Spec => []HealInv
<1>1. Init => HealInv
  BY DEF Init, HealInv, Inside
<1>2. SafeInv /\ HealInv /\ [Next]_vars => HealInv'
  BY HealInvNext
<1>. QED  BY <1>1, <1>2, Safe, PTL DEF Spec

(* When restart or save_restart is done the server has its settings, and      *)
(* every file tells so, whatever was killed or failed before it.              *)
THEOREM RestartAppliesHolds == Spec => []RestartApplies
<1>1. ASSUME SafeInv, HealInv PROVE RestartApplies
  <2>. SUFFICES ASSUME NEW p \in Proc, pc[p] = "done", Restarting(p), smbd # NoSmbd
                PROVE  /\ RunsAs(loc[p])
                       /\ applied # NoFile /\ RunsAs(applied)
                       /\ ~waiting /\ ~pending
                       /\ cfg["ENABLED"] = "1"
    BY DEF RestartApplies, Restarting
  <2>1. HealAt(p)
    BY <1>1 DEF HealInv, Inside
  <2>2. Truth /\ On
    BY <2>1 DEF HealAt, TruthAt, NoServer, Starting
  <2>3. RunsAs(loc[p])
    BY <1>1 DEF SafeInv, ProcInv, ServerInv, Restarting
  <2>4. TypeOK
    BY <1>1 DEF SafeInv, TypeInv
  <2>. QED  BY <2>2, <2>3, <2>4 DEF Truth, Applied, Calm, On, TypeOK
<1>. QED  BY <1>1, Safe, Heals, PTL

(* No server runs, or a restart has just done its work.                       *)
Healed == smbd = NoSmbd \/ \E p \in Proc : pc[p] = "done" /\ Restarting(p)

LEMMA HealedIsTrue == ASSUME SafeInv, HealInv, Healed PROVE TruthInv
<1>0. TypeOK /\ LockInv
  BY DEF SafeInv, TypeInv
<1>1. CASE smbd = NoSmbd
  BY <1>1, DownIsTrue DEF TruthInv
<1>2. ASSUME NEW p \in Proc, pc[p] = "done", Restarting(p) PROVE TruthInv
  <2>1. TruthAt(p) /\ lock = p /\ p # Free
    BY <1>0, <1>2, ProcAssumption DEF HealInv, HealAt, LockInv, Inside
  <2>2. \A q \in Proc : Inside(q) => q = p
    BY <1>0, <2>1 DEF LockInv
  <2>. QED  BY <1>2, <2>1, <2>2 DEF TruthInv, ReconcileAt, Restarting
<1>. QED  BY <1>1, <1>2 DEF Healed

(* From there on, for as long as nothing is killed and no halt leaves a       *)
(* server behind, the files tell the truth whenever the lock is free, and a   *)
(* reconcile that is done leaves no server but the one of its settings:       *)
(* damage does not outlive the next restart, crash or reboot.                 *)
THEOREM TruthReturns ==
    Spec => [](Healed /\ [][Smooth]_vars =>
                  [](/\ AppliedIsRunning
                     /\ WaitingIsDown
                     /\ EnabledIsKept => RunningIsEnabled
                     /\ \A p \in Proc : pc[p] = "done" /\ op[p].cmd = "reconcile" =>
                            smbd = NoSmbd \/ RunsAs(loc[p])))
<1>. DEFINE Good == /\ AppliedIsRunning
                    /\ WaitingIsDown
                    /\ EnabledIsKept => RunningIsEnabled
                    /\ \A p \in Proc : pc[p] = "done" /\ op[p].cmd = "reconcile" =>
                           smbd = NoSmbd \/ RunsAs(loc[p])
<1>1. SafeInv /\ HealInv /\ Healed => TruthInv
  BY HealedIsTrue
<1>2. SafeInv /\ TruthInv /\ [Smooth]_vars => TruthInv'
  BY TruthInvNext
<1>3. TruthInv => Good
  <2>1. TruthInv => AppliedIsRunning /\ WaitingIsDown
    BY DEF TruthInv, Truth, Applied, Calm, AppliedIsRunning, WaitingIsDown
  <2>2. TruthInv => (EnabledIsKept => RunningIsEnabled)
    BY DEF TruthInv, Truth, Enabled, RunningIsEnabled
  <2>3. TruthInv => \A p \in Proc : pc[p] = "done" /\ op[p].cmd = "reconcile" =>
                        smbd = NoSmbd \/ RunsAs(loc[p])
    BY DEF TruthInv, ReconcileAt, Fits, Inside
  <2>. QED  BY <2>1, <2>2, <2>3
<1>. HIDE DEF Good
<1>4. Spec => [](Healed /\ [][Smooth]_vars => []Good)
  BY <1>1, <1>2, <1>3, Safe, Heals, PTL
<1>. QED  BY <1>4 DEF Good

===============================================================================
