----------------------------- MODULE ServingProofs -----------------------------
(* While nobody is killed and no halt fails, a reconcile that the watcher     *)
(* owes leads to the server that is asked for: each one that it runs for an   *)
(* up-to-date snapshot either ends with that server or fails, a failure sets  *)
(* the timer again, and the fourth is the last.                               *)
EXTENDS WatcherProofs

USE DEF vars, files, device, locals, loop, wvars

(* The watcher still has something to bring about.                            *)
Trying == /\ Wanted /\ UpToDate /\ ~Served
          /\ ~broken /\ wpc # "off" /\ failures # MaxFailures

(* Its process runs nothing but reconcile.                                    *)
Reconciling == pc[Watch] # "idle" => op[Watch].cmd = "reconcile"

ServeInv == RestInv /\ TruthInv /\ Reconciling

LEMMA ReconcilingNext == ASSUME SafeInv, Reconciling, [Next]_vars PROVE Reconciling'
<1>. USE DEF Reconciling
<1>0. TypeOK /\ Watch \in Proc
  BY DEF SafeInv, TypeInv, Proc
<1>1. CASE Requests
  <2>1. CASE Issue(Watch, Reconcile)
    BY <1>0, <2>1 DEF Issue, Reconcile, TypeOK
  <2>2. ASSUME NEW p \in Cmd, NEW o \in Op, Issue(p, o) PROVE Reconciling'
    BY <1>0, <2>2, WatchElse DEF Issue, Goto, TypeOK
  <2>. QED  BY <1>1, <2>1, <2>2 DEF Requests
<1>2. ASSUME NEW p \in Proc, Lock(p) \/ LoadFails(p) PROVE Reconciling'
  BY <1>0, <1>2 DEF Lock, LoadFails, Dispatch, Goto, HaltThen, TypeOK
<1>3. ASSUME NEW p \in Proc, Step(p) PROVE Reconciling'
  BY <1>0, <1>3, StepInside DEF Inside
<1>4. ASSUME NEW p \in Proc, Return(p) \/ Kill(p) PROVE Reconciling'
  BY <1>0, <1>4 DEF Return, Kill, Exit, TypeOK
<1>5. CASE Env
  BY <1>0, <1>5 DEF Env, LanChange, StorageChange, Listen, Crash, Reboot
<1>6. CASE UNCHANGED vars
  BY <1>6
<1>. QED  BY <1>1, <1>2, <1>3, <1>4, <1>5, <1>6 DEF Next

LEMMA ServeSafe == ASSUME NoFailure PROVE WSpec => []ServeInv
<1>1. WSpec => Spec
  BY ControlSpecHolds, PTL DEF ControlSpec, Spec
<1>2. Init => Reconciling
  BY DEF Init, Reconciling, Proc
<1>3. SafeInv /\ Reconciling /\ [Next]_vars => Reconciling'
  BY ReconcilingNext
<1>4. Spec => []Reconciling
  BY <1>2, <1>3, Safe, PTL DEF Spec
<1>5. Spec => []TruthInv
  BY Truthful
<1>. QED  BY <1>1, <1>4, <1>5, RestSafe, PTL DEF ServeInv

-------------------------------------------------------------------------------
(* One reconcile.  While it tries it is on its way to a launch or to a        *)
(* failure: it could only be done with the server that is asked for.          *)
Trial == {"lock", "reconcile", "decide", "start", "conf", "launch", "await", "fail"}

OnTrack == wpc = "reconcile" => /\ AtOrTo(Watch, Trial)
                                /\ pc[Watch] = "decide" => seen[Watch] = lan

(* What it works with is what it was begun for.                               *)
LEMMA TryingLoads ==
    ASSUME ServeInv, Trying, Inside(Watch), pc[Watch] # "fail"
    PROVE  /\ loc[Watch] = cfg /\ lan # {} /\ storage = "ready"
           /\ cfg["ENABLED"] = "1" /\ ~NeedsPassword(cfg)
           /\ RunsAs(loc[Watch]) => ~Ready(loc[Watch])
           /\ TruthAt(Watch) /\ ReconcileAt(Watch)
<1>1. Watch \in Proc
  BY DEF Proc
<1>2. loc[Watch] = cfg
  BY <1>1 DEF ServeInv, RestInv, SafeInv, ProcInv, Fresh
<1>3. Interfaces(cfg, lan) \subseteq lan
  BY InterfacesSubset
<1>. QED  BY <1>1, <1>2, <1>3 DEF ServeInv, TruthInv, Trying, Wanted, Served

LEMMA StepTries ==
    ASSUME ServeInv, Trying, wpc = "reconcile", OnTrack, Step(Watch), lan' = lan
    PROVE  AtOrTo(Watch, Trial)' /\ (pc'[Watch] = "decide" => seen'[Watch] = lan)
<1>0. TypeOK /\ Watch \in Proc
  BY DEF ServeInv, RestInv, SafeInv, TypeInv, Proc
<1>1. Inside(Watch) /\ pc[Watch] \notin {"fail", "done"}
  BY <1>0, StepInside DEF ServeInv, RestInv
<1>2. /\ loc[Watch] = cfg /\ lan # {} /\ storage = "ready"
      /\ cfg["ENABLED"] = "1" /\ ~NeedsPassword(cfg)
      /\ RunsAs(loc[Watch]) => ~Ready(loc[Watch])
      /\ TruthAt(Watch) /\ ReconcileAt(Watch) /\ op[Watch].cmd = "reconcile"
  BY <1>1, TryingLoads DEF ServeInv, Reconciling, Inside
<1>. USE DEF AtOrTo, Trial, Goto, HaltThen
<1>3. CASE pc[Watch] = "reconcile"
  <2>1. ReadNetwork(Watch)
    BY <1>3 DEF Step, StartSteps, StopSteps, ConfigSteps, Start, Defer, WriteConf, Launch,
       LaunchFails, Await, Enable, Unflag, WriteKey, WriteApplied, Halt, HaltFails, Save,
       Forget, Flags, Update, Pend, PendSave, Passwd, Boot, Decide
  <2>. QED  BY <1>0, <2>1 DEF ReadNetwork, TypeOK
<1>4. CASE pc[Watch] = "decide"
  <2>1. Decide(Watch)
    BY <1>4 DEF Step, StartSteps, StopSteps, ConfigSteps, Start, Defer, WriteConf, Launch,
       LaunchFails, Await, Enable, Unflag, WriteKey, WriteApplied, Halt, HaltFails, Save,
       Forget, Flags, Update, Pend, PendSave, Passwd, Boot, ReadNetwork
  <2>2. seen[Watch] = lan
    BY <1>4 DEF OnTrack
  <2>3. IF Outdated(Watch) THEN HaltThen(Watch, "start") ELSE Goto(Watch, "done")
    <3>1. /\ loc[Watch]["ENABLED"] = "1" /\ ~NeedsPassword(loc[Watch])
          /\ storage = "ready" /\ seen[Watch] # {}
      BY <1>2, <2>2
    <3>. QED  BY <2>1, <3>1, Zenon DEF Decide
  <2>4. Outdated(Watch)
    <3>. SUFFICES ASSUME Goto(Watch, "done"), ~Outdated(Watch) PROVE FALSE
      BY <2>3
    <3>1. pc'[Watch] = "done"
      BY <1>0 DEF TypeOK
    <3>2. Fits(Watch)
      BY <1>0, <1>2, <2>1, <3>1, DecideAccepts DEF ServeInv, RestInv
    <3>3. Ready(loc[Watch])
      BY DEF Outdated
    <3>. QED  BY <1>2, <3>2, <3>3 DEF Fits, Ready, ReadyWith
  <2>. QED  BY <1>0, <2>3, <2>4 DEF TypeOK
<1>5. CASE pc[Watch] = "start"
  <2>1. Start(Watch)
    BY <1>5 DEF Step, StartSteps, StopSteps, ConfigSteps, Defer, WriteConf, Launch,
       LaunchFails, Await, Enable, Unflag, WriteKey, WriteApplied, Halt, HaltFails, Save,
       Forget, Flags, Update, Pend, PendSave, Passwd, Boot, ReadNetwork, Decide
  <2>2. ~Ready(loc[Watch])
    BY <1>2, <1>5 DEF ReconcileAt, Ready, ReadyWith
  <2>3. HaltThen(Watch, "conf")
    BY <1>2, <2>1, <2>2 DEF Start
  <2>. QED  BY <1>0, <2>3 DEF TypeOK
<1>6. CASE pc[Watch] \in {"conf", "launch"}
  <2>1. WriteConf(Watch) \/ Launch(Watch) \/ LaunchFails(Watch)
    BY <1>6 DEF Step, StartSteps, StopSteps, ConfigSteps, Start, Defer, Await, Enable, Unflag,
       WriteKey, WriteApplied, Halt, HaltFails, Save, Forget, Flags, Update, Pend, PendSave,
       Passwd, Boot, ReadNetwork, Decide
  <2>. QED  BY <1>0, <2>1 DEF WriteConf, Launch, LaunchFails, TypeOK
<1>7. CASE pc[Watch] = "await"
  <2>1. Await(Watch)
    BY <1>7 DEF Step, StartSteps, StopSteps, ConfigSteps, Start, Defer, WriteConf, Launch,
       LaunchFails, Enable, Unflag, WriteKey, WriteApplied, Halt, HaltFails, Save,
       Forget, Flags, Update, Pend, PendSave, Passwd, Boot, ReadNetwork, Decide
  <2>2. ~Ready(loc[Watch])
    BY <1>2, <1>7 DEF TruthAt, Starting, Fits, Ready, ReadyWith
  <2>3. HaltThen(Watch, "fail")
    BY <2>1, <2>2 DEF Await
  <2>. QED  BY <1>0, <2>3 DEF TypeOK
<1>8. CASE pc[Watch] = "halt"
  <2>1. Halt(Watch) \/ HaltFails(Watch)
    BY <1>8 DEF Step, StartSteps, StopSteps, ConfigSteps, Start, Defer, WriteConf, Launch,
       LaunchFails, Await, Enable, Unflag, WriteKey, WriteApplied, Save, Forget, Flags,
       Update, Pend, PendSave, Passwd, Boot, ReadNetwork, Decide
  <2>2. ret[Watch] \in Trial \ {"lock", "reconcile", "decide"}
    BY <1>0, <1>8 DEF OnTrack, TypeOK, Continuation
  <2>. QED  BY <1>0, <2>1, <2>2 DEF Halt, HaltFails, TypeOK
<1>. QED  BY <1>1, <1>3, <1>4, <1>5, <1>6, <1>7, <1>8 DEF OnTrack, Inside

(* Everybody else leaves it where it is.                                      *)
LEMMA OthersElse ==
    ASSUME SafeInv, Others
    PROVE  \/ Lock(Watch) \/ LoadFails(Watch) \/ Step(Watch)
           \/ /\ pc'[Watch] = pc[Watch]
              /\ Inside(Watch) => UNCHANGED <<ret[Watch], seen[Watch]>>
<1>0. TypeOK /\ Watch \in Proc
  BY DEF SafeInv, TypeInv, Proc
<1>1. ASSUME NEW p \in Cmd, (\E o \in Op : Issue(p, o)) \/ Return(p) \/ Kill(p)
      PROVE  UNCHANGED <<pc[Watch], ret[Watch], seen[Watch]>>
  BY <1>0, <1>1, WatchElse DEF Issue, Goto, Return, Kill, Exit, TypeOK
<1>2. ASSUME NEW p \in Proc \ {Watch}, Lock(p) \/ LoadFails(p)
      PROVE  UNCHANGED <<pc[Watch], ret[Watch], seen[Watch]>>
  BY <1>0, <1>2 DEF Lock, LoadFails, Dispatch, Goto, HaltThen, TypeOK
<1>3. ASSUME NEW p \in Proc \ {Watch}, Step(p)
      PROVE  pc'[Watch] = pc[Watch] /\ pc[Watch] \in {"idle", "lock"}
  BY <1>0, <1>3, StepInside
<1>4. CASE LanChange \/ Unlocking \/ Listen \/ Crash
  BY <1>4 DEF LanChange, Unlocking, StorageChange, Listen, Crash
<1>5. CASE \E p \in Proc : (IF broken THEN LoadFails(p) ELSE Lock(p)) \/ Step(p)
  <2>1. PICK p \in Proc : Lock(p) \/ LoadFails(p) \/ Step(p)
    BY <1>5
  <2>. QED  BY <1>2, <1>3, <2>1 DEF Inside
<1>. QED  BY <1>1, <1>4, <1>5 DEF Others

(* The present stays what it was when the snapshot is still true after a step *)
(* that takes no other.                                                       *)
LEMMA UpToDateStays ==
    ASSUME UpToDate, UpToDate', wpc = "reconcile", wpc' = "reconcile", now' = now
    PROVE  UNCHANGED <<cfg, lan>>
BY DEF UpToDate, Snapshot

LEMMA OnTrackNext ==
    ASSUME ServeInv, Trying, Trying', OnTrack, [WNext]_wvars
    PROVE  OnTrack'
<1>0. TypeOK /\ Watch \in Proc /\ InReconcile
  BY DEF ServeInv, RestInv, SafeInv, TypeInv, Proc
<1>. SUFFICES ASSUME wpc' = "reconcile"
              PROVE  AtOrTo(Watch, Trial)' /\ (pc'[Watch] = "decide" => seen'[Watch] = lan')
  BY DEF OnTrack
<1>. USE DEF AtOrTo, Trial
<1>1. CASE Others
  <2>1. wpc = "reconcile" /\ lan' = lan
    BY <1>1, UpToDateStays DEF Others, Trying
  <2>2. CASE Lock(Watch) \/ LoadFails(Watch)
    <3>1. op[Watch].cmd = "reconcile"
      BY <2>2 DEF ServeInv, Reconciling, Lock, LoadFails
    <3>. QED  BY <1>0, <2>2, <3>1 DEF Lock, LoadFails, Dispatch, Goto, HaltThen, TypeOK
  <2>3. CASE Step(Watch)
    BY <2>1, <2>3, StepTries
  <2>4. CASE /\ pc'[Watch] = pc[Watch]
             /\ Inside(Watch) => UNCHANGED <<ret[Watch], seen[Watch]>>
    BY <1>0, <2>1, <2>4 DEF OnTrack, Inside, InReconcile
  <2>. QED  BY <1>1, <2>2, <2>3, <2>4, OthersElse DEF ServeInv, RestInv
<1>2. CASE TakeSnapshot
  BY <1>0, <1>2 DEF TakeSnapshot, Issue, Goto, TypeOK
<1>3. CASE \/ ReconcileEnds \/ SnapshotFails \/ ReadChildren \/ ArmStorage \/ RecheckStorage
           \/ Wake \/ WindowEnds
  <2>1. wpc' # "reconcile"
    BY <1>3 DEF ReconcileEnds, SnapshotFails, ReadChildren, ArmStorage, RecheckStorage, Wake,
       WindowEnds
  <2>. QED  BY <2>1
<1>4. CASE EndWatch \/ DeviceReboots \/ StartWatch
  BY <1>4 DEF EndWatch, DeviceReboots, StartWatch, ForgetLoop
<1>5. CASE Edit
  BY <1>5 DEF Edit, Trying
<1>6. CASE RetryDue \/ UNCHANGED wvars
  BY <1>6 DEF RetryDue, OnTrack
<1>. QED  BY <1>1, <1>2, <1>3, <1>4, <1>5, <1>6 DEF WNext, Round

-------------------------------------------------------------------------------
(* One reconcile after the other: each ends with an error that is retried.    *)
Underway == OnTrack /\ (At("reconcile") \/ Owes)

LEMMA TryFails ==
    ASSUME ServeInv, Trying, Trying', OnTrack, ReconcileEnds
    PROVE  failures \in 0..2 /\ failures' = failures + 1 /\ retry' = "armed"
<1>1. pc[Watch] = "fail"
  BY DEF ReconcileEnds, Return, OnTrack, AtOrTo, Trial
<1>2. failures \in 0..3 /\ failures' = Least(failures + 1, MaxFailures)
  BY <1>1 DEF ReconcileEnds, Trying, ServeInv, RestInv, LoopInv, WTypeOK, MaxFailures
<1>3. failures' = failures + 1 /\ failures' # 4
  BY <1>2 DEF Least, MaxFailures, Trying
<1>4. retry' = IF failures' \in 1..3 THEN "armed" ELSE "none"
  BY DEF ReconcileEnds
<1>. QED  BY <1>2, <1>3, <1>4

(* A step out of reconcile is its end; no other step forgets a failure.       *)
LEMMA TryStep ==
    ASSUME ServeInv, Trying, Trying', [WNext]_wvars, ~ReconcileEnds
    PROVE  failures' = failures /\ (At("reconcile") => At("reconcile")')
<1>. USE DEF At
<1>1. CASE TakeSnapshot
  <2>1. wpc = "top" /\ Snapshot = sig
    BY <1>1 DEF TakeSnapshot, Trying, UpToDate
  <2>. QED  BY <1>1, <2>1 DEF TakeSnapshot
<1>2. CASE Others
  BY <1>2 DEF Others
<1>3. CASE \/ SnapshotFails \/ ReadChildren \/ ArmStorage \/ RecheckStorage \/ Wake
           \/ WindowEnds
  BY <1>3 DEF SnapshotFails, ReadChildren, ArmStorage, RecheckStorage, Wake, WindowEnds
<1>4. CASE EndWatch \/ DeviceReboots
  BY <1>4 DEF EndWatch, DeviceReboots, ForgetLoop, Trying
<1>5. CASE Edit \/ StartWatch \/ RetryDue \/ UNCHANGED wvars
  BY <1>5 DEF Edit, StartWatch, RetryDue, Trying
<1>. QED  BY <1>1, <1>2, <1>3, <1>4, <1>5 DEF WNext, Round

LEMMA UnderwayNext ==
    ASSUME ServeInv, Trying, Trying', Underway, [WNext]_wvars
    PROVE  Underway'
<1>1. OnTrack'
  BY OnTrackNext DEF Underway
<1>. SUFFICES ASSUME ~At("reconcile")' PROVE Owes'
  BY <1>1 DEF Underway
<1>2. CASE ReconcileEnds
  BY <1>2, TryFails DEF Underway, Owes
<1>3. CASE ~ReconcileEnds
  <2>1. ~At("reconcile") /\ Owes
    BY <1>3, TryStep DEF Underway
  <2>2. Due /\ Due'
    BY <2>1 DEF Due, At, Trying
  <2>. QED  BY <2>1, <2>2, OwesKept DEF ServeInv, RestInv
<1>. QED  BY <1>2, <1>3

LEMMA TryCounts ==
    ASSUME ServeInv, Trying, Trying', Underway, [WNext]_wvars
    PROVE  /\ ReconcileEnds => /\ ~AtLeast(3) /\ AtLeast(1)'
                               /\ AtLeast(1) => AtLeast(2)'
                               /\ AtLeast(2) => AtLeast(3)'
           /\ AtLeast(1) => AtLeast(1)'
           /\ AtLeast(2) => AtLeast(2)'
           /\ AtLeast(3) => AtLeast(3)'
           /\ At("reconcile") => At("reconcile")' \/ ReconcileEnds
<1>. USE DEF AtLeast
<1>1. CASE ReconcileEnds
  BY <1>1, TryFails DEF Underway
<1>2. CASE ~ReconcileEnds
  BY <1>2, TryStep
<1>. QED  BY <1>1, <1>2

(* While nobody is killed and every halt succeeds, a reconcile that is owed   *)
(* leads to the server that is asked for, on every set of addresses, unless   *)
(* it has failed four times, or its snapshot, the wish, the file or the       *)
(* watcher is gone.                                                           *)
THEOREM ConvergesHolds ==
    ASSUME NoFailure
    PROVE  WSpec /\ LoopRuns /\ TimerRuns /\ HolderRuns /\ Granted(Watch) => Converges
<1>. DEFINE Ends == Served \/ ~UpToDate \/ ~Wanted
                    \/ broken \/ wpc = "off" \/ failures = MaxFailures
            Begun == Owed /\ UpToDate /\ Wanted
            Fair == WSpec /\ LoopRuns /\ TimerRuns /\ HolderRuns /\ Granted(Watch)
<1>1. WSpec => []ServeInv
  BY ServeSafe
<1>2. ServeInv /\ Begun => Underway
  BY DEF Owed, Underway, OnTrack, AtOrTo, Trial, At, Owes, Kids, ServeInv, RestInv, LoopInv,
         WTypeOK
<1>3. ~Ends => Trying
  BY DEF Trying
<1>4. ServeInv /\ Trying /\ Trying' /\ Underway /\ [WNext]_wvars =>
          /\ Underway'
          /\ ReconcileEnds => /\ ~AtLeast(3) /\ AtLeast(1)'
                              /\ AtLeast(1) => AtLeast(2)'
                              /\ AtLeast(2) => AtLeast(3)'
          /\ AtLeast(1) => AtLeast(1)'
          /\ AtLeast(2) => AtLeast(2)'
          /\ AtLeast(3) => AtLeast(3)'
          /\ At("reconcile") => At("reconcile")' \/ <<ReconcileEnds>>_wvars
  <2>1. ReconcileEnds => wpc' # wpc
    BY DEF ReconcileEnds
  <2>. QED  BY <2>1, UnderwayNext, TryCounts
<1>5. Fair => [](Owes => <>Arrived)
  BY OwedIsDone
<1>6. Trying /\ Arrived => At("reconcile")
  BY DEF Trying, Arrived, At
<1>7. Underway => At("reconcile") \/ Owes
  BY DEF Underway
<1>8. Fair => []<>~At("reconcile")
  BY ReconcileReturns
<1>. DEFINE Tries == Fair /\ <>[]Trying /\ <>[]Underway
<1>9. Tries => []<>At("reconcile")
  BY <1>5, <1>6, <1>7, PTL
<1>10. Tries => []<><<ReconcileEnds>>_wvars
  BY <1>1, <1>4, <1>8, <1>9, PTL DEF WSpec
<1>11. Tries => <>[]AtLeast(1)
  BY <1>1, <1>4, <1>10, PTL DEF WSpec
<1>12. Tries => <>[]AtLeast(2)
  BY <1>1, <1>4, <1>10, <1>11, PTL DEF WSpec
<1>13. Tries => <>[]AtLeast(3)
  BY <1>1, <1>4, <1>10, <1>12, PTL DEF WSpec
<1>14. ~Tries
  BY <1>1, <1>4, <1>10, <1>13, PTL DEF WSpec
<1>15. WSpec => [](Begun /\ []~Ends => []Underway)
  BY <1>1, <1>2, <1>3, <1>4, PTL DEF WSpec
<1>16. Fair => [](Begun => <>Ends)
  BY <1>3, <1>14, <1>15, PTL
<1>. QED  BY <1>16, PTL DEF Converges
=============================================================================
