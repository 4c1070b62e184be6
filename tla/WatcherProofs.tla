----------------------------- MODULE WatcherProofs -----------------------------
(* Theorems about Watcher, for every instance of SmbControl: the loop is an   *)
(* implementation of the critical sections, sleeps through no change of the   *)
(* configuration or the LAN, answers failures and crashes, and comes to rest. *)
EXTENDS Watcher, TruthProofs

USE DEF vars, files, device, locals, loop, wvars

-------------------------------------------------------------------------------
(* Refinement: a step of the system with the loop is one of SmbControl, or    *)
(* one that only the loop sees.                                               *)

LEMMA OthersStep == ASSUME Others PROVE Next
<1>1. Cmd \subseteq Proc
  BY DEF Proc
<1>2. CASE \E p \in Cmd : \E o \in Op : Issue(p, o)
  BY <1>2, Zenon DEF Next, Requests
<1>3. CASE \E p \in Cmd : Return(p) \/ Kill(p)
  BY <1>1, <1>3, Zenon DEF Next
<1>4. CASE \E p \in Proc : (IF broken THEN LoadFails(p) ELSE Lock(p)) \/ Step(p)
  <2>1. \E p \in Proc : LoadFails(p) \/ Lock(p) \/ Step(p)
    BY <1>4
  <2>. QED  BY <2>1, Zenon DEF Next
<1>5. CASE LanChange \/ Unlocking \/ Listen \/ Crash
  BY <1>5, Zenon DEF Next, Env, Unlocking
<1>. QED  BY <1>2, <1>3, <1>4, <1>5, Zenon DEF Others

LEMMA RoundStep == ASSUME Round PROVE [Next]_vars
<1>0. Watch \in Proc
  BY DEF Proc
<1>1. CASE TakeSnapshot
  <2>1. Issue(Watch, Reconcile) \/ UNCHANGED vars
    BY <1>1 DEF TakeSnapshot
  <2>. QED  BY <2>1, Zenon DEF Next, Requests
<1>2. CASE ReconcileEnds
  <2>1. Return(Watch)
    BY <1>2 DEF ReconcileEnds
  <2>. QED  BY <1>0, <2>1, Zenon DEF Next
<1>3. CASE \/ SnapshotFails \/ ReadChildren \/ ArmStorage \/ RecheckStorage \/ Wake
           \/ WindowEnds
  BY <1>3 DEF SnapshotFails, ReadChildren, ArmStorage, RecheckStorage, Wake, WindowEnds
<1>. QED  BY <1>1, <1>2, <1>3 DEF Round

LEMMA ControlStep == ASSUME [WNext]_wvars PROVE [Next]_vars
<1>0. Watch \in Proc
  BY DEF Proc
<1>1. CASE Others
  BY <1>1, OthersStep
<1>2. CASE Round
  BY <1>2, RoundStep
<1>3. CASE EndWatch
  <2>1. Kill(Watch) \/ UNCHANGED vars
    BY <1>3 DEF EndWatch
  <2>. QED  BY <1>0, <2>1, Zenon DEF Next
<1>4. CASE DeviceReboots
  BY <1>4, Zenon DEF DeviceReboots, Next, Env
<1>5. CASE Edit \/ StartWatch \/ RetryDue \/ UNCHANGED wvars
  BY <1>5 DEF Edit, StartWatch, RetryDue
<1>. QED  BY <1>1, <1>2, <1>3, <1>4, <1>5 DEF WNext

(* The loop takes no step outside the critical sections.                      *)
THEOREM ControlSpecHolds == WSpec => ControlSpec
<1>1. WInit => Init
  BY DEF WInit
<1>2. [WNext]_wvars => [Next]_vars
  BY ControlStep
<1>. QED  BY <1>1, <1>2, PTL DEF WSpec, ControlSpec

(* So what is proved of the critical sections holds with the loop around them.*)
LEMMA WatchedSafe == WSpec => []SafeInv
BY ControlSpecHolds, Safe, PTL DEF ControlSpec, Spec

(* For instance that smbd is launched only where none runs, whatever becomes  *)
(* of the watcher between two of its own steps.                               *)
THEOREM WatchedMaster == WSpec => []OneMaster
BY ControlSpecHolds, OneMasterHolds, PTL DEF ControlSpec, Spec

(* And everything else that holds of the commands, whatever fails: nothing    *)
(* but the lock keeps reconcile and the commands from each other.             *)
THEOREM Watched ==
    WSpec => /\ []AuthGuard /\ []RestartApplies
             /\ StopSticks /\ LaunchFromDisk /\ KeysKept /\ KeepsContract
             /\ [](Off /\ []OnlyHarmless => []Off)
<1>1. WSpec => Spec
  BY ControlSpecHolds, PTL DEF ControlSpec, Spec
<1>2. WSpec => []AuthGuard /\ []RestartApplies
  BY <1>1, AuthGuardHolds, RestartAppliesHolds, PTL
<1>3. WSpec => StopSticks /\ LaunchFromDisk /\ KeysKept
  BY <1>1, StopSticksHolds, LaunchFromDiskHolds, KeysKeptHolds
<1>4. WSpec => KeepsContract
  BY <1>1, KeepsContractHolds
<1>5. WSpec => [](Off /\ []OnlyHarmless => []Off)
  BY <1>1, StopLasts, PTL
<1>. QED  BY <1>2, <1>3, <1>4, <1>5

(* While nothing is killed and every halt succeeds, also the files that the   *)
(* loop's reconcile trusts.                                                   *)
THEOREM WatchedTruth ==
    ASSUME NoFailure
    PROVE  WSpec => []AppliedIsRunning /\ []WaitingIsDown /\ AcceptsOnlyCurrent
<1>1. WSpec => Spec
  BY ControlSpecHolds, PTL DEF ControlSpec, Spec
<1>2. WSpec => []AppliedIsRunning /\ []WaitingIsDown
  BY <1>1, AppliedIsRunningHolds, WaitingIsDownHolds, PTL
<1>3. WSpec => AcceptsOnlyCurrent
  BY <1>1, AcceptsOnlyCurrentHolds
<1>. QED  BY <1>2, <1>3

-------------------------------------------------------------------------------
(* Type correctness. *)

LEMMA SnapshotType == ASSUME TypeOK PROVE Snapshot \in Snapshots
BY DEF TypeOK, Snapshot, Snapshots

LEMMA NoticeType ==
    ASSUME WTypeOK, Notice
    PROVE  ev' \subseteq Source /\ children' \in {"none", "live", "dead"}
BY DEF WTypeOK, Notice, Raised

LEMMA ForgetLoopType == ASSUME WTypeOK, ForgetLoop PROVE WTypeOK'
<1>1. failures' \in 0..MaxFailures /\ crashes' \in 0..MaxCrashes
  BY DEF ForgetLoop, MaxFailures, MaxCrashes
<1>. QED  BY <1>1, Zenon DEF WTypeOK, ForgetLoop

LEMMA RoundType == ASSUME TypeOK, WTypeOK, Round PROVE WTypeOK'
<1>. USE DEF WTypeOK, MaxFailures, MaxCrashes, Least
<1>1. CASE TakeSnapshot
  BY <1>1, SnapshotType DEF TakeSnapshot
<1>2. CASE ReconcileEnds
  BY <1>2 DEF ReconcileEnds
<1>3. CASE SnapshotFails \/ ReadChildren \/ ArmStorage \/ WindowEnds
  BY <1>3 DEF SnapshotFails, ReadChildren, ArmStorage, WindowEnds
<1>4. CASE RecheckStorage
  BY <1>4 DEF RecheckStorage
<1>5. CASE Wake
  <2>1. crashes' \in 0..4
    <3>1. CASE children = "dead"
      BY <1>5, <3>1 DEF Wake
    <3>2. CASE children # "dead"
      BY <1>5, <3>2 DEF Wake
    <3>. QED  BY <3>1, <3>2
  <2>2. /\ retry' \in {"none", "armed", "due"}
        /\ children' \in {"none", "live", "dead"}
        /\ wpc' \in {"top", "window"}
    BY <1>5 DEF Wake
  <2>3. force' \in BOOLEAN
    <3>1. CASE children = "dead"
      BY <1>5, <3>1 DEF Wake
    <3>2. CASE children # "dead"
      BY <1>5, <3>2, Zenon DEF Wake
    <3>. QED  BY <3>1, <3>2
  <2>4. ev' = {} /\ armed' = FALSE /\ UNCHANGED <<sig, now, failures, broken>>
    BY <1>5 DEF Wake
  <2>. QED  BY <2>1, <2>2, <2>3, <2>4
<1>. QED  BY <1>1, <1>2, <1>3, <1>4, <1>5 DEF Round

LEMMA WTypeNext == ASSUME TypeOK, WTypeOK, [WNext]_wvars PROVE WTypeOK'
<1>1. CASE Others
  BY <1>1, NoticeType DEF Others, WTypeOK
<1>2. CASE Round
  BY <1>2, RoundType
<1>3. CASE EndWatch \/ DeviceReboots
  BY <1>3, ForgetLoopType DEF EndWatch, DeviceReboots
<1>4. CASE Edit
  <2>1. ev' \subseteq Source
    BY <1>4 DEF Edit, WTypeOK, Source
  <2>. QED  BY <1>4, <2>1, Zenon DEF Edit, WTypeOK
<1>5. CASE StartWatch
  <2>1. ev' \subseteq Source
    BY <1>5 DEF StartWatch, Source
  <2>. QED  BY <1>5, <2>1, Zenon DEF StartWatch, WTypeOK
<1>6. CASE RetryDue
  BY <1>6, Zenon DEF RetryDue, WTypeOK
<1>7. CASE UNCHANGED wvars
  BY <1>7, Zenon DEF WTypeOK
<1>. QED  BY <1>1, <1>2, <1>3, <1>4, <1>5, <1>6, <1>7 DEF WNext

(* Every variable of the loop keeps its type.                                 *)
THEOREM WTypeCorrect == WSpec => []WTypeOK
<1>1. ASSUME WInit PROVE WTypeOK
  <2>1. failures \in 0..MaxFailures /\ crashes \in 0..MaxCrashes
    BY <1>1 DEF WInit, MaxFailures, MaxCrashes
  <2>. QED  BY <1>1, <2>1, Zenon DEF WInit, WTypeOK
<1>2. SafeInv /\ WTypeOK /\ [WNext]_wvars => WTypeOK'
  BY WTypeNext DEF SafeInv, TypeInv
<1>. QED  BY <1>1, <1>2, WatchedSafe, PTL DEF WSpec

-------------------------------------------------------------------------------
(* No change is slept through.  What the loop goes to sleep on is the present *)
(* configuration and network, or a source that wakes it is readable, or the   *)
(* file does not parse, which the correction of it will report.               *)

Current(s) == s \in Snapshots /\ s.cfg = cfg /\ s.net = lan

Informed(s) == Current(s) \/ ev \cap Coalesced # {} \/ broken

Sleeping == {"children", "arm", "recheck", "poll"}

InformedInv == /\ wpc \in Sleeping => Informed(sig)
               /\ wpc = "reconcile" => Informed(now)

(* A step of the rest of the system that changes what a snapshot is about     *)
(* makes a source readable.                                                   *)
LEMMA NoticeInforms ==
    ASSUME Notice, UNCHANGED broken, wpc # "off", NEW s, Informed(s)
    PROVE  Informed(s)'
<1>1. ev' = ev \cup Raised
  BY DEF Notice
<1>2. CASE cfg' # cfg \/ lan' # lan
  <2>1. Raised \cap Coalesced # {}
    BY <1>2 DEF Raised, Source, Coalesced
  <2>. QED  BY <1>1, <2>1 DEF Informed
<1>3. CASE UNCHANGED <<cfg, lan>>
  BY <1>1, <1>3 DEF Informed, Current
<1>. QED  BY <1>2, <1>3

LEMMA RoundInforms == ASSUME TypeOK, InformedInv, Round PROVE InformedInv'
<1>. USE DEF InformedInv, Sleeping
<1>1. CASE TakeSnapshot
  <2>1. Current(Snapshot)
    BY SnapshotType DEF Current, Snapshot
  <2>2. \/ wpc' = "reconcile" /\ now' = Snapshot
        \/ wpc' = "arm" /\ sig' = Snapshot
    BY <1>1 DEF TakeSnapshot
  <2>3. UNCHANGED <<cfg, lan>>
    BY <1>1 DEF TakeSnapshot, Issue
  <2>. QED  BY <2>1, <2>2, <2>3 DEF Informed, Current
<1>2. CASE ReconcileEnds
  <2>1. /\ Informed(now) /\ wpc' = "children" /\ sig' = now
        /\ UNCHANGED <<cfg, lan, ev, broken>>
    BY <1>2 DEF ReconcileEnds, Return
  <2>. QED  BY <2>1 DEF Informed, Current
<1>3. CASE SnapshotFails
  BY <1>3 DEF SnapshotFails, Informed
<1>4. CASE ReadChildren \/ ArmStorage
  BY <1>4 DEF ReadChildren, ArmStorage, Informed, Current
<1>5. CASE RecheckStorage
  BY <1>5 DEF RecheckStorage, Informed, Current, Coalesced
<1>6. CASE Wake \/ WindowEnds
  BY <1>6 DEF Wake, WindowEnds
<1>. QED  BY <1>1, <1>2, <1>3, <1>4, <1>5, <1>6 DEF Round

LEMMA InformedNext ==
    ASSUME TypeOK, InformedInv, [WNext]_wvars
    PROVE  InformedInv'
<1>. USE DEF InformedInv, Sleeping
<1>1. CASE Others
  <2>1. Notice /\ UNCHANGED <<wpc, sig, now, broken>>
    BY <1>1 DEF Others
  <2>. QED  BY <2>1, NoticeInforms DEF Informed, Current
<1>2. CASE Round
  BY <1>2, RoundInforms
<1>3. CASE EndWatch \/ DeviceReboots
  BY <1>3 DEF EndWatch, DeviceReboots, ForgetLoop
<1>4. CASE Edit
  BY <1>4 DEF Edit, Informed, Coalesced
<1>5. CASE StartWatch
  BY <1>5 DEF StartWatch
<1>6. CASE RetryDue \/ UNCHANGED wvars
  BY <1>6 DEF RetryDue, Informed, Current
<1>. QED  BY <1>1, <1>2, <1>3, <1>4, <1>5, <1>6 DEF WNext

(* When the loop sleeps it has reconciled for the present configuration and   *)
(* LAN, if the configuration can be read.                                     *)
THEOREM NoMissedChangeHolds == WSpec => []NoMissedChange
<1>1. WInit => InformedInv
  BY DEF WInit, InformedInv, Sleeping
<1>2. SafeInv /\ InformedInv /\ [WNext]_wvars => InformedInv'
  BY InformedNext DEF SafeInv, TypeInv
<1>3. InformedInv => NoMissedChange
  BY NoSigAssumption
     DEF InformedInv, Sleeping, Informed, Current, NoMissedChange, AtRest, Readable
<1>. QED  BY <1>1, <1>2, <1>3, WatchedSafe, PTL DEF WSpec

-------------------------------------------------------------------------------
(* Progress.  What the loop owes is a reconcile that is to be retried, that   *)
(* is forced, or that the dead master asks for.  It is not forgotten on any   *)
(* way round the loop, and the way round ends in reconcile.                   *)

Kids == wpc = "children"

(* The loop is not there yet, and nothing excuses it.                         *)
Due == wpc \notin {"reconcile", "off"} /\ ~broken

Owes == \/ retry \in {"armed", "due"}
        \/ ~Kids /\ (force \/ children = "dead")

(* TakeSnapshot will run reconcile.                                           *)
Hot == retry = "due" \/ force

(* force is consumed on the way to poll, and after an error the timer runs.   *)
ForceInv == /\ wpc \in {"arm", "recheck", "poll"} => ~force
            /\ Kids /\ failures \in 1..3 => retry \in {"armed", "due"}

LEMMA ForceInvNext == ASSUME WTypeOK, ForceInv, [WNext]_wvars PROVE ForceInv'
<1>. USE DEF ForceInv, Kids
<1>1. CASE Others
  BY <1>1 DEF Others
<1>2. CASE TakeSnapshot \/ SnapshotFails
  BY <1>2 DEF TakeSnapshot, SnapshotFails
<1>3. CASE ReconcileEnds
  BY <1>3 DEF ReconcileEnds
<1>4. CASE ReadChildren \/ ArmStorage \/ RecheckStorage \/ WindowEnds
  BY <1>4 DEF ReadChildren, ArmStorage, RecheckStorage, WindowEnds
<1>5. CASE Wake
  <2>1. wpc' \in {"top", "window"}
    BY <1>5 DEF Wake
  <2>. QED  BY <2>1
<1>6. CASE EndWatch \/ DeviceReboots
  BY <1>6 DEF EndWatch, DeviceReboots, ForgetLoop
<1>7. CASE Edit \/ StartWatch
  BY <1>7 DEF Edit, StartWatch
<1>8. CASE RetryDue \/ UNCHANGED wvars
  BY <1>8 DEF RetryDue
<1>. QED  BY <1>1, <1>2, <1>3, <1>4, <1>5, <1>6, <1>7, <1>8 DEF WNext, Round

LoopInv == WTypeOK /\ ForceInv

LEMMA LoopSafe == WSpec => []LoopInv
<1>1. WInit => ForceInv
  BY DEF WInit, ForceInv, Kids
<1>2. WTypeOK /\ ForceInv /\ [WNext]_wvars => ForceInv'
  BY ForceInvNext
<1>. QED  BY <1>1, <1>2, WTypeCorrect, PTL DEF WSpec, LoopInv

(* A step that does not end the matter is one of the loop, or leaves it where *)
(* it is and what it owes as it was, but for the timer and the master.        *)
LEMMA OtherStep ==
    ASSUME LoopInv, Due, Due', [WNext]_wvars, ~Round
    PROVE  /\ wpc' = wpc /\ force' = force
           /\ retry' = retry \/ retry' = "due"
           /\ retry = "none" => retry' = "none"
           /\ children' = children \/ (children = "live" /\ children' = "dead")
<1>. USE DEF LoopInv, WTypeOK, Due
<1>1. CASE Others
  BY <1>1 DEF Others, Notice
<1>2. CASE Edit
  BY <1>2 DEF Edit
<1>3. CASE EndWatch \/ DeviceReboots \/ StartWatch
  BY <1>3 DEF EndWatch, DeviceReboots, StartWatch, ForgetLoop
<1>4. CASE RetryDue
  BY <1>4 DEF RetryDue
<1>5. CASE UNCHANGED wvars
  BY <1>5
<1>. QED  BY <1>1, <1>2, <1>3, <1>4, <1>5 DEF WNext

(* A round that does not run reconcile goes on from one label to the next.    *)
LEMMA RoundGoesOn ==
    ASSUME LoopInv, Due, Due', Round
    PROVE  \/ wpc = "top" /\ ~Hot /\ wpc' = "arm" /\ UNCHANGED <<force, retry, children>>
           \/ wpc = "children" /\ wpc' = "arm" /\ ~force' /\ retry' = retry
           \/ wpc = "arm" /\ wpc' = "recheck" /\ UNCHANGED <<force, retry, children>>
           \/ wpc = "recheck" /\ wpc' = "poll" /\ UNCHANGED <<force, retry, children>>
           \/ wpc = "recheck" /\ wpc' = "top" /\ force' /\ UNCHANGED <<retry, children>>
           \/ wpc = "window" /\ wpc' = "top" /\ UNCHANGED <<force, retry, children>>
           \/ /\ wpc = "poll" /\ wpc' \in {"top", "window"} /\ children # "dead"
              /\ (force => force') /\ UNCHANGED <<retry, children>>
           \/ /\ wpc = "poll" /\ wpc' \in {"top", "window"}
              /\ children = "dead" /\ children' = "none"
              /\ force' \/ retry' = "armed"
<1>. USE DEF LoopInv, WTypeOK, Due
<1>1. CASE TakeSnapshot
  BY <1>1 DEF TakeSnapshot, Hot
<1>2. CASE SnapshotFails \/ ReconcileEnds
  BY <1>2 DEF SnapshotFails, ReconcileEnds
<1>3. CASE ReadChildren
  BY <1>3 DEF ReadChildren
<1>4. CASE ArmStorage \/ WindowEnds
  BY <1>4 DEF ArmStorage, WindowEnds
<1>5. CASE RecheckStorage
  BY <1>5 DEF RecheckStorage
<1>6. CASE Wake /\ children = "dead"
  <2>1. crashes' \in 0..4
    BY <1>6 DEF Wake, MaxCrashes, Least
  <2>2. CASE crashes' > 3
    BY <1>6, <2>2 DEF Wake
  <2>3. CASE ~(crashes' > 3)
    <3>1. crashes' <= 3
      BY <2>1, <2>3
    <3>2. force' = (crashes' <= 3)
      BY <1>6, Zenon DEF Wake
    <3>3. force'
      BY <3>1, <3>2, Zenon
    <3>. QED  BY <1>6, <3>3 DEF Wake
  <2>. QED  BY <2>2, <2>3
<1>7. CASE Wake /\ children # "dead"
  BY <1>7 DEF Wake
<1>. QED  BY <1>1, <1>2, <1>3, <1>4, <1>5, <1>6, <1>7 DEF Round

(* So no way round the loop forgets what it owes.                             *)
LEMMA OwesKept ==
    ASSUME LoopInv, Due, Due', Owes, [WNext]_wvars
    PROVE  Owes'
<1>. USE DEF Owes, Kids
<1>1. CASE Round
  <2>. USE DEF Hot, LoopInv, WTypeOK
  <2>. QED  BY <1>1, RoundGoesOn
<1>2. CASE ~Round
  BY <1>2, OtherStep
<1>. QED  BY <1>1, <1>2

(* Nothing is left but to go round: the master is dead, or reconcile is due.  *)
Phase(c) == Due /\ ~Kids /\ children = c /\ (c = "dead" \/ Hot)

(* The most rounds that are left to reconcile, or to the burial of the master.*)
Far == [window |-> IF Hot THEN 2 ELSE 7, top |-> IF Hot THEN 1 ELSE 6,
        arm |-> 5, recheck |-> 4, poll |-> 3,
        children |-> 0, reconcile |-> 0, off |-> 0][wpc]

Near(n) == Far <= n

(* Where the loop has nothing to do.                                          *)
Blocked == wpc \in {"off", "reconcile"} \/ (wpc = "poll" /\ ~Readable)

LEMMA PhaseNotBlocked ==
    ASSUME NEW c, LoopInv, Phase(c)
    PROVE  ~Blocked /\ Near(7) /\ ~Near(0)
<1>1. ~Blocked
  BY DEF LoopInv, ForceInv, Phase, Due, Hot, Blocked, Readable
<1>2. Far \in 1..7
  BY DEF LoopInv, WTypeOK, Phase, Due, Kids, Far
<1>. QED  BY <1>1, <1>2 DEF Near

LEMMA PhaseStep ==
    ASSUME NEW c, NEW m \in 0..7, NEW n \in 0..7, m = n + 1 \/ m = n,
           LoopInv, LoopInv', Phase(c), Phase(c)', [WNext]_wvars, Near(m), m = n \/ Round
    PROVE  Near(n)'
<1>1. Due /\ Due' /\ ~Kids /\ children = c /\ children' = c /\ WTypeOK /\ WTypeOK'
      /\ (c = "dead" \/ Hot) /\ (c = "dead" \/ Hot')
  BY DEF Phase, LoopInv
<1>2. Far \in 0..7 /\ Far' \in 0..7
  BY <1>1 DEF WTypeOK, Far
<1>3. CASE Round
  <2>1. Far' < Far
    BY <1>1, <1>3, RoundGoesOn DEF Far, Kids, Hot
  <2>. QED  BY <1>2, <2>1 DEF Near
<1>4. CASE ~Round
  <2>1. wpc' = wpc /\ (Hot => Hot')
    BY <1>1, <1>4, OtherStep DEF Hot, LoopInv, WTypeOK
  <2>2. Far' <= Far
    BY <1>1, <2>1 DEF Far, WTypeOK
  <2>. QED  BY <1>2, <1>4, <2>2 DEF Near
<1>. QED  BY <1>3, <1>4

(* The scheduler: weak fairness of the loop and of its timer, with the states *)
(* in which they have nothing to do in the place of ENABLED.                  *)
LoopRuns == []<>Blocked \/ []<><<Round>>_wvars

Armed == retry = "armed"

TimerRuns == []<>~Armed

PhaseEnds(c) == ~(<>[]Phase(c) /\ []<><<Round>>_wvars)

LEMMA NoPhaseStays == ASSUME NEW c PROVE WSpec => PhaseEnds(c)
<1>. DEFINE In == LoopInv /\ LoopInv' /\ Phase(c) /\ Phase(c)' /\ [WNext]_wvars
            Move(n) == In /\ Round /\ Near(n)
<1>1. Move(1) => Near(0)'
  BY PhaseStep
<1>2. Move(2) => Near(1)'
  BY PhaseStep
<1>3. Move(3) => Near(2)'
  BY PhaseStep
<1>4. Move(4) => Near(3)'
  BY PhaseStep
<1>5. Move(5) => Near(4)'
  BY PhaseStep
<1>6. Move(6) => Near(5)'
  BY PhaseStep
<1>7. Move(7) => Near(6)'
  BY PhaseStep
<1>8. In => /\ Near(0) => Near(0)'
            /\ Near(1) => Near(1)'
            /\ Near(2) => Near(2)'
            /\ Near(3) => Near(3)'
            /\ Near(4) => Near(4)'
            /\ Near(5) => Near(5)'
            /\ Near(6) => Near(6)'
  BY PhaseStep
<1>9. LoopInv /\ Phase(c) => Near(7) /\ ~Near(0)
  BY PhaseNotBlocked
<1>. DEFINE Fair == WSpec /\ <>[]Phase(c) /\ []<><<Round>>_wvars
<1>10. Fair => <>[]Near(6)
  BY <1>7, <1>8, <1>9, LoopSafe, PTL DEF WSpec
<1>11. Fair /\ <>[]Near(6) => <>[]Near(5)
  BY <1>6, <1>8, LoopSafe, PTL DEF WSpec
<1>12. Fair /\ <>[]Near(5) => <>[]Near(4)
  BY <1>5, <1>8, LoopSafe, PTL DEF WSpec
<1>13. Fair /\ <>[]Near(4) => <>[]Near(3)
  BY <1>4, <1>8, LoopSafe, PTL DEF WSpec
<1>14. Fair /\ <>[]Near(3) => <>[]Near(2)
  BY <1>3, <1>8, LoopSafe, PTL DEF WSpec
<1>15. Fair /\ <>[]Near(2) => <>[]Near(1)
  BY <1>2, <1>8, LoopSafe, PTL DEF WSpec
<1>16. Fair /\ <>[]Near(1) => <>[]Near(0)
  BY <1>1, <1>8, LoopSafe, PTL DEF WSpec
<1>17. Fair /\ <>[]Near(0) => FALSE
  BY <1>9, LoopSafe, PTL
<1>. HIDE DEF Fair
<1>. QED  BY <1>10, <1>11, <1>12, <1>13, <1>14, <1>15, <1>16, <1>17, PTL
          DEF Fair, PhaseEnds

Live == children = "live"
Dead == children = "dead"
None == children = "none"

(* The master is supervised, then dead, then forgotten; a reconcile that is   *)
(* due stays due, but for the burial, which may put it off, once.             *)
LEMMA PhasesPass ==
    ASSUME LoopInv, Due, Due', [WNext]_wvars
    PROVE  /\ ~Kids => ~Kids'
           /\ Kids /\ Round => ~Kids'
           /\ ~Kids /\ Dead => Dead' \/ None'
           /\ ~Kids /\ None => None'
           /\ ~Kids /\ ~Dead /\ Hot => Hot'
<1>1. CASE Round
  BY <1>1, RoundGoesOn DEF Kids, Dead, None, Hot, LoopInv, WTypeOK
<1>2. CASE ~Round
  BY <1>2, OtherStep DEF Kids, Dead, None, Hot, LoopInv, WTypeOK
<1>. QED  BY <1>1, <1>2

Arrived == wpc \in {"reconcile", "off"} \/ broken

Stuck == Due /\ Owes

(* What the loop owes it does, if it and its timer are scheduled.             *)
LEMMA OwedIsDone == WSpec /\ LoopRuns /\ TimerRuns => [](Owes => <>Arrived)
<1>1. LoopInv /\ ~Arrived => Due
  BY DEF Arrived, Due
<1>2. LoopInv /\ Stuck /\ Due' /\ [WNext]_wvars =>
          /\ Stuck'
          /\ ~Kids => ~Kids'
          /\ Kids /\ Round => ~Kids'
          /\ ~Kids /\ Dead => Dead' \/ None'
          /\ ~Kids /\ None => None'
          /\ ~Kids /\ ~Dead /\ Hot => Hot'
  BY OwesKept, PhasesPass DEF Stuck
<1>3. LoopInv /\ Stuck => /\ Live \/ Dead \/ None
                          /\ ~(Live /\ Dead) /\ ~(Dead /\ None)
                          /\ Kids => ~Blocked
                          /\ ~Kids /\ ~Dead /\ ~Armed => Hot
                          /\ ~Kids /\ Dead => Phase("dead")
                          /\ ~Kids /\ Live /\ Hot => Phase("live")
                          /\ ~Kids /\ None /\ Hot => Phase("none")
  BY DEF LoopInv, WTypeOK, Stuck, Live, Dead, None, Kids, Blocked, Armed, Owes, Hot, Phase
<1>4. LoopInv => /\ Phase("dead") => ~Blocked
                 /\ Phase("live") => ~Blocked
                 /\ Phase("none") => ~Blocked
  BY PhaseNotBlocked
<1>5. WSpec => PhaseEnds("dead") /\ PhaseEnds("live") /\ PhaseEnds("none")
  BY NoPhaseStays
<1>. DEFINE Fair == WSpec /\ LoopRuns /\ TimerRuns /\ <>[]Stuck
<1>6. Fair => <>[]Due
  <2>1. Stuck => Due
    BY DEF Stuck
  <2>. QED  BY <2>1, PTL
<1>7. Fair => <>[]~Kids
  BY <1>2, <1>3, <1>6, LoopSafe, PTL DEF WSpec, LoopRuns
<1>8. Fair => <>[]Dead \/ <>[]Live \/ <>[]None
  BY <1>2, <1>3, <1>6, <1>7, LoopSafe, PTL DEF WSpec
<1>9. Fair => ~<>[]Dead
  BY <1>3, <1>4, <1>5, <1>7, LoopSafe, PTL DEF LoopRuns, PhaseEnds
<1>10. Fair /\ (<>[]Live \/ <>[]None) => <>[]Hot
  BY <1>2, <1>3, <1>6, <1>7, LoopSafe, PTL DEF WSpec, TimerRuns
<1>11. Fair /\ <>[]Hot => ~<>[]Live /\ ~<>[]None
  BY <1>3, <1>4, <1>5, <1>7, LoopSafe, PTL DEF LoopRuns, PhaseEnds
<1>12. WSpec => [](Owes /\ []~Arrived => []Stuck)
  <2>1. Due /\ Owes => Stuck
    BY DEF Stuck
  <2>. QED  BY <1>1, <1>2, <2>1, LoopSafe, PTL DEF WSpec
<1>13. ~Fair
  BY <1>8, <1>9, <1>10, <1>11, PTL
<1>. QED  BY <1>12, <1>13, PTL

FailedOnce == wpc = "children" /\ failures \in 1..3
MasterDied == children = "dead" /\ wpc # "children"

(* A reconcile that failed is run again, unless it has failed four times, the *)
(* watcher ends or config.conf does not parse.                                *)
THEOREM FailureRetriedHolds == WSpec /\ LoopRuns /\ TimerRuns => FailureRetried
<1>1. LoopInv /\ FailedOnce => Owes
  BY DEF LoopInv, ForceInv, FailedOnce, Kids, Owes
<1>. QED  BY <1>1, OwedIsDone, LoopSafe, PTL DEF FailedOnce, Arrived, FailureRetried

(* When the supervised master ends, reconcile runs, in a crash burst too.     *)
THEOREM CrashNoticedHolds == WSpec /\ LoopRuns /\ TimerRuns => CrashNoticed
<1>1. MasterDied => Owes
  BY DEF MasterDied, Kids, Owes
<1>. QED  BY <1>1, OwedIsDone, PTL DEF MasterDied, Arrived, CrashNoticed

-------------------------------------------------------------------------------
(* Rest.  A loop that nobody disturbs goes round only while reconcile fails,  *)
(* which it may do three times before the retries are over.                   *)

(* The loop is in reconcile exactly while its process is.                     *)
InReconcile == wpc = "reconcile" <=> pc[Watch] # "idle"

(* A pidfd that is not readable is of a process that lives.                   *)
Supervised == children = "live" => smbd # NoSmbd

RestInv == SafeInv /\ LoopInv /\ InReconcile /\ Supervised

LEMMA WatchElse == ASSUME NEW p \in Cmd PROVE p \in Proc /\ Watch \in Proc \ {p}
BY ProcAssumption DEF Proc

LEMMA InReconcileNext ==
    ASSUME SafeInv, InReconcile, [WNext]_wvars
    PROVE  InReconcile'
<1>. USE DEF InReconcile
<1>0. pc \in [Proc -> Label] /\ Watch \in Proc
  BY DEF SafeInv, TypeInv, TypeOK, Proc
<1>1. CASE Others
  <2>1. wpc' = wpc
    BY <1>1 DEF Others
  <2>2. ASSUME NEW p \in Cmd, (\E o \in Op : Issue(p, o)) \/ Return(p) \/ Kill(p)
        PROVE  pc'[Watch] = pc[Watch]
    BY <1>0, <2>2, WatchElse DEF Issue, Goto, Return, Kill, Exit
  <2>3. ASSUME NEW p \in Proc, Lock(p) \/ LoadFails(p)
        PROVE  pc[Watch] # "idle" <=> pc'[Watch] # "idle"
    BY <1>0, <2>3 DEF Lock, LoadFails, Dispatch, Goto, HaltThen
  <2>4. ASSUME NEW p \in Proc, Step(p)
        PROVE  pc[Watch] # "idle" <=> pc'[Watch] # "idle"
    BY <1>0, <2>4, StepInside DEF Inside
  <2>5. CASE LanChange \/ Unlocking \/ Listen \/ Crash
    BY <2>1, <2>5 DEF LanChange, Unlocking, StorageChange, Listen, Crash
  <2>6. CASE \E p \in Cmd : (\E o \in Op : Issue(p, o)) \/ Return(p) \/ Kill(p)
    BY <2>1, <2>2, <2>6
  <2>7. CASE \E p \in Proc : (IF broken THEN LoadFails(p) ELSE Lock(p)) \/ Step(p)
    BY <2>1, <2>3, <2>4, <2>7
  <2>. QED  BY <1>1, <2>1, <2>5, <2>6, <2>7 DEF Others
<1>2. CASE TakeSnapshot \/ ReconcileEnds
  BY <1>0, <1>2 DEF TakeSnapshot, Issue, Goto, ReconcileEnds, Return, Exit
<1>3. CASE \/ SnapshotFails \/ ReadChildren \/ ArmStorage \/ RecheckStorage \/ Wake
           \/ WindowEnds
  BY <1>3 DEF SnapshotFails, ReadChildren, ArmStorage, RecheckStorage, Wake, WindowEnds
<1>4. CASE EndWatch
  BY <1>0, <1>4 DEF EndWatch, ForgetLoop, Kill, Exit
<1>5. CASE DeviceReboots
  BY <1>0, <1>5 DEF DeviceReboots, Reboot, ForgetLoop
<1>6. CASE Edit \/ StartWatch \/ RetryDue \/ UNCHANGED wvars
  BY <1>6 DEF Edit, StartWatch, RetryDue
<1>. QED  BY <1>1, <1>2, <1>3, <1>4, <1>5, <1>6 DEF WNext, Round

LEMMA SupervisedNext ==
    ASSUME Supervised, [WNext]_wvars
    PROVE  Supervised'
<1>. USE DEF Supervised
<1>1. CASE Others
  BY <1>1 DEF Others, Notice
<1>2. CASE TakeSnapshot \/ ReconcileEnds
  BY <1>2 DEF TakeSnapshot, Issue, ReconcileEnds, Return
<1>3. CASE \/ SnapshotFails \/ ReadChildren \/ ArmStorage \/ RecheckStorage \/ Wake
           \/ WindowEnds
  BY <1>3 DEF SnapshotFails, ReadChildren, ArmStorage, RecheckStorage, Wake, WindowEnds
<1>4. CASE EndWatch \/ DeviceReboots
  BY <1>4 DEF EndWatch, DeviceReboots, ForgetLoop
<1>5. CASE Edit \/ StartWatch \/ RetryDue \/ UNCHANGED wvars
  BY <1>5 DEF Edit, StartWatch, RetryDue
<1>. QED  BY <1>1, <1>2, <1>3, <1>4, <1>5 DEF WNext, Round

LEMMA RestSafe == WSpec => []RestInv
<1>1. WInit => InReconcile /\ Supervised
  BY DEF WInit, Init, InReconcile, Supervised, Proc
<1>2. SafeInv /\ InReconcile /\ Supervised /\ [WNext]_wvars => InReconcile' /\ Supervised'
  BY InReconcileNext, SupervisedNext
<1>. QED  BY <1>1, <1>2, WatchedSafe, LoopSafe, PTL DEF WSpec, RestInv

-------------------------------------------------------------------------------
(* What Undisturbed says of a state and of a step.                            *)
Alone == wpc # "off" /\ \A p \in Cmd : pc[p] = "idle"

Quiet == /\ UNCHANGED <<cfg, lan, storage, broken>>
         /\ smbd' # smbd /\ UNCHANGED pc => smbd' # NoSmbd

LEMMA UndisturbedIsQuiet == Undisturbed => <>[]Alone /\ <>[][Quiet]_wvars
<1>1. /\ [FALSE]_<<cfg, lan, storage, password, broken>>
      /\ [UNCHANGED pc => smbd' # NoSmbd]_smbd
      => [Quiet]_wvars
  BY DEF Quiet
<1>2. wpc # "off" /\ (\A p \in Cmd : pc[p] = "idle") => Alone
  BY DEF Alone
<1>. QED  BY <1>1, <1>2, PTL DEF Undisturbed

Steady == /\ RestInv /\ RestInv' /\ Alone /\ Alone'
        /\ [WNext]_wvars /\ [Quiet]_wvars

(* Between two steps of the loop only reconcile runs, and the timer.          *)
LEMMA SteadyWait ==
    ASSUME Steady, ~Round
    PROVE  /\ UNCHANGED <<wpc, sig, now, force, failures, armed, ev, broken>>
           /\ UNCHANGED <<cfg, lan, storage>>
           /\ retry' = retry \/ (retry = "armed" /\ retry' = "due")
           /\ children' = "dead" => children = "dead" \/ wpc = "reconcile"
<1>. USE DEF Steady, Quiet, Alone
<1>1. CASE Others
  <2>1. ev' = ev
    BY <1>1 DEF Others, Notice, Raised
  <2>2. ASSUME children' = "dead", children # "dead" PROVE wpc = "reconcile"
    <3>1. smbd' = NoSmbd /\ smbd # NoSmbd
      BY <1>1, <2>2 DEF Others, Notice, RestInv, Supervised
    <3>2. pc' # pc
      BY <3>1
    <3>3. pc \in [Proc -> Label] /\ pc' \in [Proc -> Label]
      BY DEF RestInv, SafeInv, TypeInv, TypeOK
    <3>4. pc'[Watch] # pc[Watch]
      BY <3>2, <3>3 DEF Proc
    <3>. QED  BY <1>1, <3>4 DEF RestInv, InReconcile, Others
  <2>. QED  BY <1>1, <2>1, <2>2 DEF Others
<1>2. CASE Edit \/ StartWatch \/ EndWatch \/ DeviceReboots
  BY <1>2 DEF Edit, StartWatch, EndWatch, DeviceReboots, ForgetLoop, RestInv, LoopInv, WTypeOK
<1>3. CASE RetryDue
  BY <1>3 DEF RetryDue
<1>4. CASE UNCHANGED wvars
  BY <1>4
<1>. QED  BY <1>1, <1>2, <1>3, <1>4 DEF WNext

(* A round of the loop, label by label.                                       *)
At(l) == wpc = l

(* The loop will find the storage it waited for.                              *)
Appeared == armed /\ storage = "ready"

LEMMA SteadyRound ==
    ASSUME Steady, Round
    PROVE  /\ UNCHANGED <<cfg, lan, storage, broken>>
           /\ \/ At("top") /\ broken /\ SnapshotFails
              \/ At("top") /\ ~broken /\ TakeSnapshot
              \/ At("reconcile") /\ ReconcileEnds
              \/ At("children") /\ ReadChildren
              \/ At("arm") /\ ArmStorage
              \/ At("recheck") /\ RecheckStorage
              \/ At("poll") /\ Wake
              \/ At("window") /\ WindowEnds
<1>1. UNCHANGED <<cfg, lan, storage, broken>>
  BY DEF Steady, Quiet
<1>. QED  BY <1>1 DEF Round, At, TakeSnapshot, SnapshotFails, ReconcileEnds, ReadChildren,
                 ArmStorage, RecheckStorage, Wake, WindowEnds

(* The way round.                                                             *)
LEMMA SteadyGoes ==
    ASSUME Steady
    PROVE  /\ ~Round => \A l \in STRING : At(l) => At(l)'
           /\ Round => /\ At("top") =>
                              At("reconcile")' \/ (At("arm")' /\ (~Hot \/ broken))
                       /\ At("reconcile") => At("children")'
                       /\ At("children") => At("arm")'
                       /\ At("arm") => At("recheck")' /\ ~Appeared'
                       /\ At("recheck") => At("poll")' \/ (Appeared /\ At("top")')
                       /\ At("poll") => At("top")' \/ (ev # {} /\ At("window")')
                       /\ At("window") => At("top")'
           /\ ~Appeared => ~Appeared'
<1>1. CASE ~Round
  BY <1>1, SteadyWait DEF At, Appeared
<1>2. CASE Round
  <2>1. /\ At("top") => At("reconcile")' \/ (At("arm")' /\ (~Hot \/ broken))
        /\ At("reconcile") => At("children")'
        /\ At("children") => At("arm")'
    BY <1>2, SteadyRound DEF At, Hot, TakeSnapshot, SnapshotFails, ReconcileEnds, ReadChildren
  <2>2. /\ At("arm") => At("recheck")' /\ ~Appeared'
        /\ At("recheck") => At("poll")' \/ (Appeared /\ At("top")')
    BY <1>2, SteadyRound DEF At, Appeared, ArmStorage, RecheckStorage
  <2>3. /\ At("poll") => At("top")' \/ (ev # {} /\ At("window")')
        /\ At("window") => At("top")'
    BY <1>2, SteadyRound DEF At, Wake, WindowEnds
  <2>4. ~Appeared => ~Appeared'
    BY <1>2, SteadyRound DEF Appeared, TakeSnapshot, SnapshotFails, ReconcileEnds, ReadChildren,
       ArmStorage, RecheckStorage, Wake, WindowEnds
  <2>. QED  BY <1>2, <2>1, <2>2, <2>3, <2>4
<1>. QED  BY <1>1, <1>2

(* Nothing is readable but the retry timer, in the end.                       *)
Silent == ev = {}
Nursed == wpc \in {"reconcile", "children"} \/ children # "dead"
Unforced == ~force
RetryIsDue == retry = "due"
NoRetry == retry = "none"

LEMMA SteadySettles ==
    ASSUME Steady
    PROVE  /\ At("poll") /\ Round => Silent' /\ Nursed'
           /\ Silent => Silent'
           /\ Nursed => Nursed'
<1>. USE DEF Silent, Nursed, At
<1>1. CASE ~Round
  BY <1>1, SteadyWait
<1>2. CASE Round
  BY <1>2, SteadyRound DEF TakeSnapshot, SnapshotFails, ReconcileEnds, ReadChildren,
     ArmStorage, RecheckStorage, Wake, WindowEnds, Source
<1>. QED  BY <1>1, <1>2

LEMMA SteadyWakes ==
    ASSUME Steady, Silent, Nursed, ~Appeared
    PROVE  /\ At("poll") /\ Round => Unforced' /\ RetryIsDue /\ RetryIsDue'
           /\ Unforced => Unforced'
           /\ RetryIsDue /\ ~Round => RetryIsDue'
<1>. USE DEF Silent, Nursed, At, Unforced, Appeared, RetryIsDue
<1>1. CASE ~Round
  BY <1>1, SteadyWait
<1>2. CASE Round /\ ~At("poll")
  <2>1. force' # force => force' = FALSE
    BY <1>2, SteadyRound DEF TakeSnapshot, SnapshotFails, ReconcileEnds, ReadChildren,
       ArmStorage, RecheckStorage, WindowEnds
  <2>. QED  BY <1>2, <2>1
<1>3. CASE Round /\ At("poll")
  <2>1. Wake /\ ~force /\ children # "dead"
    BY <1>3, SteadyRound DEF Steady, RestInv, LoopInv, ForceInv
  <2>2. retry = "due" /\ retry' = "due"
    BY <2>1 DEF Wake, Readable
  <2>3. force' = (force \/ ev \cap {"ce", "dir"} # {})
    BY <2>1, Zenon DEF Wake
  <2>4. ev \cap {"ce", "dir"} = {}
    OBVIOUS
  <2>5. ~force'
    BY <2>1, <2>3, <2>4, Zenon
  <2>. QED  BY <1>3, <2>2, <2>5
<1>. QED  BY <1>1, <1>2, <1>3

(* What the loop compares its snapshots with is the present, and stays it.    *)
NowIsPresent == At("reconcile") => now = Snapshot
SigIsPresent == sig = Snapshot

LEMMA SteadySigns ==
    ASSUME Steady
    PROVE  /\ ~At("reconcile") => NowIsPresent
           /\ NowIsPresent => NowIsPresent'
           /\ NowIsPresent /\ At("reconcile") /\ Round => SigIsPresent'
           /\ SigIsPresent /\ NowIsPresent => SigIsPresent'
<1>. USE DEF NowIsPresent, SigIsPresent, At
<1>1. CASE ~Round
  BY <1>1, SteadyWait DEF Snapshot
<1>2. CASE Round
  <2>1. Snapshot' = Snapshot
    BY <1>2, SteadyRound DEF Snapshot
  <2>2. CASE At("top") \/ At("reconcile")
    BY <1>2, <2>1, <2>2, SteadyRound DEF TakeSnapshot, SnapshotFails, ReconcileEnds
  <2>3. CASE ~(At("top") \/ At("reconcile"))
    BY <1>2, <2>1, <2>3, SteadyRound DEF ReadChildren, ArmStorage, RecheckStorage, Wake,
       WindowEnds
  <2>. QED  BY <2>2, <2>3
<1>. QED  BY <1>1, <1>2

(* While the configuration does not parse, retries are forgotten.             *)
LEMMA SteadyForgets ==
    ASSUME Steady
    PROVE  /\ broken => broken'
           /\ ~broken => ~broken'
           /\ broken /\ At("top") /\ Round => NoRetry' /\ At("arm")'
           /\ NoRetry /\ Silent /\ Nursed /\ ~At("reconcile") => NoRetry'
<1>. USE DEF At, NoRetry, Silent, Nursed
<1>1. CASE ~Round
  BY <1>1, SteadyWait
<1>2. CASE Round
  <2>1. UNCHANGED broken /\ (broken /\ At("top") => NoRetry' /\ At("arm")')
    BY <1>2, SteadyRound DEF SnapshotFails
  <2>2. NoRetry /\ Silent /\ Nursed /\ ~At("reconcile") => NoRetry'
    BY <1>2, SteadyRound DEF TakeSnapshot, SnapshotFails, ReadChildren, ArmStorage,
       RecheckStorage, Wake, Readable, WindowEnds
  <2>. QED  BY <1>2, <2>1, <2>2
<1>. QED  BY <1>1, <1>2

(* While it does, the failures are counted, and the fourth is not retried.    *)
AtLeast(n) == failures >= n

LEMMA SteadyCounts ==
    ASSUME Steady, SigIsPresent, ~broken
    PROVE  /\ At("top") /\ RetryIsDue /\ Round => At("reconcile")'
           /\ At("reconcile") /\ Round => \/ NoRetry'
                                          \/ /\ ~AtLeast(3) /\ AtLeast(1)'
                                             /\ AtLeast(1) => AtLeast(2)'
                                             /\ AtLeast(2) => AtLeast(3)'
           /\ ~(At("reconcile") /\ Round) => /\ AtLeast(1) => AtLeast(1)'
                                             /\ AtLeast(2) => AtLeast(2)'
                                             /\ AtLeast(3) => AtLeast(3)'
<1>. USE DEF At, RetryIsDue, SigIsPresent, NoRetry, AtLeast
<1>0. failures \in 0..4
  BY DEF Steady, RestInv, LoopInv, WTypeOK, MaxFailures
<1>1. CASE ~Round
  BY <1>1, SteadyWait
<1>2. CASE Round /\ At("top")
  BY <1>2, SteadyRound DEF TakeSnapshot
<1>3. CASE Round /\ At("reconcile")
  <2>1. ReconcileEnds
    BY <1>3, SteadyRound
  <2>2. failures' = 0 \/ failures' = failures + 1 \/ (failures = 4 /\ failures' = 4)
    BY <1>0, <2>1 DEF ReconcileEnds, Least, MaxFailures
  <2>3. failures' \in 1..3 \/ retry' = "none"
    BY <2>1 DEF ReconcileEnds
  <2>. QED  BY <1>0, <1>3, <2>2, <2>3
<1>4. CASE Round /\ ~At("top") /\ ~At("reconcile")
  <2>1. failures' = failures
    BY <1>4, SteadyRound DEF ReadChildren, ArmStorage, RecheckStorage, Wake, WindowEnds
  <2>. QED  BY <1>4, <2>1
<1>. QED  BY <1>1, <1>2, <1>3, <1>4

(* The loop does not stay in reconcile.                                       *)
LEMMA ReconcileReturns ==
    WSpec /\ HolderRuns /\ Granted(Watch) => []<>~At("reconcile")
<1>0. Watch \in Proc
  BY DEF Proc
<1>1. WSpec => Spec
  BY ControlSpecHolds, PTL DEF ControlSpec, Spec
<1>2. Spec /\ HolderRuns /\ Granted(Watch) => Returns(Watch) /\ []<>~Busy
  BY <1>0, OneReturns, LockIsReleased
<1>3. RestInv /\ At("reconcile") => ~(pc[Watch] = "idle") /\ (pc[Watch] = "lock" \/ Busy)
  BY <1>0, ProcAssumption DEF RestInv, InReconcile, At, SafeInv, LockInv, Inside, Busy
<1>. QED  BY <1>1, <1>2, <1>3, RestSafe, PTL DEF Returns

LEMMA SteadyRests ==
    WSpec /\ Undisturbed /\ LoopRuns /\ []<>~At("reconcile")
        => ~[]<>~At("poll")
<1>. DEFINE Fair == /\ WSpec /\ <>[]Alone /\ <>[][Quiet]_wvars
                    /\ []<><<Round>>_wvars
<1>1. RestInv /\ Alone =>
          /\ \/ At("top") \/ At("reconcile") \/ At("children") \/ At("arm")
             \/ At("recheck") \/ At("poll") \/ At("window")
          /\ At("top") => ~At("children") /\ ~At("arm") /\ ~At("recheck") /\ ~At("poll")
          /\ At("reconcile") => /\ ~At("top") /\ ~At("children") /\ ~At("arm")
                                /\ ~At("recheck") /\ ~At("poll")
          /\ Blocked => At("reconcile") \/ At("poll")
  BY DEF RestInv, LoopInv, WTypeOK, Alone, At, Blocked
<1>2. Steady /\ [~Round]_wvars =>
          /\ At("top") => At("top")'
          /\ At("reconcile") => At("reconcile")'
          /\ At("children") => At("children")'
          /\ At("arm") => At("arm")'
          /\ At("recheck") => At("recheck")'
          /\ At("poll") => At("poll")'
          /\ At("window") => At("window")'
  <2>1. ASSUME Steady, ~Round \/ UNCHANGED wvars PROVE wpc' = wpc
    BY <2>1, SteadyWait
  <2>. QED  BY <2>1 DEF At
<1>3. /\ WSpec /\ <>[]Alone /\ <>[][Quiet]_wvars
      /\ LoopRuns /\ []<>~At("reconcile") /\ []<>~At("poll")
      => []<><<Round>>_wvars
  BY <1>1, <1>2, RestSafe, PTL DEF WSpec, Steady, LoopRuns
<1>4. Steady /\ Round =>
         /\ At("top") => At("reconcile")' \/ At("arm")'
         /\ At("reconcile") => At("children")'
         /\ At("children") => At("arm")'
         /\ At("arm") => At("recheck")' /\ ~Appeared'
         /\ At("recheck") => At("poll")' \/ (Appeared /\ At("top")')
         /\ At("poll") => At("top")' \/ At("window")'
         /\ At("window") => At("top")'
  BY SteadyGoes
<1>5. Steady => (~Appeared => ~Appeared')
  BY SteadyGoes
<1>6. Fair => <>[]~Appeared
  BY <1>1, <1>2, <1>4, <1>5, RestSafe, PTL DEF WSpec, Steady
<1>7. Steady => /\ At("poll") /\ Round => Silent' /\ Nursed'
                /\ Silent => Silent'
                /\ Nursed => Nursed'
  BY SteadySettles
<1>8. Fair /\ <>[]~Appeared => <>[]Silent /\ <>[]Nursed
  BY <1>1, <1>2, <1>4, <1>7, RestSafe, PTL DEF WSpec, Steady
<1>. DEFINE Settled == Fair /\ <>[]~Appeared /\ <>[]Silent /\ <>[]Nursed
<1>9. Steady /\ Silent /\ Nursed /\ ~Appeared =>
          /\ At("poll") /\ Round => At("top")' /\ Unforced' /\ RetryIsDue /\ RetryIsDue'
          /\ Unforced => Unforced'
          /\ RetryIsDue /\ ~Round => RetryIsDue'
  BY SteadyGoes, SteadyWakes DEF Silent
<1>10. RetryIsDue => ~NoRetry
  BY DEF RetryIsDue, NoRetry
<1>11. Steady => /\ broken => broken'
                 /\ ~broken => ~broken'
                 /\ broken /\ At("top") /\ Round => NoRetry' /\ At("arm")'
                 /\ NoRetry /\ Silent /\ Nursed /\ ~At("reconcile") => NoRetry'
  BY SteadyForgets
<1>12. Settled => <>[]broken \/ <>[]~broken
  BY <1>11, RestSafe, PTL DEF WSpec, Steady
<1>13. ~(Settled /\ <>[]broken)
  BY <1>1, <1>2, <1>4, <1>9, <1>10, <1>11, RestSafe, PTL DEF WSpec, Steady
<1>14. Settled => <>[](At("top") => RetryIsDue)
  BY <1>1, <1>2, <1>4, <1>9, RestSafe, PTL DEF WSpec, Steady
<1>15. Steady /\ ~broken /\ RetryIsDue /\ Round /\ At("top") => At("reconcile")'
  BY SteadyGoes DEF RetryIsDue, Hot
<1>16. Steady => /\ ~At("reconcile") => NowIsPresent
                 /\ NowIsPresent => NowIsPresent'
                 /\ NowIsPresent /\ At("reconcile") /\ Round => SigIsPresent'
                 /\ SigIsPresent /\ NowIsPresent => SigIsPresent'
  BY SteadySigns
<1>. DEFINE Fine == Settled /\ <>[]~broken /\ <>[](At("top") => RetryIsDue)
<1>17. Fine => []<><<At("reconcile") /\ Round>>_wvars
  BY <1>1, <1>2, <1>4, <1>15, RestSafe, PTL DEF WSpec, Steady
<1>18. Fine => <>[]SigIsPresent
  BY <1>1, <1>4, <1>16, <1>17, RestSafe, PTL DEF WSpec, Steady
<1>19. Fine => <>[]~(At("children") /\ NoRetry)
  BY <1>1, <1>2, <1>4, <1>9, <1>10, <1>11, RestSafe, PTL DEF WSpec, Steady
<1>20. Steady /\ SigIsPresent /\ ~broken =>
          /\ At("reconcile") /\ Round => \/ NoRetry'
                                         \/ /\ ~AtLeast(3) /\ AtLeast(1)'
                                            /\ AtLeast(1) => AtLeast(2)'
                                            /\ AtLeast(2) => AtLeast(3)'
          /\ ~(At("reconcile") /\ Round) => /\ AtLeast(1) => AtLeast(1)'
                                            /\ AtLeast(2) => AtLeast(2)'
                                            /\ AtLeast(3) => AtLeast(3)'
  BY SteadyCounts
<1>. DEFINE Failing == /\ Fine /\ <>[]SigIsPresent /\ <>[]~(At("children") /\ NoRetry)
                       /\ []<><<At("reconcile") /\ Round>>_wvars
<1>21. Failing => <>[]AtLeast(1)
  BY <1>4, <1>20, RestSafe, PTL DEF WSpec, Steady
<1>22. Failing /\ <>[]AtLeast(1) => <>[]AtLeast(2)
  BY <1>4, <1>20, RestSafe, PTL DEF WSpec, Steady
<1>23. Failing /\ <>[]AtLeast(2) => <>[]AtLeast(3)
  BY <1>4, <1>20, RestSafe, PTL DEF WSpec, Steady
<1>24. Failing /\ <>[]AtLeast(3) => FALSE
  BY <1>4, <1>20, RestSafe, PTL DEF WSpec, Steady
<1>25. ~Fair
  BY <1>6, <1>8, <1>12, <1>13, <1>14, <1>17, <1>18, <1>19, <1>21, <1>22, <1>23, <1>24, PTL
<1>. QED  BY <1>3, <1>25, UndisturbedIsQuiet, PTL

(* A watcher that nobody disturbs comes to rest in poll, and stays there: it  *)
(* does not spin on a file that does not parse, nor wake itself through its   *)
(* own writes, nor retry an error for ever.                                   *)
THEOREM ComesToRestHolds ==
    WSpec /\ LoopRuns /\ HolderRuns /\ Granted(Watch) => ComesToRest
<1>1. At("poll") <=> wpc = "poll"
  BY DEF At
<1>. QED  BY <1>1, SteadyRests, ReconcileReturns, PTL DEF ComesToRest

=============================================================================
