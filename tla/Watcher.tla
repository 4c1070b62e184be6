------------------------------- MODULE Watcher --------------------------------
(* The event loop of "smbctl watch" around SmbControl.  The loop itself runs  *)
(* without the lock: it takes a snapshot, decides whether to reconcile, looks *)
(* which server to supervise, arms its event sources and blocks in poll.      *)
(* reconcile is the process Watch of SmbControl, so every step here is a step *)
(* of SmbControl or leaves its variables alone.                               *)
EXTENDS SmbControl

CONSTANT NoSig     \* the empty signature of a watcher that has just started

VARIABLES
    wpc,       \* where the loop is
    sig,       \* the snapshot the last reconcile was run for
    now,       \* the snapshot of this round
    force,     \* reconcile even if nothing changed
    failures,  \* consecutive errors of reconcile
    retry,     \* the one-shot retry timer
    crashes,   \* master exits within the last 30 s
    children,  \* the master's pidfd: none held, its process lives, or is dead
    armed,     \* the storage directories are watched
    ev,        \* the event sources that are readable
    broken     \* config.conf does not parse

loop == <<wpc, sig, now, force, failures, retry, crashes, armed>>
wvars == <<vars, loop, children, ev, broken>>

Source == {"net", "cfg", "ce", "dir"}

MaxFailures == 4   \* failures counts no further: 4 means that retries are over
MaxCrashes == 4    \* so does crashes: 4 means a crash burst

Least(m, n) == IF m < n THEN m ELSE n

(* Mutant of Snapshot: only the network is compared.                          *)
SnapshotOfLan == [net |-> lan]

Snapshot == [cfg |-> cfg, net |-> lan, ready |-> storage = "ready"]

Snapshots == [cfg : Config, net : SUBSET Addr, ready : BOOLEAN]

ASSUME NoSigAssumption == NoSig \notin Snapshots

(* What a step of the rest of the system makes readable: rtnetlink, inotify   *)
(* on config.conf, the CE property's eventfd, inotify on the directories.     *)
Raised ==
    {e \in Source : \/ e = "net" /\ lan' # lan
                    \/ e = "cfg" /\ cfg' # cfg
                    \/ e = "ce" /\ (storage = "locked") # (storage' = "locked")
                    \/ e = "dir" /\ armed /\ storage # "ready"
                                 /\ storage' = "ready"}

Notice ==
    /\ ev' = IF wpc = "off" THEN {} ELSE ev \cup Raised
    /\ children' = IF children = "live" /\ smbd' = NoSmbd THEN "dead"
                                                          ELSE children

-------------------------------------------------------------------------------
WInit ==
    /\ Init
    /\ wpc = "off" /\ sig = NoSig /\ now = NoSig /\ force = FALSE
    /\ failures = 0 /\ retry = "none" /\ crashes = 0 /\ children = "none"
    /\ armed = FALSE /\ ev = {} /\ broken = FALSE

(* The CE storage is unlocked, then its directories appear; or both at once.  *)
Unlocking == StorageChange /\ ~(storage = "ready" /\ storage' = "unlocked")

(* Everything that is not the loop: commands, the steps of reconcile, and the *)
(* device.  When the watcher is not in reconcile its process is idle.         *)
Others ==
    /\ \/ \E p \in Cmd : (\E o \in Op : Issue(p, o)) \/ Return(p) \/ Kill(p)
       \/ \E p \in Proc : (IF broken THEN LoadFails(p) ELSE Lock(p)) \/ Step(p)
       \/ LanChange \/ Unlocking \/ Listen \/ Crash
    /\ Notice
    /\ UNCHANGED <<loop, broken>>

(* Somebody edits config.conf by hand, badly, or undoes it.  That happens     *)
(* while no command holds the lock.                                           *)
Edit ==
    /\ "load" \in Fault
    /\ lock = Free
    /\ broken' = ~broken
    /\ ev' = IF wpc = "off" THEN {} ELSE ev \cup {"cfg"}
    /\ UNCHANGED <<vars, loop, children>>

(* watch starts with the singleton lock; its sources are registered before    *)
(* the first snapshot, and the CE thread reports the value it finds at once.  *)
StartWatch ==
    /\ wpc = "off"
    /\ wpc' = "top"
    /\ force' = TRUE
    /\ ev' = {"ce"}
    /\ ~broken /\ UNCHANGED broken
    /\ UNCHANGED <<vars, sig, now, failures, retry, crashes, armed, children>>

(* The locals of a watcher that is gone.                                      *)
ForgetLoop ==
    /\ wpc' = "off" /\ sig' = NoSig /\ now' = NoSig /\ force' = FALSE
    /\ failures' = 0 /\ retry' = "none" /\ crashes' = 0 /\ children' = "none"
    /\ armed' = FALSE /\ ev' = {}
    /\ UNCHANGED broken

(* watch-stop, a re-exec for another CE scope, or a SIGKILL inside reconcile. *)
EndWatch ==
    /\ Watch \in Killable
    /\ wpc # "off"
    /\ IF pc[Watch] = "idle" THEN UNCHANGED vars ELSE Kill(Watch)
    /\ ForgetLoop

DeviceReboots == Reboot /\ ForgetLoop

-------------------------------------------------------------------------------
(* One round of the loop. *)

(* Mutant of TakeSnapshot: reconcile runs without control.lock.               *)
TakeSnapshotUnlocked ==
    /\ wpc = "top" /\ ~broken
    /\ LET changed == Snapshot # sig
       IN  /\ failures' = IF changed THEN 0 ELSE failures
           /\ retry' = IF changed THEN "none" ELSE retry
           /\ IF changed \/ force \/ retry = "due"
              THEN /\ op' = [op EXCEPT ![Watch] = Reconcile]
                   /\ loc' = [loc EXCEPT ![Watch] = cfg]
                   /\ Goto(Watch, "reconcile")
                   /\ now' = Snapshot
                   /\ wpc' = "reconcile"
                   /\ UNCHANGED <<lock, files, smbd, device, seen>>
              ELSE wpc' = "arm" /\ UNCHANGED <<vars, now>>
    /\ UNCHANGED <<sig, force, crashes, armed, children, ev, broken>>

TakeSnapshot ==
    /\ wpc = "top" /\ ~broken
    /\ LET changed == Snapshot # sig
       IN  /\ failures' = IF changed THEN 0 ELSE failures
           /\ retry' = IF changed THEN "none" ELSE retry
           /\ IF changed \/ force \/ retry = "due"
              THEN /\ Issue(Watch, Reconcile)
                   /\ now' = Snapshot
                   /\ wpc' = "reconcile"
              ELSE wpc' = "arm" /\ UNCHANGED <<vars, now>>
    /\ UNCHANGED <<sig, force, crashes, armed, children, ev, broken>>

(* Mutant of SnapshotFails: the round is not slept on.                        *)
SnapshotFailsBusily ==
    /\ wpc = "top" /\ broken
    /\ retry' = "none" /\ force' = TRUE
    /\ wpc' = "top"
    /\ UNCHANGED <<vars, sig, now, failures, crashes, armed, children, ev, broken>>

(* A file that does not parse: nothing is reconciled, and a retry or a forced *)
(* reconcile that was due is forgotten.                                       *)
SnapshotFails ==
    /\ wpc = "top" /\ broken
    /\ retry' = "none" /\ force' = FALSE
    /\ wpc' = "arm"
    /\ UNCHANGED <<vars, sig, now, failures, crashes, armed, children, ev, broken>>

(* Mutant of ReconcileEnds: an error is not retried.                          *)
ReconcileEndsOnce ==
    /\ wpc = "reconcile"
    /\ Return(Watch)
    /\ failures' = IF pc[Watch] = "done" THEN 0
                   ELSE Least(failures + 1, MaxFailures)
    /\ retry' = "none"
    /\ sig' = now
    /\ now' = NoSig
    /\ wpc' = "children"
    /\ UNCHANGED <<force, crashes, armed, children, ev, broken>>

(* reconcile has released the lock.  An error is retried after 2, 4 and 8 s.  *)
ReconcileEnds ==
    /\ wpc = "reconcile"
    /\ Return(Watch)
    /\ failures' = IF pc[Watch] = "done" THEN 0
                   ELSE Least(failures + 1, MaxFailures)
    /\ retry' = IF failures' \in 1..3 THEN "armed" ELSE "none"
    /\ sig' = now
    /\ now' = NoSig
    /\ wpc' = "children"
    /\ UNCHANGED <<force, crashes, armed, children, ev, broken>>

(* Open a pidfd of the servers that run now, after the lock was released.     *)
ReadChildren ==
    /\ wpc = "children"
    /\ children' = IF smbd # NoSmbd THEN "live" ELSE "none"
    /\ force' = FALSE
    /\ wpc' = "arm"
    /\ UNCHANGED <<vars, sig, now, failures, retry, crashes, armed, ev, broken>>

(* Mutant of ArmStorage: the sockets are drained before poll.                 *)
ArmStorageDrained ==
    /\ wpc = "arm"
    /\ armed' = (storage # "ready" /\ ~broken)
    /\ ev' = {}
    /\ wpc' = "recheck"
    /\ UNCHANGED <<vars, sig, now, force, failures, retry, crashes, children,
                   broken>>

ArmStorage ==
    /\ wpc = "arm"
    /\ armed' = (storage # "ready" /\ ~broken)
    /\ wpc' = "recheck"
    /\ UNCHANGED <<vars, sig, now, force, failures, retry, crashes, children,
                   ev, broken>>

RecheckStorage ==
    /\ wpc = "recheck"
    /\ IF armed /\ storage = "ready" /\ ~broken
       THEN /\ wpc' = "top" /\ force' = TRUE
            /\ armed' = FALSE /\ ev' = ev \ {"dir"}
       ELSE wpc' = "poll" /\ UNCHANGED <<force, armed, ev>>
    /\ UNCHANGED <<vars, sig, now, failures, retry, crashes, children, broken>>

(* The retry timer runs out.                                                  *)
RetryDue ==
    /\ retry = "armed"
    /\ retry' = "due"
    /\ UNCHANGED <<vars, wpc, sig, now, force, failures, crashes, armed,
                   children, ev, broken>>

Readable == ev # {} \/ children = "dead" \/ retry = "due"

Coalesced == {"net", "cfg"}

(* Mutant of Wake: the exit of the master does not force a reconcile.         *)
WakeCalmly ==
    /\ wpc = "poll"
    /\ Readable
    /\ IF children = "dead" THEN children' = "none" ELSE UNCHANGED children
    /\ force' = (force \/ ev \cap {"ce", "dir"} # {})
    /\ wpc' = IF ev \cap Coalesced # {} THEN "window" ELSE "top"
    /\ ev' = {}
    /\ armed' = FALSE
    /\ UNCHANGED <<vars, sig, now, failures, crashes, retry, broken>>

(* poll returns: the flags of lines 228-252, then the first drain of 256.     *)
(* Any number of the crashes counted before may be older than 30 s.           *)
Wake ==
    /\ wpc = "poll"
    /\ Readable
    /\ IF children = "dead"
       THEN /\ \E kept \in 0..crashes :
                  crashes' = Least(kept + 1, MaxCrashes)
            /\ retry' = IF crashes' > 3 THEN "armed" ELSE retry
            /\ force' = (crashes' <= 3)
            /\ children' = "none"
       ELSE /\ force' = (force \/ ev \cap {"ce", "dir"} # {})
            /\ UNCHANGED <<crashes, retry, children>>
    /\ wpc' = IF ev \cap Coalesced # {} THEN "window" ELSE "top"
    /\ ev' = {}
    /\ armed' = FALSE
    /\ UNCHANGED <<vars, sig, now, failures, broken>>

(* The coalescing window ends after 120 ms; what came meanwhile is drained.   *)
WindowEnds ==
    /\ wpc = "window"
    /\ wpc' = "top"
    /\ ev' = ev \ Coalesced
    /\ UNCHANGED <<vars, sig, now, force, failures, retry, crashes, armed,
                   children, broken>>

-------------------------------------------------------------------------------
Round == \/ TakeSnapshot \/ SnapshotFails \/ ReconcileEnds \/ ReadChildren \/ ArmStorage
         \/ RecheckStorage \/ Wake \/ WindowEnds

WNext == Others \/ Edit \/ StartWatch \/ EndWatch \/ DeviceReboots \/ Round \/ RetryDue

WSpec == WInit /\ [][WNext]_wvars

(* The kernel schedules a process that can run and grants a flock to each of  *)
(* its waiters in the end; the loop of a watcher runs, and its timer runs     *)
(* out.  Nobody has to start a watcher, and nothing makes the loop reconcile  *)
(* again and again: it has no periodic timer (watch.rs 108).                  *)
WFairness ==
    /\ \A p \in Proc : /\ WF_wvars(Step(p) /\ Others)
                       /\ SF_wvars((Lock(p) \/ LoadFails(p)) /\ Others)
    /\ \A p \in Cmd : WF_wvars(Return(p) /\ Others)
    /\ WF_wvars(Round)
    /\ WF_wvars(RetryDue)

WFairSpec == WSpec /\ WFairness

-------------------------------------------------------------------------------
(* What the loop promises. *)

(* Every variable of the loop keeps its type.                                 *)
WTypeOK ==
    /\ wpc \in {"off", "top", "reconcile", "children", "arm", "recheck", "poll",
                "window"}
    /\ sig \in Snapshots \cup {NoSig}
    /\ now \in Snapshots \cup {NoSig}
    /\ force \in BOOLEAN
    /\ failures \in 0..MaxFailures
    /\ retry \in {"none", "armed", "due"}
    /\ crashes \in 0..MaxCrashes
    /\ children \in {"none", "live", "dead"}
    /\ armed \in BOOLEAN
    /\ ev \subseteq Source
    /\ broken \in BOOLEAN

(* The loop refines the critical sections: it takes no step outside them.     *)
ControlSpec == Init /\ [][Next]_vars

AtRest == wpc = "poll" /\ ~Readable

(* When the loop sleeps it has reconciled for the configuration and the LAN   *)
(* as they are: no change slips between the snapshot, the drains of the       *)
(* coalescing window and poll.                                                *)
NoMissedChange == AtRest /\ ~broken => sig # NoSig /\ sig.cfg = cfg /\ sig.net = lan

(* The same for the storage, whose directories are armed after the snapshot.  *)
NoMissedStorage == AtRest => sig # NoSig /\ sig.ready = (storage = "ready")

(* README "LAN Guard": at rest no server runs without a LAN.                  *)
LanGuardAtRest == AtRest /\ lan = {} => smbd = NoSmbd

(* At rest, with nothing left to retry, a wanted server runs.                 *)
ServingAtRest ==
    AtRest /\ retry = "none" /\ failures = 0 /\ Wanted => smbd # NoSmbd

(* A reconcile that failed is run again, until it has failed four times; but  *)
(* not if config.conf does not parse when its time has come.                  *)
FailureRetried ==
    wpc = "children" /\ failures \in 1..3 ~> wpc \in {"reconcile", "off"} \/ broken

(* When the supervised master ends, reconcile runs, in a crash burst too; but *)
(* not if it ends before the loop has opened the new pidfds (ServingAtRest),  *)
(* or while config.conf does not parse.                                       *)
CrashNoticed ==
    children = "dead" /\ wpc # "children" ~> wpc \in {"reconcile", "off"} \/ broken

(* The snapshot that the loop has reconciled for, or is reconciling for, is   *)
(* still true.                                                                *)
UpToDate == Snapshot = IF wpc = "reconcile" THEN now ELSE sig

(* The loop has begun a reconcile, or it sleeps and will run one: a retry is  *)
(* set, or the master that it supervised is dead.                             *)
Owed == \/ wpc = "reconcile" /\ pc[Watch] = "lock"
        \/ wpc = "poll" /\ (retry # "none" \/ children = "dead")

(* A reconcile that is owed leads to the server that is asked for, whatever   *)
(* files earlier commands have left and however often a launch is in vain:    *)
(* the retries go on until it runs and listens, unless it has failed four     *)
(* times, the snapshot goes out of date, the server is no longer wanted, the  *)
(* file does not parse or the watcher ends.  Where nothing is owed there is   *)
(* no such promise (NoMissedChange and ServingAtRest say what is left then).  *)
Converges ==
    Owed /\ UpToDate /\ Wanted ~>
        \/ Served \/ ~UpToDate \/ ~Wanted
        \/ broken \/ wpc = "off" \/ failures = MaxFailures

Undisturbed == /\ <>[][FALSE]_<<cfg, lan, storage, password, broken>>
               /\ <>[](wpc # "off")
               /\ <>[][UNCHANGED pc => smbd' # NoSmbd]_smbd
               /\ <>[](\A p \in Cmd : pc[p] = "idle")

(* A watcher that runs comes to rest when nobody disturbs it: it neither      *)
(* spins, on a file that does not parse either, nor wakes itself through its  *)
(* own writes, and an error is not retried for ever.                          *)
ComesToRest == Undisturbed => <>[](wpc = "poll")
=============================================================================
