----------------------------- MODULE LogRotation ------------------------------
(* The logs of one boot of the device.  prepare archives the directory log/   *)
(* of an earlier boot, prunes the archives and leaves a marker with the boot  *)
(* id in the new log/.  Its callers (start, boot, watch, logs-prepare) hold   *)
(* control.lock, so one of them runs at a time, but a kill, an I/O error or   *)
(* a reboot may end it between any two steps, and the writers of log lines    *)
(* (App::log, notify.sh, diagnose.sh, smbd) do not take the lock.             *)
EXTENDS Naturals, FiniteSets, FiniteSetsExt

CONSTANTS
    MaxBoot,      \* the boots that are looked at are 1 .. MaxBoot
    MaxTime,      \* the times of the clock are 1 .. MaxTime, and prepare is
                  \* not interrupted when there are MaxTime archives
    MaxArchives,  \* MAX_ARCHIVES
    MaxBytes,     \* MAX_ARCHIVE_BYTES
    Size,         \* the sizes that a log directory may have
    NewSize,      \* the size of a new one
    NoDir         \* the value of log when log/ does not exist

(* Boot 0 is a release that kept no marker; as a marker 0 means that there is *)
(* none, and as a label it is "legacy".                                       *)
Boot == 0..MaxBoot
Legacy == 0

(* lines are the boots of the lines in the current files of log/, older those *)
(* in module.log.1 and its like, which the next one of that name replaces.    *)
Dir == [mark : Boot, lines : SUBSET Boot, older : SUBSET Boot, size : Size]
Lines(d) == d.lines \cup d.older
Archive == [time : 1..MaxTime, label : Boot, lines : SUBSET Boot, size : Size,
            stamp : BOOLEAN]

ASSUME LogAssumption == /\ MaxBoot \in Nat \ {0} /\ MaxTime \in Nat
                        /\ MaxArchives \in Nat /\ MaxBytes \in Nat
                        /\ Size \subseteq Nat /\ NewSize \in Size
                        /\ NoDir \notin Dir

VARIABLES
    boot,     \* the id of the present boot
    log,      \* log/: its marker, the boots its lines come from, its size
    history,  \* log-history/: archives, named by time and label
    stamp,    \* auto_diagnostic.stamp of an older release exists
    pc,       \* where prepare is
    label,    \* the marker that prepare has read
    archive   \* the time in the name of its archive, 0 before the rename

local == <<pc, label, archive>>
vars == <<boot, log, history, stamp, local>>

NewDir == [mark |-> Legacy, lines |-> {}, older |-> {}, size |-> NewSize]

Marker == IF log = NoDir THEN Legacy ELSE log.mark

Empty == IF log = NoDir THEN TRUE ELSE Marker = Legacy /\ Lines(log) = {}

Changed == Marker # boot

Bytes(h) == MapThenSumSet(LAMBDA a : a.size, h)

WithinLimits == Cardinality(history) <= MaxArchives /\ Bytes(history) <= MaxBytes

-------------------------------------------------------------------------------
Init == /\ boot = 1
        /\ log \in {NoDir, [NewDir EXCEPT !.lines = {Legacy}]}
        /\ history = {}
        /\ stamp \in BOOLEAN
        /\ pc = "idle" /\ label = Legacy /\ archive = 0

(* Mutant of Begin: the marker is written first.                              *)
BeginMarks ==
    /\ pc = "idle"
    /\ Changed
    /\ label' = Marker
    /\ log' = IF log = NoDir THEN log ELSE [log EXCEPT !.mark = boot]
    /\ pc' = "archive"
    /\ UNCHANGED <<boot, history, stamp, archive>>

(* prepare is called, finds the marker of another boot or none, and reads it. *)
Begin ==
    /\ pc = "idle"
    /\ Changed
    /\ label' = Marker
    /\ pc' = "archive"
    /\ UNCHANGED <<boot, log, history, stamp, archive>>

(* Mutant of Rename: a clock that stands before the epoch is taken for 0.     *)
RenameEpoch ==
    /\ pc = "archive"
    /\ ~Empty
    /\ \E t \in (0..MaxTime) \ {a.time : a \in history} :
         /\ history' = history \cup {[time |-> t, label |-> label,
                                      lines |-> Lines(log), size |-> log.size,
                                      stamp |-> FALSE]}
         /\ archive' = t
    /\ log' = NoDir
    /\ pc' = "stamp"
    /\ UNCHANGED <<boot, stamp, label>>

(* log/ is renamed if there is something in it.  The clock may have been set  *)
(* back since the last archive; a name is used once.                          *)
Rename ==
    /\ pc = "archive"
    /\ ~Empty
    /\ \E t \in (1..MaxTime) \ {a.time : a \in history} :
         /\ history' = history \cup {[time |-> t, label |-> label,
                                      lines |-> Lines(log), size |-> log.size,
                                      stamp |-> FALSE]}
         /\ archive' = t
    /\ log' = NoDir
    /\ pc' = "stamp"
    /\ UNCHANGED <<boot, stamp, label>>

NothingToRename ==
    /\ pc = "archive"
    /\ Empty
    /\ pc' = "create"
    /\ UNCHANGED <<boot, log, history, stamp, label, archive>>

MoveStamp ==
    /\ pc = "stamp"
    /\ history' = {IF a.time = archive THEN [a EXCEPT !.stamp = stamp] ELSE a :
                      a \in history}
    /\ stamp' = FALSE
    /\ pc' = "create"
    /\ UNCHANGED <<boot, log, label, archive>>

(* Mutant of Create: a directory that somebody has created is replaced.       *)
CreateAnew ==
    /\ pc = "create"
    /\ log' = NewDir
    /\ pc' = "begin"
    /\ UNCHANGED <<boot, history, stamp, label, archive>>

Create ==
    /\ pc = "create"
    /\ log' = IF log = NoDir THEN NewDir ELSE log
    /\ pc' = "begin"
    /\ UNCHANGED <<boot, history, stamp, label, archive>>

(* Mutant of FirstLine: the marker is written before the archives are pruned. *)
FirstLineMarks ==
    /\ pc = "begin"
    /\ log' = [log EXCEPT !.lines = @ \cup {boot}, !.mark = boot]
    /\ pc' = "prune"
    /\ UNCHANGED <<boot, history, stamp, label, archive>>

(* BOOT_LOG_BEGIN in module.log.                                              *)
FirstLine ==
    /\ pc = "begin"
    /\ log' = [log EXCEPT !.lines = @ \cup {boot}]
    /\ pc' = "prune"
    /\ UNCHANGED <<boot, history, stamp, label, archive>>

(* The archive with the first name goes, as long as a limit is exceeded.      *)
Prune ==
    /\ pc = "prune"
    /\ ~WithinLimits
    /\ \E a \in history : /\ \A b \in history : a.time <= b.time
                          /\ history' = history \ {a}
    /\ UNCHANGED <<boot, log, stamp, local>>

Pruned ==
    /\ pc = "prune"
    /\ WithinLimits
    /\ pc' = "mark"
    /\ UNCHANGED <<boot, log, history, stamp, label, archive>>

(* Mutant of Mark: the marker of the archive is written again.                *)
MarkPrevious ==
    /\ pc = "mark"
    /\ log' = [log EXCEPT !.mark = label]
    /\ pc' = "idle" /\ label' = Legacy /\ archive' = 0
    /\ UNCHANGED <<boot, history, stamp>>

Mark ==
    /\ pc = "mark"
    /\ log' = [log EXCEPT !.mark = boot]
    /\ pc' = "idle" /\ label' = Legacy /\ archive' = 0
    /\ UNCHANGED <<boot, history, stamp>>

-------------------------------------------------------------------------------
(* The caller is killed, or a step fails and is returned with ?.              *)
Kill ==
    /\ pc # "idle"
    /\ Cardinality(history) < MaxTime
    /\ pc' = "idle" /\ label' = Legacy /\ archive' = 0
    /\ UNCHANGED <<boot, log, history, stamp>>

Reboot ==
    /\ boot < MaxBoot
    /\ Cardinality(history) < MaxTime
    /\ boot' = boot + 1
    /\ pc' = "idle" /\ label' = Legacy /\ archive' = 0
    /\ UNCHANGED <<log, history, stamp>>

(* A writer finds its file above its limit and renames it over the one that   *)
(* it renamed before: module.log, notify_stderr.log, smbd.log.                *)
Roll ==
    /\ log # NoDir /\ log.size > NewSize
    /\ \E stay, rolled \in SUBSET log.lines, rest \in SUBSET log.older, n \in Size :
         /\ stay \cup rolled = log.lines
         /\ n <= log.size
         /\ log' = [log EXCEPT !.lines = stay, !.older = rest \cup rolled, !.size = n]
    /\ UNCHANGED <<boot, history, stamp, local>>

(* A line is written; notify.sh and diagnose.sh create log/ for it.           *)
Write ==
    /\ \E n \in Size :
         LET d == IF log = NoDir THEN NewDir ELSE log
         IN  /\ n >= d.size
             /\ log' = [d EXCEPT !.lines = @ \cup {boot}, !.size = n]
    /\ UNCHANGED <<boot, history, stamp, local>>

Step == \/ Begin \/ Rename \/ NothingToRename \/ MoveStamp \/ Create
        \/ FirstLine \/ Prune \/ Pruned \/ Mark

Writers == Roll \/ Write

Next == Step \/ Kill \/ Reboot \/ Writers

Spec == Init /\ [][Next]_vars

(* prepare is called again and again (every start calls it), and goes on.     *)
FairSpec == Spec /\ WF_vars(Step)

-------------------------------------------------------------------------------
(* Every variable keeps its type.                                             *)
TypeOK ==
    /\ boot \in Boot \ {0}
    /\ log \in Dir \cup {NoDir}
    /\ history \subseteq Archive
    /\ stamp \in BOOLEAN
    /\ pc \in {"idle", "archive", "stamp", "create", "begin", "prune", "mark"}
    /\ label \in Boot
    /\ archive \in 0..MaxTime

(* No line is filed under a boot later than the one that wrote it: in an      *)
(* archive named after a boot, or in log/ with its marker, no line comes from *)
(* an earlier boot, whatever was killed between the renames and the marker    *)
(* (logs.rs 61-63).                                                           *)
OldIsNotNew ==
    /\ \A a \in history : \A b \in a.lines : a.label <= b
    /\ ~Empty => \A b \in Lines(log) : log.mark <= b

(* As long as log/ has a marker, which stops further calls of prepare, the    *)
(* archives are within both limits.                                           *)
MarkedIsPruned == Marker # Legacy => WithinLimits

(* The archive a of history is still there, under its name.                   *)
Kept(a) == \E c \in history' : [c EXCEPT !.stamp = a.stamp] = a

(* What prepare and its interruptions may lose is the oldest archive above    *)
(* the limits.  What is in log/ leaves it only as a whole, into a new archive *)
(* (logs.rs 61-63, 96-101), and once prepare has succeeded not before the     *)
(* next boot; only a writer that is above its limit drops a file, and that is *)
(* one which was renamed before, never a current one (main.rs 78-80).  The    *)
(* stamp leaves its place only into an archive.                               *)
OnlyOldestIsLost ==
    [][/\ \A a \in history :
             Kept(a) \/ (~WithinLimits /\ \A b \in history : a.time <= b.time)
       /\ log # NoDir =>
             \/ log' # NoDir /\ Lines(log) \subseteq Lines(log')
             \/ Roll /\ log.lines \subseteq Lines(log')
             \/ /\ Changed
                /\ \E a \in history' \ history : a.lines = Lines(log) /\ a.size = log.size
       /\ stamp => stamp' \/ \E a \in history' : a.stamp]_vars

(* When no boot and no failure interrupts it any more, prepare leaves the     *)
(* marker of the present boot.                                                *)
GetsPrepared == <>[][Step \/ Writers]_vars => <>[]~Changed
=============================================================================
