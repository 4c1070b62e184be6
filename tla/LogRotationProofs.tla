-------------------------- MODULE LogRotationProofs ---------------------------
(* Proofs about the rotation of the boot logs, for any number of boots and    *)
(* archives and any limits.                                                   *)
EXTENDS LogRotation, FiniteSetTheorems, TLAPS

(* The invariant.  Before the rename, log/ has no marker of this boot, and    *)
(* the label that was read still fits what is in it; after it, log/ has no    *)
(* marker and only lines of this boot until prepare writes the marker, and it *)
(* does so only after the pruning.                                            *)
BeforeRename == pc = "archive" =>
    /\ Changed
    /\ label <= boot
    /\ log # NoDir => \A b \in Lines(log) : label <= b

AfterRename == pc \in {"stamp", "create", "begin", "prune", "mark"} =>
    (log # NoDir => log.mark = Legacy /\ Lines(log) \subseteq {boot})

DirExists == pc \in {"begin", "prune", "mark"} => log # NoDir

PrunedFirst == pc = "mark" => WithinLimits

NotAhead == log # NoDir => log.mark <= boot

Labelled == /\ \A a \in history : \A b \in a.lines : a.label <= b
            /\ log # NoDir => \A b \in Lines(log) : log.mark <= b

(* Each conjunct is needed for the next step of prepare; the last two pass the *)
(* result of the pruning on to the marker.                                    *)
Inv == /\ TypeOK
       /\ Labelled
       /\ NotAhead
       /\ BeforeRename
       /\ AfterRename
       /\ DirExists
       /\ PrunedFirst
       /\ MarkedIsPruned

-------------------------------------------------------------------------------
LEMMA LimitsKept ==
    ASSUME history' = history
    PROVE  WithinLimits' <=> WithinLimits
BY DEF WithinLimits

(* A new directory has no marker and no lines.                                *)
LEMMA NewDirType ==
    /\ NewDir \in Dir
    /\ NewDir # NoDir
    /\ NewDir.mark = Legacy /\ NewDir.lines = {} /\ Lines(NewDir) = {}
BY LogAssumption DEF NewDir, Dir, Boot, Legacy, Lines

(* A directory to which a line was added.                                     *)
LEMMA LineAdded ==
    ASSUME NEW d \in Dir, NEW b \in Boot, NEW n \in Size
    PROVE  LET e == [d EXCEPT !.lines = @ \cup {b}, !.size = n]
           IN  /\ e \in Dir /\ e # NoDir
               /\ e.mark = d.mark /\ Lines(e) = Lines(d) \cup {b}
               /\ d.lines \subseteq e.lines
<1> DEFINE e == [d EXCEPT !.lines = @ \cup {b}, !.size = n]
<1>1. e.mark = d.mark /\ e.lines = d.lines \cup {b} /\ e.older = d.older
  BY DEF Dir
<1>2. e \in Dir
  BY DEF Dir
<1>. QED
  BY <1>1, <1>2, LogAssumption DEF Lines

(* A directory whose marker was written.                                      *)
LEMMA Marked ==
    ASSUME NEW d \in Dir, NEW m \in Boot
    PROVE  LET e == [d EXCEPT !.mark = m]
           IN  /\ e \in Dir /\ e # NoDir
               /\ e.mark = m /\ Lines(e) = Lines(d)
<1> DEFINE e == [d EXCEPT !.mark = m]
<1>1. e.mark = m /\ e.lines = d.lines /\ e.older = d.older
  BY DEF Dir
<1>2. e \in Dir
  BY DEF Dir
<1>. QED
  BY <1>1, <1>2, LogAssumption DEF Lines

(* When a file was rolled, log/ has no other lines than before, and all of    *)
(* those that were in current files.                                          *)
LEMMA Rolled ==
    ASSUME log \in Dir, Roll
    PROVE  /\ log' \in Dir /\ log' # NoDir
           /\ log'.mark = log.mark /\ Lines(log') \subseteq Lines(log)
           /\ log.lines \subseteq Lines(log')
<1>1. PICK stay \in SUBSET log.lines, rolled \in SUBSET log.lines,
           rest \in SUBSET log.older, n \in Size :
        /\ stay \cup rolled = log.lines
        /\ log' = [log EXCEPT !.lines = stay, !.older = rest \cup rolled, !.size = n]
  BY DEF Roll
<1>2. /\ log'.mark = log.mark
      /\ log'.lines = stay /\ log'.older = rest \cup rolled
  BY <1>1 DEF Dir
<1>3. log' \in Dir
  BY <1>1 DEF Dir
<1>. QED
  BY <1>1, <1>2, <1>3, LogAssumption DEF Lines

LEMMA InitInv == Init => Inv
<1>1. SUFFICES ASSUME Init PROVE Inv
  OBVIOUS
<1>2. boot = 1 /\ pc = "idle" /\ history = {} /\ archive = 0 /\ label = 0
  BY <1>1 DEF Init, Legacy
<1>3. log = NoDir \/ (log \in Dir /\ log # NoDir /\ log.mark = Legacy)
  BY <1>1, NewDirType, LogAssumption DEF Init, Dir, NewDir, Boot, Legacy
<1>4. log # NoDir => \A b \in Lines(log) : b = 0
  BY <1>1 DEF Init, NewDir, Legacy, Lines
<1>5. TypeOK
  BY <1>1, <1>2, <1>3, LogAssumption DEF Init, TypeOK, Boot
<1>6. Labelled /\ NotAhead
  BY <1>2, <1>3, <1>4 DEF Labelled, NotAhead, Legacy
<1>7. BeforeRename /\ AfterRename /\ DirExists /\ PrunedFirst
  BY <1>2 DEF BeforeRename, AfterRename, DirExists, PrunedFirst
<1>8. MarkedIsPruned
  BY <1>3 DEF MarkedIsPruned, Marker
<1>. QED
  BY <1>5, <1>6, <1>7, <1>8 DEF Inv

-------------------------------------------------------------------------------
(* The steps of prepare, one lemma for each.                                  *)
LEMMA BeginInv == Inv /\ Begin => Inv'
<1>1. SUFFICES ASSUME Inv, Begin PROVE Inv'
  OBVIOUS
<1>2. /\ UNCHANGED <<boot, log, history, stamp, archive>>
      /\ pc' = "archive" /\ label' = Marker /\ Changed
  BY <1>1 DEF Begin
<1>3. Marker \in Boot /\ Marker <= boot
  BY <1>1, LogAssumption DEF Inv, TypeOK, NotAhead, Marker, Dir, Boot, Legacy
<1>4. TypeOK'
  BY <1>1, <1>2, <1>3 DEF Inv, TypeOK
<1>5. BeforeRename'
  BY <1>1, <1>2, <1>3 DEF Inv, Labelled, BeforeRename, Marker, Changed
<1>6. MarkedIsPruned'
  BY <1>1, <1>2, LimitsKept DEF Inv, MarkedIsPruned, Marker
<1>7. (Labelled /\ NotAhead)'
  BY <1>1, <1>2 DEF Inv, Labelled, NotAhead
<1>8. (AfterRename /\ DirExists /\ PrunedFirst)'
  BY <1>2 DEF AfterRename, DirExists, PrunedFirst
<1>. QED
  BY <1>4, <1>5, <1>6, <1>7, <1>8 DEF Inv

LEMMA RenameInv == Inv /\ Rename => Inv'
<1>1. SUFFICES ASSUME Inv, Rename PROVE Inv'
  OBVIOUS
<1>2. PICK t \in 1..MaxTime :
        history' = history \cup {[time |-> t, label |-> label, lines |-> Lines(log),
                                  size |-> log.size, stamp |-> FALSE]}
                   /\ archive' = t
  BY <1>1 DEF Rename
<1>3. /\ UNCHANGED <<boot, stamp, label>>
      /\ log' = NoDir /\ pc = "archive" /\ pc' = "stamp"
  BY <1>1 DEF Rename
<1>4. log \in Dir
  BY <1>1 DEF Inv, TypeOK, Rename, Empty
<1> DEFINE new == [time |-> t, label |-> label, lines |-> Lines(log),
                   size |-> log.size, stamp |-> FALSE]
<1>5. new \in Archive
  BY <1>1, <1>4 DEF Inv, TypeOK, Archive, Dir, Lines
<1>6. TypeOK'
  <2>1. history' \subseteq Archive
    BY <1>1, <1>2, <1>5 DEF Inv, TypeOK
  <2>2. archive' \in 0..MaxTime
    BY <1>2, LogAssumption
  <2>. QED
    BY <1>1, <1>3, <2>1, <2>2 DEF Inv, TypeOK
<1>7. \A b \in new.lines : new.label <= b
  BY <1>1, <1>3, <1>4, LogAssumption DEF Inv, BeforeRename
<1>8. (Labelled /\ NotAhead)'
  BY <1>1, <1>2, <1>3, <1>7 DEF Inv, Labelled, NotAhead
<1>9. MarkedIsPruned'
  BY <1>3 DEF MarkedIsPruned, Marker
<1>10. (BeforeRename /\ AfterRename /\ DirExists /\ PrunedFirst)'
  BY <1>3 DEF BeforeRename, AfterRename, DirExists, PrunedFirst
<1>. QED
  BY <1>6, <1>8, <1>9, <1>10 DEF Inv

LEMMA NothingToRenameInv == Inv /\ NothingToRename => Inv'
<1>1. SUFFICES ASSUME Inv, NothingToRename PROVE Inv'
  OBVIOUS
<1>2. UNCHANGED <<boot, log, history, stamp, label, archive>> /\ pc' = "create"
  BY <1>1 DEF NothingToRename
<1>3. TypeOK'
  BY <1>1, <1>2 DEF Inv, TypeOK
<1>4. AfterRename'
  BY <1>1, <1>2 DEF NothingToRename, Empty, Marker, AfterRename
<1>5. MarkedIsPruned'
  BY <1>1, <1>2, LimitsKept DEF Inv, MarkedIsPruned, Marker
<1>6. (Labelled /\ NotAhead /\ BeforeRename /\ DirExists /\ PrunedFirst)'
  BY <1>1, <1>2 DEF Inv, Labelled, NotAhead, BeforeRename, DirExists, PrunedFirst
<1>. QED
  BY <1>3, <1>4, <1>5, <1>6 DEF Inv

LEMMA MoveStampInv == Inv /\ MoveStamp => Inv'
<1>1. SUFFICES ASSUME Inv, MoveStamp PROVE Inv'
  OBVIOUS
<1>2. /\ UNCHANGED <<boot, log, label, archive>>
      /\ pc = "stamp" /\ pc' = "create" /\ stamp' = FALSE
  BY <1>1 DEF MoveStamp
<1>3. \A c \in history' : \E a \in history :
        c = IF a.time = archive THEN [a EXCEPT !.stamp = stamp] ELSE a
  BY <1>1 DEF MoveStamp
<1>4. history \subseteq Archive /\ stamp \in BOOLEAN
  BY <1>1 DEF Inv, TypeOK
<1>5. \A c \in history' : c \in Archive
                          /\ \E a \in history : c.label = a.label /\ c.lines = a.lines
  <2>1. SUFFICES ASSUME NEW c \in history'
                 PROVE  c \in Archive
                        /\ \E a \in history : c.label = a.label /\ c.lines = a.lines
    OBVIOUS
  <2>2. PICK a \in history :
          c = IF a.time = archive THEN [a EXCEPT !.stamp = stamp] ELSE a
    BY <1>3
  <2>3. c \in Archive /\ c.label = a.label /\ c.lines = a.lines
    BY <1>4, <2>2 DEF Archive
  <2>. QED
    BY <2>3
<1>6. TypeOK'
  BY <1>1, <1>2, <1>5 DEF Inv, TypeOK
<1>7. (Labelled /\ NotAhead)'
  BY <1>1, <1>2, <1>5 DEF Inv, Labelled, NotAhead
<1>8. (AfterRename /\ MarkedIsPruned)'
  BY <1>1, <1>2 DEF Inv, AfterRename, MarkedIsPruned, Marker
<1>9. (BeforeRename /\ DirExists /\ PrunedFirst)'
  BY <1>2 DEF BeforeRename, DirExists, PrunedFirst
<1>. QED
  BY <1>6, <1>7, <1>8, <1>9 DEF Inv

LEMMA CreateInv == Inv /\ Create => Inv'
<1>1. SUFFICES ASSUME Inv, Create PROVE Inv'
  OBVIOUS
<1>2. /\ UNCHANGED <<boot, history, stamp, label, archive>>
      /\ pc = "create" /\ pc' = "begin"
      /\ log' = IF log = NoDir THEN NewDir ELSE log
  BY <1>1 DEF Create
<1>3. /\ log' \in Dir /\ log' # NoDir
      /\ log'.mark = Legacy /\ Lines(log') \subseteq {boot}
  BY <1>1, <1>2, NewDirType, LogAssumption DEF Inv, TypeOK, AfterRename
<1>4. TypeOK'
  BY <1>1, <1>2, <1>3 DEF Inv, TypeOK
<1>5. (Labelled /\ NotAhead)'
  BY <1>1, <1>2, <1>3 DEF Inv, TypeOK, Labelled, NotAhead, Boot, Legacy
<1>6. (AfterRename /\ MarkedIsPruned)'
  BY <1>2, <1>3 DEF AfterRename, MarkedIsPruned, Marker
<1>7. (BeforeRename /\ DirExists /\ PrunedFirst)'
  BY <1>2, <1>3 DEF BeforeRename, DirExists, PrunedFirst
<1>. QED
  BY <1>4, <1>5, <1>6, <1>7 DEF Inv

LEMMA FirstLineInv == Inv /\ FirstLine => Inv'
<1>1. SUFFICES ASSUME Inv, FirstLine PROVE Inv'
  OBVIOUS
<1>2. /\ UNCHANGED <<boot, history, stamp, label, archive>>
      /\ pc = "begin" /\ pc' = "prune"
      /\ log' = [log EXCEPT !.lines = @ \cup {boot}]
  BY <1>1 DEF FirstLine
<1>3. /\ log \in Dir /\ boot \in Boot
      /\ log.mark = Legacy /\ Lines(log) \subseteq {boot}
  BY <1>1, <1>2 DEF Inv, TypeOK, AfterRename, DirExists
<1>4. /\ log' \in Dir /\ log' # NoDir
      /\ log'.mark = Legacy /\ Lines(log') \subseteq {boot}
  <2>1. log' = [log EXCEPT !.lines = @ \cup {boot}, !.size = log.size]
    BY <1>2, <1>3 DEF Dir
  <2>2. log.size \in Size
    BY <1>3 DEF Dir
  <2>3. /\ log' \in Dir /\ log' # NoDir
        /\ log'.mark = log.mark /\ Lines(log') = Lines(log) \cup {boot}
    BY <1>3, <2>1, <2>2, LineAdded
  <2>. QED
    BY <1>3, <2>3
<1>5. TypeOK'
  BY <1>1, <1>2, <1>4 DEF Inv, TypeOK
<1>6. (Labelled /\ NotAhead)'
  BY <1>1, <1>2, <1>4 DEF Inv, TypeOK, Labelled, NotAhead, Boot, Legacy
<1>7. (AfterRename /\ MarkedIsPruned)'
  BY <1>2, <1>4 DEF AfterRename, MarkedIsPruned, Marker
<1>8. (BeforeRename /\ DirExists /\ PrunedFirst)'
  BY <1>2, <1>4 DEF BeforeRename, DirExists, PrunedFirst
<1>. QED
  BY <1>5, <1>6, <1>7, <1>8 DEF Inv

LEMMA PruneInv == Inv /\ Prune => Inv'
<1>1. SUFFICES ASSUME Inv, Prune PROVE Inv'
  OBVIOUS
<1>2. /\ UNCHANGED <<boot, log, stamp, pc, label, archive>>
      /\ pc = "prune" /\ history' \subseteq history
  BY <1>1 DEF Prune, local
<1>3. (TypeOK /\ Labelled /\ NotAhead)'
  BY <1>1, <1>2 DEF Inv, TypeOK, Labelled, NotAhead
<1>4. (AfterRename /\ MarkedIsPruned)'
  BY <1>1, <1>2 DEF Inv, AfterRename, MarkedIsPruned, Marker
<1>5. (BeforeRename /\ DirExists /\ PrunedFirst)'
  BY <1>1, <1>2 DEF Inv, BeforeRename, DirExists, PrunedFirst
<1>. QED
  BY <1>3, <1>4, <1>5 DEF Inv

LEMMA PrunedInv == Inv /\ Pruned => Inv'
<1>1. SUFFICES ASSUME Inv, Pruned PROVE Inv'
  OBVIOUS
<1>2. /\ UNCHANGED <<boot, log, history, stamp, label, archive>>
      /\ pc = "prune" /\ pc' = "mark" /\ WithinLimits
  BY <1>1 DEF Pruned
<1>3. (PrunedFirst /\ MarkedIsPruned)'
  BY <1>2, LimitsKept DEF PrunedFirst, MarkedIsPruned
<1>4. (TypeOK /\ Labelled /\ NotAhead)'
  BY <1>1, <1>2 DEF Inv, TypeOK, Labelled, NotAhead
<1>5. (BeforeRename /\ AfterRename /\ DirExists)'
  BY <1>1, <1>2 DEF Inv, BeforeRename, AfterRename, DirExists
<1>. QED
  BY <1>3, <1>4, <1>5 DEF Inv

LEMMA MarkInv == Inv /\ Mark => Inv'
<1>1. SUFFICES ASSUME Inv, Mark PROVE Inv'
  OBVIOUS
<1>2. /\ UNCHANGED <<boot, history, stamp>>
      /\ pc = "mark" /\ pc' = "idle" /\ label' = Legacy /\ archive' = 0
      /\ log' = [log EXCEPT !.mark = boot]
  BY <1>1 DEF Mark
<1>3. /\ log \in Dir /\ boot \in Boot /\ boot \in Nat
      /\ Lines(log) \subseteq {boot} /\ WithinLimits
  BY <1>1, <1>2 DEF Inv, TypeOK, AfterRename, DirExists, PrunedFirst, Boot
<1>4. /\ log' \in Dir /\ log' # NoDir
      /\ log'.mark = boot /\ Lines(log') \subseteq {boot}
  BY <1>2, <1>3, Marked
<1>5. TypeOK'
  BY <1>1, <1>2, <1>4, LogAssumption DEF Inv, TypeOK, Boot, Legacy
<1>6. (Labelled /\ NotAhead)'
  BY <1>1, <1>2, <1>3, <1>4 DEF Inv, Labelled, NotAhead
<1>7. MarkedIsPruned'
  BY <1>2, <1>3, LimitsKept DEF MarkedIsPruned
<1>8. (BeforeRename /\ AfterRename /\ DirExists /\ PrunedFirst)'
  BY <1>2 DEF BeforeRename, AfterRename, DirExists, PrunedFirst
<1>. QED
  BY <1>5, <1>6, <1>7, <1>8 DEF Inv

(* The steps of others: an end of the caller, a boot, a line.                 *)
LEMMA KillInv == Inv /\ Kill => Inv'
<1>1. SUFFICES ASSUME Inv, Kill PROVE Inv'
  OBVIOUS
<1>2. /\ UNCHANGED <<boot, log, history, stamp>>
      /\ pc' = "idle" /\ label' = Legacy /\ archive' = 0
  BY <1>1 DEF Kill
<1>3. TypeOK'
  BY <1>1, <1>2, LogAssumption DEF Inv, TypeOK, Boot, Legacy
<1>4. (Labelled /\ NotAhead)'
  BY <1>1, <1>2 DEF Inv, Labelled, NotAhead
<1>5. MarkedIsPruned'
  BY <1>1, <1>2, LimitsKept DEF Inv, MarkedIsPruned, Marker
<1>6. (BeforeRename /\ AfterRename /\ DirExists /\ PrunedFirst)'
  BY <1>2 DEF BeforeRename, AfterRename, DirExists, PrunedFirst
<1>. QED
  BY <1>3, <1>4, <1>5, <1>6 DEF Inv

LEMMA RebootInv == Inv /\ Reboot => Inv'
<1>1. SUFFICES ASSUME Inv, Reboot PROVE Inv'
  OBVIOUS
<1>2. /\ UNCHANGED <<log, history, stamp>> /\ boot' = boot + 1 /\ boot < MaxBoot
      /\ pc' = "idle" /\ label' = Legacy /\ archive' = 0
  BY <1>1 DEF Reboot
<1>3. TypeOK'
  BY <1>1, <1>2, LogAssumption DEF Inv, TypeOK, Boot, Legacy
<1>4. NotAhead'
  BY <1>1, <1>2, LogAssumption DEF Inv, TypeOK, NotAhead, Dir, Boot
<1>5. Labelled'
  BY <1>1, <1>2 DEF Inv, Labelled
<1>6. MarkedIsPruned'
  BY <1>1, <1>2, LimitsKept DEF Inv, MarkedIsPruned, Marker
<1>7. (BeforeRename /\ AfterRename /\ DirExists /\ PrunedFirst)'
  BY <1>2 DEF BeforeRename, AfterRename, DirExists, PrunedFirst
<1>. QED
  BY <1>3, <1>4, <1>5, <1>6, <1>7 DEF Inv

LEMMA WriteInv == Inv /\ Write => Inv'
<1>1. SUFFICES ASSUME Inv, Write PROVE Inv'
  OBVIOUS
<1> DEFINE d == IF log = NoDir THEN NewDir ELSE log
<1>2. UNCHANGED <<boot, history, stamp, pc, label, archive>>
  BY <1>1 DEF Write, local
<1>3. PICK n \in Size : log' = [d EXCEPT !.lines = @ \cup {boot}, !.size = n]
  BY <1>1 DEF Write
<1>4. d \in Dir /\ boot \in Boot /\ boot \in Nat /\ boot # 0
  BY <1>1, NewDirType DEF Inv, TypeOK, Boot
<1>5. /\ log' \in Dir /\ log' # NoDir
      /\ log'.mark = d.mark /\ Lines(log') = Lines(d) \cup {boot}
  <2> HIDE DEF d
  <2>. QED
    BY <1>3, <1>4, LineAdded
<1>6. TypeOK'
  BY <1>1, <1>2, <1>5 DEF Inv, TypeOK
<1>7. d.mark <= boot /\ \A b \in Lines(d) : d.mark <= b
  BY <1>1, <1>4, NewDirType DEF Inv, Labelled, NotAhead, Legacy
<1>8. (Labelled /\ NotAhead)'
  BY <1>1, <1>2, <1>5, <1>7 DEF Inv, Labelled, NotAhead
<1>9. BeforeRename'
  BY <1>1, <1>2, <1>5, NewDirType DEF Inv, BeforeRename, Changed, Marker
<1>10. AfterRename'
  BY <1>1, <1>2, <1>5, NewDirType DEF Inv, AfterRename
<1>11. (DirExists /\ PrunedFirst)'
  BY <1>1, <1>2, <1>5, LimitsKept DEF Inv, DirExists, PrunedFirst
<1>12. MarkedIsPruned'
  BY <1>1, <1>2, <1>5, LimitsKept, NewDirType DEF Inv, MarkedIsPruned, Marker
<1>. QED
  BY <1>6, <1>8, <1>9, <1>10, <1>11, <1>12 DEF Inv

LEMMA RollInv == Inv /\ Roll => Inv'
<1>1. SUFFICES ASSUME Inv, Roll PROVE Inv'
  OBVIOUS
<1>2. UNCHANGED <<boot, history, stamp, pc, label, archive>> /\ log \in Dir /\ log # NoDir
  BY <1>1 DEF Roll, local, Inv, TypeOK
<1>3. /\ log' \in Dir /\ log' # NoDir
      /\ log'.mark = log.mark /\ Lines(log') \subseteq Lines(log)
  BY <1>1, <1>2, Rolled
<1>4. TypeOK'
  BY <1>1, <1>2, <1>3 DEF Inv, TypeOK
<1>5. (Labelled /\ NotAhead)'
  BY <1>1, <1>2, <1>3 DEF Inv, Labelled, NotAhead
<1>6. (BeforeRename /\ AfterRename)'
  BY <1>1, <1>2, <1>3 DEF Inv, BeforeRename, AfterRename, Changed, Marker
<1>7. (DirExists /\ PrunedFirst)'
  BY <1>1, <1>2, <1>3, LimitsKept DEF Inv, DirExists, PrunedFirst
<1>8. MarkedIsPruned'
  BY <1>1, <1>2, <1>3, LimitsKept DEF Inv, MarkedIsPruned, Marker
<1>. QED
  BY <1>4, <1>5, <1>6, <1>7, <1>8 DEF Inv

LEMMA StutterInv == Inv /\ UNCHANGED vars => Inv'
<1>1. SUFFICES ASSUME Inv, UNCHANGED vars PROVE Inv'
  OBVIOUS
<1>2. UNCHANGED <<boot, log, history, stamp, pc, label, archive>>
  BY <1>1 DEF vars, local
<1>3. (TypeOK /\ Labelled /\ NotAhead)'
  BY <1>1, <1>2 DEF Inv, TypeOK, Labelled, NotAhead
<1>4. (BeforeRename /\ AfterRename /\ DirExists)'
  BY <1>1, <1>2 DEF Inv, BeforeRename, AfterRename, DirExists, Changed, Marker
<1>5. (PrunedFirst /\ MarkedIsPruned)'
  BY <1>1, <1>2, LimitsKept DEF Inv, PrunedFirst, MarkedIsPruned, Marker
<1>. QED
  BY <1>3, <1>4, <1>5 DEF Inv

-------------------------------------------------------------------------------
LEMMA StepInv == Inv /\ [Next]_vars => Inv'
BY BeginInv, RenameInv, NothingToRenameInv, MoveStampInv, CreateInv, FirstLineInv,
   PruneInv, PrunedInv, MarkInv, KillInv, RebootInv, WriteInv, RollInv,
   StutterInv
   DEF Next, Step, Writers

LEMMA Invariance == Spec => []Inv
BY InitInv, StepInv, PTL DEF Spec

(* Every variable keeps its type, for any number of boots and archives.       *)
THEOREM TypeCorrect == Spec => []TypeOK
<1>1. Inv => TypeOK
  BY DEF Inv
<1>. QED
  BY <1>1, Invariance, PTL

(* No line is filed under a boot later than the one that wrote it, wherever   *)
(* prepare was interrupted (logs.rs 61-63).                                   *)
THEOREM OldIsNotNewHolds == Spec => []OldIsNotNew
<1>1. Inv => OldIsNotNew
  BY DEF Inv, Labelled, OldIsNotNew, Empty
<1>. QED
  BY <1>1, Invariance, PTL

(* Where a marker tells prepare to do nothing, the archives are within both   *)
(* limits, whatever the limits are.                                           *)
THEOREM MarkedIsPrunedHolds == Spec => []MarkedIsPruned
<1>1. Inv => MarkedIsPruned
  BY DEF Inv
<1>. QED
  BY <1>1, Invariance, PTL

-------------------------------------------------------------------------------
(* What is lost.  The archive that waits for the stamp is in the history,  *)
(* and the marker of this boot is only there while prepare is idle.           *)
Moved == pc = "stamp" => \E a \in history : a.time = archive

LEMMA MovedStep == Moved /\ [Next]_vars => Moved'
<1>1. SUFFICES ASSUME Moved, [Next]_vars, pc' = "stamp" PROVE Moved'
  BY DEF Moved
<1>2. CASE Rename
  <2>1. PICK t \in 1..MaxTime :
          /\ [time |-> t, label |-> label, lines |-> Lines(log), size |-> log.size,
              stamp |-> FALSE] \in history'
          /\ archive' = t
    BY <1>2 DEF Rename
  <2>. QED
    BY <2>1 DEF Moved
<1>3. CASE Writers \/ UNCHANGED vars
  BY <1>1, <1>3 DEF Writers, Roll, Write, Moved, vars, local
<1>4. CASE Step /\ ~Rename
  <2>1. pc' # "stamp"
    BY <1>4 DEF Step, Begin, NothingToRename, MoveStamp, Create, FirstLine, Prune, Pruned,
                Mark, local
  <2>. QED
    BY <1>1, <2>1
<1>5. CASE Kill \/ Reboot
  BY <1>1, <1>5 DEF Kill, Reboot
<1>. QED
  BY <1>1, <1>2, <1>3, <1>4, <1>5 DEF Next

ArchivesKept ==
    \A a \in history :
        Kept(a) \/ (~WithinLimits /\ \A b \in history : a.time <= b.time)

LogKept ==
    log # NoDir =>
        \/ log' # NoDir /\ Lines(log) \subseteq Lines(log')
        \/ Roll /\ log.lines \subseteq Lines(log')
        \/ /\ Changed
           /\ \E a \in history' \ history : a.lines = Lines(log) /\ a.size = log.size

StampKept == stamp => stamp' \/ \E a \in history' : a.stamp

LEMMA SameIsKept ==
    ASSUME history \subseteq Archive, NEW a \in history, a \in history'
    PROVE  Kept(a)
<1>1. [a EXCEPT !.stamp = a.stamp] = a
  BY DEF Archive
<1>. QED
  BY <1>1 DEF Kept

LEMMA ArchivesStay == Inv /\ [Next]_vars => ArchivesKept
<1>1. SUFFICES ASSUME Inv, [Next]_vars, NEW a \in history,
                      ~(~WithinLimits /\ \A b \in history : a.time <= b.time)
               PROVE  Kept(a)
  BY DEF ArchivesKept
<1>2. history \subseteq Archive
  BY <1>1 DEF Inv, TypeOK
<1>3. CASE MoveStamp
  <2> DEFINE c == IF a.time = archive THEN [a EXCEPT !.stamp = stamp] ELSE a
  <2>1. c \in history'
    BY <1>3 DEF MoveStamp
  <2>2. [c EXCEPT !.stamp = a.stamp] = a
    BY <1>2 DEF Archive
  <2>. QED
    BY <2>1, <2>2 DEF Kept
<1>4. CASE ~MoveStamp
  <2>1. a \in history'
    <3>1. CASE Prune
      BY <1>1, <3>1 DEF Prune
    <3>2. CASE Rename
      BY <3>2 DEF Rename
    <3>3. CASE ~Prune /\ ~Rename
      BY <1>1, <1>4, <3>3 DEF Next, Step, Begin, NothingToRename, Create, FirstLine,
         Pruned, Mark, Kill, Reboot, Writers, Roll, Write, vars
    <3>. QED
      BY <3>1, <3>2, <3>3
  <2>. QED
    BY <1>2, <2>1, SameIsKept
<1>. QED
  BY <1>3, <1>4

LEMMA LogStays == Inv /\ [Next]_vars => LogKept
<1>1. SUFFICES ASSUME Inv, [Next]_vars, log # NoDir PROVE LogKept
  BY DEF LogKept
<1>2. log \in Dir /\ boot \in Boot
  BY <1>1 DEF Inv, TypeOK
<1>3. CASE Rename
  <2>1. PICK t \in (1..MaxTime) \ {a.time : a \in history} :
          history' = history \cup {[time |-> t, label |-> label, lines |-> Lines(log),
                                    size |-> log.size, stamp |-> FALSE]}
    BY <1>3 DEF Rename
  <2> DEFINE new == [time |-> t, label |-> label, lines |-> Lines(log),
                     size |-> log.size, stamp |-> FALSE]
  <2>2. new \in history' \ history
    BY <2>1
  <2>3. new.lines = Lines(log) /\ new.size = log.size
    OBVIOUS
  <2>4. Changed
    BY <1>1, <1>3 DEF Inv, BeforeRename, Rename
  <2>. QED
    BY <2>2, <2>3, <2>4 DEF LogKept
<1>4. CASE FirstLine
  <2>1. log' = [log EXCEPT !.lines = @ \cup {boot}]
    BY <1>4 DEF FirstLine
  <2>2. /\ log' = [log EXCEPT !.lines = @ \cup {boot}, !.size = log.size]
        /\ log.size \in Size
    BY <1>2, <2>1 DEF Dir
  <2>3. log' # NoDir /\ Lines(log') = Lines(log) \cup {boot}
    BY <1>2, <2>2, LineAdded
  <2>. QED
    BY <2>3 DEF LogKept
<1>5. CASE Mark
  <2>1. log' = [log EXCEPT !.mark = boot]
    BY <1>5 DEF Mark
  <2>2. log' # NoDir /\ Lines(log') = Lines(log)
    BY <1>2, <2>1, Marked
  <2>. QED
    BY <2>2 DEF LogKept
<1>6. CASE Write
  <2>1. PICK n \in Size : log' = [log EXCEPT !.lines = @ \cup {boot}, !.size = n]
    BY <1>1, <1>6 DEF Write
  <2>2. log' # NoDir /\ Lines(log') = Lines(log) \cup {boot}
    BY <1>2, <2>1, LineAdded
  <2>. QED
    BY <2>2 DEF LogKept
<1>7. CASE Roll
  <2>1. log.lines \subseteq Lines(log')
    BY <1>2, <1>7, Rolled
  <2>. QED
    BY <1>7, <2>1 DEF LogKept
<1>8. CASE ~Rename /\ ~FirstLine /\ ~Mark /\ ~Writers
  <2>1. log' = log
    BY <1>1, <1>8 DEF Next, Step, Begin, NothingToRename, MoveStamp, Create, Prune,
       Pruned, Kill, Reboot, vars
  <2>. QED
    BY <1>1, <2>1 DEF LogKept
<1>. QED
  BY <1>3, <1>4, <1>5, <1>6, <1>7, <1>8 DEF Writers

LEMMA StampStays == Inv /\ Moved /\ [Next]_vars => StampKept
<1>1. SUFFICES ASSUME Inv, Moved, [Next]_vars, stamp
               PROVE  stamp' \/ \E a \in history' : a.stamp
  BY DEF StampKept
<1>2. CASE MoveStamp
  <2>1. PICK a \in history : a.time = archive
    BY <1>1, <1>2 DEF Moved, MoveStamp
  <2>2. [a EXCEPT !.stamp = stamp] \in history'
    BY <1>2, <2>1 DEF MoveStamp
  <2>3. [a EXCEPT !.stamp = stamp].stamp
    BY <1>1, <2>1 DEF Inv, TypeOK, Archive
  <2>. QED
    BY <2>2, <2>3
<1>3. CASE ~MoveStamp
  <2>1. stamp' = stamp
    BY <1>1, <1>3 DEF Next, Step, Begin, Rename, NothingToRename, Create, FirstLine,
       Prune, Pruned, Mark, Kill, Reboot, Writers, Roll, Write, vars
  <2>. QED
    BY <1>1, <2>1
<1>. QED
  BY <1>2, <1>3

(* Wherever prepare is interrupted, and whoever writes log lines in between,  *)
(* only the oldest archive above the limits is deleted, log/ goes only as a   *)
(* whole into a new archive, and not when prepare has succeeded in this boot, *)
(* and the stamp goes only into an archive; a writer that rolls its file      *)
(* drops nothing but what was rolled before (main.rs 78-80).                  *)
THEOREM OnlyOldestIsLostHolds == Spec => OnlyOldestIsLost
<1>1. Init => Moved
  BY DEF Init, Moved
<1>2. Inv /\ Moved /\ [Next]_vars => ArchivesKept /\ LogKept /\ StampKept
  BY ArchivesStay, LogStays, StampStays
<1>. QED
  BY <1>1, <1>2, Invariance, MovedStep, PTL
  DEF Spec, OnlyOldestIsLost, ArchivesKept, LogKept, StampKept

-------------------------------------------------------------------------------
(* prepare ends.  An archive that it makes costs it one that it may have to   *)
(* remove, and each removal brings the archives nearer to the limits.         *)

FiniteHistory == IsFiniteSet(history)

(* The steps to the marker, those of the pruning aside.                       *)
Ahead == [archive |-> 8, stamp |-> 6, create |-> 5, begin |-> 4, prune |-> 3,
          mark |-> 1, idle |-> 0][pc]

StepsLeft == Ahead + Cardinality(history)

(* The number of archives, step by step.                                      *)
LEMMA HistoryCounts ==
    ASSUME FiniteHistory, [Next]_vars
    PROVE  /\ FiniteHistory'
           /\ Cardinality(history) \in Nat /\ Cardinality(history)' \in Nat
           /\ Rename => Cardinality(history)' <= Cardinality(history) + 1
           /\ Prune => Cardinality(history)' < Cardinality(history)
           /\ ~Rename => Cardinality(history)' <= Cardinality(history)
<1>0. IsFiniteSet(history) /\ Cardinality(history) \in Nat
  BY FS_CardinalityType DEF FiniteHistory
<1>1. CASE Rename
  <2>1. PICK a : history' = history \cup {a}
    BY <1>1 DEF Rename
  <2>2. /\ IsFiniteSet(history')
        /\ Cardinality(history') \in Nat /\ Cardinality(history') <= Cardinality(history) + 1
    BY <1>0, <2>1, FS_AddElement
  <2>3. ~Prune
    BY <1>1 DEF Rename, Prune
  <2>. QED  BY <1>0, <1>1, <2>2, <2>3 DEF FiniteHistory
<1>2. CASE Prune
  <2>1. PICK a \in history : history' = history \ {a}
    BY <1>2 DEF Prune
  <2>2. /\ IsFiniteSet(history')
        /\ Cardinality(history') \in Nat /\ Cardinality(history') < Cardinality(history)
    <3>1. /\ IsFiniteSet(history \ {a})
          /\ Cardinality(history \ {a}) = Cardinality(history) - 1
      BY <1>0, <2>1, FS_RemoveElement
    <3>2. Cardinality(history \ {a}) \in Nat
      BY <3>1, FS_CardinalityType
    <3>. QED  BY <1>0, <2>1, <3>1, <3>2
  <2>. QED  BY <1>0, <1>2, <2>2 DEF FiniteHistory, Prune, Rename
<1>3. CASE MoveStamp
  <2>. DEFINE moved == [a \in history |->
                           IF a.time = archive THEN [a EXCEPT !.stamp = stamp] ELSE a]
  <2>1. history' = {moved[a] : a \in history}
    BY <1>3 DEF MoveStamp
  <2>2. moved \in Surjection(history, history')
    BY <2>1 DEF Surjection
  <2>3. /\ IsFiniteSet(history')
        /\ Cardinality(history') \in Nat /\ Cardinality(history') <= Cardinality(history)
    BY <1>0, <2>2, FS_Surjection, FS_CardinalityType
  <2>. QED  BY <1>0, <1>3, <2>3 DEF FiniteHistory, Prune, Rename, MoveStamp
<1>4. CASE UNCHANGED history
  <2>1. ~Prune
    BY <1>4 DEF Prune
  <2>. QED  BY <1>0, <1>4, <2>1 DEF FiniteHistory
<1>5. Rename \/ Prune \/ MoveStamp \/ UNCHANGED history
  BY DEF Next, Step, Begin, NothingToRename, Create, FirstLine, Pruned, Mark, Kill, Reboot,
         Writers, Roll, Write, vars
<1>. QED  BY <1>1, <1>2, <1>3, <1>4, <1>5

(* A prepare that has begun gets to its end in a bounded number of its own    *)
(* steps, whatever is written to log/ meanwhile, and leaves the marker of the *)
(* present boot, which no writer removes.                                     *)
PrepareEnds ==
    [][/\ Step /\ pc # "idle" => StepsLeft' < StepsLeft
       /\ Step /\ pc' = "idle" => ~Changed'
       /\ Writers => StepsLeft' = StepsLeft /\ (~Changed => ~Changed')]_vars

THEOREM PrepareRunsOut == Spec => [](StepsLeft \in Nat) /\ PrepareEnds
<1>1. Init => FiniteHistory
  BY FS_EmptySet DEF Init, FiniteHistory
<1>2. FiniteHistory /\ [Next]_vars => FiniteHistory'
  BY HistoryCounts
<1>3. Inv /\ FiniteHistory => StepsLeft \in Nat
  <2>1. Inv /\ FiniteHistory => Cardinality(history) \in Nat
    BY FS_CardinalityType DEF FiniteHistory
  <2>2. Inv => Ahead \in Nat
    BY DEF Inv, TypeOK, Ahead
  <2>. QED  BY <2>1, <2>2 DEF StepsLeft
<1>4. ASSUME Inv, FiniteHistory, [Next]_vars, Step, pc # "idle"
      PROVE  StepsLeft' < StepsLeft
  <2>. DEFINE n == Cardinality(history)
  <2>1. /\ n \in Nat /\ n' \in Nat
        /\ Rename => n' <= n + 1
        /\ Prune => n' < n
        /\ ~Rename => n' <= n
    BY <1>4, HistoryCounts
  <2>2. /\ Rename => Ahead = 8 /\ Ahead' = 6
        /\ Prune => Ahead = 3 /\ Ahead' = 3
    BY DEF Rename, Prune, local, Ahead
  <2>3. ~Rename /\ ~Prune => Ahead \in Nat /\ Ahead' \in Nat /\ Ahead' < Ahead
    BY <1>4 DEF Step, Begin, NothingToRename, MoveStamp, Create, FirstLine, Pruned, Mark, Ahead
  <2>. HIDE DEF n
  <2>4. Ahead' + n' < Ahead + n
    BY <2>1, <2>2, <2>3
  <2>. QED  BY <2>4 DEF StepsLeft, n
<1>5. ASSUME Inv, Step, pc' = "idle"
      PROVE  ~Changed'
  <2>1. Mark
    BY <1>5 DEF Step, Begin, Rename, NothingToRename, MoveStamp, Create, FirstLine, Prune,
                Pruned, local, Inv, TypeOK
  <2>2. log \in Dir /\ log # NoDir
    BY <1>5, <2>1 DEF Mark, Inv, DirExists, TypeOK
  <2>3. log'.mark = boot /\ log' \in Dir /\ boot' = boot
    BY <1>5, <2>1, <2>2 DEF Mark, Dir, Inv, TypeOK
  <2>. QED  BY <2>3, LogAssumption DEF Changed, Marker
<1>6. ASSUME Inv, Writers
      PROVE  StepsLeft' = StepsLeft /\ (~Changed => ~Changed')
  <2>1. UNCHANGED <<boot, history, pc>>
    BY <1>6 DEF Writers, Roll, Write, local
  <2>2. boot # Legacy /\ boot \in Boot
    BY <1>6 DEF Inv, TypeOK, Legacy
  <2>3. ASSUME ~Changed PROVE ~Changed'
    <3>1. log # NoDir /\ log.mark = boot /\ log \in Dir
      BY <1>6, <2>2, <2>3 DEF Changed, Marker, Inv, TypeOK
    <3>2. Write => log' # NoDir /\ log'.mark = boot
      <4>1. SUFFICES ASSUME Write PROVE log' # NoDir /\ log'.mark = boot
        OBVIOUS
      <4>2. PICK m \in Size : log' = [log EXCEPT !.lines = @ \cup {boot}, !.size = m]
        BY <3>1, <4>1 DEF Write
      <4>3. /\ log' \in Dir /\ log' # NoDir
            /\ log'.mark = log.mark /\ Lines(log') = Lines(log) \cup {boot}
        <5>1. boot \in Boot /\ log \in Dir
          BY <2>2, <3>1
        <5>. QED  BY <4>2, <5>1, LineAdded
      <4>. QED  BY <3>1, <4>3
    <3>3. Roll => log' # NoDir /\ log'.mark = boot
      BY <3>1, Rolled
    <3>. QED  BY <1>6, <2>1, <3>2, <3>3 DEF Writers, Changed, Marker
  <2>. QED  BY <2>1, <2>3 DEF StepsLeft, Ahead
<1>. QED  BY <1>1, <1>2, <1>3, <1>4, <1>5, <1>6, Invariance, PTL DEF Spec, PrepareEnds
=============================================================================
