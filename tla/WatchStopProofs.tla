---------------------------- MODULE WatchStopProofs ----------------------------
(* Proofs about WatchStop for every number of pids and of births.             *)
EXTENDS WatchStop, FiniteSetTheorems, TLAPS

-------------------------------------------------------------------------------
(* Types *)

LEMMA NatPid == Pid \subseteq Nat /\ 0 \notin Pid /\ Start \subseteq Nat /\ MaxPid \in Pid /\ 1 \in Pid
  BY SMT, ProcessesAssumption DEF Pid, Start

LEMMA InitTyped == Init => TypeOK
  BY SMT, ProcessesAssumption DEF Init, TypeOK, Pid, Mode, Stage, Server

(* The table keeps its type.                                                  *)
LEMMA BornTyped ==
  ASSUME TypeOK, NEW p \in Pid, NEW k \in Kind, Born(p, k)
  PROVE  proc' \in [Pid -> Process \cup {NoProcess}] /\ births' \in 0 .. MaxBirths
  BY SMT, ProcessesAssumption DEF TypeOK, Born, Process, Start

LEMMA KindTyped ==
  ASSUME TypeOK, NEW p \in Pid, Alive(p), NEW k \in Kind,
         proc' = [proc EXCEPT ![p].kind = k]
  PROVE  proc' \in [Pid -> Process \cup {NoProcess}]
  BY SMT DEF TypeOK, Alive, Process

LEMMA TableTyped ==
  ASSUME TypeOK, NEW p \in Pid, Fork(p) \/ Exec(p) \/ Exit(p) \/ Release(p)
                                \/ \E k \in Kind : Born(p, k)
  PROVE  /\ proc' \in [Pid -> Process \cup {NoProcess}]
         /\ births' \in 0 .. MaxBirths
         /\ present' \subseteq Start
  <1>1. CASE Fork(p) \/ \E k \in Kind : Born(p, k)
    <2>1. PICK k \in Kind : Born(p, k)
      BY <1>1 DEF Fork, Kind, Server
    <2>. QED  BY <2>1, BornTyped DEF Born, TypeOK
  <1>2. CASE Exec(p)
    BY <1>2, KindTyped DEF Exec, Kind, Server, TypeOK
  <1>3. CASE Exit(p)
    BY <1>3, KindTyped DEF Exit, Kind, TypeOK
  <1>4. CASE Release(p)
    BY <1>4 DEF Release, TypeOK
  <1>. QED  BY <1>1, <1>2, <1>3, <1>4

LEMMA ArriveTyped ==
  ASSUME TypeOK, NEW p \in Pid, Arrive(p)
  PROVE  TypeOK'
  <1>1. Fork(p) \/ \E k \in Kind : Born(p, k)
    BY DEF Arrive, Kind, Server
  <1>2. /\ proc' \in [Pid -> Process \cup {NoProcess}]
        /\ births' \in 0 .. MaxBirths /\ present' \subseteq Start
    BY <1>1, TableTyped
  <1>3. stage' \in [Pid -> Stage] /\ stop' \in [Pid -> BOOLEAN]
    BY DEF Arrive, TypeOK, Stage
  <1>. QED  BY <1>2, <1>3 DEF Arrive, TypeOK, sweep, entry

LEMMA LeaveTyped ==
  ASSUME TypeOK, NEW p \in Pid, Leave(p)
  PROVE  TypeOK'
  <1>1. /\ proc' \in [Pid -> Process \cup {NoProcess}]
        /\ births' \in 0 .. MaxBirths /\ present' \subseteq Start
    BY TableTyped DEF Leave
  <1>2. stage' \in [Pid -> Stage] /\ stop' \in [Pid -> BOOLEAN]
    BY DEF Leave, TypeOK, Stage
  <1>3. holder' \in 0 .. MaxPid
    BY SMT, ProcessesAssumption DEF Leave, TypeOK
  <1>. QED  BY <1>1, <1>2, <1>3 DEF Leave, TypeOK, sweep, entry

LEMMA OtherTyped ==
  ASSUME TypeOK, NEW p \in Pid, Other(p)
  PROVE  TypeOK'
  <1>1. /\ proc' \in [Pid -> Process \cup {NoProcess}]
        /\ births' \in 0 .. MaxBirths /\ present' \subseteq Start
    BY TableTyped DEF Other
  <1>. QED  BY <1>1 DEF Other, TypeOK, sweep, entry, life

LEMMA WatchTyped ==
  ASSUME TypeOK, NEW p \in Pid, Watch(p)
  PROVE  TypeOK'
  <1>1. p \in 0 .. MaxPid /\ 0 \in 0 .. MaxPid
    BY SMT, ProcessesAssumption DEF Pid
  <1>2. stage' \in [Pid -> Stage]
    BY DEF Watch, TakeLock, Prepare, WritePid, TestStop, CallPoll, PollReturns, ReExec,
           RemovePid, Step, Goto, TypeOK, Stage
  <1>3. stop' \in [Pid -> BOOLEAN]
    BY DEF Watch, TakeLock, Prepare, WritePid, TestStop, CallPoll, PollReturns, ReExec,
           RemovePid, TypeOK
  <1>4. holder' \in 0 .. MaxPid /\ pidfile' \in 0 .. MaxPid
    BY <1>1 DEF Watch, TakeLock, Prepare, WritePid, TestStop, CallPoll, PollReturns,
                ReExec, RemovePid, TypeOK
  <1>5. present' \subseteq Start
    BY DEF Watch, TakeLock, Prepare, WritePid, TestStop, CallPoll, PollReturns, ReExec,
           RemovePid, outside, TypeOK
  <1>6. UNCHANGED <<table, sweep, pid>>
    BY DEF Watch, TakeLock, Prepare, WritePid, TestStop, CallPoll, PollReturns, ReExec,
           RemovePid, outside
  <1>. QED  BY <1>2, <1>3, <1>4, <1>5, <1>6 DEF TypeOK, table, sweep, entry

(* A sweep takes the next entry, or has seen the last one.                    *)
LEMMA NextEntryTyped ==
  ASSUME TypeOK, NextEntry, cursor # 0
  PROVE  /\ pc' \in {"look", "filter"} /\ (pc' = "look" <=> cursor' # 0)
         /\ cursor' \in 0 .. MaxPid /\ before' \in 0 .. MaxBirths
         /\ handle' \in 0 .. MaxBirths /\ image' = "none"
  BY SMT, ProcessesAssumption DEF TypeOK, NextEntry, NoEntry

LEMMA ScanTyped ==
  ASSUME TypeOK, Scan, UNCHANGED <<life, pid>>
  PROVE  TypeOK'
  <1>. USE DEF life
  <1>1. Start \subseteq 0 .. MaxBirths /\ 0 \in 0 .. MaxPid /\ 0 \in 0 .. MaxBirths
    BY SMT, ProcessesAssumption DEF Start
  <1>2. pc \in {"look", "exe", "open", "gone", "check"} /\ cursor # 0 /\ cursor \in Pid
    BY SMT, ProcessesAssumption DEF Scan, Look, ReadExe, Open, Gone, Check, TypeOK, Pid
  <1>3. ASSUME NEW q \in Pid, proc[q] # NoProcess
        PROVE  proc[q].start \in Start /\ proc[q].start \in 0 .. MaxBirths
    BY <1>1, <1>3 DEF TypeOK, Process
  <1>4. UNCHANGED <<table, mode, waiting, present>>
    BY DEF Scan, Look, ReadExe, Open, Gone, Check
  <1>5. CASE Look
    <2>1. CASE NextEntry
      BY <1>2, <1>4, <1>5, <2>1, NextEntryTyped DEF Look, TypeOK, table
    <2>2. CASE ~NextEntry
      BY <1>2, <1>3, <1>4, <1>5, <2>2 DEF Look, TypeOK, table, Alive
    <2>. QED  BY <2>1, <2>2
  <1>6. CASE ReadExe
    <2>1. CASE NextEntry
      BY <1>2, <1>4, <1>6, <2>1, NextEntryTyped DEF ReadExe, TypeOK, table
    <2>2. CASE ~NextEntry
      <3>1. Exe(proc[cursor].kind) \in {"smbctl"} \cup Server
        BY <1>6, <2>2 DEF ReadExe, Exes
      <3>. QED  BY <1>2, <1>4, <1>6, <2>2, <3>1 DEF ReadExe, TypeOK, table
    <2>. QED  BY <2>1, <2>2
  <1>7. CASE Open
    <2>1. ASSUME NEW s \in Start PROVE s # 0
      BY NatPid, SMT DEF Start
    <2>. QED  BY <1>2, <1>3, <1>4, <1>7, <2>1 DEF Open, TypeOK, table
  <1>8. CASE Gone
    <2>1. CASE NextEntry
      BY <1>2, <1>4, <1>8, <2>1, NextEntryTyped DEF Gone, TypeOK, table
    <2>2. CASE ~NextEntry
      BY <1>1, <1>2, <1>4, <1>8, <2>2 DEF Gone, NoEntry, TypeOK, table
    <2>. QED  BY <2>1, <2>2
  <1>9. CASE Check
    <2>1. out \subseteq out' /\ out' \subseteq [pid : Pid, start : Start]
      <3>1. CASE out' = out
        BY <3>1 DEF TypeOK
      <3>2. CASE out' # out
        <4>2. handle \in Start
          BY SMT, <1>9, ProcessesAssumption DEF Check, TypeOK, Start
        <4>. QED  BY <1>2, <1>9, <3>2, <4>2 DEF Check, TypeOK
      <3>. QED  BY <3>1, <3>2
    <2>. QED  BY <1>2, <1>4, <1>9, <2>1, NextEntryTyped DEF Check, TypeOK, table
  <1>. QED  BY <1>5, <1>6, <1>7, <1>8, <1>9 DEF Scan

LEMMA SweepTyped ==
  ASSUME TypeOK, BeginHalt \/ BeginWatchStop \/ Sweep
  PROVE  TypeOK'
  <1>1. 0 \in 0 .. MaxPid /\ 1 \in 0 .. MaxPid /\ 1 # 0
    BY SMT, ProcessesAssumption
  <1>2. CASE BeginHalt \/ BeginWatchStop
    <2>1. present' \subseteq Start /\ pid' \in 0 .. MaxPid
      BY <1>2 DEF BeginHalt, BeginWatchStop, TypeOK
    <2>. QED  BY <1>1, <1>2, <2>1 DEF BeginHalt, BeginWatchStop, TypeOK, table, entry, life, Mode
  <1>3. CASE Scan /\ UNCHANGED <<life, pid>>
    BY <1>3, ScanTyped
  <1>4. CASE Poll /\ UNCHANGED <<life, pid>>
    BY <1>4 DEF Poll, TypeOK, table, entry, life
  <1>5. CASE (SendKill \/ Result) /\ UNCHANGED <<life, pid>>
    BY <1>5 DEF SendKill, Result, TypeOK, table, entry, life
  <1>6. CASE Filter
    <2>1. out' \subseteq out
      BY <1>6 DEF Filter, TypeOK
    <2>. QED  BY <1>1, <1>6, <2>1 DEF Filter, TypeOK, table, entry, life
  <1>7. CASE Term
    <2>1. stage' \in [Pid -> Stage] /\ stop' \in [Pid -> BOOLEAN]
      BY <1>7 DEF Term, TypeOK, Stage
    <2>. QED  BY <1>7, <2>1 DEF Term, SendTerm, TypeOK, table, entry
  <1>8. CASE End
    BY <1>1, <1>8 DEF End, TypeOK, table, entry, life, Mode
  <1>. QED  BY <1>2, <1>3, <1>4, <1>5, <1>6, <1>7, <1>8 DEF Sweep

LEMMA NextTyped == TypeOK /\ [Next]_vars => TypeOK'
  <1>. SUFFICES ASSUME TypeOK, [Next]_vars PROVE TypeOK'
    OBVIOUS
  <1>1. CASE UNCHANGED vars
    BY <1>1 DEF vars, table, sweep, entry, life, TypeOK
  <1>2. CASE BeginHalt \/ BeginWatchStop \/ Sweep
    BY <1>2, SweepTyped
  <1>3. ASSUME NEW p \in Pid, Arrive(p) \/ Leave(p) \/ Other(p) \/ Watch(p)
        PROVE  TypeOK'
    BY <1>3, ArriveTyped, LeaveTyped, OtherTyped, WatchTyped
  <1>. QED  BY <1>1, <1>2, <1>3 DEF Next

(* Every variable keeps its type, whatever is born, scanned or signalled.     *)
THEOREM WatchStopType == Spec => []TypeOK
  <1>. QED  BY InitTyped, NextTyped, PTL DEF Spec

-------------------------------------------------------------------------------
(* What a step can do to the table: a process that is alive was alive before, *)
(* with the same start, or is the only one born in this step.                 *)

Kept(q) ==
    /\ Alive(q)
    /\ proc'[q].start = proc[q].start
    /\ \/ proc'[q].kind = proc[q].kind
       \/ /\ proc[q].kind = "smbd" /\ proc'[q].kind = "rpcd"
          /\ proc[q].start \notin present'

NewBorn(q) == births' = births + 1 /\ proc'[q].start = births'

LEMMA TableStep ==
  ASSUME TypeOK, [Next]_vars
  PROVE  /\ births' \in {births, births + 1}
         /\ \E p \in Pid : \A q \in Pid : Alive(q)' => Kept(q) \/ (q = p /\ NewBorn(q))
  <1>1. CASE UNCHANGED <<table, present>>
    BY <1>1, NatPid DEF table, Alive, Kept
  <1>2. CASE UNCHANGED table
    BY <1>2, NatPid DEF table, Alive, Kept
  <1>3. ASSUME NEW p \in Pid, Fork(p) \/ \E k \in Kind : Born(p, k)
        PROVE  /\ births' \in {births, births + 1}
               /\ \A q \in Pid : Alive(q)' => Kept(q) \/ (q = p /\ NewBorn(q))
    <2>1. PICK k \in Kind : Born(p, k)
      BY <1>3 DEF Fork, Kind, Server
    <2>2. ASSUME NEW q \in Pid, q # p PROVE proc'[q] = proc[q]
      BY <2>1, <2>2 DEF Born, TypeOK
    <2>3. proc'[p].start = births + 1
      BY <2>1 DEF Born, TypeOK
    <2>. QED  BY <2>1, <2>2, <2>3 DEF Born, Alive, Kept, NewBorn
  <1>4. ASSUME NEW p \in Pid, Exec(p) \/ Exit(p) \/ Release(p)
        PROVE  /\ births' \in {births, births + 1}
               /\ \A q \in Pid : Alive(q)' => Kept(q)
    <2>1. ASSUME NEW q \in Pid, q # p PROVE proc'[q] = proc[q]
      BY <1>4, <2>1 DEF Exec, Exit, Release, TypeOK
    <2>2. CASE Exec(p)
      <3>1. proc'[p].start = proc[p].start /\ proc'[p].kind = "rpcd"
        BY <2>2 DEF Exec, TypeOK, Process, Alive
      <3>. QED  BY <2>1, <2>2, <3>1 DEF Exec, Alive, Kept
    <2>3. CASE Exit(p)
      <3>1. proc'[p].kind = "zombie"
        BY <2>3 DEF Exit, TypeOK, Process, Alive
      <3>. QED  BY <2>1, <2>3, <3>1 DEF Exit, Alive, Kept
    <2>4. CASE Release(p)
      <3>1. proc'[p] = NoProcess
        BY <2>4 DEF Release, TypeOK
      <3>. QED  BY <2>1, <2>4, <3>1 DEF Release, Alive, Kept
    <2>. QED  BY <1>4, <2>2, <2>3, <2>4
  <1>5. ASSUME NEW p \in Pid, Arrive(p)
        PROVE  Fork(p) \/ \E k \in Kind : Born(p, k)
    BY <1>5 DEF Arrive, Kind, Server
  <1>6. CASE UNCHANGED vars
    BY <1>6, <1>1 DEF vars
  <1>7. CASE BeginHalt \/ BeginWatchStop \/ Sweep
    <2>1. UNCHANGED table
      BY <1>7 DEF BeginHalt, BeginWatchStop, Sweep, Scan, Look, ReadExe, Open, Gone, Check,
                  Poll, SendKill, Result, Filter, Term, SendTerm, End
    <2>. QED  BY <1>2, <2>1
  <1>8. ASSUME NEW p \in Pid, Watch(p)
        PROVE  UNCHANGED table
    BY <1>8 DEF Watch, TakeLock, Prepare, WritePid, TestStop, CallPoll, PollReturns,
                ReExec, RemovePid, outside
  <1>9. ASSUME NEW p \in Pid, Leave(p) \/ Other(p)
        PROVE  Exec(p) \/ Exit(p) \/ Release(p)
    BY <1>9 DEF Leave, Other
  <1>10. CASE \E p \in Pid : Arrive(p) \/ Leave(p) \/ Other(p) \/ Watch(p)
    BY <1>10, <1>2, <1>3, <1>4, <1>5, <1>8, <1>9
  <1>. QED  BY <1>6, <1>7, <1>10 DEF Next

-------------------------------------------------------------------------------
(* watch.lock and watch.pid.  The file is written and removed by the holder   *)
(* of the lock only; a stage past "new" means to hold it.                     *)

Holds(p) == Watcher(p) /\ holder = p

HolderInv == \A p \in Pid : stage[p] # "new" => Holds(p)

FileInv == \A p \in Pid : stage[p] \in Looping => pidfile = p

LockInv == HolderInv /\ FileInv

LEMMA NewIsOutside == "new" \notin Looping
  BY DEF Looping

LEMMA TableLocked ==
  ASSUME TypeOK, LockInv, NEW p \in Pid, Arrive(p) \/ Leave(p) \/ Other(p)
  PROVE  LockInv'
  <1>1. ASSUME NEW q \in Pid, q # p
        PROVE  Watcher(q)' = Watcher(q) /\ stage'[q] = stage[q]
    <2>1. proc'[q] = proc[q]
      BY <1>1 DEF Arrive, Leave, Other, Fork, Exec, Exit, Release, Born, TypeOK
    <2>2. stage'[q] = stage[q]
      BY <1>1 DEF Arrive, Leave, Other, life, TypeOK
    <2>. QED  BY <2>1, <2>2 DEF Watcher, Alive
  <1>2. stage[p] # "new" => ~Arrive(p) /\ ~Other(p)
    BY DEF Arrive, Other, Fork, Exec, Release, Born, LockInv, HolderInv, Holds, Watcher,
           Alive
  <1>3. stage'[p] = "new"
    <2>1. CASE Arrive(p) \/ Leave(p)
      BY <2>1 DEF Arrive, Leave, TypeOK
    <2>2. CASE Other(p)
      BY <2>2, <1>2 DEF Other, life
    <2>. QED  BY <2>1, <2>2
  <1>4. pidfile' = pidfile
    BY DEF Arrive, Leave, Other, life
  <1>5. holder' = holder \/ (holder = p /\ Leave(p))
    BY DEF Arrive, Leave, Other, life
  <1>6. HolderInv'
    <2>. SUFFICES ASSUME NEW q \in Pid, stage'[q] # "new" PROVE Holds(q)'
      BY DEF HolderInv
    <2>1. q # p /\ Holds(q)
      BY <1>1, <1>3 DEF LockInv, HolderInv
    <2>. QED  BY <2>1, <1>1, <1>5 DEF Holds
  <1>7. FileInv'
    BY <1>1, <1>3, <1>4, NewIsOutside DEF LockInv, FileInv
  <1>. QED  BY <1>6, <1>7 DEF LockInv

LEMMA WatchLocked ==
  ASSUME TypeOK, LockInv, NEW p \in Pid, Watch(p)
  PROVE  LockInv'
  <1>1. UNCHANGED table /\ Watcher(p)
    BY DEF Watch, TakeLock, Prepare, WritePid, TestStop, CallPoll, PollReturns, ReExec,
           RemovePid, outside, Step
  <1>2. ASSUME NEW q \in Pid PROVE Watcher(q)' = Watcher(q)
    BY <1>1 DEF table, Watcher, Alive
  <1>3. ASSUME NEW q \in Pid, q # p PROVE stage'[q] = stage[q]
    BY <1>3 DEF Watch, TakeLock, Prepare, WritePid, TestStop, CallPoll, PollReturns, ReExec,
           RemovePid, Step, Goto, TypeOK
  <1>4. p # 0
    BY NatPid
  <1>5. ASSUME NEW q \in Pid, q # p PROVE stage[q] = "new"
    <2>1. stage[p] # "new" \/ holder = 0
      BY DEF Watch, TakeLock, Prepare, WritePid, TestStop, CallPoll, PollReturns, ReExec,
             RemovePid, Step
    <2>. QED  BY <2>1, <1>5, NatPid DEF LockInv, HolderInv, Holds
  <1>6. HolderInv'
    <2>1. stage'[p] # "new" => holder' = p
      <3>1. CASE TakeLock(p) \/ ReExec(p)
        BY <3>1 DEF TakeLock, ReExec, Step, Goto, TypeOK
      <3>2. CASE ~(TakeLock(p) \/ ReExec(p))
        BY <3>2 DEF Watch, Prepare, WritePid, TestStop, CallPoll, PollReturns, RemovePid,
                    Step, LockInv, HolderInv, Holds
      <3>. QED  BY <3>1, <3>2
    <2>. QED  BY <1>1, <1>2, <1>3, <1>5, <2>1 DEF HolderInv, Holds
  <1>7. FileInv'
    <2>1. stage'[p] \in Looping => pidfile' = p
      BY DEF Watch, TakeLock, Prepare, WritePid, TestStop, CallPoll, PollReturns, ReExec,
             RemovePid, Step, Goto, TypeOK, Looping, LockInv, FileInv
    <2>. QED  BY <1>3, <1>5, <2>1, NewIsOutside DEF FileInv
  <1>. QED  BY <1>6, <1>7 DEF LockInv

LEMMA SweepLocked ==
  ASSUME TypeOK, LockInv, BeginHalt \/ BeginWatchStop \/ Sweep
  PROVE  LockInv'
  <1>1. UNCHANGED <<table, holder, pidfile>>
    BY DEF BeginHalt, BeginWatchStop, Sweep, Scan, Look, ReadExe, Open, Gone, Check,
           Poll, SendKill, Result, Filter, Term, SendTerm, End, life
  <1>2. ASSUME NEW p \in Pid
        PROVE  stage'[p] = stage[p] \/ (stage[p] = "poll" /\ stage'[p] = "loop")
    BY DEF BeginHalt, BeginWatchStop, Sweep, Filter, Term, End, life
  <1>. QED  BY <1>1, <1>2 DEF LockInv, HolderInv, FileInv, Holds, Looping, table, Watcher,
                              Alive

LEMMA Locked == Spec => []LockInv
  <1>1. Init => LockInv
    BY DEF Init, LockInv, HolderInv, FileInv, Looping
  <1>2. TypeOK /\ LockInv /\ [Next]_vars => LockInv'
    <2>. SUFFICES ASSUME TypeOK, LockInv, [Next]_vars PROVE LockInv'
      OBVIOUS
    <2>1. CASE UNCHANGED vars
      BY <2>1 DEF vars, table, life, LockInv, HolderInv, FileInv, Holds, Watcher, Alive
    <2>2. CASE BeginHalt \/ BeginWatchStop \/ Sweep
      BY <2>2, SweepLocked
    <2>3. ASSUME NEW p \in Pid, Arrive(p) \/ Leave(p) \/ Other(p) \/ Watch(p)
          PROVE  LockInv'
      BY <2>3, TableLocked, WatchLocked
    <2>. QED  BY <2>1, <2>2, <2>3 DEF Next
  <1>. QED  BY <1>1, <1>2, WatchStopType, PTL DEF Spec

(* While a watcher is in its loop, watch.pid names it: watch-stop finds it.   *)
THEOREM PidFileHolds == Spec => []PidFileNamesWatcher
  <1>1. LockInv => PidFileNamesWatcher
    BY DEF LockInv, FileInv, PidFileNamesWatcher
  <1>. QED  BY <1>1, Locked, PTL

-------------------------------------------------------------------------------
(* No start time is used twice, and those of the future are larger.           *)

StartsInv ==
    /\ \A p \in Pid : Alive(p) => proc[p].start <= births
    /\ \A p, q \in Pid : Alive(p) /\ Alive(q) /\ proc[p].start = proc[q].start => p = q

LEMMA StartIsNat ==
  ASSUME TypeOK, NEW p \in Pid, Alive(p)
  PROVE  proc[p].start \in Nat /\ births \in Nat
  <1>1. proc[p] \in Process
    BY DEF TypeOK, Alive
  <1>2. births \in Nat
    BY SMT, ProcessesAssumption DEF TypeOK
  <1>. QED  BY <1>1, <1>2, NatPid DEF Process

LEMMA BirthsGrow ==
  ASSUME TypeOK, [Next]_vars
  PROVE  births \in Nat /\ births' \in Nat /\ births <= births'
  <1>1. births \in Nat
    BY SMT, ProcessesAssumption DEF TypeOK
  <1>. QED  BY <1>1, TableStep

LEMMA StartsStep ==
  ASSUME TypeOK, StartsInv, [Next]_vars
  PROVE  StartsInv'
  <1>. PICK new \in Pid : \A q \in Pid : Alive(q)' => Kept(q) \/ (q = new /\ NewBorn(q))
    BY TableStep
  <1>. births \in Nat /\ births' \in Nat /\ births <= births'
    BY BirthsGrow
  <1>1. ASSUME NEW p \in Pid, Alive(p)'
        PROVE  \/ Alive(p) /\ proc'[p].start = proc[p].start /\ proc'[p].start <= births
                  /\ proc[p].start \in Nat
               \/ p = new /\ births' = births + 1 /\ proc'[p].start = births'
    BY <1>1, StartIsNat DEF Kept, NewBorn, StartsInv
  <1>2. ASSUME NEW p \in Pid, Alive(p)' PROVE proc'[p].start <= births'
    BY <1>1, <1>2
  <1>3. ASSUME NEW p \in Pid, NEW q \in Pid, Alive(p)', Alive(q)',
               proc'[p].start = proc'[q].start
        PROVE  p = q
    <2>1. CASE Alive(p) /\ Alive(q) /\ proc'[p].start = proc[p].start
               /\ proc'[q].start = proc[q].start
      BY <1>3, <2>1 DEF StartsInv
    <2>2. CASE p = new /\ q = new
      BY <2>2
    <2>. QED  BY <1>1, <1>3, <2>1, <2>2
  <1>. QED  BY <1>2, <1>3 DEF StartsInv

(* What is alive with a start time of the past was alive, and is still of the *)
(* executables and among the processes that a sweep is for.                   *)
LEMMA Survivor ==
  ASSUME TypeOK, StartsInv, [Next]_vars, NEW p \in Pid, Alive(p)', proc'[p].start <= births
  PROVE  /\ Alive(p) /\ proc'[p].start = proc[p].start
         /\ proc'[p].kind = proc[p].kind \/ proc[p].start \notin present'
         /\ \A m \in Mode : Exe(proc[p].kind) \in Exes(m) => Exe(proc'[p].kind) \in Exes(m)
         /\ \A m \in Mode : proc[p].kind \in Intended(m) => proc'[p].kind \in Intended(m)
  <1>1. births \in Nat
    BY BirthsGrow
  <1>2. ~NewBorn(p)
    BY <1>1 DEF NewBorn
  <1>3. Kept(p)
    BY <1>2, TableStep
  <1>. QED  BY <1>3 DEF Kept, Exe, Exes, Intended, Server, Mode

(* A step that is not one of the sweep leaves it where it is.                 *)
LEMMA OthersStep ==
  ASSUME [Next]_vars, ~BeginHalt, ~BeginWatchStop, ~Sweep
  PROVE  UNCHANGED <<sweep, pid>> /\ present' \subseteq present
  <1>1. CASE UNCHANGED vars
    BY <1>1 DEF vars
  <1>2. ASSUME NEW p \in Pid, Arrive(p) \/ Leave(p) \/ Other(p) \/ Watch(p)
        PROVE  UNCHANGED <<sweep, pid>> /\ present' \subseteq present
    BY <1>2 DEF Arrive, Leave, Other, Watch, TakeLock, Prepare, WritePid, TestStop, CallPoll,
                PollReturns, ReExec, RemovePid, outside, Fork, Born, Exec, Exit, Release
  <1>. QED  BY <1>1, <1>2 DEF Next

-------------------------------------------------------------------------------
(* What the scan has found is what it was looked at as: while a process lives *)
(* that was born at the start of a handle, it is the process of that pid.     *)

Scanning == pc \in {"look", "exe", "open", "gone", "check"}

EntryInv ==
    /\ before <= births
    /\ pc \in {"open", "gone", "check"} => image \in Exes(mode)
    /\ pc = "check" /\ Alive(cursor) /\ proc[cursor].start = before => handle = before

Stands(h, p) == Alive(p) /\ proc[p].start = h.start

FoundInv ==
    /\ pc = "idle" => out = {}
    /\ \A h \in out : h.start <= births
    /\ \A h \in out, p \in Pid : Stands(h, p) =>
          /\ p = h.pid
          /\ Scanning \/ pc = "filter" => Exe(proc[p].kind) \in Exes(mode)
          /\ pc \in {"term", "wait"} => proc[p].kind \in Intended(mode)

SignalInv == StartsInv /\ EntryInv /\ FoundInv

LEMMA OthersSignal ==
  ASSUME TypeOK, SignalInv, [Next]_vars, UNCHANGED sweep
  PROVE  SignalInv'
  <1>1. StartsInv'
    BY StartsStep DEF SignalInv
  <1>2. births \in Nat /\ births' \in Nat /\ births <= births' /\ before \in Nat
    BY BirthsGrow, SMT, ProcessesAssumption DEF TypeOK
  <1>3. EntryInv'
    <2>1. before' <= births'
      BY <1>2 DEF SignalInv, EntryInv, sweep, entry
    <2>2. ASSUME NEW c \in Pid, Alive(c)', proc'[c].start = before
          PROVE  Alive(c) /\ proc[c].start = before
      BY <2>2, Survivor DEF SignalInv, EntryInv
    <2>3. pc = "check" => cursor \in Pid
      BY SMT, ProcessesAssumption DEF TypeOK, Pid
    <2>4. UNCHANGED <<pc, mode, cursor, before, image, handle>>
      BY DEF sweep, entry
    <2>5. pc = "check" /\ Alive(cursor)' /\ proc'[cursor].start = before => handle = before
      <3>. SUFFICES ASSUME pc = "check", Alive(cursor)', proc'[cursor].start = before
                    PROVE  handle = before
        OBVIOUS
      <3>1. PICK c \in Pid : c = cursor
        BY <2>3
      <3>2. Alive(c)' /\ proc'[c].start = before
        BY <2>4, <3>1 DEF Alive
      <3>. QED  BY <2>2, <3>1, <3>2 DEF SignalInv, EntryInv
    <2>. QED  BY <2>1, <2>4, <2>5 DEF SignalInv, EntryInv
  <1>4. FoundInv'
    <2>1. ASSUME NEW h \in out PROVE h.start <= births' /\ h.start <= births
      <3>1. h.start \in Nat
        BY NatPid DEF TypeOK
      <3>. QED  BY <1>2, <3>1 DEF SignalInv, FoundInv
    <2>2. ASSUME NEW h \in out, NEW p \in Pid, Stands(h, p)'
          PROVE  /\ Stands(h, p)
                 /\ \A m \in Mode : Exe(proc[p].kind) \in Exes(m) => Exe(proc'[p].kind) \in Exes(m)
                 /\ \A m \in Mode : proc[p].kind \in Intended(m) => proc'[p].kind \in Intended(m)
      BY <2>1, <2>2, Survivor DEF Stands, SignalInv
    <2>3. mode \in Mode
      BY DEF TypeOK
    <2>. QED  BY <2>1, <2>2, <2>3 DEF SignalInv, FoundInv, sweep, Scanning
  <1>. QED  BY <1>1, <1>3, <1>4 DEF SignalInv

LEMMA SweepTable ==
  ASSUME BeginHalt \/ BeginWatchStop \/ Sweep
  PROVE  UNCHANGED table
  BY DEF BeginHalt, BeginWatchStop, Sweep, Scan, Look, ReadExe, Open, Gone, Check,
         Poll, SendKill, Result, Filter, Term, SendTerm, End

LEMMA FoundKept ==
  ASSUME FoundInv, UNCHANGED <<table, mode, out>>,
         pc' # "idle",
         Scanning' \/ pc' = "filter" => Scanning \/ pc = "filter",
         pc' \in {"term", "wait"} => pc \in {"term", "wait"}
  PROVE  FoundInv'
  BY DEF FoundInv, table, Stands, Alive

LEMMA ScanSignal ==
  ASSUME TypeOK, SignalInv, Scan
  PROVE  EntryInv' /\ FoundInv'
  <1>1. UNCHANGED <<table, mode>> /\ births \in Nat /\ Scanning
    BY SMT, ProcessesAssumption
       DEF Scan, Look, ReadExe, Open, Gone, Check, TypeOK, Scanning
  <1>2. UNCHANGED <<proc, births>>
    BY <1>1 DEF table
  <1>3. ASSUME NextEntry PROVE EntryInv' /\ pc' \in {"look", "filter"}
    <2>1. before' = 0 /\ pc' \in {"look", "filter"}
      BY <1>3 DEF NextEntry, NoEntry
    <2>2. 0 <= births
      BY <1>1
    <2>. QED  BY <1>2, <2>1, <2>2 DEF EntryInv
  <1>4. ASSUME pc' \in {"look", "filter", "exe", "open", "gone", "check", "err"}, out' = out
        PROVE  FoundInv'
    BY <1>1, <1>4, FoundKept DEF SignalInv, Scanning
  <1>5. CASE Look
    <2>1. CASE NextEntry
      BY <1>3, <1>4, <1>5, <2>1 DEF Look
    <2>2. CASE ~NextEntry
      <3>1. Alive(cursor) /\ before' = proc[cursor].start /\ pc' = "exe" /\ out' = out
            /\ cursor \in Pid
        BY <1>5, <2>2, SMT, ProcessesAssumption DEF Look, TypeOK, Pid
      <3>2. before' <= births
        BY <3>1 DEF SignalInv, StartsInv
      <3>. QED  BY <1>2, <1>4, <3>1, <3>2 DEF EntryInv
    <2>. QED  BY <2>1, <2>2
  <1>6. CASE ReadExe
    <2>1. CASE NextEntry
      BY <1>3, <1>4, <1>6, <2>1 DEF ReadExe
    <2>2. CASE ~NextEntry
      BY <1>1, <1>2, <1>4, <1>6, <2>2 DEF ReadExe, SignalInv, EntryInv
    <2>. QED  BY <2>1, <2>2
  <1>7. CASE Open
    BY <1>1, <1>2, <1>4, <1>7 DEF Open, SignalInv, EntryInv, Alive
  <1>8. CASE Gone
    <2>1. CASE NextEntry
      BY <1>3, <1>4, <1>8, <2>1 DEF Gone
    <2>2. CASE ~NextEntry
      BY <1>1, <1>2, <1>4, <1>8, <2>2 DEF Gone, NoEntry, EntryInv
    <2>. QED  BY <2>1, <2>2
  <1>9. CASE Check
    <2>1. EntryInv' /\ pc' \in {"look", "filter"}
      BY <1>3, <1>9 DEF Check
    <2>2. CASE out' = out
      BY <1>4, <2>1, <2>2
    <2>3. CASE out' # out
      <3>1. /\ Alive(cursor) /\ proc[cursor].start = before
            /\ Exe(proc[cursor].kind) = image
            /\ out' = out \cup {[pid |-> cursor, start |-> handle]}
            /\ pc = "check" /\ cursor \in Pid
        BY <1>9, <2>3, SMT, ProcessesAssumption DEF Check, TypeOK, Pid
      <3>2. handle = before /\ image \in Exes(mode)
        BY <3>1 DEF SignalInv, EntryInv
      <3>. DEFINE g == [pid |-> cursor, start |-> handle]
      <3>3. g.start <= births
        BY <3>1, <3>2 DEF SignalInv, EntryInv
      <3>4. ASSUME NEW p \in Pid, Stands(g, p)
            PROVE  p = g.pid /\ Exe(proc[p].kind) \in Exes(mode)
        BY <3>1, <3>2, <3>4 DEF Stands, SignalInv, StartsInv
      <3>6. \A h \in out' : h.start <= births'
        BY <1>2, <3>1, <3>3 DEF SignalInv, FoundInv
      <3>7. ASSUME NEW h \in out', NEW p \in Pid, Stands(h, p)'
            PROVE  p = h.pid /\ Exe(proc'[p].kind) \in Exes(mode')
        <4>1. Stands(h, p)
          BY <1>2, <3>7 DEF Stands, Alive
        <4>2. CASE h = g
          BY <1>1, <1>2, <3>4, <4>1, <4>2
        <4>3. CASE h \in out
          BY <1>1, <1>2, <4>1, <4>3 DEF SignalInv, FoundInv
        <4>. QED  BY <3>1, <4>2, <4>3
      <3>. QED  BY <2>1, <3>6, <3>7 DEF FoundInv
    <2>. QED  BY <2>1, <2>2, <2>3
  <1>. QED  BY <1>5, <1>6, <1>7, <1>8, <1>9 DEF Scan

LEMMA SweepSignal ==
  ASSUME TypeOK, SignalInv, BeginHalt \/ BeginWatchStop \/ Sweep
  PROVE  SignalInv'
  <1>1. UNCHANGED table /\ UNCHANGED <<proc, births>>
    BY SweepTable DEF table
  <1>2. StartsInv'
    BY <1>1 DEF SignalInv, StartsInv, Alive
  <1>3. CASE BeginHalt \/ BeginWatchStop
    <2>1. out' = {} /\ pc' = "look" /\ before' = before
      BY <1>3 DEF BeginHalt, BeginWatchStop, SignalInv, FoundInv, entry
    <2>. QED  BY <1>1, <1>2, <2>1 DEF SignalInv, EntryInv, FoundInv
  <1>4. CASE Scan
    BY <1>2, <1>4, ScanSignal DEF SignalInv
  <1>5. CASE Poll \/ SendKill \/ Result
    <2>1. pc' \in {"wait", "wait-kill", "ok", "err"} /\ before' = before
          /\ UNCHANGED <<mode, out>> /\ (pc' = "wait" => pc = "wait")
      BY <1>5 DEF Poll, SendKill, Result, entry
    <2>2. FoundInv'
      BY <1>1, <2>1, FoundKept DEF SignalInv, Scanning
    <2>3. EntryInv'
      BY <1>1, <2>1 DEF SignalInv, EntryInv
    <2>. QED  BY <1>2, <2>2, <2>3 DEF SignalInv
  <1>6. CASE Term
    <2>1. pc = "term" /\ pc' = "wait" /\ before' = before /\ UNCHANGED <<mode, out>>
      BY <1>6 DEF Term, SendTerm, entry
    <2>2. FoundInv'
      BY <1>1, <2>1, FoundKept DEF SignalInv, Scanning
    <2>3. EntryInv'
      BY <1>1, <2>1 DEF SignalInv, EntryInv
    <2>. QED  BY <1>2, <2>2, <2>3 DEF SignalInv
  <1>7. CASE Filter
    <2>1. /\ pc = "filter" /\ pc' = "term" /\ before' = before /\ mode' = mode
          /\ out' = IF mode = "halt" THEN out ELSE {h \in out : h.pid = pid /\ Watcher(pid)}
      BY <1>7 DEF Filter, entry
    <2>2. EntryInv'
      BY <1>1, <2>1 DEF SignalInv, EntryInv
    <2>3. out' \subseteq out
      BY <2>1
    <2>4. ASSUME NEW h \in out', NEW p \in Pid, Stands(h, p)'
          PROVE  p = h.pid /\ proc'[p].kind \in Intended(mode')
      <3>1. h \in out /\ Stands(h, p)
        BY <1>1, <2>3, <2>4 DEF Stands, Alive
      <3>2. p = h.pid /\ Exe(proc[p].kind) \in Exes(mode)
        BY <2>1, <3>1 DEF SignalInv, FoundInv
      <3>3. CASE mode = "halt"
        BY <1>1, <2>1, <3>2, <3>3 DEF Exe, Exes, Intended, Server
      <3>4. CASE mode # "halt"
        BY <1>1, <2>1, <2>4, <3>2, <3>4 DEF Intended, Watcher
      <3>. QED  BY <3>2, <3>3, <3>4
    <2>5. FoundInv'
      BY <1>1, <2>1, <2>3, <2>4 DEF FoundInv, SignalInv, Scanning
    <2>. QED  BY <1>2, <2>2, <2>5 DEF SignalInv
  <1>8. CASE End
    <2>1. pc' = "idle" /\ out' = {} /\ before' = before
      BY <1>8 DEF End, entry
    <2>. QED  BY <1>1, <1>2, <2>1 DEF SignalInv, EntryInv, FoundInv
  <1>. QED  BY <1>3, <1>4, <1>5, <1>6, <1>7, <1>8 DEF Sweep

LEMMA Signalled == Spec => []SignalInv
  <1>1. Init => SignalInv
    <2>. SUFFICES ASSUME Init PROVE SignalInv
      OBVIOUS
    <2>1. \A p \in Pid : ~Alive(p)
      BY DEF Init, Alive
    <2>2. before <= births
      BY SMT DEF Init
    <2>. QED  BY <2>1, <2>2 DEF Init, SignalInv, StartsInv, EntryInv, FoundInv
  <1>2. TypeOK /\ SignalInv /\ [Next]_vars => SignalInv'
    <2>1. CASE BeginHalt \/ BeginWatchStop \/ Sweep
      BY <2>1, SweepSignal
    <2>2. CASE ~BeginHalt /\ ~BeginWatchStop /\ ~Sweep
      BY <2>2, OthersStep, OthersSignal
    <2>. QED  BY <2>1, <2>2
  <1>. QED  BY <1>1, <1>2, WatchStopType, PTL DEF Spec

(* However pids are used again between the scan and the signal, halt ends no  *)
(* process but servers and watch-stop none but watchers.                      *)
THEOREM NoStraySignalHolds == Spec => []NoStraySignal
  <1>1. SignalInv => NoStraySignal
    BY DEF SignalInv, FoundInv, NoStraySignal, Stands
  <1>. QED  BY <1>1, Signalled, PTL

-------------------------------------------------------------------------------
(* Nothing is missed: a process that was to be found when the sweep began is  *)
(* at or after the cursor or among what was found, and then among what is     *)
(* waited for, as long as it lives.                                           *)

Found(p) == \E h \in out : h.start = proc[p].start

Awaited(p) == \E h \in waiting : h.start = proc[p].start

Expected(p) ==
    /\ pc # "ok"
    /\ proc[p].kind \in Intended(mode)
    /\ Scanning \/ pc = "filter" => mode = "halt" \/ p = pid
    /\ Scanning => cursor <= p \/ Found(p)
    /\ p = cursor => /\ pc # "gone"
                     /\ pc \in {"exe", "open", "check"} => before = proc[p].start
                     /\ pc \in {"open", "check"} => image = Exe(proc[p].kind)
    /\ pc \in {"filter", "term"} => Found(p)
    /\ pc \in {"wait", "wait-kill"} => Awaited(p)

Sought(p) == Alive(p) /\ proc[p].start \in present

PresentInv ==
    /\ \A s \in present : s <= births
    /\ \A p \in Pid : Sought(p) => Expected(p)

LEMMA OthersPresent ==
  ASSUME TypeOK, SignalInv, PresentInv, [Next]_vars, UNCHANGED <<sweep, pid>>,
         present' \subseteq present
  PROVE  PresentInv'
  <1>1. births \in Nat /\ births' \in Nat /\ births <= births'
    BY BirthsGrow
  <1>2. ASSUME NEW s \in present PROVE s \in Nat /\ s <= births /\ s <= births'
    BY <1>1, NatPid DEF TypeOK, PresentInv
  <1>3. ASSUME NEW p \in Pid, Sought(p)'
        PROVE  Sought(p) /\ proc'[p].start = proc[p].start /\ proc'[p].kind = proc[p].kind
    BY <1>2, <1>3, Survivor DEF Sought, SignalInv
  <1>4. ASSUME NEW p \in Pid, Sought(p)'
        PROVE  Expected(p)'
    <2>1. Expected(p)
      BY <1>3, <1>4 DEF PresentInv
    <2>. QED  BY <1>3, <1>4, <2>1 DEF Expected, Found, Awaited, Scanning, sweep, entry
  <1>. QED  BY <1>2, <1>4 DEF PresentInv

LEMMA BeginPresent ==
  ASSUME TypeOK, SignalInv, LockInv, BeginHalt \/ BeginWatchStop
  PROVE  PresentInv'
  <1>1. UNCHANGED <<proc, births>>
    BY SweepTable DEF table
  <1>2. /\ pc' = "look" /\ cursor' = 1
        /\ mode' = "halt" \/ (mode' = "watch-stop" /\ pid' = pidfile)
    BY DEF BeginHalt, BeginWatchStop
  <1>3. ASSUME NEW s \in present'
        PROVE  \E p \in Pid : /\ Alive(p) /\ proc[p].start = s
                              /\ proc[p].kind \in Intended(mode')
                              /\ mode' = "halt" \/ p = pid'
    <2>1. CASE BeginHalt
      BY <1>3, <2>1 DEF BeginHalt, Intended
    <2>2. CASE BeginWatchStop
      BY <1>3, <2>2 DEF BeginWatchStop, Intended, Watcher, LockInv, FileInv
    <2>. QED  BY <2>1, <2>2
  <1>4. \A s \in present' : s <= births'
    BY <1>1, <1>3 DEF SignalInv, StartsInv
  <1>5. ASSUME NEW p \in Pid, Sought(p)'
        PROVE  Expected(p)'
    <2>1. Alive(p) /\ proc[p].start \in present'
      BY <1>1, <1>5 DEF Sought, Alive
    <2>2. proc[p].kind \in Intended(mode') /\ (mode' = "halt" \/ p = pid')
      BY <1>3, <2>1 DEF SignalInv, StartsInv
    <2>3. 1 <= p
      BY SMT, ProcessesAssumption DEF Pid
    <2>. QED  BY <1>1, <1>2, <2>2, <2>3 DEF Expected
  <1>. QED  BY <1>4, <1>5 DEF PresentInv

LEMMA IntendedIsFound == \A m \in Mode : \A k \in Intended(m) : Exe(k) \in Exes(m)
  BY DEF Mode, Intended, Exe, Exes, Server

(* The scan takes its next entry: nothing sought is left behind.              *)
LEMMA NextPresent ==
  ASSUME TypeOK, Scanning, NextEntry, UNCHANGED <<table, mode, present, pid>>, out \subseteq out',
         NEW p \in Pid, Sought(p), Expected(p), p = cursor => Found(p)'
  PROVE  Expected(p)'
  <1>1. UNCHANGED proc /\ p \in Nat /\ cursor \in Nat /\ MaxPid \in Nat /\ p <= MaxPid
    BY SMT, ProcessesAssumption DEF table, Pid, TypeOK
  <1>2. Found(p) => Found(p)'
    BY <1>1 DEF Found
  <1>3. cursor < p \/ Found(p)'
    BY <1>1, <1>2 DEF Expected
  <1>4. CASE cursor = MaxPid
    <2>1. pc' = "filter"
      BY <1>4 DEF NextEntry
    <2>2. Found(p)'
      BY <1>1, <1>3, <1>4
    <2>. QED  BY <1>1, <2>1, <2>2 DEF Expected, Scanning
  <1>5. CASE cursor # MaxPid
    <2>1. pc' = "look" /\ cursor' = cursor + 1
      BY <1>5 DEF NextEntry
    <2>2. cursor' <= p \/ Found(p)'
      BY <1>1, <1>3, <2>1
    <2>. QED  BY <1>1, <2>1, <2>2 DEF Expected, Scanning
  <1>. QED  BY <1>4, <1>5

LEMMA ScanPresent ==
  ASSUME TypeOK, SignalInv, PresentInv, Scan, UNCHANGED <<life, pid>>
  PROVE  PresentInv'
  <1>1. UNCHANGED <<table, proc, births, mode, waiting, present, pid>> /\ Scanning
    BY DEF Scan, Look, ReadExe, Open, Gone, Check, Scanning, table
  <1>2. mode \in Mode /\ cursor \in Pid
    BY SMT, <1>1, ProcessesAssumption DEF Scanning, TypeOK, Pid
  <1>. SUFFICES ASSUME NEW p \in Pid, Sought(p) PROVE Expected(p)'
    BY <1>1 DEF PresentInv, Sought, Alive
  <1>3. Expected(p) /\ Alive(p)
    BY DEF PresentInv, Sought
  <1>4. ASSUME NextEntry, p # cursor, out \subseteq out' PROVE Expected(p)'
    BY <1>1, <1>3, <1>4, NextPresent
  <1>5. CASE Look
    <2>1. out' = out
      BY <1>5 DEF Look
    <2>2. CASE Alive(cursor)
      BY <1>1, <1>3, <1>5, <2>1, <2>2 DEF Look, Expected, Found, Scanning
    <2>3. CASE ~Alive(cursor)
      BY <1>3, <1>4, <1>5, <2>1, <2>3 DEF Look
    <2>. QED  BY <2>2, <2>3
  <1>6. CASE ReadExe
    <2>1. out' = out /\ pc = "exe"
      BY <1>6 DEF ReadExe
    <2>2. CASE Alive(cursor) /\ Exe(proc[cursor].kind) \in Exes(mode)
      BY <1>1, <1>3, <1>6, <2>1, <2>2 DEF ReadExe, Expected, Found, Scanning
    <2>3. CASE ~(Alive(cursor) /\ Exe(proc[cursor].kind) \in Exes(mode))
      <3>1. p # cursor
        BY <1>2, <1>3, <2>3, IntendedIsFound DEF Expected
      <3>. QED  BY <1>4, <1>6, <2>1, <2>3, <3>1 DEF ReadExe
    <2>. QED  BY <2>2, <2>3
  <1>7. CASE Open
    <2>1. out' = out /\ pc = "open"
      BY <1>7 DEF Open
    <2>2. p = cursor => proc[cursor] # NoProcess
      BY <1>3 DEF Alive
    <2>. QED  BY <1>1, <1>3, <1>7, <2>1, <2>2 DEF Open, Expected, Found, Scanning
  <1>8. CASE Gone
    <2>1. out' = out /\ pc = "gone" /\ p # cursor
      BY <1>3, <1>8 DEF Gone, Expected
    <2>2. CASE Alive(cursor)
      BY <1>1, <1>3, <1>8, <2>1, <2>2 DEF Gone, NoEntry, Expected, Scanning
    <2>3. CASE ~Alive(cursor)
      BY <1>4, <1>8, <2>1, <2>3 DEF Gone
    <2>. QED  BY <2>2, <2>3
  <1>9. CASE Check
    <2>1. out \subseteq out' /\ NextEntry /\ pc = "check"
      BY <1>9 DEF Check
    <2>2. CASE p = cursor
      <3>1. proc[cursor].start = before /\ Exe(proc[cursor].kind) = image
        BY <1>3, <2>1, <2>2 DEF Expected
      <3>2. handle = proc[p].start
        BY <1>3, <2>1, <2>2, <3>1 DEF SignalInv, EntryInv
      <3>3. [pid |-> cursor, start |-> handle] \in out'
        BY <1>3, <1>9, <2>2, <3>1 DEF Check
      <3>4. Found(p)'
        BY <1>1, <3>2, <3>3 DEF Found
      <3>. QED  BY <1>1, <1>3, <2>1, <3>4, NextPresent
    <2>3. CASE p # cursor
      BY <1>4, <2>1, <2>3
    <2>. QED  BY <2>2, <2>3
  <1>. QED  BY <1>5, <1>6, <1>7, <1>8, <1>9 DEF Scan

(* The signals and the waits lose nobody of what was found.                   *)
LEMMA EndPresent ==
  ASSUME TypeOK, SignalInv, PresentInv, Sweep, ~Scan
  PROVE  PresentInv'
  <1>1. UNCHANGED <<table, proc, births>>
    BY SweepTable DEF table
  <1>2. CASE End
    BY <1>2 DEF End, PresentInv, Sought
  <1>3. ASSUME ~End, NEW p \in Pid, Sought(p), Expected(p)
        PROVE  Expected(p)'
    <2>1. UNCHANGED <<mode, cursor, before, image>> /\ ~Scanning'
      BY <1>3 DEF Sweep, Poll, SendKill, Result, Filter, Term, SendTerm, entry, Scanning
    <2>2. CASE Poll
      <3>1. waiting' = {h \in waiting : Runs(h.start)} /\ pc' = pc /\ out' = out
            /\ pc \in {"wait", "wait-kill"}
        BY <2>2 DEF Poll
      <3>2. Awaited(p) => Awaited(p)'
        BY <1>1, <1>3, <3>1 DEF Awaited, Runs, Sought
      <3>. QED  BY <1>1, <1>3, <2>1, <3>1, <3>2 DEF Expected, Scanning
    <2>3. CASE SendKill
      BY <1>1, <1>3, <2>1, <2>3 DEF SendKill, Expected, Scanning, Awaited
    <2>4. CASE Result
      <3>1. waiting # {}
        BY <1>3, <2>4 DEF Result, Expected, Awaited
      <3>. QED  BY <1>1, <1>3, <2>1, <2>4, <3>1 DEF Result, Expected, Scanning
    <2>5. CASE Term
      <3>1. pc = "term" /\ pc' = "wait" /\ waiting' = out
        BY <2>5 DEF Term, SendTerm
      <3>2. Awaited(p)'
        BY <1>1, <1>3, <3>1 DEF Expected, Found, Awaited
      <3>. QED  BY <1>1, <1>3, <2>1, <3>1, <3>2 DEF Expected, Scanning
    <2>6. CASE Filter
      <3>1. /\ pc = "filter" /\ pc' = "term"
            /\ out' = IF mode = "halt" THEN out ELSE {h \in out : h.pid = pid /\ Watcher(pid)}
        BY <2>6 DEF Filter
      <3>2. PICK h \in out : h.start = proc[p].start
        BY <1>3, <3>1 DEF Expected, Found
      <3>3. p = h.pid
        BY <1>3, <3>2 DEF SignalInv, FoundInv, Stands, Sought
      <3>4. mode = "halt" \/ (p = pid /\ Watcher(p))
        BY <1>3, <3>1 DEF Expected, Intended, Watcher, Sought
      <3>5. Found(p)'
        BY <1>1, <3>1, <3>2, <3>3, <3>4 DEF Found
      <3>. QED  BY <1>1, <1>3, <2>1, <3>1, <3>5 DEF Expected, Scanning
    <2>. QED  BY <1>3, <2>2, <2>3, <2>4, <2>5, <2>6 DEF Sweep
  <1>4. CASE ~End
    <2>1. present' = present
      BY <1>4 DEF Sweep, Poll, SendKill, Result, Filter, Term, SendTerm
    <2>. QED  BY <1>1, <1>3, <1>4, <2>1 DEF PresentInv, Sought, Alive
  <1>. QED  BY <1>2, <1>4

LEMMA NobodyMissed == Spec => []PresentInv
  <1>1. Init => PresentInv
    BY DEF Init, PresentInv, Sought
  <1>2. TypeOK /\ SignalInv /\ LockInv /\ PresentInv /\ [Next]_vars => PresentInv'
    <2>. SUFFICES ASSUME TypeOK, SignalInv, LockInv, PresentInv, [Next]_vars
                  PROVE  PresentInv'
      OBVIOUS
    <2>1. CASE BeginHalt \/ BeginWatchStop
      BY <2>1, BeginPresent
    <2>2. CASE Sweep /\ Scan
      <3>1. UNCHANGED <<life, pid>>
        BY <2>2 DEF Sweep, Scan, Look, ReadExe, Open, Gone, Check, Filter, Term, SendTerm, End
      <3>. QED  BY <2>2, <3>1, ScanPresent
    <2>3. CASE Sweep /\ ~Scan
      BY <2>3, EndPresent
    <2>4. CASE ~BeginHalt /\ ~BeginWatchStop /\ ~Sweep
      BY <2>4, OthersStep, OthersPresent
    <2>. QED  BY <2>1, <2>2, <2>3, <2>4
  <1>. QED  BY <1>1, <1>2, WatchStopType, Signalled, Locked, PTL DEF Spec

(* A halt that reports success has ended every server of its beginning, and   *)
(* what is born under one of their pids is another process.                   *)
THEOREM HaltedAreGoneHolds == Spec => []HaltedAreGone
  <1>1. PresentInv => HaltedAreGone
    BY DEF PresentInv, Sought, Expected, HaltedAreGone, Runs
  <1>. QED  BY <1>1, NobodyMissed, PTL

(* A watch-stop that reports success has ended the watcher of watch.pid,      *)
(* whether SIGTERM met it in poll, before poll, in an exec or on its way out. *)
THEOREM WatcherIsStoppedHolds == Spec => []WatcherIsStopped
  <1>1. PresentInv => WatcherIsStopped
    BY DEF PresentInv, Sought, Expected, WatcherIsStopped, Runs
  <1>. QED  BY <1>1, NobodyMissed, PTL

-------------------------------------------------------------------------------
(* A sweep ends.  What it still has to do is bounded by the pids, not by the  *)
(* processes that come meanwhile, and nobody but the sweep itself adds to it. *)

(* The steps on this entry and on those that follow, or those after the scan, *)
(* the returns of poll aside.                                                 *)
StepsLeft ==
    CASE pc = "look" -> 9 + 5 * (MaxPid - cursor)
      [] pc = "exe" -> 8 + 5 * (MaxPid - cursor)
      [] pc = "open" -> 7 + 5 * (MaxPid - cursor)
      [] pc \in {"gone", "check"} -> 6 + 5 * (MaxPid - cursor)
      [] pc = "filter" -> 5
      [] pc = "term" -> 4
      [] pc = "wait" -> 3
      [] pc = "wait-kill" -> 2
      [] pc \in {"ok", "err"} -> 1
      [] pc = "idle" -> 0

(* The processes that a sweep waits for, each a return of poll at most.       *)
ReturnsLeft == Cardinality(waiting)

LEMMA HandlesFinite ==
  ASSUME NEW S \in SUBSET [pid : Pid, start : Start]
  PROVE  IsFiniteSet(S) /\ Cardinality(S) \in Nat
  <1>1. IsFiniteSet(Pid) /\ IsFiniteSet(Start)
    BY ProcessesAssumption, FS_Interval DEF Pid, Start
  <1>2. IsFiniteSet(Pid \X Start)
    BY <1>1, FS_Product
  <1>. DEFINE f == [x \in Pid \X Start |-> [pid |-> x[1], start |-> x[2]]]
  <1>3. f \in Surjection(Pid \X Start, [pid : Pid, start : Start])
    <2>1. \A h \in [pid : Pid, start : Start] : \E x \in Pid \X Start : f[x] = h
      <3>1. SUFFICES ASSUME NEW h \in [pid : Pid, start : Start]
                     PROVE  \E x \in Pid \X Start : f[x] = h
        OBVIOUS
      <3>2. <<h.pid, h.start>> \in Pid \X Start
        OBVIOUS
      <3>3. f[<<h.pid, h.start>>] = h
        BY <3>2
      <3>. QED  BY <3>2, <3>3
    <2>. QED  BY <2>1 DEF Surjection
  <1>. HIDE DEF f
  <1>4. IsFiniteSet([pid : Pid, start : Start])
    BY <1>2, <1>3, FS_Surjection
  <1>. QED  BY <1>4, FS_Subset, FS_CardinalityType

(* Each step of the sweep does something of it, whatever the processes did in *)
(* between; while it waits, each return of poll has seen one more go.         *)
SweepRuns ==
    [][/\ pc # "idle" /\ Sweep =>
            \/ StepsLeft' < StepsLeft
            \/ StepsLeft' = StepsLeft /\ ReturnsLeft' < ReturnsLeft
       /\ pc # "idle" /\ ~Sweep =>
            StepsLeft' = StepsLeft /\ ReturnsLeft' = ReturnsLeft]_vars

LEMMA NextEntryLowers ==
  ASSUME TypeOK, NextEntry, pc \in {"look", "exe", "gone", "check"}
  PROVE  StepsLeft' < StepsLeft
  <1>1. cursor \in 1 .. MaxPid /\ MaxPid \in Nat
    BY SMT, ProcessesAssumption DEF TypeOK
  <1>2. CASE cursor = MaxPid
    BY <1>1, <1>2 DEF NextEntry, StepsLeft
  <1>3. CASE cursor # MaxPid
    BY <1>1, <1>3 DEF NextEntry, StepsLeft
  <1>. QED  BY <1>2, <1>3

LEMMA ScanLowers ==
  ASSUME TypeOK, Scan
  PROVE  StepsLeft' < StepsLeft
  <1>1. cursor \in 1 .. MaxPid /\ MaxPid \in Nat
    BY SMT, ProcessesAssumption DEF TypeOK, Scan, Look, ReadExe, Open, Gone, Check
  <1>2. CASE NextEntry /\ ~Open
    BY <1>2, NextEntryLowers DEF Scan, Look, ReadExe, Gone, Check
  <1>3. CASE Open
    BY <1>1, <1>3 DEF Open, StepsLeft
  <1>4. CASE ~NextEntry /\ (Look \/ ReadExe)
    BY <1>1, <1>4 DEF Look, ReadExe, StepsLeft
  <1>5. CASE ~NextEntry /\ (Gone \/ Check)
    BY <1>1, <1>5 DEF Gone, Check, StepsLeft
  <1>. QED  BY <1>2, <1>3, <1>4, <1>5 DEF Scan

LEMMA PollLowers ==
  ASSUME TypeOK, Poll
  PROVE  StepsLeft' = StepsLeft /\ ReturnsLeft' < ReturnsLeft
  <1>1. waiting' \in SUBSET waiting /\ waiting' # waiting /\ waiting \subseteq [pid : Pid, start : Start]
    BY DEF Poll, TypeOK
  <1>2. IsFiniteSet(waiting) /\ Cardinality(waiting) \in Nat /\ Cardinality(waiting') \in Nat
    BY <1>1, HandlesFinite
  <1>3. Cardinality(waiting') <= Cardinality(waiting) /\ Cardinality(waiting') # Cardinality(waiting)
    BY <1>1, <1>2, FS_Subset
  <1>. QED  BY <1>2, <1>3 DEF Poll, StepsLeft, ReturnsLeft

(* So a halt or watch-stop runs out of steps, whatever is forked, executed or *)
(* signalled meanwhile: the deadlines end the waiting, nothing else must.     *)
THEOREM SweepRunsOut ==
    Spec => [](StepsLeft \in Nat /\ ReturnsLeft \in Nat) /\ SweepRuns
  <1>1. ASSUME TypeOK PROVE StepsLeft \in Nat /\ ReturnsLeft \in Nat
    <2>1. MaxPid \in Nat /\ cursor \in 0 .. MaxPid
      BY <1>1, ProcessesAssumption DEF TypeOK
    <2>. QED  BY <1>1, <2>1, HandlesFinite DEF TypeOK, StepsLeft, ReturnsLeft
  <1>2. ASSUME TypeOK, Sweep, pc # "idle"
        PROVE  StepsLeft' < StepsLeft \/ (StepsLeft' = StepsLeft /\ ReturnsLeft' < ReturnsLeft)
    <2>1. CASE Scan
      BY <1>2, <2>1, ScanLowers
    <2>2. CASE Poll
      BY <1>2, <2>2, PollLowers
    <2>3. CASE SendKill \/ Result
      BY <2>3 DEF SendKill, Result, StepsLeft
    <2>4. CASE Filter \/ Term \/ End
      BY <2>4 DEF Filter, Term, SendTerm, End, StepsLeft
    <2>. QED  BY <1>2, <2>1, <2>2, <2>3, <2>4 DEF Sweep
  <1>3. ASSUME [Next]_vars, ~Sweep, pc # "idle"
        PROVE  StepsLeft' = StepsLeft /\ ReturnsLeft' = ReturnsLeft
    <2>1. UNCHANGED sweep
      BY <1>3, OthersStep DEF BeginHalt, BeginWatchStop
    <2>. QED  BY <2>1 DEF sweep, StepsLeft, ReturnsLeft
  <1>. QED  BY <1>1, <1>2, <1>3, WatchStopType, PTL DEF Spec, SweepRuns

===============================================================================
