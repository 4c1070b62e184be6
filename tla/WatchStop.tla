------------------------------- MODULE WatchStop -------------------------------
(* The life of watcher processes, and the two sweeps that signal processes:   *)
(* halt, which ends the servers, and watch-stop, which ends the watcher that  *)
(* watch.pid names.  watch.lock lets one watcher in; a second one gives up.   *)
EXTENDS Processes

VARIABLES
    stage,    \* where the watcher of a pid is
    stop,     \* its STOP flag
    holder,   \* the pid of the process that holds watch.lock, 0 for none
    pidfile,  \* watch.pid, 0 when it does not exist
    pid       \* what watch-stop has read of it

life == <<stage, stop, holder, pidfile>>
vars == <<table, sweep, present, life, pid>>

Stage == {"new", "locked", "ready", "loop", "armed", "poll", "ending", "done"}
Looping == {"loop", "armed", "poll"}
HandlerInstalled == {"ready", "loop", "armed", "poll", "ending", "done"}

Watcher(p) == Alive(p) /\ proc[p].kind = "watch"

Goto(p, s) == stage' = [stage EXCEPT ![p] = s]

-------------------------------------------------------------------------------
Init == /\ proc = [p \in Pid |-> NoProcess] /\ births = 0
        /\ pc = "idle" /\ mode = "halt" /\ cursor = 0
        /\ before = 0 /\ image = "none" /\ handle = 0
        /\ out = {} /\ waiting = {} /\ present = {}
        /\ stage = [p \in Pid |-> "new"]
        /\ stop = [p \in Pid |-> FALSE]
        /\ holder = 0 /\ pidfile = 0 /\ pid = 0

(* Processes come, but a server is launched under control.lock only, which    *)
(* the sweep for halt holds.                                                  *)
Arrive(p) ==
    /\ \/ Fork(p)
       \/ \E k \in {"watch", "smbctl", "other"} : Born(p, k)
       \/ (pc = "idle" \/ mode # "halt") /\ Born(p, "smbd")
    /\ stage' = [stage EXCEPT ![p] = "new"]
    /\ stop' = [stop EXCEPT ![p] = FALSE]
    /\ UNCHANGED <<sweep, holder, pidfile, pid>>

(* The kernel releases the lock of a process that exits; watch.pid stays.     *)
Leave(p) ==
    /\ Exit(p)
    /\ stage' = [stage EXCEPT ![p] = "new"]
    /\ stop' = [stop EXCEPT ![p] = FALSE]
    /\ holder' = IF holder = p THEN 0 ELSE holder
    /\ UNCHANGED <<sweep, pidfile, pid>>

Other(p) ==
    /\ Exec(p) \/ Release(p)
    /\ UNCHANGED <<sweep, life, pid>>

-------------------------------------------------------------------------------
(* watch::run.  An error on the way out of it, or a lock that is taken, is    *)
(* Leave.                                                                     *)

Step(p, from, to) == Watcher(p) /\ stage[p] = from /\ Goto(p, to)

outside == <<table, sweep, present, pid>>

TakeLock(p) ==
    /\ Step(p, "new", "locked")
    /\ holder = 0 /\ holder' = p
    /\ UNCHANGED <<outside, stop, pidfile>>

(* The logs are prepared, the event sources opened, the handlers installed.   *)
Prepare(p) == Step(p, "locked", "ready") /\ UNCHANGED <<outside, stop, holder, pidfile>>

WritePid(p) ==
    /\ Step(p, "ready", "loop")
    /\ pidfile' = p
    /\ UNCHANGED <<outside, stop, holder>>

(* The flag is tested at the top of the loop and after poll.                  *)
TestStop(p) ==
    /\ Step(p, "loop", IF stop[p] THEN "ending" ELSE "armed")
    /\ UNCHANGED <<outside, stop, holder, pidfile>>

CallPoll(p) == Step(p, "armed", "poll") /\ UNCHANGED <<outside, stop, holder, pidfile>>

(* An event of any source.                                                    *)
PollReturns(p) == Step(p, "poll", "loop") /\ UNCHANGED <<outside, stop, holder, pidfile>>

(* The share moved to another user: the watcher executes itself anew, which   *)
(* closes the lock and forgets STOP.                                          *)
ReExec(p) ==
    /\ Step(p, "armed", "new")
    /\ stop' = [stop EXCEPT ![p] = FALSE]
    /\ holder' = 0
    /\ UNCHANGED <<outside, pidfile>>

(* Mutant of RemovePid: the lock is dropped before the file is removed.       *)
RemovePidUnlocked(p) ==
    /\ \/ Step(p, "ending", "ending") /\ holder = p /\ holder' = 0 /\ UNCHANGED pidfile
       \/ Step(p, "ending", "done") /\ holder # p /\ pidfile' = 0 /\ UNCHANGED holder
    /\ UNCHANGED <<outside, stop>>

(* The lock is held until the process is gone.                                *)
RemovePid(p) ==
    /\ Step(p, "ending", "done")
    /\ pidfile' = 0
    /\ UNCHANGED <<outside, stop, holder>>

-------------------------------------------------------------------------------
(* The sweeps *)

BeginHalt ==
    /\ pc = "idle"
    /\ mode' = "halt" /\ pc' = "look" /\ cursor' = 1
    /\ present' = {s \in Start : \E p \in Pid : /\ Alive(p) /\ proc[p].start = s
                                                /\ proc[p].kind \in Server}
    /\ UNCHANGED <<table, entry, out, waiting, life, pid>>

(* Mutant of BeginWatchStop: the text of watch.pid does not parse.            *)
BeginWatchStopBlind ==
    /\ pc = "idle"
    /\ mode' = "watch-stop" /\ pc' = "look" /\ cursor' = 1
    /\ pid' = 0
    /\ present' = {s \in Start : \E p \in Pid : /\ Watcher(p) /\ proc[p].start = s
                                                /\ stage[p] \in Looping}
    /\ UNCHANGED <<table, entry, out, waiting, life>>

(* watch-stop reads watch.pid first.                                          *)
BeginWatchStop ==
    /\ pc = "idle"
    /\ mode' = "watch-stop" /\ pc' = "look" /\ cursor' = 1
    /\ pid' = pidfile
    /\ present' = {s \in Start : \E p \in Pid : /\ Watcher(p) /\ proc[p].start = s
                                                /\ stage[p] \in Looping}
    /\ UNCHANGED <<table, entry, out, waiting, life>>

(* watch-stop keeps the process of watch.pid, if its command line is that of  *)
(* a watcher.                                                                 *)
Filter ==
    /\ pc = "filter" /\ pc' = "term"
    /\ out' = IF mode = "halt" THEN out ELSE {h \in out : h.pid = pid /\ Watcher(pid)}
    /\ pid' = 0
    /\ UNCHANGED <<table, mode, cursor, entry, waiting, present, life>>

(* A watcher's handler sets STOP and interrupts poll.  Before it is installed *)
(* SIGTERM is the end of a process, as it may be of any other.                *)
Term ==
    /\ SendTerm
    /\ LET hit == {p \in Pid : /\ Watcher(p) /\ stage[p] \in HandlerInstalled
                               /\ [pid |-> p, start |-> proc[p].start] \in out}
       IN /\ stop' = [p \in Pid |-> stop[p] \/ p \in hit]
          /\ stage' = [p \in Pid |-> IF p \in hit /\ stage[p] = "poll" THEN "loop"
                                     ELSE stage[p]]
    /\ UNCHANGED <<holder, pidfile, pid>>

End ==
    /\ pc \in {"ok", "err"}
    /\ pc' = "idle"
    /\ mode' = "halt" /\ out' = {} /\ waiting' = {} /\ present' = {} /\ pid' = 0
    /\ UNCHANGED <<table, cursor, entry, life>>

Sweep == \/ (Scan \/ Poll \/ SendKill \/ Result) /\ UNCHANGED <<life, pid>>
         \/ Filter \/ Term \/ End

Watch(p) == \/ TakeLock(p) \/ Prepare(p) \/ WritePid(p) \/ TestStop(p) \/ CallPoll(p)
            \/ PollReturns(p) \/ ReExec(p) \/ RemovePid(p)

Next == \/ BeginHalt \/ BeginWatchStop \/ Sweep
        \/ \E p \in Pid : Arrive(p) \/ Leave(p) \/ Other(p) \/ Watch(p)

(* The sweep runs and its deadlines pass; nobody else has to do anything.     *)
Spec == Init /\ [][Next]_vars /\ WF_vars(Sweep)

-------------------------------------------------------------------------------
(* Every variable keeps its type.                                             *)
TypeOK ==
    /\ proc \in [Pid -> Process \cup {NoProcess}]
    /\ births \in 0 .. MaxBirths
    /\ pc \in {"idle", "look", "exe", "open", "gone", "check", "filter", "term",
               "wait", "wait-kill", "ok", "err"}
    /\ mode \in Mode
    /\ cursor \in 0 .. MaxPid /\ (pc \in {"look", "exe", "open", "gone", "check"} <=> cursor # 0)
    /\ before \in 0 .. MaxBirths /\ handle \in 0 .. MaxBirths /\ (pc = "check" => handle # 0)
    /\ image \in {"none", "smbctl"} \cup Server
    /\ out \subseteq [pid : Pid, start : Start]
    /\ waiting \subseteq [pid : Pid, start : Start]
    /\ present \subseteq Start
    /\ stage \in [Pid -> Stage] /\ stop \in [Pid -> BOOLEAN]
    /\ holder \in 0 .. MaxPid /\ pidfile \in 0 .. MaxPid /\ pid \in 0 .. MaxPid

(* No stray signal: whatever happened to the pids since they were looked at,  *)
(* a signal of halt reaches servers only, and one of watch-stop watchers.     *)
NoStraySignal ==
    pc \in {"term", "wait"} =>
        \A h \in out, p \in Pid :
            Alive(p) /\ proc[p].start = h.start => proc[p].kind \in Intended(mode)

(* A halt that succeeds has ended every server that was there when it began,  *)
(* except one that executed another program meanwhile.                        *)
HaltedAreGone ==
    pc = "ok" /\ mode = "halt" => \A s \in present : ~Runs(s)

(* A watch-stop that succeeds has ended the watcher that was in its loop when *)
(* it began, though SIGTERM does not wake one that is about to poll, and one  *)
(* that executes itself anew forgets it.                                      *)
WatcherIsStopped ==
    pc = "ok" /\ mode = "watch-stop" => \A s \in present : ~Runs(s)

(* watch.pid names the watcher that is in its loop, so that watch-stop can    *)
(* find it.                                                                   *)
PidFileNamesWatcher ==
    \A p \in Pid : Watcher(p) /\ stage[p] \in Looping => pidfile = p

(* A sweep ends, even if a process that it waits for never exits.             *)
SweepEnds == pc = "look" ~> pc \in {"ok", "err"}
=============================================================================
