------------------------------- MODULE Processes -------------------------------
(* The processes of the device and a sweep over them: os::processes scans     *)
(* /proc for processes of some executables and keeps a pidfd of each, and     *)
(* os::terminate sends them SIGTERM, waits, sends SIGKILL, and waits again.   *)
(* Meanwhile processes are born, execute another program and exit, and their  *)
(* pids are used again.  The kernel's part (the table) is external.           *)
EXTENDS Naturals, FiniteSets

CONSTANTS
    MaxPid,     \* bound: the pids are 1..MaxPid
    MaxBirths,  \* bound: how many processes are born
    NoProcess   \* the pid is free

ASSUME ProcessesAssumption == MaxPid \in Nat \ {0} /\ MaxBirths \in Nat

Pid == 1 .. MaxPid
Start == 1 .. MaxBirths
Server == {"smbd", "rpcd"}
Kind == Server \cup {"watch", "smbctl", "other", "zombie"}
Process == [start : Start, kind : Kind]
Mode == {"halt", "watch-stop"}

(* The executable: a watcher is an smbctl whose command line says so.         *)
Exe(k) == IF k = "watch" THEN "smbctl" ELSE k

(* The executables that a sweep looks for.                                    *)
Exes(m) == IF m = "halt" THEN Server ELSE {"smbctl"}

(* The processes that it is meant for.                                        *)
Intended(m) == IF m = "halt" THEN Server ELSE {"watch"}

ASSUME NoProcessAssumption == NoProcess \notin Process

VARIABLES
    proc,     \* the process of each pid, or NoProcess
    births,   \* how many were born; this is the start time of the last one
    pc,       \* where the sweep is
    mode,     \* what it is for
    cursor,   \* the pid it looks at
    before,   \* the start time it has read, 0 when there is none
    image,    \* the executable it has read
    handle,   \* the process of the pidfd it has opened, 0 when there is none
    out,      \* the processes it has found, as [pid, start]
    waiting,  \* those whose exit it has not seen
    present   \* history: the intended processes that it should find

table == <<proc, births>>
entry == <<before, image, handle>>
sweep == <<pc, mode, cursor, entry, out, waiting>>

(* The pid has a process that is no zombie (start() is Some).                 *)
Alive(p) == proc[p] # NoProcess /\ proc[p].kind # "zombie"

(* The process that was born at s still runs.                                 *)
Runs(s) == \E p \in Pid : Alive(p) /\ proc[p].start = s

-------------------------------------------------------------------------------
(* The table *)

Born(p, k) ==
    /\ proc[p] = NoProcess
    /\ births < MaxBirths
    /\ births' = births + 1
    /\ proc' = [proc EXCEPT ![p] = [start |-> births + 1, kind |-> k]]
    /\ UNCHANGED present

(* smbd forks a child that serves a client.                                   *)
Fork(p) ==
    /\ \E q \in Pid : Alive(q) /\ proc[q].kind = "smbd"
    /\ Born(p, "smbd")

(* A child of smbd executes rpcd.                                             *)
Exec(p) ==
    /\ Alive(p) /\ proc[p].kind = "smbd"
    /\ proc' = [proc EXCEPT ![p].kind = "rpcd"]
    /\ present' = present \ {proc[p].start}
    /\ UNCHANGED births

(* A process exits, for a signal or on its own.                               *)
Exit(p) ==
    /\ Alive(p)
    /\ proc' = [proc EXCEPT ![p].kind = "zombie"]
    /\ UNCHANGED <<births, present>>

(* Its parent waits for it and the pid is free.                               *)
Release(p) ==
    /\ proc[p] # NoProcess /\ proc[p].kind = "zombie"
    /\ proc' = [proc EXCEPT ![p] = NoProcess]
    /\ UNCHANGED <<births, present>>

-------------------------------------------------------------------------------
(* processes: one entry of /proc after the other, in the order of the pids    *)

NoEntry == before' = 0 /\ image' = "none" /\ handle' = 0

(* Mutant of NextEntry: one entry too many.                                   *)
NextEntryBeyond ==
    /\ NoEntry
    /\ IF cursor > MaxPid THEN pc' = "filter" /\ cursor' = 0
       ELSE pc' = "look" /\ cursor' = cursor + 1

(* After the last entry the scan is complete.                                 *)
NextEntry ==
    /\ NoEntry
    /\ IF cursor = MaxPid THEN pc' = "filter" /\ cursor' = 0
       ELSE pc' = "look" /\ cursor' = cursor + 1

Look ==
    /\ pc = "look"
    /\ IF Alive(cursor)
       THEN /\ before' = proc[cursor].start
            /\ pc' = "exe"
            /\ UNCHANGED <<cursor, image, handle>>
       ELSE NextEntry
    /\ UNCHANGED <<table, mode, out, waiting, present>>

ReadExe ==
    /\ pc = "exe"
    /\ IF Alive(cursor) /\ Exe(proc[cursor].kind) \in Exes(mode)
       THEN /\ image' = Exe(proc[cursor].kind)
            /\ pc' = "open"
            /\ UNCHANGED <<cursor, before, handle>>
       ELSE NextEntry
    /\ UNCHANGED <<table, mode, out, waiting, present>>

(* pidfd_open fails when the pid is free.                                     *)
Open ==
    /\ pc = "open"
    /\ IF proc[cursor] = NoProcess THEN pc' = "gone" /\ UNCHANGED handle
       ELSE pc' = "check" /\ handle' = proc[cursor].start
    /\ UNCHANGED <<table, mode, cursor, before, image, out, waiting, present>>

(* The failure is one of the sweep if the pid is used again.                  *)
Gone ==
    /\ pc = "gone"
    /\ IF Alive(cursor) THEN NoEntry /\ pc' = "err" /\ cursor' = 0 ELSE NextEntry
    /\ UNCHANGED <<table, mode, out, waiting, present>>

(* Mutant of Check: the pid is trusted to be the process that was looked at.  *)
CheckNothing ==
    /\ pc = "check"
    /\ out' = out \cup {[pid |-> cursor, start |-> handle]}
    /\ NextEntry
    /\ UNCHANGED <<table, mode, waiting, present>>

(* The handle is that process's if the start time and the executable of the   *)
(* pid are still those that were read before it was opened.                   *)
Check ==
    /\ pc = "check"
    /\ out' = IF /\ Alive(cursor)
                 /\ proc[cursor].start = before
                 /\ Exe(proc[cursor].kind) = image
              THEN out \cup {[pid |-> cursor, start |-> handle]}
              ELSE out
    /\ NextEntry
    /\ UNCHANGED <<table, mode, waiting, present>>

-------------------------------------------------------------------------------
(* terminate *)

(* SIGTERM for each; what it does is the receiver's business.                 *)
SendTerm ==
    /\ pc = "term"
    /\ waiting' = out
    /\ pc' = "wait"
    /\ UNCHANGED <<table, mode, cursor, entry, out, present>>

(* poll returns when a process has exited.                                    *)
Poll ==
    /\ pc \in {"wait", "wait-kill"}
    /\ waiting # {}
    /\ waiting' = {h \in waiting : Runs(h.start)}
    /\ waiting' # waiting
    /\ UNCHANGED <<table, pc, mode, cursor, entry, out, present>>

(* All are gone, or the deadline passed: the rest gets SIGKILL.               *)
SendKill ==
    /\ pc = "wait"
    /\ pc' = "wait-kill"
    /\ UNCHANGED <<table, mode, cursor, entry, out, waiting, present>>

(* Mutant of Result: after SIGKILL there is nothing to wait for.              *)
ResultAtOnce ==
    /\ pc = "wait-kill"
    /\ pc' = "ok"
    /\ UNCHANGED <<table, mode, cursor, entry, out, waiting, present>>

(* Mutant of Result: it waits as long as it takes.                            *)
ResultInTheEnd ==
    /\ pc = "wait-kill" /\ waiting = {}
    /\ pc' = "ok"
    /\ UNCHANGED <<table, mode, cursor, entry, out, waiting, present>>

(* All are gone, or the second deadline passed as well.                       *)
Result ==
    /\ pc = "wait-kill"
    /\ pc' = IF waiting = {} THEN "ok" ELSE "err"
    /\ UNCHANGED <<table, mode, cursor, entry, out, waiting, present>>

Scan == Look \/ ReadExe \/ Open \/ Gone \/ Check
=============================================================================
