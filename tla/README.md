# A TLA+ model of the SMB module's control plane

The module turns a rooted Android device into an SMB server. One Rust program,
`smbctl` (`native/smbctl/src`), does everything except serving files: it keeps
the configuration, launches and ends Samba's `smbd`, and runs as the watcher
that starts and stops the server as the LAN, the storage and the settings
change. Scripts and the WebUI only call it. The server is one process tree that
`smbctl` can only observe from outside, through `/proc`, sockets and pidfds.

What makes this hard is not any one command. It is that commands of users, the
boot script, the installer and the watcher run concurrently and share a dozen
small files; that any of them can be killed between two writes; that the server
can end by itself; and that the watcher must notice every change through edge
triggered sources which it drains without reading. These are the questions of
this project.

## 1. Inventory

| part | state | operations | talks to |
|---|---|---|---|
| commands (`main.rs`) | `config.conf`, `smbpasswd`, `smb.conf`, flags `waiting_network`, `pending_auth_start`, keys `interface_key`, `applied_config.json` | start, stop, restart, suspend_network, set_config, save_restart, set_password_hex, boot | everybody else through the flock on `control.lock` |
| configuration (`config.rs`) | `config.conf` | load, validate, update, atomic save | commands, reconcile, watcher (inotify) |
| reconcile (`watch.rs` 30-74) | none of its own | one decision, then halt / suspend / start | the same files, the same lock |
| watcher loop (`watch.rs` 75-286) | signature, retry timer, failures, crash history, pidfds, armed directories | snapshot, reconcile, arm, poll, coalesce | rtnetlink, inotify, CE property thread, pidfd |
| processes (`os.rs`) | pidfds of what a scan has found | scan `/proc`, terminate with pidfds | smbd and its RPC helpers, watchers |
| life of a watcher (`watch.rs` 8-29, 75-128, 283) | `watch.lock`, `watch.pid`, the STOP flag | singleton, handler, re-exec, end, watch-stop | the kernel, `os.rs` |
| network and listeners (`os.rs`) | none | trusted addresses, addresses to bind, owned sockets | kernel |
| storage (`storage.rs`) | CE thread's last value | ready, directory events, property waits | Android properties |
| boot logs (`logs.rs`) | `log/`, `log-history/`, marker, stamp | archive, prune, mark | start, boot, watch |
| status and card (`main.rs`) | `module.prop` description | read-only queries | WebUI, module manager |
| entry scripts, installer, WebUI, notifications | form fields, sed edits of `config.conf` | call `smbctl` | commands |
| smbd and RPC helpers | external | bind, serve, fork, die | the kernel |

Hard behaviours, and where they are: interleaved critical sections that work on
a copy of the configuration (`main.rs` 598-642, `watch.rs` 31-73); several files
written one after the other with a kill in between (`main.rs` 421-435); errors
that leave from the middle through `?`; a decision taken from files that an
earlier, possibly killed, command wrote (`watch.rs` 61-67); a snapshot that is
older than what reconcile acts on (`watch.rs` 129 and 33); sources armed after
the state was read (`watch.rs` 161, 188); timers that race events (`watch.rs`
216-252); a scan of `/proc` whose entries change under it (`os.rs` 159-194); a
signal that comes between the test of a flag and poll (`watch.rs` 224); a serial
that must be read before the value it stands for (`storage.rs` 39-46).
`PROJECT.json` lists them as hazards, each at its line, with the
properties that watch over it or the reason why none does yet.

What makes the components correct:

- *commands and reconcile*: one server at a time; never a password share without
  a password; no lost update of a setting; a stop is final; a restart really
  applies; the files tell the truth when nobody holds the lock; every command
  returns.
- *watcher loop*: no change is slept through; an error is retried and then given
  up; a crash is answered; what it owes leads to the server that is asked for; the
  loop comes to rest.
- *boot logs*: no line is filed under a later boot; nothing is lost but the oldest
  archives above the limits and the files that a writer rolls out; the archives
  stay within their limits.
- *property waits*: no change slips between the read of a value and the wait for
  the next one, and the wait of boot ends.
- *processes*: no signal reaches a process it is not meant for, however pids are
  reused; a success means that what was to end has ended; a sweep ends.
- *life of a watcher*: one watcher at a time, and `watch.pid` is its name.
- *WebUI, installer*: see the plan.

## 2. Modules

`SmbControl` (core). Processes `Cmd` and `Watch` take steps; the variables are
the files (`cfg`, `password`, `waiting`, `pending`, `ikey`, `applied`, `conf`),
the lock, the server `smbd` (the configuration it was launched with, the
addresses of its `smb.conf`, the sockets it listens on), the device (`lan`,
`storage`) and per process a program counter `pc`, the label `ret` a halt
returns to, the command `op`, its working copy `loc` and the network `seen` by
reconcile. One action is what a process does up to the next write or up to the
use of something it read:

| code | actions |
|---|---|
| flock, `load`, exit (`os.rs` 18-47, `main.rs` 596-600) | `Issue`, `Lock`, `LoadFails`, `Return`, `Kill` |
| `halt` (`main.rs` 337, `os.rs` 195) | `Halt`, `HaltFails` |
| `start` (`main.rs` 350-438), `conf` (245-336) | `Start`, `Defer`, `WriteConf`, `Launch`, `LaunchFails`, `Await`, `Enable`, `Unflag`, `WriteKey`, `WriteApplied` |
| `stop` (439-452) | `Save`, `Forget`, `Flags` |
| dispatch (578-646) | `Update`, `Pend`, `PendSave`, `Passwd`, `Boot` |
| `reconcile` (`watch.rs` 30-74) | `ReadNetwork`, `Decide` |
| device | `LanChange`, `StorageChange`, `Listen`, `Crash`, `Reboot` |

`Watcher` extends `SmbControl` with the event loop: the locals of `run`
(`sig`, `now`, `force`, `failures`, `retry`, `crashes`), the supervised master
(`children`), the armed directories (`armed`) and the set `ev` of sources that
are readable. `Notice` says what a step of the rest of the system makes
readable; `TakeSnapshot`, `ReconcileEnds`, `ReadChildren`, `ArmStorage`,
`RecheckStorage`, `Wake` and `WindowEnds` are the stages of one round, and
`SnapshotFails` is the round over a `config.conf` that does not parse (`broken`),
which `Edit`, an editor outside of the program, causes and undoes. While the
loop is at the stage `reconcile`, the process `Watch` of `SmbControl` runs.

`ServiceContract` is the abstract specification of `SmbControl`: a configuration
that is wished for, an account that has a password or not, a server with some
settings or none, and requests that have the turn one after the other. It knows
no lock, no files and no program counters. A turn may only change what it was
asked to change, launch only what is wished for and only when it is wanted, and
end with OK only if it has done what its name says. `SmbControl!KeepsContract`
instantiates it: the configuration on disk is the wish, the settings of the
process `smbd` are what is served, the holder of `control.lock` has the turn, and
a process that is about to return OK has succeeded.

`Processes` is the table of processes and a sweep over it. `Look`, `ReadExe`,
`Open`, `Gone` and `Check` are the five looks of `os::processes` at one entry of
`/proc`; `SendTerm`, `Poll`, `SendKill` and `Result` are `os::terminate`. Between any
two of them processes are born on free pids (`Born`, `Fork`), execute another
program (`Exec`), exit and are waited for. `WatchStop` extends it with what the
sweeps are for: `BeginHalt` looks for servers, `BeginWatchStop` reads `watch.pid`,
scans for `smbctl` and keeps in `Filter` the one process of that pid whose command
line says `watch`. The watchers are processes of the table with a stage, a STOP
flag and the lock: `TakeLock`, `Prepare`, `WritePid`, `TestStop`, `CallPoll`,
`PollReturns`, `ReExec`, `RemovePid`.

`PropertyWait` is one thread against the property area. The rounds of
`wait_equals` and of the CE thread are the same statements up to the use of the
value: `ReadArea`, `Find`, `ReadValue`; then `Test` (return, give up or wait) or
`Report` (compare and write the eventfd, then wait). `SetProp`, `SetOther` and
`Publish` are init: a property changes, and the serial of the area moves after it.
For the CE thread the loop of the watcher is there as well: `Wake` drains the
eventfd, `Snapshot` reads the property.

`LogRotation` stands alone: `prepare` touches nothing the control logic reads.
Its variables are `log/` (the boot in its marker, the boots of the lines in its
current files, `lines`, and in those that were rolled over, `older`, its size), the
archives, the stamp of an older release, and the locals of
`prepare`: `pc`, the `label` it has read and the name of its archive. `Begin`,
`Rename` or `NothingToRename`, `MoveStamp`, `Create`, `FirstLine`, `Prune`,
`Pruned` and `Mark` are the statements of `logs.rs` 64-116 that write; `Kill`,
`Reboot` and the writers come between any two of them: `Write` is a line from any of
them, and `Roll` what `App::log` (`main.rs` 77-80), `notify.sh` and smbd do with a
file above its limit: it is renamed over the one that was renamed before.

`MCControl` and `MCWatcher` hold the instances for TLC; the other modules have
only numbers and small sets as constants and are checked as they are. The
modules whose names end in `Proofs` hold the theorems; `ServingProofs` extends
`WatcherProofs` with the one about `Converges`. Operators named in comments as "Mutant
of ..." are plausible bugs of the code; each property of a passing run is
violated when one of them replaces the definition it is a mutant of.

## 3. What is checked

Every run visits the whole state space of its instance.

| run | instance | properties |
|---|---|---|
| `control_commands` | one command process and the watcher, addresses A and B, three LANs, failing launches, no kills; start, stop, password, a switch to user authentication with the wildcard, a switch of the interfaces, an update that validate refuses | `TypeOK`, `AppliedIsRunning`, `WaitingIsDown`, `RunningIsEnabled`, `AcceptsOnlyCurrent` |
| `control_faults` | one address; both processes may be killed at any step, loads, halts and launches fail, smbd crashes, the device reboots | `OneMaster`, `AuthGuard`, `RestartApplies`, `StopSticks`, `LaunchFromDisk`, `KeysKept`, `KeepsContract` |
| `watcher_safety` | the loop with start and stop, crashes, reboots and watch-stop at any point | `WTypeOK`, `NoMissedChange`, `ControlSpec` |
| `watcher_live` | failing launches, crashes, a LAN that comes and goes, a `config.conf` that is broken and mended; fairness | `FailureRetried`, `CrashNoticed`, `ComesToRest` |
| `watcher_serves` | the loop with a user who restarts and may be killed at any step, a LAN that comes, crashes, failing launches; fairness | `CommandsReturn`, `Converges` |
| `property_wait` | either thread; three values, four changes of this or another property, which may exist at the start or not; fairness | `TypeOK`, `NoLostWakeup`, `NoLostEvent`, `Arrives`, `DeadlineEnds` |
| `watch_stop` | two pids, three births, any sequence of halts and watch-stops; fairness of the sweep | `TypeOK`, `NoStraySignal`, `HaltedAreGone`, `WatcherIsStopped`, `PidFileNamesWatcher`, `SweepEnds` |
| `log_rotation` | a release without markers and two boots after it, kills at any step, writers at any time, a clock that may go back; fairness | `TypeOK`, `OldIsNotNew`, `MarkedIsPruned`, `OnlyOldestIsLost`, `GetsPrepared` |

The four questions of `control_commands` about `applied_config.json` and the
flags hold only while nobody is killed: a kill between two writes is exactly what
makes the files lie. What must survive kills is in `control_faults`. `RestartApplies` is the strong form of what a restart
promises, and holds with every fault: a server that runs when it ends with OK has
its settings, `applied_config.json` says so, no flag says that it waits, and
`config.conf` enables it. `OnlyOldestIsLost` is about each step: `prepare` deletes the
oldest archive above the limits and nothing else, whoever writes meanwhile and
wherever it was interrupted before. A writer above its limit discards lines too, but
only those of the file that was renamed before, never a current one. `KeepsContract` is a refinement: TLC checks that every
step of the instance, kills, failures, crashes and reboots included, is a step
of `ServiceContract` or changes nothing that it knows. `ControlSpec` says that the loop with its locals is a
refinement of the critical sections: with the identity as refinement mapping,
each of its steps is a step of `SmbControl` or leaves its variables alone, so
what is proved of `SmbControl` holds of the watcher too.

Four runs show the code to disagree with what its README or its comments say
(findings in `PROJECT.json`); each is a short behaviour of the model:

| run | what happens |
|---|---|
| `control_stale_applied` | a watcher killed between the launch and `applied_config.json`; a setting changed and changed back; reconcile accepts a server with other settings |
| `watcher_lan_flap` | the LAN appears between snapshot and reconcile and is gone before the next snapshot; the server stays up without a LAN |
| `watcher_storage_race` | the directories appear between reconcile and the arming of the directory events; the recheck is skipped |
| `watcher_crash_window` | smbd ends between the check of its listeners and the opening of its pidfd; nobody restarts it |

`NoMissedChange` and `LanGuardAtRest` belong together: the loop never sleeps with
a signature other than the present configuration and network, and yet reconcile
may have acted on a network in between. `CrashNoticed` likewise leaves out the
window that `watcher_crash_window` shows, and a crash in a round whose file does
not parse, which the code forgets (`watch.rs` 167-168).

`Converges` is about a reconcile that the loop owes: one that has begun, a retry that
is set, a supervised master that has died while the loop sleeps. There is no
periodic reconcile (`watch.rs` 108, 144-158), so where nothing is owed nothing
brings the server up. The windows of `watcher_lan_flap` and `watcher_crash_window`
end in such states; so does a password that is set after a failed start
(`main.rs` 633), which no source of the loop reports. From an owed one the files
that killed restarts, crashes and failed launches have left must not mislead the loop: it runs and
retries until the server has the settings on disk and listens where it is asked
to. The promise ends when it has failed four times (`watch.rs` 152-156), when
its snapshot goes out of date (the change is then what is owed), when the
server is no longer wanted, when the file does not parse, or when the watcher
ends. A listener that never comes is a failed start, and nothing is assumed about it.

`NoLostEvent` has an exception too: a value that comes and goes between two looks
of the CE thread is not reported, and the loop may have seen it in a snapshot;
`missed` collects these values. `HaltedAreGone` is about the servers that were
there when halt began: a child that smbd forks during the scan, or that executes
an RPC helper between two looks at it, may stay (`present` leaves it out).

### Bounds, and why they are enough

- One command process: the lock serialises commands, so what two of them can do
  to each other is done by one that runs twice, and a command and the watcher
  already contend for the lock. The theorems hold for any number.
- One or two addresses: with two, an address can be up without being asked for
  (`INTERFACES_AUTO=0`) and a LAN can change without going away.
- `Op` lists the commands of an instance; each list has those that write what its
  properties read.
- `Storages` is `{locked, ready}` or `{ready}` (after the initial `locked`)
  except where the state in between matters.
- `watcher_serves`: one address, one LAN that comes. A start that records an
  address its `smb.conf` lacks (`main.rs` 428) needs two, which is past five minutes;
  it is in the theorem, which has every set of addresses. The commands are
  restarts, the ones that write every file; only they are killed.
- `LogRotation`: the boots 0, 1 and 2, the release without markers and two others,
  let a line of the first meet the label of the third; two archives of at most three bytes are allowed, so that either limit can be
  the one that is exceeded, and three times let `prepare` be interrupted with an
  archive that is not pruned. Kills and reboots are not taken any more when
  there are `MaxTime` archives, as the next call would then have no name left.
- `property_wait`: four changes let the property be created, updated and updated
  back around one round of the thread, with an unrelated change in between. The
  three values are "missing", the expected one and another.
- `watch_stop`: with two pids and three births a pid is reused at least once
  while the other process is there, and two watchers contend for the lock. With
  four births (1.4 million states) nothing else is found.
- `MaxFailures = 4` and `MaxCrashes = 4`: the code compares with 3, larger
  counts behave as 4.

### Fairness

`Watcher!WFairness`: a process that holds the lock takes its next step and
returns (weak); a waiter is granted the flock in the end (strong, as others may
hold it in between: the kernel queues the waiters); the loop takes its stages
and its timer runs out (weak). Nothing makes it reconcile: it does so on a change, on
an exit of the master or to retry, as the code does. Nothing is assumed of users, of
the LAN, of the storage, of smbd and its listeners, of faults, or of whoever starts
the watcher. `SmbControl` has no fairness of its own.
`LogRotation!FairSpec`: `prepare` goes on and is called again (weak), as
every start calls it and the watcher retries a start that failed.
`PropertyWait!FairSpec`: the thread runs, time passes, init moves the serial of
the area after a change, and poll returns when the eventfd is readable (all weak);
nobody has to set a property. `WatchStop!Spec`: the sweep runs and its deadlines
pass (weak); nothing is assumed of the processes it signals.

## 4. What is proved

`SmbControlProofs` proves, for every set of processes, addresses, ports,
commands, faults and every initial configuration that satisfies the assumptions
of `SmbControl`: `TypeCorrect`, `OneMasterHolds`, `AuthGuardHolds`,
`StopSticksHolds`, `LaunchFromDiskHolds` and `KeysKeptHolds`, each for the property
of that name.

The argument has two inductive invariants. `TypeInv` is the type invariant and
"a process that is about to launch finds an `smb.conf`". The second, `SafeInv`,
says why the critical sections protect what they read:

- `LockInv`: a process past `lock` and not yet idle holds the lock, so at most
  one is inside;
- `Fresh`: the working copy of the process inside is the configuration on disk;
  it is loaded under the lock and every write goes through the copy;
- `Entitlement`: a process stands at a label that its command can reach, and
  where it launches on behalf of reconcile the configuration is enabled;
- `ServerInv`: from a halt to the launch no server runs, and from the launch on
  the server is the one of the working copy;
- `AuthGuard` itself, with "at the label launch the copy needs no password".

`StepsRunOut` adds that no path of a command has a loop: `Left(p)`, the steps that
are left to a process inside, is at most 12, each of its steps lowers it and
nobody else changes it. From it follow `LockIsReleased` and `CommandsReturnHolds`
(see *Progress* below).

The constant assumptions are the ones of `SmbControl`: the processes are not
the value `Free`, the watcher is not a command, no command is called reconcile,
the initial configuration is valid, and the values for "no server" and "no file"
are neither. `AnyAddr` is not a trusted address.

`LogRotationProofs` proves, for every number of boots, archives and times, every
limit and every set of sizes: `TypeCorrect`, `OldIsNotNewHolds`,
`MarkedIsPrunedHolds` and `OnlyOldestIsLostHolds`. None of the invariants is
inductive: they say nothing of a `prepare` that is half done. The invariant
`Inv` adds where the half-moved directories stand. Before the rename the marker
is not of this boot and the label that was read is no newer than any line
(`BeforeRename`); after it `log/` has no marker and only lines of this boot
(`AfterRename`); the marker is about to be written only when the limits are met
(`PrunedFirst`). One lemma per action shows that it is kept; the assumptions are
`LogAssumption`: the constants are numbers and `NoDir` is not a directory.
`OnlyOldestIsLostHolds` needs besides `Moved`: the archive that is to get the stamp is
still there when the stamp is moved. It has one lemma for each of
its parts (`ArchivesStay`, `LogStays`, `StampStays`). `PrepareRunsOut` gives a
`prepare` that has begun a rank, the rank of its label plus the number of archives:
each of its steps lowers it, writers leave it alone, and at its end the marker is
the one of the present boot.

`TruthProofs` proves the four questions of `control_commands`, under `NoFailure`:
nobody is killed and no halt fails. `AppliedIsRunningHolds`, `WaitingIsDownHolds`,
`RunningIsEnabledHolds` (if also no request sets `ENABLED` by hand,
`EnabledIsKept`) and `AcceptsOnlyCurrentHolds`; crashes of smbd, reboots, failed
launches and failed loads are allowed. When the lock is free the three parts of
`Truth` hold; the invariant `TruthInv` says which of them hold at which label of
the process inside: none on the way through halt, no server from a halt to the
launch, a server that fits the copy after it, and then one part after the other
as `Enable`, `Unflag` and `WriteApplied` restore them.

Its other half does without that assumption. `RestartAppliesHolds` rests on
`HealInv`: a process that restarts, as it does not test what is there but halts
first, has at each label restored the parts of `Truth` that come before it. So
files that a kill made wrong are right after the next restart. `TruthReturns` says
what this means for the rest of a behaviour: from a moment without a server, or
from a restart that is done, the four questions are answered well again for as
long as no step is a kill or a failed halt (`Smooth`). With `control_stale_applied`,
which shows that such a kill can do damage, it says how long the damage lasts.

`ContractProofs` proves `KeepsContractHolds`: `SmbControl` implements
`ServiceContract` for every value of the constants and with every fault. Besides
`SafeInv` it needs what each command has done so far (`AnswerInv`: `Stopped`,
`Updated`, `Learned`, `Booted`), since the contract speaks about commands that end
with OK. One lemma per kind of step then names the abstract action: a step of the
holder is `Work` (`StepWorks`), a granted lock is `Begin`, an exit is `End`, and a
crash, a reboot, a request or a change of the device are `Crash`, `Reboot` or a
stutter. `StopLasts`, in the same module, is about whole behaviours: when no server
runs and `ENABLED` is not 1, this stays so for as long as the turn is only given to
requests that neither start the server nor set `ENABLED` (`OnlyHarmless`), whatever
reconcile does and whatever is killed, crashes or reboots.

`WatcherProofs` proves `ControlSpecHolds`, by cases over the steps of the loop; so
every theorem about `SmbControl` holds with the loop around it (`WatchedSafe`,
`WatchedMaster`, `Watched`, and `WatchedTruth` under `NoFailure`). `NoMissedChangeHolds` rests on `InformedInv`: from the end of
reconcile to poll, the signature is the present configuration and network, or a
source that is drained in the coalescing window is readable, or the file does
not parse; during reconcile the same holds of the snapshot. The assumption
`NoSigAssumption` says that the empty signature is not a snapshot.

`PropertyWaitProofs` proves `WakeupNeverLost` and `EventNeverLost` for any values and
any number of changes. The invariant relates what was read to what is there: as
long as the serial that was read first is current, so is the value read after it.

`WatchStopProofs` proves all safety properties of `WatchStop` for any number of
pids and births. `LockInv`: who is past `TakeLock` holds the lock, and `watch.pid`
is the pid of the holder in its loop. `SignalInv`: start times are unique
(`StartsInv`), the pidfd belongs to the process that was looked at if the pid still
has its start time (`EntryInv`), and a process whose start time is in a handle
found is one the sweep is meant for (`FoundInv`). `PresentInv`: a process that was
there at the beginning is still ahead of the cursor, or found, or waited for.

`SweepRunsOut` gives a sweep a rank that depends on the pids only: the steps to the
end of the scan and after it, and the processes it still waits for. A step of the
sweep lowers it and no birth, fork, execution or exit changes it, so processes that
are born faster than they are visited cannot keep a halt busy.

### Progress

The prover has no ENABLED and so no `WF_` or `SF_`. The theorems about progress
state the scheduling they need in its place, as "again and again there is nothing
to do, or again and again a step is taken":

| hypothesis | module | stands for | nothing to do |
|---|---|---|---|
| `HolderRuns` | `SmbControlProofs` | WF of `Step` and `Return` | the lock is free |
| `Granted(p)` | `SmbControlProofs` | SF of `Lock(p)` or `LoadFails(p)` | p does not wait at a free lock |
| `LoopRuns` | `WatcherProofs` | WF of `Round` | off, in reconcile, or in poll with nothing readable |
| `TimerRuns` | `WatcherProofs` | WF of `RetryDue` | no timer is armed |
| `ThreadRuns` | `PropertyWaitProofs` | WF of the thread's steps | it sleeps on a current serial, or has ended |
| `Publishes` | `PropertyWaitProofs` | WF of `Publish` | every change is published |
| `TimePasses` | `PropertyWaitProofs` | WF of `Deadline` | the deadline has passed |

Each is implied by the fairness of section 3, as the states in its last column
are those in which the action is not enabled (or others have the turn); on the
instances of `watcher_serves`, `watcher_live` and `property_wait` TLC finds every
behaviour of the fair specifications to satisfy them. What is proved of the
properties TLC checks there:

- `CommandsReturnHolds`: by `StepsRunOut` the holder cannot keep the lock
  (`LockIsReleased`), so a process at `lock` finds it free again and again, gets it,
  and runs out of steps, by a return or a kill.
- `FailureRetriedHolds` and `CrashNoticedHolds`: a loop that owes a reconcile (an
  error that is to be retried, a master that died) keeps owing it through its
  stages, the window and the timer; `Far`, the distance to the stage `reconcile`,
  goes down with each step of the loop, and a source that is readable, or becomes
  so by the timer, ends poll.
- `ComesToRestHolds`: a watcher that nobody disturbs goes round, and
  each round ends (by `OneReturns`). If it never rested, its signature would
  settle after one round and no source would become readable but the timer, which
  a round arms only after an error; the count of errors only grows, and above three
  none is armed. `TimerRuns` is not needed.
- `ConvergesHolds`, under `NoFailure`: while the server that is asked for does not
  run, the snapshot is up to date and the wish stays, a reconcile is on its way to a
  launch or to a failure (`OnTrack`): by `TruthInv` the files it compares describe
  the server that runs, and the sockets tell whether it listens, so that it accepts
  none and leaves none waiting (`StepTries`). So each one that ends has failed, which adds
  one to `failures` and sets the timer (`TryFails`); nothing else lowers the count
  while the snapshot stays (`TryStep`), and what is owed is run
  (`OwedIsDone`). The fourth failure is one of the exceptions.
- `ArrivesHolds` and `DeadlineEndsHolds`: once the serial is ahead of the one that
  was read, or the deadline has passed, the thread is at most five steps from its
  end, since a wait is entered only after a value that was not the expected one.

Only model-checked: `GetsPrepared` and `SweepEnds`. They follow
from `PrepareRunsOut` and `SweepRunsOut` by induction over ranks without a constant
bound (the number of archives, the number of pids), and the temporal prover, which
is propositional, has no such induction; the ranks above are at most 12 and are
descended one number at a time. Of `Converges` the case with killed commands is only
in its run: it is not true where the watcher itself is killed and settings change, as
`control_stale_applied` shows. The four runs that end in a violation are
counterexamples and need no proof.

## 5. What is abstracted

- `halt` is one step: scan, SIGTERM, SIGKILL and wait, or a failure that leaves
  the server alone. smbd's children and RPC helpers are part of the one server.
- `READ_ONLY` stands for all the settings that only reach `smb.conf`;
  `EXTRA_INTERFACES` holds one address; the loopback address is left out.
- A write that fails leaves the command through `?`, which is a kill at that
  step. The atomic save is one step: the rename is what readers see.
- The two flags removed one after the other in `start` and `stop` go together.
- The 5 s wait for listeners, the 120 ms window, the retry delays and the 30 s
  of the crash history are nondeterministic: a timer may run out at any time
  after it was set.
- `storage` merges the CE property and the directory: `locked`, `unlocked` (no
  directory yet) and `ready`. The three reads of a snapshot are one step.
- `config.conf` is written by `smbctl` alone and so always valid, with one
  exception: in `Watcher` somebody may break the file and mend it to its old
  content while no command holds the lock. Edits that change a value from outside
  (the installer's `sed`) are not modelled.
- In `SmbControl`, `card`, `usermap`, logging, notifications and `prepare_logs`
  are left out: they take time under the lock and change nothing the control
  logic reads. A
  server left from before a change of the boot id cannot exist.
- The password is a Boolean: `uninstall.sh`, which deletes it after a stop, is
  not modelled.

- In `SmbControl` a halt is one step and the watcher's end is a kill; `WatchStop`
  has both in detail, but neither the files nor the configuration. The two are
  not composed: what `SmbControl` takes from `WatchStop` is `HaltedAreGone`, and
  that a child forked during the scan may escape is not visible in `SmbControl`.
- In `Processes`, the entries of `/proc` are visited in the order of their pids;
  SIGTERM reaches all that were found in one step; an exec is one step; the
  answer that a pidfd gives is that the process has ended. Errors of
  `pidfd_send_signal` other than ESRCH cannot happen to root.
- In `WatchStop`, an error on the way out of `run` is an exit. The events of the
  loop are one step, `PollReturns`; which they are is the matter of `Watcher`.
- In `PropertyWait` the values are three; a timeout of the deadline is a step that
  may come at any time; a spurious return of the wait would only repeat a round.
- In `LogRotation`, a line is known only by the boot that wrote it and a
  directory by its size; one pair `lines` and `older` stands for the files of all
  writers that roll (`module.log`, `notify_stderr.log`, smbd's own) and their
  predecessors (`Lines` is both), so a roll takes any part of them, and any
  directory larger than a new one may hold a file above its limit; boot 0 is the release without markers, so that "legacy"
  as a label is 0. `log/` with an empty `module.log` in it counts as empty. The
  refusal of symbolic links is left out, and the removal of an archive is one
  step. A failing step is a kill: `GetsPrepared` promises a marker only if
  failures end, so a prune that always fails is outside of it.

## 6. Not modelled

- *Password hash* (`password.rs`): a pure function with known vectors in its tests;
  a model would repeat MD4.
- *Status and card*: queries that read without the lock and change nothing the
  control logic reads.
- *Which interface names and masks are trusted, which user a path belongs to*:
  tables over strings.
- *The grammar of `config.conf` and the rules of the keys that only reach
  `smb.conf`*: what the model needs of them is that an invalid configuration is
  refused before anything is written (`Update`).
- *Notifications, diagnostics, retire-legacy, the build*: no state of theirs meets
  the state of the control plane.
- *WebUI and installer*: see the plan.

## 7. Plan

Done: `SmbControl`, `Watcher`, `LogRotation`, `PropertyWait`, `Processes` and
`WatchStop`, `ServiceContract`, the proofs of all their safety properties, and the
proofs of the liveness properties whose rank has a constant bound.

Proofs that would say more:

1. `HaltFails` and a halt that succeeds in `SmbControl` as what `WatchStop` proves of a
   sweep, with the child that escapes made visible.
2. `NoMissedStorage` and `ServingAtRest` with the windows of the counterexamples
   excluded, as `NoMissedChange` is for the LAN: which windows are the only ones.

Parts to model:

1. `WebUi` (`index.js` 150-330): the queue of changed fields against refreshes that
   overwrite the form.
2. `Install` (`customize.sh`): the hot update stops the watcher and the server,
   edits `config.conf` outside the lock and starts both again.
3. `ConfigRules`: the grammar of `config.conf` as functions over small files.
4. `WatchStop` as the refinement of `Halt` and of `EndWatch`.
