----------------------------- MODULE PropertyWait ------------------------------
(* A thread that waits for an Android property.  It is either wait_equals     *)
(* ("boot", for sys.boot_completed), until the property has an expected value *)
(* or the deadline passes, or the CE thread of the watcher ("ce", for         *)
(* sys.user.N.ce_available), which reports every change to the watcher's loop *)
(* through an eventfd, for ever.  Both read a serial before the value and     *)
(* then wait for that serial to change.  The property area is Bionic's: the   *)
(* property has a serial of its own once it exists, and the area has one that *)
(* moves a little later, whichever property was created or changed.           *)
EXTENDS Naturals

CONSTANTS
    Value,       \* the values of the property, with "", that of a missing one
    Expected,    \* what wait_equals waits for
    MaxChanges,  \* bound: how often properties are set
    NoProp,      \* the property was never set
    NoValue      \* no value was read yet

Prop == [serial : Nat, value : Value]

ASSUME ValueAssumption == "" \in Value /\ Expected \in Value /\ NoValue \notin Value
ASSUME BoundAssumption == MaxChanges \in Nat
ASSUME PropAssumption == NoProp \notin Prop

VARIABLES
    prop,      \* the property
    area,      \* the serial of the area
    bump,      \* a property was set, the serial of the area moves next
    who,       \* which thread it is
    pc,        \* where it is
    global,    \* the serial of the area it has read
    found,     \* the property existed when it looked
    serial,    \* the serial it waits on
    value,     \* the value it has read
    late,      \* the deadline of wait_equals has passed
    previous,  \* the value that the CE thread compares with
    event,     \* the eventfd is readable
    loop,      \* where the watcher's loop is
    snap,      \* the value in the loop's last snapshot
    past,      \* history: the values since the CE thread last read it
    missed     \* history: values that came and went between two such reads

properties == <<prop, area, bump>>
locals == <<global, found, serial, value>>
watcher == <<previous, event, loop, snap>>
history == <<past, missed>>
vars == <<properties, who, pc, locals, late, watcher, history>>

(* Mutant of Get: a missing property has no value.                            *)
GetMissing == IF prop = NoProp THEN NoValue ELSE prop.value

(* __system_property_get                                                      *)
Get == IF prop = NoProp THEN "" ELSE prop.value

(* What __system_property_wait compares with the serial it was given.         *)
Current == IF found THEN prop.serial ELSE area

-------------------------------------------------------------------------------
Init == /\ prop \in {NoProp} \cup [serial : {0}, value : Value]
        /\ area = 0 /\ bump = FALSE
        /\ who \in {"boot", "ce"}
        /\ pc = "area"
        /\ global = 0 /\ found = FALSE /\ serial = 0 /\ value = ""
        /\ late = FALSE
        /\ previous = NoValue /\ event = FALSE
        /\ loop = "top" /\ snap = NoValue
        /\ past = {} /\ missed = {}

(* init creates or updates the property; the area's serial is next.           *)
SetProp(v) ==
    /\ ~bump /\ area < MaxChanges
    /\ prop' = [serial |-> IF prop = NoProp THEN 0 ELSE prop.serial + 1, value |-> v]
    /\ bump' = TRUE
    /\ past' = past \cup {v}
    /\ UNCHANGED <<area, who, pc, locals, late, watcher, missed>>

(* It sets another property, of which only the area's serial tells.           *)
SetOther ==
    /\ ~bump /\ area < MaxChanges
    /\ bump' = TRUE
    /\ UNCHANGED <<prop, area, who, pc, locals, late, watcher, history>>

Publish ==
    /\ bump
    /\ area' = area + 1
    /\ bump' = FALSE
    /\ UNCHANGED <<prop, who, pc, locals, late, watcher, history>>

-------------------------------------------------------------------------------
(* One round of a thread: the area's serial, the property and its serial, its *)
(* value, what the value is wanted for, and the wait.                         *)

ReadArea ==
    /\ pc = "area" /\ pc' = "find"
    /\ global' = area
    /\ UNCHANGED <<properties, who, found, serial, value, late, watcher, history>>

Find ==
    /\ pc = "find" /\ pc' = "value"
    /\ found' = (prop # NoProp)
    /\ serial' = IF prop = NoProp THEN global ELSE prop.serial
    /\ UNCHANGED <<properties, who, global, value, late, watcher, history>>

(* If the CE thread finds the value it knows, what was there since is missed. *)
ReadValue ==
    /\ pc = "value" /\ pc' = "use"
    /\ value' = Get
    /\ past' = {}
    /\ missed' = IF Get = previous THEN missed \cup past ELSE missed
    /\ UNCHANGED <<properties, who, global, found, serial, late, watcher>>

(* The local variables of a round are not used after it.                      *)
EndRound(l) ==
    /\ pc' = l
    /\ global' = 0 /\ found' = FALSE /\ serial' = 0 /\ value' = ""
    /\ UNCHANGED <<properties, who, watcher, history>>

(* Mutant of Wait: it waits on the serial of the moment.                      *)
WaitFromNow ==
    /\ pc = "use" /\ pc' = "wait"
    /\ serial' = Current
    /\ UNCHANGED <<properties, who, global, found, value, late, past>>

(* __system_property_wait is called with the serial that was read.            *)
Wait ==
    /\ pc = "use" /\ pc' = "wait"
    /\ UNCHANGED <<properties, who, locals, late, past>>

(* It returns: the serial is not, or not any more, the one it was given.      *)
Changed ==
    /\ pc = "wait" /\ Current # serial
    /\ EndRound("area")
    /\ UNCHANGED late

-------------------------------------------------------------------------------
(* wait_equals *)

(* Mutant of Test: the time that remains is not looked at.                    *)
TestForEver ==
    /\ who = "boot" /\ pc = "use"
    /\ IF value = Expected THEN EndRound("ok") /\ UNCHANGED late
       ELSE Wait /\ UNCHANGED <<watcher, missed>>

(* Mutant of Test: the deadline counts, whatever the value is.                *)
TestDeadline ==
    /\ who = "boot" /\ pc = "use"
    /\ IF late THEN EndRound("err") /\ UNCHANGED late
       ELSE IF value = Expected THEN EndRound("ok") /\ UNCHANGED late
       ELSE Wait /\ UNCHANGED <<watcher, missed>>

Test ==
    /\ who = "boot" /\ pc = "use"
    /\ IF value = Expected THEN EndRound("ok") /\ UNCHANGED late
       ELSE IF late THEN EndRound("err") /\ UNCHANGED late
       ELSE Wait /\ UNCHANGED <<watcher, missed>>

Deadline ==
    /\ who = "boot" /\ ~late
    /\ late' = TRUE
    /\ UNCHANGED <<properties, who, pc, locals, watcher, history>>

(* The wait was given the time that remained.                                 *)
TimeOut ==
    /\ pc = "wait" /\ late
    /\ EndRound("area")
    /\ UNCHANGED late

-------------------------------------------------------------------------------
(* The CE thread and the loop of the watcher *)

(* Mutant of Report: what is compared with is what was read first.            *)
ReportOnce ==
    /\ who = "ce" /\ Wait
    /\ LET change == previous # value \/ ~found IN
           /\ event' = (event \/ change)
           /\ missed' = IF change THEN {} ELSE missed
    /\ previous' = IF previous = NoValue THEN value ELSE previous
    /\ UNCHANGED <<loop, snap>>

(* A change is reported, and every look while the property does not exist.    *)
Report ==
    /\ who = "ce" /\ Wait
    /\ LET change == previous # value \/ ~found IN
           /\ event' = (event \/ change)
           /\ missed' = IF change THEN {} ELSE missed
    /\ previous' = value
    /\ UNCHANGED <<loop, snap>>

(* poll returns: the eventfd is drained if it is readable.  Any other source  *)
(* of the loop may be the reason.                                             *)
Wake ==
    /\ who = "ce" /\ loop = "poll"
    /\ event' = FALSE
    /\ loop' = "top"
    /\ UNCHANGED <<properties, who, pc, locals, late, previous, snap, history>>

Snapshot ==
    /\ who = "ce" /\ loop = "top"
    /\ snap' = Get
    /\ loop' = "poll"
    /\ UNCHANGED <<properties, who, pc, locals, late, previous, event, history>>

-------------------------------------------------------------------------------
Round == ReadArea \/ Find \/ ReadValue \/ Changed

Next == \/ \E v \in Value : SetProp(v)
        \/ SetOther
        \/ Publish
        \/ Round
        \/ Test \/ Deadline \/ TimeOut
        \/ Report \/ Wake \/ Snapshot

Spec == Init /\ [][Next]_vars

(* The threads run, init finishes what it began, time passes, and poll        *)
(* returns when the eventfd is readable.  Nobody has to set a property.       *)
Fairness == /\ WF_vars(Round) /\ WF_vars(Test) /\ WF_vars(TimeOut)
            /\ WF_vars(Deadline) /\ WF_vars(Publish)
            /\ WF_vars(Report) /\ WF_vars(Snapshot) /\ WF_vars(event /\ Wake)

FairSpec == Spec /\ Fairness

-------------------------------------------------------------------------------
(* Every variable keeps its type.                                             *)
TypeOK ==
    /\ prop \in Prop \cup {NoProp}
    /\ area \in Nat /\ bump \in BOOLEAN
    /\ who \in {"boot", "ce"}
    /\ pc \in {"area", "find", "value", "use", "wait", "ok", "err"}
    /\ global \in Nat /\ serial \in Nat
    /\ found \in BOOLEAN
    /\ value \in Value
    /\ late \in BOOLEAN
    /\ previous \in Value \cup {NoValue} /\ event \in BOOLEAN
    /\ loop \in {"top", "poll"} /\ snap \in Value \cup {NoValue}
    /\ past \subseteq Value /\ missed \subseteq Value

(* Nothing will wake the thread, unless a property is set again.              *)
Asleep == pc = "wait" /\ Current = serial /\ ~bump

(* No lost wakeup: a thread that sleeps in __system_property_wait has seen    *)
(* the value of its property, whether the property was updated or created     *)
(* between its reads (storage.rs 28-29 and 149-150).                          *)
NoLostWakeup == Asleep => value = Get

(* No lost event: when the loop sleeps as well, its last snapshot has the     *)
(* value of the property, or one that came and went between two looks of the  *)
(* CE thread, which then has nothing to report.                               *)
NoLostEvent ==
    who = "ce" /\ Asleep /\ loop = "poll" /\ ~event => snap = Get \/ snap \in missed

(* A wait_equals that waits when the expected value has arrived, and stays,   *)
(* succeeds, even if the deadline passes before it has looked.                *)
Arrives ==
    [](who = "boot" /\ pc = "wait" /\ [](Get = Expected) => <>(pc = "ok"))

(* wait_equals ends: boot does not hang if the system never completes.        *)
DeadlineEnds == who = "boot" => <>(pc \in {"ok", "err"})
=============================================================================
