-------------------------- MODULE PropertyWaitProofs ---------------------------
(* No wakeup and no event of the property waits is lost, whatever the values  *)
(* are and however often properties are set.                                  *)
EXTENDS PropertyWait, TLAPS

-------------------------------------------------------------------------------
(* The serial that a thread has read is none of the future, and it is of the  *)
(* property as soon as that was found.                                        *)
SerialOK ==
    /\ pc = "find" => global =< area
    /\ pc \in {"value", "use", "wait"} =>
          /\ found => prop # NoProp /\ serial =< prop.serial
          /\ ~found => serial =< area

(* Nothing was set since the serial was read.                                 *)
Fresh == \/ found /\ prop.serial = serial
         \/ ~found /\ area = serial /\ ~bump

(* Then the value that was read is the property's.                            *)
FreshOK == pc \in {"use", "wait"} /\ Fresh => value = Get /\ past = {}

(* The value that the CE thread has read last.                                *)
LastRead == IF pc = "use" THEN value ELSE previous

(* The values that the thread knows, or will not report.                      *)
Known == past \cup {LastRead}

(* It will report that it has something new.                                  *)
WillReport == previous = NoValue \/ (pc = "use" /\ value # previous)

SnapshotOK ==
    who = "ce" =>
        /\ pc = "wait" => previous = value
        /\ Get \in Known \/ (previous = NoValue /\ pc # "use")
        /\ loop = "poll" => event \/ WillReport \/ snap \in missed \cup Known

IInv == TypeOK /\ SerialOK /\ FreshOK /\ SnapshotOK

-------------------------------------------------------------------------------
(* The property always has a value of Value.                                  *)
LEMMA GetType == TypeOK => Get \in Value
  BY ValueAssumption DEF TypeOK, Get, Prop

(* init gives a property a later serial, if it has one, and the value.        *)
LEMMA SetPropStep ==
    ASSUME TypeOK, NEW v \in Value, SetProp(v)
    PROVE  /\ prop' \in Prop /\ prop' # NoProp
           /\ Get' = v
           /\ prop # NoProp => prop.serial < prop'.serial
<1> DEFINE s == IF prop = NoProp THEN 0 ELSE prop.serial + 1
<1>1. s \in Nat /\ prop' = [serial |-> s, value |-> v]
  BY DEF TypeOK, SetProp, Prop
<1> HIDE DEF s
<1>2. prop' \in Prop /\ prop'.serial = s /\ prop'.value = v
  BY <1>1 DEF Prop
<1>3. prop' # NoProp
  BY <1>2, PropAssumption
<1>4. prop # NoProp => prop.serial \in Nat /\ s = prop.serial + 1
  BY DEF TypeOK, Prop, s
<1> QED
  BY <1>2, <1>3, <1>4 DEF Get

(* Find keeps a serial that is the property's, if there is one.               *)
LEMMA FindStep ==
    ASSUME TypeOK, Find
    PROVE  /\ serial' \in Nat
           /\ prop # NoProp => serial' = prop.serial
           /\ prop = NoProp => serial' = global
  BY DEF TypeOK, Find, Prop

(* Every step keeps the type of every variable.                               *)
LEMMA TypeStep == TypeOK /\ SerialOK /\ [Next]_vars => TypeOK'
<1> SUFFICES ASSUME TypeOK, SerialOK, [Next]_vars PROVE TypeOK'
  OBVIOUS
<1>g. Get \in Value
  BY GetType
<1>1. CASE \E v \in Value : SetProp(v)
  <2> PICK v \in Value : SetProp(v)
    BY <1>1
  <2>1. prop' \in Prop
    BY SetPropStep
  <2> QED
    BY <2>1 DEF TypeOK, SetProp, locals, watcher
<1>2. CASE SetOther
  BY <1>2 DEF TypeOK, SetOther, locals, watcher, history
<1>3. CASE Publish
  <2>1. area' \in Nat
    BY <1>3 DEF TypeOK, Publish
  <2> QED
    BY <1>3, <2>1 DEF TypeOK, Publish, locals, watcher, history
<1>4. CASE ReadArea
  BY <1>4 DEF TypeOK, ReadArea, properties, watcher, history
<1>5. CASE Find
  BY <1>5, FindStep DEF TypeOK, Find, properties, watcher, history
<1>6. CASE ReadValue
  BY <1>6, <1>g DEF TypeOK, ReadValue, properties, watcher
<1>7. CASE Changed
  BY <1>7, ValueAssumption DEF TypeOK, Changed, EndRound, properties, watcher, history
<1>8. CASE Test
  <2>1. CASE EndRound("ok") /\ UNCHANGED late
    BY <2>1, ValueAssumption DEF TypeOK, EndRound, properties, watcher, history
  <2>2. CASE EndRound("err") /\ UNCHANGED late
    BY <2>2, ValueAssumption DEF TypeOK, EndRound, properties, watcher, history
  <2>3. CASE Wait /\ UNCHANGED <<watcher, missed>>
    BY <2>3 DEF TypeOK, Wait, properties, locals, watcher
  <2> QED
    BY <1>8, <2>1, <2>2, <2>3 DEF Test
<1>9. CASE Deadline
  BY <1>9 DEF TypeOK, Deadline, properties, locals, watcher, history
<1>10. CASE TimeOut
  BY <1>10, ValueAssumption DEF TypeOK, TimeOut, EndRound, properties, watcher, history
<1>11. CASE Report
  BY <1>11 DEF TypeOK, Report, Wait, properties, locals
<1>12. CASE Wake
  BY <1>12 DEF TypeOK, Wake, properties, locals, history
<1>13. CASE Snapshot
  BY <1>13, <1>g DEF TypeOK, Snapshot, properties, locals, history
<1>14. CASE UNCHANGED vars
  BY <1>14 DEF TypeOK, vars, properties, locals, watcher, history
<1> QED
  BY <1>1, <1>2, <1>3, <1>4, <1>5, <1>6, <1>7, <1>8, <1>9, <1>10, <1>11, <1>12,
     <1>13, <1>14 DEF Next, Round

(* A step that does not set the property keeps its value.                     *)
LEMMA GetKept == ASSUME prop' = prop PROVE Get' = Get
  BY DEF Get

(* Every step keeps the serial that was read one of the past.                 *)
LEMMA SerialStep == TypeOK /\ SerialOK /\ [Next]_vars => SerialOK'
<1> SUFFICES ASSUME TypeOK, SerialOK, [Next]_vars PROVE SerialOK'
  OBVIOUS
<1> USE DEF SerialOK
<1>t. /\ area \in Nat /\ global \in Nat /\ serial \in Nat
      /\ prop # NoProp => prop.serial \in Nat
  BY DEF TypeOK, Prop
<1>1. CASE \E v \in Value : SetProp(v)
  <2> PICK v \in Value : SetProp(v)
    BY <1>1
  <2>1. /\ prop' # NoProp /\ prop'.serial \in Nat
        /\ prop # NoProp => prop.serial < prop'.serial
    BY SetPropStep DEF Prop
  <2>2. UNCHANGED <<pc, area, global, found, serial>>
    BY DEF SetProp, locals
  <2> QED
    BY <1>t, <2>1, <2>2
<1>2. CASE SetOther
  BY <1>2 DEF SetOther, locals
<1>3. CASE Publish
  <2>1. area' = area + 1 /\ UNCHANGED <<prop, pc, global, found, serial>>
    BY <1>3 DEF Publish, locals
  <2> QED
    BY <1>t, <2>1
<1>4. CASE ReadArea
  <2>1. pc' = "find" /\ global' = area /\ area' = area
    BY <1>4 DEF ReadArea, properties
  <2> QED
    BY <1>t, <2>1
<1>5. CASE Find
  <2>1. /\ pc = "find" /\ pc' = "value" /\ UNCHANGED <<prop, area>>
        /\ found' <=> prop # NoProp
    BY <1>5 DEF Find, properties
  <2>2. /\ prop # NoProp => serial' = prop.serial
        /\ prop = NoProp => serial' = global
    BY <1>5, FindStep
  <2> QED
    BY <1>t, <2>1, <2>2
<1>6. CASE ReadValue
  BY <1>6 DEF ReadValue, properties
<1>7. CASE Changed
  BY <1>7 DEF Changed, EndRound
<1>8. CASE Test
  BY <1>8 DEF Test, Wait, EndRound, properties, locals
<1>9. CASE Deadline
  BY <1>9 DEF Deadline, properties, locals
<1>10. CASE TimeOut
  BY <1>10 DEF TimeOut, EndRound
<1>11. CASE Report
  BY <1>11 DEF Report, Wait, properties, locals
<1>12. CASE Wake
  BY <1>12 DEF Wake, properties, locals
<1>13. CASE Snapshot
  BY <1>13 DEF Snapshot, properties, locals
<1>14. CASE UNCHANGED vars
  BY <1>14 DEF vars, properties, locals
<1> QED
  BY <1>1, <1>2, <1>3, <1>4, <1>5, <1>6, <1>7, <1>8, <1>9, <1>10, <1>11, <1>12,
     <1>13, <1>14 DEF Next, Round

(* Every step keeps the value that was read consistent with its serial.       *)
LEMMA FreshStep == TypeOK /\ SerialOK /\ FreshOK /\ [Next]_vars => FreshOK'
<1> SUFFICES ASSUME TypeOK, SerialOK, FreshOK, [Next]_vars PROVE FreshOK'
  OBVIOUS
<1> USE DEF FreshOK, Fresh
<1>t. /\ area \in Nat /\ serial \in Nat
      /\ prop # NoProp => prop.serial \in Nat
  BY DEF TypeOK, Prop
<1>1. CASE \E v \in Value : SetProp(v)
  <2> PICK v \in Value : SetProp(v)
    BY <1>1
  <2>1. /\ prop'.serial \in Nat
        /\ prop # NoProp => prop.serial < prop'.serial
    BY SetPropStep DEF Prop
  <2>2. bump' /\ UNCHANGED <<pc, found, serial>>
    BY DEF SetProp, locals
  <2>3. pc \in {"use", "wait"} /\ found => prop'.serial # serial
    BY <1>t, <2>1 DEF SerialOK
  <2> QED
    BY <2>2, <2>3
<1>2. CASE SetOther
  <2>1. Get' = Get
    BY <1>2, GetKept DEF SetOther
  <2> QED
    BY <1>2, <2>1 DEF SetOther, locals, history
<1>3. CASE Publish
  <2>1. /\ area' = area + 1
        /\ UNCHANGED <<prop, pc, found, serial, value, past, Get>>
    BY <1>3, GetKept DEF Publish, locals, history
  <2>2. pc \in {"use", "wait"} /\ ~found => area' # serial
    BY <1>t, <2>1 DEF SerialOK
  <2> QED
    BY <2>1, <2>2
<1>4. CASE ReadArea
  BY <1>4 DEF ReadArea
<1>5. CASE Find
  BY <1>5 DEF Find
<1>6. CASE ReadValue
  <2>1. Get' = Get
    BY <1>6, GetKept DEF ReadValue, properties
  <2> QED
    BY <1>6, <2>1 DEF ReadValue
<1>7. CASE Changed
  BY <1>7 DEF Changed, EndRound
<1>8. CASE Test
  <2>1. Get' = Get
    BY <1>8, GetKept DEF Test, Wait, EndRound, properties
  <2> QED
    BY <1>8, <2>1 DEF Test, Wait, EndRound, properties, locals
<1>9. CASE Deadline
  <2>1. Get' = Get
    BY <1>9, GetKept DEF Deadline, properties
  <2> QED
    BY <1>9, <2>1 DEF Deadline, properties, locals, history
<1>10. CASE TimeOut
  BY <1>10 DEF TimeOut, EndRound
<1>11. CASE Report
  <2>1. Get' = Get
    BY <1>11, GetKept DEF Report, Wait, properties
  <2> QED
    BY <1>11, <2>1 DEF Report, Wait, properties, locals
<1>12. CASE Wake
  <2>1. Get' = Get
    BY <1>12, GetKept DEF Wake, properties
  <2> QED
    BY <1>12, <2>1 DEF Wake, properties, locals, history
<1>13. CASE Snapshot
  <2>1. Get' = Get
    BY <1>13, GetKept DEF Snapshot, properties
  <2> QED
    BY <1>13, <2>1 DEF Snapshot, properties, locals, history
<1>14. CASE UNCHANGED vars
  <2>1. Get' = Get
    BY <1>14, GetKept DEF vars, properties
  <2> QED
    BY <1>14, <2>1 DEF vars, properties, locals, history
<1> QED
  BY <1>1, <1>2, <1>3, <1>4, <1>5, <1>6, <1>7, <1>8, <1>9, <1>10, <1>11, <1>12,
     <1>13, <1>14 DEF Next, Round

(* Every step keeps the loop's last snapshot among the values that the CE     *)
(* thread knows, unless it will report.                                       *)
LEMMA SnapshotStep ==
    TypeOK /\ SerialOK /\ SnapshotOK /\ [Next]_vars => SnapshotOK'
<1> SUFFICES ASSUME TypeOK, SerialOK, SnapshotOK, [Next]_vars, who' = "ce"
             PROVE  /\ pc' = "wait" => previous' = value'
                    /\ (Get \in Known \/ (previous = NoValue /\ pc # "use"))'
                    /\ loop' = "poll" =>
                          (event \/ WillReport \/ snap \in missed \cup Known)'
  BY DEF SnapshotOK
<1>g. Get \in Value /\ NoValue \notin Value /\ value \in Value
  BY GetType, ValueAssumption DEF TypeOK
<1> USE DEF SnapshotOK, WillReport, Known, LastRead
<1>1. CASE \E v \in Value : SetProp(v)
  <2> PICK v \in Value : SetProp(v)
    BY <1>1
  <2>1. Get' = v
    BY SetPropStep
  <2> QED
    BY <2>1 DEF SetProp, locals, watcher, TypeOK
<1>2. CASE SetOther
  BY <1>2 DEF SetOther, locals, watcher, history, Get
<1>3. CASE Publish
  BY <1>3 DEF Publish, locals, watcher, history, Get
<1>4. CASE ReadArea
  BY <1>4 DEF ReadArea, properties, watcher, history, Get
<1>5. CASE Find
  BY <1>5 DEF Find, properties, watcher, history, Get
<1>6. CASE ReadValue
  <2>1. Get' = Get
    BY <1>6 DEF ReadValue, properties, Get
  <2> QED
    BY <1>6, <2>1 DEF ReadValue, properties, watcher
<1>7. CASE Changed
  BY <1>7 DEF Changed, EndRound, properties, watcher, history, Get
<1>8. CASE Test
  BY <1>8 DEF Test, Wait, EndRound, properties
<1>9. CASE Deadline
  BY <1>9 DEF Deadline, properties
<1>10. CASE TimeOut
  BY <1>10 DEF TimeOut, EndRound, properties, watcher, history, Get
<1>11. CASE Report
  <2>1. Get' = Get
    BY <1>11 DEF Report, Wait, properties, Get
  <2>2. /\ pc' = "wait" /\ previous' = value /\ value' = value /\ past' = past
        /\ loop' = loop /\ snap' = snap
    BY <1>11 DEF Report, Wait, locals
  <2>3. CASE previous # value \/ ~found
    <3>1. event'
      BY <1>11, <2>3 DEF Report
    <3> QED
      BY <1>11, <2>1, <2>2, <3>1, <1>g DEF Report, Wait
  <2>4. CASE previous = value /\ found
    <3>1. missed' = missed
      BY <1>11, <2>4 DEF Report
    <3>2. event => event'
      BY <1>11 DEF Report
    <3> QED
      BY <1>11, <2>1, <2>2, <2>4, <3>1, <3>2, <1>g DEF Report, Wait
  <2> QED
    BY <2>3, <2>4 DEF TypeOK
<1>12. CASE Wake
  BY <1>12 DEF Wake, properties, locals, history, Get
<1>13. CASE Snapshot
  <2>1. Get' = Get
    BY <1>13 DEF Snapshot, properties, Get
  <2> QED
    BY <1>13, <2>1 DEF Snapshot, properties, locals, history
<1>14. CASE UNCHANGED vars
  BY <1>14 DEF vars, properties, locals, watcher, history, Get
<1> QED
  BY <1>1, <1>2, <1>3, <1>4, <1>5, <1>6, <1>7, <1>8, <1>9, <1>10, <1>11, <1>12,
     <1>13, <1>14 DEF Next, Round

-------------------------------------------------------------------------------
(* The inductive invariant holds of every state.                              *)
THEOREM Inductive == Spec => []IInv
<1>1. Init => IInv
  <2> SUFFICES ASSUME Init PROVE IInv
    OBVIOUS
  <2>1. prop \in Prop \cup {NoProp}
    <3>1. CASE prop = NoProp
      BY <3>1
    <3>2. CASE prop \in [serial : {0}, value : Value]
      BY <3>2 DEF Prop
    <3> QED
      BY <3>1, <3>2 DEF Init
  <2>2. TypeOK
    BY <2>1, ValueAssumption DEF Init, TypeOK
  <2>3. SerialOK /\ FreshOK /\ SnapshotOK
    BY DEF Init, SerialOK, FreshOK, SnapshotOK, WillReport
  <2> QED
    BY <2>2, <2>3 DEF IInv
<1>2. IInv /\ [Next]_vars => IInv'
  BY TypeStep, SerialStep, FreshStep, SnapshotStep DEF IInv
<1> QED
  BY <1>1, <1>2, PTL DEF Spec

(* Type correctness of the property waits.                                    *)
THEOREM PropertyWaitType == Spec => []TypeOK
<1>1. IInv => TypeOK
  BY DEF IInv
<1> QED
  BY <1>1, Inductive, PTL

(* A thread that sleeps in __system_property_wait has seen the value of its   *)
(* property: serial-before-value closes the update and the creation race.     *)
THEOREM WakeupNeverLost == Spec => []NoLostWakeup
<1>1. IInv => NoLostWakeup
  BY DEF IInv, FreshOK, Fresh, NoLostWakeup, Asleep, Current
<1> QED
  BY <1>1, Inductive, PTL

(* When the CE thread and the watcher's loop both sleep, the loop's last      *)
(* snapshot has the value of the property, or one that came and went unseen.  *)
THEOREM EventNeverLost == Spec => []NoLostEvent
<1>1. IInv => NoLostEvent
  <2> SUFFICES ASSUME IInv, who = "ce", Asleep, loop = "poll", ~event
               PROVE  snap = Get \/ snap \in missed
    BY DEF NoLostEvent
  <2>1. value = Get /\ past = {}
    BY DEF IInv, FreshOK, Fresh, Asleep, Current
  <2>2. previous = value /\ previous # NoValue
    BY <2>1, GetType, ValueAssumption DEF IInv, SnapshotOK, Asleep
  <2> QED
    BY <2>1, <2>2 DEF IInv, SnapshotOK, Asleep, WillReport, Known, LastRead
<1> QED
  BY <1>1, Inductive, PTL

-------------------------------------------------------------------------------
(* Progress of wait_equals.  ENABLED is out of reach: in the place of weak    *)
(* fairness of its thread stand the states in which it has nothing to do.     *)

Ended == pc \in {"ok", "err"}

Blocked == pc = "wait" /\ Current = serial /\ ~late

ThreadStep == Round \/ Test \/ TimeOut

ThreadRuns == []<>(Blocked \/ Ended) \/ []<><<ThreadStep>>_vars

Boot == who = "boot"

(* init finishes what it began, and the deadline of wait_equals passes.       *)
Publishes == []<>~bump
TimePasses == Boot => <>late

(* The most steps of wait_equals that are left when it need not wait again.   *)
Left == [wait |-> 5, area |-> 4, find |-> 3, value |-> 2, use |-> 1,
         ok |-> 0, err |-> 0][pc]

AtMost(n) == Left <= n

(* It waits only for a value that it has not read.                            *)
WaitOK == who = "boot" /\ pc = "wait" => value # Expected

(* Nobody else moves the thread, and what is over stays so.                   *)
LEMMA OthersKeep ==
    ASSUME who = "boot", [Next]_vars, ~ThreadStep
    PROVE  UNCHANGED <<pc, global, found, serial, value>>
BY DEF Next, ThreadStep, SetProp, SetOther, Publish, Deadline, Report, Wake, Snapshot,
       vars, locals

LEMMA Stays ==
    ASSUME TypeOK, [Next]_vars
    PROVE  who' = who /\ (late => late')
<1>1. CASE Round \/ TimeOut
  BY <1>1 DEF Round, ReadArea, Find, ReadValue, Changed, TimeOut, EndRound,
              properties, watcher, history, TypeOK
<1>2. CASE Test
  BY <1>2 DEF Test, Wait, EndRound
<1>3. CASE Report
  BY <1>3 DEF Report, Wait
<1>4. CASE Next /\ ~Round /\ ~TimeOut /\ ~Test /\ ~Report
  BY <1>4 DEF Next, SetProp, SetOther, Publish, Deadline, Wake, Snapshot
<1>5. CASE UNCHANGED vars
  BY <1>5 DEF vars
<1>. QED  BY <1>1, <1>2, <1>3, <1>4, <1>5

(* A thread that does not wait again comes one step nearer to its end.        *)
LEMMA StepLowers ==
    ASSUME who = "boot", ThreadStep, pc' # "wait" \/ pc = "wait"
    PROVE  Left \in 1..5 /\ (Left' = Left - 1 \/ Left' = 0)
<1>1. CASE Round \/ TimeOut
  <2>1. CASE ReadArea
    BY <2>1 DEF ReadArea, Left
  <2>2. CASE Find
    BY <2>2 DEF Find, Left
  <2>3. CASE ReadValue
    BY <2>3 DEF ReadValue, Left
  <2>4. CASE Changed \/ TimeOut
    <3>1. pc = "wait" /\ pc' = "area"
      BY <2>4 DEF Changed, TimeOut, EndRound
    <3>. QED  BY <3>1 DEF Left
  <2>. QED  BY <1>1, <2>1, <2>2, <2>3, <2>4 DEF Round
<1>2. CASE Test
  <2>1. pc = "use" /\ pc' \in {"ok", "err"}
    BY <1>2 DEF Test, Wait, EndRound
  <2>. QED  BY <2>1 DEF Left
<1>. QED  BY <1>1, <1>2 DEF ThreadStep

LEMMA WaitStep == TypeOK /\ WaitOK /\ [Next]_vars => WaitOK'
<1>. SUFFICES ASSUME TypeOK, WaitOK, [Next]_vars PROVE WaitOK'
  OBVIOUS
<1>1. CASE ThreadStep
  BY <1>1 DEF ThreadStep, Round, ReadArea, Find, ReadValue, Changed, Test, TimeOut,
              Wait, EndRound, WaitOK, locals
<1>2. CASE ~ThreadStep
  BY <1>2, OthersKeep, Stays DEF WaitOK
<1>. QED  BY <1>1, <1>2

Late == who = "boot" /\ late /\ ~Ended

(* When the deadline has passed, the thread does not wait again.              *)
LEMMA LateStep ==
    ASSUME NEW m \in 0..5, NEW n \in 0..5, m = n + 1 \/ m = n,
           TypeOK, Late, Late', [Next]_vars, AtMost(m), m = n \/ ThreadStep
    PROVE  AtMost(n)'
<1>1. CASE ThreadStep
  <2>1. pc' # "wait"
    BY <1>1 DEF ThreadStep, Round, ReadArea, Find, ReadValue, Changed, TimeOut, Test,
                EndRound, Late
  <2>2. Left \in 1..5 /\ (Left' = Left - 1 \/ Left' = 0)
    BY <1>1, <2>1, StepLowers DEF Late
  <2>. QED  BY <2>2 DEF AtMost
<1>2. CASE ~ThreadStep
  <2>1. Left' = Left
    BY <1>2, OthersKeep DEF Late, Left
  <2>2. Left \in 0..5
    BY DEF TypeOK, Left
  <2>. QED  BY <1>2, <2>1, <2>2 DEF AtMost
<1>. QED  BY <1>1, <1>2

(* wait_equals ends once its deadline has passed, if its thread is scheduled. *)
THEOREM DeadlineEndsHolds == Spec /\ TimePasses /\ ThreadRuns => DeadlineEnds
<1>. DEFINE Turn == TypeOK /\ Late /\ Late' /\ [Next]_vars /\ ThreadStep
<1>1. Turn /\ AtMost(5) => AtMost(4)'
  BY LateStep
<1>2. Turn /\ AtMost(4) => AtMost(3)'
  BY LateStep
<1>3. Turn /\ AtMost(3) => AtMost(2)'
  BY LateStep
<1>4. Turn /\ AtMost(2) => AtMost(1)'
  BY LateStep
<1>5. Turn /\ AtMost(1) => AtMost(0)'
  BY LateStep
<1>6. TypeOK /\ Late /\ Late' /\ [Next]_vars =>
          /\ AtMost(4) => AtMost(4)'
          /\ AtMost(3) => AtMost(3)'
          /\ AtMost(2) => AtMost(2)'
          /\ AtMost(1) => AtMost(1)'
          /\ AtMost(0) => AtMost(0)'
  BY LateStep
<1>7. TypeOK => AtMost(5)
  BY DEF TypeOK, AtMost, Left
<1>8. TypeOK /\ Late => ~AtMost(0) /\ ~Blocked
  BY DEF TypeOK, Late, AtMost, Left, Ended, Blocked
<1>9. Spec => [](Boot => [](Boot /\ (late => []late)))
  <2>1. TypeOK /\ [Next]_vars => (Boot => Boot') /\ (late => late')
    BY Stays DEF Boot
  <2>. QED  BY <2>1, PropertyWaitType, PTL DEF Spec
<1>10. ~(Spec /\ <>[]Late /\ []<><<ThreadStep>>_vars)
  <2>. DEFINE Fair == Spec /\ <>[]Late /\ []<><<ThreadStep>>_vars
  <2>2. Fair => <>[]AtMost(4)
    BY <1>1, <1>6, <1>7, PropertyWaitType, PTL DEF Spec
  <2>3. Fair /\ <>[]AtMost(4) => <>[]AtMost(3)
    BY <1>2, <1>6, PropertyWaitType, PTL DEF Spec
  <2>4. Fair /\ <>[]AtMost(3) => <>[]AtMost(2)
    BY <1>3, <1>6, PropertyWaitType, PTL DEF Spec
  <2>5. Fair /\ <>[]AtMost(2) => <>[]AtMost(1)
    BY <1>4, <1>6, PropertyWaitType, PTL DEF Spec
  <2>6. Fair /\ <>[]AtMost(1) => <>[]AtMost(0)
    BY <1>5, <1>6, PropertyWaitType, PTL DEF Spec
  <2>7. Fair /\ <>[]AtMost(0) => FALSE
    BY <1>8, PropertyWaitType, PTL
  <2>. HIDE DEF Fair
  <2>. QED  BY <2>2, <2>3, <2>4, <2>5, <2>6, <2>7, PTL DEF Fair
<1>11. Spec /\ Boot /\ TimePasses /\ ThreadRuns => <>Ended
  <2>1. Boot /\ late /\ ~Ended => Late
    BY DEF Boot, Late
  <2>2. TypeOK /\ Late => ~Blocked /\ ~Ended
    BY <1>8 DEF Late
  <2>. QED  BY <1>9, <1>10, <2>1, <2>2, PropertyWaitType, PTL DEF TimePasses, ThreadRuns
<1>. QED  BY <1>11, PTL DEF Boot, Ended, DeadlineEnds

-------------------------------------------------------------------------------
(* The property keeps the expected value.                                     *)
Got == Get = Expected

(* wait_equals is on its way to see it.                                       *)
Coming == /\ who = "boot"
          /\ \/ pc \in {"wait", "area", "find", "value", "ok"}
             \/ pc = "use" /\ value = Expected

WInv == IInv /\ WaitOK

LEMMA ComingStays ==
    ASSUME WInv, Coming, Got, [Next]_vars
    PROVE  Coming' /\ (pc' = "wait" => pc = "wait")
<1>1. CASE ReadArea \/ Find
  BY <1>1 DEF ReadArea, Find, Coming, properties
<1>2. CASE ReadValue
  BY <1>2 DEF ReadValue, Coming, Got, properties
<1>3. CASE Changed \/ TimeOut
  BY <1>3 DEF Changed, TimeOut, EndRound, Coming, properties
<1>4. CASE Test
  BY <1>4 DEF Test, EndRound, Coming, properties
<1>5. CASE ~ThreadStep
  BY <1>5, OthersKeep, Stays DEF Coming, WInv, IInv
<1>. QED  BY <1>1, <1>2, <1>3, <1>4, <1>5 DEF ThreadStep, Round

(* What the thread waits on has moved already, or init is about to move it.   *)
LEMMA NotBlocked == WInv /\ Coming /\ Got /\ ~bump => ~Blocked
BY DEF WInv, IInv, FreshOK, Fresh, WaitOK, Coming, Got, Blocked, Current

(* A serial that has moved does not come back.                                *)
LEMMA StaysNotBlocked ==
    ASSUME WInv, Coming, Got, ~Blocked, [Next]_vars
    PROVE  ~Blocked'
<1>. SUFFICES ASSUME pc' = "wait", ~late' PROVE Current' # serial'
  BY DEF Blocked
<1>t. TypeOK /\ SerialOK
  BY DEF WInv, IInv
<1>1. pc = "wait" /\ ~late
  BY <1>t, ComingStays, Stays
<1>2. Current # serial
  BY <1>1 DEF Blocked
<1>3. CASE ThreadStep
  BY <1>1, <1>3 DEF ThreadStep, Round, ReadArea, Find, ReadValue, Changed, TimeOut, Test,
                    EndRound
<1>4. CASE ~ThreadStep
  <2>1. UNCHANGED <<found, serial>>
    BY <1>4, OthersKeep DEF Coming
  <2>2. serial \in Nat /\ area \in Nat
    BY <1>t DEF TypeOK
  <2>3. CASE \E v \in Value : SetProp(v)
    <3>. PICK v \in Value : SetProp(v)
      BY <2>3
    <3>1. area' = area
      BY DEF SetProp
    <3>2. CASE found
      <4>1. prop # NoProp /\ serial =< prop.serial /\ prop.serial \in Nat
        BY <1>t, <1>1, <3>2 DEF SerialOK, TypeOK, Prop
      <4>2. prop.serial < prop'.serial /\ prop'.serial \in Nat
        BY <1>t, <4>1, SetPropStep DEF Prop
      <4>. QED  BY <2>1, <2>2, <3>2, <4>1, <4>2 DEF Current
    <3>. QED  BY <1>2, <2>1, <3>1, <3>2 DEF Current
  <2>4. CASE Publish
    <3>1. prop' = prop /\ area' = area + 1
      BY <2>4 DEF Publish
    <3>2. ~found => serial =< area
      BY <1>t, <1>1 DEF SerialOK
    <3>. QED  BY <1>2, <2>1, <2>2, <3>1, <3>2 DEF Current
  <2>5. CASE UNCHANGED <<prop, area>>
    BY <1>2, <2>1, <2>5 DEF Current
  <2>6. CASE SetOther \/ Deadline \/ Report \/ Wake \/ Snapshot \/ UNCHANGED vars
    BY <2>5, <2>6 DEF SetOther, Deadline, Report, Wait, Wake, Snapshot, vars, properties
  <2>. QED  BY <1>4, <2>3, <2>4, <2>6 DEF Next, ThreadStep
<1>. QED  BY <1>3, <1>4

On == Coming /\ Got /\ pc # "ok"

LEMMA OnStep ==
    ASSUME NEW m \in 0..5, NEW n \in 0..5, m = n + 1 \/ m = n,
           WInv, On, On', [Next]_vars, AtMost(m), m = n \/ ThreadStep
    PROVE  AtMost(n)'
<1>0. who = "boot" /\ (pc' = "wait" => pc = "wait") /\ TypeOK
  BY ComingStays DEF On, Coming, WInv, IInv
<1>1. CASE ThreadStep
  <2>1. Left \in 1..5 /\ (Left' = Left - 1 \/ Left' = 0)
    BY <1>0, <1>1, StepLowers
  <2>. QED  BY <2>1 DEF AtMost
<1>2. CASE ~ThreadStep
  <2>1. Left' = Left
    BY <1>0, <1>2, OthersKeep DEF Left
  <2>2. Left \in 0..5
    BY <1>0 DEF TypeOK, Left
  <2>. QED  BY <1>2, <2>1, <2>2 DEF AtMost
<1>. QED  BY <1>1, <1>2

(* Every state has the inductive invariant and WaitOK.                        *)
LEMMA WaitInductive == Spec => []WInv
<1>1. Init => WaitOK
  BY DEF Init, WaitOK
<1>2. IInv /\ WaitOK /\ [Next]_vars => WaitOK'
  BY WaitStep DEF IInv
<1>. QED  BY <1>1, <1>2, Inductive, PTL DEF Spec, WInv

Waits == who = "boot" /\ pc = "wait"
Succeeds == pc = "ok"

(* A wait_equals that waits when the expected value has come, to stay, wakes  *)
(* up, reads it and succeeds, if init publishes and its thread is scheduled.  *)
THEOREM ArrivesHolds == Spec /\ Publishes /\ ThreadRuns => Arrives
<1>. DEFINE Turn == WInv /\ On /\ On' /\ [Next]_vars /\ ThreadStep
<1>1. Turn /\ AtMost(5) => AtMost(4)'
  BY OnStep
<1>2. Turn /\ AtMost(4) => AtMost(3)'
  BY OnStep
<1>3. Turn /\ AtMost(3) => AtMost(2)'
  BY OnStep
<1>4. Turn /\ AtMost(2) => AtMost(1)'
  BY OnStep
<1>5. Turn /\ AtMost(1) => AtMost(0)'
  BY OnStep
<1>6. WInv /\ On /\ On' /\ [Next]_vars =>
          /\ AtMost(4) => AtMost(4)'
          /\ AtMost(3) => AtMost(3)'
          /\ AtMost(2) => AtMost(2)'
          /\ AtMost(1) => AtMost(1)'
          /\ AtMost(0) => AtMost(0)'
  BY OnStep
<1>7. WInv => AtMost(5)
  BY DEF WInv, IInv, TypeOK, AtMost, Left
<1>8. WInv /\ On => ~AtMost(0) /\ ~Ended
  BY DEF WInv, IInv, TypeOK, On, Coming, AtMost, Left, Ended
<1>9. ~(Spec /\ <>[]On /\ []<><<ThreadStep>>_vars)
  <2>. DEFINE Fair == Spec /\ <>[]On /\ []<><<ThreadStep>>_vars
  <2>2. Fair => <>[]AtMost(4)
    BY <1>1, <1>6, <1>7, WaitInductive, PTL DEF Spec
  <2>3. Fair /\ <>[]AtMost(4) => <>[]AtMost(3)
    BY <1>2, <1>6, WaitInductive, PTL DEF Spec
  <2>4. Fair /\ <>[]AtMost(3) => <>[]AtMost(2)
    BY <1>3, <1>6, WaitInductive, PTL DEF Spec
  <2>5. Fair /\ <>[]AtMost(2) => <>[]AtMost(1)
    BY <1>4, <1>6, WaitInductive, PTL DEF Spec
  <2>6. Fair /\ <>[]AtMost(1) => <>[]AtMost(0)
    BY <1>5, <1>6, WaitInductive, PTL DEF Spec
  <2>7. Fair /\ <>[]AtMost(0) => FALSE
    BY <1>8, WaitInductive, PTL
  <2>. HIDE DEF Fair
  <2>. QED  BY <2>2, <2>3, <2>4, <2>5, <2>6, <2>7, PTL DEF Fair
<1>10. Spec /\ Publishes /\ ThreadRuns => [](Waits /\ []Got => <>Succeeds)
  <2>1. WInv /\ Coming /\ Got /\ [Next]_vars => Coming' /\ (~Blocked => ~Blocked')
    BY ComingStays, StaysNotBlocked
  <2>2. WInv /\ Coming /\ Got /\ ~bump => ~Blocked
    BY NotBlocked
  <2>3. /\ Waits => Coming
        /\ Coming /\ Got /\ ~Succeeds => On
    BY DEF Waits, Coming, On, Succeeds
  <2>4. Spec => [](Waits /\ []Got => []Coming)
    BY <2>1, <2>3, WaitInductive, PTL DEF Spec
  <2>5. Spec /\ Publishes => []([]Coming /\ []Got => <>[]~Blocked)
    BY <2>1, <2>2, WaitInductive, PTL DEF Spec, Publishes
  <2>6. Spec /\ Publishes /\ ThreadRuns /\ <>[]On /\ <>[]~Blocked => FALSE
    BY <1>8, <1>9, WaitInductive, PTL DEF ThreadRuns
  <2>. QED  BY <2>3, <2>4, <2>5, <2>6, PTL
<1>. QED  BY <1>10, PTL DEF Waits, Got, Succeeds, Arrives

=============================================================================
