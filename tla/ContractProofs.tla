---------------------------- MODULE ContractProofs -----------------------------
(* SmbControl implements ServiceContract: the proof of KeepsContract, for     *)
(* every set of processes, addresses, commands, kills and faults.             *)
EXTENDS SmbControlProofs

USE DEF vars, files, device, locals

-------------------------------------------------------------------------------
(* What a command has done of its work when it is where it is.  SafeInv       *)
(* protects what the critical sections read; Answer is about their results.   *)

Stopped(p) ==
    op[p].cmd \in {"stop", "suspend_network"} =>
        \/ pc[p] = "fail"
        \/ pc[p] = "halt" /\ ret[p] = "save"
        \/ pc[p] = "save" /\ smbd = NoSmbd
        \/ /\ pc[p] \in {"forget", "flags", "done"}
           /\ smbd = NoSmbd
           /\ cfg["ENABLED"] = IF op[p].cmd = "stop" THEN "0" ELSE "1"

Took(p) == \A k \in DOMAIN op[p].args \ {"ENABLED"} :
               k \in Key /\ cfg[k] = op[p].args[k]

Updated(p) ==
    op[p].cmd \in {"set_config", "save_restart"} =>
        pc[p] \in {"update", "fail"} \/ Took(p)

Learned(p) ==
    op[p].cmd = "set_password_hex" => pc[p] \in {"passwd", "fail"} \/ password

Booted(p) ==
    op[p].cmd = "boot" =>
        \/ pc[p] \in {"boot", "fail"}
        \/ pc[p] = "done" /\ (cfg["AUTO_START"] = "1" => cfg["ENABLED"] = "1")

Asked(p) == pc[p] # "idle" => op[p].cmd \in Command

Answer(p) == Inside(p) => Stopped(p) /\ Updated(p) /\ Learned(p) /\ Booted(p)

AnswerInv == \A p \in Proc : Asked(p) /\ Answer(p)

(* Of a step's writes: who writes what.                                       *)
LEMMA StepWrites ==
    ASSUME NEW p \in Proc, Step(p)
    PROVE  /\ \/ UNCHANGED cfg
              \/ Defer(p) \/ Enable(p) \/ Save(p) \/ PendSave(p) \/ Boot(p) \/ Update(p)
           /\ UNCHANGED password \/ (Passwd(p) /\ password' = TRUE)
           /\ UNCHANGED smbd \/ Halt(p) \/ Launch(p)
<1>1. CASE StartSteps(p)
  BY <1>1 DEF StartSteps, Start, WriteConf, LaunchFails, Await, Unflag, WriteKey,
              WriteApplied, Launch, Defer, Enable, SaveEnabled
<1>2. CASE StopSteps(p)
  BY <1>2 DEF StopSteps, HaltFails, Forget, Flags, Halt, Save, SaveEnabled
<1>3. CASE ConfigSteps(p)
  BY <1>3 DEF ConfigSteps, Update, Pend, PendSave, Passwd, Boot, SaveEnabled
<1>4. CASE ReadNetwork(p) \/ Decide(p)
  BY <1>4 DEF ReadNetwork, Decide
<1>. QED  BY <1>1, <1>2, <1>3, <1>4 DEF Step

-------------------------------------------------------------------------------
(* A step of the holder keeps its own answer on the way.                      *)

LEMMA StoppedStep ==
    ASSUME SafeInv, NEW p \in Proc, Step(p), Stopped(p)
    PROVE  Stopped(p)'
<1>1. TypeOK /\ op' = op /\ loc[p] = cfg /\ pc[p] \notin {"fail", "done"}
  BY StepInside DEF SafeInv, TypeInv, ProcInv, Fresh
<1>2. SUFFICES ASSUME op[p].cmd \in {"stop", "suspend_network"}
               PROVE  Stopped(p)'
  BY <1>1 DEF Stopped
<1>3. CASE pc[p] = "halt"
  <2>1. Halt(p) \/ HaltFails(p)
    BY <1>3 DEF Step, StartSteps, StopSteps, ConfigSteps, Start, Defer, WriteConf,
                Launch, LaunchFails, Await, Enable, Unflag, WriteKey, WriteApplied,
                Save, Forget, Flags, Update, Pend, PendSave, Passwd, Boot,
                ReadNetwork, Decide
  <2>2. ret[p] = "save"
    BY <1>2, <1>3 DEF Stopped
  <2>. QED  BY <1>1, <2>1, <2>2 DEF Halt, HaltFails, Goto, Stopped, TypeOK
<1>4. CASE pc[p] = "save"
  <2>1. Save(p) /\ smbd = NoSmbd
    BY <1>2, <1>4
       DEF Stopped, Step, StartSteps, StopSteps, ConfigSteps, Start, Defer, WriteConf,
           Launch, LaunchFails, Await, Enable, Unflag, WriteKey, WriteApplied, Halt,
           HaltFails, Forget, Flags, Update, Pend, PendSave, Passwd, Boot,
           ReadNetwork, Decide
  <2>2. cfg'["ENABLED"] = IF Suspends(p) THEN "1" ELSE "0"
    BY <1>1, <2>1 DEF Save, SaveEnabled, Set, TypeOK, Config, Key, Flag
  <2>3. pc'[p] = "forget" /\ smbd' = NoSmbd
    BY <1>1, <2>1 DEF Save, SaveEnabled, Goto, TypeOK
  <2>. QED  BY <1>1, <1>2, <2>2, <2>3 DEF Stopped, Suspends
<1>5. CASE pc[p] \in {"forget", "flags"}
  <2>1. Forget(p) \/ Flags(p)
    BY <1>5
       DEF Step, StartSteps, StopSteps, ConfigSteps, Start, Defer, WriteConf,
           Launch, LaunchFails, Await, Enable, Unflag, WriteKey, WriteApplied, Halt,
           HaltFails, Save, Update, Pend, PendSave, Passwd, Boot, ReadNetwork, Decide
  <2>2. smbd = NoSmbd /\ cfg["ENABLED"] = IF op[p].cmd = "stop" THEN "0" ELSE "1"
    BY <1>2, <1>5 DEF Stopped
  <2>3. pc'[p] \in {"flags", "done"} /\ UNCHANGED <<smbd, cfg>>
    BY <1>1, <2>1 DEF Forget, Flags, Goto, TypeOK
  <2>. QED  BY <1>1, <2>2, <2>3 DEF Stopped
<1>. QED  BY <1>1, <1>2, <1>3, <1>4, <1>5 DEF Stopped

(* A save of ENABLED leaves what the command has set.                         *)
LEMMA TookStep ==
    ASSUME SafeInv, NEW p \in Proc, Step(p), pc[p] # "update", Took(p)
    PROVE  Took(p)'
<1>1. Inside(p) /\ pc[p] # "fail" /\ op' = op
  BY StepInside
<1>2. ASSUME NEW k \in Key, k # "ENABLED" PROVE cfg'[k] = cfg[k]
  <2>1. CASE UNCHANGED cfg
    BY <2>1
  <2>2. CASE Update(p)
    BY <2>2 DEF Update
  <2>3. CASE Defer(p) \/ Enable(p) \/ PendSave(p)
    BY <1>1, <1>2, <2>3, SaveEnabledKeeps DEF Defer, Enable, PendSave
  <2>4. CASE Save(p)
    BY <1>1, <1>2, <2>4, SaveEnabledKeeps DEF Save
  <2>5. CASE Boot(p)
    <3>1. loc[p]["ENABLED"] \in {"0", "1"}
      BY DEF SafeInv, TypeInv, TypeOK, Config, Valid, Flag
    <3>. QED  BY <1>1, <1>2, <2>5, <3>1, SaveEnabledKeeps DEF Boot
  <2>. QED  BY <2>1, <2>2, <2>3, <2>4, <2>5, StepWrites
<1>. QED  BY <1>1, <1>2 DEF Took

LEMMA UpdatedStep ==
    ASSUME SafeInv, NEW p \in Proc, Step(p), Updated(p)
    PROVE  Updated(p)'
<1>1. TypeOK /\ op' = op /\ pc[p] # "fail"
  BY StepInside DEF SafeInv, TypeInv
<1>2. CASE pc[p] # "update"
  BY <1>1, <1>2, TookStep DEF Updated
<1>3. CASE pc[p] = "update"
  <2>1. Update(p)
    BY <1>3
       DEF Step, StartSteps, StopSteps, ConfigSteps, Start, Defer, WriteConf,
           Launch, LaunchFails, Await, Enable, Unflag, WriteKey, WriteApplied, Halt,
           HaltFails, Save, Forget, Flags, Pend, PendSave, Passwd, Boot, ReadNetwork,
           Decide
  <2>2. CASE DOMAIN op[p].args \subseteq Key /\ Merge(loc[p], op[p].args) \in Config
    <3>1. cfg' = Merge(loc[p], op[p].args)
      BY <2>1, <2>2 DEF Update
    <3>. QED  BY <1>1, <2>2, <3>1 DEF Updated, Took, Merge
  <2>3. CASE ~(DOMAIN op[p].args \subseteq Key /\ Merge(loc[p], op[p].args) \in Config)
    <3>1. pc'[p] = "fail"
      BY <1>1, <2>1, <2>3 DEF Update, Goto, TypeOK
    <3>. QED  BY <3>1 DEF Updated
  <2>. QED  BY <2>2, <2>3
<1>. QED  BY <1>2, <1>3

LEMMA LearnedStep ==
    ASSUME SafeInv, NEW p \in Proc, Step(p), Learned(p)
    PROVE  Learned(p)'
<1>1. TypeOK /\ op' = op /\ pc[p] # "fail"
  BY StepInside DEF SafeInv, TypeInv
<1>2. CASE password
  BY <1>2, StepWrites DEF Learned
<1>3. CASE pc[p] = "passwd"
  <2>1. Passwd(p)
    BY <1>3
       DEF Step, StartSteps, StopSteps, ConfigSteps, Start, Defer, WriteConf,
           Launch, LaunchFails, Await, Enable, Unflag, WriteKey, WriteApplied, Halt,
           HaltFails, Save, Forget, Flags, Update, Pend, PendSave, Boot, ReadNetwork,
           Decide
  <2>. QED  BY <1>1, <2>1 DEF Passwd, Goto, TypeOK, Learned
<1>. QED  BY <1>1, <1>2, <1>3 DEF Learned

LEMMA BootedStep ==
    ASSUME SafeInv, NEW p \in Proc, Step(p), Booted(p)
    PROVE  Booted(p)'
<1>1. TypeOK /\ op' = op /\ pc[p] \notin {"fail", "done"}
  BY StepInside DEF SafeInv, TypeInv
<1>2. CASE op[p].cmd # "boot"
  BY <1>1, <1>2 DEF Booted
<1>3. CASE op[p].cmd = "boot"
  <2>1. Boot(p)
    BY <1>1, <1>3
       DEF Booted, Step, StartSteps, StopSteps, ConfigSteps, Start, Defer, WriteConf,
           Launch, LaunchFails, Await, Enable, Unflag, WriteKey, WriteApplied, Halt,
           HaltFails, Save, Forget, Flags, Update, Pend, PendSave, Passwd, ReadNetwork,
           Decide
  <2>2. pc'[p] = "done"
    BY <1>1, <2>1 DEF Boot, SaveEnabled, Goto, TypeOK
  <2>3. cfg' = Set(loc[p], "ENABLED", IF loc[p]["AUTO_START"] = "1" THEN "1"
                                      ELSE loc[p]["ENABLED"]) /\ loc[p] \in Config
    BY <1>1, <2>1 DEF Boot, SaveEnabled, TypeOK
  <2>4. cfg'["AUTO_START"] = "1" => cfg'["ENABLED"] = "1"
    BY <2>3 DEF Set, Config, Key, Flag
  <2>. QED  BY <2>2, <2>4 DEF Booted
<1>. QED  BY <1>2, <1>3

-------------------------------------------------------------------------------
(* AnswerInv is kept by every step. *)

LEMMA OutsideAnswers ==
    ASSUME NEW q \in Proc, pc[q] \in {"idle", "lock"}
    PROVE  Answer(q)
BY DEF Answer, Inside

LEMMA StepAnswers ==
    ASSUME SafeInv, AnswerInv, NEW p \in Proc, Step(p)
    PROVE  AnswerInv'
<1>1. Inside(p) /\ Inside(p)' /\ op' = op
      /\ \A q \in Proc \ {p} : pc[q] \in {"idle", "lock"} /\ pc'[q] = pc[q]
  BY StepInside
<1>2. Stopped(p) /\ Updated(p) /\ Learned(p) /\ Booted(p)
  BY <1>1 DEF AnswerInv, Answer
<1>3. Answer(p)'
  BY <1>2, StoppedStep, UpdatedStep, LearnedStep, BootedStep DEF Answer
<1>4. Asked(p)'
  BY <1>1 DEF AnswerInv, Asked, Inside
<1>5. ASSUME NEW q \in Proc, q # p PROVE Asked(q)' /\ Answer(q)'
  <2>1. pc'[q] \in {"idle", "lock"} /\ pc'[q] = pc[q]
    BY <1>1, <1>5
  <2>2. Answer(q)'
    BY <2>1 DEF Answer, Inside
  <2>. QED  BY <1>1, <2>1, <2>2 DEF AnswerInv, Asked
<1>. QED  BY <1>3, <1>4, <1>5 DEF AnswerInv

LEMMA LockAnswers ==
    ASSUME SafeInv, AnswerInv, NEW p \in Proc, Lock(p) \/ LoadFails(p)
    PROVE  AnswerInv'
<1>1. TypeOK /\ LockInv /\ lock = Free /\ pc[p] = "lock" /\ op' = op
  BY DEF SafeInv, TypeInv, Lock, LoadFails
<1>2. \A q \in Proc : pc[q] \in {"idle", "lock"}
  BY <1>1, ProcAssumption DEF LockInv, Inside
<1>3. \A q \in Proc \ {p} : pc'[q] = pc[q]
  BY <1>1 DEF Lock, LoadFails, Dispatch, Goto, HaltThen, TypeOK
<1>4. Answer(p)'
  BY <1>1 DEF Lock, LoadFails, Dispatch, Goto, HaltThen, TypeOK, Answer, Stopped, Updated,
              Learned, Booted
<1>5. Asked(p)'
  BY <1>1 DEF AnswerInv, Asked
<1>6. ASSUME NEW q \in Proc, q # p PROVE Asked(q)' /\ Answer(q)'
  <2>1. pc'[q] = pc[q] /\ pc'[q] \in {"idle", "lock"}
    BY <1>2, <1>3, <1>6
  <2>. QED  BY <1>1, <2>1 DEF AnswerInv, Asked, Answer, Inside
<1>. QED  BY <1>4, <1>5, <1>6 DEF AnswerInv

LEMMA RequestsAnswer == ASSUME SafeInv, AnswerInv, Requests PROVE AnswerInv'
<1>1. PICK p \in Proc, o \in Op \cup {Reconcile} : Issue(p, o)
  BY Zenon DEF Requests, Proc
<1>2. o.cmd \in Command
  BY OpAssumption DEF Reconcile, Command
<1>3. TypeOK
  BY DEF SafeInv, TypeInv
<1>4. /\ pc' = [pc EXCEPT ![p] = "lock"] /\ op' = [op EXCEPT ![p] = o]
      /\ UNCHANGED <<ret, smbd, cfg, password>>
  BY <1>1 DEF Issue, Goto
<1>5. Asked(p)' /\ Answer(p)'
  BY <1>2, <1>3, <1>4 DEF TypeOK, Asked, Answer, Inside
<1>6. ASSUME NEW q \in Proc, q # p PROVE Asked(q)' /\ Answer(q)'
  <2>1. pc'[q] = pc[q] /\ op'[q] = op[q]
    BY <1>3, <1>4, <1>6 DEF TypeOK
  <2>. QED  BY <1>4, <2>1 DEF AnswerInv, Asked, Answer, Inside, Stopped, Updated, Took,
                              Learned, Booted
<1>. QED  BY <1>5, <1>6 DEF AnswerInv

LEMMA ExitAnswers ==
    ASSUME SafeInv, AnswerInv, NEW p \in Proc, Exit(p), UNCHANGED <<files, smbd, device>>
    PROVE  AnswerInv'
<1>1. TypeOK
  BY DEF SafeInv, TypeInv
<1>2. pc'[p] = "idle"
  BY <1>1 DEF Exit, TypeOK
<1>3. Asked(p)' /\ Answer(p)'
  BY <1>2 DEF Asked, Answer, Inside
<1>4. ASSUME NEW q \in Proc, q # p PROVE Asked(q)' /\ Answer(q)'
  <2>1. pc'[q] = pc[q] /\ op'[q] = op[q] /\ ret'[q] = ret[q]
    BY <1>1, <1>4 DEF Exit, TypeOK
  <2>. QED  BY <2>1 DEF AnswerInv, Asked, Answer, Inside, Stopped, Updated, Took,
                        Learned, Booted
<1>. QED  BY <1>3, <1>4 DEF AnswerInv

LEMMA EnvAnswers == ASSUME SafeInv, AnswerInv, Env PROVE AnswerInv'
<1>1. CASE Reboot
  BY <1>1 DEF Reboot, AnswerInv, Asked, Answer, Inside
<1>2. CASE ~Reboot
  <2>1. UNCHANGED <<pc, ret, op, cfg, password>>
    BY <1>2 DEF Env, LanChange, StorageChange, Listen, Crash
  <2>2. smbd = NoSmbd => smbd' = NoSmbd
    BY <1>2 DEF Env, LanChange, StorageChange, Listen, Crash
  <2>3. ASSUME NEW q \in Proc PROVE Asked(q)' /\ Answer(q)'
    <3>1. (Inside(q) => Stopped(q)) => (Inside(q) => Stopped(q))'
      BY <2>1, <2>2 DEF Stopped, Inside
    <3>. QED  BY <2>1, <3>1 DEF AnswerInv, Asked, Answer, Inside, Updated, Took, Learned,
                                Booted
  <2>. QED  BY <2>3 DEF AnswerInv
<1>. QED  BY <1>1, <1>2

LEMMA AnswerNext == SafeInv /\ AnswerInv /\ [Next]_vars => AnswerInv'
<1>. SUFFICES ASSUME SafeInv, AnswerInv, [Next]_vars PROVE AnswerInv'
  OBVIOUS
<1>1. CASE Requests
  BY <1>1, RequestsAnswer
<1>2. ASSUME NEW p \in Proc, Lock(p) \/ LoadFails(p) \/ Step(p) PROVE AnswerInv'
  BY <1>2, LockAnswers, StepAnswers
<1>3. ASSUME NEW p \in Proc, Return(p) \/ Kill(p) PROVE AnswerInv'
  BY <1>3, ExitAnswers DEF Return, Kill
<1>4. CASE Env
  BY <1>4, EnvAnswers
<1>5. CASE UNCHANGED vars
  BY <1>5 DEF AnswerInv, Asked, Answer, Inside, Stopped, Updated, Took, Learned, Booted
<1>. QED  BY <1>1, <1>2, <1>3, <1>4, <1>5 DEF Next

LEMMA Answered == Spec => []AnswerInv
<1>1. Init => AnswerInv
  BY DEF Init, AnswerInv, Asked, Answer, Inside
<1>. QED  BY <1>1, AnswerNext, Safe, PTL DEF Spec

-------------------------------------------------------------------------------
(* The refinement: every step maps to a step of the contract or stutters.     *)

(* While p is inside, the turn is the one of its command.                     *)
LEMMA TurnIs ==
    ASSUME SafeInv, NEW p \in Proc, Inside(p)
    PROVE  /\ lock = p /\ Turn = op[p]
           /\ Outcome = IF pc[p] = "done" THEN "ok" ELSE "none"
<1>1. lock = p /\ p # Free
  BY ProcAssumption DEF SafeInv, LockInv
<1>. QED  BY <1>1 DEF Turn, Outcome

LEMMA AskedIsSomebody ==
    ASSUME AnswerInv, NEW p \in Proc, Inside(p)
    PROVE  op[p] # NoOp
<1>1. op[p].cmd \in Command
  BY DEF AnswerInv, Asked, Inside
<1>. QED  BY <1>1 DEF NoOp, Command

DoneReached == \A p \in Proc : pc[p] = "done" => Contract!Reached(op[p])

(* A command that is done has reached what its name says.                     *)
LEMMA DoneIsReached == SafeInv /\ AnswerInv => DoneReached
<1>. SUFFICES ASSUME SafeInv, AnswerInv, NEW p \in Proc, pc[p] = "done"
              PROVE  Contract!Reached(op[p])
  BY DEF DoneReached
<1>1. Inside(p) /\ loc[p] = cfg /\ ServerInv(p)
  BY DEF Inside, SafeInv, ProcInv, Fresh
<1>2. Stopped(p) /\ Updated(p) /\ Learned(p) /\ Booted(p)
  BY <1>1 DEF AnswerInv, Answer
<1>3. op[p].cmd \in {"stop", "suspend_network"} =>
          Serving = NoSmbd /\ cfg["ENABLED"] = IF op[p].cmd = "stop" THEN "0" ELSE "1"
  BY <1>2 DEF Stopped, Serving
<1>4. op[p].cmd \in {"restart", "save_restart"} =>
          Serving \in {NoSmbd, Contract!Settings(cfg)}
  BY <1>1 DEF ServerInv, RunsAs, Serving, Contract!Settings, Set
<1>5. op[p].cmd \in {"set_config", "save_restart"} =>
          \A k \in DOMAIN op[p].args \ {"ENABLED"} : cfg[k] = op[p].args[k]
  BY <1>2 DEF Updated, Took
<1>. QED  BY <1>2, <1>3, <1>4, <1>5 DEF Learned, Booted, Contract!Reached

(* What a step changes of the service, it may change.                         *)
LEMMA StepServes ==
    ASSUME SafeInv, SafeInv', NEW p \in Proc, Step(p)
    PROVE  \/ Contract!Configure \/ Contract!Learn \/ Contract!Launch \/ Contract!Quit
           \/ Contract!service' = Contract!service
<1>1. TypeOK /\ TypeOK' /\ Inside(p) /\ pc[p] # "fail"
  BY StepInside DEF SafeInv, TypeInv
<1>2. Turn = op[p] /\ lock = p
  BY <1>1, TurnIs
<1>3. CASE Halt(p)
  <2>1. smbd' = NoSmbd /\ UNCHANGED <<cfg, password>>
    BY <1>3 DEF Halt
  <2>. QED  BY <2>1 DEF Contract!Quit, Serving
<1>4. CASE Launch(p)
  <2>1. smbd = NoSmbd /\ loc[p] = cfg /\ conf.cfg = cfg
        /\ (cfg["AUTH_MODE"] = "user" => password)
    BY <1>1, <1>4 DEF Launch, SafeInv, ProcInv, Fresh, ServerInv
  <2>2. cfg["ENABLED"] = "1" \/ op[p].cmd \in StartCommands
    BY <1>4, <2>1 DEF Launch, SafeInv, ProcInv, Entitlement, AtOrTo
  <2>3. smbd'.cfg = cfg /\ smbd' # NoSmbd /\ UNCHANGED <<cfg, password>>
    <3>1. conf \in Conf
      BY <1>4 DEF Launch, SafeInv, TypeInv, ConfWritten
    <3>2. smbd' \in Server
      BY <1>4, <3>1 DEF Launch, Conf, Server
    <3>. QED  BY <1>4, <2>1, <3>2, FileAssumption DEF Launch
  <2>4. Serving = NoSmbd /\ Serving' = Contract!Settings(cfg)
    BY <2>1, <2>3 DEF Serving, Contract!Settings, Set
  <2>. QED  BY <1>2, <2>1, <2>2, <2>3, <2>4
            DEF Contract!Launch, Contract!StartCommands, StartCommands
<1>5. CASE UNCHANGED smbd /\ cfg' # cfg
  <2>1. cfg' \in Config /\ UNCHANGED password
    BY <1>1, <1>5, StepWrites
       DEF TypeOK, Defer, Enable, Save, PendSave, Boot, Update, Passwd, SaveEnabled
  <2>2. ASSUME NEW k \in Key, cfg'[k] # cfg[k]
        PROVE  Contract!Entitled(op[p], k, cfg'[k])
    BY <2>2, StepKeepsKeys DEF Entitled, Contract!Entitled, StartCommands,
                               Contract!StartCommands
  <2>. QED  BY <1>2, <1>5, <2>1, <2>2 DEF Contract!Configure, Serving
<1>6. CASE UNCHANGED smbd /\ UNCHANGED cfg
  <2>1. CASE UNCHANGED password
    BY <1>6, <2>1 DEF Contract!service, Serving
  <2>2. CASE Passwd(p) /\ password' = TRUE
    <3>1. op[p].cmd = "set_password_hex"
      BY <2>2 DEF Passwd, SafeInv, ProcInv, Entitlement
    <3>. QED  BY <1>2, <1>6, <2>2, <3>1 DEF Contract!Learn, Serving
  <2>. QED  BY <2>1, <2>2, StepWrites
<1>. QED  BY <1>3, <1>4, <1>5, <1>6, StepWrites

(* A step of the holder is one piece of the work of its turn.                 *)
LEMMA StepWorks ==
    ASSUME SafeInv, AnswerInv, SafeInv', AnswerInv', DoneReached', NEW p \in Proc, Step(p)
    PROVE  Contract!Work
<1>1. Inside(p) /\ Inside(p)' /\ pc[p] # "done" /\ op' = op
  BY StepInside
<1>2. Turn = op[p] /\ Outcome = "none"
  BY <1>1, TurnIs
<1>3. lock' = p /\ p # Free
  BY StepInside, ProcAssumption
<1>4. Turn' = op[p] /\ Outcome' = IF pc'[p] = "done" THEN "ok" ELSE "none"
  BY <1>1, <1>3 DEF Turn, Outcome
<1>5. Outcome' = "ok" => Contract!Reached(Turn)'
  <2>1. SUFFICES ASSUME pc'[p] = "done" PROVE Contract!Reached(Turn)'
    BY <1>4
  <2>2. Contract!Reached(op[p])'
    BY <2>1 DEF DoneReached
  <2>. QED  BY <1>1, <1>4, <2>2 DEF Contract!Reached, Contract!Settings
<1>6. Turn # NoOp
  BY <1>1, <1>2, AskedIsSomebody
<1>. QED  BY <1>2, <1>4, <1>5, <1>6, StepServes DEF Contract!Work

(* The lock is the turn.                                                      *)
LEMMA LockBegins ==
    ASSUME SafeInv, NEW p \in Proc, Lock(p) \/ LoadFails(p)
    PROVE  Contract!Begin
<1>1. TypeOK /\ lock = Free /\ lock' = p /\ p # Free /\ op' = op
      /\ UNCHANGED <<cfg, password, smbd>>
  BY ProcAssumption DEF SafeInv, TypeInv, Lock, LoadFails
<1>2. pc'[p] # "done"
  BY <1>1 DEF Lock, LoadFails, Dispatch, Goto, HaltThen, TypeOK
<1>3. Turn = NoOp /\ Turn' = op[p] /\ op[p] \in Ops
  BY <1>1 DEF Turn, TypeOK
<1>4. Outcome = "none" /\ Outcome' = "none"
  BY <1>1, <1>2 DEF Outcome
<1>. QED  BY <1>1, <1>3, <1>4 DEF Contract!Begin, Contract!service, Serving

(* Nobody else's exit, no request and no other event ends a turn.             *)
LEMMA SameTurn ==
    ASSUME SafeInv, UNCHANGED <<lock, cfg, password>>,
           \A q \in Proc : Inside(q) => pc'[q] = pc[q] /\ op'[q] = op[q]
    PROVE  Turn' = Turn /\ Outcome' = Outcome
<1>1. CASE lock = Free
  BY <1>1 DEF Turn, Outcome
<1>2. CASE lock # Free
  <2>1. lock \in Proc /\ Inside(lock)
    BY <1>2 DEF SafeInv, TypeInv, TypeOK, LockInv
  <2>. QED  BY <1>2, <2>1 DEF Turn, Outcome
<1>. QED  BY <1>1, <1>2

LEMMA ExitEnds ==
    ASSUME SafeInv, AnswerInv, NEW p \in Proc, Exit(p), UNCHANGED <<files, smbd, device>>
    PROVE  Contract!End \/ UNCHANGED Contract!vars
<1>1. TypeOK
  BY DEF SafeInv, TypeInv
<1>2. CASE Inside(p)
  <2>1. Turn = op[p] /\ Turn # NoOp /\ lock' = Free
    BY <1>2, TurnIs, AskedIsSomebody DEF Exit
  <2>2. Turn' = NoOp /\ Outcome' = "none"
    BY <2>1 DEF Turn, Outcome
  <2>. QED  BY <2>1, <2>2 DEF Contract!End, Contract!service, Serving
<1>3. CASE ~Inside(p)
  <2>1. lock' = lock
    BY <1>3 DEF Exit, SafeInv, LockInv
  <2>2. \A q \in Proc : Inside(q) => pc'[q] = pc[q] /\ op'[q] = op[q]
    BY <1>1, <1>3 DEF Exit, TypeOK
  <2>3. Turn' = Turn /\ Outcome' = Outcome
    BY <2>1, <2>2, SameTurn
  <2>. QED  BY <2>3 DEF Contract!vars, Contract!service, Serving
<1>. QED  BY <1>2, <1>3

LEMMA RequestStutters ==
    ASSUME SafeInv, Requests
    PROVE  UNCHANGED Contract!vars
<1>1. PICK p \in Proc, o \in Op \cup {Reconcile} : Issue(p, o)
  BY Zenon DEF Requests, Proc
<1>2. \A q \in Proc : Inside(q) => pc'[q] = pc[q] /\ op'[q] = op[q]
  BY <1>1 DEF SafeInv, TypeInv, TypeOK, Issue, Goto, Inside
<1>3. Turn' = Turn /\ Outcome' = Outcome
  BY <1>1, <1>2, SameTurn DEF Issue
<1>. QED  BY <1>1, <1>3 DEF Issue, Contract!vars, Contract!service, Serving

LEMMA EnvRefines ==
    ASSUME SafeInv, SafeInv', Env
    PROVE  Contract!Crash \/ Contract!Reboot \/ UNCHANGED Contract!vars
<1>1. CASE Reboot
  BY <1>1 DEF Reboot, Contract!Reboot, Contract!Quit, Turn, Outcome, Serving
<1>2. CASE ~Reboot
  <2>1. UNCHANGED <<lock, cfg, password, pc, op>>
    BY <1>2 DEF Env, LanChange, StorageChange, Listen, Crash
  <2>2. Turn' = Turn /\ Outcome' = Outcome
    BY <2>1, SameTurn
  <2>3. CASE Crash
    BY <2>1, <2>2, <2>3 DEF Crash, Contract!Crash, Contract!Quit, Serving
  <2>4. CASE Listen
    <3>1. smbd \in Server /\ smbd # NoSmbd
      BY <2>4 DEF Listen, SafeInv, TypeInv, TypeOK
    <3>2. smbd' \in Server /\ smbd'.cfg = smbd.cfg
      BY <2>4, <3>1 DEF Listen, Server, SafeInv, TypeInv, TypeOK
    <3>3. Serving' = Serving
      BY <3>1, <3>2, FileAssumption DEF Serving
    <3>. QED  BY <2>1, <2>2, <3>3 DEF Contract!vars, Contract!service
  <2>5. CASE LanChange \/ StorageChange
    <3>1. UNCHANGED smbd
      BY <2>5 DEF LanChange, StorageChange
    <3>. QED  BY <2>1, <2>2, <3>1 DEF Contract!vars, Contract!service, Serving
  <2>. QED  BY <1>2, <2>3, <2>4, <2>5 DEF Env
<1>. QED  BY <1>1, <1>2

LEMMA NextRefines ==
    SafeInv /\ AnswerInv /\ SafeInv' /\ AnswerInv' /\ DoneReached' /\ [Next]_vars
        => [Contract!Next]_Contract!vars
<1>. SUFFICES ASSUME SafeInv, AnswerInv, SafeInv', AnswerInv', DoneReached', [Next]_vars
              PROVE  Contract!Next \/ UNCHANGED Contract!vars
  OBVIOUS
<1>1. CASE Requests
  BY <1>1, RequestStutters
<1>2. ASSUME NEW p \in Proc, Lock(p) \/ LoadFails(p) PROVE Contract!Next
  BY <1>2, LockBegins DEF Contract!Next
<1>3. ASSUME NEW p \in Proc, Step(p) PROVE Contract!Next
  BY <1>3, StepWorks DEF Contract!Next
<1>4. ASSUME NEW p \in Proc, Return(p) \/ Kill(p)
      PROVE  Contract!Next \/ UNCHANGED Contract!vars
  BY <1>4, ExitEnds DEF Return, Kill, Contract!Next
<1>5. CASE Env
  BY <1>5, EnvRefines DEF Contract!Next
<1>6. CASE UNCHANGED vars
  BY <1>6 DEF Contract!vars, Contract!service, Serving, Turn, Outcome
<1>. QED  BY <1>1, <1>2, <1>3, <1>4, <1>5, <1>6 DEF Next

(* The commands, the watcher's reconcile and whatever befalls them implement  *)
(* the contract: taking turns, writing only what was asked for, launching     *)
(* only what is wished for, and reporting success only for work that is done. *)
THEOREM KeepsContractHolds == Spec => KeepsContract
<1>1. Init => Contract!Init
  BY ConfigAssumption DEF Init, Contract!Init, Serving, Turn, Outcome
<1>2. QED
  BY <1>1, NextRefines, DoneIsReached, Safe, Answered, PTL
     DEF Spec, KeepsContract, Contract!Spec

-------------------------------------------------------------------------------
(* A stop lasts.  What it rests on is the two action properties about who     *)
(* launches the server and who writes ENABLED.                                *)

(* A request that neither starts the server nor gives ENABLED the value 1.    *)
Harmless(o) == /\ o.cmd \notin StartCommands \cup {"suspend_network", "boot"}
               /\ "ENABLED" \in DOMAIN o.args => o.args["ENABLED"] # "1"

OnlyHarmless == lock # Free => Harmless(op[lock])

Off == smbd = NoSmbd /\ cfg["ENABLED"] # "1"

(* The server comes only from a launch.                                       *)
LEMMA OnlyLaunched ==
    ASSUME SafeInv, [Next]_vars, smbd = NoSmbd, smbd' # NoSmbd
    PROVE  Launched
<1>1. ASSUME NEW p \in Proc, Step(p) PROVE Launched
  <2>1. Launch(p)
    BY <1>1, StepWrites DEF Halt
  <2>. QED  BY <2>1 DEF Launch, Goto, Launched, SafeInv, TypeInv, TypeOK
<1>2. ASSUME NEW p \in Proc, Lock(p) \/ LoadFails(p) \/ Return(p) \/ Kill(p) PROVE FALSE
  BY <1>2 DEF Lock, LoadFails, Return, Kill
<1>3. ~Requests
  BY DEF Requests, Issue
<1>4. ~Env
  BY DEF Env, LanChange, StorageChange, Listen, Crash, Reboot
<1>. QED  BY <1>1, <1>2, <1>3, <1>4 DEF Next

(* A server that was stopped stays down, and config.conf says so, for as long *)
(* as nobody asks for it: whatever reconcile, kills, crashes and reboots do.  *)
THEOREM StopLasts == Spec => [](Off /\ []OnlyHarmless => []Off)
<1>. DEFINE Guarded == Launched => \/ cfg["ENABLED"] = "1"
                                   \/ \E p \in Proc : lock = p /\ op[p].cmd \in StartCommands
            Owned == \A k \in Key : cfg'[k] # cfg[k] =>
                         \E p \in Proc : lock = p /\ Entitled(op[p], k, cfg'[k])
<1>1. ASSUME SafeInv, [Next]_vars, Guarded, Owned, Off, OnlyHarmless PROVE Off'
  <2>0. /\ "ENABLED" \in Key
        /\ \A p \in Proc : p # Free
        /\ {"start", "restart"} \subseteq StartCommands
    BY ProcAssumption DEF Key, Flag, StartCommands
  <2>1. smbd' = NoSmbd
    BY <1>1, <2>0, OnlyLaunched DEF Off, OnlyHarmless, Harmless
  <2>2. cfg'["ENABLED"] # "1"
    BY <1>1, <2>0 DEF Off, OnlyHarmless, Harmless, Entitled
  <2>. QED  BY <2>1, <2>2 DEF Off
<1>. HIDE DEF Guarded, Owned
<1>2. Spec => [][Guarded /\ Owned]_vars
  BY StopSticksHolds, KeysKeptHolds, PTL DEF StopSticks, KeysKept, Guarded, Owned
<1>3. Off /\ UNCHANGED vars => Off'
  BY DEF Off
<1>. QED  BY <1>1, <1>2, <1>3, Safe, PTL DEF Spec

===============================================================================
