-------------------------- MODULE JobSchedulerProofs --------------------------
(***************************************************************************)
(* Proofs about JobScheduler, for any callers, workers, names and groups.  *)
(***************************************************************************)
EXTENDS JobScheduler, TLAPS

\* The labels of a call.
Labels == {"check", "put", "build", "schedule", "scheduleOnce", "unregister"}

\* The fields of a call under way.
LEMMA CallTypes ==
  ASSUME TypeOK, NEW c \in Callers, call[c] # NoCall
  PROVE  /\ call[c] \in Calls /\ call[c].op \in Ops /\ call[c].keys \subseteq Keys
         /\ call[c].kinds \subseteq {"cron", "once"} /\ call[c].allow \in BOOLEAN
         /\ call[c].pc \in Labels
  BY DEF TypeOK, Calls, Labels

\* A call goes on.
LEMMA CallGoes ==
  ASSUME TypeOK, NEW c \in Callers, call[c] # NoCall, NEW label \in Labels, Goto(c, label)
  PROVE  /\ call' \in [Callers -> Calls \cup {NoCall}]
         /\ call'[c] # NoCall /\ call'[c].pc = label
         /\ call'[c].op = call[c].op /\ call'[c].keys = call[c].keys
         /\ \A d \in Callers \ {c} : call'[d] = call[d]
<1>1. call[c] \in Calls /\ call \in [Callers -> Calls \cup {NoCall}] BY CallTypes DEF TypeOK
<1>2. PICK r : r = [call[c] EXCEPT !.pc = label] OBVIOUS
<1>3. /\ r \in Calls /\ r.pc = label /\ r.op = call[c].op /\ r.keys = call[c].keys
      /\ call' = [call EXCEPT ![c] = r]
  BY <1>1, <1>2 DEF Goto, Calls, Labels
<1>4. r # NoCall BY <1>3, ConstantsAssumption
<1>5. QED BY <1>1, <1>3, <1>4

\* A call returns.
LEMMA CallReturns ==
  ASSUME TypeOK, NEW c \in Callers, Return(c)
  PROVE  /\ call' \in [Callers -> Calls \cup {NoCall}] /\ call'[c] = NoCall
         /\ \A d \in Callers \ {c} : call'[d] = call[d]
  BY DEF TypeOK, Return

\* The only key of a registration or a deletion.
LEMMA OneKey ==
  ASSUME TypeOK, StageInv, NEW c \in Callers, call[c] # NoCall, call[c].op # "resumeAll"
  PROVE  /\ KeyOf(c) \in Keys /\ call[c].keys = {KeyOf(c)}
         /\ \A k \in call[c].keys : k = KeyOf(c)
<1>1. PICK k \in Keys : call[c].keys = {k} BY DEF StageInv, Stage
<1>2. KeyOf(c) = k BY <1>1 DEF KeyOf
<1>3. QED BY <1>1, <1>2

\* A job has triggers when one of them is not "none".
LEMMA SomeTrigger ==
  ASSUME TypeOK, NEW k \in Keys
  PROVE  /\ trig[k] \in [Kinds -> TriggerStates]
         /\ trig[k] # NoTriggers <=> \E i \in Kinds : trig[k][i] # "none"
<1>1. trig[k] \in [Kinds -> TriggerStates] BY DEF TypeOK
<1>2. QED BY <1>1 DEF NoTriggers

\* Nothing is scheduled at first.
LEMMA InitIInv == Init => IInv
<1> SUFFICES ASSUME Init PROVE IInv
  OBVIOUS
<1>1. NoTriggers \in [Kinds -> TriggerStates] BY DEF NoTriggers, TriggerStates
<1>2. TypeOK BY <1>1 DEF Init, TypeOK
<1>3. OverlapInv /\ StageInv /\ RegistryMatchesSchedule
  BY DEF Init, OverlapInv, StageInv, Stage, RegistryMatchesSchedule
<1>4. QED BY <1>2, <1>3 DEF IInv

-----------------------------------------------------------------------------
(* The Quartz store.                                                       *)

\* A job that gets triggers, or keeps what it has.
LEMMA TriggersJoin ==
  ASSUME TypeOK, NEW k \in Keys, NEW kinds \in SUBSET Kinds, trig' = WithTriggers(k, kinds)
  PROVE  /\ trig' \in [Keys -> [Kinds -> TriggerStates]]
         /\ \A j \in Keys \ {k} : trig'[j] = trig[j]
<1>1. trig \in [Keys -> [Kinds -> TriggerStates]] BY DEF TypeOK
<1>2. [i \in Kinds |-> IF i \in kinds THEN IF groupPaused THEN "paused" ELSE "waiting"
                                      ELSE trig[k][i]] \in [Kinds -> TriggerStates]
  BY <1>1 DEF TriggerStates
<1>3. QED BY <1>1, <1>2 DEF WithTriggers

\* Pausing and resuming leave the jobs without triggers alone.
LEMMA TriggersShift ==
  ASSUME TypeOK, NEW keys, NEW from, NEW to \in TriggerStates, from # "none", trig' = Shift(keys, from, to)
  PROVE  /\ trig' \in [Keys -> [Kinds -> TriggerStates]]
         /\ \A k \in Keys : trig'[k] # NoTriggers => trig[k] # NoTriggers
<1>1. trig \in [Keys -> [Kinds -> TriggerStates]] BY DEF TypeOK
<1>2. trig' \in [Keys -> [Kinds -> TriggerStates]]
  <2>1. ASSUME NEW k \in Keys, NEW i \in Kinds
        PROVE  (IF k \in keys /\ trig[k][i] = from THEN to ELSE trig[k][i]) \in TriggerStates
    BY <1>1
  <2>2. QED BY <2>1 DEF Shift
<1>3. ASSUME NEW k \in Keys, trig[k] = NoTriggers PROVE trig'[k] = NoTriggers
  <2>1. \A i \in Kinds : trig[k][i] = "none" BY <1>3 DEF NoTriggers
  <2>2. \A i \in Kinds : trig'[k][i] = "none" BY <2>1 DEF Shift
  <2>3. trig'[k] \in [Kinds -> TriggerStates] BY <1>2
  <2>4. QED BY <2>2, <2>3 DEF NoTriggers
<1>4. QED BY <1>2, <1>3

-----------------------------------------------------------------------------
(* Steps that leave registry and jobs as they are.                         *)

\* What a step of one call keeps for the others.
LEMMA OthersStay ==
  ASSUME IInv, NEW c \in Callers, \A d \in Callers \ {c} : call'[d] = call[d],
         call'[c] = NoCall \/ (/\ call[c] # NoCall /\ call'[c].op = call[c].op
                               /\ call'[c].keys = call[c].keys),
         UNCHANGED contended,
         \A k \in Keys \ contended : detail[k] = NoJob /\ detail'[k] # NoJob
            => call[c] # NoCall /\ k \in call[c].keys /\ call[c].op \in Registrations,
         \A k \in Keys \ contended : tasks'[k] # tasks[k]
            => call[c] # NoCall /\ k \in call[c].keys
  PROVE  OverlapInv' /\ \A d \in Callers \ {c} : Stage(d)'
<1>1. OverlapInv' BY DEF IInv, OverlapInv
<1>2. ASSUME NEW d \in Callers \ {c}, call[d] # NoCall PROVE Stage(d)'
  <2>1. call'[d] = call[d] /\ call[d].keys \subseteq Keys BY <1>2, CallTypes DEF IInv
  <2>2. FoundFree(d)' <=> FoundFree(d) BY <2>1 DEF FoundFree
  <2>3. IF call[d].op = "resumeAll" THEN call[d].keys = Keys
                                    ELSE \E k \in Keys : call[d].keys = {k}
    BY <1>2 DEF IInv, StageInv, Stage
  <2>4. ASSUME NEW k \in call[d].keys \ contended
        PROVE  /\ FoundFree(d) => detail'[k] = NoJob
               /\ call[d].op \in Registrations /\ call[d].pc \in {"build", "schedule", "scheduleOnce"}
                     => tasks'[k] = d
    <3>1. /\ FoundFree(d) => detail[k] = NoJob
          /\ call[d].op \in Registrations /\ call[d].pc \in {"build", "schedule", "scheduleOnce"}
                => tasks[k] = d
      BY <1>2, <2>4 DEF IInv, StageInv, Stage
    <3>2. call[d].op \in Registrations \/ call[c].op \in Registrations
            => ~(call[c] # NoCall /\ k \in call[c].keys)
      BY <1>2, <2>4 DEF IInv, OverlapInv
    <3>3. QED BY <2>1, <3>1, <3>2
  <2>5. QED BY <1>2, <2>1, <2>2, <2>3, <2>4 DEF Stage
<1>3. ASSUME NEW d \in Callers \ {c}, call[d] = NoCall PROVE Stage(d)'
  BY <1>3 DEF Stage
<1>4. QED BY <1>1, <1>2, <1>3

\* Firings, pausing and resuming: a job may go, and that is all.
LEMMA SchedulerStep ==
  ASSUME IInv, UNCHANGED <<call, tasks, contended, cleared>>,
         \A k \in Keys : detail'[k] \in {NoJob, detail[k]}
  PROVE  OverlapInv' /\ StageInv' /\ RegistryMatchesSchedule'
<1>1. OverlapInv' BY DEF IInv, OverlapInv
<1>2. ASSUME NEW c \in Callers PROVE Stage(c)'
  <2>1. FoundFree(c)' <=> FoundFree(c) BY DEF FoundFree
  <2>2. call[c] # NoCall => call[c].keys \subseteq Keys BY CallTypes DEF IInv
  <2>3. QED BY <2>1, <2>2 DEF IInv, StageInv, Stage
<1>3. RegistryMatchesSchedule' BY DEF IInv, RegistryMatchesSchedule
<1>4. QED BY <1>1, <1>2, <1>3 DEF StageInv

\* One key gets a job with a detail of its own.
LEMMA JobStored ==
  ASSUME TypeOK, NEW k \in Keys, NEW d \in Details, NEW kinds \in SUBSET Kinds,
         detail' = [detail EXCEPT ![k] = d], trig' = WithTriggers(k, kinds)
  PROVE  /\ detail' \in [Keys -> Details \cup {NoJob}] /\ detail'[k] = d /\ d # NoJob
         /\ \A j \in Keys \ {k} : detail'[j] = detail[j]
         /\ trig' \in [Keys -> [Kinds -> TriggerStates]]
         /\ \A j \in Keys : trig'[j] # NoTriggers => detail'[j] # NoJob
<1>1. /\ detail' \in [Keys -> Details \cup {NoJob}] /\ detail'[k] = d /\ d # NoJob
      /\ \A j \in Keys \ {k} : detail'[j] = detail[j]
  BY ConstantsAssumption DEF TypeOK
<1>2. /\ trig' \in [Keys -> [Kinds -> TriggerStates]]
      /\ \A j \in Keys \ {k} : trig'[j] = trig[j]
  BY TriggersJoin
<1>3. QED BY <1>1, <1>2 DEF TypeOK

-----------------------------------------------------------------------------
(* Calls.                                                                  *)

\* The keys that callers name.
LEMMA KeysOfNames ==
  ASSUME NEW n \in Names, NEW g \in Groups \cup {NoGroup}
  PROVE  ProviderKey(n, g) \in Keys /\ QuartzKey(n, g) \in Keys
  BY DEF ProviderKey, QuartzKey, Keys, AllGroups

\* A call that begins is noted where it overlaps others.
LEMMA BeginIInv ==
  ASSUME IInv, NEW c \in Callers, NEW op \in Ops, NEW keys \in SUBSET Keys,
         NEW kinds \in SUBSET {"cron", "once"}, NEW allow \in BOOLEAN,
         NEW label \in {"check", "schedule"}, op \in {"cron", "once"} => label = "check",
         IF op = "resumeAll" THEN keys = Keys ELSE \E k \in Keys : keys = {k},
         op \in Registrations => label = "check",
         Begin(c, op, keys, kinds, allow, label)
  PROVE  IInv'
<1>1. PICK r : r = [op |-> op, keys |-> keys, kinds |-> kinds, allow |-> allow, pc |-> label]
  OBVIOUS
<1>2. /\ r \in Calls /\ r.op = op /\ r.keys = keys /\ r.pc = label
      /\ call[c] = NoCall /\ call' = [call EXCEPT ![c] = r]
      /\ contended' = contended \cup
            {k \in keys : \E d \in Callers \ {c} :
                /\ call[d] # NoCall /\ k \in call[d].keys
                /\ {op, call[d].op} \cap Registrations # {}}
      /\ cleared' = cleared \ contended'
      /\ UNCHANGED <<tasks, detail, trig, groupPaused, run>>
  BY <1>1 DEF Begin, Calls, quartz
<1>3. /\ call' \in [Callers -> Calls \cup {NoCall}] /\ call'[c] = r /\ r # NoCall
      /\ \A d \in Callers \ {c} : call'[d] = call[d]
  BY <1>2, ConstantsAssumption DEF IInv, TypeOK
<1>4. TypeOK' BY <1>2, <1>3 DEF IInv, TypeOK
<1>5. contended \subseteq contended' BY <1>2
<1>6. OverlapInv'
  <2> SUFFICES ASSUME NEW a \in Callers, NEW b \in Callers, a # b, call'[a] # NoCall, call'[b] # NoCall,
                      call'[a].op \in Registrations,
                      NEW k \in call'[a].keys \cap call'[b].keys
               PROVE  k \in contended'
    BY DEF OverlapInv
  <2>1. CASE a = c BY <1>2, <1>3, <2>1
  <2>2. CASE b = c BY <1>2, <1>3, <2>2
  <2>3. CASE a # c /\ b # c BY <1>3, <1>5, <2>3 DEF IInv, OverlapInv
  <2>4. QED BY <2>1, <2>2, <2>3
<1>7. StageInv'
  <2>1. Stage(c)' BY <1>2, <1>3 DEF Stage, FoundFree, Registrations
  <2>2. ASSUME NEW d \in Callers \ {c} PROVE Stage(d)'
    <3>1. call'[d] = call[d] /\ (FoundFree(d)' <=> FoundFree(d)) BY <1>3 DEF FoundFree
    <3>2. QED BY <1>2, <1>5, <3>1 DEF IInv, StageInv, Stage
  <2>3. QED BY <2>1, <2>2 DEF StageInv
<1>8. RegistryMatchesSchedule' BY <1>2, <1>5 DEF IInv, RegistryMatchesSchedule
<1>9. QED BY <1>4, <1>6, <1>7, <1>8 DEF IInv

\* A registration alone on its key finds it free, or leaves everything as it is.
LEMMA CheckExistsIInv ==
  ASSUME IInv, NEW c \in Callers, CheckExists(c)
  PROVE  IInv'
<1>1. /\ call[c] # NoCall /\ call[c].op \in Registrations /\ call[c].pc = "check"
      /\ UNCHANGED <<tasks, detail, trig, groupPaused, run, contended, cleared>>
  BY DEF CheckExists, InCall, quartz, history
<1>2. call[c].keys = {KeyOf(c)} BY <1>1, OneKey DEF IInv, Registrations
<1>3. CASE detail[KeyOf(c)] = NoJob /\ Goto(c, "put")
  <2>1. /\ call' \in [Callers -> Calls \cup {NoCall}]
        /\ call'[c] # NoCall /\ call'[c].pc = "put"
        /\ call'[c].op = call[c].op /\ call'[c].keys = call[c].keys
        /\ \A d \in Callers \ {c} : call'[d] = call[d]
    BY <1>1, <1>3, CallGoes DEF IInv, Labels
  <2>2. TypeOK' BY <1>1, <2>1 DEF IInv, TypeOK
  <2>3. OverlapInv' /\ \A d \in Callers \ {c} : Stage(d)' BY <1>1, <2>1, OthersStay
  <2>4. Stage(c)' BY <1>1, <1>2, <1>3, <2>1 DEF IInv, StageInv, Stage
  <2>5. RegistryMatchesSchedule' BY <1>1 DEF IInv, RegistryMatchesSchedule
  <2>6. QED BY <2>2, <2>3, <2>4, <2>5 DEF IInv, StageInv
<1>4. CASE Return(c)
  <2>1. /\ call' \in [Callers -> Calls \cup {NoCall}] /\ call'[c] = NoCall
        /\ \A d \in Callers \ {c} : call'[d] = call[d]
    BY <1>4, CallReturns DEF IInv
  <2>2. TypeOK' BY <1>1, <2>1 DEF IInv, TypeOK
  <2>3. OverlapInv' /\ \A d \in Callers \ {c} : Stage(d)' BY <1>1, <2>1, OthersStay
  <2>4. Stage(c)' BY <2>1 DEF Stage
  <2>5. RegistryMatchesSchedule' BY <1>1 DEF IInv, RegistryMatchesSchedule
  <2>6. QED BY <2>2, <2>3, <2>4, <2>5 DEF IInv, StageInv
<1>5. QED BY <1>3, <1>4 DEF CheckExists

\* The task of a registration alone on its key replaces no scheduled one.
LEMMA PutTaskIInv ==
  ASSUME IInv, NEW c \in Callers, PutTask(c)
  PROVE  IInv'
<1>1. /\ call[c] # NoCall /\ call[c].op \in Registrations /\ call[c].pc = "put" /\ Goto(c, "build")
      /\ tasks' = [tasks EXCEPT ![KeyOf(c)] = c]
      /\ UNCHANGED <<detail, trig, groupPaused, run, contended, cleared>>
  BY DEF PutTask, InCall, quartz, history
<1>2. PICK k \in Keys : k = KeyOf(c) /\ call[c].keys = {k}
  BY <1>1, OneKey DEF IInv, Registrations
<1>3. /\ call' \in [Callers -> Calls \cup {NoCall}]
      /\ call'[c] # NoCall /\ call'[c].pc = "build"
      /\ call'[c].op = call[c].op /\ call'[c].keys = call[c].keys
      /\ \A d \in Callers \ {c} : call'[d] = call[d]
  BY <1>1, CallGoes DEF IInv, Labels
<1>4. /\ tasks' \in [Keys -> Callers \cup {NoTask}] /\ tasks'[k] = c
      /\ \A j \in Keys \ {k} : tasks'[j] = tasks[j]
  BY <1>1, <1>2 DEF IInv, TypeOK
<1>5. TypeOK' BY <1>1, <1>3, <1>4 DEF IInv, TypeOK
<1>6. OverlapInv' /\ \A d \in Callers \ {c} : Stage(d)' BY <1>1, <1>2, <1>3, <1>4, OthersStay
<1>7. k \notin contended => detail[k] = NoJob
  BY <1>1, <1>2 DEF IInv, StageInv, Stage, FoundFree
<1>8. Stage(c)' BY <1>1, <1>2, <1>3, <1>4, <1>7 DEF Stage, FoundFree, Registrations
<1>9. RegistryMatchesSchedule' BY <1>1, <1>4, <1>7 DEF IInv, RegistryMatchesSchedule
<1>10. QED BY <1>5, <1>6, <1>8, <1>9 DEF IInv, StageInv

\* The triggers are built, or the call ends with its task left behind.
LEMMA BuildTriggersIInv ==
  ASSUME IInv, NEW c \in Callers, BuildTriggers(c)
  PROVE  IInv'
<1>1. /\ call[c] # NoCall /\ call[c].op \in Registrations /\ call[c].pc = "build"
      /\ UNCHANGED <<tasks, detail, trig, groupPaused, run, contended, cleared>>
  BY DEF BuildTriggers, InCall, quartz, history
<1>2. CASE Goto(c, "schedule")
  <2>1. /\ call' \in [Callers -> Calls \cup {NoCall}]
        /\ call'[c] # NoCall /\ call'[c].pc = "schedule"
        /\ call'[c].op = call[c].op /\ call'[c].keys = call[c].keys
        /\ \A d \in Callers \ {c} : call'[d] = call[d]
    BY <1>1, <1>2, CallGoes DEF IInv, Labels
  <2>2. TypeOK' BY <1>1, <2>1 DEF IInv, TypeOK
  <2>3. OverlapInv' /\ \A d \in Callers \ {c} : Stage(d)' BY <1>1, <2>1, OthersStay
  <2>4. Stage(c)' BY <1>1, <2>1 DEF IInv, StageInv, Stage, FoundFree, Registrations
  <2>5. RegistryMatchesSchedule' BY <1>1 DEF IInv, RegistryMatchesSchedule
  <2>6. QED BY <2>2, <2>3, <2>4, <2>5 DEF IInv, StageInv
<1>3. CASE Return(c)
  <2>1. /\ call' \in [Callers -> Calls \cup {NoCall}] /\ call'[c] = NoCall
        /\ \A d \in Callers \ {c} : call'[d] = call[d]
    BY <1>3, CallReturns DEF IInv
  <2>2. TypeOK' BY <1>1, <2>1 DEF IInv, TypeOK
  <2>3. OverlapInv' /\ \A d \in Callers \ {c} : Stage(d)' BY <1>1, <2>1, OthersStay
  <2>4. Stage(c)' BY <2>1 DEF Stage
  <2>5. RegistryMatchesSchedule' BY <1>1 DEF IInv, RegistryMatchesSchedule
  <2>6. QED BY <2>2, <2>3, <2>4, <2>5 DEF IInv, StageInv
<1>4. QED BY <1>2, <1>3 DEF BuildTriggers

\* A registration that schedules brings the detail of its own task, which is
\* in the registry when the call is alone on its key.
LEMMA ScheduleIInv ==
  ASSUME IInv, NEW c \in Callers, Schedule(c)
  PROVE  IInv'
<1>1. /\ call[c] # NoCall /\ call[c].op \in {"cron", "once"} /\ call[c].pc = "schedule" /\ Return(c)
      /\ UNCHANGED <<tasks, groupPaused, run, contended>>
  BY DEF Schedule, InCall
<1>2. PICK k \in Keys : k = KeyOf(c) /\ call[c].keys = {k} BY <1>1, OneKey DEF IInv
<1>3. /\ call' \in [Callers -> Calls \cup {NoCall}] /\ call'[c] = NoCall
      /\ \A d \in Callers \ {c} : call'[d] = call[d]
  BY <1>1, CallReturns DEF IInv
<1>4. Stage(c)' BY <1>3 DEF Stage
<1>5. call[c].allow \in BOOLEAN /\ call[c].kinds \in SUBSET Kinds
  BY <1>1, CallTypes DEF IInv, Kinds
<1>6. CASE UNCHANGED <<detail, trig, cleared>>
  <2>1. TypeOK' BY <1>1, <1>3, <1>6 DEF IInv, TypeOK
  <2>2. OverlapInv' /\ \A d \in Callers \ {c} : Stage(d)' BY <1>1, <1>3, <1>6, OthersStay
  <2>3. RegistryMatchesSchedule' BY <1>1, <1>6 DEF IInv, RegistryMatchesSchedule
  <2>4. QED BY <1>4, <2>1, <2>2, <2>3 DEF IInv, StageInv
<1>7. CASE ~UNCHANGED <<detail, trig, cleared>>
  <2>1. PICK r : r = [type |-> call[c].op, allow |-> call[c].op = "cron" /\ call[c].allow, task |-> c]
    OBVIOUS
  <2>2. r \in Details /\ r.task = c BY <1>1, <1>5, <2>1 DEF Details
  <2>3. /\ detail' = [detail EXCEPT ![k] = r] /\ trig' = WithTriggers(k, call[c].kinds)
        /\ cleared' = cleared \ {k}
    BY <1>2, <1>7, <2>1 DEF Schedule
  <2>4. /\ detail' \in [Keys -> Details \cup {NoJob}] /\ detail'[k] = r
        /\ \A j \in Keys \ {k} : detail'[j] = detail[j]
        /\ trig' \in [Keys -> [Kinds -> TriggerStates]]
        /\ \A j \in Keys : trig'[j] # NoTriggers => detail'[j] # NoJob
    BY <1>5, <2>2, <2>3, JobStored DEF IInv
  <2>5. TypeOK' BY <1>1, <1>3, <2>3, <2>4 DEF IInv, TypeOK
  <2>6. OverlapInv' /\ \A d \in Callers \ {c} : Stage(d)'
    BY <1>1, <1>2, <1>3, <2>4, OthersStay DEF Registrations
  <2>7. k \notin contended => tasks[k] = c
    BY <1>1, <1>2 DEF IInv, StageInv, Stage, Registrations
  <2>8. RegistryMatchesSchedule'
    BY <1>1, <2>2, <2>3, <2>4, <2>7 DEF IInv, RegistryMatchesSchedule
  <2>9. QED BY <1>4, <2>5, <2>6, <2>8 DEF IInv, StageInv
<1>8. QED BY <1>6, <1>7

\* The first half of a combined job brings its own task ...
LEMMA ScheduleCronIInv ==
  ASSUME IInv, NEW c \in Callers, ScheduleCron(c)
  PROVE  IInv'
<1>1. /\ call[c] # NoCall /\ call[c].op = "both" /\ call[c].pc = "schedule"
      /\ Goto(c, "scheduleOnce")
      /\ UNCHANGED <<tasks, groupPaused, run, contended>>
  BY DEF ScheduleCron, InCall
<1>2. PICK k \in Keys : k = KeyOf(c) /\ call[c].keys = {k} BY <1>1, OneKey DEF IInv
<1>3. /\ call' \in [Callers -> Calls \cup {NoCall}]
      /\ call'[c] # NoCall /\ call'[c].pc = "scheduleOnce"
      /\ call'[c].op = call[c].op /\ call'[c].keys = call[c].keys
      /\ \A d \in Callers \ {c} : call'[d] = call[d]
  BY <1>1, CallGoes DEF IInv, Labels
<1>4. call[c].allow \in BOOLEAN BY <1>1, CallTypes DEF IInv
<1>5. PICK kinds \in SUBSET Kinds : kinds = call[c].kinds \cap {"cron"} BY DEF Kinds
<1>6. PICK r : r = [type |-> "cron", allow |-> call[c].allow, task |-> c] OBVIOUS
<1>7. r \in Details /\ r.task = c BY <1>4, <1>6 DEF Details
<1>8. /\ detail' = [detail EXCEPT ![k] = r] /\ trig' = WithTriggers(k, kinds)
      /\ cleared' = cleared \ {k}
  BY <1>2, <1>5, <1>6 DEF ScheduleCron
<1>9. /\ detail' \in [Keys -> Details \cup {NoJob}] /\ detail'[k] = r
      /\ \A j \in Keys \ {k} : detail'[j] = detail[j]
      /\ trig' \in [Keys -> [Kinds -> TriggerStates]]
      /\ \A j \in Keys : trig'[j] # NoTriggers => detail'[j] # NoJob
  BY <1>7, <1>8, JobStored DEF IInv
<1>10. TypeOK' BY <1>1, <1>3, <1>8, <1>9 DEF IInv, TypeOK
<1>11. OverlapInv' /\ \A d \in Callers \ {c} : Stage(d)'
  BY <1>1, <1>2, <1>3, <1>9, OthersStay DEF Registrations
<1>12. k \notin contended => tasks[k] = c
  BY <1>1, <1>2 DEF IInv, StageInv, Stage, Registrations
<1>13. RegistryMatchesSchedule'
  BY <1>1, <1>7, <1>8, <1>9, <1>12 DEF IInv, RegistryMatchesSchedule
<1>14. Stage(c)' BY <1>1, <1>2, <1>3, <1>12 DEF Stage, FoundFree
<1>15. QED BY <1>10, <1>11, <1>13, <1>14 DEF IInv, StageInv

\* ... and so does the second half.
LEMMA ScheduleOnceIInv ==
  ASSUME IInv, NEW c \in Callers, ScheduleOnce(c)
  PROVE  IInv'
<1>1. /\ call[c] # NoCall /\ call[c].op = "both" /\ call[c].pc = "scheduleOnce" /\ Return(c)
      /\ UNCHANGED <<tasks, groupPaused, run, contended, cleared>>
  BY DEF ScheduleOnce, InCall, history
<1>2. PICK k \in Keys : k = KeyOf(c) /\ call[c].keys = {k} BY <1>1, OneKey DEF IInv
<1>3. /\ call' \in [Callers -> Calls \cup {NoCall}] /\ call'[c] = NoCall
      /\ \A d \in Callers \ {c} : call'[d] = call[d]
  BY <1>1, CallReturns DEF IInv
<1>4. PICK kinds \in SUBSET Kinds : kinds = call[c].kinds \cap {"once"} BY DEF Kinds
<1>5. PICK r : r = [type |-> "once", allow |-> FALSE, task |-> c] OBVIOUS
<1>6. r \in Details /\ r.task = c BY <1>5 DEF Details
<1>7. detail' = [detail EXCEPT ![k] = r] /\ trig' = WithTriggers(k, kinds)
  BY <1>2, <1>4, <1>5 DEF ScheduleOnce
<1>8. /\ detail' \in [Keys -> Details \cup {NoJob}] /\ detail'[k] = r
      /\ \A j \in Keys \ {k} : detail'[j] = detail[j]
      /\ trig' \in [Keys -> [Kinds -> TriggerStates]]
      /\ \A j \in Keys : trig'[j] # NoTriggers => detail'[j] # NoJob
  BY <1>6, <1>7, JobStored DEF IInv
<1>9. TypeOK' BY <1>1, <1>3, <1>8 DEF IInv, TypeOK
<1>10. OverlapInv' /\ \A d \in Callers \ {c} : Stage(d)'
  BY <1>1, <1>2, <1>3, <1>8, OthersStay DEF Registrations
<1>11. k \notin contended => tasks[k] = c
  BY <1>1, <1>2 DEF IInv, StageInv, Stage, Registrations
<1>12. RegistryMatchesSchedule'
  BY <1>1, <1>6, <1>8, <1>11 DEF IInv, RegistryMatchesSchedule
<1>13. Stage(c)' BY <1>3 DEF Stage
<1>14. QED BY <1>9, <1>10, <1>12, <1>13 DEF IInv, StageInv

\* A call that Quartz fails ends, and leaves what it did before.
LEMMA QuartzThrowsIInv ==
  ASSUME IInv, NEW c \in Callers, QuartzThrows(c)
  PROVE  IInv'
<1>1. Return(c) /\ UNCHANGED <<tasks, detail, trig, groupPaused, run, contended, cleared>>
  BY DEF QuartzThrows, quartz, history
<1>2. /\ call' \in [Callers -> Calls \cup {NoCall}] /\ call'[c] = NoCall
      /\ \A d \in Callers \ {c} : call'[d] = call[d]
  BY <1>1, CallReturns DEF IInv
<1>3. TypeOK' BY <1>1, <1>2 DEF IInv, TypeOK
<1>4. OverlapInv' /\ \A d \in Callers \ {c} : Stage(d)' BY <1>1, <1>2, OthersStay
<1>5. Stage(c)' BY <1>2 DEF Stage
<1>6. RegistryMatchesSchedule' BY <1>1 DEF IInv, RegistryMatchesSchedule
<1>7. QED BY <1>3, <1>4, <1>5, <1>6 DEF IInv, StageInv

\* A deletion takes the triggers of the job ...
LEMMA UnscheduleTriggerIInv ==
  ASSUME IInv, NEW c \in Callers, UnscheduleTrigger(c)
  PROVE  IInv'
<1>1. /\ call[c] # NoCall /\ call[c].op = "delete"
      /\ UNCHANGED <<tasks, groupPaused, run, call, contended, cleared>>
  BY DEF UnscheduleTrigger, InCall, history
<1>2. PICK k \in Keys : k = KeyOf(c) BY <1>1, OneKey DEF IInv
<1>3. PICK i \in Kinds :
        /\ trig[k][i] # "none"
        /\ trig' = [trig EXCEPT ![k] = [trig[k] EXCEPT ![i] = "none"]]
        /\ detail' = IF [trig[k] EXCEPT ![i] = "none"] = NoTriggers
                     THEN [detail EXCEPT ![k] = NoJob] ELSE detail
  BY <1>2 DEF UnscheduleTrigger
<1> DEFINE left == [trig[k] EXCEPT ![i] = "none"]
<1>4. left \in [Kinds -> TriggerStates] BY <1>3 DEF IInv, TypeOK, TriggerStates
<1>5. detail[k] # NoJob BY <1>3, SomeTrigger DEF IInv, TypeOK
<1>6. /\ trig' \in [Keys -> [Kinds -> TriggerStates]]
      /\ detail' \in [Keys -> Details \cup {NoJob}]
      /\ \A j \in Keys : detail'[j] \in {NoJob, detail[j]}
      /\ \A j \in Keys : trig'[j] # NoTriggers => detail'[j] # NoJob
  BY <1>3, <1>4, <1>5 DEF IInv, TypeOK
<1>7. TypeOK' BY <1>1, <1>6 DEF IInv, TypeOK
<1>8. OverlapInv' /\ StageInv' /\ RegistryMatchesSchedule' BY <1>1, <1>6, SchedulerStep
<1>9. QED BY <1>7, <1>8 DEF IInv

\* ... and the job itself out of the scheduler ...
LEMMA UnscheduleIInv ==
  ASSUME IInv, NEW c \in Callers, Unschedule(c)
  PROVE  IInv'
<1>1. /\ call[c] # NoCall /\ call[c].op = "delete" /\ call[c].pc = "schedule"
      /\ Goto(c, "unregister")
      /\ detail' = [detail EXCEPT ![KeyOf(c)] = NoJob]
      /\ trig' = [trig EXCEPT ![KeyOf(c)] = NoTriggers]
      /\ UNCHANGED <<tasks, groupPaused, run, contended, cleared>>
  BY DEF Unschedule, InCall, history
<1>2. PICK k \in Keys : k = KeyOf(c) /\ call[c].keys = {k} BY <1>1, OneKey DEF IInv
<1>3. /\ call' \in [Callers -> Calls \cup {NoCall}]
      /\ call'[c] # NoCall /\ call'[c].pc = "unregister"
      /\ call'[c].op = call[c].op /\ call'[c].keys = call[c].keys
      /\ \A d \in Callers \ {c} : call'[d] = call[d]
  BY <1>1, CallGoes DEF IInv, Labels
<1>4. NoTriggers \in [Kinds -> TriggerStates] BY DEF NoTriggers, TriggerStates
<1>5. /\ detail' \in [Keys -> Details \cup {NoJob}] /\ detail'[k] = NoJob
      /\ \A j \in Keys \ {k} : detail'[j] = detail[j]
      /\ trig' \in [Keys -> [Kinds -> TriggerStates]] /\ trig'[k] = NoTriggers
      /\ \A j \in Keys \ {k} : trig'[j] = trig[j]
  BY <1>1, <1>2, <1>4 DEF IInv, TypeOK
<1>6. TypeOK' BY <1>1, <1>3, <1>5 DEF IInv, TypeOK
<1>7. OverlapInv' /\ \A d \in Callers \ {c} : Stage(d)' BY <1>1, <1>3, <1>5, OthersStay
<1>8. Stage(c)' BY <1>1, <1>2, <1>3, <1>5 DEF Stage, Registrations
<1>9. RegistryMatchesSchedule' BY <1>1, <1>5 DEF IInv, RegistryMatchesSchedule
<1>10. QED BY <1>6, <1>7, <1>8, <1>9 DEF IInv, StageInv

\* ... and then its task out of the registry: alone on the key, no other job
\* has come in between.
LEMMA RemoveTaskIInv ==
  ASSUME IInv, NEW c \in Callers, RemoveTask(c)
  PROVE  IInv'
<1>1. /\ call[c] # NoCall /\ call[c].op = "delete" /\ call[c].pc = "unregister" /\ Return(c)
      /\ tasks' = [tasks EXCEPT ![KeyOf(c)] = NoTask]
      /\ UNCHANGED <<detail, trig, groupPaused, run, contended, cleared>>
  BY DEF RemoveTask, InCall, quartz, history
<1>2. PICK k \in Keys : k = KeyOf(c) /\ call[c].keys = {k} BY <1>1, OneKey DEF IInv
<1>3. /\ call' \in [Callers -> Calls \cup {NoCall}] /\ call'[c] = NoCall
      /\ \A d \in Callers \ {c} : call'[d] = call[d]
  BY <1>1, CallReturns DEF IInv
<1>4. /\ tasks' \in [Keys -> Callers \cup {NoTask}]
      /\ \A j \in Keys \ {k} : tasks'[j] = tasks[j]
  BY <1>1, <1>2 DEF IInv, TypeOK
<1>5. TypeOK' BY <1>1, <1>3, <1>4 DEF IInv, TypeOK
<1>6. OverlapInv' /\ \A d \in Callers \ {c} : Stage(d)' BY <1>1, <1>2, <1>3, <1>4, OthersStay
<1>7. k \notin contended => detail[k] = NoJob
  BY <1>1, <1>2 DEF IInv, StageInv, Stage, FoundFree
<1>8. RegistryMatchesSchedule' BY <1>1, <1>4, <1>7 DEF IInv, RegistryMatchesSchedule
<1>9. Stage(c)' BY <1>3 DEF Stage
<1>10. QED BY <1>5, <1>6, <1>8, <1>9 DEF IInv, StageInv

\* resumeAllJob resumes every trigger ...
LEMMA ResumeAllIInv ==
  ASSUME IInv, NEW c \in Callers, ResumeAll(c)
  PROVE  IInv'
<1>1. /\ call[c] # NoCall /\ call[c].op = "resumeAll" /\ call[c].pc = "schedule"
      /\ Goto(c, "unregister")
      /\ trig' = Shift(Keys, "paused", "waiting") /\ groupPaused' = FALSE
      /\ UNCHANGED <<tasks, detail, run, contended, cleared>>
  BY DEF ResumeAll, InCall, history
<1>2. /\ call' \in [Callers -> Calls \cup {NoCall}]
      /\ call'[c] # NoCall /\ call'[c].pc = "unregister"
      /\ call'[c].op = call[c].op /\ call'[c].keys = call[c].keys
      /\ \A d \in Callers \ {c} : call'[d] = call[d]
  BY <1>1, CallGoes DEF IInv, Labels
<1>3. /\ trig' \in [Keys -> [Kinds -> TriggerStates]]
      /\ \A k \in Keys : trig'[k] # NoTriggers => trig[k] # NoTriggers
  BY <1>1, TriggersShift DEF IInv, TriggerStates
<1>4. TypeOK' BY <1>1, <1>2, <1>3 DEF IInv, TypeOK
<1>5. OverlapInv' /\ \A d \in Callers \ {c} : Stage(d)' BY <1>1, <1>2, OthersStay
<1>6. Stage(c)' BY <1>1, <1>2 DEF IInv, StageInv, Stage, FoundFree, Registrations
<1>7. RegistryMatchesSchedule' BY <1>1 DEF IInv, RegistryMatchesSchedule
<1>8. QED BY <1>4, <1>5, <1>6, <1>7 DEF IInv, StageInv

\* ... and empties the registry: the jobs that stay scheduled are cleared,
\* and every registration under way shares its key with this call.
LEMMA RemoveAllTasksIInv ==
  ASSUME IInv, NEW c \in Callers, RemoveAllTasks(c)
  PROVE  IInv'
<1>1. /\ call[c] # NoCall /\ call[c].op = "resumeAll" /\ call[c].pc = "unregister" /\ Return(c)
      /\ tasks' = [k \in Keys |-> NoTask]
      /\ cleared' = {k \in Keys \ contended : detail[k] # NoJob}
      /\ UNCHANGED <<detail, trig, groupPaused, run, contended>>
  BY DEF RemoveAllTasks, InCall, quartz
<1>2. /\ call' \in [Callers -> Calls \cup {NoCall}] /\ call'[c] = NoCall
      /\ \A d \in Callers \ {c} : call'[d] = call[d]
  BY <1>1, CallReturns DEF IInv
<1>3. call[c].keys = Keys BY <1>1 DEF IInv, StageInv, Stage
<1>4. TypeOK' BY <1>1, <1>2 DEF IInv, TypeOK
<1>5. OverlapInv' /\ \A d \in Callers \ {c} : Stage(d)' BY <1>1, <1>2, <1>3, OthersStay
<1>6. Stage(c)' BY <1>2 DEF Stage
<1>7. RegistryMatchesSchedule' BY <1>1 DEF RegistryMatchesSchedule
<1>8. QED BY <1>4, <1>5, <1>6, <1>7 DEF IInv, StageInv

-----------------------------------------------------------------------------
(* Control and firings.                                                    *)

\* Triggering, pausing and resuming change triggers of jobs that exist.
LEMMA ControlIInv ==
  ASSUME IInv, Control
  PROVE  IInv'
<1>1. UNCHANGED <<call, tasks, detail, run, contended, cleared>>
  BY DEF Control, PauseAllJob, JobTrigger, PauseJob, ResumeJob, history
<1>2. groupPaused' \in BOOLEAN
  BY DEF IInv, TypeOK, Control, PauseAllJob, JobTrigger, PauseJob, ResumeJob
<1>3. {"waiting", "paused"} \subseteq TriggerStates BY DEF TriggerStates
<1>4. /\ trig' \in [Keys -> [Kinds -> TriggerStates]]
      /\ \A k \in Keys : trig'[k] # NoTriggers => detail[k] # NoJob
  <2>1. CASE PauseAllJob
    BY <1>3, <2>1, TriggersShift DEF IInv, TypeOK, PauseAllJob
  <2>2. ASSUME NEW n \in Names, NEW g \in Groups \cup {NoGroup}, JobTrigger(n, g)
        PROVE  /\ trig' \in [Keys -> [Kinds -> TriggerStates]]
               /\ \A k \in Keys : trig'[k] # NoTriggers => detail[k] # NoJob
    <3>1. PICK k \in Keys : k = QuartzKey(n, g) BY KeysOfNames
    <3>2. detail[k] # NoJob /\ trig' = WithTriggers(k, {"now"})
      BY <2>2, <3>1 DEF JobTrigger
    <3>3. {"now"} \in SUBSET Kinds BY DEF Kinds
    <3>4. /\ trig' \in [Keys -> [Kinds -> TriggerStates]]
          /\ \A j \in Keys \ {k} : trig'[j] = trig[j]
      BY <3>2, <3>3, TriggersJoin DEF IInv
    <3>5. QED BY <3>2, <3>4 DEF IInv, TypeOK
  <2>3. ASSUME NEW n \in Names, NEW g \in Groups \cup {NoGroup}, PauseJob(n, g) \/ ResumeJob(n, g)
        PROVE  /\ trig' \in [Keys -> [Kinds -> TriggerStates]]
               /\ \A k \in Keys : trig'[k] # NoTriggers => detail[k] # NoJob
    <3>1. PICK keys : keys = {ProviderKey(n, g)} OBVIOUS
    <3>2. CASE trig' = Shift(keys, "waiting", "paused")
      BY <1>3, <3>2, TriggersShift DEF IInv, TypeOK
    <3>3. CASE trig' = Shift(keys, "paused", "waiting")
      BY <1>3, <3>3, TriggersShift DEF IInv, TypeOK
    <3>4. QED BY <2>3, <3>1, <3>2, <3>3 DEF PauseJob, ResumeJob
  <2>4. QED BY <2>1, <2>2, <2>3 DEF Control
<1>5. TypeOK' BY <1>1, <1>2, <1>4 DEF IInv, TypeOK
<1>6. OverlapInv' /\ StageInv' /\ RegistryMatchesSchedule' BY <1>1, SchedulerStep
<1>7. QED BY <1>5, <1>6 DEF IInv

\* A worker gets a trigger of a job that exists.
LEMMA FireIInv ==
  ASSUME IInv, NEW w \in Workers, NEW k \in Keys, NEW i \in Kinds, Fire(w, k, i)
  PROVE  IInv'
<1>1. /\ trig[k][i] = "waiting"
      /\ trig' = IF i = "cron" THEN trig ELSE [trig EXCEPT ![k][i] = w]
      /\ UNCHANGED <<tasks, detail, groupPaused, call, contended, cleared>>
  BY DEF Fire, history
<1>2. trig[k] # NoTriggers BY <1>1 DEF NoTriggers
<1>3. detail[k] \in Details BY <1>2 DEF IInv, TypeOK
<1>4. PICK r : r = [key |-> k, kind |-> i, type |-> detail[k].type, allow |-> detail[k].allow,
                    pc |-> "fired"]
  OBVIOUS
<1>5. r \in Runs BY <1>3, <1>4 DEF Runs, Details
<1>6. run' = [run EXCEPT ![w] = r] BY <1>4 DEF Fire
<1>7. run' \in [Workers -> Runs \cup {NoRun}] BY <1>5, <1>6 DEF IInv, TypeOK
<1>8. w \in TriggerStates BY DEF TriggerStates
<1>9. PICK t : t = [trig[k] EXCEPT ![i] = w] OBVIOUS
<1>10. t \in [Kinds -> TriggerStates] BY <1>8, <1>9 DEF IInv, TypeOK
<1>11. trig' = trig \/ trig' = [trig EXCEPT ![k] = t] BY <1>1, <1>9
<1>12. trig' \in [Keys -> [Kinds -> TriggerStates]] /\ \A j \in Keys \ {k} : trig'[j] = trig[j]
  BY <1>10, <1>11 DEF IInv, TypeOK
<1>13. TypeOK' BY <1>1, <1>2, <1>7, <1>12 DEF IInv, TypeOK
<1>14. OverlapInv' /\ StageInv' /\ RegistryMatchesSchedule' BY <1>1, SchedulerStep
<1>15. QED BY <1>13, <1>14 DEF IInv

\* A firing runs the task of the registry.
LEMMA RunTaskIInv ==
  ASSUME IInv, NEW w \in Workers, RunTask(w)
  PROVE  IInv'
<1>1. /\ run[w] # NoRun /\ UNCHANGED <<tasks, detail, trig, groupPaused, call, contended, cleared>>
  BY DEF RunTask, quartz, history
<1>2. run[w] \in Runs BY <1>1 DEF IInv, TypeOK
<1>3. PICK r : r = [run[w] EXCEPT !.pc = "running"] OBVIOUS
<1>4. r \in Runs BY <1>2, <1>3 DEF Runs
<1>5. run' = [run EXCEPT ![w] = r] BY <1>3 DEF RunTask
<1>6. TypeOK' BY <1>1, <1>4, <1>5 DEF IInv, TypeOK
<1>7. OverlapInv' /\ StageInv' /\ RegistryMatchesSchedule' BY <1>1, SchedulerStep
<1>8. QED BY <1>6, <1>7 DEF IInv

\* A firing that ends takes its job along only with the last trigger.
LEMMA CompleteIInv ==
  ASSUME IInv, NEW w \in Workers, Complete(w)
  PROVE  IInv'
<1>1. /\ run[w] # NoRun /\ run' = [run EXCEPT ![w] = NoRun]
      /\ UNCHANGED <<tasks, groupPaused, call, contended, cleared>>
  BY DEF Complete, history
<1>2. PICK k \in Keys, i \in Kinds : k = run[w].key /\ i = run[w].kind
  BY <1>1 DEF IInv, TypeOK, Runs
<1>3. PICK left : left = [trig[k] EXCEPT ![i] = "none"] OBVIOUS
<1>4. left \in [Kinds -> TriggerStates] BY <1>3 DEF IInv, TypeOK, TriggerStates
<1>5. \/ UNCHANGED <<trig, detail>>
      \/ /\ trig[k][i] = w /\ trig' = [trig EXCEPT ![k] = left]
         /\ detail' = IF left = NoTriggers THEN [detail EXCEPT ![k] = NoJob] ELSE detail
  BY <1>2, <1>3 DEF Complete
<1>6. trig[k][i] = w => detail[k] # NoJob
  BY ConstantsAssumption, SomeTrigger DEF IInv, TypeOK
<1>7. /\ trig' \in [Keys -> [Kinds -> TriggerStates]]
      /\ detail' \in [Keys -> Details \cup {NoJob}]
      /\ \A j \in Keys : detail'[j] \in {NoJob, detail[j]}
      /\ \A j \in Keys : trig'[j] # NoTriggers => detail'[j] # NoJob
  BY <1>4, <1>5, <1>6 DEF IInv, TypeOK
<1>8. run' \in [Workers -> Runs \cup {NoRun}] BY <1>1 DEF IInv, TypeOK
<1>9. TypeOK' BY <1>1, <1>7, <1>8 DEF IInv, TypeOK
<1>10. OverlapInv' /\ StageInv' /\ RegistryMatchesSchedule' BY <1>1, <1>7, SchedulerStep
<1>11. QED BY <1>9, <1>10 DEF IInv

-----------------------------------------------------------------------------
(* The specification.                                                      *)

\* A call that begins keeps the invariant.
LEMMA CallBeginsIInv ==
  ASSUME IInv, NEW c \in Callers, JobCall(c) \/ ResumeAllJob(c)
  PROVE  IInv'
<1>1. ASSUME NEW n \in Names, NEW g \in Groups \cup {NoGroup}, NEW op \in Registrations,
             NEW allow \in AllowOptions, NEW kinds \in (SUBSET {"cron", "once"}) \ {{}},
             Job(c, op, n, g, kinds, allow)
      PROVE  IInv'
  <2>1. PICK k \in Keys : k = ProviderKey(n, g) BY KeysOfNames
  <2>2. Begin(c, op, {k}, kinds, allow, "check") BY <1>1, <2>1 DEF Job
  <2>3. /\ op \in Ops /\ op # "resumeAll" /\ {k} \in SUBSET Keys
        /\ kinds \in SUBSET {"cron", "once"} /\ allow \in BOOLEAN
    BY <1>1, ConstantsAssumption DEF Ops, Registrations
  <2>4. QED BY <2>1, <2>2, <2>3, BeginIInv
<1>2. ASSUME NEW n \in Names, NEW g \in Groups \cup {NoGroup}, DeleteJob(c, n, g)
      PROVE  IInv'
  <2>1. PICK k \in Keys : k = QuartzKey(n, g) BY KeysOfNames
  <2>2. Begin(c, "delete", {k}, {}, FALSE, "schedule") BY <1>2, <2>1 DEF DeleteJob
  <2>3. "delete" \in Ops /\ "delete" \notin Registrations BY DEF Ops, Registrations
  <2>4. QED BY <2>1, <2>2, <2>3, BeginIInv
<1>3. CASE ResumeAllJob(c)
  <2>1. Begin(c, "resumeAll", Keys, {}, FALSE, "schedule") BY <1>3 DEF ResumeAllJob
  <2>2. "resumeAll" \in Ops /\ "resumeAll" \notin Registrations BY DEF Ops, Registrations
  <2>3. QED BY <2>1, <2>2, BeginIInv
<1>4. QED BY <1>1, <1>2, <1>3 DEF JobCall

\* Every step keeps the invariant.
LEMMA NextIInv == IInv /\ [Next]_vars => IInv'
<1> SUFFICES ASSUME IInv, [Next]_vars PROVE IInv'
  OBVIOUS
<1>1. ASSUME NEW c \in Callers, JobCall(c) \/ ResumeAllJob(c) PROVE IInv'
  BY <1>1, CallBeginsIInv
<1>2. ASSUME NEW c \in Callers, CallStep(c) PROVE IInv'
  BY <1>2, CheckExistsIInv, PutTaskIInv, BuildTriggersIInv, ScheduleIInv, ScheduleCronIInv,
     ScheduleOnceIInv, UnscheduleTriggerIInv, UnscheduleIInv, RemoveTaskIInv, ResumeAllIInv,
     RemoveAllTasksIInv, QuartzThrowsIInv
  DEF CallStep
<1>3. CASE Control BY <1>3, ControlIInv
<1>4. ASSUME NEW w \in Workers, Firing(w) PROVE IInv'
  BY <1>4, FireIInv, RunTaskIInv, CompleteIInv DEF Firing
<1>5. CASE UNCHANGED vars
  BY <1>5 DEF vars, quartz, history, IInv, TypeOK, OverlapInv, StageInv, Stage, FoundFree,
              RegistryMatchesSchedule
<1>6. QED BY <1>1, <1>2, <1>3, <1>4, <1>5 DEF Next

\* Scheduler, registry and calls under way fit together in every reachable
\* state.
THEOREM RegistryFits == Spec => []IInv
<1>1. IInv /\ [Next]_vars => IInv' BY NextIInv
<1>2. QED BY InitIInv, <1>1, PTL DEF Spec

\* However calls, firings, pauses and deletions interleave, a job whose
\* registration overlapped no other call, and that was not cleared by
\* resumeAllJob, runs the task it was registered with.
THEOREM RegistryMatchesAlways == Spec => []RegistryMatchesSchedule
<1>1. IInv => RegistryMatchesSchedule BY DEF IInv
<1>2. QED BY RegistryFits, <1>1, PTL
=============================================================================
