---------------------------- MODULE JobScheduler ----------------------------
(***************************************************************************)
(* The job provider of microfox-job: JobProviderImpl registers, triggers,  *)
(* pauses, resumes and deletes jobs, keeping two stores in step: the       *)
(* Quartz scheduler (job details and triggers, external, modelled from how *)
(* the provider uses it) and the TaskRegistry map from job key to task.    *)
(* Calls of several threads interleave at every access to a store, and     *)
(* Quartz workers fire triggers at any moment.  The locks of the delegates *)
(* are taken as perfect here (module LocalDelegateJob has their detail).   *)
(***************************************************************************)
EXTENDS FiniteSets, Naturals

CONSTANTS Callers,   \* threads that call the provider; each has its own task
          Workers,   \* Quartz worker threads
          Names,     \* job names
          Groups,    \* explicit job groups
          AllowOptions,  \* values of the option allowConcurrent in use
          NoGroup,   \* the null group of the overloads without group
          NoTask, NoJob, NoCall, NoRun

VARIABLES tasks,        \* TaskRegistry.TASKS: job key -> task
          detail,       \* Quartz: job key -> stored job detail
          trig,         \* Quartz: job key -> trigger kind -> trigger state
          groupPaused,  \* Quartz: is the group of all triggers paused?
          run,          \* worker -> the firing it executes
          call,         \* caller -> the provider call under way
          contended,    \* history: keys on which a registration overlapped
          cleared       \* history: keys scheduled when removeAll ran

quartz == <<detail, trig, groupPaused>>
history == <<contended, cleared>>
vars == <<tasks, quartz, run, call, history>>

\* DEFAULT_JOB_GROUP of the provider, and the group of a Quartz JobKey
\* that is created with a null group.
AllGroups == Groups \cup {"microfox", "DEFAULT"}
Keys == Names \X AllGroups

ProviderKey(n, g) == <<n, IF g = NoGroup THEN "microfox" ELSE g>>
QuartzKey(n, g) == <<n, IF g = NoGroup THEN "DEFAULT" ELSE g>>

Kinds == {"cron", "once", "now"}
Details == [type : {"cron", "once"}, allow : BOOLEAN, task : Callers]
TriggerStates == {"none", "waiting", "paused"} \cup Workers
Runs == [key : Keys, kind : Kinds, type : {"cron", "once"}, allow : BOOLEAN,
         pc : {"fired", "running"}]
Ops == {"cron", "once", "both", "delete", "resumeAll"}
Calls == [op : Ops, keys : SUBSET Keys, kinds : SUBSET {"cron", "once"},
          allow : BOOLEAN,
          pc : {"check", "put", "build", "schedule", "scheduleOnce", "unregister"}]

NoTriggers == [i \in Kinds |-> "none"]

ASSUME ConstantsAssumption ==
    /\ AllowOptions \subseteq BOOLEAN
    /\ NoTask \notin Callers /\ NoJob \notin Details
    /\ NoCall \notin Calls /\ NoRun \notin Runs
    /\ Workers \cap {"none", "waiting", "paused"} = {}

TypeOK ==
    /\ tasks \in [Keys -> Callers \cup {NoTask}]
    /\ detail \in [Keys -> Details \cup {NoJob}]
    /\ trig \in [Keys -> [Kinds -> TriggerStates]]
    /\ \A k \in Keys : trig[k] # NoTriggers => detail[k] # NoJob
    /\ groupPaused \in BOOLEAN
    /\ run \in [Workers -> Runs \cup {NoRun}]
    /\ call \in [Callers -> Calls \cup {NoCall}]
    /\ contended \subseteq Keys
    /\ cleared \subseteq Keys

Init ==
    /\ tasks = [k \in Keys |-> NoTask]
    /\ detail = [k \in Keys |-> NoJob]
    /\ trig = [k \in Keys |-> NoTriggers]
    /\ groupPaused = FALSE
    /\ run = [w \in Workers |-> NoRun]
    /\ call = [c \in Callers |-> NoCall]
    /\ contended = {}
    /\ cleared = {}

-----------------------------------------------------------------------------
(* The Quartz store.                                                       *)

\* New triggers of the given kinds join those k has.
WithTriggers(k, kinds) ==
    [trig EXCEPT ![k] = [i \in Kinds |->
        IF i \in kinds THEN IF groupPaused THEN "paused" ELSE "waiting"
                       ELSE trig[k][i]]]

\* Every trigger of the keys that is in state "from" goes to state "to".
Shift(keys, from, to) ==
    [k \in Keys |-> [i \in Kinds |->
        IF k \in keys /\ trig[k][i] = from THEN to ELSE trig[k][i]]]

-----------------------------------------------------------------------------
(* Calls of the provider.                                                  *)

KeyOf(c) == CHOOSE k \in call[c].keys : TRUE

InCall(c, op, label) ==
    call[c] # NoCall /\ call[c].op \in op /\ call[c].pc = label

Goto(c, label) == call' = [call EXCEPT ![c].pc = label]

Return(c) == call' = [call EXCEPT ![c] = NoCall]

Registrations == {"cron", "once", "both"}

\* A call begins; the history notes the keys on which a registration and
\* another call overlap.
Begin(c, op, keys, kinds, allow, label) ==
    /\ call[c] = NoCall
    /\ call' = [call EXCEPT ![c] = [op |-> op, keys |-> keys, kinds |-> kinds,
                                    allow |-> allow, pc |-> label]]
    /\ contended' = contended \cup
          {k \in keys : \E d \in Callers \ {c} :
              /\ call[d] # NoCall /\ k \in call[d].keys
              /\ {op, call[d].op} \cap Registrations # {}}
    /\ cleared' = cleared \ contended'
    /\ UNCHANGED <<tasks, quartz, run>>

\* The three overloads of job(): a cron job, a one-time job, a job with a
\* set of each.
Job(c, op, n, g, kinds, allow) ==
    /\ op \in {"cron", "once"} => kinds = {op}
    /\ Begin(c, op, {ProviderKey(n, g)}, kinds, allow, "check")

\* Mutated form: no look at the scheduler before the task is registered.
CheckNothing(c) ==
    /\ InCall(c, Registrations, "check")
    /\ Goto(c, "put")
    /\ UNCHANGED <<tasks, quartz, run, history>>

\* isJobExists
CheckExists(c) ==
    /\ InCall(c, Registrations, "check")
    /\ IF detail[KeyOf(c)] = NoJob THEN Goto(c, "put") ELSE Return(c)
    /\ UNCHANGED <<tasks, quartz, run, history>>

\* TaskRegistry.register
PutTask(c) ==
    /\ InCall(c, Registrations, "put")
    /\ tasks' = [tasks EXCEPT ![KeyOf(c)] = c]
    /\ Goto(c, "build")
    /\ UNCHANGED <<quartz, run, history>>

\* An invalid cron expression throws here, after the task is registered.
BuildTriggers(c) ==
    /\ InCall(c, Registrations, "build")
    /\ \/ Goto(c, "schedule")
       \/ "cron" \in call[c].kinds /\ Return(c)
    /\ UNCHANGED <<tasks, quartz, run, history>>

\* scheduleJob(job, trigger) throws when the job exists by now.
Schedule(c) ==
    /\ InCall(c, {"cron", "once"}, "schedule")
    /\ LET k == KeyOf(c) IN
          \/ /\ detail[k] = NoJob
             /\ detail' = [detail EXCEPT ![k] =
                    [type |-> call[c].op,
                     allow |-> call[c].op = "cron" /\ call[c].allow,
                     task |-> c]]
             /\ trig' = WithTriggers(k, call[c].kinds)
             /\ cleared' = cleared \ {k}
          \/ /\ detail[k] # NoJob
             /\ UNCHANGED <<detail, trig, cleared>>
    /\ Return(c)
    /\ UNCHANGED <<tasks, groupPaused, run, contended>>

\* scheduleJob(cronJob, cronTriggers, true) replaces the detail of the key
\* and adds to its triggers ...
ScheduleCron(c) ==
    /\ InCall(c, {"both"}, "schedule")
    /\ LET k == KeyOf(c) IN
          /\ detail' = [detail EXCEPT ![k] =
                 [type |-> "cron", allow |-> call[c].allow, task |-> c]]
          /\ trig' = WithTriggers(k, call[c].kinds \cap {"cron"})
          /\ cleared' = cleared \ {k}
    /\ Goto(c, "scheduleOnce")
    /\ UNCHANGED <<tasks, groupPaused, run, contended>>

\* ... and so does scheduleJob(onceJob, onceTriggers, true), whose detail
\* has no "allowConcurrent".
ScheduleOnce(c) ==
    /\ InCall(c, {"both"}, "scheduleOnce")
    /\ LET k == KeyOf(c) IN
          /\ detail' = [detail EXCEPT ![k] =
                 [type |-> "once", allow |-> FALSE, task |-> c]]
          /\ trig' = WithTriggers(k, call[c].kinds \cap {"once"})
    /\ Return(c)
    /\ UNCHANGED <<tasks, groupPaused, run, history>>

\* deleteJob passes a null group on to Quartz.
DeleteJob(c, n, g) == Begin(c, "delete", {QuartzKey(n, g)}, {}, FALSE, "schedule")

\* Quartz unschedules the triggers of the job one by one, and with the last of
\* them the job, which is not durable ...
UnscheduleTrigger(c) ==
    /\ InCall(c, {"delete"}, "schedule")
    /\ \E i \in Kinds :
          LET k == KeyOf(c)
              left == [trig[k] EXCEPT ![i] = "none"]
          IN  /\ trig[k][i] # "none"
              /\ trig' = [trig EXCEPT ![k] = left]
              /\ detail' = IF left = NoTriggers THEN [detail EXCEPT ![k] = NoJob] ELSE detail
    /\ UNCHANGED <<tasks, groupPaused, run, call, history>>

\* ... and removes the job with the triggers it has by then.
Unschedule(c) ==
    /\ InCall(c, {"delete"}, "schedule")
    /\ detail' = [detail EXCEPT ![KeyOf(c)] = NoJob]
    /\ trig' = [trig EXCEPT ![KeyOf(c)] = NoTriggers]
    /\ Goto(c, "unregister")
    /\ UNCHANGED <<tasks, groupPaused, run, history>>

RemoveTask(c) ==
    /\ InCall(c, {"delete"}, "unregister")
    /\ tasks' = [tasks EXCEPT ![KeyOf(c)] = NoTask]
    /\ Return(c)
    /\ UNCHANGED <<quartz, run, history>>

ResumeAllJob(c) == Begin(c, "resumeAll", Keys, {}, FALSE, "schedule")

ResumeAll(c) ==
    /\ InCall(c, {"resumeAll"}, "schedule")
    /\ trig' = Shift(Keys, "paused", "waiting")
    /\ groupPaused' = FALSE
    /\ Goto(c, "unregister")
    /\ UNCHANGED <<tasks, detail, run, history>>

\* resumeAllJob ends with TaskRegistry.removeAll().
RemoveAllTasks(c) ==
    /\ InCall(c, {"resumeAll"}, "unregister")
    /\ tasks' = [k \in Keys |-> NoTask]
    /\ cleared' = {k \in Keys \ contended : detail[k] # NoJob}
    /\ Return(c)
    /\ UNCHANGED <<quartz, run, contended>>

\* Mutated form: a deletion goes on to the registry when Quartz throws.
FailureSwallowed(c) ==
    /\ call[c] # NoCall /\ call[c].pc \in {"check", "schedule", "scheduleOnce"}
    /\ IF call[c].op = "delete" THEN Goto(c, "unregister") ELSE Return(c)
    /\ UNCHANGED <<tasks, quartz, run, history>>

\* Any access of a call to Quartz may throw a SchedulerException: the call ends.
QuartzThrows(c) ==
    /\ call[c] # NoCall /\ call[c].pc \in {"check", "schedule", "scheduleOnce"}
    /\ Return(c)
    /\ UNCHANGED <<tasks, quartz, run, history>>

\* The operations with a single access to Quartz.
JobTrigger(n, g) ==
    LET k == QuartzKey(n, g) IN
    /\ detail[k] # NoJob
    /\ trig[k]["now"] = "none"
    /\ trig' = WithTriggers(k, {"now"})
    /\ UNCHANGED <<tasks, detail, groupPaused, run, call, history>>

PauseJob(n, g) ==
    /\ trig' = Shift({ProviderKey(n, g)}, "waiting", "paused")
    /\ UNCHANGED <<tasks, detail, groupPaused, run, call, history>>

ResumeJob(n, g) ==
    /\ trig' = Shift({ProviderKey(n, g)}, "paused", "waiting")
    /\ UNCHANGED <<tasks, detail, groupPaused, run, call, history>>

PauseAllJob ==
    /\ groupPaused' = (groupPaused \/ \E k \in Keys : trig[k] # NoTriggers)
    /\ trig' = Shift(Keys, "waiting", "paused")
    /\ UNCHANGED <<tasks, detail, run, call, history>>

-----------------------------------------------------------------------------
(* Firings.                                                                *)

\* A worker gets a copy of the stored detail; a one-time trigger stays with
\* the worker until the firing completes.
Fire(w, k, i) ==
    /\ run[w] = NoRun
    /\ trig[k][i] = "waiting"
    /\ run' = [run EXCEPT ![w] = [key |-> k, kind |-> i, type |-> detail[k].type,
                                  allow |-> detail[k].allow, pc |-> "fired"]]
    /\ trig' = IF i = "cron" THEN trig ELSE [trig EXCEPT ![k][i] = w]
    /\ UNCHANGED <<tasks, detail, groupPaused, call, history>>

\* The delegate's lock key is made of type, group and name.
Excluded(w) ==
    /\ ~run[w].allow
    /\ \E v \in Workers \ {w} :
          /\ run[v] # NoRun
          /\ run[v].pc = "running" /\ ~run[v].allow
          /\ <<run[v].key, run[v].type>> = <<run[w].key, run[w].type>>

RunTask(w) ==
    /\ run[w] # NoRun /\ run[w].pc = "fired"
    /\ ~Excluded(w) /\ tasks[run[w].key] # NoTask
    /\ run' = [run EXCEPT ![w].pc = "running"]
    /\ UNCHANGED <<tasks, quartz, call, history>>

\* The firing ends: skipped by the lock, failed for want of a task, or its
\* task is over.  Its one-time trigger goes, and with the last trigger the
\* job, which is not durable.
Complete(w) ==
    /\ run[w] # NoRun
    /\ run[w].pc = "fired" => Excluded(w) \/ tasks[run[w].key] = NoTask
    /\ run' = [run EXCEPT ![w] = NoRun]
    /\ LET k == run[w].key
           mine == trig[k][run[w].kind] = w
           left == [trig[k] EXCEPT ![run[w].kind] = "none"]
       IN  /\ trig' = IF mine THEN [trig EXCEPT ![k] = left] ELSE trig
           /\ detail' = IF mine /\ left = NoTriggers
                          THEN [detail EXCEPT ![k] = NoJob] ELSE detail
    /\ UNCHANGED <<tasks, groupPaused, call, history>>

-----------------------------------------------------------------------------

JobCall(c) ==
    \E n \in Names, g \in Groups \cup {NoGroup} :
        \/ \E op \in Registrations, allow \in AllowOptions,
              kinds \in (SUBSET {"cron", "once"}) \ {{}} : Job(c, op, n, g, kinds, allow)
        \/ DeleteJob(c, n, g)

CallStep(c) == \/ CheckExists(c) \/ PutTask(c) \/ BuildTriggers(c)
               \/ Schedule(c) \/ ScheduleCron(c) \/ ScheduleOnce(c)
               \/ UnscheduleTrigger(c) \/ Unschedule(c) \/ RemoveTask(c)
               \/ ResumeAll(c) \/ RemoveAllTasks(c) \/ QuartzThrows(c)

Control == \/ PauseAllJob
           \/ \E n \in Names, g \in Groups \cup {NoGroup} :
                 JobTrigger(n, g) \/ PauseJob(n, g) \/ ResumeJob(n, g)

Firing(w) == \/ RunTask(w) \/ Complete(w)
             \/ \E k \in Keys, i \in Kinds : Fire(w, k, i)

Next == \/ \E c \in Callers : JobCall(c) \/ ResumeAllJob(c) \/ CallStep(c)
        \/ Control
        \/ \E w \in Workers : Firing(w)

Spec == Init /\ [][Next]_vars

-----------------------------------------------------------------------------

\* A scheduled job runs the task its own registration brought, as long as
\* its registration overlapped no other call and resumeAllJob was not called:
\* a registration that is turned away leaves the registry as it was.
RegistryMatchesSchedule ==
    \A k \in Keys :
        detail[k] # NoJob /\ k \notin contended \cup cleared
            => tasks[k] = detail[k].task

\* jobDelete(name) deletes the job that job(task, name, ...) registered.
DeleteByNameDeletes ==
    [][\A c \in Callers, n \in Names :
          /\ InCall(c, {"delete"}, "unregister") /\ call'[c] = NoCall
          /\ call[c].keys = {QuartzKey(n, NoGroup)}
          /\ contended = {}
          => detail'[ProviderKey(n, NoGroup)] = NoJob]_vars

-----------------------------------------------------------------------------
(* The inductive invariant.                                                *)

\* A registration that shares a key with another call is noted.
OverlapInv ==
    \A c, d \in Callers :
        c # d /\ call[c] # NoCall /\ call[d] # NoCall /\ call[c].op \in Registrations
            => call[c].keys \cap call[d].keys \subseteq contended

\* The labels at which a call has found its key free.
FoundFree(c) ==
    \/ call[c].op \in Registrations /\ call[c].pc \in {"put", "build"}
    \/ call[c].op \in {"cron", "once"} /\ call[c].pc = "schedule"
    \/ call[c].op = "delete" /\ call[c].pc = "unregister"

\* Alone on its key, a registration finds the key free from its look at the
\* scheduler until it schedules, with its task in the registry; and so does a
\* deletion that goes on to the registry.
Stage(c) ==
    call[c] # NoCall =>
        /\ IF call[c].op = "resumeAll" THEN call[c].keys = Keys
                                       ELSE \E k \in Keys : call[c].keys = {k}
        /\ \A k \in call[c].keys \ contended :
              /\ FoundFree(c) => detail[k] = NoJob
              /\ call[c].op \in Registrations /\ call[c].pc \in {"build", "schedule", "scheduleOnce"}
                    => tasks[k] = c

StageInv == \A c \in Callers : Stage(c)

IInv == TypeOK /\ OverlapInv /\ StageInv /\ RegistryMatchesSchedule
=============================================================================
