----------------------- MODULE DistributedDelegateJob -----------------------
(***************************************************************************)
(* The distributed job delegate of microfox-job                            *)
(* (DistributedDelegateJob.execute): worker threads of several nodes       *)
(* execute firings of the same jobs and exclude each other with a Redisson *)
(* lock per job key.  The Redis lock is external and modelled from how the *)
(* delegate uses it: tryLock(0, ms) without a lease time takes a lease     *)
(* that a watchdog of the holder's process renews until as many unlocks    *)
(* were called as locks were answered; a lease nobody renews expires; the  *)
(* lock is reentrant for one thread of one client; a restarted process is  *)
(* a new client.                                                           *)
(***************************************************************************)
EXTENDS Naturals, FiniteSets

CONSTANTS Nodes, Slots,     \* worker threads are pairs of a node and a slot
          Jobs,             \* the lock keys "microfox:quartz:lock:..."
          Configured,       \* the jobs whose Redis identity is not blank
          MaxHolds,         \* bound on the hold count of a leftover lock
          Nobody, DeadClient, NoJob

Workers == Nodes \X Slots

ASSUME ConstantsAssumption ==
    /\ Configured \subseteq Jobs
    /\ MaxHolds \in Nat \ {0}
    /\ {Nobody, DeadClient} \cap Workers = {}
    /\ Nobody # DeadClient
    /\ NoJob \notin Jobs

VARIABLES holder,    \* Redis: job -> client thread the lock belongs to
          holds,     \* Redis: hold count of the lock
          renewals,  \* watchdog: how many unlocks until it stops renewing
          pc, job,   \* each worker's place in execute, and its job
          locked,    \* local variable "acquired" of execute
          lapsed,    \* history: workers whose lease expired during the run
          orphaned   \* history: jobs whose lock a failing call left behind
                     \* while the watchdog goes on renewing it

vars == <<holder, holds, renewals, pc, job, locked, lapsed, orphaned>>

redis == <<holder, holds, renewals, orphaned>>

PCs == {"idle", "tryLock", "run", "finally", "unlock"}

TypeOK ==
    /\ holder \in [Jobs -> Workers \cup {Nobody, DeadClient}]
    /\ holds \in [Jobs -> 0..MaxHolds]
    /\ renewals \in [Jobs -> 0..MaxHolds]
    /\ pc \in [Workers -> PCs]
    /\ job \in [Workers -> Jobs \cup {NoJob}]
    /\ locked \in [Workers -> BOOLEAN]
    /\ lapsed \subseteq Workers
    /\ orphaned \subseteq Jobs

Init ==
    /\ holder = [j \in Jobs |-> Nobody]
    /\ holds = [j \in Jobs |-> 0]
    /\ renewals = [j \in Jobs |-> 0]
    /\ pc = [w \in Workers |-> "idle"]
    /\ job = [w \in Workers |-> NoJob]
    /\ locked = [w \in Workers |-> FALSE]
    /\ lapsed = {}
    /\ orphaned = {}

-----------------------------------------------------------------------------
(* The Redis lock.                                                         *)

Available(j, w) == holder[j] \in {Nobody, w}

Take(j, w, watchdog) ==
    /\ holder' = [holder EXCEPT ![j] = w]
    /\ holds' = [holds EXCEPT ![j] = @ + 1]
    /\ renewals' = [renewals EXCEPT ![j] = IF watchdog THEN @ + 1 ELSE @]

\* The watchdog counts one lock less; at zero it stops.
Unwatch(j) ==
    /\ renewals' = [renewals EXCEPT ![j] = IF @ = 0 THEN 0 ELSE @ - 1]
    /\ orphaned' = IF renewals[j] > 1 THEN orphaned ELSE orphaned \ {j}

\* One unlock by the holder: the last hold frees the lock.
Release(j) ==
    /\ holder' = [holder EXCEPT ![j] = IF holds[j] = 1 THEN Nobody ELSE @]
    /\ holds' = [holds EXCEPT ![j] = @ - 1]
    /\ Unwatch(j)

\* Renewal fails for good (a partition, a long pause of the process).
RenewalLost(j) ==
    /\ renewals[j] > 0
    /\ renewals' = [renewals EXCEPT ![j] = 0]
    /\ orphaned' = orphaned \ {j}
    /\ UNCHANGED <<holder, holds, pc, job, locked, lapsed>>

LeaseExpires(j) ==
    /\ holder[j] # Nobody /\ renewals[j] = 0
    /\ holder' = [holder EXCEPT ![j] = Nobody]
    /\ holds' = [holds EXCEPT ![j] = 0]
    /\ lapsed' = lapsed \cup {w \in Workers : w = holder[j] /\ locked[w] /\ job[w] = j}
    /\ UNCHANGED <<renewals, orphaned, pc, job, locked>>

-----------------------------------------------------------------------------
(* execute.                                                                *)

Goto(w, label) == pc' = [pc EXCEPT ![w] = label]

Return(w) ==
    /\ Goto(w, "idle")
    /\ job' = [job EXCEPT ![w] = NoJob]
    /\ locked' = [locked EXCEPT ![w] = FALSE]
    /\ lapsed' = lapsed \ {w}

\* A firing of a job without identity only logs an error, so firings are
\* those of the configured jobs.
Fire(w, j, allowConcurrent) ==
    /\ pc[w] = "idle"
    /\ j \in Configured
    /\ Goto(w, IF allowConcurrent THEN "run" ELSE "tryLock")
    /\ job' = [job EXCEPT ![w] = j]
    /\ UNCHANGED <<redis, locked, lapsed>>

\* Mutated form: the answer of tryLock is not looked at.
AcquireUnchecked(w) ==
    /\ pc[w] = "tryLock"
    /\ holds[job[w]] < MaxHolds
    /\ Take(job[w], w, TRUE)
    /\ locked' = [locked EXCEPT ![w] = TRUE]
    /\ Goto(w, "run")
    /\ UNCHANGED <<job, lapsed, orphaned>>

Acquire(w) ==
    /\ pc[w] = "tryLock"
    /\ Available(job[w], w)
    /\ Take(job[w], w, TRUE)
    /\ locked' = [locked EXCEPT ![w] = TRUE]
    /\ Goto(w, "run")
    /\ UNCHANGED <<job, lapsed, orphaned>>

\* "is already running, skipping..."
Skip(w) ==
    /\ pc[w] = "tryLock"
    /\ ~Available(job[w], w)
    /\ Return(w)
    /\ UNCHANGED redis

\* tryLock throws and the exception is logged.  Redis may have executed the
\* command all the same: without an answer no watchdog is started, but one
\* that comes after the thread was interrupted still starts it.
TryLockThrows(w) ==
    /\ pc[w] = "tryLock"
    /\ \/ UNCHANGED redis
       \/ /\ Available(job[w], w)
          /\ holds[job[w]] + 1 < MaxHolds
          /\ \E answered \in BOOLEAN :
                /\ Take(job[w], w, answered)
                /\ orphaned' = IF answered THEN orphaned \cup {job[w]} ELSE orphaned
    /\ Return(w)

\* Mutated form: without finally a throwing task leaves the lock taken.
TaskEndsNoFinally(w) ==
    /\ pc[w] = "run"
    /\ \/ /\ locked[w]
          /\ Goto(w, "finally")
          /\ UNCHANGED <<job, locked, lapsed>>
       \/ Return(w)
    /\ UNCHANGED redis

\* The task returns, or throws: caught and logged when the lock is held,
\* passed on to Quartz otherwise.
TaskEnds(w) ==
    /\ pc[w] = "run"
    /\ \/ /\ locked[w]
          /\ Goto(w, "finally")
          /\ UNCHANGED <<job, locked, lapsed>>
       \/ /\ ~locked[w]
          /\ Return(w)
    /\ UNCHANGED redis

\* acquired && lock.isHeldByCurrentThread()
CheckHeld(w) ==
    /\ pc[w] = "finally"
    /\ \/ /\ holder[job[w]] = w
          /\ Goto(w, "unlock")
          /\ UNCHANGED <<job, locked, lapsed>>
       \/ /\ holder[job[w]] # w
          /\ Return(w)
    /\ UNCHANGED redis

\* isHeldByCurrentThread asks Redis and throws: nobody calls unlock, and the
\* watchdog of a lock that is still held goes on.
CheckHeldFails(w) ==
    /\ pc[w] = "finally"
    /\ holder[job[w]] = w => holds[job[w]] < MaxHolds
    /\ orphaned' = IF holder[job[w]] = w /\ renewals[job[w]] > 0
                     THEN orphaned \cup {job[w]} ELSE orphaned
    /\ Return(w)
    /\ UNCHANGED <<holder, holds, renewals>>

\* Mutated form: forceUnlock(), whoever holds the lock.
ForceUnlock(w) ==
    /\ pc[w] = "unlock"
    /\ Release(job[w])
    /\ Return(w)

\* unlock of a lock that expired since the check throws and changes nothing.
Unlock(w) ==
    /\ pc[w] = "unlock"
    /\ \/ /\ holder[job[w]] = w
          /\ Release(job[w])
       \/ /\ holder[job[w]] # w
          /\ UNCHANGED redis
    /\ Return(w)

\* unlock does not reach Redis: the watchdog counts it all the same.
UnlockFails(w) ==
    /\ pc[w] = "unlock"
    /\ holder[job[w]] = w => holds[job[w]] < MaxHolds
    /\ IF holder[job[w]] = w THEN Unwatch(job[w]) ELSE UNCHANGED <<renewals, orphaned>>
    /\ Return(w)
    /\ UNCHANGED <<holder, holds>>

\* The process of a node dies and restarts as a new Redisson client.
Crash(n) ==
    LET mine(j) == holder[j] \in {n} \X Slots IN
    /\ holder' = [j \in Jobs |-> IF mine(j) THEN DeadClient ELSE holder[j]]
    /\ renewals' = [j \in Jobs |-> IF mine(j) THEN 0 ELSE renewals[j]]
    /\ orphaned' = {j \in orphaned : ~mine(j)}
    /\ pc' = [w \in Workers |-> IF w[1] = n THEN "idle" ELSE pc[w]]
    /\ job' = [w \in Workers |-> IF w[1] = n THEN NoJob ELSE job[w]]
    /\ locked' = [w \in Workers |-> locked[w] /\ w[1] # n]
    /\ lapsed' = {w \in lapsed : w[1] # n}
    /\ UNCHANGED holds

-----------------------------------------------------------------------------

Step(w) == Acquire(w) \/ Skip(w) \/ TryLockThrows(w) \/ TaskEnds(w)
               \/ CheckHeld(w) \/ CheckHeldFails(w) \/ Unlock(w) \/ UnlockFails(w)

Next == \/ \E w \in Workers : Step(w)
        \/ \E w \in Workers, j \in Jobs, c \in BOOLEAN : Fire(w, j, c)
        \/ \E j \in Jobs : RenewalLost(j) \/ LeaseExpires(j)
        \/ \E n \in Nodes : Crash(n)

Spec == Init /\ [][Next]_vars

\* Workers are scheduled, tasks end, and Redis expires leases.
FairSpec == /\ Spec
            /\ \A w \in Workers : WF_vars(Step(w))
            /\ \A j \in Jobs : WF_vars(LeaseExpires(j))

-----------------------------------------------------------------------------

\* The run of w is covered by the lease it acquired.
Covered(w, j) == pc[w] = "run" /\ job[w] = j /\ locked[w] /\ w \notin lapsed

\* What a worker's variables say at each label of execute.
FrameInv ==
    \A w \in Workers :
        /\ pc[w] = "idle" <=> job[w] = NoJob
        /\ pc[w] \in {"idle", "tryLock"} => ~locked[w]
        /\ pc[w] \in {"finally", "unlock"} => locked[w]
        /\ w \in lapsed => locked[w]

\* A worker that has locked its job holds the lock in Redis unless its lease
\* expired meanwhile, and then it does not hold it again.
LeaseInv ==
    \A w \in Workers : locked[w] => (holder[job[w]] = w <=> w \notin lapsed)

\* A lock has holds exactly while it has a holder; only a run reaches the last.
HoldsInv ==
    \A j \in Jobs :
        /\ holds[j] = 0 <=> holder[j] = Nobody
        /\ \A w \in Workers :
              holder[j] = w /\ ~(locked[w] /\ job[w] = j) => holds[j] < MaxHolds

\* A watchdog counts the one lock of the run under way, apart from those that
\* a failing call has left behind.
WatchdogInv ==
    \A j \in Jobs :
        /\ renewals[j] <= holds[j]
        /\ j \in orphaned => renewals[j] > 0
        /\ renewals[j] > 0 /\ j \notin orphaned =>
              /\ renewals[j] = 1
              /\ \E w \in Workers : holder[j] = w /\ locked[w] /\ job[w] = j

\* The inductive invariant: types, each label fits the lock in Redis, and the
\* watchdog fits both.
IInv == TypeOK /\ FrameInv /\ LeaseInv /\ HoldsInv /\ WatchdogInv

Exclusion == INSTANCE JobExclusion WITH
                Runners <- Workers,
                running <- [j \in Jobs |-> {w \in Workers : Covered(w, j)}]

\* Runs covered by their lease implement the promise of allowConcurrent =
\* false across all nodes, through crashes, lost answers, expired leases
\* and restarts; overlap needs a lease that ran out under a live run.
ImplementsExclusion == Exclusion!Spec

\* A worker whose lease ran out does not take the lock away from the worker
\* that acquired it afterwards.
OnlyHolderReleases ==
    [][\A j \in Jobs, w \in Workers :
          holder[j] = w /\ holder'[j] # w =>
              \/ pc[w] = "unlock" /\ pc'[w] = "idle"
              \/ renewals[j] = 0
              \/ holder'[j] = DeadClient]_vars

\* The lock of a node that died, and the lock an idle worker has left behind,
\* do not block the job for ever: a lost answer, a failing unlock and a
\* throwing task leave a lease that expires.  Only isHeldByCurrentThread when
\* it throws, and an interrupted tryLock, leave one that is renewed for ever.
LeftoverLockFreed ==
    /\ \A j \in Jobs : holder[j] = DeadClient ~> holder[j] # DeadClient
    /\ \A j \in Jobs, w \in Workers :
          holder[j] = w /\ pc[w] = "idle"
              ~> holder[j] # w \/ Covered(w, j) \/ j \in orphaned
=============================================================================
