-------------------------- MODULE LocalDelegateJob --------------------------
(***************************************************************************)
(* The in-process job delegate of microfox-job (LocalDelegateJob.execute). *)
(* Quartz worker threads execute firings of jobs.  A firing of a job that  *)
(* does not allow concurrent execution looks up the job's ReentrantLock in *)
(* a static ConcurrentHashMap, gives up when tryLock fails, runs the task, *)
(* and then unlocks the lock and, as a second step, removes the map entry. *)
(*                                                                         *)
(* A job key stands for the string "quartz:distributed:type:group:name".   *)
(* A lock object that neither the map nor any thread refers to is garbage, *)
(* and its model value stands for the next "new ReentrantLock()".          *)
(***************************************************************************)
EXTENDS FiniteSets, Naturals

CONSTANTS Threads,   \* the worker threads of the Quartz pool
          JobKeys,   \* the formatted job keys
          LockIds,   \* names for the ReentrantLock objects alive at one time
          NoThread, NoKey, NoLock

ASSUME NullsAssumption ==
    /\ NoThread \notin Threads
    /\ NoKey \notin JobKeys
    /\ NoLock \notin LockIds

VARIABLES locks,   \* static map job key -> lock, NoLock when absent
          owner,   \* lock -> thread that holds it
          pc,      \* where each worker thread is in execute
          key,     \* the job key each thread executes
          lock     \* local variable "lock" of execute

vars == <<locks, owner, pc, key, lock>>

PCs == {"idle", "tryLock", "run", "unlock", "remove"}

TypeOK ==
    /\ locks \in [JobKeys -> LockIds \cup {NoLock}]
    /\ owner \in [LockIds -> Threads \cup {NoThread}]
    /\ pc \in [Threads -> PCs]
    /\ key \in [Threads -> JobKeys \cup {NoKey}]
    /\ lock \in [Threads -> LockIds \cup {NoLock}]

Init ==
    /\ locks = [k \in JobKeys |-> NoLock]
    /\ owner = [l \in LockIds |-> NoThread]
    /\ pc = [t \in Threads |-> "idle"]
    /\ key = [t \in Threads |-> NoKey]
    /\ lock = [t \in Threads |-> NoLock]

Referenced(l) == \/ \E k \in JobKeys : locks[k] = l
                 \/ \E t \in Threads : lock[t] = l

Goto(t, label) == pc' = [pc EXCEPT ![t] = label]

\* execute returns: the thread goes back to the pool and its frame is gone.
Return(t) ==
    /\ Goto(t, "idle")
    /\ key' = [key EXCEPT ![t] = NoKey]
    /\ lock' = [lock EXCEPT ![t] = NoLock]

\* A mutated form for the runs' mutants: the map is only read.
GetLock(t, k) ==
    /\ pc[t] = "idle"
    /\ Goto(t, "tryLock")
    /\ key' = [key EXCEPT ![t] = k]
    /\ lock' = [lock EXCEPT ![t] = locks[k]]
    /\ UNCHANGED <<locks, owner>>

\* A firing with allowConcurrent = false: computeIfAbsent hands out the
\* mapped lock, or maps a new one.
ComputeIfAbsent(t, k) ==
    /\ pc[t] = "idle"
    /\ Goto(t, "tryLock")
    /\ key' = [key EXCEPT ![t] = k]
    /\ \/ /\ locks[k] # NoLock
          /\ lock' = [lock EXCEPT ![t] = locks[k]]
          /\ UNCHANGED locks
       \/ /\ locks[k] = NoLock
          /\ \E l \in LockIds :
                /\ ~Referenced(l)
                /\ lock' = [lock EXCEPT ![t] = l]
                /\ locks' = [locks EXCEPT ![k] = l]
    /\ UNCHANGED owner

\* A firing with allowConcurrent = true runs the task under no lock.
ExecuteConcurrent(t, k) ==
    /\ pc[t] = "idle"
    /\ Goto(t, "run")
    /\ key' = [key EXCEPT ![t] = k]
    /\ UNCHANGED <<locks, owner, lock>>

\* Mutated form: the task runs whatever tryLock answers.
AcquireUnchecked(t) ==
    /\ pc[t] = "tryLock"
    /\ owner' = [owner EXCEPT ![lock[t]] = t]
    /\ Goto(t, "run")
    /\ UNCHANGED <<locks, key, lock>>

Acquire(t) ==
    /\ pc[t] = "tryLock"
    /\ owner[lock[t]] = NoThread
    /\ owner' = [owner EXCEPT ![lock[t]] = t]
    /\ Goto(t, "run")
    /\ UNCHANGED <<locks, key, lock>>

\* "is already running, skipping..."
Skip(t) ==
    /\ pc[t] = "tryLock"
    /\ owner[lock[t]] # NoThread
    /\ Return(t)
    /\ UNCHANGED <<locks, owner>>

\* Mutated form: no finally, a throwing task leaves its lock behind.
TaskEndsNoFinally(t) ==
    /\ pc[t] = "run"
    /\ \/ /\ lock[t] # NoLock
          /\ Goto(t, "unlock")
          /\ UNCHANGED <<key, lock>>
       \/ Return(t)
    /\ UNCHANGED <<locks, owner>>

\* The task returns or throws (also when the registry no longer has it);
\* either way a locked firing enters its finally block.
TaskEnds(t) ==
    /\ pc[t] = "run"
    /\ \/ /\ lock[t] # NoLock
          /\ Goto(t, "unlock")
          /\ UNCHANGED <<key, lock>>
       \/ /\ lock[t] = NoLock
          /\ Return(t)
    /\ UNCHANGED <<locks, owner>>

Unlock(t) ==
    /\ pc[t] = "unlock"
    /\ owner' = [owner EXCEPT ![lock[t]] = NoThread]
    /\ Goto(t, "remove")
    /\ UNCHANGED <<locks, key, lock>>

\* Mutated form: no removal.
KeepLock(t) ==
    /\ pc[t] = "remove"
    /\ Return(t)
    /\ UNCHANGED <<locks, owner>>

\* locks.remove(jobKey, lock) removes the entry only if it still maps to
\* this lock.
RemoveLock(t) ==
    /\ pc[t] = "remove"
    /\ locks' = IF locks[key[t]] = lock[t]
                  THEN [locks EXCEPT ![key[t]] = NoLock]
                  ELSE locks
    /\ Return(t)
    /\ UNCHANGED owner

\* The steps of a firing under way, and the firings themselves.
Step(t) == Acquire(t) \/ Skip(t) \/ TaskEnds(t) \/ Unlock(t) \/ RemoveLock(t)

Fire(t, k) == ComputeIfAbsent(t, k) \/ ExecuteConcurrent(t, k)

Next == \E t \in Threads : Step(t) \/ \E k \in JobKeys : Fire(t, k)

\* Worker threads are scheduled and tasks end; no firing has to happen.
Fairness == \A t \in Threads : WF_vars(Step(t))

Spec == Init /\ [][Next]_vars

FairSpec == Spec /\ Fairness

-----------------------------------------------------------------------------

(* The inductive invariant behind the properties: who holds a lock, what a *)
(* thread at each label refers to, and that a lock belongs to one job.     *)

HolderRuns ==
    \A l \in LockIds : owner[l] # NoThread =>
        lock[owner[l]] = l /\ pc[owner[l]] \in {"run", "unlock"}

FrameInv ==
    \A t \in Threads :
        /\ pc[t] = "idle" <=> key[t] = NoKey
        /\ pc[t] = "idle" => lock[t] = NoLock
        /\ pc[t] \in {"tryLock", "unlock", "remove"} => lock[t] # NoLock
        /\ pc[t] \in {"run", "unlock"} /\ lock[t] # NoLock => owner[lock[t]] = t

OneJobPerLock ==
    /\ \A t, u \in Threads : lock[t] # NoLock /\ lock[t] = lock[u] => key[t] = key[u]
    /\ \A t \in Threads, k \in JobKeys :
          lock[t] # NoLock /\ lock[t] = locks[k] => key[t] = k

-----------------------------------------------------------------------------

\* A thread runs the task of a job that does not allow concurrency.
RunsExclusively(t) == pc[t] = "run" /\ lock[t] # NoLock

\* What the skip message promises: a firing that finds its job running is
\* skipped, so two threads never run the same exclusive job together.  (A
\* second run can start on a fresh lock once the entry of a lock that was
\* taken over between unlock and remove is gone.)
MutualExclusion ==
    \A t, u \in Threads :
        t # u /\ RunsExclusively(t) /\ RunsExclusively(u) => key[t] # key[u]

\* What the lock map does guarantee: of two overlapping runs of one job, at
\* least one holds a lock that the map has already dropped; runs that go
\* through the mapped lock exclude each other.
OverlapNeedsStaleLock ==
    \A t, u \in Threads :
        t # u /\ RunsExclusively(t) /\ RunsExclusively(u) /\ key[t] = key[u]
            => lock[t] # locks[key[t]] \/ lock[u] # locks[key[u]]

\* The static map does not grow: an entry exists only while a firing of its
\* job is under way, so nothing is left behind when all workers are idle,
\* whichever thread ends up removing whose entry.
NoLockLeak ==
    \A k \in JobKeys :
        locks[k] # NoLock => \E t \in Threads : key[t] = k /\ lock[t] = locks[k]

\* The inductive invariant of the module.
IInv == TypeOK /\ HolderRuns /\ FrameInv /\ OneJobPerLock /\ NoLockLeak

\* A run of job k whose lock is the one the map has for k.
Covered(t, k) == RunsExclusively(t) /\ key[t] = k /\ lock[t] = locks[k]

Exclusion == INSTANCE JobExclusion WITH
    Jobs <- JobKeys,
    Runners <- Threads,
    running <- [k \in JobKeys |-> {t \in Threads : Covered(t, k)}]

\* The delegate implements the exclusion a job without allowConcurrent is
\* promised, for the runs that the map covers: a run on the mapped lock starts
\* only when no other run on it is under way, and a run that lost its entry
\* is never covered again, whatever lock the map has for the job by then.
ImplementsExclusion == Exclusion!Spec

\* A firing is skipped only while another firing of the same job holds the
\* lock it tried: no firing is lost because of a lock nobody will release.
SkippedOnlyWhileHeld ==
    [][\A t \in Threads :
          pc[t] = "tryLock" /\ pc'[t] = "idle" =>
            \E u \in Threads \ {t} :
                /\ key[u] = key[t]
                /\ lock[u] = lock[t]
                /\ pc[u] \in {"run", "unlock"}]_vars

\* A job whose mapped lock is held becomes available again, even when its
\* task throws: the lock is released or its entry is dropped.
Locked(k) == locks[k] # NoLock /\ owner[locks[k]] # NoThread

NeverStaysLocked == \A k \in JobKeys : Locked(k) ~> ~Locked(k)

=============================================================================
