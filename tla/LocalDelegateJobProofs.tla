----------------------- MODULE LocalDelegateJobProofs -----------------------
(***************************************************************************)
(* Proofs about LocalDelegateJob, for every set of worker threads, job     *)
(* keys and lock objects.                                                  *)
(***************************************************************************)
EXTENDS LocalDelegateJob, TLAPS

\* Before the first firing nothing is locked, mapped or under way.
LEMMA InitIInv == Init => IInv
  BY NullsAssumption DEF Init, IInv, TypeOK, PCs, HolderRuns, FrameInv,
                         OneJobPerLock, NoLockLeak

\* Looking a lock up, or mapping a fresh one, keeps the invariant: a fresh
\* lock is nobody's, so it has no holder and belongs to the new firing only.
LEMMA ComputeIfAbsentIInv ==
  ASSUME IInv, NEW t \in Threads, NEW k \in JobKeys, ComputeIfAbsent(t, k)
  PROVE  IInv'
<1> USE NullsAssumption DEF IInv, TypeOK, PCs, ComputeIfAbsent, Goto
<1>1. CASE locks[k] # NoLock
  <2>1. /\ lock' = [lock EXCEPT ![t] = locks[k]]
        /\ locks' = locks
    BY <1>1
  <2>2. \A u \in Threads : lock[u] = locks[k] => key[u] = k
    BY <1>1 DEF OneJobPerLock
  <2>3. TypeOK' BY <2>1
  <2>4. HolderRuns' BY <2>1 DEF HolderRuns, FrameInv
  <2>5. FrameInv' BY <1>1, <2>1 DEF HolderRuns, FrameInv
  <2>6. OneJobPerLock'
    <3>1. \A j \in JobKeys : locks[j] = locks[k] => j = k
      BY <1>1 DEF NoLockLeak, OneJobPerLock
    <3>2. QED BY <1>1, <2>1, <2>2, <3>1 DEF OneJobPerLock
  <2>7. NoLockLeak' BY <1>1, <2>1 DEF NoLockLeak, FrameInv
  <2>8. QED BY <2>3, <2>4, <2>5, <2>6, <2>7
<1>2. CASE locks[k] = NoLock
  <2>1. PICK l \in LockIds : /\ ~Referenced(l)
                             /\ lock' = [lock EXCEPT ![t] = l]
                             /\ locks' = [locks EXCEPT ![k] = l]
    BY <1>2
  <2>2. /\ \A u \in Threads : lock[u] # l
        /\ \A j \in JobKeys : locks[j] # l
        /\ owner[l] = NoThread
    BY <2>1 DEF Referenced, HolderRuns
  <2>3. TypeOK' BY <2>1
  <2>4. HolderRuns' BY <2>1, <2>2 DEF HolderRuns, FrameInv
  <2>5. FrameInv' BY <2>1, <2>2 DEF FrameInv
  <2>6. OneJobPerLock' BY <1>2, <2>1, <2>2 DEF OneJobPerLock
  <2>7. NoLockLeak' BY <1>2, <2>1, <2>2 DEF NoLockLeak, FrameInv
  <2>8. QED BY <2>3, <2>4, <2>5, <2>6, <2>7
<1>3. QED BY <1>1, <1>2

\* A firing without lock leaves the locks alone.
LEMMA ExecuteConcurrentIInv ==
  ASSUME IInv, NEW t \in Threads, NEW k \in JobKeys, ExecuteConcurrent(t, k)
  PROVE  IInv'
<1> USE NullsAssumption DEF IInv, TypeOK, PCs, ExecuteConcurrent, Goto
<1>1. TypeOK' OBVIOUS
<1>2. HolderRuns' BY DEF HolderRuns
<1>3. FrameInv' BY DEF FrameInv
<1>4. OneJobPerLock' BY DEF OneJobPerLock, FrameInv
<1>5. NoLockLeak' BY DEF NoLockLeak, FrameInv
<1>6. QED BY <1>1, <1>2, <1>3, <1>4, <1>5

\* tryLock succeeds only on a lock without holder.
LEMMA AcquireIInv ==
  ASSUME IInv, NEW t \in Threads, Acquire(t)
  PROVE  IInv'
<1> USE NullsAssumption DEF IInv, TypeOK, PCs, Acquire, Goto
<1>1. lock[t] \in LockIds BY DEF FrameInv
<1>2. TypeOK' BY <1>1
<1>3. HolderRuns' BY <1>1 DEF HolderRuns, FrameInv
<1>4. FrameInv' BY <1>1 DEF HolderRuns, FrameInv
<1>5. OneJobPerLock' BY DEF OneJobPerLock
<1>6. NoLockLeak' BY DEF NoLockLeak
<1>7. QED BY <1>2, <1>3, <1>4, <1>5, <1>6

\* A skipped firing drops its reference; the holder of the lock it tried
\* still refers to it, so a mapped lock stays accounted for.
LEMMA SkipIInv ==
  ASSUME IInv, NEW t \in Threads, Skip(t)
  PROVE  IInv'
<1> USE NullsAssumption DEF IInv, TypeOK, PCs, Skip, Return, Goto
<1>1. PICK u \in Threads : u # t /\ lock[u] = lock[t] /\ key[u] = key[t]
  BY DEF HolderRuns, FrameInv, OneJobPerLock
<1>2. TypeOK' OBVIOUS
<1>3. HolderRuns' BY DEF HolderRuns
<1>4. FrameInv' BY DEF FrameInv
<1>5. OneJobPerLock' BY DEF OneJobPerLock
<1>6. NoLockLeak'
  <2> SUFFICES ASSUME NEW k \in JobKeys, locks'[k] # NoLock
               PROVE  \E v \in Threads : key'[v] = k /\ lock'[v] = locks'[k]
    BY DEF NoLockLeak
  <2>1. PICK v \in Threads : key[v] = k /\ lock[v] = locks[k]
    BY DEF NoLockLeak
  <2>2. CASE v = t BY <1>1, <2>1, <2>2
  <2>3. CASE v # t BY <2>1, <2>3
  <2>4. QED BY <2>2, <2>3
<1>7. QED BY <1>2, <1>3, <1>4, <1>5, <1>6

\* The end of the task moves a locked firing to its finally block.
LEMMA TaskEndsIInv ==
  ASSUME IInv, NEW t \in Threads, TaskEnds(t)
  PROVE  IInv'
<1> USE NullsAssumption DEF IInv, TypeOK, PCs, TaskEnds, Return, Goto
<1>1. TypeOK' OBVIOUS
<1>2. HolderRuns' BY DEF HolderRuns
<1>3. FrameInv' BY DEF FrameInv
<1>4. OneJobPerLock' BY DEF OneJobPerLock
<1>5. NoLockLeak' BY DEF NoLockLeak
<1>6. QED BY <1>1, <1>2, <1>3, <1>4, <1>5

\* unlock frees the one lock the thread holds.
LEMMA UnlockIInv ==
  ASSUME IInv, NEW t \in Threads, Unlock(t)
  PROVE  IInv'
<1> USE NullsAssumption DEF IInv, TypeOK, PCs, Unlock, Goto
<1>1. lock[t] \in LockIds /\ owner[lock[t]] = t BY DEF FrameInv
<1>2. TypeOK' BY <1>1
<1>3. HolderRuns' BY <1>1 DEF HolderRuns
<1>4. FrameInv' BY <1>1 DEF FrameInv
<1>5. OneJobPerLock' BY DEF OneJobPerLock
<1>6. NoLockLeak' BY DEF NoLockLeak
<1>7. QED BY <1>2, <1>3, <1>4, <1>5, <1>6

\* The entry the thread's lock occupies disappears with the thread's
\* reference; entries of other jobs are accounted for by other threads.
LEMMA RemoveLockIInv ==
  ASSUME IInv, NEW t \in Threads, RemoveLock(t)
  PROVE  IInv'
<1> USE NullsAssumption DEF IInv, TypeOK, PCs, RemoveLock, Return, Goto
<1>1. key[t] \in JobKeys /\ lock[t] \in LockIds BY DEF FrameInv
<1>2. TypeOK' BY <1>1
<1>3. HolderRuns' BY DEF HolderRuns
<1>4. FrameInv' BY DEF FrameInv
<1>5. OneJobPerLock' BY <1>1 DEF OneJobPerLock
<1>6. NoLockLeak' BY <1>1 DEF NoLockLeak
<1>7. QED BY <1>2, <1>3, <1>4, <1>5, <1>6

\* Every step of the specification keeps the invariant.
LEMMA NextIInv == IInv /\ [Next]_vars => IInv'
<1> SUFFICES ASSUME IInv, [Next]_vars PROVE IInv'
  OBVIOUS
<1>1. CASE UNCHANGED vars
  BY <1>1 DEF vars, IInv, TypeOK, HolderRuns, FrameInv, OneJobPerLock, NoLockLeak
<1>2. ASSUME NEW t \in Threads, Step(t) PROVE IInv'
  BY <1>2, AcquireIInv, SkipIInv, TaskEndsIInv, UnlockIInv, RemoveLockIInv DEF Step
<1>3. ASSUME NEW t \in Threads, NEW k \in JobKeys, Fire(t, k) PROVE IInv'
  BY <1>3, ComputeIfAbsentIInv, ExecuteConcurrentIInv DEF Fire
<1>4. QED BY <1>1, <1>2, <1>3 DEF Next

\* The inductive invariant holds in every state of LocalDelegateJob.
THEOREM Invariance == Spec => []IInv
  BY InitIInv, NextIInv, PTL DEF Spec

\* Type correctness of the lock map, the locks and the worker frames.
THEOREM TypeCorrect == Spec => []TypeOK
<1>1. IInv => TypeOK BY DEF IInv
<1>2. QED BY <1>1, Invariance, PTL

\* The static lock map of LocalDelegateJob holds an entry only while a
\* firing of that job is under way.
THEOREM LockMapDoesNotLeak == Spec => []NoLockLeak
<1>1. IInv => NoLockLeak BY DEF IInv
<1>2. QED BY <1>1, Invariance, PTL

\* Two exclusive runs of one job overlap only when one of them holds a lock
\* the map has dropped: tryLock on the mapped lock does exclude.
THEOREM MappedLockExcludes == Spec => []OverlapNeedsStaleLock
<1>1. IInv => OverlapNeedsStaleLock
  BY DEF IInv, FrameInv, OverlapNeedsStaleLock, RunsExclusively
<1>2. QED BY <1>1, Invariance, PTL

\* execute returns from tryLock without running the task only while another
\* thread is inside the same job and holds the lock.
THEOREM SkipsAreJustified == Spec => SkippedOnlyWhileHeld
<1> DEFINE Justified ==
      \A t \in Threads :
          pc[t] = "tryLock" /\ pc'[t] = "idle" =>
            \E u \in Threads \ {t} :
                /\ key[u] = key[t]
                /\ lock[u] = lock[t]
                /\ pc[u] \in {"run", "unlock"}
<1>1. IInv /\ [Next]_vars => [Justified]_vars
  <2> SUFFICES ASSUME IInv, Next, NEW t \in Threads,
                      pc[t] = "tryLock", pc'[t] = "idle"
               PROVE  \E u \in Threads \ {t} : /\ key[u] = key[t]
                                               /\ lock[u] = lock[t]
                                               /\ pc[u] \in {"run", "unlock"}
    OBVIOUS
  <2>1. Skip(t)
    BY DEF Next, Step, Fire, Acquire, Skip, TaskEnds, Unlock, RemoveLock,
           ComputeIfAbsent, ExecuteConcurrent, Return, Goto, IInv, TypeOK
  <2>2. lock[t] \in LockIds /\ owner[lock[t]] \in Threads \ {t}
    BY <2>1, NullsAssumption DEF Skip, IInv, TypeOK, FrameInv, HolderRuns
  <2>3. QED BY <2>2, NullsAssumption DEF IInv, TypeOK, HolderRuns, OneJobPerLock
<1>2. QED BY <1>1, Invariance, PTL DEF Spec, SkippedOnlyWhileHeld

\* A step after which every covered run was covered before maps to End, which
\* allows stuttering.
LEMMA EndStep ==
  ASSUME \A t \in Threads, k \in JobKeys : Covered(t, k)' => Covered(t, k)
  PROVE  Exclusion!Next
  BY DEF Exclusion!Next, Exclusion!End

\* tryLock on the mapped lock starts a covered run, and succeeds only when
\* there is none: the thread of a covered run holds that very lock.
LEMMA MappedAcquireStarts ==
  ASSUME IInv, NEW t \in Threads, Acquire(t), lock[t] = locks[key[t]]
  PROVE  Exclusion!Next
<1> USE DEF IInv, TypeOK
<1>1. PICK k \in JobKeys : k = key[t]
  BY DEF Acquire, FrameInv
<1>2. /\ pc[t] = "tryLock" /\ lock[t] = locks[k] /\ lock[t] # NoLock
      /\ owner[lock[t]] = NoThread
      /\ pc' = [pc EXCEPT ![t] = "run"]
      /\ locks' = locks /\ key' = key /\ lock' = lock
  BY <1>1 DEF Acquire, Goto, FrameInv
<1>3. Covered(t, k)'
  BY <1>1, <1>2 DEF Covered, RunsExclusively
<1>4. \A u \in Threads : ~Covered(u, k)
  BY <1>2, NullsAssumption DEF Covered, RunsExclusively, FrameInv
<1>5. \A u \in Threads \ {t}, j \in JobKeys : Covered(u, j)' <=> Covered(u, j)
  BY <1>2 DEF Covered, RunsExclusively
<1>6. \A j \in JobKeys \ {k} : ~Covered(t, j)' /\ ~Covered(t, j)
  BY <1>1, <1>2 DEF Covered, RunsExclusively
<1>7. Exclusion!Start(k, t)
  <2> DEFINE R == [j \in JobKeys |-> {u \in Threads : Covered(u, j)}]
  <2>1. R[k] = {} BY <1>4
  <2>2. R'[k] = {t}
    <3>1. \A u \in Threads : Covered(u, k)' <=> u = t
      BY <1>3, <1>4, <1>5
    <3>2. R'[k] = {u \in Threads : Covered(u, k)'} OBVIOUS
    <3>3. QED BY <3>1, <3>2
  <2>3. \A j \in JobKeys \ {k} : R'[j] = R[j] BY <1>5, <1>6
  <2>4. R' = [R EXCEPT ![k] = {t}]
    <3> HIDE DEF R
    <3>1. R = [j \in JobKeys |-> R[j]] /\ R' = [j \in JobKeys |-> R'[j]] BY DEF R
    <3>2. QED BY <2>2, <2>3, <3>1
  <2>5. QED BY <2>1, <2>4 DEF Exclusion!Start
<1>8. QED BY <1>7 DEF Exclusion!Next

\* tryLock on a lock that the map has dropped covers nothing.
LEMMA StaleAcquireCoversNothing ==
  ASSUME IInv, NEW t \in Threads, Acquire(t), lock[t] # locks[key[t]]
  PROVE  Exclusion!Next
<1> SUFFICES ASSUME NEW u \in Threads, NEW k \in JobKeys, Covered(u, k)'
             PROVE  Covered(u, k)
  BY EndStep
<1>1. /\ pc' = [pc EXCEPT ![t] = "run"] /\ pc \in [Threads -> PCs]
      /\ locks' = locks /\ key' = key /\ lock' = lock
  BY DEF Acquire, Goto, IInv, TypeOK
<1>2. u # t BY <1>1 DEF Covered
<1>3. QED BY <1>1, <1>2 DEF Covered, RunsExclusively

\* No other step covers a run: the map gets only locks that nobody refers to,
\* and what a removal takes away is never given back.
LEMMA OthersEnd ==
  ASSUME IInv, [Next]_vars, \A t \in Threads : ~Acquire(t)
  PROVE  Exclusion!Next
<1> SUFFICES ASSUME NEW u \in Threads, NEW k \in JobKeys, Covered(u, k)'
             PROVE  Covered(u, k)
  BY EndStep
<1> USE DEF IInv, TypeOK, Covered, RunsExclusively
<1>1. CASE UNCHANGED vars BY <1>1 DEF vars
<1>2. ASSUME NEW t \in Threads, Skip(t) \/ TaskEnds(t) \/ Unlock(t) PROVE Covered(u, k)
  BY <1>2 DEF Skip, TaskEnds, Unlock, Return, Goto
<1>3. ASSUME NEW t \in Threads, RemoveLock(t) PROVE Covered(u, k)
  <2>1. u # t /\ key[u] = k /\ pc[u] = "run" /\ lock[u] # NoLock
    BY <1>3 DEF RemoveLock, Return, Goto
  <2>2. lock[u] = locks'[k] BY <1>3, <2>1 DEF RemoveLock, Return
  <2>3. locks'[k] = locks[k] BY <1>3, <2>1, <2>2 DEF RemoveLock
  <2>4. QED BY <2>1, <2>2, <2>3
<1>4. ASSUME NEW t \in Threads, NEW j \in JobKeys, ComputeIfAbsent(t, j)
      PROVE  Covered(u, k)
  <2>1. u # t /\ key[u] = k /\ pc[u] = "run" /\ lock[u] # NoLock /\ lock[u] = locks'[k]
    BY <1>4 DEF ComputeIfAbsent, Goto
  <2>2. locks'[k] = locks[k]
    BY <1>4, <2>1 DEF ComputeIfAbsent, Referenced
  <2>3. QED BY <2>1, <2>2
<1>5. ASSUME NEW t \in Threads, NEW j \in JobKeys, ExecuteConcurrent(t, j)
      PROVE  Covered(u, k)
  BY <1>5 DEF ExecuteConcurrent, Goto, FrameInv
<1>6. QED BY <1>1, <1>2, <1>3, <1>4, <1>5 DEF Next, Step, Fire

\* LocalDelegateJob implements JobExclusion for the runs on the lock that the
\* static map has for their job.
THEOREM MappedRunsExclude == Spec => ImplementsExclusion
<1>1. Init => Exclusion!Init
  BY DEF Init, Exclusion!Init, Covered, RunsExclusively
<1>2. IInv /\ [Next]_vars => Exclusion!Next
  BY MappedAcquireStarts, StaleAcquireCoversNothing, OthersEnd
<1>3. QED BY <1>1, <1>2, Invariance, PTL DEF Spec, ImplementsExclusion, Exclusion!Spec
=============================================================================
