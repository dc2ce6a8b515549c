----------------------- MODULE DistributedDelegateJobProofs -----------------------
(***************************************************************************)
(* Proofs about DistributedDelegateJob, for every set of nodes, threads    *)
(* and jobs: the lock in Redis and the labels of execute fit, the runs     *)
(* covered by a lease implement JobExclusion, and only the holder of a     *)
(* renewed lock releases it.                                               *)
(***************************************************************************)
EXTENDS DistributedDelegateJob, TLAPS

\* Before the first firing no lock is held.
LEMMA InitIInv == Init => IInv
<1> SUFFICES ASSUME Init PROVE IInv
  OBVIOUS
<1>1. TypeOK BY ConstantsAssumption DEF Init, TypeOK, PCs
<1>2. FrameInv BY DEF Init, FrameInv
<1>3. LeaseInv BY DEF Init, LeaseInv
<1>4. HoldsInv BY ConstantsAssumption DEF Init, HoldsInv
<1>5. WatchdogInv BY DEF Init, WatchdogInv
<1>6. QED BY <1>1, <1>2, <1>3, <1>4, <1>5 DEF IInv

\* A firing begins: no lock is touched yet.
LEMMA FireIInv ==
  ASSUME IInv, NEW w \in Workers, NEW j \in Jobs, NEW c \in BOOLEAN, Fire(w, j, c)
  PROVE  IInv'
<1> USE ConstantsAssumption DEF IInv, TypeOK, Fire, Goto, redis
<1>1. TypeOK' BY DEF PCs, FrameInv, HoldsInv
<1>2. FrameInv' BY DEF FrameInv
<1>3. LeaseInv' BY DEF FrameInv, LeaseInv
<1>4. HoldsInv' BY DEF FrameInv, LeaseInv, HoldsInv
<1>5. WatchdogInv' BY DEF FrameInv, LeaseInv, HoldsInv, WatchdogInv
<1>6. QED BY <1>1, <1>2, <1>3, <1>4, <1>5

\* A free lock, or one the thread left behind, becomes the lease of the run.
LEMMA AcquireIInv ==
  ASSUME IInv, NEW w \in Workers, Acquire(w)
  PROVE  IInv'
<1> USE ConstantsAssumption DEF IInv, TypeOK, Acquire, Goto, Take, Available
<1>1. TypeOK' BY DEF PCs, FrameInv, HoldsInv, WatchdogInv
<1>2. FrameInv' BY DEF FrameInv
<1>3. LeaseInv' BY DEF FrameInv, LeaseInv
<1>4. HoldsInv' BY DEF FrameInv, LeaseInv, HoldsInv
<1>5. WatchdogInv' BY DEF FrameInv, LeaseInv, HoldsInv, WatchdogInv
<1>6. QED BY <1>1, <1>2, <1>3, <1>4, <1>5

\* A taken lock stays with its holder.
LEMMA SkipIInv ==
  ASSUME IInv, NEW w \in Workers, Skip(w)
  PROVE  IInv'
<1> USE ConstantsAssumption DEF IInv, TypeOK, Skip, Goto, Return, redis
<1>1. TypeOK' BY DEF PCs, FrameInv, HoldsInv
<1>2. FrameInv' BY DEF FrameInv
<1>3. LeaseInv' BY DEF FrameInv, LeaseInv
<1>4. HoldsInv' BY DEF FrameInv, LeaseInv, HoldsInv
<1>5. WatchdogInv' BY DEF FrameInv, LeaseInv, HoldsInv, WatchdogInv
<1>6. QED BY <1>1, <1>2, <1>3, <1>4, <1>5

\* A lost answer may leave a lock without a run behind.
LEMMA TryLockThrowsIInv ==
  ASSUME IInv, NEW w \in Workers, TryLockThrows(w)
  PROVE  IInv'
<1> USE ConstantsAssumption DEF IInv, TypeOK, TryLockThrows, Goto, Return, Take, Available, redis
<1>1. TypeOK' BY DEF PCs, FrameInv, HoldsInv, WatchdogInv
<1>2. FrameInv' BY DEF FrameInv
<1>3. LeaseInv' BY DEF FrameInv, LeaseInv
<1>4. HoldsInv' BY DEF FrameInv, LeaseInv, HoldsInv
<1>5. WatchdogInv' BY DEF FrameInv, LeaseInv, HoldsInv, WatchdogInv
<1>6. QED BY <1>1, <1>2, <1>3, <1>4, <1>5

\* The end of the task leaves the lock to the finally block.
LEMMA TaskEndsIInv ==
  ASSUME IInv, NEW w \in Workers, TaskEnds(w)
  PROVE  IInv'
<1> USE ConstantsAssumption DEF IInv, TypeOK, TaskEnds, Goto, Return, redis
<1>1. TypeOK' BY DEF PCs, FrameInv, HoldsInv
<1>2. FrameInv' BY DEF FrameInv
<1>3. LeaseInv' BY DEF FrameInv, LeaseInv
<1>4. HoldsInv' BY DEF FrameInv, LeaseInv, HoldsInv
<1>5. WatchdogInv' BY DEF FrameInv, LeaseInv, HoldsInv, WatchdogInv
<1>6. QED BY <1>1, <1>2, <1>3, <1>4, <1>5

\* A worker whose lock is gone returns without an unlock.
LEMMA CheckHeldIInv ==
  ASSUME IInv, NEW w \in Workers, CheckHeld(w)
  PROVE  IInv'
<1> USE ConstantsAssumption DEF IInv, TypeOK, CheckHeld, Goto, Return, redis
<1>1. TypeOK' BY DEF PCs, FrameInv, HoldsInv
<1>2. FrameInv' BY DEF FrameInv
<1>3. LeaseInv' BY DEF FrameInv, LeaseInv
<1>4. HoldsInv' BY DEF FrameInv, LeaseInv, HoldsInv
<1>5. WatchdogInv' BY DEF FrameInv, LeaseInv, HoldsInv, WatchdogInv
<1>6. QED BY <1>1, <1>2, <1>3, <1>4, <1>5

\* The lock stays with the run's thread and its watchdog.
LEMMA CheckHeldFailsIInv ==
  ASSUME IInv, NEW w \in Workers, CheckHeldFails(w)
  PROVE  IInv'
<1> USE ConstantsAssumption DEF IInv, TypeOK, CheckHeldFails, Goto, Return
<1>1. TypeOK' BY DEF PCs, FrameInv, HoldsInv
<1>2. FrameInv' BY DEF FrameInv
<1>3. LeaseInv' BY DEF FrameInv, LeaseInv
<1>4. HoldsInv' BY DEF FrameInv, LeaseInv, HoldsInv
<1>5. WatchdogInv' BY DEF FrameInv, LeaseInv, HoldsInv, WatchdogInv
<1>6. QED BY <1>1, <1>2, <1>3, <1>4, <1>5

\* The holder gives back one hold, or nothing when its lease has expired.
LEMMA UnlockIInv ==
  ASSUME IInv, NEW w \in Workers, Unlock(w)
  PROVE  IInv'
<1> USE ConstantsAssumption DEF IInv, TypeOK, Unlock, Goto, Return, Release, Unwatch, redis
<1>0. /\ job[w] \in Jobs
      /\ holder[job[w]] = w => holds[job[w]] \in 1..MaxHolds
  BY DEF FrameInv, HoldsInv
<1>1. TypeOK'
  <2>1. CASE holder[job[w]] = w
    <3>1. holds[job[w]] - 1 \in 0..MaxHolds BY <1>0, <2>1
    <3>2. holds' \in [Jobs -> 0..MaxHolds] BY <2>1, <3>1
    <3>3. /\ holder' \in [Jobs -> Workers \cup {Nobody, DeadClient}]
          /\ renewals' \in [Jobs -> 0..MaxHolds]
      <4>1. \E x \in 0..MaxHolds : renewals' = [renewals EXCEPT ![job[w]] = x]
        <5>1. renewals[job[w]] \in 0..MaxHolds BY <1>0
        <5>2. QED BY <2>1, <5>1
      <4>2. renewals' \in [Jobs -> 0..MaxHolds] BY <1>0, <4>1
      <4>3. \E x \in {Nobody, holder[job[w]]} : holder' = [holder EXCEPT ![job[w]] = x]
        BY <2>1
      <4>4. QED BY <1>0, <4>2, <4>3
    <3>4. /\ pc' \in [Workers -> PCs] /\ job' \in [Workers -> Jobs \cup {NoJob}]
          /\ locked' \in [Workers -> BOOLEAN] /\ lapsed' \subseteq Workers
          /\ orphaned' \subseteq Jobs
      BY <2>1 DEF PCs
    <3>5. QED BY <3>2, <3>3, <3>4
  <2>2. CASE holder[job[w]] # w BY <1>0, <2>2 DEF PCs
  <2>3. QED BY <2>1, <2>2
<1>2. FrameInv' BY DEF FrameInv
<1>3. LeaseInv' BY DEF FrameInv, LeaseInv
<1>4. HoldsInv' BY DEF FrameInv, LeaseInv, HoldsInv
<1>5. WatchdogInv' BY DEF FrameInv, LeaseInv, HoldsInv, WatchdogInv
<1>6. QED BY <1>1, <1>2, <1>3, <1>4, <1>5

\* The lock stays without a run.
LEMMA UnlockFailsIInv ==
  ASSUME IInv, NEW w \in Workers, UnlockFails(w)
  PROVE  IInv'
<1> USE ConstantsAssumption DEF IInv, TypeOK, UnlockFails, Goto, Return, Unwatch
<1>1. TypeOK' BY DEF PCs, FrameInv, HoldsInv
<1>2. FrameInv' BY DEF FrameInv
<1>3. LeaseInv' BY DEF FrameInv, LeaseInv
<1>4. HoldsInv' BY DEF FrameInv, LeaseInv, HoldsInv
<1>5. WatchdogInv' BY DEF FrameInv, LeaseInv, HoldsInv, WatchdogInv
<1>6. QED BY <1>1, <1>2, <1>3, <1>4, <1>5

\* Only the watchdog stops.
LEMMA RenewalLostIInv ==
  ASSUME IInv, NEW j \in Jobs, RenewalLost(j)
  PROVE  IInv'
<1> USE ConstantsAssumption DEF IInv, TypeOK, RenewalLost
<1>1. TypeOK' BY DEF FrameInv, HoldsInv
<1>2. FrameInv' BY DEF FrameInv
<1>3. LeaseInv' BY DEF FrameInv, LeaseInv
<1>4. HoldsInv' BY DEF FrameInv, LeaseInv, HoldsInv
<1>5. WatchdogInv' BY DEF FrameInv, LeaseInv, HoldsInv, WatchdogInv
<1>6. QED BY <1>1, <1>2, <1>3, <1>4, <1>5

\* The lock becomes free, and its run is noted as lapsed.
LEMMA LeaseExpiresIInv ==
  ASSUME IInv, NEW j \in Jobs, LeaseExpires(j)
  PROVE  IInv'
<1> USE ConstantsAssumption DEF IInv, TypeOK, LeaseExpires
<1>1. TypeOK' BY DEF FrameInv, HoldsInv
<1>2. FrameInv' BY DEF FrameInv
<1>3. LeaseInv' BY DEF FrameInv, LeaseInv
<1>4. HoldsInv' BY DEF FrameInv, LeaseInv, HoldsInv
<1>5. WatchdogInv' BY DEF FrameInv, LeaseInv, HoldsInv, WatchdogInv
<1>6. QED BY <1>1, <1>2, <1>3, <1>4, <1>5

\* The locks of a node pass to its dead client, its runs end.
LEMMA CrashIInv ==
  ASSUME IInv, NEW n \in Nodes, Crash(n)
  PROVE  IInv'
<1> USE ConstantsAssumption DEF IInv, TypeOK, Crash
<1>1. TypeOK' BY DEF PCs, FrameInv, HoldsInv
<1>2. FrameInv' BY DEF FrameInv
<1>3. LeaseInv' BY DEF FrameInv, LeaseInv
<1>4. HoldsInv'
  <2>1. \A j \in Jobs : /\ holds'[j] = holds[j]
                       /\ holder'[j] = Nobody <=> holder[j] = Nobody
    BY DEF Workers
  <2>2. ASSUME NEW j \in Jobs, NEW w \in Workers,
               holder'[j] = w, ~(locked'[w] /\ job'[w] = j)
        PROVE  holds[j] < MaxHolds
    <3>1. holder[j] = w /\ w[1] # n BY <2>2 DEF Workers
    <3>2. ~(locked[w] /\ job[w] = j) BY <2>2, <3>1
    <3>3. QED BY <3>1, <3>2 DEF HoldsInv
  <2>3. QED BY <2>1, <2>2 DEF HoldsInv
<1>5. WatchdogInv'
  <2>1. ASSUME NEW j \in Jobs, holder[j] \in {n} \X Slots
        PROVE  renewals'[j] = 0 /\ j \notin orphaned' /\ holds'[j] = holds[j] /\ holds[j] >= 0
    BY <2>1
  <2>2. ASSUME NEW j \in Jobs, holder[j] \notin {n} \X Slots
        PROVE  /\ renewals'[j] = renewals[j] /\ holds'[j] = holds[j] /\ holder'[j] = holder[j]
               /\ j \in orphaned' <=> j \in orphaned
               /\ \A w \in Workers : holder[j] = w => locked'[w] = locked[w] /\ job'[w] = job[w]
    BY <2>2 DEF Workers
  <2>3. QED BY <2>1, <2>2 DEF WatchdogInv
<1>6. QED BY <1>1, <1>2, <1>3, <1>4, <1>5

\* Every step keeps the invariant.
LEMMA NextIInv == IInv /\ [Next]_vars => IInv'
<1> SUFFICES ASSUME IInv, [Next]_vars PROVE IInv'
  OBVIOUS
<1>1. CASE UNCHANGED vars
  BY <1>1 DEF vars, IInv, TypeOK, FrameInv, LeaseInv, HoldsInv, WatchdogInv
<1>2. ASSUME NEW w \in Workers, Step(w) PROVE IInv'
  BY <1>2, AcquireIInv, SkipIInv, TryLockThrowsIInv, TaskEndsIInv, CheckHeldIInv,
     CheckHeldFailsIInv, UnlockIInv, UnlockFailsIInv DEF Step
<1>3. ASSUME NEW w \in Workers, NEW j \in Jobs, NEW c \in BOOLEAN, Fire(w, j, c)
      PROVE  IInv'
  BY <1>3, FireIInv
<1>4. ASSUME NEW j \in Jobs, RenewalLost(j) \/ LeaseExpires(j) PROVE IInv'
  BY <1>4, RenewalLostIInv, LeaseExpiresIInv
<1>5. ASSUME NEW n \in Nodes, Crash(n) PROVE IInv'
  BY <1>5, CrashIInv
<1>6. QED BY <1>1, <1>2, <1>3, <1>4, <1>5 DEF Next

\* The lock in Redis and the labels of execute fit in every state: a locked
\* worker holds its lock until the lease lapses, and no lock is held too often.
THEOREM LeasesFit == Spec => []IInv
  BY InitIInv, NextIInv, PTL DEF Spec

-----------------------------------------------------------------------------
(* The refinement.                                                         *)

\* Steps that cover no further run map to End, which allows stuttering.
LEMMA EndStep ==
  ASSUME \A w \in Workers, j \in Jobs : Covered(w, j)' => Covered(w, j)
  PROVE  Exclusion!Next
  BY DEF Exclusion!Next, Exclusion!End

\* tryLock succeeds only when no run of the job is covered: its holder would
\* be the one that tries, which is not running.
LEMMA AcquireStarts ==
  ASSUME IInv, NEW w \in Workers, Acquire(w)
  PROVE  Exclusion!Next
<1> USE DEF IInv, TypeOK
<1>1. /\ job[w] \in Jobs /\ pc[w] = "tryLock" /\ w \notin lapsed
      /\ job' = job /\ lapsed' = lapsed
      /\ pc' = [pc EXCEPT ![w] = "run"] /\ locked' = [locked EXCEPT ![w] = TRUE]
  BY DEF Acquire, Goto, FrameInv
<1>2. Covered(w, job[w])' BY <1>1 DEF Covered
<1>3. \A v \in Workers : ~Covered(v, job[w])
  BY <1>1, ConstantsAssumption DEF Acquire, Available, Covered, LeaseInv
<1>4. \A v \in Workers \ {w}, j \in Jobs : Covered(v, j)' <=> Covered(v, j)
  BY <1>1 DEF Covered
<1>5. \A j \in Jobs \ {job[w]} : ~Covered(w, j)' /\ ~Covered(w, j)
  BY <1>1 DEF Covered
<1>6. Exclusion!Start(job[w], w)
  <2> DEFINE R == [j \in Jobs |-> {v \in Workers : Covered(v, j)}]
  <2>1. R[job[w]] = {} BY <1>1, <1>3
  <2>2. R'[job[w]] = {w}
    <3>1. \A v \in Workers : Covered(v, job[w])' <=> v = w
      BY <1>1, <1>2, <1>3, <1>4
    <3>2. R'[job[w]] = {v \in Workers : Covered(v, job[w])'} BY <1>1
    <3>3. QED BY <3>1, <3>2
  <2>3. \A j \in Jobs \ {job[w]} : R'[j] = R[j] BY <1>4, <1>5
  <2>4. R' = [R EXCEPT ![job[w]] = {w}]
    <3> HIDE DEF R
    <3>1. R = [j \in Jobs |-> R[j]] /\ R' = [j \in Jobs |-> R'[j]] BY DEF R
    <3>2. QED BY <2>2, <2>3, <3>1
  <2>5. QED BY <2>1, <2>4 DEF Exclusion!Start
<1>7. QED BY <1>1, <1>6 DEF Exclusion!Next

\* No other step covers a run.
LEMMA OthersEnd ==
  ASSUME IInv, [Next]_vars, \A w \in Workers : ~Acquire(w)
  PROVE  Exclusion!Next
<1> SUFFICES ASSUME NEW w \in Workers, NEW j \in Jobs, Covered(w, j)'
             PROVE  Covered(w, j)
  BY EndStep
<1> USE DEF IInv, TypeOK, Covered
<1>1. CASE UNCHANGED vars BY <1>1 DEF vars
<1>2. ASSUME NEW v \in Workers, Step(v) PROVE Covered(w, j)
  BY <1>2 DEF Step, Skip, TryLockThrows, TaskEnds, CheckHeld, CheckHeldFails, Unlock, UnlockFails,
              Return, Goto
<1>3. ASSUME NEW v \in Workers, NEW i \in Jobs, NEW c \in BOOLEAN, Fire(v, i, c)
      PROVE  Covered(w, j)
  BY <1>3 DEF Fire, Goto, FrameInv
<1>4. ASSUME NEW i \in Jobs, RenewalLost(i) \/ LeaseExpires(i) PROVE Covered(w, j)
  BY <1>4 DEF RenewalLost, LeaseExpires
<1>5. ASSUME NEW n \in Nodes, Crash(n) PROVE Covered(w, j)
  BY <1>5 DEF Crash
<1>6. QED BY <1>1, <1>2, <1>3, <1>4, <1>5 DEF Next

\* DistributedDelegateJob implements JobExclusion: on all nodes together, a
\* run covered by its lease starts only when no other covered run of the job
\* is under way, through crashes, lost answers and expired leases.
THEOREM RunsExclude == Spec => ImplementsExclusion
<1>1. Init => Exclusion!Init
  BY DEF Init, Exclusion!Init, Covered
<1>2. IInv /\ [Next]_vars => Exclusion!Next
  BY AcquireStarts, OthersEnd
<1>3. QED BY <1>1, <1>2, LeasesFit, PTL DEF Spec, ImplementsExclusion, Exclusion!Spec

\* A lock whose watchdog renews it leaves its holder only by the holder's own
\* unlock, or when the holder's process dies.
THEOREM OnlyHoldersRelease == Spec => OnlyHolderReleases
<1> DEFINE Released ==
      \A j \in Jobs, w \in Workers :
          holder[j] = w /\ holder'[j] # w =>
              \/ pc[w] = "unlock" /\ pc'[w] = "idle"
              \/ renewals[j] = 0
              \/ holder'[j] = DeadClient
<1>1. IInv /\ [Next]_vars => [Released]_vars
  <2> SUFFICES ASSUME IInv, Next, NEW j \in Jobs, NEW w \in Workers,
                      holder[j] = w, holder'[j] # w
               PROVE  \/ pc[w] = "unlock" /\ pc'[w] = "idle"
                      \/ renewals[j] = 0
                      \/ holder'[j] = DeadClient
    OBVIOUS
  <2> USE ConstantsAssumption DEF IInv, TypeOK
  <2>1. CASE \E v \in Workers : Unlock(v)
    <3>1. PICK v \in Workers : Unlock(v) BY <2>1
    <3>2. job[v] \in Jobs BY <3>1 DEF Unlock, FrameInv
    <3>3. CASE holder[job[v]] = v /\ Release(job[v])
      BY <3>1, <3>2, <3>3 DEF Unlock, Release, Return, Goto
    <3>4. CASE UNCHANGED redis BY <3>4 DEF redis
    <3>5. QED BY <3>1, <3>3, <3>4 DEF Unlock
  <2>2. CASE \E v \in Workers : Acquire(v) \/ TryLockThrows(v)
    BY <2>2 DEF Acquire, TryLockThrows, Take, Available, redis
  <2>3. CASE \E v \in Workers : Skip(v) \/ TaskEnds(v) \/ CheckHeld(v) \/ CheckHeldFails(v)
                            \/ UnlockFails(v)
    BY <2>3 DEF Skip, TaskEnds, CheckHeld, CheckHeldFails, UnlockFails, redis
  <2>4. CASE \E i \in Jobs : RenewalLost(i) \/ LeaseExpires(i)
    BY <2>4 DEF RenewalLost, LeaseExpires
  <2>5. CASE \E n \in Nodes : Crash(n) BY <2>5 DEF Crash
  <2>6. CASE \E v \in Workers, i \in Jobs, c \in BOOLEAN : Fire(v, i, c)
    BY <2>6 DEF Fire, redis
  <2>7. QED BY <2>1, <2>2, <2>3, <2>4, <2>5, <2>6 DEF Next, Step
<1>2. QED BY <1>1, LeasesFit, PTL DEF Spec, OnlyHolderReleases
=============================================================================
