---------------------------- MODULE JobExclusion ----------------------------
(***************************************************************************)
(* What "not allowConcurrent" promises of a job: a run of the job starts   *)
(* only when no other run of it is under way.  Runs end one by one, or     *)
(* several at once when a process dies.                                    *)
(***************************************************************************)
CONSTANTS Jobs, Runners

VARIABLE running   \* job -> the runners whose run of it is under way

Init == running = [j \in Jobs |-> {}]

Start(j, r) ==
    /\ running[j] = {}
    /\ running' = [running EXCEPT ![j] = {r}]

End ==
    /\ running' \in [Jobs -> SUBSET Runners]
    /\ \A j \in Jobs : running'[j] \subseteq running[j]

Next == End \/ \E j \in Jobs, r \in Runners : Start(j, r)

Spec == Init /\ [][Next]_running
=============================================================================
