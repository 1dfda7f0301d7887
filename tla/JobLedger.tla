----------------------------- MODULE JobLedger ------------------------------
(***************************************************************************)
(* What the job queue promises, with no workers, leases or clocks in it: a *)
(* ledger of jobs.  A pending job is settled once, by success or by death; *)
(* a success enters the jobs it names in the same step, and only a success *)
(* does; a settled job moves again only when an operator revives a dead    *)
(* one.  JobQueue implements it while no worker outlives its lease.        *)
(***************************************************************************)
CONSTANTS
    Jobs,       \* dedupe keys
    Roots,      \* jobs entered from outside
    FollowOn    \* job -> the jobs its success may enter

VARIABLES
    status,     \* job -> "absent", "pending", "succeeded" or "dead"
    promised    \* job -> the jobs its success named

lvars == <<status, promised>>

Init ==
    /\ status = [j \in Jobs |-> "absent"]
    /\ promised = [j \in Jobs |-> {}]

Submit(j) ==
    /\ j \in Roots
    /\ status[j] = "absent"
    /\ status' = [status EXCEPT ![j] = "pending"]
    /\ UNCHANGED promised

Finish(j, fs) ==
    /\ status[j] = "pending"
    /\ fs \subseteq FollowOn[j]
    /\ status' = [k \in Jobs |->
                    IF k = j THEN "succeeded"
                    ELSE IF k \in fs /\ status[k] = "absent" THEN "pending"
                    ELSE status[k]]
    /\ promised' = [promised EXCEPT ![j] = fs]

Kill(j) ==
    /\ status[j] = "pending"
    /\ status' = [status EXCEPT ![j] = "dead"]
    /\ UNCHANGED promised

Revive(j) ==
    /\ status[j] = "dead"
    /\ status' = [status EXCEPT ![j] = "pending"]
    /\ UNCHANGED promised

Next ==
    \E j \in Jobs :
        \/ Submit(j) \/ Kill(j) \/ Revive(j)
        \/ \E fs \in SUBSET Jobs : Finish(j, fs)

Spec == Init /\ [][Next]_lvars
=============================================================================
