----------------------------- MODULE MLFQPolicy -----------------------------
(***************************************************************************)
(* MLFQ with two histories the program does not keep: how long each job    *)
(* has computed at its level since it came there or was boosted, and how   *)
(* long it has waited in a queue since it last computed.                   *)
(***************************************************************************)
EXTENDS MLFQRefinement

ASSUME PolicyAssumption == BOOSTTIME >= QUANTUM

VARIABLES used, waited
policyVars == <<jobs, queues, i_o_queue, currentTime, finishedJobs, pc, i,
                used, waited>>

PolicyInit ==
    /\ Init
    /\ used = [j \in Jobs |-> 0]
    /\ waited = [j \in Jobs |-> 0]

Computes(j) ==
    /\ pc = "run" /\ currentTime' = currentTime + 1
    /\ jobs'[j].timeLeft < jobs[j].timeLeft
Waits(j) == pc = "run" /\ Queued(j) /\ ~Computes(j)
IsBoosted(j) == pc = "boost" /\ pc' = "move" /\ Queued(j)

PolicyNext ==
    /\ Next
    /\ used' = [j \in Jobs |->
         IF IsBoosted(j) \/ jobs'[j].priority # jobs[j].priority THEN 0
         ELSE IF Computes(j) THEN used[j] + 1 ELSE used[j]]
    /\ waited' = [j \in Jobs |->
         IF Waits(j) THEN waited[j] + 1
         ELSE IF Computes(j) THEN 0 ELSE waited[j]]

PolicySpec ==
    PolicyInit /\ [][PolicyNext]_policyVars /\ WF_policyVars(PolicyNext)

Allowance == QUANTUM * ALLOTMENT

\* A job above the bottom level computes there for less than its allowance, and
\* its two accounts say exactly how much, through preemptions, I/O and boosts:
\* giving up the processor does not earn a job a fresh allowance.
AccountsExact ==
    \A j \in Jobs :
        jobs[j].priority > 0 =>
          used[j] = (ALLOTMENT - jobs[j].allotedTimeLeft) * QUANTUM
                    + (QUANTUM - jobs[j].ticksLeft)

\* No job starves: it waits for the next boost at most, and then for the jobs
\* ahead of it, each of which a second boost may give a second quantum.
WaitBound == BOOSTTIME + (NumJobs - 1) * (2 * QUANTUM - 1)
NoStarvation == \A j \in Jobs : waited[j] <= WaitBound
=============================================================================
