---------------------------- MODULE JobScheduler ----------------------------
(***************************************************************************)
(* What a scheduler of MLFQ/main.go's kind promises, whatever its policy:  *)
(* one job computes per tick, the processor idles only when no job is      *)
(* ready, a job computes exactly runTime ticks, and it is away for exactly *)
(* IOTIME after every ioFreq-th of them.                                   *)
(***************************************************************************)
EXTENDS Integers

CONSTANTS Jobs, IOTIME, StartTimes, RunTimes, IoFreqs

VARIABLES
    start, run, freq,   \* what the user entered for each job
    state,              \* where each job is in its life
    left,               \* the ticks it still has to compute
    back,               \* when its I/O ends, -1 without one
    now
vars == <<start, run, freq, state, left, back, now>>

Init ==
    /\ start \in [Jobs -> StartTimes]
    /\ run \in [Jobs -> RunTimes]
    /\ freq \in [Jobs -> IoFreqs]
    /\ state = [j \in Jobs |-> "new"]
    /\ left = run
    /\ back = [j \in Jobs |-> -1]
    /\ now = 0

Arrive(j) ==
    /\ state[j] = "new" /\ start[j] = now
    /\ state' = [state EXCEPT ![j] = "ready"]
    /\ UNCHANGED <<start, run, freq, left, back, now>>

Return(j) ==
    /\ state[j] = "io" /\ back[j] = now
    /\ state' = [state EXCEPT ![j] = "ready"]
    /\ back' = [back EXCEPT ![j] = -1]
    /\ UNCHANGED <<start, run, freq, left, now>>

\* Nobody is kept out of this tick's choice.
AllAdmitted ==
    \A j \in Jobs : /\ state[j] = "new" => start[j] > now
                    /\ state[j] = "io" => back[j] > now

Outcome(j, l) ==
    IF l = 0 THEN "done"
    ELSE IF freq[j] # 0 /\ (run[j] - l) % freq[j] = 0 THEN "io" ELSE "ready"

Compute(j) ==
    /\ AllAdmitted
    /\ state[j] = "ready"
    /\ left' = [left EXCEPT ![j] = @ - 1]
    /\ state' = [state EXCEPT ![j] = Outcome(j, left'[j])]
    /\ back' = IF state'[j] = "io"
                 THEN [back EXCEPT ![j] = now + 1 + IOTIME] ELSE back
    /\ now' = now + 1
    /\ UNCHANGED <<start, run, freq>>

Idle ==
    /\ AllAdmitted
    /\ \A j \in Jobs : state[j] # "ready"
    /\ now' = now + 1
    /\ UNCHANGED <<start, run, freq, state, left, back>>

Next == Idle \/ \E j \in Jobs : Arrive(j) \/ Return(j) \/ Compute(j)

Spec == Init /\ [][Next]_vars
=============================================================================
