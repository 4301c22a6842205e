-------------------------------- MODULE MLFQ --------------------------------
(***************************************************************************)
(* The multi-level feedback queue scheduler of MLFQ/main.go.  The program  *)
(* is one loop that simulates one tick per iteration: admit the arriving   *)
(* jobs, take back the jobs whose I/O ends, boost when it is time, then    *)
(* run the first job of the highest non-empty queue for a tick and account *)
(* for it.  Each loop of the source inside an iteration is one step per    *)
(* loop turn here; the rest of an iteration is one step.  Operators named  *)
(* Mut... are seeded bugs for testing the properties: no action uses them. *)
(***************************************************************************)
EXTENDS Integers, Sequences

CONSTANTS
    NumJobs,                            \* numJobs, read from the terminal
    NUMQUEUES, IOTIME, QUANTUM, ALLOTMENT, BOOSTTIME,     \* constants.go
    StartTimes, RunTimes, IoFreqs,      \* the values a job may be given
    MaxTime                             \* bound on the simulated clock

ASSUME SizesAssumption ==
    /\ NumJobs \in Nat
    /\ NUMQUEUES \in Nat \ {0}
    /\ QUANTUM \in Nat \ {0} /\ ALLOTMENT \in Nat \ {0}
    /\ IOTIME \in Nat /\ BOOSTTIME \in Nat
    /\ MaxTime \in Nat

\* A job with a negative start never arrives and one with no work never ends.
ASSUME InputsAssumption ==
    /\ StartTimes \subseteq Nat
    /\ RunTimes \subseteq Nat \ {0}
    /\ IoFreqs \subseteq Nat

VARIABLES
    jobs,          \* the Job records, by id
    queues,        \* the job ids waiting at each level, head first
    i_o_queue,     \* the jobs doing I/O with the time each I/O ends
    currentTime,
    finishedJobs,
    pc,            \* the part of the loop body reached
    i              \* the index of the loop being executed there
vars == <<jobs, queues, i_o_queue, currentTime, finishedJobs, pc, i>>

Jobs == 0 .. NumJobs - 1
Levels == 0 .. NUMQUEUES - 1
HIGHEST_PRIORITY == NUMQUEUES - 1

Job == [priority : Levels, ticksLeft : 0 .. QUANTUM,
        allotedTimeLeft : 0 .. ALLOTMENT, startTime : Nat, runTime : Nat,
        timeLeft : Nat, ioFreq : Nat, doingIo : BOOLEAN,
        firstRunTime : Int, finishTime : Int]
IOQueuePair == [job_id : Jobs, time_to_end_io : Nat]

NewJob(start, run, freq) ==
    [priority |-> HIGHEST_PRIORITY, ticksLeft |-> QUANTUM,
     allotedTimeLeft |-> ALLOTMENT, startTime |-> start, runTime |-> run,
     timeLeft |-> run, ioFreq |-> freq, doingIo |-> FALSE,
     firstRunTime |-> -1, finishTime |-> -1]

Init ==
    /\ \E start \in [Jobs -> StartTimes], run \in [Jobs -> RunTimes],
          freq \in [Jobs -> IoFreqs] :
          jobs = [j \in Jobs |-> NewJob(start[j], run[j], freq[j])]
    /\ queues = [q \in Levels |-> << >>]
    /\ i_o_queue = << >>
    /\ currentTime = 0
    /\ finishedJobs = 0
    /\ pc = IF NumJobs = 0 THEN "end" ELSE "arrive"
    /\ i = 0

-----------------------------------------------------------------------------
(* Before the tick: arrivals, ends of I/O, the boost.                      *)

Arrive ==
    /\ pc = "arrive"
    /\ i < NumJobs
    /\ queues' = IF jobs[i].startTime = currentTime
                   THEN [queues EXCEPT ![HIGHEST_PRIORITY] = Append(@, i)]
                   ELSE queues
    /\ i' = i + 1
    /\ UNCHANGED <<jobs, i_o_queue, currentTime, finishedJobs, pc>>

ArriveEnd ==
    /\ pc = "arrive"
    /\ i = NumJobs
    /\ pc' = "io"
    /\ i' = 0
    /\ UNCHANGED <<jobs, queues, i_o_queue, currentTime, finishedJobs>>

MutHeadIoDue == i_o_queue # << >> /\ Head(i_o_queue).time_to_end_io < currentTime
HeadIoDue == i_o_queue # << >> /\ Head(i_o_queue).time_to_end_io = currentTime

CompleteIO ==
    /\ pc = "io"
    /\ HeadIoDue
    /\ LET j == Head(i_o_queue).job_id
       IN  /\ queues' = [queues EXCEPT ![jobs[j].priority] = Append(@, j)]
           /\ jobs' = [jobs EXCEPT ![j] = [@ EXCEPT !.doingIo = FALSE]]
    /\ i_o_queue' = Tail(i_o_queue)
    /\ UNCHANGED <<currentTime, finishedJobs, pc, i>>

LeaveIO ==
    /\ pc = "io"
    /\ ~HeadIoDue
    /\ pc' = "boost"
    /\ UNCHANGED <<jobs, queues, i_o_queue, currentTime, finishedJobs, i>>

MutBoostDue == FALSE
BoostDue ==
    BOOSTTIME # 0 /\ currentTime # 0 /\ currentTime % BOOSTTIME = 0

In(Q, j, q) == \E k \in 1 .. Len(Q[q]) : Q[q][k] = j
Queued(j) == \E q \in Levels : In(queues, j, q)

Boosted(job) == [job EXCEPT !.priority = HIGHEST_PRIORITY,
                            !.allotedTimeLeft = ALLOTMENT,
                            !.ticksLeft = QUANTUM]

Boost ==
    /\ pc = "boost"
    /\ BoostDue
    /\ jobs' = [j \in Jobs |-> IF Queued(j) THEN Boosted(jobs[j]) ELSE jobs[j]]
    /\ pc' = "move"
    /\ i' = NUMQUEUES - 2
    /\ UNCHANGED <<queues, i_o_queue, currentTime, finishedJobs>>

NoBoost ==
    /\ pc = "boost"
    /\ ~BoostDue
    /\ pc' = "run"
    /\ UNCHANGED <<jobs, queues, i_o_queue, currentTime, finishedJobs, i>>

Move ==
    /\ pc = "move"
    /\ i >= 0
    /\ queues' = [queues EXCEPT
                    ![HIGHEST_PRIORITY] = @ \o queues[i], ![i] = << >>]
    /\ i' = i - 1
    /\ UNCHANGED <<jobs, i_o_queue, currentTime, finishedJobs, pc>>

MoveEnd ==
    /\ pc = "move"
    /\ i < 0
    /\ pc' = "run"
    /\ UNCHANGED <<jobs, queues, i_o_queue, currentTime, finishedJobs, i>>

-----------------------------------------------------------------------------
(* The tick: findJobToRun, then run, finish, start an I/O, account.        *)

NoQueued == \A q \in Levels : queues[q] = << >>
FindsQueue(q) ==
    queues[q] # << >> /\ \A p \in Levels : p > q => queues[p] = << >>

NextTick ==
    /\ currentTime < MaxTime
    /\ currentTime' = currentTime + 1
    /\ i' = 0

Idle ==
    /\ pc = "run"
    /\ NoQueued
    /\ NextTick
    /\ pc' = "arrive"
    /\ UNCHANGED <<jobs, queues, i_o_queue, finishedJobs>>

Ran(job) ==
    [job EXCEPT !.timeLeft = @ - 1, !.ticksLeft = @ - 1,
                !.firstRunTime = IF @ = -1 THEN currentTime ELSE @]

MutRemoved(q) == queues
Removed(q) == [queues EXCEPT ![q] = Tail(@)]

Finish ==
    /\ pc = "run"
    /\ \E q \in Levels :
         LET j == Head(queues[q])
             job == Ran(jobs[j])
         IN  /\ FindsQueue(q)
             /\ job.timeLeft = 0
             /\ jobs' = [jobs EXCEPT
                           ![j] = [job EXCEPT !.finishTime = currentTime + 1]]
             /\ queues' = Removed(q)
    /\ NextTick
    /\ finishedJobs' = finishedJobs + 1
    /\ pc' = IF finishedJobs + 1 < NumJobs THEN "arrive" ELSE "end"
    /\ UNCHANGED i_o_queue

IssuesIo(job) ==
    job.ioFreq # 0 /\ (job.runTime - job.timeLeft) % job.ioFreq = 0

QuantumExpired(job) == job.ticksLeft = 0
AllotmentSpent(job) == QuantumExpired(job) /\ job.allotedTimeLeft = 1

MutDemoted(job) == AllotmentSpent(job)
Demoted(job) == AllotmentSpent(job) /\ job.priority # 0

\* The job's level and its accounts after a tick that ended its quantum.
Refilled(job) ==
    [job EXCEPT !.priority = IF Demoted(job) THEN @ - 1 ELSE @,
                !.allotedTimeLeft = IF AllotmentSpent(job) THEN ALLOTMENT
                                                           ELSE @ - 1,
                !.ticksLeft = QUANTUM]
MutAccounted(job) ==
    IF QuantumExpired(job) \/ IssuesIo(job) THEN Refilled(job) ELSE job
Accounted(job) == IF QuantumExpired(job) THEN Refilled(job) ELSE job

MutNextLevel(job, q) == q
NextLevel(job, q) == IF Demoted(job) THEN q - 1 ELSE q

MutIoEnd(job) == currentTime + IOTIME
IoEnd(job) == currentTime + 1 + IOTIME

StartIO ==
    /\ pc = "run"
    /\ \E q \in Levels :
         LET j == Head(queues[q])
             job == Ran(jobs[j])
         IN  /\ FindsQueue(q)
             /\ job.timeLeft # 0
             /\ IssuesIo(job)
             /\ jobs' = [jobs EXCEPT
                           ![j] = [Accounted(job) EXCEPT !.doingIo = TRUE]]
             /\ queues' = Removed(q)
             /\ i_o_queue' = Append(i_o_queue, [job_id |-> j,
                                           time_to_end_io |-> IoEnd(job)])
    /\ NextTick
    /\ pc' = "arrive"
    /\ UNCHANGED finishedJobs

MutRequeued(q, level, j) == Removed(q)
Requeued(q, level, j) == [Removed(q) EXCEPT ![level] = Append(@, j)]

Compute ==
    /\ pc = "run"
    /\ \E q \in Levels :
         LET j == Head(queues[q])
             job == Ran(jobs[j])
         IN  /\ FindsQueue(q)
             /\ job.timeLeft # 0
             /\ ~IssuesIo(job)
             /\ jobs' = [jobs EXCEPT ![j] = Accounted(job)]
             /\ queues' = IF QuantumExpired(job)
                            THEN Requeued(q, NextLevel(job, q), j)
                            ELSE queues
    /\ NextTick
    /\ pc' = "arrive"
    /\ UNCHANGED <<i_o_queue, finishedJobs>>

Next ==
    \/ Arrive \/ ArriveEnd \/ CompleteIO \/ LeaveIO
    \/ Boost \/ NoBoost \/ Move \/ MoveEnd
    \/ Idle \/ Finish \/ StartIO \/ Compute

Spec == Init /\ [][Next]_vars /\ WF_vars(Next)

-----------------------------------------------------------------------------
(* The program's state types: what each field of the source may hold.      *)
TypeOK ==
    /\ jobs \in [Jobs -> Job]
    /\ queues \in [Levels -> Seq(Jobs)]
    /\ i_o_queue \in Seq(IOQueuePair)
    /\ currentTime \in Nat
    /\ finishedJobs \in Nat
    /\ pc \in {"arrive", "io", "boost", "move", "run", "end"}
    /\ i \in -1 .. NumJobs + NUMQUEUES

IoIn(Q, j) == \E k \in 1 .. Len(Q) : Q[k].job_id = j
InIO(j) == IoIn(i_o_queue, j)
Arrived(j) ==
    \/ jobs[j].startTime < currentTime
    \/ jobs[j].startTime = currentTime /\ (pc \notin {"arrive", "end"} \/ j < i)
Live(j) == Arrived(j) /\ jobs[j].finishTime = -1

Distinct(Q) ==
    \A p, q \in Levels : \A k \in 1 .. Len(Q[p]), l \in 1 .. Len(Q[q]) :
        Q[p][k] = Q[q][l] => p = q /\ k = l
IoDistinct(Q) ==
    \A k, l \in 1 .. Len(Q) : Q[k].job_id = Q[l].job_id => k = l
Placed(j) ==
    /\ Live(j) <=> Queued(j) \/ InIO(j)
    /\ ~(Queued(j) /\ InIO(j))
    /\ InIO(j) <=> jobs[j].doingIo

\* No job is lost and none is held twice: a job that has arrived and has not
\* finished is in exactly one queue once, or doing I/O once; no other job is
\* anywhere.  The removals, appends and boosts of main.go keep it between them.
OnePlace ==
    Distinct(queues) /\ IoDistinct(i_o_queue) /\ \A j \in Jobs : Placed(j)

\* A waiting job's priority is the level it waits at: main.go decides on the
\* demotion by the former (line 150) and on its target by the latter (155), and
\* returns a job from I/O to the former (77).  Mid-boost the lower queues hold
\* jobs already set to the highest priority.
PriorityIsQueue ==
    \A q \in Levels, j \in Jobs :
        In(queues, j, q) =>
            jobs[j].priority = IF pc = "move" THEN HIGHEST_PRIORITY ELSE q

\* The scan of lines 74-84 stops at the first entry that is not due and tests
\* for equality, so an entry out of order or in the past would never come back.
IoQueueInOrder ==
    \A k \in 1 .. Len(i_o_queue) :
        /\ i_o_queue[k].time_to_end_io >= currentTime
        /\ pc \notin {"arrive", "io", "end"} => i_o_queue[k].time_to_end_io > currentTime
        /\ \A l \in 1 .. k - 1 :
             i_o_queue[l].time_to_end_io < i_o_queue[k].time_to_end_io

\* Every job the user entered completes and the loop of line 63 ends.
AllJobsFinish == <>(pc = "end" /\ \A j \in Jobs : jobs[j].finishTime # -1)
=============================================================================
