--------------------------- MODULE MLFQRefinement ---------------------------
(* The queues, accounts and boosts of MLFQ, forgotten: what is left is a   *)
(* work-conserving scheduler.                                              *)
EXTENDS MLFQ

State(j) ==
    IF jobs[j].finishTime # -1 THEN "done"
    ELSE IF InIO(j) THEN "io"
    ELSE IF Queued(j) THEN "ready" ELSE "new"

Back(j) ==
    IF InIO(j)
      THEN LET k == CHOOSE n \in 1 .. Len(i_o_queue) : i_o_queue[n].job_id = j
           IN  i_o_queue[k].time_to_end_io
      ELSE -1

Scheduler == INSTANCE JobScheduler WITH
    start <- [j \in Jobs |-> jobs[j].startTime],
    run   <- [j \in Jobs |-> jobs[j].runTime],
    freq  <- [j \in Jobs |-> jobs[j].ioFreq],
    state <- [j \in Jobs |-> State(j)],
    left  <- [j \in Jobs |-> jobs[j].timeLeft],
    back  <- [j \in Jobs |-> Back(j)],
    now   <- currentTime

\* main.go's loop is a work-conserving scheduler: every step of it admits one
\* job whose time has come, computes one tick of one ready job with all of them
\* admitted, idles because there is none, or does nothing visible (a boost).
ImplementsScheduler == Scheduler!Spec
=============================================================================
