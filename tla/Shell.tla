--------------------------------- MODULE Shell ---------------------------------
(***************************************************************************)
(* my_shell.c with the processes it forks: a loop that reads a line, looks *)
(* after the background tasks and carries the line out; children that take *)
(* a few steps of the shell's own code before they become a program; and a *)
(* user who may press ctrl+c at any moment.  Pids are used again.          *)
(* Operators named Mut... are seeded bugs for testing the properties.      *)
(***************************************************************************)
EXTENDS Integers, FiniteSets

CONSTANTS Pids, MAX_BG_CMD

ASSUME ShellAssumption == 0 \notin Pids /\ MAX_BG_CMD \in Nat \ {0}

VARIABLES
    shell,              \* where main is
    line,               \* the line it has read
    bg_tsk,             \* the slot at which it is in the table
    pid,                \* the foreground child it waits for
    backgroundTasks,    \* the table: a pid or 0 in each slot
    proc                \* the processes by pid
vars == <<shell, line, bg_tsk, pid, backgroundTasks, proc>>

Slots == 1 .. MAX_BG_CMD

\* What a child is, and how far it has come: it starts with the shell's SIGINT
\* handler, installs its own, leaves the shell's process group if it is a task,
\* and executes its program.
Free == [job |-> "none", at |-> "free"]
Living == {"forked", "handler", "sleeping", "program"}
Process ==
    [job : {"task"}, at : Living \cup {"zombie"}]
      \cup [job : {"foreground"}, at : (Living \ {"sleeping"}) \cup {"zombie"}]

Init ==
    /\ shell = "prompt" /\ line = "nothing" /\ bg_tsk = 1 /\ pid = 0
    /\ backgroundTasks = [s \in Slots |-> 0]
    /\ proc = [p \in Pids |-> Free]

-----------------------------------------------------------------------------
(* The loop of main.                                                       *)

\* At the end of the input scanf fails, and the line stays empty.
ReadLine ==
    /\ shell = "prompt"
    /\ line' \in {"nothing", "cd", "exit", "task", "program"}
    /\ shell' = "poll" /\ bg_tsk' = 1
    /\ UNCHANGED <<pid, backgroundTasks, proc>>

\* waitpid with WNOHANG returns 0 for a child that runs, and reaps one that does
\* not; -1, for a pid that is no child, clears the slot too.
Running(p) == p # 0 /\ proc[p].at \in Living

MutCleared(s) == backgroundTasks
Cleared(s) == [backgroundTasks EXCEPT ![s] = 0]

MutPastLast(s) == s > MAX_BG_CMD
MutStopsAtRunning(s) == s = MAX_BG_CMD \/ Running(backgroundTasks[s])
LastPolled(s) == s = MAX_BG_CMD

Poll ==
    /\ shell = "poll"
    /\ LET p == backgroundTasks[bg_tsk]
       IN  IF p = 0 \/ Running(p) THEN UNCHANGED <<backgroundTasks, proc>>
           ELSE /\ backgroundTasks' = Cleared(bg_tsk)
                /\ proc' = [proc EXCEPT ![p] = IF @.at = "zombie" THEN Free ELSE @]
    /\ IF LastPolled(bg_tsk) THEN shell' = "command" /\ bg_tsk' = 1
                             ELSE shell' = "poll" /\ bg_tsk' = bg_tsk + 1
    /\ UNCHANGED <<line, pid>>

NoJob ==
    /\ shell = "command" /\ line \in {"nothing", "cd"}
    /\ shell' = "prompt"
    /\ UNCHANGED <<line, bg_tsk, pid, backgroundTasks, proc>>

Fork(p, job) ==
    /\ proc[p] = Free
    /\ proc' = [proc EXCEPT ![p] = [job |-> job, at |-> "forked"]]

MutStored(p) == [backgroundTasks EXCEPT ![1] = p]
Stored(p) ==
    IF \E s \in Slots : backgroundTasks[s] = 0
      THEN LET first == CHOOSE s \in Slots :
                           /\ backgroundTasks[s] = 0
                           /\ \A t \in Slots : backgroundTasks[t] = 0 => s <= t
           IN  [backgroundTasks EXCEPT ![first] = p]
      ELSE backgroundTasks

Submit ==
    /\ shell = "command" /\ line = "task"
    /\ shell' = "prompt"
    /\ \E p \in Pids : Fork(p, "task") /\ backgroundTasks' = Stored(p)
    /\ UNCHANGED <<line, bg_tsk, pid>>

Run ==
    /\ shell = "command" /\ line = "program"
    /\ \E p \in Pids : Fork(p, "foreground") /\ pid' = p
    /\ shell' = "wait"
    /\ UNCHANGED <<line, bg_tsk, backgroundTasks>>

\* fork returns -1: a message, and the next line.
ForkFails ==
    /\ shell = "command" /\ line \in {"task", "program"}
    /\ shell' = "prompt"
    /\ UNCHANGED <<line, bg_tsk, pid, backgroundTasks, proc>>

MutAwaited(p) == TRUE
Awaited(p) == p = pid

Wait ==
    /\ shell = "wait"
    /\ \E p \in Pids : /\ Awaited(p) /\ proc[p].at = "zombie"
                       /\ proc' = [proc EXCEPT ![p] = Free]
    /\ shell' = "prompt" /\ pid' = 0
    /\ UNCHANGED <<line, bg_tsk, backgroundTasks>>

Exit ==
    /\ shell = "command" /\ line = "exit"
    /\ shell' = "leave"
    /\ UNCHANGED <<line, bg_tsk, pid, backgroundTasks, proc>>

\* SIGINT finds a child that has just been forked with the shell's handler, which
\* returns (foreground_pid and shell_pid are still the shell's in its copy), and
\* ends it later on: by its own handler, or by default once it is a program.
Interrupted(q) == IF q.at \in Living \ {"forked"} THEN [q EXCEPT !.at = "zombie"] ELSE q

KillTask ==
    /\ shell = "leave"
    /\ LET p == backgroundTasks[bg_tsk]
       IN  proc' = IF p = 0 THEN proc ELSE [proc EXCEPT ![p] = Interrupted(@)]
    /\ IF bg_tsk = MAX_BG_CMD THEN shell' = "exited" /\ bg_tsk' = 1
                              ELSE shell' = "leave" /\ bg_tsk' = bg_tsk + 1
    /\ UNCHANGED <<line, pid, backgroundTasks>>

Step == Poll \/ NoJob \/ Submit \/ Run \/ ForkFails \/ Wait \/ Exit \/ KillTask

-----------------------------------------------------------------------------
(* The children, and the terminal.                                         *)

Goes(p, from, to) == proc[p].at = from /\ proc' = [proc EXCEPT ![p].at = to]
IsTask(p) == proc[p].job = "task"

SetHandler(p) == Goes(p, "forked", "handler")

\* setpgid, which may fail, and then sleep.
SetGroup(p) == IsTask(p) /\ (Goes(p, "handler", "sleeping") \/ Goes(p, "handler", "zombie"))

\* execvp, which returns only when it fails.
Exec(p) ==
    LET from == IF IsTask(p) THEN "sleeping" ELSE "handler"
    IN  Goes(p, from, "program") \/ Goes(p, from, "zombie")

Ends(p) == Goes(p, "program", "zombie")

\* init takes the children of a shell that has exited.
Adopted(p) == shell = "exited" /\ proc[p].at = "zombie" /\ proc' = [proc EXCEPT ![p] = Free]

Child(p) ==
    /\ SetHandler(p) \/ SetGroup(p) \/ Exec(p) \/ Ends(p) \/ Adopted(p)
    /\ UNCHANGED <<shell, line, bg_tsk, pid, backgroundTasks>>

\* ctrl+c reaches the shell, whose handler returns, and the children that are
\* still in its process group.
MutInGroup(p) == TRUE
InGroup(p) == ~IsTask(p) \/ proc[p].at \in {"forked", "handler"}

Interrupt ==
    /\ shell # "exited"
    /\ proc' = [p \in Pids |-> IF InGroup(p) THEN Interrupted(proc[p]) ELSE proc[p]]
    /\ UNCHANGED <<shell, line, bg_tsk, pid, backgroundTasks>>

Next == ReadLine \/ Step \/ Interrupt \/ \E p \in Pids : Child(p)

\* The shell and the children's few steps run.  Nothing makes the user type, and
\* a program may run for ever.
Spec ==
    /\ Init /\ [][Next]_vars
    /\ WF_vars(Step)
    /\ \A p \in Pids : WF_vars(Child(p) /\ (SetHandler(p) \/ SetGroup(p) \/ Exec(p)))
-----------------------------------------------------------------------------
\* Types: where the shell is, that its loops stay in the table, that only a
\* task leaves the shell's process group, and what the table can hold.
TypeOK ==
    /\ shell \in {"prompt", "poll", "command", "wait", "leave", "exited"}
    /\ line \in {"nothing", "cd", "exit", "task", "program"}
    /\ bg_tsk \in Slots
    /\ pid \in Pids \cup {0}
    /\ backgroundTasks \in [Slots -> Pids \cup {0}]
    /\ proc \in [Pids -> Process \cup {Free}]

\* While the shell lives, each pid in the table is that of a task which has not
\* been waited for, and no pid is there twice.  A pid given back to the kernel may
\* be anyone's: the kill at the end (line 197) would hit a stranger, and the poll
\* (line 104) could take the foreground program's end away from its wait.
TableIsOurs ==
    shell # "exited" =>
        \A s \in Slots : backgroundTasks[s] # 0 =>
            /\ proc[backgroundTasks[s]].job = "task"
            /\ \A t \in Slots : backgroundTasks[t] = backgroundTasks[s] => s = t

\* A foreground program exists only while the shell waits for it, and then it is
\* the one the shell waits for: tasks that end meanwhile do not bring the prompt
\* back under a running program (line 183).
ForegroundAlone ==
    \A p \in Pids : proc[p].job = "foreground" <=> shell = "wait" /\ p = pid

\* With room in the table for all of them, no task that runs or has ended is
\* forgotten: the table loses none by a poll, a wait or a submission.
EveryTaskListed ==
    shell # "exited" /\ Cardinality(Pids) <= MAX_BG_CMD =>
        \A p \in Pids : IsTask(p) => \E s \in Slots : backgroundTasks[s] = p

\* A task in the table that has ended does not stay a zombie, whatever the other
\* tasks do, as long as the user goes on entering lines (lines 99-114).
EndedTasksReaped ==
    []<><<ReadLine>>_vars =>
        \A s \in Slots : LET Ended == backgroundTasks[s] # 0 /\ ~Running(backgroundTasks[s])
                         IN  Ended ~> ~Ended

\* A task that has left the shell's process group.
OnItsOwn(p) == IsTask(p) /\ proc[p].at \in {"sleeping", "program"}

\* Once a task has a process group of its own, neither ctrl+c nor anything else that
\* the shell does before it leaves ends it (lines 140 and 197): it goes its own way.
TasksEndByThemselves ==
    [][\A p \in Pids : OnItsOwn(p) =>
          shell = "leave" \/ Exec(p) \/ Ends(p) \/ proc'[p] = proc[p]]_vars

\* README.md:6, "ctrl+c will give signal to foreground process to terminate, but it
\* will not terminate the shell program and background processes": not even a task
\* that has just been forked.  The code does not keep this of a task between lines
\* 138 and 140; TasksEndByThemselves is what it keeps.
InterruptSparesTasks ==
    [][Interrupt => \A p \in Pids : IsTask(p) => proc'[p] = proc[p]]_vars

\* README.md:4, "`exit` command to exit the shell along with it's background
\* processes": a task that is on its own when the loop of line 192 begins does not
\* run on for ever.
ExitStopsTasks ==
    \A p \in Pids : (shell = "leave" /\ bg_tsk = 1 /\ OnItsOwn(p)) ~> ~OnItsOwn(p)
=============================================================================
