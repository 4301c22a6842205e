------------------------------ MODULE ShellProofs ------------------------------
(***************************************************************************)
(* The safety properties of Shell for any number of pids and of slots.     *)
(* None of TableIsOurs, ForegroundAlone and the types is inductive alone:  *)
(* a wait frees a pid, which must not be one of the table's, so it must be *)
(* that of the foreground program; a poll frees one, which must be in no   *)
(* other slot and not in the foreground.                                   *)
(***************************************************************************)
EXTENDS Shell, TLAPS, WellFoundedInduction, FiniteSetTheorems

IInv == TypeOK /\ TableIsOurs /\ ForegroundAlone

\* A set of numbers that is not empty has a least one.
LEMMA LeastNatural ==
    ASSUME NEW S \in SUBSET Nat, S # {}
    PROVE  \E x \in S : \A y \in S : x <= y
PROOF
<1>1. PICK x \in S : \A y \in S : ~ (<<y, x>> \in OpToRel(<, Nat))
  BY NatLessThanWellFounded, WFMin
<1>2. ASSUME NEW y \in S PROVE x <= y
  <2>1. x \in Nat /\ y \in Nat
    OBVIOUS
  <2>2. ~ (y < x)
    BY <1>1, <2>1 DEF OpToRel
  <2> QED BY <2>1, <2>2
<1> QED BY <1>2

\* A task that is submitted goes into an empty slot, or nowhere if there is none.
LEMMA StoredTable ==
    ASSUME TypeOK, NEW p \in Pids
    PROVE  \/ /\ \A s \in Slots : backgroundTasks[s] # 0
              /\ Stored(p) = backgroundTasks
           \/ \E s \in Slots : /\ backgroundTasks[s] = 0
                               /\ Stored(p) = [backgroundTasks EXCEPT ![s] = p]
PROOF
<1> DEFINE Empty == {s \in Slots : backgroundTasks[s] = 0}
<1>1. CASE Empty = {}
  BY <1>1 DEF Stored
<1>2. CASE Empty # {}
  <2>1. Empty \in SUBSET Nat
    BY ShellAssumption DEF Slots
  <2>2. PICK x \in Empty : \A y \in Empty : x <= y
    BY <1>2, <2>1, LeastNatural
  <2> DEFINE First(s) == /\ backgroundTasks[s] = 0
                         /\ \A t \in Slots : backgroundTasks[t] = 0 => s <= t
             first == CHOOSE s \in Slots : First(s)
  <2>3. \E s \in Slots : First(s)
    BY <2>2
  <2>4. first \in Slots /\ First(first)
    BY <2>3
  <2>5. Stored(p) = [backgroundTasks EXCEPT ![first] = p]
    BY <1>2 DEF Stored
  <2> QED BY <2>4, <2>5
<1> QED BY <1>1, <1>2

-----------------------------------------------------------------------------
\* The invariant holds before the first prompt.
LEMMA InitInv == Init => IInv
PROOF BY ShellAssumption DEF Init, IInv, TypeOK, TableIsOurs, ForegroundAlone, Slots, Free

\* A step that leaves the table and each child's kind alone, and moves children
\* along, keeps the invariant if the shell does not start or stop to wait.
LEMMA KindsKept ==
    ASSUME IInv,
           UNCHANGED <<backgroundTasks, pid>>,
           shell' \in {"prompt", "poll", "command", "wait", "leave", "exited"},
           line' \in {"nothing", "cd", "exit", "task", "program"},
           bg_tsk' \in Slots,
           shell' = "wait" <=> shell = "wait",
           shell = "exited" => shell' = "exited",
           proc' \in [Pids -> Process \cup {Free}],
           \A p \in Pids : proc'[p].job = proc[p].job
    PROVE  IInv'
PROOF
<1>1. TypeOK'
  BY DEF IInv, TypeOK
<1>2. TableIsOurs'
  BY DEF IInv, TypeOK, TableIsOurs
<1>3. ForegroundAlone'
  BY DEF IInv, ForegroundAlone
<1> QED BY <1>1, <1>2, <1>3 DEF IInv

\* The poll frees no pid but the one whose slot it clears.
LEMMA PollInv == IInv /\ Poll => IInv'
PROOF
<1> SUFFICES ASSUME IInv, Poll PROVE IInv'
  OBVIOUS
<1> DEFINE p == backgroundTasks[bg_tsk]
<1>1. /\ shell = "poll" /\ shell' \in {"poll", "command"}
      /\ line' = line /\ pid' = pid /\ bg_tsk' \in Slots
  BY ShellAssumption DEF Poll, IInv, TypeOK, Slots, LastPolled
<1>2. CASE p = 0 \/ Running(p)
  <2>1. UNCHANGED <<backgroundTasks, proc>>
    BY <1>2 DEF Poll
  <2> QED BY <1>1, <2>1, KindsKept DEF IInv, TypeOK
<1>3. CASE ~(p = 0 \/ Running(p))
  <2>1. p \in Pids /\ proc[p].job = "task" /\ bg_tsk \in Slots
    BY <1>1, <1>3 DEF IInv, TypeOK, TableIsOurs
  <2>2. /\ backgroundTasks' = [backgroundTasks EXCEPT ![bg_tsk] = 0]
        /\ proc' = [proc EXCEPT ![p] = IF @.at = "zombie" THEN Free ELSE @]
    BY <1>3 DEF Poll, Cleared
  <2>3. \A q \in Pids : q # p => proc'[q] = proc[q]
    BY <2>2 DEF IInv, TypeOK
  <2>4. proc'[p] \in {Free, proc[p]}
    BY <2>1, <2>2 DEF IInv, TypeOK
  <2>5. TypeOK'
    BY <1>1, <2>1, <2>2 DEF IInv, TypeOK
  <2>6. TableIsOurs'
    <3>1. \A s \in Slots : backgroundTasks'[s] # 0 =>
             /\ backgroundTasks'[s] = backgroundTasks[s] /\ s # bg_tsk
             /\ backgroundTasks[s] \in Pids
      BY <2>1, <2>2 DEF IInv, TypeOK
    <3>2. \A s \in Slots : backgroundTasks'[s] # 0 => backgroundTasks[s] # p
      BY <1>1, <1>3, <2>1, <3>1 DEF IInv, TableIsOurs
    <3> QED BY <1>1, <2>3, <3>1, <3>2 DEF IInv, TableIsOurs
  <2>7. ForegroundAlone'
    BY <1>1, <2>1, <2>3, <2>4 DEF IInv, ForegroundAlone, Free
  <2> QED BY <2>5, <2>6, <2>7 DEF IInv
<1> QED BY <1>2, <1>3

\* A new child has a pid that is in no slot, for the pids of the table are taken.
LEMMA ForkFresh ==
    ASSUME IInv, shell # "exited", NEW p \in Pids, NEW job \in {"task", "foreground"}, Fork(p, job)
    PROVE  /\ proc' \in [Pids -> Process \cup {Free}]
           /\ proc'[p].job = job /\ proc[p].job = "none"
           /\ \A q \in Pids : q # p => proc'[q] = proc[q]
           /\ \A s \in Slots : backgroundTasks[s] # p
PROOF
<1>1. [job |-> job, at |-> "forked"] \in Process
  BY DEF Process, Living
<1>2. proc[p] = Free /\ proc' = [proc EXCEPT ![p] = [job |-> job, at |-> "forked"]]
  BY DEF Fork
<1>3. \A s \in Slots : backgroundTasks[s] # p
  BY <1>2, ShellAssumption DEF IInv, TableIsOurs, Free
<1> QED BY <1>1, <1>2, <1>3 DEF IInv, TypeOK, Free

\* The task that is submitted is a child of the shell, in one slot at most.
LEMMA SubmitInv == IInv /\ Submit => IInv'
PROOF
<1> SUFFICES ASSUME IInv, Submit PROVE IInv'
  OBVIOUS
<1>1. /\ shell = "command" /\ shell' = "prompt"
      /\ UNCHANGED <<line, bg_tsk, pid>>
  BY DEF Submit
<1>2. PICK p \in Pids : Fork(p, "task") /\ backgroundTasks' = Stored(p)
  BY DEF Submit
<1>3. /\ proc' \in [Pids -> Process \cup {Free}]
      /\ proc'[p].job = "task" /\ proc[p].job = "none"
      /\ \A q \in Pids : q # p => proc'[q] = proc[q]
      /\ \A s \in Slots : backgroundTasks[s] # p
  BY <1>1, <1>2, ForkFresh
<1>4. ForegroundAlone'
  BY <1>1, <1>3 DEF IInv, ForegroundAlone
<1>5. \A s \in Slots : backgroundTasks[s] # 0 => backgroundTasks[s] \in Pids \ {p}
  BY <1>3 DEF IInv, TypeOK
<1>6. CASE backgroundTasks' = backgroundTasks
  <2>1. TypeOK'
    BY <1>1, <1>3, <1>6 DEF IInv, TypeOK
  <2>2. TableIsOurs'
    BY <1>1, <1>3, <1>5, <1>6 DEF IInv, TableIsOurs
  <2> QED BY <1>4, <2>1, <2>2 DEF IInv
<1>7. ASSUME NEW s \in Slots, backgroundTasks' = [backgroundTasks EXCEPT ![s] = p]
      PROVE  IInv'
  <2>1. TypeOK'
    BY <1>1, <1>3, <1>7 DEF IInv, TypeOK
  <2>2. /\ backgroundTasks'[s] = p
        /\ \A t \in Slots : t # s => backgroundTasks'[t] = backgroundTasks[t]
    BY <1>7 DEF IInv, TypeOK
  <2>3. TableIsOurs'
    BY <1>1, <1>3, <1>5, <2>2 DEF IInv, TableIsOurs
  <2> QED BY <1>4, <2>1, <2>3 DEF IInv
<1>8. TypeOK
  BY DEF IInv
<1> QED BY <1>2, <1>6, <1>7, <1>8, StoredTable

\* The program that is run is the one the shell waits for, and no other is.
LEMMA RunInv == IInv /\ Run => IInv'
PROOF
<1> SUFFICES ASSUME IInv, Run PROVE IInv'
  OBVIOUS
<1>1. /\ shell = "command" /\ shell' = "wait"
      /\ UNCHANGED <<line, bg_tsk, backgroundTasks>>
  BY DEF Run
<1>2. PICK p \in Pids : Fork(p, "foreground") /\ pid' = p
  BY DEF Run
<1>3. /\ proc' \in [Pids -> Process \cup {Free}]
      /\ proc'[p].job = "foreground"
      /\ \A q \in Pids : q # p => proc'[q] = proc[q]
      /\ \A s \in Slots : backgroundTasks[s] # p
  BY <1>1, <1>2, ForkFresh
<1>4. TypeOK'
  BY <1>1, <1>2, <1>3 DEF IInv, TypeOK
<1>5. TableIsOurs'
  BY <1>1, <1>3 DEF IInv, TypeOK, TableIsOurs
<1>6. ForegroundAlone'
  BY <1>1, <1>2, <1>3 DEF IInv, ForegroundAlone
<1> QED BY <1>4, <1>5, <1>6 DEF IInv

\* The wait frees the foreground program's pid, which no slot holds.
LEMMA WaitInv == IInv /\ Wait => IInv'
PROOF
<1> SUFFICES ASSUME IInv, Wait PROVE IInv'
  OBVIOUS
<1>1. /\ shell = "wait" /\ shell' = "prompt" /\ pid' = 0
      /\ UNCHANGED <<line, bg_tsk, backgroundTasks>>
  BY DEF Wait
<1>2. PICK p \in Pids : p = pid /\ proc' = [proc EXCEPT ![p] = Free]
  BY DEF Wait, Awaited
<1>3. /\ proc' \in [Pids -> Process \cup {Free}]
      /\ proc'[p] = Free /\ \A q \in Pids : q # p => proc'[q] = proc[q]
  BY <1>2 DEF IInv, TypeOK
<1>4. proc[p].job = "foreground"
  BY <1>1, <1>2 DEF IInv, ForegroundAlone
<1>5. TypeOK'
  BY <1>1, <1>3 DEF IInv, TypeOK
<1>6. TableIsOurs'
  BY <1>1, <1>3, <1>4 DEF IInv, TypeOK, TableIsOurs
<1>7. ForegroundAlone'
  BY <1>1, <1>2, <1>3 DEF IInv, ForegroundAlone, Free
<1> QED BY <1>5, <1>6, <1>7 DEF IInv

\* A signal ends a child or does not, and changes nothing else of it.
LEMMA InterruptedKind ==
    ASSUME NEW q \in Process \cup {Free}
    PROVE  Interrupted(q) \in Process \cup {Free} /\ Interrupted(q).job = q.job
PROOF
<1>1. CASE q.at \in Living \ {"forked"}
  <2>1. q \in Process
    BY <1>1 DEF Free, Living
  <2> QED BY <1>1, <2>1 DEF Interrupted, Process, Living
<1>2. CASE ~(q.at \in Living \ {"forked"})
  BY <1>2 DEF Interrupted
<1> QED BY <1>1, <1>2

\* The kills at the end change no child's kind.
LEMMA KillTaskInv == IInv /\ KillTask => IInv'
PROOF
<1> SUFFICES ASSUME IInv, KillTask PROVE IInv'
  OBVIOUS
<1>1. /\ shell = "leave" /\ shell' \in {"leave", "exited"} /\ bg_tsk' \in Slots
      /\ UNCHANGED <<line, pid, backgroundTasks>>
  BY ShellAssumption DEF KillTask, IInv, TypeOK, Slots
<1> DEFINE p == backgroundTasks[bg_tsk]
<1>2. p \in Pids \cup {0}
  BY DEF IInv, TypeOK
<1>3. /\ proc' \in [Pids -> Process \cup {Free}]
      /\ \A q \in Pids : proc'[q].job = proc[q].job
  <2>1. CASE p = 0
    BY <2>1 DEF KillTask, IInv, TypeOK
  <2>2. CASE p # 0
    <3>1. p \in Pids /\ proc' = [proc EXCEPT ![p] = Interrupted(proc[p])]
      BY <1>2, <2>2 DEF KillTask
    <3>2. /\ Interrupted(proc[p]) \in Process \cup {Free}
          /\ Interrupted(proc[p]).job = proc[p].job
      BY <3>1, InterruptedKind DEF IInv, TypeOK
    <3> QED BY <3>1, <3>2 DEF IInv, TypeOK
  <2> QED BY <2>1, <2>2
<1> QED BY <1>1, <1>3, KindsKept DEF IInv, TypeOK

\* Neither does ctrl+c.
LEMMA InterruptInv == IInv /\ Interrupt => IInv'
PROOF
<1> SUFFICES ASSUME IInv, Interrupt PROVE IInv'
  OBVIOUS
<1>1. UNCHANGED <<shell, line, bg_tsk, pid, backgroundTasks>>
  BY DEF Interrupt
<1>2. ASSUME NEW p \in Pids
      PROVE  proc'[p] \in Process \cup {Free} /\ proc'[p].job = proc[p].job
  <2>1. proc'[p] \in {Interrupted(proc[p]), proc[p]}
    BY DEF Interrupt
  <2> QED BY <2>1, InterruptedKind DEF IInv, TypeOK
<1>3. proc' \in [Pids -> Process \cup {Free}]
  BY <1>2 DEF Interrupt
<1> QED BY <1>1, <1>2, <1>3, KindsKept DEF IInv, TypeOK

\* A child stays what it is until the shell, or init after it, takes it.
LEMMA ChildInv == ASSUME IInv, NEW p \in Pids, Child(p) PROVE IInv'
PROOF
<1>1. UNCHANGED <<shell, line, bg_tsk, pid, backgroundTasks>>
  BY DEF Child
<1>2. CASE Adopted(p)
  <2>1. /\ shell = "exited" /\ proc' \in [Pids -> Process \cup {Free}]
        /\ proc'[p] = Free /\ \A q \in Pids : q # p => proc'[q] = proc[q]
    BY <1>2 DEF Adopted, IInv, TypeOK
  <2>2. TypeOK' /\ TableIsOurs' /\ ForegroundAlone'
    BY <1>1, <2>1 DEF IInv, TypeOK, TableIsOurs, ForegroundAlone, Free
  <2> QED BY <2>2 DEF IInv
<1>3. CASE SetHandler(p) \/ SetGroup(p) \/ Exec(p) \/ Ends(p)
  <2>1. PICK at \in {"handler", "sleeping", "program", "zombie"} :
           /\ proc' = [proc EXCEPT ![p].at = at]
           /\ proc[p].at \in Living /\ (at = "sleeping" => proc[p].job = "task")
    BY <1>3 DEF SetHandler, SetGroup, Exec, Ends, Goes, Living, IsTask
  <2>2. proc[p] \in Process
    BY <2>1 DEF IInv, TypeOK, Free, Living
  <2>3. /\ [proc[p] EXCEPT !.at = at] \in Process
        /\ [proc[p] EXCEPT !.at = at].job = proc[p].job
    BY <2>1, <2>2 DEF Process, Living
  <2>4. proc' = [proc EXCEPT ![p] = [proc[p] EXCEPT !.at = at]]
    BY <2>1
  <2>5. /\ proc' \in [Pids -> Process \cup {Free}]
        /\ \A q \in Pids : proc'[q].job = proc[q].job
    BY <2>3, <2>4 DEF IInv, TypeOK
  <2> QED BY <1>1, <2>5, KindsKept DEF IInv, TypeOK
<1> QED BY <1>2, <1>3 DEF Child

\* A prompt, a line without a job, a fork that fails and the way out start and
\* stop no child.
LEMMA QuietInv == IInv /\ (ReadLine \/ NoJob \/ ForkFails \/ Exit) => IInv'
PROOF
<1> SUFFICES ASSUME IInv, ReadLine \/ NoJob \/ ForkFails \/ Exit PROVE IInv'
  OBVIOUS
<1>1. /\ UNCHANGED <<pid, backgroundTasks, proc>>
      /\ shell \in {"prompt", "command"} /\ shell' \in {"poll", "prompt", "leave"}
      /\ line' \in {"nothing", "cd", "exit", "task", "program"}
      /\ bg_tsk' \in Slots
  BY ShellAssumption DEF ReadLine, NoJob, ForkFails, Exit, IInv, TypeOK, Slots
<1> QED BY <1>1, KindsKept DEF IInv, TypeOK

-----------------------------------------------------------------------------
\* The invariant holds in every reachable state.
THEOREM Invariance == Spec => []IInv
PROOF
<1>1. IInv /\ [Next]_vars => IInv'
  <2> SUFFICES ASSUME IInv, [Next]_vars PROVE IInv'
    OBVIOUS
  <2>1. CASE UNCHANGED vars
    BY <2>1 DEF vars, IInv, TypeOK, TableIsOurs, ForegroundAlone
  <2>2. CASE Next
    BY <2>2, QuietInv, PollInv, SubmitInv, RunInv, WaitInv, KillTaskInv,
       InterruptInv, ChildInv DEF Next, Step
  <2> QED BY <2>1, <2>2
<1> QED BY <1>1, InitInv, PTL DEF Spec

\* The shell's loops stay in the table and every child is at a point of its code.
THEOREM TypeCorrect == Spec => []TypeOK
PROOF
<1>1. IInv => TypeOK
  BY DEF IInv
<1> QED BY <1>1, Invariance, PTL

\* Neither the poll nor the kill at the end ever meets a pid that is not a task's.
THEOREM NoStranger == Spec => []TableIsOurs
PROOF
<1>1. IInv => TableIsOurs
  BY DEF IInv
<1> QED BY <1>1, Invariance, PTL

\* The prompt does not come back under a running program.
THEOREM OneForeground == Spec => []ForegroundAlone
PROOF
<1>1. IInv => ForegroundAlone
  BY DEF IInv
<1> QED BY <1>1, Invariance, PTL

\* No step but the task's own, and the kills when the shell leaves, ends a task that
\* has a process group of its own.
LEMMA TaskStep ==
    ASSUME TypeOK, Next, NEW p \in Pids, IsTask(p), proc[p].at \in {"sleeping", "program"}
    PROVE  shell = "leave" \/ Exec(p) \/ Ends(p) \/ proc'[p] = proc[p]
PROOF
<1> DEFINE Goal == shell = "leave" \/ Exec(p) \/ Ends(p) \/ proc'[p] = proc[p]
<1>1. CASE ReadLine \/ NoJob \/ ForkFails \/ Exit
  BY <1>1 DEF ReadLine, NoJob, ForkFails, Exit
<1>2. CASE Poll
  <2>1. \A q \in Pids : [proc EXCEPT ![q] = IF @.at = "zombie" THEN Free ELSE @][p] = proc[p]
    BY DEF TypeOK
  <2>2. backgroundTasks[bg_tsk] \in Pids \cup {0}
    BY DEF TypeOK
  <2> QED BY <1>2, <2>1, <2>2 DEF Poll
<1>3. CASE Submit \/ Run
  <2>1. PICK q \in Pids, job \in {"task", "foreground"} : Fork(q, job)
    BY <1>3 DEF Submit, Run
  <2>2. p # q
    BY <2>1 DEF Fork, Free
  <2> QED BY <2>1, <2>2 DEF Fork, TypeOK
<1>4. CASE Wait
  <2>1. PICK q \in Pids : proc[q].at = "zombie" /\ proc' = [proc EXCEPT ![q] = Free]
    BY <1>4 DEF Wait
  <2> QED BY <2>1 DEF TypeOK
<1>5. CASE KillTask
  BY <1>5 DEF KillTask
<1>6. CASE Interrupt
  <2>1. ~InGroup(p)
    BY DEF InGroup
  <2> QED BY <1>6, <2>1 DEF Interrupt
<1>7. ASSUME NEW q \in Pids, Child(q) PROVE Goal
  <2>1. CASE q = p
    BY <1>7, <2>1 DEF Child, SetHandler, SetGroup, Adopted, Goes
  <2>2. CASE q # p
    BY <1>7, <2>2 DEF Child, SetHandler, SetGroup, Exec, Ends, Adopted, Goes, TypeOK
  <2> QED BY <2>1, <2>2
<1> QED BY <1>1, <1>2, <1>3, <1>4, <1>5, <1>6, <1>7 DEF Next, Step

\* Neither ctrl+c nor the shell's loop ends a task in its own process group.
THEOREM TasksUndisturbed == Spec => TasksEndByThemselves
PROOF
<1>1. TypeOK /\ [Next]_vars =>
        [\A p \in Pids : IsTask(p) /\ proc[p].at \in {"sleeping", "program"} =>
            shell = "leave" \/ Exec(p) \/ Ends(p) \/ proc'[p] = proc[p]]_vars
  BY TaskStep
<1> QED BY <1>1, TypeCorrect, PTL DEF Spec, TasksEndByThemselves, OnItsOwn
-----------------------------------------------------------------------------
(* No task is forgotten.  The table loses a pid only to the poll, which    *)
(* finds the child ended and takes it away from the kernel in the same     *)
(* step; and a submission finds an empty slot, because the pids of the     *)
(* table are distinct, none of them is the new child's, and there are no   *)
(* more pids than slots.                                                   *)

Listed == IInv /\ EveryTaskListed

\* A step that keeps the table and starts no task forgets none.
LEMMA ListKept ==
    ASSUME Listed, backgroundTasks' = backgroundTasks, shell = "exited" => shell' = "exited",
           \A p \in Pids : IsTask(p)' => IsTask(p)
    PROVE  EveryTaskListed'
PROOF BY DEF Listed, EveryTaskListed

\* A full table leaves no pid for another child.
LEMMA RoomForOneMore ==
    ASSUME IInv, shell # "exited", IsFiniteSet(Pids), Cardinality(Pids) <= MAX_BG_CMD,
           NEW p \in Pids, \A s \in Slots : backgroundTasks[s] # p
    PROVE  \E s \in Slots : backgroundTasks[s] = 0
PROOF
<1> SUFFICES ASSUME \A s \in Slots : backgroundTasks[s] # 0 PROVE FALSE
  OBVIOUS
<1>1. IsFiniteSet(Slots) /\ Cardinality(Slots) = MAX_BG_CMD
  <2>1. IsFiniteSet(1 .. MAX_BG_CMD)
        /\ Cardinality(1 .. MAX_BG_CMD) = IF 1 > MAX_BG_CMD THEN 0 ELSE MAX_BG_CMD - 1 + 1
    BY ShellAssumption, FS_Interval
  <2> QED BY <2>1, ShellAssumption DEF Slots
<1>2. IsFiniteSet(Pids \ {p}) /\ Cardinality(Pids \ {p}) = Cardinality(Pids) - 1
  BY FS_RemoveElement
<1>3. Cardinality(Pids) \in Nat
  BY FS_CardinalityType
<1>4. Cardinality(Pids \ {p}) < Cardinality(Slots)
  BY <1>1, <1>2, <1>3, ShellAssumption
<1>5. backgroundTasks \in [Slots -> Pids \ {p}]
  BY DEF IInv, TypeOK
<1>6. PICK s \in Slots, t \in Slots : s # t /\ backgroundTasks[s] = backgroundTasks[t]
  BY <1>1, <1>2, <1>4, <1>5, FS_PigeonHole
<1> QED BY <1>6 DEF IInv, TableIsOurs

\* The poll takes a task off the table only with its pid.
LEMMA PollListed == Listed /\ Poll => EveryTaskListed'
PROOF
<1> SUFFICES ASSUME Listed, Poll, Cardinality(Pids) <= MAX_BG_CMD, NEW q \in Pids, IsTask(q)'
             PROVE  \E s \in Slots : backgroundTasks'[s] = q
  BY DEF EveryTaskListed
<1> DEFINE p == backgroundTasks[bg_tsk]
<1>1. shell = "poll" /\ bg_tsk \in Slots /\ TypeOK /\ TableIsOurs
  BY DEF Poll, Listed, IInv, TypeOK
<1>2. CASE p = 0 \/ Running(p)
  <2>1. UNCHANGED <<backgroundTasks, proc>>
    BY <1>2 DEF Poll
  <2> QED BY <1>1, <2>1 DEF Listed, EveryTaskListed, IsTask
<1>3. CASE ~(p = 0 \/ Running(p))
  <2>1. p \in Pids /\ proc[p].job = "task"
    BY <1>1, <1>3 DEF TypeOK, TableIsOurs
  <2>2. /\ backgroundTasks' = [backgroundTasks EXCEPT ![bg_tsk] = 0]
        /\ proc' = [proc EXCEPT ![p] = IF @.at = "zombie" THEN Free ELSE @]
    BY <1>3 DEF Poll, Cleared
  <2>3. proc[p].at = "zombie"
    BY <1>1, <1>3, <2>1 DEF TypeOK, Running, Process, Free
  <2>4. proc'[p] = Free /\ \A r \in Pids : r # p => proc'[r] = proc[r]
    BY <1>1, <2>1, <2>2, <2>3 DEF TypeOK
  <2>5. q # p /\ IsTask(q)
    BY <2>4 DEF IsTask, Free
  <2>6. PICK s \in Slots : backgroundTasks[s] = q
    BY <1>1, <2>5 DEF Listed, EveryTaskListed
  <2>7. s # bg_tsk
    BY <2>5, <2>6
  <2> QED BY <1>1, <2>2, <2>6, <2>7 DEF TypeOK
<1> QED BY <1>2, <1>3

\* The new task finds a slot, and no other loses its own.
LEMMA SubmitListed ==
    ASSUME IsFiniteSet(Pids), Listed, Submit
    PROVE  EveryTaskListed'
PROOF
<1> SUFFICES ASSUME Cardinality(Pids) <= MAX_BG_CMD, NEW q \in Pids, IsTask(q)'
             PROVE  \E s \in Slots : backgroundTasks'[s] = q
  BY DEF EveryTaskListed
<1>1. shell = "command" /\ IInv /\ TypeOK
  BY DEF Submit, Listed, IInv
<1>2. PICK p \in Pids : Fork(p, "task") /\ backgroundTasks' = Stored(p)
  BY DEF Submit
<1>3. /\ proc[p].job = "none" /\ \A r \in Pids : r # p => proc'[r] = proc[r]
      /\ \A s \in Slots : backgroundTasks[s] # p
  BY <1>1, <1>2, ForkFresh
<1>4. \E s \in Slots : backgroundTasks[s] = 0
  BY <1>1, <1>3, RoomForOneMore
<1>5. PICK s \in Slots : /\ backgroundTasks[s] = 0
                         /\ Stored(p) = [backgroundTasks EXCEPT ![s] = p]
  BY <1>1, <1>4, StoredTable
<1>6. /\ backgroundTasks'[s] = p
      /\ \A t \in Slots : t # s => backgroundTasks'[t] = backgroundTasks[t]
  BY <1>1, <1>2, <1>5 DEF TypeOK
<1>7. CASE q = p
  BY <1>6, <1>7
<1>8. CASE q # p
  <2>1. IsTask(q)
    BY <1>3, <1>8 DEF IsTask
  <2>2. PICK t \in Slots : backgroundTasks[t] = q
    BY <1>1, <2>1 DEF Listed, EveryTaskListed
  <2>3. t # s
    BY <1>5, <2>2, ShellAssumption
  <2> QED BY <1>6, <2>2, <2>3
<1> QED BY <1>7, <1>8

\* Whatever else happens starts no task and keeps the table.
LEMMA OthersListed ==
    ASSUME Listed,
           \/ ReadLine \/ NoJob \/ Run \/ ForkFails \/ Wait \/ Exit \/ KillTask \/ Interrupt
           \/ \E p \in Pids : Child(p)
    PROVE  EveryTaskListed'
PROOF
<1>1. TypeOK /\ proc \in [Pids -> Process \cup {Free}] /\ backgroundTasks[bg_tsk] \in Pids \cup {0}
  BY DEF Listed, IInv, TypeOK
<1>2. CASE ReadLine \/ NoJob \/ ForkFails \/ Exit
  <2>1. /\ UNCHANGED <<backgroundTasks, proc>>
        /\ shell # "exited"
    BY <1>2 DEF ReadLine, NoJob, ForkFails, Exit
  <2> QED BY <2>1, ListKept DEF IsTask
<1>3. CASE Run
  <2>1. shell = "command" /\ backgroundTasks' = backgroundTasks /\ IInv
    BY <1>3 DEF Run, Listed
  <2>2. PICK p \in Pids : Fork(p, "foreground")
    BY <1>3 DEF Run
  <2>3. proc'[p].job = "foreground" /\ \A r \in Pids : r # p => proc'[r] = proc[r]
    BY <2>1, <2>2, ForkFresh
  <2> QED BY <2>1, <2>3, ListKept DEF IsTask
<1>4. CASE Wait
  <2>1. shell = "wait" /\ backgroundTasks' = backgroundTasks
    BY <1>4 DEF Wait
  <2>2. PICK p \in Pids : proc' = [proc EXCEPT ![p] = Free]
    BY <1>4 DEF Wait
  <2>3. \A r \in Pids : proc'[r] \in {Free, proc[r]}
    BY <1>1, <2>2
  <2> QED BY <2>1, <2>3, ListKept DEF IsTask, Free
<1>5. CASE KillTask
  <2>1. shell = "leave" /\ backgroundTasks' = backgroundTasks
    BY <1>5 DEF KillTask
  <2>2. \A r \in Pids : proc'[r] \in {proc[r], Interrupted(proc[r])}
    BY <1>1, <1>5 DEF KillTask
  <2>3. \A r \in Pids : proc'[r].job = proc[r].job
    BY <1>1, <2>2, InterruptedKind
  <2> QED BY <2>1, <2>3, ListKept DEF IsTask
<1>6. CASE Interrupt
  <2>1. shell # "exited" /\ backgroundTasks' = backgroundTasks
    BY <1>6 DEF Interrupt
  <2>2. \A r \in Pids : proc'[r] \in {proc[r], Interrupted(proc[r])}
    BY <1>6 DEF Interrupt
  <2>3. \A r \in Pids : proc'[r].job = proc[r].job
    BY <1>1, <2>2, InterruptedKind
  <2> QED BY <2>1, <2>3, ListKept DEF IsTask
<1>7. ASSUME NEW p \in Pids, Child(p) PROVE EveryTaskListed'
  <2>1. shell' = shell /\ backgroundTasks' = backgroundTasks
    BY <1>7 DEF Child
  <2>2. CASE Adopted(p)
    <3>1. \A r \in Pids : proc'[r] \in {Free, proc[r]}
      BY <1>1, <2>2 DEF Adopted
    <3> QED BY <2>1, <3>1, ListKept DEF IsTask, Free
  <2>3. CASE SetHandler(p) \/ SetGroup(p) \/ Exec(p) \/ Ends(p)
    <3>1. PICK at \in {"handler", "sleeping", "program", "zombie"} :
             proc' = [proc EXCEPT ![p] = [proc[p] EXCEPT !.at = at]]
      BY <2>3 DEF SetHandler, SetGroup, Exec, Ends, Goes
    <3>2. [proc[p] EXCEPT !.at = at].job = proc[p].job
      BY <1>1 DEF Process, Free
    <3>3. \A r \in Pids : proc'[r].job = proc[r].job
      BY <1>1, <3>1, <3>2
    <3> QED BY <2>1, <3>3, ListKept DEF IsTask
  <2> QED BY <1>7, <2>2, <2>3 DEF Child
<1> QED BY <1>2, <1>3, <1>4, <1>5, <1>6, <1>7

\* With a slot for every pid there can be, no task is forgotten until the shell exits.
THEOREM TasksListed == ASSUME IsFiniteSet(Pids) PROVE Spec => []EveryTaskListed
PROOF
<1>1. Init => EveryTaskListed
  BY DEF Init, EveryTaskListed, IsTask, Free
<1>2. IInv /\ EveryTaskListed /\ [Next]_vars => EveryTaskListed'
  <2> SUFFICES ASSUME Listed, [Next]_vars PROVE EveryTaskListed'
    BY DEF Listed
  <2>1. CASE UNCHANGED vars
    BY <2>1 DEF vars, Listed, EveryTaskListed, IsTask
  <2>2. CASE Next
    BY <2>2, PollListed, SubmitListed, OthersListed DEF Next, Step
  <2> QED BY <2>1, <2>2
<1> QED BY <1>1, <1>2, Invariance, PTL DEF Spec
=============================================================================
