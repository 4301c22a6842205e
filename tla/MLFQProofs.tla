----------------------------- MODULE MLFQProofs -----------------------------
(***************************************************************************)
(* For every number of jobs and levels and all values of the constants:    *)
(*                                                                         *)
(* TypeOK, OnePlace and PriorityIsQueue.  None is inductive alone: the     *)
(* demotion indexes a queue by a priority, the removal of a job needs the  *)
(* job to be nowhere else, and so on; IInv is their conjunction with what  *)
(* the loop indices and the accounts of the jobs satisfy.                  *)
(*                                                                         *)
(* The order of the I/O queue, and with it that the loop implements        *)
(* JobScheduler: every step is one of its steps or changes no job's stage. *)
(*                                                                         *)
(* AccountsExact and NoStarvation of MLFQPolicy.  The first is inductive   *)
(* with IInv.  For the second, what a waiting job has waited is set        *)
(* against what the jobs ahead of it can still cost (WInv).                *)
(***************************************************************************)
EXTENDS MLFQPolicy, FiniteSetTheorems, SequenceTheorems, TLAPS

(* The queues, apart from the scheduler's state. *)
QueuesType == [Levels -> Seq(Jobs)]

\* Taking the head off a queue takes that job out of the queues and moves none.
LEMMA RemoveHead ==
    ASSUME NEW Q \in QueuesType, Distinct(Q), NEW q \in Levels, Q[q] # << >>,
           NEW R \in QueuesType, R[q] = Tail(Q[q]),
           \A p \in Levels \ {q} : R[p] = Q[p]
    PROVE  /\ Distinct(R)
           /\ Head(Q[q]) \in Jobs /\ In(Q, Head(Q[q]), q)
           /\ \A p \in Levels, j \in Jobs :
                In(R, j, p) <=> In(Q, j, p) /\ j # Head(Q[q])
PROOF
<1> DEFINE n == Len(Q[q])
           h == Head(Q[q])
<1>1. /\ n \in Nat \ {0} /\ h \in Jobs /\ h = Q[q][1]
      /\ Len(R[q]) = n - 1
      /\ \A k \in 1 .. n - 1 : R[q][k] = Q[q][k + 1]
  BY DEF QueuesType
<1> HIDE DEF n, h
<1>2. ASSUME NEW p \in Levels, NEW k \in 1 .. Len(R[p])
      PROVE  \/ p = q /\ k + 1 \in 2 .. n /\ R[p][k] = Q[p][k + 1]
             \/ p # q /\ k \in 1 .. Len(Q[p]) /\ R[p][k] = Q[p][k]
  <2>1. CASE p = q
    <3>1. k \in 1 .. n - 1
      BY <2>1, <1>1
    <3>2. k + 1 \in 2 .. n
      BY <3>1, <1>1
    <3>3. R[q][k] = Q[q][k + 1]
      BY <3>1, <1>1
    <3> QED BY <3>2, <3>3, <2>1
  <2>2. CASE p # q
    BY <2>2
  <2> QED BY <2>1, <2>2
<1>3. \A k \in 2 .. n : k \in 1 .. Len(Q[q])
  BY <1>1 DEF n
<1>4. ASSUME NEW p \in Levels, NEW r \in Levels,
             NEW k \in 1 .. Len(R[p]), NEW l \in 1 .. Len(R[r]), R[p][k] = R[r][l]
      PROVE  p = r /\ k = l
  <2>1. CASE p = q /\ r = q
    <3>1. k + 1 \in 1 .. Len(Q[q]) /\ l + 1 \in 1 .. Len(Q[q])
      BY <2>1, <1>2, <1>3
    <3>2. Q[q][k + 1] = Q[q][l + 1]
      BY <1>4, <2>1, <1>2
    <3>3. k + 1 = l + 1
      BY <3>1, <3>2 DEF Distinct
    <3> QED BY <3>3, <2>1
  <2>2. CASE p = q /\ r # q
    <3>1. k + 1 \in 1 .. Len(Q[q]) /\ l \in 1 .. Len(Q[r]) /\ Q[q][k + 1] = Q[r][l]
      BY <1>4, <2>2, <1>2, <1>3
    <3> QED BY <3>1, <2>2 DEF Distinct
  <2>3. CASE p # q /\ r = q
    <3>1. l + 1 \in 1 .. Len(Q[q]) /\ k \in 1 .. Len(Q[p]) /\ Q[p][k] = Q[q][l + 1]
      BY <1>4, <2>3, <1>2, <1>3
    <3> QED BY <3>1, <2>3 DEF Distinct
  <2>4. CASE p # q /\ r # q
    <3>1. k \in 1 .. Len(Q[p]) /\ l \in 1 .. Len(Q[r]) /\ Q[p][k] = Q[r][l]
      BY <1>4, <2>4, <1>2
    <3> QED BY <3>1 DEF Distinct
  <2> QED BY <2>1, <2>2, <2>3, <2>4
<1>5. Distinct(R)
  BY <1>4 DEF Distinct
<1>6. 1 \in 1 .. Len(Q[q]) /\ Q[q][1] = h
  BY <1>1 DEF n
<1>7. ASSUME NEW p \in Levels, NEW j \in Jobs, In(R, j, p)
      PROVE  In(Q, j, p) /\ j # h
  <2>1. PICK k \in 1 .. Len(R[p]) : R[p][k] = j
    BY <1>7 DEF In
  <2>2. CASE p = q
    <3>1. k + 1 \in 1 .. Len(Q[q]) /\ Q[q][k + 1] = j /\ k + 1 # 1
      BY <2>1, <2>2, <1>2, <1>3
    <3> QED BY <3>1, <2>2, <1>6 DEF Distinct, In
  <2>3. CASE p # q
    <3>1. k \in 1 .. Len(Q[p]) /\ Q[p][k] = j
      BY <2>1, <2>3, <1>2
    <3> QED BY <3>1, <2>3, <1>6 DEF Distinct, In
  <2> QED BY <2>2, <2>3
<1>8. ASSUME NEW p \in Levels, NEW j \in Jobs, In(Q, j, p), j # h
      PROVE  In(R, j, p)
  <2>1. PICK k \in 1 .. Len(Q[p]) : Q[p][k] = j
    BY <1>8 DEF In
  <2>2. CASE p = q
    <3>1. k \in 2 .. n
      BY <2>1, <2>2, <1>6, <1>8, <1>1 DEF n
    <3>2. k - 1 \in 1 .. n - 1 /\ (k - 1) + 1 = k
      BY <3>1, <1>1
    <3>3. R[q][k - 1] = j
      BY <3>2, <2>1, <2>2, <1>1
    <3> QED BY <3>2, <3>3, <2>2, <1>1 DEF In
  <2>3. CASE p # q
    BY <2>1, <2>3 DEF In
  <2> QED BY <2>2, <2>3
<1> QED BY <1>1, <1>5, <1>6, <1>7, <1>8 DEF In, h

\* Appending a job that is in no queue puts it there and moves none.
LEMMA AppendNew ==
    ASSUME NEW Q \in QueuesType, Distinct(Q), NEW q \in Levels,
           NEW x \in Jobs, \A p \in Levels : ~In(Q, x, p),
           NEW R \in QueuesType, R[q] = Append(Q[q], x),
           \A p \in Levels \ {q} : R[p] = Q[p]
    PROVE  /\ Distinct(R)
           /\ \A p \in Levels, j \in Jobs :
                In(R, j, p) <=> In(Q, j, p) \/ (p = q /\ j = x)
PROOF
<1>1. Q[q] \in Seq(Jobs) /\ \A p \in Levels : Len(Q[p]) \in Nat
  BY DEF QueuesType
<1>2. /\ Append(Q[q], x) \in Seq(Jobs)
      /\ Len(Append(Q[q], x)) = Len(Q[q]) + 1
      /\ \A k \in 1 .. Len(Q[q]) : Append(Q[q], x)[k] = Q[q][k]
      /\ Append(Q[q], x)[Len(Q[q]) + 1] = x
  BY <1>1
<1>4. ASSUME NEW p \in Levels, NEW k \in 1 .. Len(R[p])
      PROVE  \/ k \in 1 .. Len(Q[p]) /\ R[p][k] = Q[p][k]
             \/ p = q /\ k = Len(Q[q]) + 1 /\ R[p][k] = x
  BY <1>1, <1>2
<1>5. ASSUME NEW p \in Levels, NEW k \in 1 .. Len(Q[p]) PROVE Q[p][k] # x
  BY DEF In
<1>6. Distinct(R)
  <2> SUFFICES ASSUME NEW p \in Levels, NEW r \in Levels,
                      NEW k \in 1 .. Len(R[p]), NEW l \in 1 .. Len(R[r]),
                      R[p][k] = R[r][l]
               PROVE  p = r /\ k = l
    BY DEF Distinct
  <2> QED BY <1>4, <1>5 DEF Distinct
<1>7. ASSUME NEW p \in Levels, NEW j \in Jobs
      PROVE  In(R, j, p) <=> In(Q, j, p) \/ (p = q /\ j = x)
  <2>1. In(R, j, p) => In(Q, j, p) \/ (p = q /\ j = x)
    BY <1>4 DEF In
  <2>2. In(Q, j, p) => In(R, j, p)
    BY <1>1, <1>2 DEF In
  <2>3. In(R, x, q)
    BY <1>1, <1>2 DEF In
  <2> QED BY <2>1, <2>2, <2>3
<1> QED BY <1>6, <1>7

\* R is Q with its queue q moved behind its queue h.
Merged(Q, R, h, q) ==
    /\ R[h] = Q[h] \o Q[q]
    /\ R[q] = << >>
    /\ \A p \in Levels \ {h, q} : R[p] = Q[p]

\* Moving a whole queue behind another keeps every job, once.
LEMMA MergeQueues ==
    ASSUME NEW Q \in QueuesType, Distinct(Q), NEW h \in Levels, NEW q \in Levels,
           h # q, NEW R \in QueuesType, Merged(Q, R, h, q)
    PROVE  /\ Distinct(R)
           /\ \A p \in Levels, j \in Jobs :
                In(R, j, p) <=> (p # q /\ In(Q, j, p)) \/ (p = h /\ In(Q, j, q))
PROOF
<1> USE DEF Merged
<1> DEFINE n == Len(Q[h])
           m == Len(Q[q])
<1>1. n \in Nat /\ m \in Nat /\ Q[h] \in Seq(Jobs) /\ Q[q] \in Seq(Jobs)
  BY DEF QueuesType
<1>2. /\ Len(R[h]) = n + m /\ Len(R[q]) = 0
      /\ \A k \in 1 .. n + m : R[h][k] = IF k <= n THEN Q[h][k] ELSE Q[q][k - n]
  <2>1. Len(Q[h] \o Q[q]) = n + m
    BY <1>1, ConcatProperties
  <2>2. \A k \in 1 .. n + m :
          (Q[h] \o Q[q])[k] = IF k <= n THEN Q[h][k] ELSE Q[q][k - n]
    BY <1>1, ConcatProperties
  <2>3. Len(R[q]) = 0
    OBVIOUS
  <2> QED BY <2>1, <2>2, <2>3
<1> HIDE DEF n, m
<1>3. ASSUME NEW p \in Levels, NEW k \in 1 .. Len(R[p])
      PROVE  \/ p # q /\ k \in 1 .. Len(Q[p]) /\ R[p][k] = Q[p][k] /\ (p = h => k <= n)
             \/ p = h /\ k - n \in 1 .. m /\ R[p][k] = Q[q][k - n]
  <2>1. CASE p = h
    <3>1. k \in 1 .. n + m
      BY <2>1, <1>2
    <3>2. k <= n => k \in 1 .. Len(Q[h])
      BY <3>1, <1>1 DEF n
    <3>3. k > n => k - n \in 1 .. m
      BY <3>1, <1>1
    <3>4. R[p][k] = IF k <= n THEN Q[h][k] ELSE Q[q][k - n]
      BY <3>1, <2>1, <1>2
    <3>5. CASE k <= n
      BY <3>2, <3>4, <3>5, <2>1
    <3>6. CASE k > n
      <4>1. ~(k <= n)
        BY <3>1, <3>6, <1>1
      <4> QED BY <3>3, <3>4, <3>6, <4>1, <2>1
    <3>7. k <= n \/ k > n
      BY <3>1, <1>1
    <3> QED BY <3>5, <3>6, <3>7
  <2>2. CASE p = q
    BY <2>2, <1>2
  <2>3. CASE p # h /\ p # q
    BY <2>3
  <2> QED BY <2>1, <2>2, <2>3
<1>4. ASSUME NEW p \in Levels, NEW r \in Levels,
             NEW k \in 1 .. Len(R[p]), NEW l \in 1 .. Len(R[r]), R[p][k] = R[r][l]
      PROVE  p = r /\ k = l
  <2> DEFINE Left(s, x) == s # q /\ x \in 1 .. Len(Q[s]) /\ R[s][x] = Q[s][x]
             Right(s, x) == s = h /\ x - n \in 1 .. Len(Q[q]) /\ R[s][x] = Q[q][x - n]
  <2>1. (Left(p, k) \/ Right(p, k)) /\ (Left(r, l) \/ Right(r, l))
    BY <1>3 DEF m
  <2>2. CASE Left(p, k) /\ Left(r, l)
    BY <2>2, <1>4 DEF Distinct
  <2>3. CASE Left(p, k) /\ Right(r, l)
    <3>1. Q[p][k] = Q[q][l - n]
      BY <2>3, <1>4
    <3>2. p = q
      BY <2>3, <3>1 DEF Distinct
    <3> QED BY <3>2, <2>3
  <2>4. CASE Right(p, k) /\ Left(r, l)
    <3>1. Q[r][l] = Q[q][k - n]
      BY <2>4, <1>4
    <3>2. r = q
      BY <2>4, <3>1 DEF Distinct
    <3> QED BY <3>2, <2>4
  <2>5. CASE Right(p, k) /\ Right(r, l)
    <3>0. Q[q][k - n] = Q[q][l - n]
      BY <2>5, <1>4
    <3>1. k - n = l - n
      BY <2>5, <3>0 DEF Distinct
    <3>2. k \in Int /\ l \in Int /\ n \in Int
      BY <1>1
    <3> QED BY <3>1, <3>2, <2>5
  <2> QED BY <2>1, <2>2, <2>3, <2>4, <2>5
<1>5. Distinct(R)
  BY <1>4 DEF Distinct
<1>6. ASSUME NEW j \in Jobs, NEW p \in Levels
      PROVE  In(R, j, p) <=> (p # q /\ In(Q, j, p)) \/ (p = h /\ In(Q, j, q))
  <2>1. ASSUME In(R, j, p) PROVE (p # q /\ In(Q, j, p)) \/ (p = h /\ In(Q, j, q))
    <3>1. PICK k \in 1 .. Len(R[p]) : R[p][k] = j
      BY <2>1 DEF In
    <3>2. CASE p # q /\ k \in 1 .. Len(Q[p]) /\ R[p][k] = Q[p][k]
      <4>1. k \in 1 .. Len(Q[p]) /\ Q[p][k] = j
        BY <3>1, <3>2
      <4>2. In(Q, j, p)
        BY <4>1 DEF In
      <4> QED BY <4>2, <3>2
    <3>3. CASE p = h /\ k - n \in 1 .. m /\ R[p][k] = Q[q][k - n]
      BY <3>1, <3>3 DEF In, m
    <3> QED BY <3>1, <3>2, <3>3, <1>3
  <2>2. ASSUME p = h, In(Q, j, q) PROVE In(R, j, p)
    <3>1. PICK k \in 1 .. m : Q[q][k] = j
      BY <2>2 DEF In, m
    <3>2. n + k \in 1 .. n + m /\ ~(n + k <= n) /\ (n + k) - n = k
      BY <1>1
    <3>3. n + k \in 1 .. Len(R[h]) /\ R[h][n + k] = j
      BY <3>1, <3>2, <1>2
    <3> QED BY <3>3, <2>2 DEF In
  <2>3. ASSUME p = h, In(Q, j, h) PROVE In(R, j, p)
    <3>1. PICK k \in 1 .. n : Q[h][k] = j
      BY <2>3 DEF In, n
    <3>2. k \in 1 .. n + m /\ k <= n
      BY <1>1
    <3>3. k \in 1 .. Len(R[h]) /\ R[h][k] = j
      BY <3>1, <3>2, <1>2
    <3> QED BY <3>3, <2>3 DEF In
  <2>4. ASSUME p # q, p # h, In(Q, j, p) PROVE In(R, j, p)
    BY <2>4 DEF In
  <2> QED BY <2>1, <2>2, <2>3, <2>4
<1> QED BY <1>5, <1>6

-----------------------------------------------------------------------------
(* The same for the queue of the jobs doing I/O. *)

\* Taking the head off the I/O queue takes that job out of it.
LEMMA IoRemoveHead ==
    ASSUME NEW Q \in Seq(IOQueuePair), IoDistinct(Q), Q # << >>
    PROVE  /\ Tail(Q) \in Seq(IOQueuePair) /\ IoDistinct(Tail(Q))
           /\ Head(Q) \in IOQueuePair /\ IoIn(Q, Head(Q).job_id)
           /\ \A j \in Jobs : IoIn(Tail(Q), j) <=> IoIn(Q, j) /\ j # Head(Q).job_id
PROOF
<1> DEFINE n == Len(Q)
           R == Tail(Q)
<1>1. /\ n \in Nat \ {0} /\ R \in Seq(IOQueuePair) /\ Len(R) = n - 1
      /\ \A k \in 1 .. n - 1 : R[k] = Q[k + 1]
      /\ Head(Q) = Q[1] /\ Head(Q) \in IOQueuePair
  BY HeadTailProperties
<1>2. \A k \in 1 .. Len(R) : k + 1 \in 2 .. Len(Q) /\ k + 1 \in 1 .. Len(Q) /\ R[k] = Q[k + 1]
  BY <1>1
<1>3. 1 \in 1 .. Len(Q)
  BY <1>1
<1> HIDE DEF n, R
<1>4. IoDistinct(R)
  <2> SUFFICES ASSUME NEW k \in 1 .. Len(R), NEW l \in 1 .. Len(R),
                      R[k].job_id = R[l].job_id
               PROVE  k = l
    BY DEF IoDistinct
  <2>1. k + 1 = l + 1
    BY <1>2 DEF IoDistinct
  <2> QED BY <2>1
<1>5. ASSUME NEW j \in Jobs, IoIn(R, j) PROVE IoIn(Q, j) /\ j # Head(Q).job_id
  <2>1. PICK k \in 1 .. Len(R) : R[k].job_id = j
    BY <1>5 DEF IoIn
  <2>2. k + 1 \in 1 .. Len(Q) /\ Q[k + 1].job_id = j /\ k + 1 # 1
    BY <2>1, <1>2
  <2>3. IoIn(Q, j)
    BY <2>2 DEF IoIn
  <2>4. j # Q[1].job_id
    BY <2>2, <1>3 DEF IoDistinct
  <2> QED BY <2>3, <2>4, <1>1
<1>6. ASSUME NEW j \in Jobs, IoIn(Q, j), j # Head(Q).job_id PROVE IoIn(R, j)
  <2>1. PICK k \in 1 .. Len(Q) : Q[k].job_id = j
    BY <1>6 DEF IoIn
  <2>2. k # 1
    BY <2>1, <1>6, <1>1
  <2>3. k - 1 \in 1 .. n - 1 /\ (k - 1) + 1 = k
    BY <2>1, <2>2, <1>1 DEF n
  <2>4. k - 1 \in 1 .. Len(R) /\ R[k - 1].job_id = j
    BY <2>1, <2>3, <1>1
  <2> QED BY <2>4 DEF IoIn
<1>7. IoIn(Q, Head(Q).job_id)
  BY <1>1, <1>3 DEF IoIn
<1> QED BY <1>1, <1>4, <1>5, <1>6, <1>7 DEF R

\* Appending a job that is not doing I/O puts it there once.
LEMMA IoAppendNew ==
    ASSUME NEW Q \in Seq(IOQueuePair), IoDistinct(Q), NEW e \in IOQueuePair,
           ~IoIn(Q, e.job_id)
    PROVE  /\ Append(Q, e) \in Seq(IOQueuePair) /\ IoDistinct(Append(Q, e))
           /\ \A j \in Jobs : IoIn(Append(Q, e), j) <=> IoIn(Q, j) \/ j = e.job_id
PROOF
<1> DEFINE n == Len(Q)
           R == Append(Q, e)
<1>1. /\ n \in Nat /\ R \in Seq(IOQueuePair) /\ Len(R) = n + 1
      /\ \A k \in 1 .. n : R[k] = Q[k]
      /\ R[n + 1] = e
  BY AppendProperties
<1>2. \A k \in 1 .. n : Q[k].job_id # e.job_id
  BY DEF IoIn
<1>3. \A k \in 1 .. Len(R) : \/ k \in 1 .. n /\ R[k] = Q[k]
                             \/ k = n + 1 /\ R[k] = e
  BY <1>1
<1>4. \A k \in 1 .. n : k \in 1 .. Len(R)
  BY <1>1
<1>5. n + 1 \in 1 .. Len(R)
  BY <1>1
<1> HIDE DEF R
<1>6. IoDistinct(R)
  BY <1>2, <1>3 DEF IoDistinct
<1>7. ASSUME NEW j \in Jobs PROVE IoIn(R, j) <=> IoIn(Q, j) \/ j = e.job_id
  <2>1. IoIn(R, j) => IoIn(Q, j) \/ j = e.job_id
    BY <1>3 DEF IoIn
  <2>2. IoIn(Q, j) => IoIn(R, j)
    BY <1>1, <1>4 DEF IoIn
  <2>3. IoIn(R, e.job_id)
    BY <1>1, <1>5 DEF IoIn
  <2> QED BY <2>1, <2>2, <2>3
<1> QED BY <1>1, <1>6, <1>7 DEF R

-----------------------------------------------------------------------------
(* The inductive invariant. *)

IndexOK ==
    /\ pc = "arrive" => i \in 0 .. NumJobs
    /\ pc = "move" => /\ i \in -1 .. NUMQUEUES - 2
                      /\ \A q \in Levels : i < q /\ q < HIGHEST_PRIORITY =>
                                             queues[q] = << >>
    /\ pc = "end" => i = 0

AccountOK(j) ==
    /\ jobs[j].finishTime = -1 => /\ jobs[j].timeLeft > 0
                                  /\ jobs[j].ticksLeft > 0
                                  /\ jobs[j].allotedTimeLeft > 0
    /\ ~Arrived(j) => jobs[j].priority = HIGHEST_PRIORITY /\ jobs[j].finishTime = -1

IInv ==
    TypeOK /\ OnePlace /\ PriorityIsQueue /\ IndexOK /\ \A j \in Jobs : AccountOK(j)

\* The index arithmetic of the levels.
LEMMA LevelsFacts ==
    /\ HIGHEST_PRIORITY \in Levels /\ NUMQUEUES \in Nat \ {0} /\ NumJobs \in Nat
    /\ \A q \in Levels : q \in Int /\ 0 <= q /\ q <= HIGHEST_PRIORITY
    /\ \A q \in Levels : q # 0 => q - 1 \in Levels
    /\ \A j \in Jobs : j \in Int /\ 0 <= j /\ j < NumJobs
    /\ QUANTUM \in Nat \ {0} /\ ALLOTMENT \in Nat \ {0}
BY SizesAssumption DEF HIGHEST_PRIORITY, Levels, Jobs

\* The initial states satisfy the invariant.
LEMMA InitInv == Init => IInv
PROOF
<1> SUFFICES ASSUME Init PROVE IInv
  OBVIOUS
<1>1. PICK start \in [Jobs -> StartTimes], run \in [Jobs -> RunTimes],
           freq \in [Jobs -> IoFreqs] :
             jobs = [j \in Jobs |-> NewJob(start[j], run[j], freq[j])]
  BY DEF Init
<1>2. ASSUME NEW j \in Jobs
      PROVE  /\ jobs[j] \in Job /\ jobs[j].doingIo = FALSE
             /\ jobs[j].priority = HIGHEST_PRIORITY /\ jobs[j].finishTime = -1
             /\ jobs[j].timeLeft > 0 /\ jobs[j].ticksLeft > 0
             /\ jobs[j].allotedTimeLeft > 0 /\ jobs[j].startTime \in Nat
  <2>1. start[j] \in Nat /\ run[j] \in Nat \ {0} /\ freq[j] \in Nat
    BY InputsAssumption
  <2>2. jobs[j] = NewJob(start[j], run[j], freq[j])
    BY <1>1
  <2> QED BY <2>1, <2>2, LevelsFacts DEF NewJob, Job
<1>3. /\ queues = [q \in Levels |-> << >>] /\ i_o_queue = << >>
      /\ currentTime = 0 /\ finishedJobs = 0 /\ i = 0 /\ pc \in {"arrive", "end"}
  BY DEF Init
<1>4. TypeOK
  <2>1. jobs \in [Jobs -> Job]
    BY <1>1, <1>2
  <2>2. 0 \in -1 .. NumJobs + NUMQUEUES
    BY LevelsFacts
  <2> QED BY <1>3, <2>1, <2>2 DEF TypeOK
<1>5. \A j \in Jobs : ~Queued(j) /\ ~InIO(j)
  BY <1>3 DEF Queued, In, InIO, IoIn
<1>6. \A j \in Jobs : ~Arrived(j)
  <2> TAKE j \in Jobs
  <2>1. jobs[j].startTime \in Nat /\ j \in Int /\ 0 <= j
    BY <1>2, LevelsFacts
  <2>2. currentTime = 0 /\ i = 0 /\ pc \in {"arrive", "end"}
    BY <1>3
  <2> QED BY <2>1, <2>2 DEF Arrived
<1>7. OnePlace
  <2>1. \A j \in Jobs : Placed(j)
    BY <1>2, <1>5, <1>6 DEF Placed, Live
  <2>2. Distinct(queues)
    <3>1. \A q \in Levels : Len(queues[q]) = 0
      BY <1>3
    <3> QED BY <3>1 DEF Distinct
  <2>3. IoDistinct(i_o_queue)
    BY <1>3 DEF IoDistinct
  <2> QED BY <2>1, <2>2, <2>3 DEF OnePlace
<1>8. PriorityIsQueue
  BY <1>5 DEF PriorityIsQueue, Queued
<1>9. IndexOK
  BY <1>3, LevelsFacts DEF IndexOK
<1> QED BY <1>2, <1>4, <1>7, <1>8, <1>9 DEF IInv, AccountOK

\* Admitting the arriving jobs.
LEMMA ArriveInv == IInv /\ Arrive => IInv'
PROOF
<1> SUFFICES ASSUME IInv, Arrive PROVE IInv'
  OBVIOUS
<1>0. /\ pc = "arrive" /\ pc' = "arrive" /\ i \in 0 .. NumJobs /\ i < NumJobs
      /\ i' = i + 1 /\ UNCHANGED <<jobs, i_o_queue, currentTime, finishedJobs>>
      /\ TypeOK /\ OnePlace /\ PriorityIsQueue
  BY DEF Arrive, IInv, IndexOK
<1>1. i \in Jobs /\ jobs[i] \in Job /\ jobs[i].startTime \in Nat /\ currentTime \in Nat
  BY <1>0, LevelsFacts DEF Jobs, TypeOK, Job
<1>2. \A j \in Jobs : jobs[j].startTime \in Nat
  BY <1>0 DEF TypeOK, Job
<1>3. CASE jobs[i].startTime = currentTime
  <2>1. queues' = [queues EXCEPT ![HIGHEST_PRIORITY] = Append(@, i)]
    BY <1>3 DEF Arrive
  <2>2. ~Arrived(i)
    BY <1>0, <1>1, <1>3 DEF Arrived
  <2>3. /\ \A q \in Levels : ~In(queues, i, q)
        /\ ~InIO(i) /\ jobs[i].priority = HIGHEST_PRIORITY /\ jobs[i].finishTime = -1
    BY <1>0, <1>1, <2>2 DEF IInv, AccountOK, OnePlace, Placed, Live, Queued
  <2>4. /\ queues \in QueuesType /\ queues' \in QueuesType
        /\ queues'[HIGHEST_PRIORITY] = Append(queues[HIGHEST_PRIORITY], i)
        /\ \A p \in Levels \ {HIGHEST_PRIORITY} : queues'[p] = queues[p]
    BY <1>0, <1>1, <2>1, LevelsFacts DEF TypeOK, QueuesType
  <2>5. /\ Distinct(queues')
        /\ \A p \in Levels, j \in Jobs :
             In(queues', j, p) <=> In(queues, j, p) \/ (p = HIGHEST_PRIORITY /\ j = i)
    BY <1>0, <1>1, <2>3, <2>4, LevelsFacts, AppendNew DEF OnePlace
  <2>6. \A j \in Jobs : Arrived(j)' <=> Arrived(j) \/ j = i
    BY <1>0, <1>1, <1>2, <1>3, LevelsFacts DEF Arrived
  <2>7. \A j \in Jobs : Queued(j)' <=> Queued(j) \/ j = i
    BY <2>5, LevelsFacts DEF Queued
  <2>8. \A j \in Jobs : InIO(j)' <=> InIO(j)
    BY <1>0 DEF InIO
  <2>9. TypeOK'
    BY <1>0, <1>1, <2>4, LevelsFacts DEF TypeOK, QueuesType
  <2>10. OnePlace'
    <3>1. \A j \in Jobs : Placed(j)'
      BY <1>0, <2>3, <2>6, <2>7, <2>8 DEF OnePlace, Placed, Live
    <3> QED BY <1>0, <2>5, <3>1 DEF OnePlace, IoDistinct
  <2>11. PriorityIsQueue'
    BY <1>0, <2>3, <2>5 DEF PriorityIsQueue
  <2>12. IndexOK'
    BY <1>0, LevelsFacts DEF IndexOK
  <2>13. \A j \in Jobs : AccountOK(j)'
    BY <1>0, <2>3, <2>6 DEF IInv, AccountOK
  <2> QED BY <2>9, <2>10, <2>11, <2>12, <2>13 DEF IInv
<1>4. CASE jobs[i].startTime # currentTime
  <2>1. UNCHANGED queues
    BY <1>4 DEF Arrive
  <2>2. \A j \in Jobs : Arrived(j)' <=> Arrived(j)
    BY <1>0, <1>1, <1>2, <1>4, LevelsFacts DEF Arrived
  <2>3. TypeOK'
    BY <1>0, <2>1, LevelsFacts DEF TypeOK
  <2>4. OnePlace'
    <3>1. \A j \in Jobs : Placed(j)'
      BY <1>0, <2>1, <2>2 DEF OnePlace, Placed, Live, Queued, InIO
    <3> QED BY <1>0, <2>1, <3>1 DEF OnePlace
  <2>5. PriorityIsQueue' /\ IndexOK'
    BY <1>0, <2>1, LevelsFacts DEF PriorityIsQueue, IndexOK
  <2>6. \A j \in Jobs : AccountOK(j)'
    BY <1>0, <2>2 DEF IInv, AccountOK
  <2> QED BY <2>3, <2>4, <2>5, <2>6 DEF IInv
<1> QED BY <1>3, <1>4

\* A step that changes only the program counter keeps the jobs where they are.
LEMMA PhaseInv ==
    ASSUME IInv, UNCHANGED <<jobs, queues, i_o_queue, currentTime, finishedJobs>>,
           \/ pc = "arrive" /\ i = NumJobs /\ pc' = "io" /\ i' = 0
           \/ pc = "io" /\ pc' = "boost" /\ i' = i
           \/ pc = "boost" /\ pc' = "run" /\ i' = i
           \/ pc = "move" /\ i < 0 /\ pc' = "run" /\ i' = i
    PROVE  IInv'
PROOF
<1>1. /\ TypeOK /\ OnePlace /\ PriorityIsQueue /\ IndexOK
      /\ \A j \in Jobs : AccountOK(j)
  BY DEF IInv
<1>2. \A j \in Jobs : Arrived(j)' <=> Arrived(j)
  BY LevelsFacts DEF Arrived
<1>3. TypeOK'
  BY <1>1, LevelsFacts DEF TypeOK
<1>4. OnePlace'
  <2>1. \A j \in Jobs : Placed(j)'
    BY <1>1, <1>2 DEF OnePlace, Placed, Live, Queued, InIO
  <2> QED BY <1>1, <2>1 DEF OnePlace
<1>5. PriorityIsQueue'
  <2>1. CASE pc # "move"
    BY <1>1, <2>1 DEF PriorityIsQueue
  <2>2. CASE pc = "move"
    <3>1. i = -1 /\ pc' = "run"
      BY <1>1, <2>2, LevelsFacts DEF IndexOK
    <3>2. \A q \in Levels : q # HIGHEST_PRIORITY => queues[q] = << >>
      BY <1>1, <2>2, <3>1, LevelsFacts DEF IndexOK
    <3>3. \A q \in Levels, j \in Jobs : In(queues, j, q) => q = HIGHEST_PRIORITY
      BY <3>2 DEF In
    <3> QED BY <1>1, <2>2, <3>1, <3>3 DEF PriorityIsQueue
  <2> QED BY <2>1, <2>2
<1>6. IndexOK'
  BY DEF IndexOK
<1>7. \A j \in Jobs : AccountOK(j)'
  BY <1>1, <1>2 DEF AccountOK
<1> QED BY <1>3, <1>4, <1>5, <1>6, <1>7 DEF IInv

\* The arrivals of the tick are all in: on to the I/O queue.
LEMMA ArriveEndInv == IInv /\ ArriveEnd => IInv'
BY PhaseInv DEF ArriveEnd

\* The head of the I/O queue is not due: on to the boost.
LEMMA LeaveIOInv == IInv /\ LeaveIO => IInv'
BY PhaseInv DEF LeaveIO

\* No boost at this tick: on to the job to run.
LEMMA NoBoostInv == IInv /\ NoBoost => IInv'
BY PhaseInv DEF NoBoost

\* The boost has emptied every lower queue, so each queued job is at the top.
LEMMA MoveEndInv == IInv /\ MoveEnd => IInv'
BY PhaseInv DEF MoveEnd

\* A job whose I/O ends comes back to the queue of its own priority.
LEMMA CompleteIOInv == IInv /\ CompleteIO => IInv'
PROOF
<1> SUFFICES ASSUME IInv, CompleteIO PROVE IInv'
  OBVIOUS
<1> DEFINE x == Head(i_o_queue).job_id
           level == jobs[x].priority
<1>1. /\ TypeOK /\ OnePlace /\ PriorityIsQueue /\ IndexOK
      /\ \A j \in Jobs : AccountOK(j) /\ Placed(j)
  BY DEF IInv, OnePlace
<1>2. /\ pc = "io" /\ pc' = "io" /\ i_o_queue # << >>
      /\ UNCHANGED <<currentTime, finishedJobs, i>>
      /\ queues' = [queues EXCEPT ![level] = Append(@, x)]
      /\ jobs' = [jobs EXCEPT ![x] = [@ EXCEPT !.doingIo = FALSE]]
      /\ i_o_queue' = Tail(i_o_queue)
  BY DEF CompleteIO, HeadIoDue
<1>3. /\ i_o_queue' \in Seq(IOQueuePair) /\ IoDistinct(i_o_queue')
      /\ x \in Jobs /\ IoIn(i_o_queue, x)
      /\ \A j \in Jobs : IoIn(i_o_queue', j) <=> IoIn(i_o_queue, j) /\ j # x
  <2>1. i_o_queue \in Seq(IOQueuePair) /\ IoDistinct(i_o_queue) /\ i_o_queue # << >>
    BY <1>1, <1>2 DEF TypeOK, OnePlace
  <2> QED BY <2>1, <1>2, IoRemoveHead DEF IOQueuePair
<1>4. jobs[x] \in Job /\ level \in Levels
  BY <1>1, <1>3 DEF TypeOK, Job
<1>5. jobs' \in [Jobs -> Job]
  BY <1>1, <1>2, <1>3, <1>4 DEF TypeOK, Job
<1>6. \A j \in Jobs :
        /\ jobs'[j].priority = jobs[j].priority
        /\ jobs'[j].startTime = jobs[j].startTime
        /\ jobs'[j].finishTime = jobs[j].finishTime
        /\ jobs'[j].timeLeft = jobs[j].timeLeft
        /\ jobs'[j].ticksLeft = jobs[j].ticksLeft
        /\ jobs'[j].allotedTimeLeft = jobs[j].allotedTimeLeft
        /\ jobs'[j].doingIo = IF j = x THEN FALSE ELSE jobs[j].doingIo
  BY <1>1, <1>2, <1>3, <1>4 DEF TypeOK, Job
<1> HIDE DEF x, level
<1>7. InIO(x) /\ ~Queued(x) /\ \A q \in Levels : ~In(queues, x, q)
  BY <1>1, <1>3 DEF InIO, Placed, Queued
<1>8. /\ queues \in QueuesType /\ queues' \in QueuesType
      /\ queues'[level] = Append(queues[level], x)
      /\ \A p \in Levels \ {level} : queues'[p] = queues[p]
  BY <1>1, <1>2, <1>3, <1>4 DEF TypeOK, QueuesType
<1>9. /\ Distinct(queues')
      /\ \A p \in Levels, j \in Jobs :
           In(queues', j, p) <=> In(queues, j, p) \/ (p = level /\ j = x)
  BY <1>1, <1>3, <1>4, <1>7, <1>8, AppendNew DEF OnePlace
<1>10. \A j \in Jobs : /\ Queued(j)' <=> Queued(j) \/ j = x
                       /\ InIO(j)' <=> InIO(j) /\ j # x
                       /\ Arrived(j)' <=> Arrived(j)
  BY <1>2, <1>3, <1>4, <1>6, <1>9 DEF Queued, InIO, Arrived
<1>11. TypeOK'
  BY <1>1, <1>2, <1>3, <1>5, <1>8 DEF TypeOK, QueuesType
<1>12. \A j \in Jobs : Placed(j)'
  BY <1>1, <1>6, <1>7, <1>10 DEF Placed, Live
<1>13. OnePlace'
  BY <1>3, <1>9, <1>12 DEF OnePlace
<1>14. PriorityIsQueue'
  BY <1>1, <1>2, <1>6, <1>9 DEF PriorityIsQueue, level
<1>15. IndexOK' /\ \A j \in Jobs : AccountOK(j)'
  BY <1>1, <1>2, <1>6, <1>10 DEF IndexOK, AccountOK
<1> QED BY <1>11, <1>13, <1>14, <1>15 DEF IInv

\* A boost resets the accounts of every queued job.
LEMMA BoostInv == IInv /\ Boost => IInv'
PROOF
<1> SUFFICES ASSUME IInv, Boost PROVE IInv'
  OBVIOUS
<1>1. /\ TypeOK /\ OnePlace /\ PriorityIsQueue
      /\ \A j \in Jobs : AccountOK(j) /\ Placed(j)
  BY DEF IInv, OnePlace
<1>2. /\ pc = "boost" /\ pc' = "move" /\ i' = NUMQUEUES - 2
      /\ UNCHANGED <<queues, i_o_queue, currentTime, finishedJobs>>
      /\ jobs' = [j \in Jobs |-> IF Queued(j) THEN Boosted(jobs[j]) ELSE jobs[j]]
  BY DEF Boost
<1>3. ASSUME NEW j \in Jobs
      PROVE  /\ jobs'[j] \in Job
             /\ jobs'[j].startTime = jobs[j].startTime
             /\ jobs'[j].finishTime = jobs[j].finishTime
             /\ jobs'[j].timeLeft = jobs[j].timeLeft
             /\ jobs'[j].doingIo = jobs[j].doingIo
             /\ Queued(j) => /\ jobs'[j].priority = HIGHEST_PRIORITY
                             /\ jobs'[j].ticksLeft = QUANTUM
                             /\ jobs'[j].allotedTimeLeft = ALLOTMENT
             /\ ~Queued(j) => jobs'[j] = jobs[j]
  <2>1. jobs[j] \in Job
    BY <1>1 DEF TypeOK
  <2>2. CASE Queued(j)
    <3>1. jobs'[j] = Boosted(jobs[j])
      BY <1>2, <2>2
    <3>2. QUANTUM \in 0 .. QUANTUM /\ ALLOTMENT \in 0 .. ALLOTMENT
      BY LevelsFacts
    <3>3. Boosted(jobs[j]) = [jobs[j] EXCEPT !.priority = HIGHEST_PRIORITY,
             !.allotedTimeLeft = ALLOTMENT, !.ticksLeft = QUANTUM]
      BY DEF Boosted
    <3>4. Boosted(jobs[j]) \in Job
      BY <2>1, <3>2, <3>3, LevelsFacts DEF Job
    <3>5. /\ jobs'[j].startTime = jobs[j].startTime
          /\ jobs'[j].finishTime = jobs[j].finishTime
          /\ jobs'[j].timeLeft = jobs[j].timeLeft
          /\ jobs'[j].doingIo = jobs[j].doingIo
          /\ jobs'[j].priority = HIGHEST_PRIORITY
          /\ jobs'[j].ticksLeft = QUANTUM
          /\ jobs'[j].allotedTimeLeft = ALLOTMENT
      BY <2>1, <3>1, <3>3 DEF Job
    <3> QED BY <2>2, <3>1, <3>4, <3>5
  <2>3. CASE ~Queued(j)
    BY <1>2, <2>1, <2>3
  <2> QED BY <2>2, <2>3
<1>4. TypeOK'
  <2>1. jobs' \in [Jobs -> Job]
    BY <1>2, <1>3
  <2> QED BY <1>1, <1>2, <2>1, LevelsFacts DEF TypeOK
<1>5. \A j \in Jobs : /\ Queued(j)' <=> Queued(j)
                      /\ InIO(j)' <=> InIO(j)
                      /\ Arrived(j)' <=> Arrived(j)
  BY <1>2, <1>3 DEF Queued, InIO, Arrived
<1>6. OnePlace'
  <2>1. \A j \in Jobs : Placed(j)'
    BY <1>1, <1>3, <1>5 DEF Placed, Live
  <2> QED BY <1>1, <1>2, <2>1 DEF OnePlace
<1>7. PriorityIsQueue'
  BY <1>2, <1>3 DEF PriorityIsQueue, Queued
<1>8. IndexOK'
  BY <1>2, LevelsFacts DEF IndexOK, HIGHEST_PRIORITY
<1>9. \A j \in Jobs : AccountOK(j)'
  <2> TAKE j \in Jobs
  <2>1. CASE Queued(j)
    BY <1>1, <1>3, <1>5, <2>1, LevelsFacts DEF AccountOK
  <2>2. CASE ~Queued(j)
    BY <1>1, <1>3, <1>5, <2>2 DEF AccountOK
  <2> QED BY <2>1, <2>2
<1> QED BY <1>4, <1>6, <1>7, <1>8, <1>9 DEF IInv

\* Moving a lower queue behind the top one.
LEMMA MoveInv == IInv /\ Move => IInv'
PROOF
<1> SUFFICES ASSUME IInv, Move PROVE IInv'
  OBVIOUS
<1> DEFINE H == HIGHEST_PRIORITY
<1>1. /\ TypeOK /\ OnePlace /\ PriorityIsQueue /\ IndexOK
      /\ \A j \in Jobs : AccountOK(j) /\ Placed(j)
  BY DEF IInv, OnePlace
<1>2. /\ pc = "move" /\ pc' = "move" /\ i >= 0 /\ i' = i - 1
      /\ UNCHANGED <<jobs, i_o_queue, currentTime, finishedJobs>>
      /\ queues' = [queues EXCEPT ![H] = @ \o queues[i], ![i] = << >>]
  BY DEF Move
<1>3. i \in Levels /\ i # H /\ H \in Levels /\ i \in Int
  BY <1>1, <1>2, LevelsFacts DEF IndexOK, Levels, HIGHEST_PRIORITY
<1> HIDE DEF H
<1>4. /\ queues \in QueuesType /\ queues' \in QueuesType
      /\ queues'[H] = queues[H] \o queues[i] /\ queues'[i] = << >>
      /\ \A p \in Levels \ {H, i} : queues'[p] = queues[p]
  <2>1. queues[H] \in Seq(Jobs) /\ queues[i] \in Seq(Jobs)
    BY <1>1, <1>3 DEF TypeOK
  <2>2. queues[H] \o queues[i] \in Seq(Jobs)
    BY <2>1
  <2>3. /\ queues \in QueuesType /\ DOMAIN queues = Levels
        /\ << >> \in Seq(Jobs) /\ \A p \in Levels : queues[p] \in Seq(Jobs)
    BY <1>1 DEF TypeOK, QueuesType
  <2>4. queues'[H] = queues[H] \o queues[i] /\ queues'[i] = << >>
    BY <1>2, <1>3, <2>3
  <2>5. \A p \in Levels \ {H, i} : queues'[p] = queues[p]
    BY <1>2, <1>3, <2>3
  <2>6. \A p \in Levels : queues'[p] \in Seq(Jobs)
    BY <2>2, <2>3, <2>4, <2>5
  <2>7. queues' = [p \in Levels |-> queues'[p]]
    BY <1>2, <2>3
  <2>8. queues' \in QueuesType
    BY <2>6, <2>7 DEF QueuesType
  <2> QED BY <2>3, <2>4, <2>5, <2>8
<1>5. /\ Distinct(queues')
      /\ \A p \in Levels, j \in Jobs :
           In(queues', j, p) <=> (p # i /\ In(queues, j, p)) \/ (p = H /\ In(queues, j, i))
  <2>1. Distinct(queues) /\ H # i
    BY <1>1, <1>3 DEF OnePlace
  <2>2. Merged(queues, queues', H, i)
    BY <1>4 DEF Merged
  <2> QED BY <1>3, <1>4, <2>1, <2>2, MergeQueues
<1>6. \A j \in Jobs : /\ Queued(j)' <=> Queued(j)
                      /\ InIO(j)' <=> InIO(j)
                      /\ Arrived(j)' <=> Arrived(j)
  BY <1>2, <1>3, <1>5 DEF Queued, InIO, Arrived
<1>7. TypeOK'
  <2>1. i' \in -1 .. NumJobs + NUMQUEUES
    BY <1>1, <1>2, <1>3, LevelsFacts DEF IndexOK
  <2>2. queues' \in [Levels -> Seq(Jobs)]
    BY <1>4 DEF QueuesType
  <2> QED BY <1>1, <1>2, <2>1, <2>2 DEF TypeOK
<1>8. OnePlace'
  <2>1. \A j \in Jobs : Placed(j)'
    BY <1>1, <1>2, <1>6 DEF Placed, Live
  <2> QED BY <1>1, <1>2, <1>5, <2>1 DEF OnePlace
<1>9. PriorityIsQueue'
  BY <1>1, <1>2, <1>3, <1>5 DEF PriorityIsQueue, H
<1>10. IndexOK'
  <2>1. \A q \in Levels : i - 1 < q /\ q < HIGHEST_PRIORITY => queues'[q] = << >>
    <3> SUFFICES ASSUME NEW q \in Levels, i - 1 < q, q < HIGHEST_PRIORITY
                 PROVE  queues'[q] = << >>
      OBVIOUS
    <3>1. q = i \/ i < q
      BY <1>3, LevelsFacts
    <3>2. q # H
      BY LevelsFacts DEF H
    <3>3. q # i => queues[q] = << >>
      BY <1>1, <1>2, <3>1 DEF IndexOK
    <3> QED BY <1>4, <3>2, <3>3
  <2>2. i' \in -1 .. NUMQUEUES - 2
    BY <1>1, <1>2, LevelsFacts DEF IndexOK
  <2> QED BY <1>2, <2>1, <2>2 DEF IndexOK
<1>11. \A j \in Jobs : AccountOK(j)'
  BY <1>1, <1>2, <1>6 DEF AccountOK
<1> QED BY <1>7, <1>8, <1>9, <1>10, <1>11 DEF IInv

-----------------------------------------------------------------------------
(* The tick. *)

\* At the end of a tick no job arrives that had not before it.
LEMMA TickArrivals ==
    ASSUME IInv, pc = "run", NextTick, pc' \in {"arrive", "end"},
           \A j \in Jobs : jobs'[j].startTime = jobs[j].startTime
    PROVE  /\ \A j \in Jobs : Arrived(j)' <=> Arrived(j)
           /\ currentTime' \in Nat /\ currentTime + 1 # -1 /\ i' = 0
           /\ i' \in -1 .. NumJobs + NUMQUEUES /\ IndexOK'
PROOF
<1>1. /\ currentTime \in Nat /\ currentTime' = currentTime + 1 /\ i' = 0
      /\ \A j \in Jobs : jobs[j].startTime \in Nat
  BY DEF IInv, TypeOK, Job, NextTick
<1>2. \A j \in Jobs : j \in Int /\ 0 <= j
  BY LevelsFacts
<1>3. ASSUME NEW j \in Jobs PROVE Arrived(j)' <=> Arrived(j)
  <2>1. Arrived(j) <=> jobs[j].startTime <= currentTime
    BY <1>1 DEF Arrived
  <2>2. Arrived(j)' <=> jobs[j].startTime < currentTime + 1
    <3>1. ~(j < i')
      BY <1>1, <1>2
    <3> QED BY <1>1, <3>1 DEF Arrived
  <2> QED BY <1>1, <2>1, <2>2
<1>4. IndexOK'
  BY <1>1, LevelsFacts DEF IndexOK
<1>5. 0 \in -1 .. NumJobs + NUMQUEUES
  BY LevelsFacts
<1> QED BY <1>1, <1>3, <1>4, <1>5

\* A tick without a job to run.
LEMMA IdleInv == IInv /\ Idle => IInv'
PROOF
<1> SUFFICES ASSUME IInv, Idle PROVE IInv'
  OBVIOUS
<1>1. /\ TypeOK /\ OnePlace /\ PriorityIsQueue
      /\ \A j \in Jobs : AccountOK(j) /\ Placed(j)
  BY DEF IInv, OnePlace
<1>2. /\ pc = "run" /\ pc' = "arrive" /\ NextTick
      /\ UNCHANGED <<jobs, queues, i_o_queue, finishedJobs>>
  BY DEF Idle
<1>3. /\ \A j \in Jobs : Arrived(j)' <=> Arrived(j)
      /\ currentTime' \in Nat /\ IndexOK' /\ i' \in -1 .. NumJobs + NUMQUEUES
  BY <1>2, TickArrivals
<1>4. TypeOK'
  BY <1>1, <1>2, <1>3 DEF TypeOK
<1>5. OnePlace'
  <2>1. \A j \in Jobs : Placed(j)'
    BY <1>1, <1>2, <1>3 DEF Placed, Live, Queued, InIO
  <2> QED BY <1>1, <1>2, <2>1 DEF OnePlace
<1>6. PriorityIsQueue'
  BY <1>1, <1>2 DEF PriorityIsQueue
<1>7. \A j \in Jobs : AccountOK(j)'
  BY <1>1, <1>2, <1>3 DEF AccountOK
<1> QED BY <1>3, <1>4, <1>5, <1>6, <1>7 DEF IInv

\* What is known of the job that runs, and of it after the tick.
LEMMA RunningJob ==
    ASSUME IInv, pc = "run", NEW q \in Levels, FindsQueue(q)
    PROVE  LET x == Head(queues[q])
               job == Ran(jobs[x])
           IN  /\ x \in Jobs /\ In(queues, x, q) /\ Queued(x) /\ ~InIO(x)
               /\ Arrived(x) /\ jobs[x].finishTime = -1 /\ ~jobs[x].doingIo
               /\ job \in Job /\ job.priority = q /\ job.ticksLeft >= 0
               /\ job.allotedTimeLeft > 0 /\ job.timeLeft >= 0
               /\ job.startTime = jobs[x].startTime
               /\ job.finishTime = -1 /\ job.doingIo = FALSE
PROOF
<1> DEFINE x == Head(queues[q])
           job == Ran(jobs[x])
<1>1. /\ TypeOK /\ OnePlace /\ PriorityIsQueue
      /\ \A j \in Jobs : AccountOK(j) /\ Placed(j)
  BY DEF IInv, OnePlace
<1>2. queues[q] \in Seq(Jobs) /\ queues[q] # << >>
  BY <1>1 DEF TypeOK, FindsQueue
<1>3. /\ Len(queues[q]) \in Nat \ {0}
      /\ Head(queues[q]) = queues[q][1] /\ Head(queues[q]) \in Jobs
  BY <1>2
<1>4. x \in Jobs /\ In(queues, x, q)
  <2>1. 1 \in 1 .. Len(queues[q])
    BY <1>3
  <2> QED BY <1>3, <2>1 DEF In
<1> HIDE DEF x
<1>5. Queued(x) /\ jobs[x].priority = q
  BY <1>1, <1>4 DEF Queued, PriorityIsQueue
<1>6. /\ ~InIO(x) /\ Arrived(x) /\ jobs[x].finishTime = -1 /\ ~jobs[x].doingIo
  BY <1>1, <1>4, <1>5 DEF Placed, Live
<1>7. /\ jobs[x] \in Job /\ jobs[x].timeLeft > 0 /\ jobs[x].ticksLeft > 0
      /\ jobs[x].allotedTimeLeft > 0 /\ jobs[x].doingIo = FALSE
      /\ currentTime \in Nat
  BY <1>1, <1>4, <1>6 DEF TypeOK, AccountOK, Job
<1>8. job = [jobs[x] EXCEPT !.timeLeft = @ - 1, !.ticksLeft = @ - 1,
               !.firstRunTime = IF @ = -1 THEN currentTime ELSE @]
  BY DEF Ran
<1> HIDE DEF job
<1>9. /\ jobs[x].timeLeft - 1 \in Nat /\ jobs[x].ticksLeft - 1 \in 0 .. QUANTUM
      /\ (IF jobs[x].firstRunTime = -1 THEN currentTime ELSE jobs[x].firstRunTime) \in Int
  BY <1>7, LevelsFacts DEF Job
<1>10. job \in Job
  BY <1>7, <1>8, <1>9 DEF Job
<1>11. /\ job.priority = q /\ job.ticksLeft >= 0 /\ job.allotedTimeLeft > 0
       /\ job.timeLeft >= 0 /\ job.startTime = jobs[x].startTime
       /\ job.finishTime = -1 /\ job.doingIo = FALSE
  BY <1>5, <1>6, <1>7, <1>8, <1>9 DEF Job
<1> QED BY <1>4, <1>5, <1>6, <1>10, <1>11 DEF x, job

\* The accounts after a tick that did not finish the job.
LEMMA AccountedJob ==
    ASSUME NEW job \in Job, NEW q \in Levels, job.priority = q,
           job.allotedTimeLeft > 0
    PROVE  /\ Accounted(job) \in Job
           /\ Accounted(job).ticksLeft > 0 /\ Accounted(job).allotedTimeLeft > 0
           /\ Accounted(job).timeLeft = job.timeLeft
           /\ Accounted(job).startTime = job.startTime
           /\ Accounted(job).finishTime = job.finishTime
           /\ Accounted(job).doingIo = job.doingIo
           /\ NextLevel(job, q) \in Levels
           /\ QuantumExpired(job) => Accounted(job).priority = NextLevel(job, q)
           /\ ~QuantumExpired(job) => Accounted(job) = job
PROOF
<1>1. /\ job.ticksLeft \in 0 .. QUANTUM /\ job.allotedTimeLeft \in 1 .. ALLOTMENT
      /\ q \in Int
  BY LevelsFacts DEF Job
<1>2. NextLevel(job, q) \in Levels
  BY LevelsFacts DEF NextLevel, Demoted
<1>3. CASE ~QuantumExpired(job)
  <2>1. Accounted(job) = job /\ job.ticksLeft > 0
    BY <1>1, <1>3, LevelsFacts DEF Accounted, QuantumExpired
  <2> QED BY <1>2, <1>3, <2>1
<1>4. CASE QuantumExpired(job)
  <2> DEFINE level == NextLevel(job, q)
             allot == IF AllotmentSpent(job) THEN ALLOTMENT ELSE job.allotedTimeLeft - 1
  <2>1. Accounted(job) = [job EXCEPT !.priority = level, !.allotedTimeLeft = allot,
                                     !.ticksLeft = QUANTUM]
    BY <1>4 DEF Accounted, Refilled, NextLevel
  <2>2. allot \in 0 .. ALLOTMENT /\ allot > 0
    BY <1>1, <1>4, LevelsFacts DEF AllotmentSpent
  <2>3. QUANTUM \in 0 .. QUANTUM /\ QUANTUM > 0
    BY LevelsFacts
  <2> HIDE DEF level, allot
  <2>4. level \in Levels
    BY <1>2 DEF level
  <2>5. Accounted(job) \in Job
    BY <2>1, <2>2, <2>3, <2>4 DEF Job
  <2>6. /\ Accounted(job).ticksLeft > 0 /\ Accounted(job).allotedTimeLeft > 0
        /\ Accounted(job).timeLeft = job.timeLeft
        /\ Accounted(job).startTime = job.startTime
        /\ Accounted(job).finishTime = job.finishTime
        /\ Accounted(job).doingIo = job.doingIo
        /\ Accounted(job).priority = level
    BY <2>1, <2>2, <2>3, <2>4 DEF Job
  <2> QED BY <1>2, <1>4, <2>5, <2>6 DEF level
<1> QED BY <1>3, <1>4

\* Taking the running job off its queue.
LEMMA RemovedQueue ==
    ASSUME IInv, NEW q \in Levels, FindsQueue(q), NEW R, R = Removed(q)
    PROVE  /\ R \in QueuesType /\ Distinct(R)
           /\ \A p \in Levels, j \in Jobs :
                In(R, j, p) <=> In(queues, j, p) /\ j # Head(queues[q])
PROOF
<1>1. queues \in QueuesType /\ Distinct(queues) /\ queues[q] # << >>
  BY DEF IInv, TypeOK, OnePlace, QueuesType, FindsQueue
<1>2. Tail(queues[q]) \in Seq(Jobs)
  BY <1>1 DEF QueuesType
<1>3. /\ R \in QueuesType /\ R[q] = Tail(queues[q])
      /\ \A p \in Levels \ {q} : R[p] = queues[p]
  BY <1>1, <1>2 DEF Removed, QueuesType
<1> QED BY <1>1, <1>3, RemoveHead

\* The running job finishes and leaves its queue for good.
LEMMA FinishInv == IInv /\ Finish => IInv'
PROOF
<1> SUFFICES ASSUME IInv, Finish PROVE IInv'
  OBVIOUS
<1>1. /\ TypeOK /\ OnePlace /\ PriorityIsQueue
      /\ \A j \in Jobs : AccountOK(j) /\ Placed(j)
  BY DEF IInv, OnePlace
<1>2. PICK q \in Levels :
        /\ FindsQueue(q)
        /\ jobs' = [jobs EXCEPT ![Head(queues[q])] =
             [Ran(jobs[Head(queues[q])]) EXCEPT !.finishTime = currentTime + 1]]
        /\ queues' = Removed(q)
  BY DEF Finish
<1>3. /\ pc = "run" /\ NextTick /\ pc' \in {"arrive", "end"}
      /\ finishedJobs' = finishedJobs + 1 /\ UNCHANGED i_o_queue
  BY DEF Finish
<1> DEFINE x == Head(queues[q])
           job == Ran(jobs[x])
<1>4. /\ x \in Jobs /\ In(queues, x, q) /\ Queued(x) /\ ~InIO(x) /\ Arrived(x)
      /\ job \in Job /\ job.startTime = jobs[x].startTime /\ job.doingIo = FALSE
      /\ ~jobs[x].doingIo
  BY <1>2, <1>3, RunningJob
<1>5. /\ jobs' = [jobs EXCEPT ![x] = [job EXCEPT !.finishTime = currentTime + 1]]
      /\ queues' \in QueuesType /\ Distinct(queues')
      /\ \A p \in Levels, j \in Jobs : In(queues', j, p) <=> In(queues, j, p) /\ j # x
  BY <1>2, RemovedQueue
<1> HIDE DEF x, job
<1>6. /\ \A j \in Jobs : j # x => jobs'[j] = jobs[j]
      /\ jobs' \in [Jobs -> Job] /\ jobs'[x].finishTime = currentTime + 1
      /\ jobs'[x].startTime = jobs[x].startTime /\ jobs'[x].doingIo = FALSE
  <2>1. currentTime + 1 \in Int
    BY <1>1 DEF TypeOK
  <2>2. [job EXCEPT !.finishTime = currentTime + 1] \in Job
    BY <1>4, <2>1 DEF Job
  <2>3. jobs' \in [Jobs -> Job] /\ jobs'[x] = [job EXCEPT !.finishTime = currentTime + 1]
    BY <1>1, <1>4, <1>5, <2>2 DEF TypeOK
  <2>4. /\ jobs'[x].finishTime = currentTime + 1 /\ jobs'[x].startTime = job.startTime
        /\ jobs'[x].doingIo = job.doingIo
    BY <1>4, <2>3 DEF Job
  <2>5. \A j \in Jobs : j # x => jobs'[j] = jobs[j]
    BY <1>1, <1>5 DEF TypeOK
  <2> QED BY <1>4, <2>3, <2>4, <2>5
<1>7. /\ \A j \in Jobs : Arrived(j)' <=> Arrived(j)
      /\ currentTime' \in Nat /\ IndexOK' /\ i' \in -1 .. NumJobs + NUMQUEUES
      /\ currentTime + 1 # -1
  <2>1. \A j \in Jobs : jobs'[j].startTime = jobs[j].startTime
    BY <1>6
  <2> QED BY <1>3, <2>1, TickArrivals
<1>8. TypeOK'
  BY <1>1, <1>3, <1>5, <1>6, <1>7 DEF TypeOK, QueuesType
<1>9. \A j \in Jobs : Placed(j)'
  <2>1. \A j \in Jobs : (Queued(j)' <=> Queued(j) /\ j # x) /\ (InIO(j)' <=> InIO(j))
    BY <1>3, <1>5 DEF Queued, InIO
  <2> QED BY <1>1, <1>4, <1>6, <1>7, <2>1 DEF Placed, Live
<1>10. OnePlace'
  BY <1>1, <1>3, <1>5, <1>9 DEF OnePlace
<1>11. PriorityIsQueue'
  BY <1>1, <1>3, <1>5, <1>6 DEF PriorityIsQueue
<1>12. \A j \in Jobs : AccountOK(j)'
  BY <1>1, <1>4, <1>6, <1>7 DEF AccountOK
<1> QED BY <1>7, <1>8, <1>10, <1>11, <1>12 DEF IInv

\* The running job starts an I/O: it leaves its queue for the I/O queue.
LEMMA StartIOInv == IInv /\ StartIO => IInv'
PROOF
<1> SUFFICES ASSUME IInv, StartIO PROVE IInv'
  OBVIOUS
<1>1. /\ TypeOK /\ OnePlace /\ PriorityIsQueue
      /\ \A j \in Jobs : AccountOK(j) /\ Placed(j)
  BY DEF IInv, OnePlace
<1>2. PICK q \in Levels :
        /\ FindsQueue(q) /\ Ran(jobs[Head(queues[q])]).timeLeft # 0
        /\ jobs' = [jobs EXCEPT ![Head(queues[q])] =
             [Accounted(Ran(jobs[Head(queues[q])])) EXCEPT !.doingIo = TRUE]]
        /\ queues' = Removed(q)
        /\ i_o_queue' = Append(i_o_queue, [job_id |-> Head(queues[q]),
                           time_to_end_io |-> IoEnd(Ran(jobs[Head(queues[q])]))])
  BY DEF StartIO
<1>3. /\ pc = "run" /\ NextTick /\ pc' = "arrive" /\ UNCHANGED finishedJobs
  BY DEF StartIO
<1> DEFINE x == Head(queues[q])
           job == Ran(jobs[x])
           after == Accounted(job)
           entry == [job_id |-> x, time_to_end_io |-> IoEnd(job)]
<1>4. /\ x \in Jobs /\ In(queues, x, q) /\ Queued(x) /\ ~InIO(x) /\ Arrived(x)
      /\ jobs[x].finishTime = -1 /\ job \in Job /\ job.priority = q
      /\ job.allotedTimeLeft > 0 /\ job.startTime = jobs[x].startTime
      /\ job.finishTime = -1 /\ job.timeLeft >= 0
  BY <1>2, <1>3, RunningJob
<1>5. /\ after \in Job /\ after.ticksLeft > 0 /\ after.allotedTimeLeft > 0
      /\ after.timeLeft = job.timeLeft /\ after.startTime = job.startTime
      /\ after.finishTime = job.finishTime
  BY <1>4, AccountedJob
<1>6. /\ jobs' = [jobs EXCEPT ![x] = [after EXCEPT !.doingIo = TRUE]]
      /\ job.timeLeft # 0 /\ i_o_queue' = Append(i_o_queue, entry)
      /\ queues' \in QueuesType /\ Distinct(queues')
      /\ \A p \in Levels, j \in Jobs : In(queues', j, p) <=> In(queues, j, p) /\ j # x
  BY <1>2, RemovedQueue
<1>7. entry \in IOQueuePair /\ entry.job_id = x
  BY <1>1, <1>4, SizesAssumption DEF IOQueuePair, IoEnd, TypeOK
<1> HIDE DEF x, job, after, entry
<1>8. /\ i_o_queue' \in Seq(IOQueuePair) /\ IoDistinct(i_o_queue')
      /\ \A j \in Jobs : IoIn(i_o_queue', j) <=> IoIn(i_o_queue, j) \/ j = x
  <2>1. /\ i_o_queue \in Seq(IOQueuePair) /\ IoDistinct(i_o_queue)
        /\ ~IoIn(i_o_queue, entry.job_id)
    BY <1>1, <1>4, <1>7 DEF TypeOK, OnePlace, InIO
  <2> QED BY <1>6, <1>7, <2>1, IoAppendNew
<1>9. /\ \A j \in Jobs : j # x => jobs'[j] = jobs[j]
      /\ jobs' \in [Jobs -> Job] /\ jobs'[x].finishTime = -1
      /\ jobs'[x].startTime = jobs[x].startTime /\ jobs'[x].doingIo = TRUE
      /\ jobs'[x].ticksLeft > 0 /\ jobs'[x].allotedTimeLeft > 0
      /\ jobs'[x].timeLeft > 0
  <2>1. [after EXCEPT !.doingIo = TRUE] \in Job
    BY <1>5 DEF Job
  <2>2. jobs' \in [Jobs -> Job] /\ jobs'[x] = [after EXCEPT !.doingIo = TRUE]
    BY <1>1, <1>4, <1>6, <2>1 DEF TypeOK
  <2>3. /\ jobs'[x].finishTime = after.finishTime /\ jobs'[x].startTime = after.startTime
        /\ jobs'[x].doingIo = TRUE /\ jobs'[x].ticksLeft = after.ticksLeft
        /\ jobs'[x].allotedTimeLeft = after.allotedTimeLeft
        /\ jobs'[x].timeLeft = after.timeLeft
    BY <1>5, <2>2 DEF Job
  <2>4. \A j \in Jobs : j # x => jobs'[j] = jobs[j]
    BY <1>1, <1>6 DEF TypeOK
  <2>5. job.timeLeft > 0
    BY <1>4, <1>6 DEF Job
  <2> QED BY <1>4, <1>5, <2>2, <2>3, <2>4, <2>5
<1>10. /\ \A j \in Jobs : Arrived(j)' <=> Arrived(j)
       /\ currentTime' \in Nat /\ IndexOK' /\ i' \in -1 .. NumJobs + NUMQUEUES
  <2>1. \A j \in Jobs : jobs'[j].startTime = jobs[j].startTime
    BY <1>9
  <2> QED BY <1>3, <2>1, TickArrivals
<1>11. TypeOK'
  BY <1>1, <1>3, <1>6, <1>8, <1>9, <1>10 DEF TypeOK, QueuesType
<1>12. \A j \in Jobs : Placed(j)'
  <2>1. \A j \in Jobs : /\ Queued(j)' <=> Queued(j) /\ j # x
                        /\ InIO(j)' <=> InIO(j) \/ j = x
    BY <1>6, <1>8 DEF Queued, InIO
  <2> QED BY <1>1, <1>4, <1>9, <1>10, <2>1 DEF Placed, Live
<1>13. OnePlace'
  BY <1>6, <1>8, <1>12 DEF OnePlace
<1>14. PriorityIsQueue'
  BY <1>1, <1>3, <1>6, <1>9 DEF PriorityIsQueue
<1>15. \A j \in Jobs : AccountOK(j)'
  BY <1>1, <1>4, <1>9, <1>10 DEF AccountOK
<1> QED BY <1>10, <1>11, <1>13, <1>14, <1>15 DEF IInv

\* The running job stays at the head of its queue, or goes to the end of the
\* queue of its level after its quantum.
LEMMA ComputeInv == IInv /\ Compute => IInv'
PROOF
<1> SUFFICES ASSUME IInv, Compute PROVE IInv'
  OBVIOUS
<1>1. /\ TypeOK /\ OnePlace /\ PriorityIsQueue
      /\ \A j \in Jobs : AccountOK(j) /\ Placed(j)
  BY DEF IInv, OnePlace
<1>2. PICK q \in Levels :
        /\ FindsQueue(q) /\ Ran(jobs[Head(queues[q])]).timeLeft # 0
        /\ jobs' = [jobs EXCEPT ![Head(queues[q])] =
                                  Accounted(Ran(jobs[Head(queues[q])]))]
        /\ queues' = IF QuantumExpired(Ran(jobs[Head(queues[q])]))
             THEN Requeued(q, NextLevel(Ran(jobs[Head(queues[q])]), q), Head(queues[q]))
             ELSE queues
  BY DEF Compute
<1>3. /\ pc = "run" /\ NextTick /\ pc' = "arrive"
      /\ UNCHANGED <<i_o_queue, finishedJobs>>
  BY DEF Compute
<1> DEFINE x == Head(queues[q])
           job == Ran(jobs[x])
           after == Accounted(job)
           level == NextLevel(job, q)
<1>4. /\ x \in Jobs /\ In(queues, x, q) /\ Queued(x) /\ ~InIO(x) /\ Arrived(x)
      /\ jobs[x].finishTime = -1 /\ job \in Job /\ job.priority = q
      /\ job.allotedTimeLeft > 0 /\ job.startTime = jobs[x].startTime
      /\ job.finishTime = -1 /\ job.timeLeft >= 0 /\ job.doingIo = FALSE
      /\ ~jobs[x].doingIo
  BY <1>2, <1>3, RunningJob
<1>5. /\ after \in Job /\ after.ticksLeft > 0 /\ after.allotedTimeLeft > 0
      /\ after.timeLeft = job.timeLeft /\ after.startTime = job.startTime
      /\ after.finishTime = job.finishTime /\ after.doingIo = job.doingIo
      /\ level \in Levels
      /\ QuantumExpired(job) => after.priority = level
      /\ ~QuantumExpired(job) => after = job
  BY <1>4, AccountedJob
<1>6. /\ jobs' = [jobs EXCEPT ![x] = after] /\ job.timeLeft # 0
      /\ queues' = IF QuantumExpired(job) THEN Requeued(q, level, x) ELSE queues
  BY <1>2
<1>7. /\ Removed(q) \in QueuesType /\ Distinct(Removed(q))
      /\ \A p \in Levels, j \in Jobs :
           In(Removed(q), j, p) <=> In(queues, j, p) /\ j # x
  BY <1>2, RemovedQueue
<1> HIDE DEF x, job, after, level
<1>8. /\ \A j \in Jobs : j # x => jobs'[j] = jobs[j]
      /\ jobs'[x] = after /\ jobs' \in [Jobs -> Job]
  BY <1>1, <1>4, <1>5, <1>6 DEF TypeOK
<1>9. /\ queues' \in QueuesType /\ Distinct(queues')
      /\ \A p \in Levels, j \in Jobs :
           j # x => (In(queues', j, p) <=> In(queues, j, p))
      /\ \A p \in Levels : In(queues', x, p) <=> p = after.priority
  <2>1. CASE QuantumExpired(job)
    <3> DEFINE Q == Removed(q)
    <3>1. queues' = [Q EXCEPT ![level] = Append(@, x)]
      BY <1>6, <2>1 DEF Requeued
    <3>2. Q \in QueuesType /\ Distinct(Q) /\ \A p \in Levels : ~In(Q, x, p)
      BY <1>4, <1>7
    <3> HIDE DEF Q
    <3>3. /\ queues' \in QueuesType /\ queues'[level] = Append(Q[level], x)
          /\ \A p \in Levels \ {level} : queues'[p] = Q[p]
      BY <3>1, <3>2, <1>4, <1>5 DEF QueuesType
    <3>4. /\ Distinct(queues')
          /\ \A p \in Levels, j \in Jobs :
               In(queues', j, p) <=> In(Q, j, p) \/ (p = level /\ j = x)
      BY <3>2, <3>3, <1>4, <1>5, AppendNew
    <3>5. \A p \in Levels, j \in Jobs : In(Q, j, p) <=> In(queues, j, p) /\ j # x
      BY <1>7 DEF Q
    <3>6. after.priority = level
      BY <1>5, <2>1
    <3> QED BY <3>2, <3>3, <3>4, <3>5, <3>6, <1>4
  <2>2. CASE ~QuantumExpired(job)
    <3>1. queues' = queues /\ after = job
      BY <1>5, <1>6, <2>2
    <3>2. queues \in QueuesType /\ Distinct(queues)
      BY <1>1 DEF TypeOK, OnePlace, QueuesType
    <3>3. \A p \in Levels : In(queues, x, p) => p = q
      BY <1>4, <3>2 DEF In, Distinct
    <3> QED BY <3>1, <3>2, <3>3, <1>4
  <2> QED BY <2>1, <2>2
<1>10. /\ \A j \in Jobs : Arrived(j)' <=> Arrived(j)
       /\ currentTime' \in Nat /\ IndexOK' /\ i' \in -1 .. NumJobs + NUMQUEUES
  <2>1. \A j \in Jobs : jobs'[j].startTime = jobs[j].startTime
    BY <1>4, <1>5, <1>8
  <2> QED BY <1>3, <2>1, TickArrivals
<1>11. TypeOK'
  BY <1>1, <1>3, <1>8, <1>9, <1>10 DEF TypeOK, QueuesType
<1>12. \A j \in Jobs : Placed(j)'
  <2>1. after.priority \in Levels
    BY <1>5 DEF Job
  <2>2. \A j \in Jobs : (Queued(j)' <=> Queued(j)) /\ (InIO(j)' <=> InIO(j))
    BY <1>3, <1>4, <1>9, <2>1 DEF Queued, InIO
  <2> QED BY <1>1, <1>4, <1>5, <1>8, <1>10, <2>2 DEF Placed, Live
<1>13. OnePlace'
  BY <1>1, <1>3, <1>9, <1>12 DEF OnePlace
<1>14. PriorityIsQueue'
  BY <1>1, <1>3, <1>8, <1>9 DEF PriorityIsQueue
<1>15. \A j \in Jobs : AccountOK(j)'
  <2>1. job.timeLeft > 0
    BY <1>4, <1>6 DEF Job
  <2> QED BY <1>1, <1>4, <1>5, <1>8, <1>10, <2>1 DEF AccountOK
<1> QED BY <1>10, <1>11, <1>13, <1>14, <1>15 DEF IInv

-----------------------------------------------------------------------------
\* Every step keeps the invariant.
LEMMA StepInv == IInv /\ [Next]_vars => IInv'
PROOF
<1> SUFFICES ASSUME IInv, [Next]_vars PROVE IInv'
  OBVIOUS
<1>1. CASE UNCHANGED vars
  BY <1>1 DEF vars, IInv, TypeOK, OnePlace, Placed, Live, Arrived, Queued, InIO,
              PriorityIsQueue, IndexOK, AccountOK
<1>2. CASE Next
  BY <1>2, ArriveInv, ArriveEndInv, CompleteIOInv, LeaveIOInv, BoostInv,
     NoBoostInv, MoveInv, MoveEndInv, IdleInv, FinishInv, StartIOInv, ComputeInv
     DEF Next
<1> QED BY <1>1, <1>2

\* The invariant holds in every reachable state.
THEOREM Invariance == Spec => []IInv
PROOF BY InitInv, StepInv, PTL DEF Spec

\* Every field of the scheduler's state keeps its type; in particular no
\* demotion makes a priority negative and no account underflows.
THEOREM TypeCorrect == Spec => []TypeOK
PROOF
<1>1. IInv => TypeOK
  BY DEF IInv
<1> QED BY <1>1, Invariance, PTL

\* No job is lost, duplicated, or both waiting and doing I/O.
THEOREM JobInOnePlace == Spec => []OnePlace
PROOF
<1>1. IInv => OnePlace
  BY DEF IInv
<1> QED BY <1>1, Invariance, PTL

\* A waiting job's priority is the index of the queue that holds it.
THEOREM QueueOfItsPriority == Spec => []PriorityIsQueue
PROOF
<1>1. IInv => PriorityIsQueue
  BY DEF IInv
<1> QED BY <1>1, Invariance, PTL

-----------------------------------------------------------------------------
(* The loop of main.go implements JobScheduler, and its I/O queue is in    *)
(* order.                                                                  *)
(*                                                                         *)
(* The mapping looks into the queues; on reachable states the fields of    *)
(* the job tell the same (Life), so that only the step of an I/O's end     *)
(* needs the I/O queue, and only its order shows that the processor never  *)
(* runs or idles past a job whose I/O is over.                             *)

\* IoQueueInOrder is kept by a new I/O because none ends later than one that
\* starts now.
OInv ==
    /\ IoQueueInOrder
    /\ \A k \in 1 .. Len(i_o_queue) :
          i_o_queue[k].time_to_end_io <= currentTime + IOTIME

\* The entries of the I/O queue and the clock.
LEMMA Entries ==
    ASSUME TypeOK
    PROVE  /\ Len(i_o_queue) \in Nat /\ currentTime \in Nat /\ IOTIME \in Nat
           /\ \A k \in 1 .. Len(i_o_queue) :
                i_o_queue[k].time_to_end_io \in Nat /\ i_o_queue[k].job_id \in Jobs
PROOF
<1>1. IOTIME \in Nat
  BY SizesAssumption
<1>2. i_o_queue \in Seq(IOQueuePair) /\ currentTime \in Nat
  BY DEF TypeOK
<1>3. Len(i_o_queue) \in Nat /\ \A k \in 1 .. Len(i_o_queue) : i_o_queue[k] \in IOQueuePair
  BY <1>2
<1> QED BY <1>1, <1>2, <1>3 DEF IOQueuePair

\* A step of the loop that is no tick.
LEMMA OrderSame ==
    ASSUME OInv, UNCHANGED <<i_o_queue, currentTime>>,
           pc' \in {"arrive", "io"} \/ pc \notin {"arrive", "io", "end"} \/ pc' = pc
    PROVE  OInv'
PROOF BY DEF OInv, IoQueueInOrder

\* The head that is not due is not in the past either: all the I/O ends later.
LEMMA OrderLeave == ASSUME IInv, OInv, LeaveIO PROVE OInv'
PROOF
<1>1. UNCHANGED <<i_o_queue, currentTime>> /\ ~HeadIoDue
  BY DEF LeaveIO
<1>2. ASSUME NEW k \in 1 .. Len(i_o_queue) PROVE i_o_queue[k].time_to_end_io > currentTime
  <2>1. i_o_queue # << >> /\ 1 \in 1 .. Len(i_o_queue) /\ Head(i_o_queue) = i_o_queue[1]
    BY <1>2 DEF IInv, TypeOK
  <2>2. i_o_queue[1].time_to_end_io > currentTime
    BY <1>1, <2>1, Entries DEF HeadIoDue, OInv, IoQueueInOrder, IInv
  <2>3. k = 1 \/ 1 \in 1 .. k - 1
    OBVIOUS
  <2>4. k # 1 => i_o_queue[1].time_to_end_io < i_o_queue[k].time_to_end_io
    BY <2>3 DEF OInv, IoQueueInOrder
  <2> QED BY <2>1, <2>2, <2>4, Entries DEF IInv
<1> QED BY <1>1, <1>2 DEF OInv, IoQueueInOrder

\* The rest of the I/O queue keeps its order.
LEMMA OrderComplete == ASSUME IInv, OInv, CompleteIO PROVE OInv'
PROOF
<1>1. /\ pc = "io" /\ pc' = "io" /\ i_o_queue # << >> /\ i_o_queue' = Tail(i_o_queue)
      /\ currentTime' = currentTime
  BY DEF CompleteIO, HeadIoDue
<1>2. \A k \in 1 .. Len(i_o_queue') :
        k + 1 \in 1 .. Len(i_o_queue) /\ i_o_queue'[k] = i_o_queue[k + 1]
  BY <1>1 DEF IInv, TypeOK
<1>3. ASSUME NEW k \in 1 .. Len(i_o_queue'), NEW l \in 1 .. k - 1
      PROVE  i_o_queue'[l].time_to_end_io < i_o_queue'[k].time_to_end_io
  <2>1. l \in 1 .. Len(i_o_queue') /\ l + 1 \in 1 .. (k + 1) - 1
    BY <1>1 DEF IInv, TypeOK
  <2> QED BY <1>2, <2>1 DEF OInv, IoQueueInOrder
<1> QED BY <1>1, <1>2, <1>3 DEF OInv, IoQueueInOrder

\* A tick: what ended later than now ends at the new time at the earliest.
LEMMA OrderTick ==
    ASSUME IInv, OInv, pc = "run", NextTick, i_o_queue' = i_o_queue,
           pc' \in {"arrive", "end"}
    PROVE  OInv'
PROOF
<1>1. currentTime' = currentTime + 1
  BY DEF NextTick
<1>2. ASSUME NEW k \in 1 .. Len(i_o_queue)
      PROVE  /\ i_o_queue[k].time_to_end_io >= currentTime + 1
             /\ i_o_queue[k].time_to_end_io <= currentTime + 1 + IOTIME
  <2>1. /\ i_o_queue[k].time_to_end_io > currentTime
        /\ i_o_queue[k].time_to_end_io <= currentTime + IOTIME
    BY DEF OInv, IoQueueInOrder
  <2> QED BY <2>1, Entries DEF IInv
<1> QED BY <1>1, <1>2 DEF OInv, IoQueueInOrder

\* An I/O that starts at the end of this tick ends after all the others.
LEMMA OrderStart == ASSUME IInv, OInv, StartIO PROVE OInv'
PROOF
<1>1. /\ pc = "run" /\ pc' = "arrive" /\ currentTime' = currentTime + 1
  BY DEF StartIO, NextTick
<1>2. PICK q \in Levels : i_o_queue' = Append(i_o_queue,
        [job_id |-> Head(queues[q]), time_to_end_io |-> currentTime + 1 + IOTIME])
  BY DEF StartIO, IoEnd
<1> DEFINE n == Len(i_o_queue)
           e == [job_id |-> Head(queues[q]), time_to_end_io |-> currentTime + 1 + IOTIME]
<1>3. /\ n \in Nat /\ Len(i_o_queue') = n + 1 /\ i_o_queue'[n + 1] = e
      /\ \A k \in 1 .. n : i_o_queue'[k] = i_o_queue[k]
  BY <1>2 DEF IInv, TypeOK
<1>4. e.time_to_end_io = currentTime + 1 + IOTIME
  OBVIOUS
<1>5. \A k \in 1 .. n : /\ i_o_queue[k].time_to_end_io > currentTime
                        /\ i_o_queue[k].time_to_end_io <= currentTime + IOTIME
                        /\ i_o_queue[k].time_to_end_io \in Nat
  BY <1>1, Entries DEF IInv, OInv, IoQueueInOrder
<1> HIDE DEF n, e
<1>6. ASSUME NEW k \in 1 .. n + 1
      PROVE  /\ i_o_queue'[k].time_to_end_io >= currentTime + 1
             /\ i_o_queue'[k].time_to_end_io <= currentTime + 1 + IOTIME
  <2>1. k \in 1 .. n \/ k = n + 1
    BY <1>3
  <2>2. currentTime \in Nat /\ IOTIME \in Nat
    BY Entries DEF IInv
  <2> QED BY <1>3, <1>4, <1>5, <2>1, <2>2
<1>7. ASSUME NEW k \in 1 .. n + 1, NEW l \in 1 .. k - 1
      PROVE  i_o_queue'[l].time_to_end_io < i_o_queue'[k].time_to_end_io
  <2>1. l \in 1 .. n /\ (k \in 1 .. n \/ k = n + 1)
    BY <1>3
  <2>2. CASE k \in 1 .. n
    BY <1>3, <2>1, <2>2 DEF n, OInv, IoQueueInOrder
  <2>3. CASE k = n + 1
    <3>1. currentTime \in Nat /\ IOTIME \in Nat
      BY Entries DEF IInv
    <3> QED BY <1>3, <1>4, <1>5, <2>1, <2>3, <3>1
  <2> QED BY <2>1, <2>2, <2>3
<1> QED BY <1>1, <1>3, <1>6, <1>7 DEF OInv, IoQueueInOrder

LEMMA OrderInv == IInv /\ OInv /\ [Next]_vars => OInv'
PROOF
<1> SUFFICES ASSUME IInv, OInv, [Next]_vars PROVE OInv'
  OBVIOUS
<1>1. CASE Arrive \/ ArriveEnd \/ Boost \/ NoBoost \/ Move \/ MoveEnd \/ UNCHANGED vars
  BY <1>1, OrderSame DEF Arrive, ArriveEnd, Boost, NoBoost, Move, MoveEnd, vars
<1>2. CASE Idle \/ Finish \/ Compute
  BY <1>2, OrderTick DEF Idle, Finish, Compute
<1> QED BY <1>1, <1>2, OrderLeave, OrderComplete, OrderStart DEF Next

\* The entries of the I/O queue are due in its order, and none is overdue.
THEOREM InOrder == Spec => []IoQueueInOrder
PROOF
<1>1. Init => OInv
  BY DEF Init, OInv, IoQueueInOrder
<1>2. OInv => IoQueueInOrder
  BY DEF OInv
<1> QED BY <1>1, <1>2, OrderInv, Invariance, PTL DEF Spec

-----------------------------------------------------------------------------
(* The refinement.                                                         *)

\* Where a job is in its life, by its fields alone.
Life(j) ==
    IF jobs[j].finishTime # -1 THEN "done"
    ELSE IF jobs[j].doingIo THEN "io"
    ELSE IF Arrived(j) THEN "ready" ELSE "new"

\* On reachable states the queues say the same.
LEMMA StateIsLife == IInv => \A j \in Jobs : State(j) = Life(j)
PROOF BY DEF IInv, OnePlace, Placed, Live, State, Life

LEMMA StateIsLifeNext == IInv' => \A j \in Jobs : State(j)' = Life(j)'
PROOF
<1>1. (IInv => \A j \in Jobs : State(j) = Life(j))'
  BY StateIsLife, PTL
<1> QED BY <1>1

\* The end of a job's I/O is that of its one entry.
LEMMA BackIsEntry ==
    ASSUME IInv, NEW k \in 1 .. Len(i_o_queue), NEW j \in Jobs,
           i_o_queue[k].job_id = j
    PROVE  InIO(j) /\ Back(j) = i_o_queue[k].time_to_end_io
PROOF
<1>1. InIO(j)
  BY DEF InIO, IoIn
<1> DEFINE c == CHOOSE n \in 1 .. Len(i_o_queue) : i_o_queue[n].job_id = j
<1>2. c \in 1 .. Len(i_o_queue) /\ i_o_queue[c].job_id = j
  OBVIOUS
<1> HIDE DEF c
<1>3. c = k
  BY <1>2 DEF IInv, OnePlace, IoDistinct
<1> QED BY <1>1, <1>3 DEF Back, c

\* The fields the user entered are never written.
Inputs(job) == <<job.startTime, job.runTime, job.ioFreq>>

\* What JobScheduler sees of a step that leaves the clock and the I/O queue.
LEMMA Invisible ==
    ASSUME IInv, IInv', UNCHANGED <<i_o_queue, currentTime>>,
           \A j \in Jobs : /\ UNCHANGED <<jobs[j].startTime, jobs[j].runTime,
                                        jobs[j].ioFreq, jobs[j].timeLeft>>
                          /\ Life(j)' = Life(j)
    PROVE  UNCHANGED Scheduler!vars
PROOF
<1>1. \A j \in Jobs : State(j)' = State(j)
  BY StateIsLife, StateIsLifeNext
<1>2. \A j \in Jobs : Back(j)' = Back(j)
  BY DEF Back, InIO
<1> QED BY <1>1, <1>2 DEF Scheduler!vars

\* A job that runs or is boosted keeps what the user entered.
LEMMA InputsKept ==
    ASSUME NEW job \in Job
    PROVE  /\ Inputs(Ran(job)) = Inputs(job) /\ Inputs(Boosted(job)) = Inputs(job)
           /\ Inputs(Accounted(job)) = Inputs(job)
           /\ Ran(job).timeLeft = job.timeLeft - 1
           /\ Boosted(job).timeLeft = job.timeLeft
           /\ Boosted(job).finishTime = job.finishTime
           /\ Boosted(job).doingIo = job.doingIo
PROOF BY DEF Inputs, Ran, Boosted, Accounted, Refilled, Job

\* The steps that move jobs or look for them are none of a scheduler's.
LEMMA PhasesInvisible ==
    ASSUME IInv, IInv', ArriveEnd \/ LeaveIO \/ NoBoost \/ Move \/ MoveEnd \/ UNCHANGED vars
    PROVE  UNCHANGED Scheduler!vars
PROOF
<1>1. UNCHANGED <<jobs, i_o_queue, currentTime>>
  BY DEF ArriveEnd, LeaveIO, NoBoost, Move, MoveEnd, vars
<1>2. \A j \in Jobs : Arrived(j)' <=> Arrived(j)
  <2>1. CASE ArriveEnd
    <3>1. \A j \in Jobs : j < i
      BY <2>1, LevelsFacts DEF ArriveEnd
    <3> QED BY <1>1, <2>1, <3>1 DEF ArriveEnd, Arrived
  <2>2. CASE LeaveIO \/ NoBoost \/ Move \/ MoveEnd
    BY <1>1, <2>2 DEF LeaveIO, NoBoost, Move, MoveEnd, Arrived
  <2>3. CASE UNCHANGED vars
    BY <2>3 DEF vars, Arrived
  <2> QED BY <2>1, <2>2, <2>3
<1>3. \A j \in Jobs : Life(j)' = Life(j)
  BY <1>1, <1>2 DEF Life
<1> QED BY <1>1, <1>3, Invisible

\* Nor is a boost: it writes neither the inputs nor what is left to compute.
LEMMA BoostInvisible == ASSUME IInv, IInv', Boost PROVE UNCHANGED Scheduler!vars
PROOF
<1>1. /\ pc = "boost" /\ pc' = "move" /\ UNCHANGED <<i_o_queue, currentTime>>
      /\ jobs' = [j \in Jobs |-> IF Queued(j) THEN Boosted(jobs[j]) ELSE jobs[j]]
  BY DEF Boost
<1>2. ASSUME NEW j \in Jobs
      PROVE  /\ UNCHANGED <<jobs[j].startTime, jobs[j].runTime, jobs[j].ioFreq,
                            jobs[j].timeLeft>>
             /\ jobs'[j].finishTime = jobs[j].finishTime
             /\ jobs'[j].doingIo = jobs[j].doingIo
  <2>1. jobs[j] \in Job
    BY DEF IInv, TypeOK
  <2> QED BY <1>1, <2>1, InputsKept DEF Inputs
<1>3. \A j \in Jobs : Life(j)' = Life(j)
  BY <1>1, <1>2 DEF Life, Arrived
<1> QED BY <1>1, <1>2, <1>3, Invisible

\* The arrival loop admits the job whose time has come, and passes the others.
LEMMA ArriveRefines ==
    ASSUME IInv, IInv', Arrive
    PROVE  (\E j \in Jobs : Scheduler!Arrive(j)) \/ UNCHANGED Scheduler!vars
PROOF
<1>1. /\ pc = "arrive" /\ pc' = "arrive" /\ i' = i + 1 /\ i < NumJobs
      /\ UNCHANGED <<jobs, i_o_queue, currentTime>>
  BY DEF Arrive
<1>2. i \in Jobs /\ i \in Int
  BY <1>1, LevelsFacts DEF IInv, IndexOK, Jobs
<1>3. \A j \in Jobs : Arrived(j)' <=> Arrived(j) \/ (j = i /\ jobs[i].startTime = currentTime)
  <2> SUFFICES ASSUME NEW j \in Jobs
               PROVE  Arrived(j)' <=> Arrived(j) \/ (j = i /\ jobs[i].startTime = currentTime)
    OBVIOUS
  <2>1. j < i + 1 <=> j < i \/ j = i
    BY <1>2, LevelsFacts
  <2> QED BY <1>1, <2>1 DEF Arrived
<1>4. CASE jobs[i].startTime # currentTime
  <2>1. \A j \in Jobs : Life(j)' = Life(j)
    BY <1>1, <1>3, <1>4 DEF Life
  <2> QED BY <1>1, <2>1, Invisible
<1>5. CASE jobs[i].startTime = currentTime
  <2>1. PICK a \in Jobs : a = i
    BY <1>2
  <2>2. ~Arrived(a)
    <3>1. ~(a < i) /\ ~(currentTime < currentTime)
      BY <1>2, <2>1, Entries DEF IInv
    <3> QED BY <1>1, <1>5, <2>1, <3>1 DEF Arrived
  <2>3. jobs[a].finishTime = -1 /\ ~jobs[a].doingIo
    BY <2>2 DEF IInv, AccountOK, OnePlace, Placed, Live
  <2>4. Life(a) = "new" /\ Life(a)' = "ready"
    BY <1>1, <1>3, <1>5, <2>1, <2>2, <2>3 DEF Life
  <2>5. \A j \in Jobs \ {a} : Life(j)' = Life(j)
    BY <1>1, <1>3, <2>1 DEF Life
  <2>6. /\ \A j \in Jobs : State(j)' = IF j = a THEN "ready" ELSE State(j)
        /\ State(a) = "new"
    BY <2>4, <2>5, StateIsLife, StateIsLifeNext
  <2>7. \A j \in Jobs : Back(j)' = Back(j)
    BY <1>1 DEF Back, InIO
  <2>8. Scheduler!Arrive(a)
    BY <1>1, <1>5, <2>1, <2>6, <2>7 DEF Scheduler!Arrive
  <2> QED BY <2>8
<1> QED BY <1>4, <1>5

\* The head of the I/O queue comes back when its time has come.
LEMMA ReturnRefines ==
    ASSUME IInv, IInv', CompleteIO
    PROVE  \E j \in Jobs : Scheduler!Return(j)
PROOF
<1>0. Head(i_o_queue).job_id \in Jobs
  <2>1. /\ i_o_queue \in Seq(IOQueuePair) /\ i_o_queue # << >>
        /\ IoDistinct(i_o_queue)
    BY DEF CompleteIO, HeadIoDue, IInv, TypeOK, OnePlace
  <2>2. Head(i_o_queue) \in IOQueuePair
    BY <2>1, IoRemoveHead
  <2> QED BY <2>2 DEF IOQueuePair
<1> PICK x \in Jobs : x = Head(i_o_queue).job_id
  BY <1>0
<1>1. /\ pc = "io" /\ pc' = "io" /\ i_o_queue # << >> /\ UNCHANGED <<currentTime, i>>
      /\ Head(i_o_queue).time_to_end_io = currentTime
      /\ i_o_queue' = Tail(i_o_queue)
      /\ jobs' = [jobs EXCEPT ![x] = [@ EXCEPT !.doingIo = FALSE]]
  BY DEF CompleteIO, HeadIoDue
<1>2. /\ i_o_queue \in Seq(IOQueuePair) /\ IoDistinct(i_o_queue)
      /\ 1 \in 1 .. Len(i_o_queue) /\ Head(i_o_queue) = i_o_queue[1]
  BY <1>1 DEF IInv, TypeOK, OnePlace
<1>3. x \in Jobs /\ jobs[x] \in Job /\ DOMAIN jobs = Jobs
  BY <1>2, Entries DEF IInv, TypeOK
<1>4. InIO(x) /\ Back(x) = currentTime
  BY <1>1, <1>2, <1>3, BackIsEntry
<1>5. ASSUME NEW j \in Jobs
      PROVE  /\ UNCHANGED <<jobs[j].startTime, jobs[j].runTime, jobs[j].ioFreq,
                            jobs[j].timeLeft>>
             /\ jobs'[j].finishTime = jobs[j].finishTime
             /\ jobs'[j].doingIo = IF j = x THEN FALSE ELSE jobs[j].doingIo
             /\ InIO(j)' <=> InIO(j) /\ j # x
  <2>1. IoIn(i_o_queue', j) <=> IoIn(i_o_queue, j) /\ j # x
    BY <1>1, <1>2, IoRemoveHead
  <2>2. /\ UNCHANGED <<jobs[j].startTime, jobs[j].runTime, jobs[j].ioFreq,
                       jobs[j].timeLeft>>
        /\ jobs'[j].finishTime = jobs[j].finishTime
        /\ jobs'[j].doingIo = IF j = x THEN FALSE ELSE jobs[j].doingIo
    BY <1>1, <1>3 DEF Job
  <2> QED BY <2>1, <2>2 DEF InIO
<1>6. Live(x) /\ jobs[x].doingIo
  BY <1>3, <1>4 DEF IInv, OnePlace, Placed
<1>7. Life(x) = "io" /\ Life(x)' = "ready"
  BY <1>1, <1>3, <1>5, <1>6 DEF Life, Live, Arrived
<1>8. \A j \in Jobs \ {x} : Life(j)' = Life(j)
  BY <1>1, <1>5 DEF Life, Arrived
<1>9. /\ \A j \in Jobs : State(j)' = IF j = x THEN "ready" ELSE State(j)
      /\ State(x) = "io"
  BY <1>3, <1>7, <1>8, StateIsLife, StateIsLifeNext
<1>10. ASSUME NEW j \in Jobs PROVE Back(j)' = IF j = x THEN -1 ELSE Back(j)
  <2>1. CASE ~InIO(j)'
    BY <1>5, <2>1 DEF Back
  <2>2. CASE InIO(j)'
    <3>1. PICK k \in 1 .. Len(i_o_queue') : i_o_queue'[k].job_id = j
      BY <2>2 DEF InIO, IoIn
    <3>2. Back(j)' = i_o_queue'[k].time_to_end_io
      <4>1. IoDistinct(i_o_queue')
        BY DEF IInv, OnePlace
      <4> DEFINE c == CHOOSE n \in 1 .. Len(i_o_queue') : i_o_queue'[n].job_id = j
      <4>2. c \in 1 .. Len(i_o_queue') /\ i_o_queue'[c].job_id = j
        BY <3>1
      <4> HIDE DEF c
      <4>3. c = k
        BY <3>1, <4>1, <4>2 DEF IoDistinct
      <4> QED BY <2>2, <4>3 DEF Back, c
    <3>3. k + 1 \in 1 .. Len(i_o_queue) /\ i_o_queue'[k] = i_o_queue[k + 1]
      BY <1>1, <1>2, <3>1
    <3>4. Back(j) = i_o_queue[k + 1].time_to_end_io
      BY <3>1, <3>3, BackIsEntry
    <3> QED BY <1>5, <2>2, <3>2, <3>3, <3>4
  <2> QED BY <2>1, <2>2
<1>11. Scheduler!Return(x)
  <2>1. /\ State(x) = "io" /\ Back(x) = currentTime
        /\ [j \in Jobs |-> State(j)]' = [[j \in Jobs |-> State(j)] EXCEPT ![x] = "ready"]
    BY <1>4, <1>9
  <2>2. [j \in Jobs |-> Back(j)]' = [[j \in Jobs |-> Back(j)] EXCEPT ![x] = -1]
    BY <1>10
  <2>3. UNCHANGED <<[j \in Jobs |-> jobs[j].startTime], [j \in Jobs |-> jobs[j].runTime],
                    [j \in Jobs |-> jobs[j].ioFreq], [j \in Jobs |-> jobs[j].timeLeft],
                    currentTime>>
    BY <1>1, <1>5
  <2> QED BY <1>3, <2>1, <2>2, <2>3 DEF Scheduler!Return
<1> QED BY <1>3, <1>11

-----------------------------------------------------------------------------
(* The ticks.                                                              *)

\* When the tick comes, the arrival loop and the I/O loop have left out nobody.
LEMMA NobodyKeptOut ==
    ASSUME IInv, OInv, pc = "run"
    PROVE  \A j \in Jobs : /\ State(j) = "new" => jobs[j].startTime > currentTime
                           /\ State(j) = "io" => Back(j) > currentTime
PROOF
<1> SUFFICES ASSUME NEW j \in Jobs
             PROVE  /\ State(j) = "new" => jobs[j].startTime > currentTime
                    /\ State(j) = "io" => Back(j) > currentTime
  OBVIOUS
<1>1. ASSUME State(j) = "new" PROVE jobs[j].startTime > currentTime
  <2>1. ~Arrived(j)
    BY <1>1, StateIsLife DEF Life
  <2>2. jobs[j].startTime \in Nat /\ currentTime \in Nat
    BY DEF IInv, TypeOK, Job
  <2> QED BY <2>1, <2>2 DEF Arrived
<1>2. ASSUME State(j) = "io" PROVE Back(j) > currentTime
  <2>1. InIO(j)
    BY <1>2 DEF State
  <2>2. PICK k \in 1 .. Len(i_o_queue) : i_o_queue[k].job_id = j
    BY <2>1 DEF InIO, IoIn
  <2>3. Back(j) = i_o_queue[k].time_to_end_io
    BY <2>2, BackIsEntry
  <2> QED BY <2>3 DEF OInv, IoQueueInOrder
<1> QED BY <1>1, <1>2

\* A tick without a queued job.
LEMMA IdleRefines == ASSUME IInv, IInv', OInv, Idle PROVE Scheduler!Idle
PROOF
<1>1. /\ pc = "run" /\ pc' = "arrive" /\ NextTick /\ NoQueued
      /\ UNCHANGED <<jobs, i_o_queue>> /\ currentTime' = currentTime + 1
  BY DEF Idle, NextTick
<1>2. \A j \in Jobs : Arrived(j)' <=> Arrived(j)
  BY <1>1, TickArrivals
<1>3. \A j \in Jobs : State(j)' = State(j)
  <2>1. \A j \in Jobs : Life(j)' = Life(j)
    BY <1>1, <1>2 DEF Life
  <2> QED BY <2>1, StateIsLife, StateIsLifeNext
<1>4. \A j \in Jobs : Back(j)' = Back(j)
  BY <1>1 DEF Back, InIO
<1>5. \A j \in Jobs : State(j) # "ready"
  <2>1. \A j \in Jobs : ~Queued(j)
    BY <1>1 DEF NoQueued, Queued, In
  <2> QED BY <2>1 DEF State
<1>6. Scheduler!AllAdmitted
  BY <1>1, NobodyKeptOut DEF Scheduler!AllAdmitted
<1> QED BY <1>1, <1>3, <1>4, <1>5, <1>6 DEF Scheduler!Idle

\* A tick in which one job runs, given what it does to that job.
LEMMA TickRefines ==
    ASSUME IInv, IInv', OInv, pc = "run", NextTick, pc' \in {"arrive", "end"},
           NEW x \in Jobs, State(x) = "ready",
           \A j \in Jobs \ {x} : jobs'[j] = jobs[j] /\ Back(j)' = Back(j),
           Inputs(jobs[x])' = Inputs(jobs[x]),
           NEW l, l = jobs[x].timeLeft - 1, jobs'[x].timeLeft = l,
           State(x)' = IF l = 0 THEN "done"
                       ELSE IF jobs[x].ioFreq # 0
                                 /\ (jobs[x].runTime - l) % jobs[x].ioFreq = 0
                            THEN "io" ELSE "ready",
           Back(x)' = IF State(x)' = "io" THEN currentTime + 1 + IOTIME ELSE Back(x)
    PROVE  Scheduler!Compute(x)
PROOF
<1>1. /\ \A j \in Jobs : UNCHANGED <<jobs[j].startTime, jobs[j].runTime, jobs[j].ioFreq>>
      /\ \A j \in Jobs : jobs'[j].timeLeft = IF j = x THEN l ELSE jobs[j].timeLeft
  BY DEF Inputs
<1>2. \A j \in Jobs : Arrived(j)' <=> Arrived(j)
  BY <1>1, TickArrivals
<1>3. \A j \in Jobs \ {x} : State(j)' = State(j)
  <2>1. \A j \in Jobs \ {x} : Life(j)' = Life(j)
    BY <1>2 DEF Life
  <2> QED BY <2>1, StateIsLife, StateIsLifeNext
<1>4. currentTime' = currentTime + 1
  BY DEF NextTick
<1>5. Scheduler!AllAdmitted
  BY NobodyKeptOut DEF Scheduler!AllAdmitted
<1>6. [j \in Jobs |-> jobs[j].timeLeft]'
        = [[j \in Jobs |-> jobs[j].timeLeft] EXCEPT ![x] = @ - 1]
  BY <1>1
<1>7. [j \in Jobs |-> State(j)]' = [[j \in Jobs |-> State(j)] EXCEPT ![x] = State(x)']
  BY <1>3
<1>8. [j \in Jobs |-> Back(j)]' = IF State(x)' = "io"
        THEN [[j \in Jobs |-> Back(j)] EXCEPT ![x] = currentTime + 1 + IOTIME]
        ELSE [j \in Jobs |-> Back(j)]
  OBVIOUS
<1>9. [j \in Jobs |-> jobs[j].timeLeft]'[x] = l
  BY <1>1
<1>10. State(x)' = Scheduler!Outcome(x, [j \in Jobs |-> jobs[j].timeLeft]'[x])
  BY <1>9 DEF Scheduler!Outcome
<1> QED BY <1>1, <1>4, <1>5, <1>6, <1>7, <1>8, <1>10 DEF Scheduler!Compute

\* The job that runs, as a scheduler sees it before and after its tick.
LEMMA RunsOne ==
    ASSUME IInv, pc = "run", NEW q \in Levels, FindsQueue(q),
           NEW x \in Jobs, x = Head(queues[q])
    PROVE  /\ State(x) = "ready" /\ jobs[x] \in Job /\ Ran(jobs[x]) \in Job
           /\ Ran(jobs[x]).timeLeft = jobs[x].timeLeft - 1
           /\ Inputs(Ran(jobs[x])) = Inputs(jobs[x])
           /\ Ran(jobs[x]).finishTime = -1 /\ Ran(jobs[x]).doingIo = FALSE
           /\ Ran(jobs[x]).priority = q /\ Ran(jobs[x]).allotedTimeLeft > 0
           /\ Arrived(x) /\ ~InIO(x)
PROOF
<1>1. /\ Queued(x) /\ ~InIO(x) /\ Arrived(x) /\ jobs[x].finishTime = -1
      /\ Ran(jobs[x]) \in Job /\ Ran(jobs[x]).finishTime = -1
      /\ Ran(jobs[x]).doingIo = FALSE
      /\ Ran(jobs[x]).priority = q /\ Ran(jobs[x]).allotedTimeLeft > 0
  BY RunningJob
<1>2. jobs[x] \in Job
  BY DEF IInv, TypeOK
<1> QED BY <1>1, <1>2, InputsKept DEF State

\* The last tick of a job ends it.
LEMMA FinishRefines ==
    ASSUME IInv, IInv', OInv, Finish PROVE \E j \in Jobs : Scheduler!Compute(j)
PROOF
<1>1. PICK q \in Levels :
        /\ FindsQueue(q) /\ Ran(jobs[Head(queues[q])]).timeLeft = 0
        /\ jobs' = [jobs EXCEPT ![Head(queues[q])] =
                       [Ran(jobs[Head(queues[q])]) EXCEPT !.finishTime = currentTime + 1]]
  BY DEF Finish
<1>2. /\ pc = "run" /\ NextTick /\ pc' \in {"arrive", "end"} /\ i_o_queue' = i_o_queue
  BY DEF Finish
<1>3. Head(queues[q]) \in Jobs
  BY <1>1, <1>2, RunningJob
<1>4. PICK x \in Jobs : x = Head(queues[q])
  BY <1>3
<1> DEFINE job == Ran(jobs[x])
<1>5. /\ State(x) = "ready" /\ job \in Job /\ job.timeLeft = jobs[x].timeLeft - 1
      /\ Inputs(job) = Inputs(jobs[x])
  BY <1>1, <1>2, <1>4, RunsOne
<1>6. jobs' = [jobs EXCEPT ![x] = [job EXCEPT !.finishTime = currentTime + 1]]
  BY <1>1, <1>4
<1>7. job.timeLeft = 0
  BY <1>1, <1>4
<1> HIDE DEF job
<1>8. /\ \A j \in Jobs \ {x} : jobs'[j] = jobs[j]
      /\ jobs'[x] = [job EXCEPT !.finishTime = currentTime + 1]
  BY <1>6 DEF IInv, TypeOK
<1>9. /\ Inputs(jobs[x])' = Inputs(jobs[x]) /\ jobs'[x].timeLeft = 0
      /\ jobs'[x].finishTime = currentTime + 1
  BY <1>5, <1>7, <1>8 DEF Inputs, Job
<1>10. State(x)' = "done"
  <2>1. currentTime + 1 # -1
    BY DEF IInv, TypeOK
  <2> QED BY <1>9, <2>1 DEF State
<1>11. \A j \in Jobs : Back(j)' = Back(j)
  BY <1>2 DEF Back, InIO
<1>12. jobs[x].timeLeft - 1 = 0
  BY <1>5, <1>7
<1>13. Scheduler!Compute(x)
  BY <1>2, <1>5, <1>8, <1>9, <1>10, <1>11, <1>12, TickRefines
<1> QED BY <1>13

\* A job that issues an I/O is away for IOTIME from the end of the tick.
LEMMA EntryOf ==
    ASSUME NEW Q, IoDistinct(Q), NEW j, NEW k \in 1 .. Len(Q), Q[k].job_id = j
    PROVE  (CHOOSE n \in 1 .. Len(Q) : Q[n].job_id = j) = k
PROOF
<1> DEFINE c == CHOOSE n \in 1 .. Len(Q) : Q[n].job_id = j
<1>1. c \in 1 .. Len(Q) /\ Q[c].job_id = j
  OBVIOUS
<1> HIDE DEF c
<1>2. c = k
  BY <1>1 DEF IoDistinct
<1> QED BY <1>2 DEF c

LEMMA StartRefines ==
    ASSUME IInv, IInv', OInv, StartIO PROVE \E j \in Jobs : Scheduler!Compute(j)
PROOF
<1>1. PICK q \in Levels :
        /\ FindsQueue(q) /\ Ran(jobs[Head(queues[q])]).timeLeft # 0
        /\ IssuesIo(Ran(jobs[Head(queues[q])]))
        /\ jobs' = [jobs EXCEPT ![Head(queues[q])] =
                       [Accounted(Ran(jobs[Head(queues[q])])) EXCEPT !.doingIo = TRUE]]
        /\ i_o_queue' = Append(i_o_queue, [job_id |-> Head(queues[q]),
                                          time_to_end_io |-> currentTime + 1 + IOTIME])
  BY DEF StartIO, IoEnd
<1>2. pc = "run" /\ NextTick /\ pc' \in {"arrive", "end"}
  BY DEF StartIO
<1>3. Head(queues[q]) \in Jobs
  BY <1>1, <1>2, RunningJob
<1>4. PICK x \in Jobs : x = Head(queues[q])
  BY <1>3
<1> DEFINE job == Ran(jobs[x])
           e == [job_id |-> x, time_to_end_io |-> currentTime + 1 + IOTIME]
           l == jobs[x].timeLeft - 1
<1>5. /\ State(x) = "ready" /\ job \in Job /\ job.timeLeft = l
      /\ Inputs(job) = Inputs(jobs[x]) /\ job.finishTime = -1 /\ ~InIO(x)
      /\ job.priority = q /\ job.allotedTimeLeft > 0
  BY <1>1, <1>2, <1>4, RunsOne
<1>6. /\ jobs' = [jobs EXCEPT ![x] = [Accounted(job) EXCEPT !.doingIo = TRUE]]
      /\ i_o_queue' = Append(i_o_queue, e) /\ IssuesIo(job) /\ job.timeLeft # 0
  BY <1>1, <1>4
<1> HIDE DEF job, l
<1>7. /\ Accounted(job) \in Job /\ Accounted(job).timeLeft = l
      /\ Accounted(job).finishTime = -1
  BY <1>5, AccountedJob
<1>8. /\ \A j \in Jobs \ {x} : jobs'[j] = jobs[j]
      /\ jobs'[x] = [Accounted(job) EXCEPT !.doingIo = TRUE]
  BY <1>6 DEF IInv, TypeOK
<1>9. /\ Inputs(jobs[x])' = Inputs(jobs[x]) /\ jobs'[x].timeLeft = l
      /\ jobs'[x].finishTime = -1 /\ jobs'[x].doingIo
  <2>1. Inputs(Accounted(job)) = Inputs(job)
    BY <1>5, InputsKept
  <2> QED BY <1>5, <1>7, <1>8, <2>1 DEF Inputs, Job
<1>10. State(x)' = "io"
  BY <1>9, StateIsLifeNext DEF Life
<1>11. l # 0 /\ jobs[x].ioFreq # 0 /\ (jobs[x].runTime - l) % jobs[x].ioFreq = 0
  BY <1>5, <1>6 DEF IssuesIo, Inputs
<1>12. /\ e.job_id = x /\ e.time_to_end_io = currentTime + 1 + IOTIME
  OBVIOUS
<1> HIDE DEF e
<1>13. /\ Len(i_o_queue) + 1 \in 1 .. Len(i_o_queue')
       /\ i_o_queue'[Len(i_o_queue) + 1] = e
       /\ \A k \in 1 .. Len(i_o_queue) : k \in 1 .. Len(i_o_queue')
                                         /\ i_o_queue'[k] = i_o_queue[k]
       /\ \A k \in 1 .. Len(i_o_queue') : k \in 1 .. Len(i_o_queue)
                                          \/ i_o_queue'[k] = e
  BY <1>6 DEF IInv, TypeOK
<1>14. IoDistinct(i_o_queue')
  BY DEF IInv, OnePlace
<1>15. Back(x)' = currentTime + 1 + IOTIME
  <2>1. InIO(x)'
    BY <1>12, <1>13 DEF InIO, IoIn
  <2>2. PICK k \in 1 .. Len(i_o_queue') : i_o_queue'[k] = e
    BY <1>13
  <2>3. Back(x)' = i_o_queue'[k].time_to_end_io
    BY <1>12, <1>14, <2>1, <2>2, EntryOf DEF Back
  <2> QED BY <1>12, <2>2, <2>3
<1>16. ASSUME NEW j \in Jobs \ {x} PROVE Back(j)' = Back(j)
  <2>1. CASE InIO(j)
    <3>1. PICK k \in 1 .. Len(i_o_queue) : i_o_queue[k].job_id = j
      BY <2>1 DEF InIO, IoIn
    <3>2. InIO(j)'
      BY <1>13, <3>1 DEF InIO, IoIn
    <3>3. Back(j)' = i_o_queue'[k].time_to_end_io
      BY <1>13, <1>14, <3>1, <3>2, EntryOf DEF Back
    <3>4. Back(j) = i_o_queue[k].time_to_end_io
      BY <3>1, BackIsEntry
    <3> QED BY <1>13, <3>3, <3>4
  <2>2. CASE ~InIO(j)
    <3>1. ~InIO(j)'
      BY <1>12, <1>13, <2>2 DEF InIO, IoIn
    <3> QED BY <2>2, <3>1 DEF Back
  <2> QED BY <2>1, <2>2
<1>17. l = jobs[x].timeLeft - 1
  BY DEF l
<1>18. Scheduler!Compute(x)
  BY <1>2, <1>5, <1>8, <1>9, <1>10, <1>11, <1>15, <1>16, <1>17, TickRefines
<1> QED BY <1>18

\* Otherwise the job is ready again, at whatever level.
LEMMA ComputeRefines ==
    ASSUME IInv, IInv', OInv, Compute PROVE \E j \in Jobs : Scheduler!Compute(j)
PROOF
<1>1. PICK q \in Levels :
        /\ FindsQueue(q) /\ Ran(jobs[Head(queues[q])]).timeLeft # 0
        /\ ~IssuesIo(Ran(jobs[Head(queues[q])]))
        /\ jobs' = [jobs EXCEPT ![Head(queues[q])] = Accounted(Ran(jobs[Head(queues[q])]))]
  BY DEF Compute
<1>2. /\ pc = "run" /\ NextTick /\ pc' \in {"arrive", "end"} /\ i_o_queue' = i_o_queue
  BY DEF Compute
<1>3. Head(queues[q]) \in Jobs
  BY <1>1, <1>2, RunningJob
<1>4. PICK x \in Jobs : x = Head(queues[q])
  BY <1>3
<1> DEFINE job == Ran(jobs[x])
           l == jobs[x].timeLeft - 1
<1>5. /\ State(x) = "ready" /\ job \in Job /\ job.timeLeft = l
      /\ Inputs(job) = Inputs(jobs[x]) /\ job.finishTime = -1 /\ job.doingIo = FALSE
      /\ job.priority = q /\ job.allotedTimeLeft > 0 /\ Arrived(x)
  BY <1>1, <1>2, <1>4, RunsOne
<1>6. /\ jobs' = [jobs EXCEPT ![x] = Accounted(job)]
      /\ ~IssuesIo(job) /\ job.timeLeft # 0
  BY <1>1, <1>4
<1> HIDE DEF job, l
<1>7. /\ Accounted(job).timeLeft = l /\ Accounted(job).finishTime = -1
      /\ Accounted(job).doingIo = FALSE
  BY <1>5, AccountedJob
<1>8. /\ \A j \in Jobs \ {x} : jobs'[j] = jobs[j]
      /\ jobs'[x] = Accounted(job)
  BY <1>6 DEF IInv, TypeOK
<1>9. Inputs(jobs[x])' = Inputs(jobs[x])
  <2>1. Inputs(Accounted(job)) = Inputs(job)
    BY <1>5, InputsKept
  <2> QED BY <1>5, <1>8, <2>1 DEF Inputs
<1>10. State(x)' = "ready"
  <2>1. \A j \in Jobs : jobs'[j].startTime = jobs[j].startTime
    BY <1>8, <1>9 DEF Inputs
  <2>2. Arrived(x)'
    BY <1>2, <1>5, <2>1, TickArrivals
  <2> QED BY <1>7, <1>8, <2>2, StateIsLifeNext DEF Life
<1>11. l # 0 /\ ~(jobs[x].ioFreq # 0 /\ (jobs[x].runTime - l) % jobs[x].ioFreq = 0)
  BY <1>5, <1>6 DEF IssuesIo, Inputs
<1>12. \A j \in Jobs : Back(j)' = Back(j)
  BY <1>2 DEF Back, InIO
<1>13. l = jobs[x].timeLeft - 1
  BY DEF l
<1>14. Scheduler!Compute(x)
  BY <1>2, <1>5, <1>7, <1>8, <1>9, <1>10, <1>11, <1>12, <1>13, TickRefines
<1> QED BY <1>14

-----------------------------------------------------------------------------
\* The program starts where a scheduler does.
LEMMA InitRefines == Init => Scheduler!Init
PROOF
<1> SUFFICES ASSUME Init PROVE Scheduler!Init
  OBVIOUS
<1>1. PICK start \in [Jobs -> StartTimes], run \in [Jobs -> RunTimes],
           freq \in [Jobs -> IoFreqs] :
        jobs = [j \in Jobs |-> NewJob(start[j], run[j], freq[j])]
  BY DEF Init
<1>2. \A j \in Jobs : /\ jobs[j].startTime = start[j] /\ jobs[j].runTime = run[j]
                      /\ jobs[j].ioFreq = freq[j] /\ jobs[j].timeLeft = run[j]
                      /\ jobs[j].finishTime = -1
  BY <1>1 DEF NewJob
<1>3. \A j \in Jobs : ~InIO(j) /\ ~Queued(j)
  BY DEF Init, InIO, IoIn, Queued, In
<1>4. \A j \in Jobs : State(j) = "new" /\ Back(j) = -1
  BY <1>2, <1>3 DEF State, Back
<1>5. currentTime = 0
  BY DEF Init
<1>6. /\ [j \in Jobs |-> jobs[j].startTime] = start /\ [j \in Jobs |-> jobs[j].runTime] = run
      /\ [j \in Jobs |-> jobs[j].ioFreq] = freq /\ [j \in Jobs |-> jobs[j].timeLeft] = run
  BY <1>2
<1> QED BY <1>4, <1>5, <1>6 DEF Scheduler!Init

\* Every step of the loop is a step of a scheduler or none.
LEMMA NextRefines ==
    IInv /\ IInv' /\ OInv /\ [Next]_vars => [Scheduler!Next]_(Scheduler!vars)
PROOF
<1> SUFFICES ASSUME IInv, IInv', OInv, [Next]_vars
             PROVE  Scheduler!Next \/ UNCHANGED Scheduler!vars
  OBVIOUS
<1>1. CASE ArriveEnd \/ LeaveIO \/ NoBoost \/ Move \/ MoveEnd \/ UNCHANGED vars
  BY <1>1, PhasesInvisible
<1>2. CASE Boost
  BY <1>2, BoostInvisible
<1>3. CASE Arrive
  BY <1>3, ArriveRefines DEF Scheduler!Next
<1>4. CASE CompleteIO
  BY <1>4, ReturnRefines DEF Scheduler!Next
<1>5. CASE Idle
  BY <1>5, IdleRefines DEF Scheduler!Next
<1>6. CASE Finish \/ StartIO \/ Compute
  BY <1>6, FinishRefines, StartRefines, ComputeRefines DEF Scheduler!Next
<1> QED BY <1>1, <1>2, <1>3, <1>4, <1>5, <1>6 DEF Next

\* main.go's loop is a work-conserving scheduler: whatever the levels, accounts and
\* boosts do, a job computes in every tick in which one is ready, for exactly its
\* run time, and is away for exactly IOTIME after every ioFreq-th tick.
THEOREM Refinement == Spec => ImplementsScheduler
PROOF
<1>1. Init => OInv
  BY DEF Init, OInv, IoQueueInOrder
<1> QED BY <1>1, InitInv, StepInv, OrderInv, InitRefines, NextRefines, PTL
        DEF Spec, ImplementsScheduler, Scheduler!Spec

-----------------------------------------------------------------------------
(* The histories of MLFQPolicy.                                            *)

\* A tick of job x, as its accounts and its queue see it.
TickOf(x, q) ==
    /\ pc = "run" /\ pc' \notin {"move", "run"} /\ currentTime' = currentTime + 1 /\ i' = 0
    /\ FindsQueue(q) /\ x = Head(queues[q]) /\ jobs[x].priority = q
    /\ jobs'[x].timeLeft < jobs[x].timeLeft
    /\ \A j \in Jobs \ {x} : jobs'[j] = jobs[j]
    /\ \A j \in Jobs \ {x}, p \in Levels : In(queues', j, p) <=> In(queues, j, p)
    /\ jobs[x].ticksLeft \in 1 .. QUANTUM /\ jobs[x].allotedTimeLeft \in 1 .. ALLOTMENT

\* What the tick leaves of the accounts, at the same level or at the next one down.
Charged(x) ==
    /\ jobs'[x].priority = jobs[x].priority
    /\ jobs'[x].allotedTimeLeft = jobs[x].allotedTimeLeft
    /\ jobs'[x].ticksLeft = jobs[x].ticksLeft - 1
Renewed(x) ==
    /\ jobs[x].ticksLeft = 1 /\ jobs[x].allotedTimeLeft > 1
    /\ jobs'[x].priority = jobs[x].priority
    /\ jobs'[x].allotedTimeLeft = jobs[x].allotedTimeLeft - 1
    /\ jobs'[x].ticksLeft = QUANTUM
Spent(x) ==
    /\ jobs[x].ticksLeft = 1 /\ jobs[x].allotedTimeLeft = 1
    /\ IF jobs[x].priority = 0 THEN jobs'[x].priority = 0
                               ELSE jobs'[x].priority = jobs[x].priority - 1
    /\ jobs'[x].allotedTimeLeft = ALLOTMENT
    /\ jobs'[x].ticksLeft = QUANTUM

\* And of its place: it stays at the head, leaves, or goes behind all those of a level.
Stays(x) == queues' = queues /\ Charged(x)
Leaves(q) ==
    /\ queues'[q] = Tail(queues[q])
    /\ \A p \in Levels \ {q} : queues'[p] = queues[p]
Requeues(x, q) ==
    \E level \in Levels :
        /\ queues'[level] = Append(IF level = q THEN Tail(queues[q]) ELSE queues[level], x)
        /\ q # level => queues'[q] = Tail(queues[q])
        /\ \A p \in Levels \ {q, level} : queues'[p] = queues[p]

\* The charge of a tick, before the job's I/O or end is noted.
LEMMA ChargeOf ==
    ASSUME IInv, pc = "run", NEW q \in Levels, FindsQueue(q), NEW x, x = Head(queues[q]),
           NEW job, job = Ran(jobs[x])
    PROVE  /\ x \in Jobs /\ jobs[x] \in Job /\ jobs[x].priority = q
           /\ jobs[x].ticksLeft \in 1 .. QUANTUM /\ jobs[x].allotedTimeLeft \in 1 .. ALLOTMENT
           /\ job \in Job /\ job.priority = q /\ job.ticksLeft = jobs[x].ticksLeft - 1
           /\ job.allotedTimeLeft = jobs[x].allotedTimeLeft
           /\ job.timeLeft < jobs[x].timeLeft
PROOF
<1>1. /\ x \in Jobs /\ In(queues, x, q) /\ job \in Job /\ job.priority = q
      /\ jobs[x].finishTime = -1
  BY RunningJob
<1>2. /\ jobs[x] \in Job /\ jobs[x].ticksLeft > 0 /\ jobs[x].allotedTimeLeft > 0
  BY <1>1 DEF IInv, TypeOK, AccountOK
<1>3. /\ jobs[x].priority = q
  BY <1>1 DEF IInv, PriorityIsQueue
<1>4. /\ job.ticksLeft = jobs[x].ticksLeft - 1
      /\ job.allotedTimeLeft = jobs[x].allotedTimeLeft
      /\ job.timeLeft = jobs[x].timeLeft - 1
  BY <1>2 DEF Ran, Job
<1>5. /\ jobs[x].timeLeft \in Nat /\ jobs[x].ticksLeft \in 0 .. QUANTUM
      /\ jobs[x].allotedTimeLeft \in 0 .. ALLOTMENT
  BY <1>2 DEF Job
<1> QED BY <1>1, <1>2, <1>3, <1>4, <1>5, LevelsFacts

\* Each of the three steps that run a job charges it.
LEMMA TickCharges ==
    ASSUME IInv, Finish \/ StartIO \/ Compute
    PROVE  \E q \in Levels, x \in Jobs :
             /\ TickOf(x, q)
             /\ Charged(x) \/ Renewed(x) \/ Spent(x)
             /\ Stays(x) \/ Leaves(q) \/ Requeues(x, q)
PROOF
<1>1. PICK q \in Levels :
        LET j == Head(queues[q])
            job == Ran(jobs[j])
        IN  /\ FindsQueue(q)
            /\ \/ /\ jobs' = [jobs EXCEPT ![j] = [job EXCEPT !.finishTime = currentTime + 1]]
                  /\ queues' = Removed(q)
               \/ /\ jobs' = [jobs EXCEPT ![j] = [Accounted(job) EXCEPT !.doingIo = TRUE]]
                  /\ queues' = Removed(q)
               \/ /\ jobs' = [jobs EXCEPT ![j] = Accounted(job)]
                  /\ queues' = IF QuantumExpired(job) THEN Requeued(q, NextLevel(job, q), j)
                                                     ELSE queues
  BY DEF Finish, StartIO, Compute
<1>2. /\ pc = "run" /\ pc' \notin {"move", "run"} /\ currentTime' = currentTime + 1 /\ i' = 0
  BY DEF Finish, StartIO, Compute, NextTick
<1>3. PICK x : x = Head(queues[q])
  OBVIOUS
<1>4. PICK job : job = Ran(jobs[x])
  OBVIOUS
<1>5. /\ x \in Jobs /\ jobs[x] \in Job /\ jobs[x].priority = q
      /\ jobs[x].ticksLeft \in 1 .. QUANTUM /\ jobs[x].allotedTimeLeft \in 1 .. ALLOTMENT
      /\ job \in Job /\ job.priority = q /\ job.ticksLeft = jobs[x].ticksLeft - 1
      /\ job.allotedTimeLeft = jobs[x].allotedTimeLeft
      /\ job.timeLeft < jobs[x].timeLeft
  BY <1>1, <1>2, <1>3, <1>4, ChargeOf
<1>6. PICK after : after = Accounted(job)
  OBVIOUS
<1>7. /\ after \in Job /\ after.timeLeft = job.timeLeft /\ NextLevel(job, q) \in Levels
  BY <1>5, <1>6, AccountedJob, LevelsFacts
<1>8. PICK new \in Job :
        /\ jobs' = [jobs EXCEPT ![x] = new]
        /\ new.timeLeft = job.timeLeft
        /\ \/ /\ queues' = Removed(q)
              /\ \/ /\ new.priority = job.priority /\ new.ticksLeft = job.ticksLeft
                    /\ new.allotedTimeLeft = job.allotedTimeLeft
                 \/ /\ new.priority = after.priority /\ new.ticksLeft = after.ticksLeft
                    /\ new.allotedTimeLeft = after.allotedTimeLeft
           \/ /\ new = after
              /\ queues' = IF QuantumExpired(job) THEN Requeued(q, NextLevel(job, q), x) ELSE queues
  <2>1. CASE jobs' = [jobs EXCEPT ![x] = [job EXCEPT !.finishTime = currentTime + 1]] /\ queues' = Removed(q)
    <3> DEFINE new == [job EXCEPT !.finishTime = currentTime + 1]
    <3>1. currentTime + 1 \in Int
      BY DEF IInv, TypeOK
    <3>2. new \in Job
      BY <1>5, <3>1 DEF Job
    <3>3. /\ new.priority = job.priority /\ new.ticksLeft = job.ticksLeft
          /\ new.allotedTimeLeft = job.allotedTimeLeft /\ new.timeLeft = job.timeLeft
      BY <1>5 DEF Job
    <3> QED BY <2>1, <3>2, <3>3
  <2>2. CASE jobs' = [jobs EXCEPT ![x] = [after EXCEPT !.doingIo = TRUE]] /\ queues' = Removed(q)
    <3> DEFINE new == [after EXCEPT !.doingIo = TRUE]
    <3>1. new \in Job
      BY <1>7 DEF Job
    <3>2. /\ new.priority = after.priority /\ new.ticksLeft = after.ticksLeft
          /\ new.allotedTimeLeft = after.allotedTimeLeft /\ new.timeLeft = after.timeLeft
      BY <1>7 DEF Job
    <3> QED BY <1>7, <2>2, <3>1, <3>2
  <2>3. CASE /\ jobs' = [jobs EXCEPT ![x] = after]
             /\ queues' = IF QuantumExpired(job) THEN Requeued(q, NextLevel(job, q), x) ELSE queues
    BY <1>7, <2>3
  <2> QED BY <1>1, <1>3, <1>4, <1>6, <2>1, <2>2, <2>3
<1>9. jobs'[x] = new /\ \A j \in Jobs : j # x => jobs'[j] = jobs[j]
  BY <1>5, <1>8 DEF IInv, TypeOK
<1>10. ASSUME NEW j \in Jobs \ {x}, NEW p \in Levels
       PROVE  In(queues', j, p) <=> In(queues, j, p)
  <2>1. PICK Q : Q = Removed(q)
    OBVIOUS
  <2>2. /\ Q \in QueuesType /\ Distinct(Q)
        /\ \A l \in Levels, k \in Jobs : In(Q, k, l) <=> In(queues, k, l) /\ k # x
    BY <1>1, <1>3, <2>1, RemovedQueue
  <2>3. CASE queues' = Requeued(q, NextLevel(job, q), x)
    <3>1. PICK level \in Levels : level = NextLevel(job, q)
      BY <1>7
    <3>2. PICK R : R = queues'
      OBVIOUS
    <3>3. R = [Q EXCEPT ![level] = Append(@, x)]
      BY <2>1, <2>3, <3>1, <3>2 DEF Requeued
    <3>4. Q[level] \in Seq(Jobs) /\ Append(Q[level], x) \in Seq(Jobs)
      BY <1>5, <2>2 DEF QueuesType
    <3>5. /\ R \in QueuesType /\ R[level] = Append(Q[level], x)
          /\ \A l \in Levels \ {level} : R[l] = Q[l]
      BY <2>2, <3>3, <3>4 DEF QueuesType
    <3>6. \A l \in Levels : ~In(Q, x, l)
      BY <1>5, <2>2
    <3>7. \A l \in Levels, k \in Jobs : In(R, k, l) <=> In(Q, k, l) \/ (l = level /\ k = x)
      BY <1>5, <2>2, <3>5, <3>6, AppendNew
    <3> QED BY <2>2, <3>2, <3>7
  <2>4. CASE queues' = queues
    BY <2>4
  <2>5. CASE queues' = Removed(q)
    BY <2>1, <2>2, <2>5
  <2> QED BY <1>8, <2>3, <2>4, <2>5
<1>11. \/ ~QuantumExpired(job) /\ after = job
       \/ /\ QuantumExpired(job) /\ job.allotedTimeLeft > 1
          /\ after.priority = job.priority /\ after.ticksLeft = QUANTUM
          /\ after.allotedTimeLeft = job.allotedTimeLeft - 1
       \/ /\ QuantumExpired(job) /\ job.allotedTimeLeft = 1
          /\ after.priority = (IF job.priority = 0 THEN 0 ELSE job.priority - 1)
          /\ after.ticksLeft = QUANTUM /\ after.allotedTimeLeft = ALLOTMENT
  <2>1. CASE ~QuantumExpired(job)
    BY <1>6, <2>1 DEF Accounted
  <2>2. CASE QuantumExpired(job)
    <3>1. after = Refilled(job)
      BY <1>6, <2>2 DEF Accounted
    <3>2. /\ after.priority = (IF Demoted(job) THEN job.priority - 1 ELSE job.priority)
          /\ after.allotedTimeLeft = (IF AllotmentSpent(job) THEN ALLOTMENT ELSE job.allotedTimeLeft - 1)
          /\ after.ticksLeft = QUANTUM
      BY <1>5, <3>1 DEF Refilled, Job
    <3>3. /\ AllotmentSpent(job) <=> job.allotedTimeLeft = 1
          /\ Demoted(job) <=> job.allotedTimeLeft = 1 /\ job.priority # 0
      BY <2>2 DEF AllotmentSpent, Demoted
    <3>4. job.allotedTimeLeft = 1 \/ job.allotedTimeLeft > 1
      BY <1>5, LevelsFacts
    <3> QED BY <2>2, <3>2, <3>3, <3>4
  <2> QED BY <2>1, <2>2
<1>12. QuantumExpired(job) <=> jobs[x].ticksLeft = 1
  BY <1>5, LevelsFacts DEF QuantumExpired
<1>13. Charged(x) \/ Renewed(x) \/ Spent(x)
  BY <1>5, <1>8, <1>9, <1>11, <1>12 DEF Charged, Renewed, Spent
<1>14. Stays(x) \/ Leaves(q) \/ Requeues(x, q)
  <2>1. queues \in QueuesType /\ Tail(queues[q]) \in Seq(Jobs)
    BY <1>1 DEF IInv, TypeOK, QueuesType, FindsQueue
  <2>2. Removed(q) \in QueuesType /\ Removed(q)[q] = Tail(queues[q])
        /\ \A p \in Levels \ {q} : Removed(q)[p] = queues[p]
    BY <2>1 DEF Removed, QueuesType
  <2>3. CASE queues' = Removed(q)
    BY <2>2, <2>3 DEF Leaves
  <2>4. CASE new = after /\ ~QuantumExpired(job) /\ queues' = queues
    BY <1>5, <1>9, <1>11, <2>4 DEF Stays, Charged
  <2>5. CASE queues' = Requeued(q, NextLevel(job, q), x)
    <3>1. PICK level \in Levels : level = NextLevel(job, q)
      BY <1>7
    <3>2. PICK Q \in QueuesType : Q = Removed(q)
      BY <2>2
    <3>3. queues' = [Q EXCEPT ![level] = Append(@, x)]
      BY <2>5, <3>1, <3>2 DEF Requeued
    <3>4. queues'[level] = Append(Q[level], x) /\ \A p \in Levels : p # level => queues'[p] = Q[p]
      BY <3>2, <3>3 DEF QueuesType
    <3> QED BY <2>2, <3>2, <3>4 DEF Requeues
  <2> QED BY <1>8, <2>3, <2>4, <2>5
<1>15. TickOf(x, q)
  BY <1>1, <1>2, <1>3, <1>5, <1>8, <1>9, <1>10 DEF TickOf
<1> QED BY <1>5, <1>13, <1>14, <1>15

-----------------------------------------------------------------------------
(* AccountsExact, and the invariants of MLFQ under the histories.          *)

\* The histories add nothing to what the scheduler does.
LEMMA PolicyStep == ASSUME IInv, [PolicyNext]_policyVars PROVE IInv'
BY StepInv DEF PolicyNext, policyVars, vars

\* The steps that leave every job's level, accounts and work as they are.
Quiet ==
    \/ Arrive \/ ArriveEnd \/ CompleteIO \/ LeaveIO \/ NoBoost
    \/ Move \/ MoveEnd \/ Idle

LEMMA QuietKeeps ==
    ASSUME IInv, Quiet, NEW j \in Jobs
    PROVE  /\ jobs'[j].priority = jobs[j].priority
           /\ jobs'[j].ticksLeft = jobs[j].ticksLeft
           /\ jobs'[j].allotedTimeLeft = jobs[j].allotedTimeLeft
           /\ jobs'[j].timeLeft = jobs[j].timeLeft
           /\ ~(pc = "boost" /\ pc' = "move") /\ ~(pc = "run" /\ pc' = "move")
PROOF
<1>1. CASE CompleteIO
  <2>1. PICK h : h = Head(i_o_queue).job_id
    OBVIOUS
  <2>2. /\ jobs' = [jobs EXCEPT ![h] = [@ EXCEPT !.doingIo = FALSE]]
        /\ pc = "io" /\ pc' = pc
    BY <1>1, <2>1 DEF CompleteIO
  <2>3. jobs \in [Jobs -> Job] /\ jobs[j] \in Job
    BY DEF IInv, TypeOK
  <2>4. jobs'[j] = IF j = h THEN [jobs[j] EXCEPT !.doingIo = FALSE] ELSE jobs[j]
    BY <2>2, <2>3
  <2> QED BY <2>2, <2>3, <2>4 DEF Job
<1>2. CASE ~CompleteIO
  BY <1>2 DEF Quiet, Arrive, ArriveEnd, LeaveIO, NoBoost, Move, MoveEnd, Idle
<1> QED BY <1>1, <1>2

\* Each step is quiet, a boost or a tick of the job at the head.
LEMMA StepKinds ==
    ASSUME IInv, Next
    PROVE  Quiet \/ Boost \/ Finish \/ StartIO \/ Compute
BY DEF Next, Quiet

\* What a boost makes of a job.
LEMMA BoostOf ==
    ASSUME IInv, Boost, NEW j \in Jobs
    PROVE  /\ Queued(j) => /\ jobs'[j].priority = HIGHEST_PRIORITY
                           /\ jobs'[j].ticksLeft = QUANTUM
                           /\ jobs'[j].allotedTimeLeft = ALLOTMENT
           /\ ~Queued(j) => jobs'[j] = jobs[j]
           /\ jobs'[j].timeLeft = jobs[j].timeLeft
PROOF
<1>1. jobs[j] \in Job
  BY DEF IInv, TypeOK
<1>2. jobs'[j] = IF Queued(j) THEN Boosted(jobs[j]) ELSE jobs[j]
  BY DEF Boost
<1>3. PICK new : new = Boosted(jobs[j])
  OBVIOUS
<1>4. /\ new.priority = HIGHEST_PRIORITY /\ new.ticksLeft = QUANTUM
      /\ new.allotedTimeLeft = ALLOTMENT /\ new.timeLeft = jobs[j].timeLeft
  BY <1>1, <1>3 DEF Boosted, Job
<1> QED BY <1>2, <1>3, <1>4

\* What an account of a quantums, the last with t left, has spent.
SpentOf(a, t) == (ALLOTMENT - a) * QUANTUM + (QUANTUM - t)

LEMMA SpentArithmetic ==
    /\ SpentOf(ALLOTMENT, QUANTUM) = 0
    /\ \A a, t \in Int : SpentOf(a, t - 1) = SpentOf(a, t) + 1
    /\ \A a \in Int : SpentOf(a - 1, QUANTUM) = SpentOf(a, 1) + 1
PROOF
<1>1. QUANTUM \in Int /\ ALLOTMENT \in Int
  BY LevelsFacts
<1> QED BY <1>1 DEF SpentOf

LEMMA AccountsStep ==
    ASSUME IInv, AccountsExact, PolicyNext
    PROVE  AccountsExact'
PROOF
<1>1. /\ Next
      /\ \A j \in Jobs : used'[j] =
           IF IsBoosted(j) \/ jobs'[j].priority # jobs[j].priority THEN 0
           ELSE IF Computes(j) THEN used[j] + 1 ELSE used[j]
  BY DEF PolicyNext
<1>2. SUFFICES ASSUME NEW j \in Jobs, jobs'[j].priority > 0
      PROVE  used'[j] = SpentOf(jobs'[j].allotedTimeLeft, jobs'[j].ticksLeft)
  BY DEF AccountsExact, SpentOf
<1>3. /\ jobs[j].timeLeft \in Int /\ jobs[j].ticksLeft \in Int
      /\ jobs[j].allotedTimeLeft \in Int
      /\ jobs[j].priority > 0 => used[j] = SpentOf(jobs[j].allotedTimeLeft, jobs[j].ticksLeft)
  BY DEF IInv, TypeOK, Job, AccountsExact, SpentOf
<1>4. ASSUME jobs'[j].priority = jobs[j].priority, jobs'[j].ticksLeft = jobs[j].ticksLeft,
             jobs'[j].allotedTimeLeft = jobs[j].allotedTimeLeft,
             jobs'[j].timeLeft = jobs[j].timeLeft, ~IsBoosted(j)
      PROVE  used'[j] = SpentOf(jobs'[j].allotedTimeLeft, jobs'[j].ticksLeft)
  <2>1. ~Computes(j)
    BY <1>3, <1>4 DEF Computes
  <2> QED BY <1>1, <1>2, <1>3, <1>4, <2>1
<1>5. CASE Quiet
  BY <1>4, <1>5, QuietKeeps DEF IsBoosted
<1>6. CASE Boost
  <2>1. CASE Queued(j)
    <3>1. IsBoosted(j)
      BY <1>6, <2>1 DEF IsBoosted, Boost
    <3> QED BY <1>1, <1>6, <2>1, <3>1, BoostOf, SpentArithmetic
  <2>2. CASE ~Queued(j)
    BY <1>4, <1>6, <2>2, BoostOf DEF IsBoosted
  <2> QED BY <2>1, <2>2
<1>7. CASE Finish \/ StartIO \/ Compute
  <2>1. PICK q \in Levels, x \in Jobs : TickOf(x, q) /\ (Charged(x) \/ Renewed(x) \/ Spent(x))
    BY <1>7, TickCharges
  <2>2. ~IsBoosted(j)
    BY <2>1 DEF TickOf, IsBoosted
  <2>3. CASE j # x
    BY <1>4, <2>1, <2>2, <2>3 DEF TickOf
  <2>4. CASE j = x
    <3>1. Computes(j)
      BY <2>1, <2>4 DEF TickOf, Computes
    <3>2. CASE Charged(x)
      <4>1. SpentOf(jobs[j].allotedTimeLeft, jobs[j].ticksLeft - 1)
              = SpentOf(jobs[j].allotedTimeLeft, jobs[j].ticksLeft) + 1
        BY <1>3, SpentArithmetic
      <4> QED BY <1>1, <1>2, <1>3, <2>2, <2>4, <3>1, <3>2, <4>1 DEF Charged
    <3>3. CASE Renewed(x)
      <4>1. SpentOf(jobs[j].allotedTimeLeft - 1, QUANTUM)
              = SpentOf(jobs[j].allotedTimeLeft, 1) + 1
        BY <1>3, SpentArithmetic
      <4> QED BY <1>1, <1>2, <1>3, <2>2, <2>4, <3>1, <3>3, <4>1 DEF Renewed
    <3>4. CASE Spent(x)
      <4>1. jobs'[j].priority # jobs[j].priority
        <5>1. jobs[j].priority \in Levels
          BY DEF IInv, TypeOK, Job
        <5>2. jobs[j].priority \in Int
          BY <5>1, LevelsFacts
        <5> QED BY <1>2, <2>4, <3>4, <5>2 DEF Spent
      <4>2. used'[j] = 0
        BY <1>1, <4>1
      <4> QED BY <2>4, <3>4, <4>2, SpentArithmetic DEF Spent
    <3> QED BY <2>1, <3>2, <3>3, <3>4
  <2> QED BY <2>3, <2>4
<1> QED BY <1>1, <1>5, <1>6, <1>7, StepKinds

LEMMA AccountsInit == ASSUME PolicyInit PROVE AccountsExact
PROOF
<1>1. PICK start \in [Jobs -> StartTimes], run \in [Jobs -> RunTimes],
           freq \in [Jobs -> IoFreqs] :
        jobs = [j \in Jobs |-> NewJob(start[j], run[j], freq[j])]
  BY DEF PolicyInit, Init
<1>2. \A j \in Jobs : jobs[j].ticksLeft = QUANTUM /\ jobs[j].allotedTimeLeft = ALLOTMENT
  BY <1>1 DEF NewJob
<1>3. \A j \in Jobs : used[j] = 0
  BY DEF PolicyInit
<1> QED BY <1>2, <1>3, SpentArithmetic DEF AccountsExact, SpentOf

\* The histories see every step, so MLFQ's invariant holds beside them.
THEOREM PolicyInvariance == PolicySpec => []IInv
PROOF
<1>1. PolicyInit => IInv
  BY InitInv DEF PolicyInit
<1> QED BY <1>1, PolicyStep, PTL DEF PolicySpec

\* Giving up the processor, being preempted or boosted never gains a job above
\* the bottom level more than its allowance: its accounts are exactly what it
\* has computed there.
THEOREM AccountsKept == PolicySpec => []AccountsExact
PROOF
<1>1. AccountsExact /\ UNCHANGED policyVars => AccountsExact'
  BY DEF AccountsExact, policyVars
<1>2. IInv /\ AccountsExact /\ [PolicyNext]_policyVars => AccountsExact'
  BY <1>1, AccountsStep
<1> QED BY <1>2, AccountsInit, PolicyInvariance, PTL DEF PolicySpec

-----------------------------------------------------------------------------
(* NoStarvation.  The bound alone is not inductive: a waiting job's wait   *)
(* must leave room for what it has still to wait.  In a lower queue that   *)
(* is the time to the next boost; in the top queue, what the jobs ahead    *)
(* may compute before they yield: the head the rest of its quantum, or,    *)
(* when a boost comes first, the time to it and a quantum, and each of the *)
(* others at most a quantum less one tick and then a quantum.              *)

Top == queues[HIGHEST_PRIORITY]
Gap == 2 * QUANTUM - 1

\* The ticks before the one that begins with a boost.
ToBoost ==
    IF BoostDue /\ pc \notin {"move", "run"} THEN 0
    ELSE BOOSTTIME - (currentTime % BOOSTTIME)

\* How long a head with t ticks left may compute when the boost comes in b, and
\* how long the k-th of its queue may have to wait for it and those behind it.
CostOf(t, b) == IF t <= b THEN t ELSE b + QUANTUM
AheadOf(cost, k) == IF k = 1 THEN 0 ELSE cost + (k - 2) * Gap

WaitsType == waited \in [Jobs -> Nat]
IdleNeverWaits == \A j \in Jobs : ~Queued(j) => waited[j] = 0
TopWaits ==
    \A k \in 1 .. Len(Top) :
        waited[Top[k]] + AheadOf(CostOf(jobs[Top[1]].ticksLeft, ToBoost), k) <= WaitBound
LowerWaits ==
    \A q \in Levels \ {HIGHEST_PRIORITY}, j \in Jobs :
        In(queues, j, q) =>
            waited[j] <= IF pc = "move" THEN BOOSTTIME ELSE BOOSTTIME - ToBoost

WInv == WaitsType /\ IdleNeverWaits /\ TopWaits /\ LowerWaits

LEMMA BoostPeriod == BOOSTTIME \in Nat /\ BOOSTTIME >= QUANTUM /\ BOOSTTIME >= 1
BY SizesAssumption, PolicyAssumption

\* The clock of the boosts runs down to 0, and the boost winds it up again.
LEMMA ClockRange ==
    ASSUME IInv
    PROVE  ToBoost \in 0 .. BOOSTTIME /\ (pc = "run" => ToBoost >= 1)
PROOF
<1>1. currentTime \in Nat
  BY DEF IInv, TypeOK
<1>2. (currentTime % BOOSTTIME) \in 0 .. BOOSTTIME - 1
  BY <1>1, BoostPeriod
<1> QED BY <1>2, BoostPeriod DEF ToBoost

LEMMA ClockSame ==
    ASSUME currentTime' = currentTime,
           \/ pc \notin {"move", "run"} /\ pc' \notin {"move", "run"}
           \/ pc' = pc
           \/ pc = "boost" /\ ~BoostDue /\ pc' = "run"
           \/ pc = "move" /\ pc' = "run"
    PROVE  ToBoost' = ToBoost
BY DEF ToBoost, BoostDue

LEMMA ClockBoost ==
    ASSUME IInv, Boost
    PROVE  ToBoost = 0 /\ ToBoost' = BOOSTTIME
PROOF
<1>1. /\ BoostDue /\ pc = "boost" /\ pc' = "move" /\ currentTime' = currentTime
  BY DEF Boost
<1>2. (currentTime % BOOSTTIME) = 0
  BY <1>1 DEF BoostDue
<1> QED BY <1>1, <1>2, BoostPeriod DEF ToBoost

\* A quotient and a remainder are the only ones.
LEMMA DivisionUnique ==
    ASSUME NEW n \in Nat \ {0}, NEW d \in Nat, NEW r \in 0 .. n - 1,
           NEW e \in Nat, NEW s \in 0 .. n - 1, n * d + r = n * e + s
    PROVE  d = e /\ r = s
PROOF
<1>1. ASSUME e < d PROVE FALSE
  <2>1. n * d >= n * (e + 1) /\ n * (e + 1) = n * e + n
    BY <1>1
  <2> QED BY <2>1
<1>2. ASSUME d < e PROVE FALSE
  <2>1. n * e >= n * (d + 1) /\ n * (d + 1) = n * d + n
    BY <1>2
  <2> QED BY <2>1
<1>3. e = d
  BY <1>1, <1>2
<1>4. n * e = n * d
  BY <1>3
<1> QED BY <1>3, <1>4

LEMMA ClockTick ==
    ASSUME IInv, pc = "run", pc' \notin {"move", "run"}, currentTime' = currentTime + 1
    PROVE  ToBoost' = ToBoost - 1
PROOF
<1>1. currentTime \in Nat /\ currentTime + 1 # 0
  BY DEF IInv, TypeOK
<1>2. PICK t \in Nat : t = currentTime
  BY <1>1
<1>3. PICK n \in Nat \ {0} : n = BOOSTTIME
  BY BoostPeriod
<1>4. ToBoost = n - (t % n)
  BY <1>2, <1>3 DEF ToBoost
<1>5. ToBoost' = IF ((t + 1) % n) = 0 THEN 0 ELSE n - ((t + 1) % n)
  BY <1>1, <1>2, <1>3 DEF ToBoost, BoostDue
<1>6. ((t + 1) % n) = IF (t % n) = n - 1 THEN 0 ELSE (t % n) + 1
  <2>1. \A a \in Nat : /\ a = n * (a \div n) + (a % n) /\ (a \div n) \in Nat
                       /\ (a % n) \in 0 .. n - 1
    OBVIOUS
  <2>2. PICK d \in Nat, r \in 0 .. n - 1 : t = n * d + r /\ r = (t % n)
    BY <2>1
  <2>3. PICK u \in Nat : u = t + 1
    OBVIOUS
  <2>4. PICK e \in Nat, s \in 0 .. n - 1 : u = n * e + s /\ s = (u % n)
    BY <2>1
  <2>5. n * d + r + 1 = n * e + s
    BY <2>2, <2>3, <2>4
  <2>6. CASE r = n - 1
    <3>1. n * (d + 1) = n * d + n
      OBVIOUS
    <3>2. PICK c \in Nat, o \in 0 .. n - 1 : c = d + 1 /\ o = 0
      OBVIOUS
    <3>3. n * c + o = n * e + s
      BY <2>5, <2>6, <3>1, <3>2
    <3>4. s = 0
      BY <3>2, <3>3, DivisionUnique
    <3> QED BY <2>2, <2>3, <2>4, <2>6, <3>4
  <2>7. CASE r # n - 1
    <3>1. PICK o \in 0 .. n - 1 : o = r + 1
      BY <2>7
    <3>2. n * d + o = n * e + s
      BY <2>5, <3>1
    <3>3. s = r + 1
      BY <3>1, <3>2, DivisionUnique
    <3> QED BY <2>2, <2>3, <2>4, <2>7, <3>3
  <2> QED BY <2>6, <2>7
<1>7. (t % n) \in 0 .. n - 1
  BY <1>3
<1> QED BY <1>3, <1>4, <1>5, <1>6, <1>7

\* The queues hold each job once at most, so none is longer than the jobs are many.
LEMMA TopShort ==
    ASSUME NEW Q \in QueuesType, Distinct(Q), NEW q \in Levels
    PROVE  Len(Q[q]) \in 0 .. NumJobs
PROOF
<1>1. PICK n \in Nat : n = Len(Q[q])
  BY DEF QueuesType
<1>2. Q[q] \in [1 .. n -> Jobs]
  BY <1>1 DEF QueuesType
<1>3. IsFiniteSet(1 .. n) /\ Cardinality(1 .. n) = n
  <2>1. /\ IsFiniteSet(1 .. n)
        /\ Cardinality(1 .. n) = IF 1 > n THEN 0 ELSE n - 1 + 1
    <3>1. 1 \in Int /\ n \in Int
      OBVIOUS
    <3> QED BY <3>1, FS_Interval, Zenon
  <2> QED BY <2>1
<1>4. IsFiniteSet(Jobs) /\ Cardinality(Jobs) = NumJobs
  <2>1. PICK m \in Int : m = NumJobs - 1
    BY LevelsFacts
  <2>2. /\ IsFiniteSet(0 .. m) /\ Cardinality(0 .. m) = IF 0 > m THEN 0 ELSE m - 0 + 1
    BY FS_Interval
  <2> QED BY <2>1, <2>2, LevelsFacts DEF Jobs
<1>5. ASSUME NumJobs < n PROVE FALSE
  <2>1. PICK k \in 1 .. n, l \in 1 .. n : k # l /\ Q[q][k] = Q[q][l]
    BY <1>2, <1>3, <1>4, <1>5, FS_PigeonHole
  <2> QED BY <1>1, <2>1 DEF Distinct
<1> QED BY <1>1, <1>5, LevelsFacts

\* What may be ahead of a job of the top queue, in all.
LEMMA CostRange ==
    ASSUME NEW t \in 0 .. QUANTUM, NEW b \in 0 .. BOOSTTIME
    PROVE  /\ CostOf(t, b) \in 0 .. Gap /\ (t >= 1 /\ b >= 1 => CostOf(t, b) >= 1)
           /\ t >= 1 /\ b >= 1 => CostOf(t - 1, b - 1) = CostOf(t, b) - 1
BY BoostPeriod, LevelsFacts DEF CostOf, Gap

LEMMA AheadRange ==
    ASSUME NEW c \in 0 .. Gap, NEW k \in 1 .. NumJobs
    PROVE  AheadOf(c, k) \in Nat /\ AheadOf(c, k) <= WaitBound - BOOSTTIME
PROOF
<1>1. Gap \in Nat /\ Gap >= 1
  BY LevelsFacts DEF Gap
<1>2. PICK g \in Nat : g = Gap
  BY <1>1
<1>3. PICK n \in Nat : n = NumJobs - 1 /\ k - 1 <= n
  BY LevelsFacts
<1>4. WaitBound - BOOSTTIME = n * g
  <2>1. n * g \in Nat /\ WaitBound = BOOSTTIME + n * g
    BY <1>2, <1>3 DEF WaitBound, Gap
  <2> QED BY <2>1, BoostPeriod
<1>5. PICK m \in Nat : m = k - 1 /\ m <= n
  BY <1>3
<1>6. m * g <= n * g /\ m * g \in Nat
  BY <1>5
<1>7. CASE k = 1
  BY <1>4, <1>6, <1>7 DEF AheadOf
<1>8. CASE k # 1
  <2>1. k - 2 = m - 1 /\ m >= 1
    BY <1>5, <1>8
  <2>2. (m - 1) * g = m * g - g /\ (m - 1) * g \in Nat
    BY <2>1
  <2> QED BY <1>2, <1>4, <1>6, <1>8, <2>1, <2>2 DEF AheadOf
<1> QED BY <1>7, <1>8

\* When the head yields, the next one's wait is over and the others' shorter.
LEMMA AheadNext ==
    ASSUME NEW c \in 1 .. Gap, NEW d \in 0 .. Gap, NEW k \in 1 .. NumJobs
    PROVE  AheadOf(d, k) <= AheadOf(c, k + 1) - 1
PROOF
<1>1. Gap \in Nat /\ Gap >= 1
  BY LevelsFacts DEF Gap
<1>2. AheadOf(c, k + 1) = c + (k - 1) * Gap
  BY DEF AheadOf
<1>3. CASE k = 1
  BY <1>1, <1>2, <1>3 DEF AheadOf
<1>4. CASE k # 1
  <2>1. AheadOf(d, k) = d + (k - 2) * Gap
    BY <1>4 DEF AheadOf
  <2>2. PICK g \in Nat : g = Gap
    BY <1>1
  <2>3. (k - 1) * g = (k - 2) * g + g /\ (k - 2) * g \in Int
    OBVIOUS
  <2> QED BY <1>2, <2>1, <2>2, <2>3
<1> QED BY <1>3, <1>4

\* A job that has waited no longer than a boost takes is in time wherever it is put.
LEMMA InTime ==
    ASSUME NEW t \in 0 .. QUANTUM, NEW b \in 0 .. BOOSTTIME, NEW k \in 1 .. NumJobs,
           NEW w \in 0 .. BOOSTTIME
    PROVE  w + AheadOf(CostOf(t, b), k) <= WaitBound
PROOF
<1>1. PICK c \in 0 .. Gap : c = CostOf(t, b)
  BY CostRange
<1>2. AheadOf(c, k) \in Nat /\ AheadOf(c, k) <= WaitBound - BOOSTTIME
  BY <1>1, AheadRange
<1>3. WaitBound \in Int
  BY LevelsFacts, BoostPeriod DEF WaitBound
<1> QED BY <1>1, <1>2, <1>3, BoostPeriod

\* The top queue before a step and after it.
LEMMA TopFacts ==
    ASSUME IInv
    PROVE  /\ queues \in QueuesType /\ Distinct(queues) /\ Len(Top) \in 0 .. NumJobs
           /\ \A k \in 1 .. Len(Top) :
                /\ Top[k] \in Jobs /\ In(queues, Top[k], HIGHEST_PRIORITY) /\ Queued(Top[k])
                /\ jobs[Top[k]].ticksLeft \in 1 .. QUANTUM
PROOF
<1>1. /\ queues \in QueuesType /\ Distinct(queues) /\ jobs \in [Jobs -> Job]
      /\ \A j \in Jobs : AccountOK(j) /\ Placed(j)
  BY DEF IInv, TypeOK, OnePlace, QueuesType
<1>2. Len(Top) \in 0 .. NumJobs
  BY <1>1, LevelsFacts, TopShort DEF Top
<1>3. ASSUME NEW k \in 1 .. Len(Top)
      PROVE  /\ Top[k] \in Jobs /\ In(queues, Top[k], HIGHEST_PRIORITY) /\ Queued(Top[k])
             /\ jobs[Top[k]].ticksLeft \in 1 .. QUANTUM
  <2>1. PICK x \in Jobs : x = Top[k]
    BY <1>1, LevelsFacts DEF Top, QueuesType
  <2>2. In(queues, x, HIGHEST_PRIORITY)
    BY <2>1 DEF In, Top
  <2>3. Queued(x)
    BY <2>2, LevelsFacts DEF Queued
  <2>4. jobs[x].ticksLeft > 0 /\ jobs[x].ticksLeft \in 0 .. QUANTUM
    BY <1>1, <2>3 DEF AccountOK, Placed, Live, Job
  <2> QED BY <2>1, <2>2, <2>3, <2>4, LevelsFacts
<1> QED BY <1>1, <1>2, <1>3

LEMMA TopAfter ==
    ASSUME IInv'
    PROVE  /\ queues' \in QueuesType /\ Distinct(queues')
           /\ Len(queues'[HIGHEST_PRIORITY]) \in 0 .. NumJobs
           /\ \A k \in 1 .. Len(queues'[HIGHEST_PRIORITY]) :
                /\ queues'[HIGHEST_PRIORITY][k] \in Jobs
                /\ jobs'[queues'[HIGHEST_PRIORITY][k]].ticksLeft \in 0 .. QUANTUM
PROOF
<1>1. /\ queues' \in QueuesType /\ Distinct(queues') /\ jobs' \in [Jobs -> Job]
  BY DEF IInv, TypeOK, OnePlace, QueuesType
<1>2. Len(queues'[HIGHEST_PRIORITY]) \in 0 .. NumJobs
  BY <1>1, LevelsFacts, TopShort
<1>3. ASSUME NEW k \in 1 .. Len(queues'[HIGHEST_PRIORITY])
      PROVE  /\ queues'[HIGHEST_PRIORITY][k] \in Jobs
             /\ jobs'[queues'[HIGHEST_PRIORITY][k]].ticksLeft \in 0 .. QUANTUM
  <2>1. PICK x \in Jobs : x = queues'[HIGHEST_PRIORITY][k]
    BY <1>1, LevelsFacts DEF QueuesType
  <2>2. jobs'[x].ticksLeft \in 0 .. QUANTUM
    BY <1>1 DEF Job
  <2> QED BY <2>1, <2>2
<1> QED BY <1>1, <1>2, <1>3

\* Whoever the step puts in the top queue has waited no longer than to a boost.
LEMMA PutInTime ==
    ASSUME IInv', WaitsType', ToBoost' \in 0 .. BOOSTTIME,
           NEW k \in 1 .. Len(queues'[HIGHEST_PRIORITY]),
           waited'[queues'[HIGHEST_PRIORITY][k]] <= BOOSTTIME
    PROVE  waited'[queues'[HIGHEST_PRIORITY][k]]
             + AheadOf(CostOf(jobs'[queues'[HIGHEST_PRIORITY][1]].ticksLeft, ToBoost'), k)
             <= WaitBound
PROOF
<1>1. PICK R : R = queues'[HIGHEST_PRIORITY]
  OBVIOUS
<1>2. /\ Len(R) \in 0 .. NumJobs /\ k \in 1 .. Len(R)
      /\ R[k] \in Jobs /\ jobs'[R[1]].ticksLeft \in 0 .. QUANTUM
  BY <1>1, TopAfter, LevelsFacts
<1>3. PICK w \in 0 .. BOOSTTIME : w = waited'[R[k]]
  BY <1>1, <1>2 DEF WaitsType
<1>4. PICK t \in 0 .. QUANTUM : t = jobs'[R[1]].ticksLeft
  BY <1>2
<1>5. PICK b \in 0 .. BOOSTTIME : b = ToBoost'
  OBVIOUS
<1>6. k \in 1 .. NumJobs
  BY <1>2, LevelsFacts
<1>7. w + AheadOf(CostOf(t, b), k) <= WaitBound
  BY <1>6, InTime
<1> QED BY <1>1, <1>3, <1>4, <1>5, <1>7

LEMMA WaitsInit == ASSUME PolicyInit PROVE WInv
PROOF
<1>1. queues = [q \in Levels |-> << >>] /\ waited = [j \in Jobs |-> 0]
  BY DEF PolicyInit, Init
<1>2. \A q \in Levels : Len(queues[q]) = 0
  BY <1>1
<1>3. Len(Top) = 0
  BY <1>2, LevelsFacts DEF Top
<1>4. \A q \in Levels, j \in Jobs : ~In(queues, j, q)
  BY <1>2 DEF In
<1>5. WaitsType /\ IdleNeverWaits
  BY <1>1 DEF WaitsType, IdleNeverWaits
<1>6. TopWaits /\ LowerWaits
  BY <1>3, <1>4 DEF TopWaits, LowerWaits
<1> QED BY <1>5, <1>6 DEF WInv

\* Nobody's wait grows but in a tick.
LEMMA WaitsStay ==
    ASSUME WInv, PolicyNext, pc # "run"
    PROVE  waited' = waited /\ WaitsType'
PROOF
<1>1. waited \in [Jobs -> Nat]
  BY DEF WInv, WaitsType
<1>2. waited' = [j \in Jobs |-> waited[j]]
  BY DEF PolicyNext, Waits, Computes
<1> QED BY <1>1, <1>2 DEF WaitsType

\* A step that moves no job, and no time.
LEMMA WaitsInPlace ==
    ASSUME WInv, WaitsType', waited' = waited, ToBoost' = ToBoost, queues' = queues,
           \A j \in Jobs : jobs'[j].ticksLeft = jobs[j].ticksLeft, IInv,
           \/ pc' = pc \/ (pc # "move" /\ pc' # "move")
           \/ \A q \in Levels \ {HIGHEST_PRIORITY} : queues[q] = << >>
    PROVE  WInv'
PROOF
<1>1. IdleNeverWaits'
  BY DEF WInv, IdleNeverWaits, Queued
<1>2. TopWaits'
  <2>1. Top' = Top
    BY DEF Top
  <2>2. ASSUME NEW k \in 1 .. Len(Top) PROVE jobs'[Top[1]].ticksLeft = jobs[Top[1]].ticksLeft
    BY TopFacts
  <2> QED BY <2>1, <2>2 DEF WInv, TopWaits
<1>3. LowerWaits'
  <2>1. CASE \A q \in Levels \ {HIGHEST_PRIORITY} : queues[q] = << >>
    <3>1. \A q \in Levels \ {HIGHEST_PRIORITY}, j \in Jobs : ~In(queues', j, q)
      BY <2>1 DEF In
    <3> QED BY <3>1 DEF LowerWaits
  <2>2. CASE pc' = pc \/ (pc # "move" /\ pc' # "move")
    BY <2>2 DEF WInv, LowerWaits
  <2> QED BY <2>1, <2>2
<1> QED BY <1>1, <1>2, <1>3 DEF WInv

\* A job that comes, or comes back, to the end of a queue.
LEMMA WaitsEntering ==
    ASSUME IInv, IInv', WInv, WaitsType', waited' = waited, ToBoost' = ToBoost,
           \A j \in Jobs : jobs'[j].ticksLeft = jobs[j].ticksLeft,
           pc # "move", pc' # "move", NEW x \in Jobs, ~Queued(x), NEW q \in Levels,
           queues'[q] = Append(queues[q], x),
           \A p \in Levels \ {q} : queues'[p] = queues[p]
    PROVE  WInv'
PROOF
<1>1. /\ queues \in QueuesType /\ Distinct(queues) /\ queues' \in QueuesType
      /\ waited[x] = 0 /\ \A p \in Levels : ~In(queues, x, p)
  BY TopFacts, TopAfter DEF WInv, IdleNeverWaits, Queued
<1>2. PICK R : R = queues'
  OBVIOUS
<1>3. \A p \in Levels, j \in Jobs :
        In(queues', j, p) <=> In(queues, j, p) \/ (p = q /\ j = x)
  BY <1>1, <1>2, AppendNew
<1>4. IdleNeverWaits'
  BY <1>3 DEF WInv, IdleNeverWaits, Queued
<1>5. ToBoost \in 0 .. BOOSTTIME
  BY ClockRange
<1>6. LowerWaits'
  <2> SUFFICES ASSUME NEW p \in Levels \ {HIGHEST_PRIORITY}, NEW j \in Jobs, In(queues', j, p)
               PROVE  waited[j] <= BOOSTTIME - ToBoost
    BY DEF LowerWaits
  <2>1. CASE In(queues, j, p)
    BY <2>1 DEF WInv, LowerWaits
  <2>2. CASE j = x
    BY <1>1, <1>5, <2>2, BoostPeriod
  <2> QED BY <1>3, <2>1, <2>2
<1>7. TopWaits'
  <2> SUFFICES ASSUME NEW k \in 1 .. Len(queues'[HIGHEST_PRIORITY])
      PROVE  waited'[queues'[HIGHEST_PRIORITY][k]]
               + AheadOf(CostOf(jobs'[queues'[HIGHEST_PRIORITY][1]].ticksLeft, ToBoost'), k)
               <= WaitBound
    BY DEF TopWaits, Top
  <2>1. Top \in Seq(Jobs) /\ Len(Top) \in Nat
    BY <1>1, LevelsFacts DEF Top, QueuesType
  <2>2. CASE waited'[queues'[HIGHEST_PRIORITY][k]] <= BOOSTTIME
    BY <1>5, <2>2, PutInTime
  <2>3. CASE k \in 1 .. Len(Top) /\ queues'[HIGHEST_PRIORITY][k] = Top[k]
             /\ queues'[HIGHEST_PRIORITY][1] = Top[1]
    <3>1. Top[1] \in Jobs
      BY <2>1, <2>3
    <3> QED BY <2>3, <3>1 DEF WInv, TopWaits
  <2>4. CASE q = HIGHEST_PRIORITY
    <3>1. queues'[HIGHEST_PRIORITY] = Append(Top, x)
      BY <2>4 DEF Top
    <3>2. CASE k <= Len(Top)
      BY <2>1, <2>3, <3>1, <3>2
    <3>3. CASE ~(k <= Len(Top))
      <4>1. queues'[HIGHEST_PRIORITY][k] = x
        BY <2>1, <3>1, <3>3
      <4> QED BY <1>1, <2>2, <4>1, BoostPeriod
    <3> QED BY <3>2, <3>3
  <2>5. CASE q # HIGHEST_PRIORITY
    BY <2>3, <2>5, LevelsFacts DEF Top
  <2> QED BY <2>4, <2>5
<1> QED BY <1>4, <1>6, <1>7 DEF WInv

\* A lower queue moves behind the top one: its jobs have waited for the boost.
LEMMA WaitsMove ==
    ASSUME IInv, IInv', WInv, WaitsType', waited' = waited, Move
    PROVE  WInv'
PROOF
<1> DEFINE H == HIGHEST_PRIORITY
<1>1. /\ pc = "move" /\ pc' = "move" /\ jobs' = jobs /\ i >= 0 /\ currentTime' = currentTime
      /\ queues' = [queues EXCEPT ![H] = @ \o queues[i], ![i] = << >>]
  BY DEF Move
<1>2. i \in Levels /\ i # H /\ H \in Levels
  BY <1>1, LevelsFacts DEF IInv, IndexOK, Levels, HIGHEST_PRIORITY
<1> HIDE DEF H
<1>3. /\ queues \in QueuesType /\ Distinct(queues) /\ queues' \in QueuesType
      /\ Top = queues[H]
  BY TopFacts, TopAfter DEF Top, H
<1>4. /\ queues'[H] = Top \o queues[i] /\ queues'[i] = << >>
      /\ \A p \in Levels \ {H, i} : queues'[p] = queues[p]
  BY <1>1, <1>2, <1>3 DEF QueuesType
<1>5. PICK R : R = queues'
  OBVIOUS
<1>6. \A p \in Levels, j \in Jobs :
        In(queues', j, p) <=> (p # i /\ In(queues, j, p)) \/ (p = H /\ In(queues, j, i))
  <2>1. Merged(queues, R, H, i)
    BY <1>3, <1>4, <1>5 DEF Merged
  <2> QED BY <1>2, <1>3, <1>5, <2>1, MergeQueues
<1>7. ToBoost' = ToBoost /\ ToBoost \in 0 .. BOOSTTIME
  BY <1>1, ClockSame, ClockRange
<1>8. IdleNeverWaits'
  BY <1>2, <1>6 DEF WInv, IdleNeverWaits, Queued
<1>9. LowerWaits'
  BY <1>1, <1>6 DEF WInv, LowerWaits, H
<1>10. TopWaits'
  <2> SUFFICES ASSUME NEW k \in 1 .. Len(queues'[H])
      PROVE  waited'[queues'[H][k]]
               + AheadOf(CostOf(jobs'[queues'[H][1]].ticksLeft, ToBoost'), k) <= WaitBound
    BY DEF TopWaits, Top, H
  <2>1. /\ Top \in Seq(Jobs) /\ Len(Top) \in Nat
        /\ queues[i] \in Seq(Jobs) /\ Len(queues[i]) \in Nat
    BY <1>2, <1>3 DEF QueuesType
  <2>2. CASE k <= Len(Top)
    <3>1. queues'[H][k] = Top[k] /\ queues'[H][1] = Top[1]
      BY <1>4, <2>1, <2>2
    <3> QED BY <1>1, <1>7, <2>1, <2>2, <3>1 DEF WInv, TopWaits
  <2>3. CASE ~(k <= Len(Top))
    <3>1. PICK l \in 1 .. Len(queues[i]) : l = k - Len(Top) /\ queues'[H][k] = queues[i][l]
      BY <1>4, <2>1, <2>3
    <3>2. PICK x \in Jobs : x = queues[i][l]
      BY <2>1
    <3>3. In(queues, x, i)
      BY <3>2 DEF In
    <3>4. waited[x] <= BOOSTTIME
      BY <1>1, <1>2, <3>3 DEF WInv, LowerWaits, H
    <3> QED BY <1>7, <3>1, <3>2, <3>4, PutInTime DEF H
  <2> QED BY <2>2, <2>3
<1> QED BY <1>8, <1>9, <1>10 DEF WInv

\* The boost gives the head of the top queue the quantum that was counted on.
LEMMA WaitsBoost ==
    ASSUME IInv, WInv, WaitsType', waited' = waited, Boost
    PROVE  WInv'
PROOF
<1>1. queues' = queues /\ pc = "boost" /\ pc' = "move"
  BY DEF Boost
<1>2. ToBoost = 0 /\ ToBoost' = BOOSTTIME
  BY ClockBoost
<1>3. IdleNeverWaits'
  BY <1>1 DEF WInv, IdleNeverWaits, Queued
<1>4. LowerWaits'
  BY <1>1, <1>2, BoostPeriod DEF WInv, LowerWaits
<1>5. TopWaits'
  <2> SUFFICES ASSUME NEW k \in 1 .. Len(Top)
      PROVE  waited[Top[k]] + AheadOf(CostOf(jobs'[Top[1]].ticksLeft, BOOSTTIME), k) <= WaitBound
    BY <1>1, <1>2 DEF TopWaits, Top
  <2>1. PICK h \in Jobs : h = Top[1] /\ Queued(h) /\ jobs[h].ticksLeft \in 1 .. QUANTUM
    BY TopFacts
  <2>2. jobs'[h].ticksLeft = QUANTUM
    BY <2>1, BoostOf
  <2>3. CostOf(QUANTUM, BOOSTTIME) = QUANTUM /\ CostOf(jobs[h].ticksLeft, 0) = QUANTUM
    BY <2>1, BoostPeriod, LevelsFacts DEF CostOf
  <2>4. waited[Top[k]] + AheadOf(CostOf(jobs[h].ticksLeft, 0), k) <= WaitBound
    BY <1>2, <2>1 DEF WInv, TopWaits
  <2> QED BY <2>1, <2>2, <2>3, <2>4
<1> QED BY <1>3, <1>4, <1>5 DEF WInv

\* A tick with no job to run keeps nobody waiting.
LEMMA WaitsIdle ==
    ASSUME IInv, WInv, PolicyNext, Idle
    PROVE  WInv'
PROOF
<1>1. /\ queues' = queues /\ jobs' = jobs /\ \A q \in Levels : queues[q] = << >>
  BY DEF Idle, NoQueued
<1>2. /\ \A q \in Levels, j \in Jobs : ~In(queues, j, q)
      /\ \A j \in Jobs : ~Queued(j)
  BY <1>1 DEF In, Queued
<1>3. waited \in [Jobs -> Nat]
  BY DEF WInv, WaitsType
<1>4. \A j \in Jobs : ~Waits(j) /\ ~Computes(j)
  <2> TAKE j \in Jobs
  <2>1. jobs[j].timeLeft \in Int
    BY DEF IInv, TypeOK, Job
  <2> QED BY <1>1, <1>2, <2>1 DEF Waits, Computes
<1>5. waited' = waited
  <2>1. waited' = [j \in Jobs |-> waited[j]]
    BY <1>4 DEF PolicyNext
  <2> QED BY <1>3, <2>1
<1>6. WaitsType' /\ IdleNeverWaits'
  BY <1>1, <1>5 DEF WInv, WaitsType, IdleNeverWaits, Queued
<1>7. Len(queues'[HIGHEST_PRIORITY]) = 0 /\ \A q \in Levels, j \in Jobs : ~In(queues', j, q)
  BY <1>1, <1>2, LevelsFacts
<1>8. TopWaits' /\ LowerWaits'
  BY <1>7 DEF TopWaits, LowerWaits, Top
<1> QED BY <1>6, <1>8 DEF WInv

\* A tick: the job that runs waits no more, every other queued job one tick more.
LEMMA TickWaits ==
    ASSUME IInv, WInv, PolicyNext, NEW q \in Levels, NEW x \in Jobs, TickOf(x, q)
    PROVE  /\ WaitsType' /\ waited'[x] = 0
           /\ \A j \in Jobs \ {x} :
                waited'[j] = IF Queued(j) THEN waited[j] + 1 ELSE waited[j]
PROOF
<1>1. waited \in [Jobs -> Nat]
  BY DEF WInv, WaitsType
<1>2. waited' = [j \in Jobs |-> IF Waits(j) THEN waited[j] + 1
                                ELSE IF Computes(j) THEN 0 ELSE waited[j]]
  BY DEF PolicyNext
<1>3. Computes(x)
  BY DEF TickOf, Computes
<1>4. ASSUME NEW j \in Jobs \ {x} PROVE ~Computes(j)
  <2>1. jobs[j].timeLeft \in Int /\ jobs'[j] = jobs[j]
    BY DEF IInv, TypeOK, Job, TickOf
  <2> QED BY <2>1 DEF Computes
<1>5. /\ ~Waits(x) /\ \A j \in Jobs \ {x} : Waits(j) <=> Queued(j)
  BY <1>3, <1>4 DEF Waits, TickOf
<1>6. WaitsType'
  BY <1>1, <1>2 DEF WaitsType
<1> QED BY <1>2, <1>3, <1>4, <1>5, <1>6

\* The tick of a job of a lower queue: the top one was empty.
LEMMA TopAfterTick ==
    ASSUME IInv, IInv', NEW q \in Levels, NEW x \in Jobs, TickOf(x, q),
           Stays(x) \/ Leaves(q) \/ Requeues(x, q),
           NEW k \in 1 .. Len(queues'[HIGHEST_PRIORITY])
    PROVE  \/ queues'[HIGHEST_PRIORITY][k] = x
           \/ /\ Stays(x) /\ q = HIGHEST_PRIORITY /\ k \in 1 .. Len(Top)
              /\ queues'[HIGHEST_PRIORITY] = Top /\ Top[k] # x /\ k # 1
           \/ /\ q = HIGHEST_PRIORITY /\ k + 1 \in 1 .. Len(Top)
              /\ queues'[HIGHEST_PRIORITY][k] = Top[k + 1] /\ Top[k + 1] # x
PROOF
<1> DEFINE H == HIGHEST_PRIORITY
<1>1. /\ queues \in QueuesType /\ Distinct(queues) /\ queues' \in QueuesType
      /\ H \in Levels /\ Top = queues[H]
  BY TopFacts, TopAfter, LevelsFacts DEF Top
<1>2. /\ FindsQueue(q) /\ x = Head(queues[q]) /\ q \in Int /\ H \in Int /\ q <= H
  BY LevelsFacts DEF TickOf
<1> HIDE DEF H
<1>3. Top \in Seq(Jobs) /\ Len(Top) \in Nat
  BY <1>1 DEF QueuesType
<1>4. CASE q # H
  <2>1. Top = << >> /\ Len(Top) = 0
    BY <1>1, <1>2, <1>4 DEF FindsQueue
  <2>2. queues'[H] = << >> \/ queues'[H] = Append(Top, x)
    <3>1. CASE Stays(x)
      BY <1>1, <2>1, <3>1 DEF Stays
    <3>2. CASE Leaves(q)
      BY <1>1, <1>4, <2>1, <3>2 DEF Leaves
    <3>3. CASE Requeues(x, q)
      <4>1. PICK level \in Levels :
              /\ queues'[level] = Append(IF level = q THEN Tail(queues[q]) ELSE queues[level], x)
              /\ \A p \in Levels \ {q, level} : queues'[p] = queues[p]
        BY <3>3 DEF Requeues
      <4> QED BY <1>1, <1>4, <2>1, <4>1
    <3> QED BY <3>1, <3>2, <3>3
  <2>3. queues'[H] # << >>
    BY <1>1 DEF H, QueuesType
  <2> QED BY <1>3, <2>1, <2>2, <2>3 DEF H
<1>5. CASE q = H
  <2>1. Top # << >> /\ Len(Top) >= 1 /\ x = Top[1]
    BY <1>1, <1>2, <1>3, <1>5 DEF FindsQueue
  <2>2. \A l \in 2 .. Len(Top) : Top[l] # x
    BY <1>1, <1>3, <2>1 DEF Distinct
  <2>3. CASE Stays(x)
    <3>1. queues'[H] = Top
      BY <1>1, <2>3 DEF Stays
    <3>2. CASE k = 1
      BY <2>1, <3>1, <3>2 DEF H
    <3>3. CASE k # 1
      <4>1. k \in 1 .. Len(Top) /\ k \in 2 .. Len(Top)
        BY <1>3, <3>1, <3>3 DEF H
      <4> QED BY <1>5, <2>2, <2>3, <3>1, <3>3, <4>1 DEF H
    <3> QED BY <3>2, <3>3
  <2>4. CASE queues'[H] = Tail(Top) \/ queues'[H] = Append(Tail(Top), x)
    <3>1. PICK T \in Seq(Jobs) : T = Tail(Top)
      <4>1. Tail(Top) \in Seq(Jobs)
        BY <1>3, <2>1
      <4> QED BY <4>1
    <3>2. Len(T) = Len(Top) - 1 /\ \A l \in 1 .. Len(T) : T[l] = Top[l + 1]
      BY <1>3, <2>1, <3>1
    <3>3. queues'[H] = T \/ queues'[H] = Append(T, x)
      BY <2>4, <3>1
    <3>4. /\ k \in Int /\ k >= 1 /\ k <= Len(T) + 1
          /\ k <= Len(T) => queues'[H][k] = T[k]
          /\ k = Len(T) + 1 => queues'[H][k] = x
      BY <3>3 DEF H
    <3>5. CASE k <= Len(T)
      <4>1. k + 1 \in 1 .. Len(Top) /\ k + 1 \in 2 .. Len(Top) /\ queues'[H][k] = Top[k + 1]
        BY <1>3, <3>2, <3>4, <3>5
      <4> QED BY <1>5, <2>2, <4>1 DEF H
    <3>6. CASE k = Len(T) + 1
      BY <3>4, <3>6 DEF H
    <3> QED BY <1>3, <3>2, <3>4, <3>5, <3>6
  <2>5. CASE Requeues(x, q)
    <3>1. PICK level \in Levels :
            /\ queues'[level] = Append(IF level = q THEN Tail(queues[q]) ELSE queues[level], x)
            /\ q # level => queues'[q] = Tail(queues[q])
      BY <2>5 DEF Requeues
    <3> QED BY <1>1, <1>5, <2>4, <3>1
  <2>6. CASE Leaves(q)
    BY <1>1, <1>5, <2>4, <2>6 DEF Leaves
  <2> QED BY <2>3, <2>5, <2>6
<1> QED BY <1>4, <1>5

LEMMA WaitsTick ==
    ASSUME IInv, IInv', WInv, PolicyNext, NEW q \in Levels, NEW x \in Jobs, TickOf(x, q),
           Stays(x) \/ Leaves(q) \/ Requeues(x, q)
    PROVE  WInv'
PROOF
<1> DEFINE H == HIGHEST_PRIORITY
<1>1. /\ WaitsType' /\ waited'[x] = 0
      /\ \A j \in Jobs \ {x} : waited'[j] = IF Queued(j) THEN waited[j] + 1 ELSE waited[j]
  BY TickWaits
<1>2. \A j \in Jobs \ {x} : Queued(j)' <=> Queued(j)
  BY DEF TickOf, Queued
<1>3. /\ pc = "run" /\ pc' \notin {"move", "run"} /\ currentTime' = currentTime + 1
  BY DEF TickOf
<1>4. /\ ToBoost \in 1 .. BOOSTTIME /\ ToBoost' = ToBoost - 1
      /\ ToBoost' \in 0 .. BOOSTTIME
  BY <1>3, ClockRange, ClockTick, BoostPeriod
<1>5. \A j \in Jobs : waited[j] \in Nat
  BY DEF WInv, WaitsType
<1>6. IdleNeverWaits'
  BY <1>1, <1>2 DEF WInv, IdleNeverWaits
<1>7. LowerWaits'
  <2> SUFFICES ASSUME NEW p \in Levels \ {HIGHEST_PRIORITY}, NEW j \in Jobs, In(queues', j, p)
               PROVE  waited'[j] <= BOOSTTIME - ToBoost'
    BY <1>3 DEF LowerWaits
  <2>1. CASE j = x
    BY <1>1, <1>4, <2>1, BoostPeriod
  <2>2. CASE j # x
    <3>1. In(queues, j, p)
      BY <2>2 DEF TickOf
    <3>2. waited[j] <= BOOSTTIME - ToBoost
      BY <1>3, <3>1 DEF WInv, LowerWaits
    <3> QED BY <1>1, <1>4, <1>5, <2>2, <3>2, BoostPeriod
  <2> QED BY <2>1, <2>2
<1>8. TopWaits'
  <2> SUFFICES ASSUME NEW k \in 1 .. Len(queues'[H])
      PROVE  waited'[queues'[H][k]]
               + AheadOf(CostOf(jobs'[queues'[H][1]].ticksLeft, ToBoost'), k) <= WaitBound
    BY DEF TopWaits, Top
  <2>1. CASE queues'[H][k] = x
    BY <1>1, <1>4, <2>1, PutInTime, BoostPeriod
  <2>2. CASE /\ Stays(x) /\ q = H /\ k \in 1 .. Len(Top)
             /\ queues'[H] = Top /\ Top[k] # x /\ k # 1
    <3>1. PICK y \in Jobs \ {x} : y = Top[k]
      BY <2>2, TopFacts
    <3>2. x = Top[1] /\ jobs'[x].ticksLeft = jobs[x].ticksLeft - 1
          /\ jobs[x].ticksLeft \in 1 .. QUANTUM
      <4>1. queues[H] \in Seq(Jobs) /\ queues[H] # << >>
        BY <2>2, LevelsFacts DEF IInv, TypeOK, TickOf, FindsQueue
      <4>2. x = Head(Top) /\ Top = queues[H]
        BY <2>2 DEF TickOf, Top
      <4> QED BY <2>2, <4>1, <4>2 DEF Stays, Charged, TickOf
    <3>3. PICK t \in 1 .. QUANTUM, b \in 1 .. BOOSTTIME : t = jobs[x].ticksLeft /\ b = ToBoost
      BY <1>4, <3>2
    <3>4. waited[y] + AheadOf(CostOf(t, b), k) <= WaitBound
      BY <2>2, <3>1, <3>2, <3>3 DEF WInv, TopWaits
    <3>5. waited'[y] = waited[y] + 1
      <4>1. Queued(y)
        BY <2>2, <3>1, TopFacts
      <4> QED BY <1>1, <3>1, <4>1
    <3>6. CostOf(t - 1, b - 1) = CostOf(t, b) - 1 /\ CostOf(t, b) \in 0 .. Gap
      <4>1. t \in 0 .. QUANTUM /\ b \in 0 .. BOOSTTIME /\ t >= 1 /\ b >= 1
        BY <3>3
      <4> QED BY <4>1, CostRange
    <3>7. AheadOf(CostOf(t - 1, b - 1), k) = AheadOf(CostOf(t, b), k) - 1
      <4>1. Gap \in Int
        BY LevelsFacts DEF Gap
      <4>2. PICK r \in Int : r = (k - 2) * Gap
        BY <4>1
      <4> QED BY <2>2, <3>6, <4>2 DEF AheadOf
    <3>8. AheadOf(CostOf(t, b), k) \in Int /\ WaitBound \in Int /\ waited[y] \in Int
      <4>1. k \in 1 .. NumJobs
        BY <2>2, TopFacts, LevelsFacts
      <4> QED BY <1>5, <3>6, <4>1, AheadRange, LevelsFacts, BoostPeriod DEF WaitBound
    <3>9. waited'[y] + AheadOf(CostOf(t - 1, b - 1), k) <= WaitBound
      BY <3>4, <3>5, <3>7, <3>8
    <3> QED BY <1>4, <2>2, <3>1, <3>2, <3>3, <3>9
  <2>3. CASE /\ q = H /\ k + 1 \in 1 .. Len(Top)
             /\ queues'[H][k] = Top[k + 1] /\ Top[k + 1] # x
    <3>1. PICK y \in Jobs \ {x} : y = Top[k + 1] /\ Queued(y)
      BY <2>3, TopFacts
    <3>2. PICK c \in 1 .. Gap : c = CostOf(jobs[Top[1]].ticksLeft, ToBoost)
      <4>1. jobs[Top[1]].ticksLeft \in 1 .. QUANTUM
        BY <2>3, TopFacts
      <4>2. PICK t \in 0 .. QUANTUM, b \in 0 .. BOOSTTIME :
              t = jobs[Top[1]].ticksLeft /\ b = ToBoost /\ t >= 1 /\ b >= 1
        BY <1>4, <4>1
      <4>3. CostOf(t, b) \in 0 .. Gap /\ CostOf(t, b) >= 1
        BY <4>2, CostRange
      <4> QED BY <4>2, <4>3, LevelsFacts DEF Gap
    <3>3. PICK d \in 0 .. Gap : d = CostOf(jobs'[queues'[H][1]].ticksLeft, ToBoost')
      <4>1. jobs'[queues'[H][1]].ticksLeft \in 0 .. QUANTUM
        BY TopAfter
      <4>2. PICK t \in 0 .. QUANTUM, b \in 0 .. BOOSTTIME :
              t = jobs'[queues'[H][1]].ticksLeft /\ b = ToBoost'
        BY <1>4, <4>1
      <4> QED BY <4>2, CostRange
    <3>4. waited[y] + AheadOf(c, k + 1) <= WaitBound
      BY <2>3, <3>1, <3>2 DEF WInv, TopWaits
    <3>5. waited'[y] = waited[y] + 1
      BY <1>1, <3>1
    <3>6. k \in 1 .. NumJobs /\ k + 1 \in 1 .. NumJobs
      BY <2>3, TopFacts, TopAfter, LevelsFacts
    <3>7. AheadOf(d, k) <= AheadOf(c, k + 1) - 1
      BY <3>6, AheadNext
    <3>8. /\ AheadOf(d, k) \in Int /\ AheadOf(c, k + 1) \in Int /\ WaitBound \in Int
          /\ waited[y] \in Int
      <4>1. PICK l \in 1 .. NumJobs : l = k + 1
        BY <3>6
      <4>2. c \in 0 .. Gap
        BY LevelsFacts DEF Gap
      <4>3. AheadOf(d, k) \in Int /\ AheadOf(c, l) \in Int
        BY <3>6, <4>2, AheadRange
      <4> QED BY <1>5, <4>1, <4>3, LevelsFacts, BoostPeriod DEF WaitBound
    <3>9. waited'[y] + AheadOf(d, k) <= WaitBound
      BY <3>4, <3>5, <3>7, <3>8
    <3> QED BY <2>3, <3>1, <3>3, <3>9
  <2> QED BY <2>1, <2>2, <2>3, TopAfterTick
<1> QED BY <1>1, <1>6, <1>7, <1>8 DEF WInv

LEMMA WaitsStep ==
    ASSUME IInv, IInv', WInv, PolicyNext
    PROVE  WInv'
PROOF
<1>1. Next
  BY DEF PolicyNext
<1>2. CASE Arrive
  <2>1. /\ pc = "arrive" /\ pc' = pc /\ jobs' = jobs /\ currentTime' = currentTime
        /\ i \in Int /\ 0 <= i /\ i < NumJobs
    BY <1>2 DEF Arrive, IInv, IndexOK
  <2>2. waited' = waited /\ WaitsType' /\ ToBoost' = ToBoost
    BY <2>1, WaitsStay, ClockSame
  <2>3. CASE jobs[i].startTime = currentTime
    <3>1. PICK x \in Jobs : x = i
      BY <2>1, LevelsFacts DEF Jobs
    <3>2. ~Queued(x)
      <4>1. ~Arrived(x)
        BY <2>1, <2>3, <3>1 DEF Arrived, IInv, TypeOK
      <4> QED BY <4>1 DEF IInv, OnePlace, Placed, Live
    <3>3. /\ queues'[HIGHEST_PRIORITY] = Append(queues[HIGHEST_PRIORITY], x)
          /\ \A p \in Levels \ {HIGHEST_PRIORITY} : queues'[p] = queues[p]
      BY <1>2, <2>3, <3>1, LevelsFacts DEF Arrive, IInv, TypeOK
    <3> QED BY <2>1, <2>2, <3>2, <3>3, LevelsFacts, WaitsEntering
  <2>4. CASE jobs[i].startTime # currentTime
    <3>1. queues' = queues
      BY <1>2, <2>4 DEF Arrive
    <3> QED BY <2>1, <2>2, <3>1, WaitsInPlace
  <2> QED BY <2>3, <2>4
<1>3. CASE CompleteIO
  <2>1. /\ pc = "io" /\ pc' = pc /\ currentTime' = currentTime /\ i_o_queue # << >>
    BY <1>3 DEF CompleteIO, HeadIoDue
  <2>2. waited' = waited /\ WaitsType' /\ ToBoost' = ToBoost
    BY <2>1, WaitsStay, ClockSame
  <2>3. \A j \in Jobs : jobs'[j].ticksLeft = jobs[j].ticksLeft
    BY <1>3, QuietKeeps DEF Quiet
  <2>4. PICK x \in Jobs : x = Head(i_o_queue).job_id /\ IoIn(i_o_queue, x)
    <3>1. i_o_queue \in Seq(IOQueuePair) /\ Len(i_o_queue) \in Nat /\ 1 \in 1 .. Len(i_o_queue)
          /\ Head(i_o_queue) = i_o_queue[1] /\ i_o_queue[1] \in IOQueuePair
      BY <2>1 DEF IInv, TypeOK
    <3> QED BY <3>1 DEF IOQueuePair, IoIn
  <2>5. ~Queued(x)
    BY <2>4 DEF IInv, OnePlace, Placed, InIO
  <2>6. PICK q \in Levels : q = jobs[x].priority
    BY DEF IInv, TypeOK, Job
  <2>7. queues' = [queues EXCEPT ![q] = Append(@, x)]
    BY <1>3, <2>4, <2>6 DEF CompleteIO
  <2>8. /\ queues'[q] = Append(queues[q], x) /\ \A p \in Levels \ {q} : queues'[p] = queues[p]
    BY <2>7 DEF IInv, TypeOK
  <2> QED BY <2>1, <2>2, <2>3, <2>5, <2>8, WaitsEntering
<1>4. CASE ArriveEnd \/ LeaveIO \/ NoBoost \/ MoveEnd
  <2>1. /\ pc # "run" /\ queues' = queues /\ jobs' = jobs /\ currentTime' = currentTime
    BY <1>4 DEF ArriveEnd, LeaveIO, NoBoost, MoveEnd
  <2>2. waited' = waited /\ WaitsType'
    BY <2>1, WaitsStay
  <2>3. ToBoost' = ToBoost
    BY <1>4, ClockSame DEF ArriveEnd, LeaveIO, NoBoost, MoveEnd
  <2>4. \/ pc # "move" /\ pc' # "move"
        \/ \A q \in Levels \ {HIGHEST_PRIORITY} : queues[q] = << >>
    <3>1. CASE MoveEnd
      <4>1. pc = "move" /\ i < 0
        BY <3>1 DEF MoveEnd
      <4>2. \A q \in Levels : i < q /\ q < HIGHEST_PRIORITY => queues[q] = << >>
        BY <4>1 DEF IInv, IndexOK
      <4>3. i \in Int
        BY LevelsFacts DEF IInv, TypeOK
      <4> QED BY <4>1, <4>2, <4>3, LevelsFacts
    <3>2. CASE ~MoveEnd
      BY <1>4, <3>2 DEF ArriveEnd, LeaveIO, NoBoost
    <3> QED BY <3>1, <3>2
  <2> QED BY <2>1, <2>2, <2>3, <2>4, WaitsInPlace
<1>5. CASE Boost
  <2>1. pc # "run"
    BY <1>5 DEF Boost
  <2> QED BY <1>5, <2>1, WaitsStay, WaitsBoost
<1>6. CASE Move
  <2>1. pc # "run"
    BY <1>6 DEF Move
  <2> QED BY <1>6, <2>1, WaitsStay, WaitsMove
<1>7. CASE Idle
  BY <1>7, WaitsIdle
<1>8. CASE Finish \/ StartIO \/ Compute
  <2>1. PICK q \in Levels, x \in Jobs :
          TickOf(x, q) /\ (Stays(x) \/ Leaves(q) \/ Requeues(x, q))
    BY <1>8, TickCharges
  <2> QED BY <2>1, WaitsTick
<1> QED BY <1>1, <1>2, <1>3, <1>4, <1>5, <1>6, <1>7, <1>8 DEF Next

\* With what it has still to wait counted, no wait exceeds the bound.
LEMMA WaitsBounded ==
    ASSUME IInv, WInv
    PROVE  NoStarvation
PROOF
<1> SUFFICES ASSUME NEW j \in Jobs PROVE waited[j] <= WaitBound
  BY DEF NoStarvation
<1>1. waited[j] \in Nat /\ WaitBound \in Int
  BY LevelsFacts, BoostPeriod DEF WInv, WaitsType, WaitBound
<1>2. 1 \in 1 .. NumJobs /\ ToBoost \in 0 .. BOOSTTIME
  BY LevelsFacts, ClockRange
<1>3. AheadOf(0, 1) = 0 /\ 0 \in 0 .. Gap
  BY LevelsFacts DEF AheadOf, Gap
<1>4. WaitBound >= BOOSTTIME
  BY <1>1, <1>2, <1>3, AheadRange, BoostPeriod
<1>5. CASE ~Queued(j)
  BY <1>1, <1>4, <1>5, BoostPeriod DEF WInv, IdleNeverWaits
<1>6. CASE \E q \in Levels \ {HIGHEST_PRIORITY} : In(queues, j, q)
  BY <1>1, <1>2, <1>4, <1>6, BoostPeriod DEF WInv, LowerWaits
<1>7. CASE In(queues, j, HIGHEST_PRIORITY)
  <2>1. PICK k \in 1 .. Len(Top) : Top[k] = j
    BY <1>7 DEF In, Top
  <2>2. PICK c \in 0 .. Gap : c = CostOf(jobs[Top[1]].ticksLeft, ToBoost)
    <3>1. 1 \in 1 .. Len(Top)
      BY <2>1, TopFacts
    <3>2. PICK t \in 0 .. QUANTUM, b \in 0 .. BOOSTTIME :
            t = jobs[Top[1]].ticksLeft /\ b = ToBoost
      BY <1>2, <3>1, TopFacts
    <3> QED BY <3>2, CostRange
  <2>3. waited[j] + AheadOf(c, k) <= WaitBound
    BY <2>1, <2>2 DEF WInv, TopWaits
  <2>4. AheadOf(c, k) \in Nat
    BY <2>1, TopFacts, AheadRange, LevelsFacts
  <2> QED BY <1>1, <2>3, <2>4
<1> QED BY <1>5, <1>6, <1>7 DEF Queued

\* No job starves: it waits for the next boost at most and then for the jobs
\* ahead of it, however many jobs and levels there are.
THEOREM NobodyStarves == PolicySpec => []NoStarvation
PROOF
<1>1. WInv /\ UNCHANGED policyVars => WInv'
  BY DEF policyVars, WInv, WaitsType, IdleNeverWaits, TopWaits, LowerWaits, Queued, Top,
         ToBoost, BoostDue
<1>2. IInv /\ IInv' /\ WInv /\ [PolicyNext]_policyVars => WInv'
  BY <1>1, WaitsStep
<1>3. IInv /\ WInv => NoStarvation
  BY WaitsBounded
<1> QED BY <1>2, <1>3, WaitsInit, PolicyInvariance, PTL DEF PolicySpec
=============================================================================
