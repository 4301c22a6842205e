---------------------------- MODULE MapReduceProofs ----------------------------
(***************************************************************************)
(* The semaphore, the barriers, the emitted keys and the reducers of MRRun *)
(* for any number of files, words, mappers and partitions.  IInv says what *)
(* the two counters count while the mappers run: the semaphore those that  *)
(* have not given their token back, the wait group those that have not     *)
(* called Done; MapperBound and ReduceAfterMap follow, whatever Map and    *)
(* Insert do in between.  EInv adds that the lock is held from the load of *)
(* a partition to its store, so that as many copies of a key are kept as   *)
(* were emitted; RInv what the wait group counts in the second half and    *)
(* how far each reducer is.  That the hash of a key names a partition is   *)
(* an induction over the key.                                              *)
(*                                                                         *)
(* WInv is about the trie: some path gives each node the key that leads to *)
(* it (Tree), each node counts the insertions of its key (Values), and a   *)
(* mapper in Insert is at the node of the runes it has passed (Insertion); *)
(* for the keys that no two files contest for, nothing is done twice.  A   *)
(* Search then passes the nodes of the key's prefixes (Counted), and MRRun *)
(* implements WordCount.                                                   *)
(***************************************************************************)
EXTENDS MapReduceRefinement, FiniteSetTheorems, TLAPS

\* Where a mapper is between its start and its deferred calls.
Busy == {"open", "scan", "emit", "append", "children", "lookup", "create", "write",
         "descend", "add", "release"}

Holding == {f \in Files : mapPc[f] \in Busy}
Pending == {f \in Files : mapPc[f] \in Busy \cup {"done"}}

\* The first half of MRRun: the goroutines of the files before next exist, and no
\* reducer does.
Mapping ==
    /\ mainPc \in {"start mappers", "wait mappers"}
    /\ next \in 1 .. NumFiles + 1
    /\ mainPc = "wait mappers" => next = NumFiles + 1
    /\ \A f \in Files : mapPc[f] = "unborn" <=> f >= next
    /\ semaphore = Cardinality(Holding) /\ semaphore <= NumMappers
    /\ wg = Cardinality(Pending)
    /\ \A p \in Partitions : redPc[p] = "unborn"

\* The second half: every mapper has called Done.
Reducing ==
    /\ mainPc \in {"start reducers", "wait reducers", "returned"}
    /\ \A f \in Files : mapPc[f] = "gone"

Places ==
    /\ mapPc \in [Files -> Busy \cup {"unborn", "done", "gone"}]
    /\ redPc \in [Partitions -> {"unborn", "reduce", "done", "gone"}]

IInv == Places /\ (Mapping \/ Reducing)

\* What the proofs need of the input.
LEMMA Sizes ==
    /\ NumFiles \in Nat /\ NumMappers \in Nat \ {0}
    /\ \A f \in Files : f \in Int /\ 1 <= f /\ f <= NumFiles
    /\ \A n \in Int : n \in Files <=> 1 <= n /\ n <= NumFiles
    /\ \A n \in Int : n \in 1 .. NumFiles + 1 <=> 1 <= n /\ n <= NumFiles + 1
    /\ \A n \in 1 .. NumFiles + 1 : n \in Int
PROOF BY InputAssumption DEF Files

\* Sets of files are finite.
LEMMA FilesFinite ==
    ASSUME NEW S \in SUBSET Files
    PROVE  IsFiniteSet(S) /\ Cardinality(S) \in Nat
PROOF
<1>1. IsFiniteSet(Files)
  BY Sizes, FS_Interval DEF Files
<1> QED BY <1>1, FS_Subset, FS_CardinalityType

\* The invariant holds before MRRun starts.
LEMMA InitInv == Init => IInv
PROOF
<1> SUFFICES ASSUME Init PROVE IInv
  OBVIOUS
<1>1. Holding = {} /\ Pending = {}
  BY DEF Init, Holding, Pending, Busy
<1>2. Mapping
  <2>1. Cardinality(Holding) = 0 /\ Cardinality(Pending) = 0
    BY <1>1, FS_EmptySet
  <2>2. 1 \in 1 .. NumFiles + 1 /\ 0 <= NumMappers
    BY Sizes
  <2>3. \A f \in Files : f >= 1
    BY Sizes
  <2>4. mainPc = "start mappers" /\ next = 1 /\ semaphore = 0 /\ wg = 0
    BY DEF Init
  <2>5. /\ \A f \in Files : mapPc[f] = "unborn"
        /\ \A p \in Partitions : redPc[p] = "unborn"
    BY DEF Init
  <2> QED BY <2>1, <2>2, <2>3, <2>4, <2>5 DEF Mapping
<1>3. Places
  BY DEF Init, Places
<1> QED BY <1>2, <1>3 DEF IInv

-----------------------------------------------------------------------------
\* A mapper that goes from one busy place to another holds on to its token.
LEMMA BusyKept ==
    ASSUME IInv, NEW f \in Files, NEW x \in Busy, mapPc[f] \in Busy,
           mapPc' = [mapPc EXCEPT ![f] = x], UNCHANGED <<pool, mainVars, redVars>>
    PROVE  IInv'
PROOF
<1>1. Mapping
  BY DEF IInv, Reducing, Busy
<1>2. Places' /\ \A g \in Files : g # f => mapPc'[g] = mapPc[g]
  BY DEF IInv, Places, redVars
<1>3. mapPc'[f] = x
  BY DEF IInv, Places
<1>4. Holding' = Holding /\ Pending' = Pending
  BY <1>2, <1>3 DEF Holding, Pending
<1>5. \A g \in Files : mapPc'[g] = "unborn" <=> mapPc[g] = "unborn"
  BY <1>2, <1>3 DEF Busy
<1>6. Mapping'
  BY <1>1, <1>4, <1>5 DEF Mapping, pool, mainVars, redVars
<1> QED BY <1>2, <1>6 DEF IInv

\* A step that moves nobody leaves the counts alone.
LEMMA StillKept ==
    ASSUME IInv, UNCHANGED <<mapPc, pool, mainVars, redPc>>
    PROVE  IInv'
PROOF BY DEF IInv, Places, Mapping, Reducing, Holding, Pending, pool, mainVars

\* What a mapper does between its start and its deferred calls.
LEMMA WorkInv ==
    ASSUME IInv, NEW f \in Files, UNCHANGED <<mainVars, redVars>>,
           Open(f) \/ OpenFails(f) \/ Scan(f) \/ EmitLock(f) \/ EmitStore(f) \/ Insert(f) \/ Die(f)
    PROVE  IInv'
PROOF
<1>1. UNCHANGED pool
  BY DEF Open, OpenFails, Scan, EmitLock, EmitStore, Insert, Die
<1>2. \/ UNCHANGED mapPc
      \/ \E x \in Busy : mapPc[f] \in Busy /\ mapPc' = [mapPc EXCEPT ![f] = x]
  <2>1. CASE Open(f) \/ OpenFails(f) \/ Scan(f) \/ Die(f)
    BY <2>1 DEF Open, OpenFails, Scan, Die, Goto, Busy, mapVars
  <2>2. CASE EmitLock(f) \/ EmitStore(f)
    BY <2>2 DEF EmitLock, EmitStore, Goto, Busy
  <2>3. CASE MakeChildren(f) \/ Lookup(f) \/ MapRace(f) \/ KeepChild(f) \/ CreateChild(f)
    BY <2>3 DEF MakeChildren, Lookup, MapRace, KeepChild, CreateChild, Goto, Busy
  <2>4. CASE LinkChild(f) \/ Descend(f) \/ AddLock(f) \/ AddStore(f)
    BY <2>4 DEF LinkChild, Descend, AddLock, AddStore, Goto, Busy
  <2> QED BY <2>1, <2>2, <2>3, <2>4 DEF Insert
<1>3. CASE UNCHANGED mapPc
  BY <1>1, <1>3, StillKept DEF redVars
<1>4. CASE \E x \in Busy : mapPc[f] \in Busy /\ mapPc' = [mapPc EXCEPT ![f] = x]
  BY <1>1, <1>4, BusyKept
<1> QED BY <1>2, <1>3, <1>4

\* The first deferred call gives the token back, and the mapper is still awaited.
LEMMA ReleaseInv ==
    ASSUME IInv, NEW f \in Files, UNCHANGED <<mainVars, redVars>>, ReleaseMapper(f)
    PROVE  IInv'
PROOF
<1>1. /\ mapPc[f] = "release" /\ mapPc' = [mapPc EXCEPT ![f] = "done"]
      /\ semaphore' = semaphore - 1 /\ wg' = wg
  BY DEF ReleaseMapper, Goto, Released
<1>2. Mapping
  BY <1>1 DEF IInv, Reducing
<1>3. Places' /\ mapPc'[f] = "done" /\ \A g \in Files : g # f => mapPc'[g] = mapPc[g]
  BY <1>1 DEF IInv, Places, redVars
<1>4. Holding' = Holding \ {f} /\ f \in Holding /\ Pending' = Pending
  BY <1>1, <1>3 DEF Holding, Pending, Busy
<1>5. Cardinality(Holding') = Cardinality(Holding) - 1
  <2>1. IsFiniteSet(Holding)
    BY FilesFinite DEF Holding
  <2> QED BY <1>4, <2>1, FS_RemoveElement
<1>6. Cardinality(Holding) \in Nat
  BY FilesFinite DEF Holding
<1>7. \A g \in Files : mapPc'[g] = "unborn" <=> mapPc[g] = "unborn"
  BY <1>1, <1>3
<1>8. semaphore' <= NumMappers
  <2>1. semaphore \in Nat /\ semaphore <= NumMappers
    BY <1>2, <1>6 DEF Mapping
  <2> QED BY <1>1, <2>1, Sizes
<1>9. Mapping'
  BY <1>1, <1>2, <1>4, <1>5, <1>7, <1>8 DEF Mapping, mainVars, redVars
<1> QED BY <1>3, <1>9 DEF IInv

\* The second one is Done: the mapper is no longer awaited.
LEMMA DoneInv ==
    ASSUME IInv, NEW f \in Files, UNCHANGED <<mainVars, redVars>>, MapperDone(f)
    PROVE  IInv'
PROOF
<1>1. /\ mapPc[f] = "done" /\ mapPc' = [mapPc EXCEPT ![f] = "gone"]
      /\ wg' = wg - 1 /\ semaphore' = semaphore
  BY DEF MapperDone, Goto
<1>2. Mapping
  BY <1>1 DEF IInv, Reducing
<1>3. Places' /\ mapPc'[f] = "gone" /\ \A g \in Files : g # f => mapPc'[g] = mapPc[g]
  BY <1>1 DEF IInv, Places, redVars
<1>4. Pending' = Pending \ {f} /\ f \in Pending /\ Holding' = Holding
  BY <1>1, <1>3 DEF Holding, Pending, Busy
<1>5. Cardinality(Pending') = Cardinality(Pending) - 1
  <2>1. IsFiniteSet(Pending)
    BY FilesFinite DEF Pending
  <2> QED BY <1>4, <2>1, FS_RemoveElement
<1>6. \A g \in Files : mapPc'[g] = "unborn" <=> mapPc[g] = "unborn"
  BY <1>1, <1>3
<1>7. Mapping'
  BY <1>1, <1>2, <1>4, <1>5, <1>6 DEF Mapping, mainVars, redVars
<1> QED BY <1>3, <1>7 DEF IInv

\* A new mapper takes a token that is free and is added to the wait group before
\* it runs.
LEMMA StartInv == IInv /\ StartMapper => IInv'
PROOF
<1> SUFFICES ASSUME IInv, StartMapper PROVE IInv'
  OBVIOUS
<1>1. /\ mainPc = "start mappers" /\ next \in Files /\ semaphore < NumMappers
      /\ semaphore' = semaphore + 1 /\ wg' = wg + 1 /\ next' = next + 1
      /\ mapPc' = [mapPc EXCEPT ![next] = "open"] /\ mainPc' = mainPc /\ redPc' = redPc
  BY DEF StartMapper, SlotFree, Started, redVars
<1>2. Mapping
  BY <1>1 DEF IInv, Reducing
<1>3. mapPc[next] = "unborn" /\ next \in Int /\ 1 <= next /\ next <= NumFiles
  <2>1. next \in Int
    BY <1>1, Sizes
  <2>2. mapPc[next] = "unborn"
    <3>1. mapPc[next] = "unborn" <=> next >= next
      BY <1>1, <1>2 DEF Mapping
    <3> QED BY <2>1, <3>1
  <2> QED BY <1>1, <2>1, <2>2, Sizes
<1>4. Places' /\ mapPc'[next] = "open" /\ \A g \in Files : g # next => mapPc'[g] = mapPc[g]
  BY <1>1 DEF IInv, Places, Busy
<1>5. /\ Holding' = Holding \cup {next} /\ next \notin Holding
      /\ Pending' = Pending \cup {next} /\ next \notin Pending
  BY <1>1, <1>3, <1>4 DEF Holding, Pending, Busy
<1>6. /\ IsFiniteSet(Holding) /\ Cardinality(Holding) \in Nat
      /\ IsFiniteSet(Pending) /\ Cardinality(Pending) \in Nat
  BY FilesFinite DEF Holding, Pending
<1>7. /\ Cardinality(Holding') = Cardinality(Holding) + 1
      /\ Cardinality(Pending') = Cardinality(Pending) + 1
  BY <1>5, <1>6, FS_AddElement
<1>8. next' = next + 1 /\ semaphore' = semaphore + 1 /\ semaphore < NumMappers
  BY <1>1
<1>9. \A f \in Files : mapPc'[f] = "unborn" <=> f >= next'
  <2> SUFFICES ASSUME NEW f \in Files PROVE mapPc'[f] = "unborn" <=> f >= next'
    OBVIOUS
  <2>1. f \in Int
    BY Sizes
  <2>4. mapPc[f] = "unborn" <=> f >= next
    BY <1>2 DEF Mapping
  <2>2. CASE f = next
    <3>1. ~(f >= next')
      BY <1>3, <1>8, <2>2
    <3> QED BY <1>4, <2>2, <3>1
  <2>3. CASE f # next
    <3>1. f >= next' <=> f >= next
      BY <1>3, <1>8, <2>1, <2>3
    <3> QED BY <1>4, <2>3, <2>4, <3>1
  <2> QED BY <2>2, <2>3
<1>10. next' \in 1 .. NumFiles + 1
  <2> NumFiles \in Nat
    BY Sizes
  <2> QED BY <1>3, <1>8
<1>11. semaphore' <= NumMappers
  <2>1. semaphore \in Nat
    BY <1>2, <1>6 DEF Mapping
  <2>2. NumMappers \in Nat
    BY Sizes
  <2> QED BY <1>8, <2>1, <2>2
<1>12. Mapping'
  BY <1>1, <1>2, <1>7, <1>9, <1>10, <1>11 DEF Mapping
<1> QED BY <1>4, <1>12 DEF IInv

\* The barrier: the wait group is empty when every mapper has called Done.
LEMMA BarrierInv == IInv /\ MappersDone => IInv'
PROOF
<1> SUFFICES ASSUME IInv, MappersDone PROVE IInv'
  OBVIOUS
<1>1. /\ mainPc = "wait mappers" /\ wg = 0 /\ mainPc' = "start reducers"
      /\ mapPc' = mapPc /\ redPc' = redPc
  BY DEF MappersDone, WaitOver, mapVars, redVars
<1>2. Mapping
  BY <1>1 DEF IInv, Reducing
<1>3. Pending = {}
  <2>1. IsFiniteSet(Pending)
    BY FilesFinite DEF Pending
  <2> QED BY <1>1, <1>2, <2>1, FS_EmptySet DEF Mapping
<1>4. \A f \in Files : mapPc[f] # "unborn"
  <2> SUFFICES ASSUME NEW f \in Files PROVE ~(f >= next)
    BY <1>2 DEF Mapping
  <2>1. next = NumFiles + 1
    BY <1>1, <1>2 DEF Mapping
  <2>2. f \in Int /\ f <= NumFiles /\ NumFiles \in Int
    BY Sizes
  <2> QED BY <2>1, <2>2
<1>5. \A f \in Files : mapPc[f] = "gone"
  BY <1>3, <1>4 DEF IInv, Places, Pending
<1> QED BY <1>1, <1>5 DEF IInv, Reducing, Places

\* The other steps of the main goroutine.
LEMMA MainInv ==
    ASSUME IInv, MappersStarted \/ StartReducer \/ ReducersStarted \/ ReducersDone
    PROVE  IInv'
PROOF
<1>1. CASE MappersStarted
  <2>1. /\ mainPc = "start mappers" /\ next \notin Files /\ mainPc' = "wait mappers"
        /\ UNCHANGED <<next, semaphore, wg, mapPc, redPc>>
    BY <1>1 DEF MappersStarted, pool, mapVars, redVars
  <2>2. Mapping
    BY <2>1 DEF IInv, Reducing
  <2>3. next = NumFiles + 1
    <3>1. next \in 1 .. NumFiles + 1
      BY <2>2 DEF Mapping
    <3>2. NumFiles \in Nat /\ next \notin 1 .. NumFiles
      BY <2>1, Sizes DEF Files
    <3> QED BY <3>1, <3>2
  <2>4. Holding' = Holding /\ Pending' = Pending
    BY <2>1 DEF Holding, Pending
  <2> QED BY <2>1, <2>2, <2>3, <2>4 DEF IInv, Mapping, Places
<1>2. CASE StartReducer \/ ReducersStarted \/ ReducersDone
  <2>1. /\ mainPc \in {"start reducers", "wait reducers"} /\ mapPc' = mapPc
        /\ mainPc' \in {"start reducers", "wait reducers", "returned"}
    BY <1>2 DEF StartReducer, ReducersStarted, ReducersDone, mapVars
  <2>2. Reducing /\ Reducing'
    BY <2>1 DEF IInv, Mapping, Reducing
  <2>3. redPc' \in [Partitions -> {"unborn", "reduce", "done", "gone"}]
    BY <1>2 DEF StartReducer, ReducersStarted, ReducersDone, redVars, IInv, Places
  <2> QED BY <2>1, <2>2, <2>3 DEF IInv, Places
<1> QED BY <1>1, <1>2

\* A reducer exists in the second half only.
LEMMA ReducerInv == ASSUME IInv, NEW p \in Partitions, Reducer(p) PROVE IInv'
PROOF
<1>1. redPc[p] \in {"reduce", "done"} /\ mapPc' = mapPc /\ mainPc' = mainPc
  BY DEF Reducer, Reduce, ReleaseReducer, ReducerDone, mapVars, mainVars
<1>2. Reducing /\ Reducing'
  BY <1>1 DEF IInv, Mapping, Reducing
<1>3. redPc' \in [Partitions -> {"unborn", "reduce", "done", "gone"}]
  BY DEF Reducer, Reduce, ReleaseReducer, ReducerDone, IInv, Places
<1> QED BY <1>1, <1>2, <1>3 DEF IInv, Places

\* Every step keeps the invariant.
LEMMA StepInv == IInv /\ [Next]_vars => IInv'
PROOF
<1> SUFFICES ASSUME IInv, [Next]_vars PROVE IInv'
  OBVIOUS
<1>1. CASE Main
  BY <1>1, StartInv, BarrierInv, MainInv DEF Main
<1>2. ASSUME NEW f \in Files, Map(f) PROVE IInv'
  BY <1>2, WorkInv, ReleaseInv, DoneInv DEF Map
<1>3. ASSUME NEW p \in Partitions, Reducer(p) PROVE IInv'
  BY <1>3, ReducerInv
<1>4. CASE UNCHANGED vars
  BY <1>4, StillKept DEF vars, pool, mainVars
<1> QED BY <1>1, <1>2, <1>3, <1>4 DEF Next

\* However the goroutines interleave, the counters count them.
THEOREM Invariance == Spec => []IInv
PROOF BY InitInv, StepInv, PTL DEF Spec

\* No more than NumMappers goroutines are in Map at any moment (utils.go:83-94).
THEOREM BoundedMappers == Spec => []MapperBound
PROOF
<1>1. IInv => MapperBound
  <2> SUFFICES ASSUME IInv PROVE MapperBound
    OBVIOUS
  <2> DEFINE Running == {f \in Files : mapPc[f] # "unborn" /\ ~Mapped(f)}
  <2>1. Running = Holding
    BY DEF IInv, Places, Mapped, Holding, Busy
  <2>2. CASE Mapping
    BY <2>1, <2>2 DEF Mapping, MapperBound
  <2>3. CASE Reducing
    <3>1. Running = {}
      BY <2>3 DEF Reducing, Mapped
    <3> QED BY <3>1, FS_EmptySet, Sizes DEF MapperBound
  <2> QED BY <2>2, <2>3 DEF IInv
<1> QED BY <1>1, Invariance, PTL

\* No reducer starts before the last mapper has called Done, and no mapper emits or
\* inserts from then on (utils.go:97).
THEOREM Barrier == Spec => []ReduceAfterMap
PROOF
<1>1. IInv => ReduceAfterMap
  BY DEF IInv, Mapping, Reducing, ReduceAfterMap, Mapped
<1> QED BY <1>1, Invariance, PTL
-----------------------------------------------------------------------------
(* Induction, and the hash of a key.                                       *)

\* A set of numbers has a least one.
LEMMA Least ==
    ASSUME NEW T \in SUBSET Nat, T # {}
    PROVE  \E x \in T : \A y \in T : x <= y
PROOF
<1> DEFINE R == OpToRel(<, Nat)
<1>1. IsWellFoundedOn(R, Nat)
  BY NatLessThanWellFounded
<1>2. \A x, y \in Nat : <<x, y>> \in R <=> x < y
  BY DEF OpToRel
<1> HIDE DEF R
<1>3. PICK x \in T : \A y \in T : ~(<<y, x>> \in R)
  BY <1>1, WFMin
<1>4. \A y \in T : ~(y < x)
  BY <1>2, <1>3
<1> QED BY <1>4

\* A set with 0 and the successor of each of its numbers holds them all.
LEMMA Induction ==
    ASSUME NEW T, 0 \in T, \A n \in Nat : n \in T => n + 1 \in T
    PROVE  \A n \in Nat : n \in T
PROOF
<1> DEFINE U == Nat \ T
<1> SUFFICES ASSUME U # {} PROVE FALSE
  OBVIOUS
<1>1. PICK x \in U : \A y \in U : x <= y
  BY Least
<1>2. x # 0 /\ x - 1 \in Nat
  BY <1>1
<1>3. x - 1 \in T
  BY <1>1, <1>2
<1> QED BY <1>1, <1>2, <1>3

\* h holds the hashes of the prefixes of a key, up to the n-th.
HashStep(h, key, i) ==
    IF i = 0 THEN 5381 % HashModulus ELSE (h[i - 1] * 33 + key[i]) % HashModulus
Hashes(h, key, n) == h = [i \in 0 .. n |-> HashStep(h, key, i)]

\* A function with the equation of the hash exists.
LEMMA HashExists ==
    ASSUME NEW key, NEW n \in Nat
    PROVE  \E h : Hashes(h, key, n)
PROOF
<1> DEFINE T == {k \in Nat : \E h : Hashes(h, key, k)}
<1>1. 0 \in T
  <2> DEFINE h == [i \in 0 .. 0 |-> 5381 % HashModulus]
  <2>1. \A i \in 0 .. 0 : h[i] = HashStep(h, key, i)
    BY DEF HashStep
  <2>2. h = [i \in 0 .. 0 |-> h[i]]
    OBVIOUS
  <2>3. Hashes(h, key, 0)
    BY <2>1, <2>2 DEF Hashes
  <2> QED BY <2>3
<1>2. ASSUME NEW k \in Nat, k \in T PROVE k + 1 \in T
  <2>1. PICK g : Hashes(g, key, k)
    BY <1>2
  <2> DEFINE h == [i \in 0 .. k + 1 |->
                     IF i = k + 1 THEN HashStep(g, key, i) ELSE g[i]]
  <2>2. \A i \in 0 .. k : h[i] = g[i] /\ g[i] = HashStep(g, key, i)
    BY <2>1 DEF Hashes
  <2>3. ASSUME NEW i \in 0 .. k + 1 PROVE h[i] = HashStep(h, key, i)
    <3>1. h[i] = HashStep(g, key, i)
      <4>1. CASE i = k + 1
        BY <4>1
      <4>2. CASE i # k + 1
        <5>1. i \in 0 .. k
          BY <4>2
        <5> QED BY <2>2, <5>1
      <4> QED BY <4>1, <4>2
    <3>2. i # 0 => i - 1 \in 0 .. k
      OBVIOUS
    <3>3. i # 0 => h[i - 1] = g[i - 1]
      BY <2>2, <3>2
    <3> HIDE DEF h
    <3> QED BY <3>1, <3>3 DEF HashStep
  <2>4. h = [i \in 0 .. k + 1 |-> h[i]]
    OBVIOUS
  <2> HIDE DEF h
  <2>5. h = [i \in 0 .. k + 1 |-> HashStep(h, key, i)]
    BY <2>3, <2>4
  <2> QED BY <2>5 DEF Hashes
<1>3. \A k \in Nat : k \in T
  <2> HIDE DEF T
  <2> QED BY <1>1, <1>2, Induction
<1> QED BY <1>3

\* Remainders.
LEMMA Remainder == \A a \in Int : \A b \in Nat \ {0} : a % b \in Nat /\ a % b \in 0 .. b - 1
PROOF OBVIOUS

\* MR_DefaultHashPartition names a partition.
LEMMA HashInRange ==
    ASSUME NEW key \in Seq(Nat)
    PROVE  MR_DefaultHashPartition(key) \in Partitions
PROOF
<1> DEFINE n == Len(key)
           hash == CHOOSE h : Hashes(h, key, n)
<1>1. n \in Nat /\ \A i \in 1 .. n : key[i] \in Nat
  OBVIOUS
<1>2. MR_DefaultHashPartition(key) = hash[n] % NumReducers
  BY DEF MR_DefaultHashPartition, Hashes, HashStep
<1>3. Hashes(hash, key, n)
  BY <1>1, HashExists
<1> HIDE DEF hash, n
<1>4. \A i \in 0 .. n : hash[i] = HashStep(hash, key, i)
  BY <1>3 DEF Hashes
<1> DEFINE T == {i \in Nat : i <= n => hash[i] \in Nat}
<1>5. HashModulus \in Nat \ {0} /\ NumReducers \in Nat \ {0}
  BY InputAssumption
<1>6. 0 \in T
  <2>1. hash[0] = 5381 % HashModulus
    BY <1>1, <1>4 DEF HashStep
  <2> QED BY <1>5, <2>1, Remainder
<1>7. ASSUME NEW i \in Nat, i \in T PROVE i + 1 \in T
  <2> SUFFICES ASSUME i + 1 <= n PROVE hash[i + 1] \in Nat
    OBVIOUS
  <2>1. hash[i] \in Nat /\ key[i + 1] \in Nat
    BY <1>1, <1>7
  <2>2. hash[i + 1] = (hash[i] * 33 + key[i + 1]) % HashModulus
    <3>1. i + 1 \in 0 .. n /\ (i + 1) - 1 = i /\ i + 1 # 0
      BY <1>1
    <3> QED BY <1>4, <3>1 DEF HashStep
  <2>3. hash[i] * 33 + key[i + 1] \in Int
    BY <2>1
  <2> QED BY <1>5, <2>2, <2>3, Remainder
<1>8. \A i \in Nat : i \in T
  <2> HIDE DEF T
  <2> QED BY <1>6, <1>7, Induction
<1>9. hash[n] \in Nat
  BY <1>1, <1>8
<1>10. hash[n] % NumReducers \in 0 .. NumReducers - 1
  <2>1. hash[n] \in Int
    BY <1>9
  <2> QED BY <1>5, <2>1, Remainder
<1> QED BY <1>2, <1>10 DEF Partitions

-----------------------------------------------------------------------------
(* The keys that MR_Emit stores.                                           *)

Keys == Seq(Nat)
InWord == {"emit", "append", "children", "lookup", "create", "write", "descend", "add"}

\* The occurrences of a key that were emitted, and the places where its partition
\* holds it.
EmittedAt(key) ==
    {at \in UNION {{g} \X Stored(g) : g \in Files} : Content[at[1]][at[2]] = key}
Slice(key) == KVMap[MR_DefaultHashPartition(key)]
KeptAt(key) == {k \in DOMAIN Slice(key) : Slice(key)[k] = key}

\* A mapper's variables as far as they matter here; the lock is held over the load
\* and the store of a partition.
LocalOf(f) ==
    /\ DOMAIN local[f] = {"word", "char", "node", "child", "seen", "old", "panicking"}
    /\ local[f].word \in Nat \ {0} /\ local[f].word <= Len(Content[f]) + 1
    /\ mapPc[f] \in InWord => local[f].word <= Len(Content[f])
    /\ mapPc[f] = "append" => kvlock = f /\ local[f].seen = Slice(Word(f))

EInv ==
    /\ KVMap \in [Partitions -> Seq(Keys)]
    /\ DOMAIN local = Files
    /\ \A f \in Files : LocalOf(f)
    /\ \A key \in Keys : /\ IsFiniteSet(EmittedAt(key))
                         /\ Cardinality(KeptAt(key)) = Cardinality(EmittedAt(key))

\* What a file yields.
LEMMA Contents ==
    \A f \in Files : /\ Content[f] \in Seq(Keys) /\ Len(Content[f]) \in Nat
                     /\ \A n \in Nat \ {0} : n <= Len(Content[f]) => Content[f][n] \in Keys
PROOF BY InputAssumption DEF Keys

\* EInv holds at the start.
LEMMA InitEmit == Init => EInv
PROOF
<1> SUFFICES ASSUME Init PROVE EInv
  OBVIOUS
<1>1. KVMap \in [Partitions -> Seq(Keys)] /\ \A p \in Partitions : KVMap[p] = << >>
  <2>1. << >> \in Seq(Keys)
    OBVIOUS
  <2> QED BY <2>1 DEF Init
<1>2. DOMAIN local = Files /\ \A f \in Files : LocalOf(f)
  <2> DEFINE start == [word |-> 1, char |-> 1, node |-> 1, child |-> 0, seen |-> << >>, old |-> 0,
                       panicking |-> FALSE]
  <2>1. DOMAIN start = {"word", "char", "node", "child", "seen", "old", "panicking"} /\ start.word = 1
    OBVIOUS
  <2>2. local = [f \in Files |-> start] /\ mapPc = [f \in Files |-> "unborn"]
    BY DEF Init
  <2> HIDE DEF start
  <2>3. \A f \in Files : mapPc[f] \notin InWord /\ mapPc[f] # "append"
    BY <2>2 DEF InWord
  <2>4. \A f \in Files : 1 <= Len(Content[f]) + 1
    BY Contents
  <2> QED BY <2>1, <2>2, <2>3, <2>4 DEF LocalOf
<1>3. ASSUME NEW key \in Keys
      PROVE  /\ IsFiniteSet(EmittedAt(key))
             /\ Cardinality(KeptAt(key)) = Cardinality(EmittedAt(key))
  <2>1. \A f \in Files : Stored(f) = {}
    <3>1. \A f \in Files : mapPc[f] = "unborn" /\ local[f].word = 1
      BY DEF Init
    <3>2. 1 .. (1 - 1) = {}
      OBVIOUS
    <3> QED BY <3>1, <3>2 DEF Stored
  <2>2. EmittedAt(key) = {}
    BY <2>1 DEF EmittedAt
  <2>3. Slice(key) = << >>
    BY <1>1, HashInRange DEF Slice, Keys
  <2>4. KeptAt(key) = {}
    BY <2>3 DEF KeptAt
  <2> QED BY <2>2, <2>4, FS_EmptySet
<1> QED BY <1>1, <1>2, <1>3 DEF EInv

\* A step that stores no key keeps what there is.
LEMMA EmitKept ==
    ASSUME EInv, KVMap' = KVMap, DOMAIN local' = Files,
           \A g \in Files : LocalOf(g)' /\ Stored(g)' = Stored(g)
    PROVE  EInv'
PROOF
<1>1. ASSUME NEW key \in Keys PROVE EmittedAt(key)' = EmittedAt(key) /\ KeptAt(key)' = KeptAt(key)
  BY DEF EmittedAt, KeptAt, Slice
<1> QED BY <1>1 DEF EInv

\* The others do not notice what a mapper does outside the lock.
LEMMA OthersKept ==
    ASSUME EInv, NEW f \in Files, KVMap' = KVMap, kvlock' = kvlock \/ kvlock = 0,
           DOMAIN local' = Files,
           \A g \in Files : g # f => mapPc'[g] = mapPc[g] /\ local'[g] = local[g]
    PROVE  \A g \in Files : g # f => LocalOf(g)' /\ Stored(g)' = Stored(g)
PROOF
<1> SUFFICES ASSUME NEW g \in Files, g # f PROVE LocalOf(g)' /\ Stored(g)' = Stored(g)
  OBVIOUS
<1>1. LocalOf(g) /\ g # 0
  BY Sizes DEF EInv
<1> QED BY <1>1 DEF LocalOf, Stored, Slice, Word

\* The steps of Map and Insert that store no key.
LEMMA WorkEmit ==
    ASSUME IInv, EInv, NEW f \in Files, Map(f), ~EmitStore(f)
    PROVE  EInv'
PROOF
<1>1. /\ KVMap' = KVMap /\ LocalOf(f) /\ f # 0
      /\ DOMAIN local' = Files
      /\ \A g \in Files : g # f => mapPc'[g] = mapPc[g] /\ local'[g] = local[g]
  <2>1. LocalOf(f) /\ DOMAIN local = Files /\ f # 0 /\ DOMAIN mapPc = Files
    BY Sizes DEF EInv, IInv, Places
  <2>2. CASE Open(f) \/ OpenFails(f) \/ Scan(f) \/ EmitLock(f) \/ ReleaseMapper(f) \/ MapperDone(f)
               \/ Die(f)
    BY <2>1, <2>2 DEF Open, OpenFails, Scan, EmitLock, ReleaseMapper, MapperDone, Die, Goto, mapVars
  <2>3. CASE Insert(f)
    <3>1. KVMap' = KVMap
      BY <2>3 DEF Insert
    <3>2. CASE MakeChildren(f) \/ Lookup(f) \/ MapRace(f) \/ KeepChild(f) \/ CreateChild(f)
      BY <2>1, <3>1, <3>2 DEF MakeChildren, Lookup, MapRace, KeepChild, CreateChild, Goto
    <3>3. CASE LinkChild(f) \/ Descend(f) \/ AddLock(f) \/ AddStore(f)
      BY <2>1, <3>1, <3>3 DEF LinkChild, Descend, AddLock, AddStore, Goto
    <3> QED BY <2>3, <3>2, <3>3 DEF Insert
  <2> QED BY <2>2, <2>3 DEF Map
<1>2. kvlock' = kvlock \/ kvlock = 0
  BY DEF Map, Open, OpenFails, Scan, EmitLock, KvFree, ReleaseMapper, MapperDone, Die, Insert, mapVars
<1>3. \A g \in Files : g # f => LocalOf(g)' /\ Stored(g)' = Stored(g)
  BY <1>1, <1>2, OthersKept
<1>4. LocalOf(f)' /\ Stored(f)' = Stored(f)
  <2> DEFINE Same == /\ DOMAIN local'[f] = DOMAIN local[f] /\ local'[f].word = local[f].word
             In == {"children", "lookup", "create", "write", "descend", "add"}
  <2>1. mapPc \in [Files -> Busy \cup {"unborn", "done", "gone"}] /\ local[f].word \in Nat \ {0}
    BY <1>1 DEF IInv, Places, LocalOf
  <2>2. CASE Open(f) \/ OpenFails(f) \/ Scan(f) \/ ReleaseMapper(f) \/ MapperDone(f) \/ Die(f)
    <3>1. Same
      <4>1. CASE OpenFails(f)
        BY <1>1, <4>1 DEF OpenFails, LocalOf, EInv
      <4> QED BY <2>2, <4>1 DEF Open, Scan, ReleaseMapper, MapperDone, Die, mapVars
    <3>2. /\ mapPc[f] \in {"open", "scan", "release", "done", "gone"}
          /\ mapPc'[f] \in {"scan", "emit", "release", "done", "gone"}
          /\ mapPc'[f] = "emit" => local[f].word <= Len(Content[f])
      BY <2>1, <2>2 DEF Open, OpenFails, Scan, ReleaseMapper, MapperDone, Die, Goto, mapVars
    <3> QED BY <1>1, <3>1, <3>2 DEF LocalOf, Stored, InWord
  <2>3. CASE EmitLock(f)
    <3>1. /\ mapPc[f] = "emit" /\ mapPc'[f] = "append" /\ kvlock' = f
          /\ local'[f] = [local[f] EXCEPT !.seen = Slice(Word(f))]
      BY <1>1, <2>1, <2>3 DEF EmitLock, Goto, Slice, EInv
    <3>2. Same /\ local'[f].seen = Slice(Word(f))
      BY <1>1, <3>1 DEF LocalOf
    <3>3. Slice(Word(f))' = Slice(Word(f))
      BY <1>1, <3>2 DEF Slice, Word
    <3> QED BY <1>1, <3>1, <3>2, <3>3 DEF LocalOf, Stored, InWord
  <2>4. CASE Insert(f) /\ ~AddStore(f)
    <3>1. Same
      <4>1. CASE MakeChildren(f) \/ MapRace(f) \/ KeepChild(f) \/ LinkChild(f)
        BY <4>1 DEF MakeChildren, MapRace, KeepChild, LinkChild
      <4>2. CASE Lookup(f) \/ CreateChild(f) \/ Descend(f) \/ AddLock(f)
        BY <1>1, <4>2 DEF Lookup, CreateChild, Descend, AddLock, LocalOf, EInv
      <4> QED BY <2>4, <4>1, <4>2 DEF Insert
    <3>2. mapPc[f] \in In /\ mapPc'[f] \in In
      <4>1. CASE MakeChildren(f) \/ Lookup(f) \/ MapRace(f) \/ KeepChild(f)
        BY <2>1, <4>1 DEF MakeChildren, Lookup, MapRace, KeepChild, Goto
      <4>2. CASE CreateChild(f) \/ LinkChild(f) \/ Descend(f) \/ AddLock(f)
        BY <2>1, <4>2 DEF CreateChild, LinkChild, Descend, AddLock, Goto
      <4> QED BY <2>4, <4>1, <4>2 DEF Insert
    <3> QED BY <1>1, <3>1, <3>2 DEF LocalOf, Stored, InWord
  <2>5. CASE AddStore(f)
    <3>1. /\ mapPc[f] = "add" /\ mapPc'[f] = "scan"
          /\ DOMAIN local'[f] = DOMAIN local[f] /\ local'[f].word = local[f].word + 1
      BY <1>1, <2>1, <2>5 DEF AddStore, Goto, LocalOf, EInv
    <3>2. /\ (local[f].word + 1) - 1 = local[f].word /\ local[f].word + 1 \in Nat \ {0}
          /\ local[f].word + 1 <= Len(Content[f]) + 1
      BY <1>1, <2>1, <3>1, Contents DEF LocalOf, InWord
    <3> QED BY <1>1, <3>1, <3>2 DEF LocalOf, Stored, InWord
  <2> QED BY <2>2, <2>3, <2>4, <2>5 DEF Map
<1>5. \A g \in Files : LocalOf(g)' /\ Stored(g)' = Stored(g)
  BY <1>3, <1>4
<1> QED BY <1>1, <1>5, EmitKept

\* The store adds the mapper's word to its partition, and no other key.
LEMMA StoreEmit == ASSUME IInv, EInv, NEW f \in Files, EmitStore(f) PROVE EInv'
PROOF
<1> DEFINE w == local[f].word
           word == Word(f)
           p == MR_DefaultHashPartition(word)
           slice == KVMap[p]
<1>1. /\ mapPc[f] = "append" /\ mapPc' = [mapPc EXCEPT ![f] = "children"]
      /\ KVMap' = [KVMap EXCEPT ![p] = Append(local[f].seen, word)]
      /\ kvlock' = 0
      /\ local' = [local EXCEPT ![f].seen = << >>, ![f].node = 1, ![f].char = 1]
  BY DEF EmitStore, Goto
<1>2. /\ LocalOf(f) /\ f # 0 /\ kvlock = f /\ local[f].seen = slice
      /\ w \in Nat \ {0} /\ w <= Len(Content[f]) /\ word \in Keys
      /\ DOMAIN local = Files /\ DOMAIN mapPc = Files
  BY <1>1, Sizes, Contents DEF EInv, LocalOf, InWord, Slice, Word, IInv, Places
<1>3. p \in Partitions /\ slice \in Seq(Keys)
  <2>1. p \in Partitions
    BY <1>2, HashInRange DEF Keys
  <2> QED BY <2>1 DEF EInv
<1>4. /\ mapPc'[f] = "children" /\ \A g \in Files : g # f => mapPc'[g] = mapPc[g]
      /\ DOMAIN local' = Files /\ \A g \in Files : g # f => local'[g] = local[g]
      /\ DOMAIN local'[f] = DOMAIN local[f] /\ local'[f].word = w
  BY <1>1, <1>2 DEF LocalOf
<1>5. /\ KVMap' \in [Partitions -> Seq(Keys)]
      /\ KVMap'[p] = Append(slice, word)
      /\ \A q \in Partitions : q # p => KVMap'[q] = KVMap[q]
  <2>1. Append(slice, word) \in Seq(Keys)
    BY <1>2, <1>3
  <2> QED BY <1>1, <1>2, <1>3, <2>1 DEF EInv
<1>6. \A g \in Files : LocalOf(g)'
  <2> SUFFICES ASSUME NEW g \in Files PROVE LocalOf(g)'
    OBVIOUS
  <2>1. CASE g = f
    BY <1>2, <1>4, <2>1 DEF LocalOf, InWord
  <2>2. CASE g # f
    <3>1. LocalOf(g) /\ mapPc[g] # "append"
      BY <1>2, <2>2 DEF EInv, LocalOf
    <3> QED BY <1>4, <2>2, <3>1 DEF LocalOf
  <2> QED BY <2>1, <2>2
<1>7. /\ \A g \in Files : g # f => Stored(g)' = Stored(g)
      /\ Stored(f) = 1 .. w - 1 /\ Stored(f)' = 1 .. w
  BY <1>1, <1>4 DEF Stored
<1>8. Stored(f)' = Stored(f) \cup {w} /\ w \notin Stored(f) /\ Content[f][w] = word
  BY <1>2, <1>7 DEF Word
<1> HIDE DEF w, word, p, slice
<1>9. (UNION {{g} \X Stored(g) : g \in Files})'
         = (UNION {{g} \X Stored(g) : g \in Files}) \cup {<<f, w>>}
  <2> DEFINE All == UNION {{g} \X Stored(g) : g \in Files}
  <2>1. \A at : at \in All <=> \E g \in Files : \E n \in Stored(g) : at = <<g, n>>
    OBVIOUS
  <2>2. \A at : at \in All' <=> \E g \in Files : \E n \in Stored(g)' : at = <<g, n>>
    OBVIOUS
  <2> HIDE DEF All
  <2>3. \A at : at \in All' <=> at \in All \/ at = <<f, w>>
    BY <1>7, <1>8, <2>1, <2>2
  <2>4. All' = All \cup {<<f, w>>}
    BY <2>3
  <2> QED BY <2>4 DEF All
<1>10. ASSUME NEW key \in Keys
      PROVE  /\ IsFiniteSet(EmittedAt(key)')
             /\ Cardinality(KeptAt(key)') = Cardinality(EmittedAt(key)')
  <2>1. /\ IsFiniteSet(EmittedAt(key))
        /\ Cardinality(KeptAt(key)) = Cardinality(EmittedAt(key))
    BY DEF EInv
  <2>2. MR_DefaultHashPartition(key) \in Partitions /\ Slice(key) \in Seq(Keys)
    BY HashInRange DEF Keys, Slice, EInv
  <2>3. CASE key = word
    <3>1. EmittedAt(key)' = EmittedAt(key) \cup {<<f, w>>}
      <4> QED BY <1>8, <1>9, <2>3 DEF EmittedAt
    <3>2. <<f, w>> \notin EmittedAt(key)
      BY <1>8 DEF EmittedAt
    <3>3. Slice(key) = slice /\ Slice(key)' = Append(slice, word)
      BY <1>5, <2>3 DEF Slice, slice, p
    <3>4. Len(slice) \in Nat /\ DOMAIN slice = 1 .. Len(slice)
      BY <1>3
    <3>5. KeptAt(key)' = KeptAt(key) \cup {Len(slice) + 1} /\ Len(slice) + 1 \notin KeptAt(key)
      BY <1>3, <2>3, <3>3, <3>4 DEF KeptAt
    <3>6. IsFiniteSet(KeptAt(key))
      <4>1. IsFiniteSet(1 .. Len(slice)) /\ KeptAt(key) \subseteq 1 .. Len(slice)
        BY <3>3, <3>4, FS_Interval DEF KeptAt
      <4> QED BY <4>1, FS_Subset
    <3>7. /\ IsFiniteSet(EmittedAt(key) \cup {<<f, w>>})
          /\ Cardinality(EmittedAt(key) \cup {<<f, w>>}) = Cardinality(EmittedAt(key)) + 1
      BY <2>1, <3>2, FS_AddElement
    <3>8. Cardinality(KeptAt(key) \cup {Len(slice) + 1}) = Cardinality(KeptAt(key)) + 1
      BY <3>5, <3>6, FS_AddElement
    <3> QED BY <2>1, <3>1, <3>5, <3>7, <3>8
  <2>4. CASE key # word
    <3>1. EmittedAt(key)' = EmittedAt(key)
      <4> QED BY <1>8, <1>9, <2>4 DEF EmittedAt
    <3>2. KeptAt(key)' = KeptAt(key)
      <4>1. CASE MR_DefaultHashPartition(key) # p
        BY <1>5, <2>2, <4>1 DEF KeptAt, Slice
      <4>2. CASE MR_DefaultHashPartition(key) = p
        <5>1. Slice(key) = slice /\ Slice(key)' = Append(slice, word)
          BY <1>5, <4>2 DEF Slice, slice
        <5> QED BY <1>3, <2>4, <5>1 DEF KeptAt
      <4> QED BY <4>1, <4>2
    <3> QED BY <2>1, <3>1, <3>2
  <2> QED BY <2>3, <2>4
<1> QED BY <1>4, <1>5, <1>6, <1>10 DEF EInv

\* Starting a mapper, and the rest of the program, emit nothing.
LEMMA MainEmit == ASSUME IInv, EInv, Main PROVE EInv'
PROOF
<1>1. UNCHANGED <<local, kvlock, KVMap>>
  BY DEF Main, StartMapper, MappersStarted, MappersDone, StartReducer, ReducersStarted,
         ReducersDone, mapVars
<1>2. \A g \in Files : mapPc'[g] = mapPc[g] \/ (mapPc[g] \notin InWord /\ mapPc'[g] = "open")
  <2>1. CASE StartMapper
    <3>1. next \in Files /\ mapPc' = [mapPc EXCEPT ![next] = "open"] /\ mainPc = "start mappers"
      BY <2>1 DEF StartMapper
    <3>2. mapPc[next] = "unborn"
      <4>1. \A g \in Files : mapPc[g] = "unborn" <=> g >= next
        BY <3>1 DEF IInv, Mapping, Reducing
      <4>2. next \in Int
        BY <3>1, Sizes
      <4>3. mapPc[next] = "unborn" <=> next >= next
        BY <3>1, <4>1
      <4> QED BY <4>2, <4>3
    <3> QED BY <3>1, <3>2 DEF IInv, Places, InWord
  <2>2. CASE ~StartMapper
    BY <2>2 DEF Main, MappersStarted, MappersDone, StartReducer, ReducersStarted,
                ReducersDone, mapVars
  <2> QED BY <2>1, <2>2
<1>3. \A g \in Files : LocalOf(g)' /\ Stored(g)' = Stored(g)
  BY <1>1, <1>2 DEF EInv, LocalOf, Stored, InWord, Slice, Word
<1> QED BY <1>1, <1>3, EmitKept DEF EInv

\* EInv is inductive, with IInv.
LEMMA StepEmit == IInv /\ EInv /\ [Next]_vars => EInv'
PROOF
<1> SUFFICES ASSUME IInv, EInv, [Next]_vars PROVE EInv'
  OBVIOUS
<1>1. CASE Main
  BY <1>1, MainEmit
<1>2. ASSUME NEW f \in Files, Map(f) PROVE EInv'
  BY <1>2, WorkEmit, StoreEmit
<1>3. CASE (\E p \in Partitions : Reducer(p)) \/ UNCHANGED vars
  <2>1. UNCHANGED <<mapPc, local, kvlock, KVMap>>
    BY <1>3 DEF Reducer, mapVars, vars
  <2>2. \A g \in Files : LocalOf(g)' /\ Stored(g)' = Stored(g)
    BY <2>1 DEF EInv, LocalOf, Stored, Slice, Word
  <2> QED BY <2>1, <2>2, EmitKept DEF EInv
<1> QED BY <1>1, <1>2, <1>3 DEF Next

\* What is stored are words of the file.
LEMMA StoredWords ==
    ASSUME EInv, NEW f \in Files, NEW n \in Stored(f)
    PROVE  n \in Nat \ {0} /\ n <= Len(Content[f])
PROOF
<1>1. /\ LocalOf(f) /\ Len(Content[f]) \in Nat
      /\ local[f].word \in Nat \ {0} /\ local[f].word <= Len(Content[f]) + 1
  BY Contents DEF EInv, LocalOf
<1>2. CASE mapPc[f] \in InWord
  <2>1. local[f].word <= Len(Content[f])
    BY <1>1, <1>2 DEF LocalOf
  <2>2. n \in 1 .. local[f].word
    BY <1>1 DEF Stored
  <2> QED BY <1>1, <2>1, <2>2
<1>3. CASE mapPc[f] \notin InWord
  <2>1. n \in 1 .. local[f].word - 1
    BY <1>3 DEF Stored, InWord
  <2> QED BY <1>1, <2>1
<1> QED BY <1>2, <1>3

\* No append of another mapper makes a stored key disappear (MR_Emit, utils.go), for
\* any number of mappers, files, words and partitions.
THEOREM NothingLost == Spec => []NoEmitLost
PROOF
<1>1. EInv => NoEmitLost
  <2> SUFFICES ASSUME EInv, NEW f \in Files, NEW n \in Stored(f)
               PROVE  Cardinality(KeptAt(Content[f][n])) = Cardinality(EmittedAt(Content[f][n]))
    BY DEF NoEmitLost, KeptAt, EmittedAt, Slice
  <2>1. n \in Nat \ {0} /\ n <= Len(Content[f])
    BY StoredWords
  <2> QED BY <2>1, Contents DEF EInv
<1> QED BY <1>1, InitEmit, StepEmit, Invariance, PTL DEF Spec

-----------------------------------------------------------------------------
(* The reducers.                                                           *)

Awaited == {p \in Partitions : redPc[p] \in {"reduce", "done"}}

IsSeq(s) == \E S : s \in Seq(S)

\* How far the reducer of a partition is.
ReducerOf(p) ==
    /\ IsSeq(printed[p]) /\ redNext[p] = Len(printed[p]) + 1
    /\ redPc[p] = "unborn" => Len(printed[p]) = 0
    /\ redPc[p] # "unborn" => Len(printed[p]) <= Len(KVMap[p])
    /\ redPc[p] \in {"done", "gone"} => Len(printed[p]) = Len(KVMap[p])

RInv ==
    /\ DOMAIN printed = Partitions /\ DOMAIN redNext = Partitions
    /\ \A p \in Partitions : ReducerOf(p)
    /\ Reducing => wg = Cardinality(Awaited)
    /\ mainPc = "start reducers" =>
         /\ next \in 0 .. NumReducers
         /\ \A p \in Partitions : redPc[p] = "unborn" <=> p >= next
    /\ mainPc \in {"wait reducers", "returned"} => \A p \in Partitions : redPc[p] # "unborn"
    /\ mainPc = "returned" => \A p \in Partitions : redPc[p] = "gone"

\* Sets of partitions are finite.
LEMMA PartitionsFinite ==
    /\ NumReducers \in Nat \ {0}
    /\ \A p \in Partitions : p \in Int /\ 0 <= p /\ p < NumReducers
    /\ \A n \in Int : n \in Partitions <=> 0 <= n /\ n < NumReducers
    /\ IsFiniteSet(Partitions)
    /\ \A S \in SUBSET Partitions : IsFiniteSet(S) /\ Cardinality(S) \in Nat
PROOF
<1>1. NumReducers \in Nat \ {0}
  BY InputAssumption
<1>2. /\ \A p \in Partitions : p \in Int /\ 0 <= p /\ p < NumReducers
      /\ \A n \in Int : n \in Partitions <=> 0 <= n /\ n < NumReducers
  BY <1>1 DEF Partitions
<1>3. IsFiniteSet(Partitions)
  BY <1>1, FS_Interval DEF Partitions
<1> QED BY <1>1, <1>2, <1>3, FS_Subset, FS_CardinalityType

\* A report more.
LEMMA OneReport ==
    \A s, e : IsSeq(s) => IsSeq(Append(s, e)) /\ Len(Append(s, e)) = Len(s) + 1 /\ Len(s) \in Nat
PROOF
<1> SUFFICES ASSUME NEW s, NEW e, NEW S, s \in Seq(S)
             PROVE  IsSeq(Append(s, e)) /\ Len(Append(s, e)) = Len(s) + 1 /\ Len(s) \in Nat
  BY DEF IsSeq
<1>1. s \in Seq(S \cup {e}) /\ e \in S \cup {e}
  OBVIOUS
<1>2. Append(s, e) \in Seq(S \cup {e})
  BY <1>1
<1> QED BY <1>1, <1>2 DEF IsSeq

\* RInv holds at the start.
LEMMA InitReduce == Init => RInv
PROOF
<1> SUFFICES ASSUME Init PROVE RInv
  OBVIOUS
<1>1. IsSeq(<< >>) /\ Len(<< >>) = 0 /\ 1 = 0 + 1
  <2>1. << >> \in Seq({})
    OBVIOUS
  <2> QED BY <2>1 DEF IsSeq
<1>2. \A p \in Partitions : ReducerOf(p)
  <2>1. \A p \in Partitions : printed[p] = << >> /\ redNext[p] = 1 /\ redPc[p] = "unborn"
    BY DEF Init
  <2> QED BY <1>1, <2>1 DEF ReducerOf
<1>3. ~Reducing /\ mainPc = "start mappers"
  BY DEF Init, Reducing
<1> QED BY <1>2, <1>3 DEF Init, RInv

\* The mappers and their start find no reducer.
LEMMA MapReduceInv ==
    ASSUME IInv, RInv, StartMapper \/ MappersStarted \/ \E f \in Files : Map(f) /\ ~Die(f)
    PROVE  RInv'
PROOF
<1>1. /\ mainPc \in {"start mappers", "wait mappers"} /\ mainPc' \in {"start mappers", "wait mappers"}
      /\ UNCHANGED <<redPc, redNext, printed>>
      /\ \A p \in Partitions : redPc[p] = "unborn"
  <2>1. CASE StartMapper \/ MappersStarted
    BY <2>1 DEF StartMapper, MappersStarted, redVars, IInv, Mapping, Reducing
  <2>2. ASSUME NEW f \in Files, Map(f), ~Die(f)
        PROVE  Mapping /\ mainPc' = mainPc /\ UNCHANGED <<redPc, redNext, printed>>
    <3>1. mapPc[f] # "gone"
      <4>1. CASE Open(f) \/ OpenFails(f) \/ Scan(f) \/ EmitLock(f) \/ EmitStore(f)
                   \/ ReleaseMapper(f) \/ MapperDone(f)
        BY <4>1 DEF Open, OpenFails, Scan, EmitLock, EmitStore, ReleaseMapper, MapperDone, Goto
      <4>2. CASE Insert(f)
        BY <4>2 DEF Insert, MakeChildren, Lookup, MapRace, KeepChild, CreateChild, LinkChild,
                    Descend, AddLock, AddStore, Goto
      <4> QED BY <2>2, <4>1, <4>2 DEF Map
    <3> QED BY <2>2, <3>1 DEF Map, mainVars, redVars, IInv, Reducing
  <2> QED BY <2>1, <2>2 DEF Mapping
<1>2. \A p \in Partitions : ReducerOf(p)'
  BY <1>1 DEF RInv, ReducerOf
<1>3. ~Reducing'
  BY <1>1 DEF Reducing
<1> QED BY <1>1, <1>2, <1>3 DEF RInv

\* The reducers are started from 0 on.
LEMMA TurnReduce == ASSUME IInv, RInv, MappersDone PROVE RInv'
PROOF
<1>1. /\ mainPc' = "start reducers" /\ next' = 0 /\ wg' = 0 /\ Mapping
      /\ UNCHANGED <<KVMap, redPc, redNext, printed>>
  BY DEF MappersDone, WaitOver, mapVars, redVars, IInv, Reducing
<1>2. \A p \in Partitions : redPc[p] = "unborn" /\ p >= 0
  BY <1>1, PartitionsFinite DEF Mapping
<1>3. Awaited' = {} /\ 0 \in 0 .. NumReducers
  <2>1. NumReducers \in Nat
    BY PartitionsFinite
  <2>2. 0 \in 0 .. NumReducers
    BY <2>1
  <2> QED BY <1>1, <1>2, <2>2 DEF Awaited
<1>4. \A p \in Partitions : ReducerOf(p)'
  BY <1>1 DEF RInv, ReducerOf
<1> QED BY <1>1, <1>2, <1>3, <1>4, FS_EmptySet DEF RInv

\* MRRun starts a reducer.
LEMMA StartReduce == ASSUME IInv, RInv, EInv, StartReducer PROVE RInv'
PROOF
<1>1. /\ mainPc = "start reducers" /\ mainPc' = mainPc /\ next \in Partitions
      /\ wg' = wg + 1 /\ next' = next + 1 /\ redPc' = [redPc EXCEPT ![next] = "reduce"]
      /\ UNCHANGED <<KVMap, redNext, printed, mapPc>>
  BY DEF StartReducer, Started, mapVars
<1>2. Reducing /\ redPc \in [Partitions -> {"unborn", "reduce", "done", "gone"}]
  BY <1>1 DEF IInv, Mapping, Places
<1>3. /\ next \in Int /\ 0 <= next /\ next < NumReducers /\ NumReducers \in Nat
      /\ next' = next + 1
  BY <1>1, PartitionsFinite
<1>4. redPc[next] = "unborn"
  <2>1. redPc[next] = "unborn" <=> next >= next
    BY <1>1 DEF RInv
  <2> QED BY <1>3, <2>1
<1>5. redPc'[next] = "reduce" /\ \A p \in Partitions : p # next => redPc'[p] = redPc[p]
  BY <1>1, <1>2
<1>6. Awaited' = Awaited \cup {next} /\ next \notin Awaited
  BY <1>1, <1>4, <1>5 DEF Awaited
<1>7. wg' = Cardinality(Awaited')
  <2>1. IsFiniteSet(Awaited) /\ Cardinality(Awaited) \in Nat
    BY PartitionsFinite DEF Awaited
  <2>2. Cardinality(Awaited') = Cardinality(Awaited) + 1
    BY <1>6, <2>1, FS_AddElement
  <2> QED BY <1>1, <1>2, <2>2 DEF RInv
<1>8. \A p \in Partitions : ReducerOf(p)'
  <2> SUFFICES ASSUME NEW p \in Partitions PROVE ReducerOf(p)'
    OBVIOUS
  <2>1. ReducerOf(p) /\ KVMap[p] \in Seq(Keys)
    BY DEF RInv, EInv
  <2>2. CASE p = next
    <3>1. Len(printed[p]) = 0 /\ 0 <= Len(KVMap[p])
      BY <1>4, <2>1, <2>2 DEF ReducerOf
    <3> QED BY <1>1, <1>5, <2>1, <2>2, <3>1 DEF ReducerOf
  <2>3. CASE p # next
    BY <1>1, <1>5, <2>1, <2>3 DEF ReducerOf
  <2> QED BY <2>2, <2>3
<1>9. next' \in 0 .. NumReducers
  BY <1>3
<1>10. \A p \in Partitions : redPc'[p] = "unborn" <=> p >= next'
  <2> SUFFICES ASSUME NEW p \in Partitions PROVE redPc'[p] = "unborn" <=> p >= next'
    OBVIOUS
  <2>1. p \in Int /\ (redPc[p] = "unborn" <=> p >= next)
    BY <1>1, PartitionsFinite DEF RInv
  <2>2. CASE p = next
    <3>1. ~(p >= next')
      BY <1>3, <2>2
    <3> QED BY <1>5, <2>2, <3>1
  <2>3. CASE p # next
    <3>1. p >= next' <=> p >= next
      BY <1>3, <2>1, <2>3
    <3> QED BY <1>5, <2>1, <2>3, <3>1
  <2> QED BY <2>2, <2>3
<1> QED BY <1>1, <1>7, <1>8, <1>9, <1>10 DEF RInv

\* main returns when the wait group is empty, which is when every reducer is gone.
LEMMA WaitReduce == ASSUME IInv, RInv, ReducersStarted \/ ReducersDone PROVE RInv'
PROOF
<1>1. /\ mainPc \in {"start reducers", "wait reducers"}
      /\ UNCHANGED <<next, wg, KVMap, mapPc, redPc, redNext, printed>>
  BY DEF ReducersStarted, ReducersDone, pool, mapVars, redVars
<1>2. /\ \A p \in Partitions : ReducerOf(p)'
      /\ Awaited' = Awaited
      /\ wg = Cardinality(Awaited)
  BY <1>1 DEF RInv, ReducerOf, Awaited, IInv, Mapping
<1>3. CASE ReducersStarted
  <2>1. mainPc = "start reducers" /\ next \notin Partitions /\ mainPc' = "wait reducers"
    BY <1>3 DEF ReducersStarted
  <2>2. next \in Int /\ ~(next < NumReducers)
    <3>1. next \in 0 .. NumReducers /\ NumReducers \in Nat
      BY <2>1, PartitionsFinite DEF RInv
    <3>2. next \notin 0 .. NumReducers - 1
      BY <2>1 DEF Partitions
    <3> QED BY <3>1, <3>2
  <2>3. \A p \in Partitions : redPc[p] # "unborn"
    <3> SUFFICES ASSUME NEW p \in Partitions PROVE ~(p >= next)
      BY <2>1 DEF RInv
    <3>1. p \in Int /\ p < NumReducers /\ NumReducers \in Int
      BY PartitionsFinite
    <3> QED BY <2>2, <3>1
  <2> QED BY <1>1, <1>2, <2>1, <2>3 DEF RInv
<1>4. CASE ReducersDone
  <2>1. mainPc = "wait reducers" /\ wg = 0 /\ mainPc' = "returned"
    BY <1>4 DEF ReducersDone, WaitOver
  <2>2. Awaited = {}
    <3>1. IsFiniteSet(Awaited)
      BY PartitionsFinite DEF Awaited
    <3> QED BY <1>2, <2>1, <3>1, FS_EmptySet
  <2>3. \A p \in Partitions : redPc[p] = "gone"
    BY <2>1, <2>2 DEF RInv, Awaited, IInv, Places
  <2> QED BY <1>1, <1>2, <2>1, <2>3 DEF RInv
<1> QED BY <1>3, <1>4

\* A reducer reports its keys one by one, gives its token back and calls Done.
LEMMA ReducerReduce == ASSUME IInv, RInv, EInv, NEW p \in Partitions, Reducer(p) PROVE RInv'
PROOF
<1>1. /\ UNCHANGED <<mainPc, next, KVMap, mapPc>>
      /\ redPc[p] \in {"reduce", "done"}
      /\ DOMAIN printed = Partitions /\ DOMAIN redNext = Partitions
      /\ redPc \in [Partitions -> {"unborn", "reduce", "done", "gone"}]
  BY DEF Reducer, Reduce, ReleaseReducer, ReducerDone, mainVars, mapVars, RInv, IInv, Places
<1>2. Reducing /\ mainPc # "returned" /\ wg = Cardinality(Awaited)
  BY <1>1 DEF RInv, IInv, Mapping
<1>3. ReducerOf(p) /\ Len(KVMap[p]) \in Nat /\ Len(printed[p]) \in Nat
  <2>1. KVMap[p] \in Seq(Keys) /\ ReducerOf(p)
    BY DEF RInv, EInv
  <2> QED BY <2>1, OneReport DEF ReducerOf
<1>4. CASE Reduce(p)
  <2>1. PICK e : printed' = [printed EXCEPT ![p] = Append(@, e)]
    BY <1>4 DEF Reduce
  <2>2. /\ redPc[p] = "reduce" /\ redNext[p] <= Len(KVMap[p]) /\ redPc' = redPc /\ wg' = wg
        /\ redNext' = [redNext EXCEPT ![p] = @ + 1]
    BY <1>4 DEF Reduce, pool
  <2>3. /\ printed'[p] = Append(printed[p], e) /\ redNext'[p] = redNext[p] + 1
        /\ \A q \in Partitions : q # p => printed'[q] = printed[q] /\ redNext'[q] = redNext[q]
        /\ DOMAIN printed' = Partitions /\ DOMAIN redNext' = Partitions
    BY <1>1, <2>1, <2>2
  <2>4. IsSeq(printed'[p]) /\ Len(printed'[p]) = Len(printed[p]) + 1
    BY <1>3, <2>3, OneReport DEF ReducerOf
  <2>5. ReducerOf(p)'
    BY <1>1, <1>3, <2>2, <2>3, <2>4 DEF ReducerOf
  <2>6. \A q \in Partitions : q # p => ReducerOf(q)'
    BY <1>1, <2>2, <2>3 DEF RInv, ReducerOf
  <2> QED BY <1>1, <2>2, <2>3, <2>5, <2>6 DEF RInv, Awaited, Reducing
<1>5. CASE ReleaseReducer(p)
  <2>1. /\ redPc[p] = "reduce" /\ redNext[p] > Len(KVMap[p])
        /\ redPc' = [redPc EXCEPT ![p] = "done"]
        /\ UNCHANGED <<wg, redNext, printed>>
    BY <1>5 DEF ReleaseReducer
  <2>2. redPc'[p] = "done" /\ \A q \in Partitions : q # p => redPc'[q] = redPc[q]
    BY <1>1, <2>1
  <2>3. Awaited' = Awaited
    BY <2>1, <2>2 DEF Awaited
  <2>4. Len(printed[p]) = Len(KVMap[p])
    BY <1>3, <2>1 DEF ReducerOf
  <2>5. \A q \in Partitions : ReducerOf(q)'
    BY <1>1, <1>3, <2>1, <2>2, <2>4 DEF RInv, ReducerOf
  <2>6. \A q \in Partitions : redPc'[q] = "unborn" <=> redPc[q] = "unborn"
    BY <2>1, <2>2
  <2> QED BY <1>1, <1>2, <2>1, <2>3, <2>5, <2>6 DEF RInv, Reducing
<1>6. CASE ReducerDone(p)
  <2>1. /\ redPc[p] = "done" /\ wg' = wg - 1 /\ redPc' = [redPc EXCEPT ![p] = "gone"]
        /\ UNCHANGED <<redNext, printed>>
    BY <1>6 DEF ReducerDone
  <2>2. redPc'[p] = "gone" /\ \A q \in Partitions : q # p => redPc'[q] = redPc[q]
    BY <1>1, <2>1
  <2>3. Awaited' = Awaited \ {p} /\ p \in Awaited
    BY <2>1, <2>2 DEF Awaited
  <2>4. wg' = Cardinality(Awaited')
    <3>1. IsFiniteSet(Awaited)
      BY PartitionsFinite DEF Awaited
    <3>2. Cardinality(Awaited') = Cardinality(Awaited) - 1
      BY <2>3, <3>1, FS_RemoveElement
    <3> QED BY <1>2, <2>1, <3>2
  <2>5. \A q \in Partitions : ReducerOf(q)'
    BY <1>1, <1>3, <2>1, <2>2 DEF RInv, ReducerOf
  <2>6. \A q \in Partitions : redPc'[q] = "unborn" <=> redPc[q] = "unborn"
    BY <2>1, <2>2
  <2> QED BY <1>1, <1>2, <2>1, <2>4, <2>5, <2>6 DEF RInv, Reducing
<1> QED BY <1>4, <1>5, <1>6 DEF Reducer

\* RInv is inductive, with IInv and EInv.
LEMMA StepReduce == IInv /\ EInv /\ RInv /\ [Next]_vars => RInv'
PROOF
<1> SUFFICES ASSUME IInv, EInv, RInv, [Next]_vars PROVE RInv'
  OBVIOUS
<1>1. CASE Main
  BY <1>1, MapReduceInv, TurnReduce, StartReduce, WaitReduce DEF Main
<1>2. ASSUME NEW f \in Files, Map(f) PROVE RInv'
  <2>1. CASE Die(f)
    BY <1>2, <2>1 DEF Map, Die, mainVars, pool, mapVars, redVars, RInv, ReducerOf, Awaited, Reducing
  <2>2. CASE ~Die(f)
    BY <1>2, <2>2, MapReduceInv
  <2> QED BY <2>1, <2>2
<1>3. ASSUME NEW p \in Partitions, Reducer(p) PROVE RInv'
  BY <1>3, ReducerReduce
<1>4. CASE UNCHANGED vars
  BY <1>4 DEF vars, RInv, ReducerOf, Awaited, Reducing
<1> QED BY <1>1, <1>2, <1>3, <1>4 DEF Next

\* MRRun returns when each reducer has reported every key of its partition
\* (utils.go:99-113): the wait group of the reducers is never empty too early.
THEOREM ReducedWhenReturned == Spec => []ReturnsLast
PROOF
<1>1. RInv => ReturnsLast
  BY DEF RInv, ReducerOf, ReturnsLast
<1> QED BY <1>1, InitEmit, StepEmit, InitReduce, StepReduce, Invariance, PTL DEF Spec

-----------------------------------------------------------------------------
(* The trie.                                                               *)

\* The words that no two files contest for.
Safe(key) == \A f, g \in Files : f # g => key[1] \notin First(f) \cap First(g)

\* Where a mapper is in Insert.
Inserting == {"children", "lookup", "create", "write", "descend", "add"}
Nodes == 1 .. Len(Trie)

\* A node that has been created and not yet been linked.
Fresh(n) == \E f \in Files : mapPc[f] = "write" /\ local[f].child = n

\* The occurrences of a word that Insert has counted.
AddedAt(key) ==
    {at \in UNION {{f} \X (1 .. local[f].word - 1) : f \in Files} :
       Content[at[1]][at[2]] = key}

\* path gives the key of each node: a child's is its parent's with one rune more.
\* Of a safe key there is one node, and once linked it can be reached.
Tree(path) ==
    /\ IsSeq(Trie) /\ 1 \in Nodes
    /\ \A n \in Nodes : /\ DOMAIN Trie[n] = {"made", "Children", "IsEnd", "Value"}
                        /\ Trie[n].made \in BOOLEAN
    /\ path \in [Nodes -> Keys]
    /\ \A n \in Nodes : path[n] = << >> <=> n = 1
    /\ \A n \in Nodes : \A c \in Nat :
         Child(n, c) # 0 => /\ Child(n, c) \in Nodes /\ ~Fresh(n) /\ Trie[n].made
                            /\ path[Child(n, c)] = Append(path[n], c)
    /\ \A m, n \in Nodes : m # 1 /\ path[m] = path[n] /\ Safe(path[n]) => m = n
    /\ \A n \in Nodes : n # 1 /\ Safe(path[n]) =>
         \/ Fresh(n)
         \/ \E m \in Nodes : \E c \in Nat : /\ path[n] = Append(path[m], c)
                                            /\ Child(m, c) = n

\* The values of the nodes.
Values(path) ==
    /\ \A n \in Nodes :
         /\ Trie[n].Value \in Nat /\ Trie[n].IsEnd \in BOOLEAN
         /\ Trie[n].IsEnd => ~Fresh(n)
         /\ ~Trie[n].IsEnd => Trie[n].Value = 0
         /\ Trie[n].Value <= Cardinality(AddedAt(path[n]))
         /\ Trie[n].IsEnd /\ Safe(path[n]) => Trie[n].Value = Cardinality(AddedAt(path[n]))
    /\ \A w \in Words : Safe(w) /\ AddedAt(w) # {} =>
         \E n \in Nodes : path[n] = w /\ Trie[n].IsEnd

\* A mapper in Insert: its node is that of the runes it has passed.
Insertion(f, path) ==
    LET node == local[f].node  child == local[f].child  char == local[f].char
    IN  /\ node \in Nodes
        /\ mapPc[f] # "children" => ~Fresh(node)
        /\ char \in 1 .. Len(Word(f)) + 1
        /\ path[node] = SubSeq(Word(f), 1, char - 1)
        /\ mapPc[f] \in {"lookup", "create", "write", "descend"} =>
             char <= Len(Word(f)) /\ Trie[node].made
        /\ mapPc[f] = "create" =>
             /\ child # 0 => \/ Child(node, Rune(f)) # 0
                             \/ \E g \in Writers(node) : Rune(g) = Rune(f)
             /\ child = 0 /\ Safe(Word(f)) => Child(node, Rune(f)) = 0
        /\ mapPc[f] = "write" =>
             /\ child \in Nodes /\ path[child] = Append(path[node], Rune(f))
             /\ Safe(Word(f)) => Child(node, Rune(f)) = 0
        /\ mapPc[f] = "descend" => Child(node, Rune(f)) # 0
        /\ mapPc[f] = "add" =>
             char = Len(Word(f)) + 1 /\ local[f].old = Trie[node].Value

\* What holds of a mapper wherever it is.
Mapper(f) ==
    /\ mapPc[f] \in {"write", "add"} => trieMutex = f
    /\ mapPc[f] \in {"unborn", "open"} => local[f].word = 1
    /\ mapPc[f] \in {"release", "done", "gone"} =>
         f \in Lost \/ local[f].word = Len(Content[f]) + 1
    /\ f \in Lost => local[f].word = 1 /\ mapPc[f] \in {"release", "done", "gone"}

\* The partitions hold words of their own, and the reports are of them.
PInv ==
    \A p \in Partitions :
      /\ \A k \in DOMAIN KVMap[p] : /\ KVMap[p][k] \in Words
                                    /\ MR_DefaultHashPartition(KVMap[p][k]) = p
      /\ \A k \in DOMAIN printed[p] : printed[p][k].key = KVMap[p][k]

\* The nodes, the mappers in Insert and the keys of the nodes.
Whole(path) ==
    /\ Tree(path) /\ Values(path)
    /\ \A f \in Files : mapPc[f] \in Inserting => Insertion(f, path)

WInv == (\A f \in Files : Mapper(f)) /\ \E path : Whole(path)

\* Sequences of the same elements are the same.
LEMMA SameSeq ==
    ASSUME NEW S, NEW a \in Seq(S), NEW b \in Seq(S), Len(a) = Len(b),
           \A i \in 1 .. Len(a) : a[i] = b[i]
    PROVE  a = b
PROOF OBVIOUS

\* Prefixes of a key.
LEMMA Prefixes ==
    ASSUME NEW s \in Keys
    PROVE  /\ Len(s) \in Nat /\ SubSeq(s, 1, 0) = << >> /\ SubSeq(s, 1, Len(s)) = s
           /\ \A k \in 1 .. Len(s) : /\ SubSeq(s, 1, k) = Append(SubSeq(s, 1, k - 1), s[k])
                                     /\ s[k] \in Nat
           /\ \A k \in 0 .. Len(s) : SubSeq(s, 1, k) \in Keys /\ Len(SubSeq(s, 1, k)) = k
PROOF
<1>1. Len(s) \in Nat /\ SubSeq(s, 1, 0) = << >> /\ SubSeq(s, 1, Len(s)) = s
  BY DEF Keys
<1>2. \A k \in 0 .. Len(s) : SubSeq(s, 1, k) \in Keys /\ Len(SubSeq(s, 1, k)) = k
  BY DEF Keys
<1>3. ASSUME NEW k \in 1 .. Len(s)
      PROVE  SubSeq(s, 1, k) = Append(SubSeq(s, 1, k - 1), s[k]) /\ s[k] \in Nat
  <2>1. s[k] \in Nat /\ k \in Nat /\ k - 1 \in 0 .. Len(s) /\ k \in 0 .. Len(s)
    BY <1>1 DEF Keys
  <2> DEFINE a == SubSeq(s, 1, k)
             b == SubSeq(s, 1, k - 1)
  <2>2. a \in Seq(Nat) /\ Len(a) = k /\ b \in Seq(Nat) /\ Len(b) = k - 1
    BY <1>2, <2>1 DEF Keys
  <2>3. /\ \A i \in 1 .. k : a[i] = s[i]
        /\ \A i \in 1 .. k - 1 : b[i] = s[i]
    BY <2>1 DEF Keys
  <2> HIDE DEF a, b
  <2>4. Append(b, s[k]) \in Seq(Nat) /\ Len(Append(b, s[k])) = k
    BY <2>1, <2>2
  <2>5. ASSUME NEW i \in 1 .. k PROVE Append(b, s[k])[i] = a[i]
    <3>1. Append(b, s[k])[k] = s[k]
      BY <2>1, <2>2
    <3>2. i # k => i \in 1 .. k - 1
      BY <2>1
    <3>3. i # k => Append(b, s[k])[i] = b[i]
      BY <2>1, <2>2, <3>2
    <3> QED BY <2>3, <3>1, <3>2, <3>3
  <2>6. a = Append(b, s[k])
    BY <2>2, <2>4, <2>5, SameSeq
  <2> QED BY <2>1, <2>6 DEF a, b
<1> QED BY <1>1, <1>2, <1>3

\* One rune more.
LEMMA OneRune ==
    ASSUME NEW s \in Keys, NEW c \in Nat
    PROVE  /\ Len(s) \in Nat /\ Append(s, c) \in Keys /\ Len(Append(s, c)) = Len(s) + 1
           /\ Append(s, c)[Len(s) + 1] = c /\ \A i \in 1 .. Len(s) : Append(s, c)[i] = s[i]
           /\ Append(s, c) # << >>
           /\ Append(s, c)[1] = IF s = << >> THEN c ELSE s[1]
PROOF
<1>1. /\ Len(s) \in Nat /\ Append(s, c) \in Keys /\ Len(Append(s, c)) = Len(s) + 1
      /\ Append(s, c)[Len(s) + 1] = c /\ \A i \in 1 .. Len(s) : Append(s, c)[i] = s[i]
  BY DEF Keys
<1>2. s = << >> => Len(s) = 0
  OBVIOUS
<1>3. s # << >> => 1 \in 1 .. Len(s)
  <2>1. Len(s) = 0 => s = << >>
    BY SameSeq DEF Keys
  <2> QED BY <1>1, <2>1
<1>4. Append(s, c) # << >>
  BY <1>1
<1>5. Append(s, c)[1] = IF s = << >> THEN c ELSE s[1]
  BY <1>1, <1>2, <1>3
<1> HIDE DEF Keys
<1> QED BY <1>1, <1>4, <1>5

\* Keys with one rune more are the same when the keys and the runes are.
LEMMA SameRunes ==
    \A s, t, c, d : s \in Keys /\ t \in Keys /\ c \in Nat /\ d \in Nat /\ Append(s, c) = Append(t, d)
                    => s = t /\ c = d
PROOF
<1>0. SUFFICES ASSUME NEW s \in Keys, NEW t \in Keys, NEW c \in Nat, NEW d \in Nat,
                      Append(s, c) = Append(t, d)
               PROVE  s = t /\ c = d
  OBVIOUS
<1>1. /\ Len(s) \in Nat /\ Len(Append(s, c)) = Len(s) + 1 /\ Append(s, c)[Len(s) + 1] = c
      /\ \A i \in 1 .. Len(s) : Append(s, c)[i] = s[i]
  BY OneRune
<1>2. /\ Len(t) \in Nat /\ Len(Append(t, d)) = Len(t) + 1 /\ Append(t, d)[Len(t) + 1] = d
      /\ \A i \in 1 .. Len(t) : Append(t, d)[i] = t[i]
  BY OneRune
<1>3. Len(s) = Len(t)
  BY <1>0, <1>1, <1>2
<1>4. \A i \in 1 .. Len(s) : s[i] = t[i]
  BY <1>0, <1>1, <1>2, <1>3
<1>5. c = d
  BY <1>0, <1>1, <1>2, <1>3
<1>6. s = t
  BY <1>3, <1>4, SameSeq DEF Keys
<1> QED BY <1>5, <1>6

\* The word a mapper is at.
LEMMA WordOf ==
    ASSUME EInv, NEW f \in Files, mapPc[f] \in InWord
    PROVE  /\ Word(f) \in Words /\ Word(f) \in Keys /\ Word(f) # << >>
           /\ Word(f)[1] \in First(f) /\ Len(Word(f)) \in Nat \ {0}
           /\ local[f].word \in DOMAIN Content[f]
PROOF
<1> DEFINE n == local[f].word
<1>1. n \in Nat \ {0} /\ n <= Len(Content[f])
  BY DEF EInv, LocalOf
<1>2. Content[f] \in Seq(Seq(Nat) \ {<< >>})
  BY InputAssumption
<1>3. n \in DOMAIN Content[f] /\ Content[f][n] \in Seq(Nat) \ {<< >>}
  BY <1>1, <1>2
<1>4. Word(f) = Content[f][n]
  BY DEF Word
<1>5. Len(Word(f)) \in Nat /\ Len(Word(f)) # 0
  BY <1>3, <1>4
<1> QED BY <1>3, <1>4, <1>5 DEF Words, First, Keys

\* No two mappers are at words that start alike, if one of them is safe.
LEMMA Owner ==
    ASSUME EInv, NEW f \in Files, NEW g \in Files, f # g, mapPc[f] \in InWord,
           mapPc[g] \in InWord, Safe(Word(f))
    PROVE  Word(f)[1] # Word(g)[1]
PROOF BY WordOf DEF Safe

\* The key of the node that a mapper goes to next.
LEMMA NextRune ==
    ASSUME EInv, NEW path, NEW f \in Files, mapPc[f] \in Inserting, Insertion(f, path),
           local[f].char <= Len(Word(f))
    PROVE  /\ Rune(f) \in Nat /\ local[f].char \in 1 .. Len(Word(f))
           /\ path[local[f].node] \in Keys
           /\ Len(path[local[f].node]) = local[f].char - 1
           /\ Append(path[local[f].node], Rune(f)) = SubSeq(Word(f), 1, local[f].char)
           /\ Append(path[local[f].node], Rune(f))[1] = Word(f)[1]
           /\ Safe(Append(path[local[f].node], Rune(f))) <=> Safe(Word(f))
PROOF
<1> DEFINE k == local[f].char
           p == path[local[f].node]
<1>1. Word(f) \in Keys /\ Word(f) # << >> /\ Len(Word(f)) \in Nat \ {0}
  BY WordOf DEF Inserting, InWord
<1>2. k \in 1 .. Len(Word(f)) /\ k - 1 \in 0 .. Len(Word(f))
  BY <1>1 DEF Insertion
<1>3. p = SubSeq(Word(f), 1, k - 1)
  BY DEF Insertion
<1>4. Rune(f) = Word(f)[k]
  BY DEF Rune
<1>5. Rune(f) \in Nat /\ p \in Keys /\ Len(p) = k - 1 /\ Append(p, Rune(f)) = SubSeq(Word(f), 1, k)
  <2> DEFINE w == Word(f)
  <2>1. w \in Keys
    BY <1>1
  <2>2. k \in 1 .. Len(w) /\ k - 1 \in 0 .. Len(w)
    BY <1>2
  <2>3. Rune(f) = w[k] /\ p = SubSeq(w, 1, k - 1)
    BY <1>3, <1>4
  <2> HIDE DEF w, p, k
  <2>4. /\ SubSeq(w, 1, k) = Append(SubSeq(w, 1, k - 1), w[k]) /\ w[k] \in Nat
        /\ SubSeq(w, 1, k - 1) \in Keys /\ Len(SubSeq(w, 1, k - 1)) = k - 1
    BY <2>1, <2>2, Prefixes
  <2> QED BY <2>3, <2>4 DEF w
<1>6. Append(p, Rune(f))[1] = Word(f)[1]
  <2>1. SubSeq(Word(f), 1, k)[1] = Word(f)[1]
    BY <1>1, <1>2 DEF Keys
  <2> QED BY <1>5, <2>1
<1> QED BY <1>2, <1>5, <1>6 DEF Safe

\* A step that links no node keeps the tree.
LEMMA TreeKept ==
    ASSUME NEW path, Tree(path), IsSeq(Trie'), Len(Trie') = Len(Trie),
           \A n \in Nodes : /\ DOMAIN Trie'[n] = DOMAIN Trie[n]
                            /\ Trie'[n].made \in BOOLEAN
                            /\ Trie[n].made => Trie'[n].made
                            /\ Fresh(n)' <=> Fresh(n)
                            /\ \A c \in Nat : Child(n, c)' = Child(n, c)
    PROVE  Tree(path)'
PROOF
<1>1. Nodes' = Nodes
  BY DEF Nodes
<1>2. \A n \in Nodes : \A c \in Nat :
         Child(n, c)' # 0 => /\ Child(n, c)' \in Nodes /\ ~Fresh(n)' /\ Trie'[n].made
                             /\ path[Child(n, c)'] = Append(path[n], c)
  BY DEF Tree
<1>3. \A n \in Nodes : n # 1 /\ Safe(path[n]) =>
         \/ Fresh(n)'
         \/ \E m \in Nodes : \E c \in Nat : /\ path[n] = Append(path[m], c)
                                            /\ Child(m, c)' = n
  BY DEF Tree
<1> QED BY <1>1, <1>2, <1>3 DEF Tree, Safe

\* A step that counts nothing keeps the values.
LEMMA ValuesKept ==
    ASSUME NEW path, Values(path), Len(Trie') = Len(Trie),
           \A n \in Nodes : /\ Trie'[n].Value = Trie[n].Value
                            /\ Trie'[n].IsEnd = Trie[n].IsEnd
                            /\ Fresh(n)' => Fresh(n),
           \A key : AddedAt(key)' = AddedAt(key)
    PROVE  Values(path)'
PROOF
<1>1. Nodes' = Nodes
  BY DEF Nodes
<1> QED BY <1>1 DEF Values, Safe

\* A mapper's node is as it was.
LEMMA InsertionKept ==
    ASSUME NEW path, NEW g \in Files, Insertion(g, path), Nodes \subseteq Nodes',
           local'[g] = local[g], mapPc'[g] = mapPc[g],
           Fresh(local[g].node)' => Fresh(local[g].node),
           Trie[local[g].node].made => Trie'[local[g].node].made,
           local[g].char <= Len(Word(g)) =>
             Child(local[g].node, Rune(g))' = Child(local[g].node, Rune(g)),
           mapPc[g] = "add" => Trie'[local[g].node].Value = Trie[local[g].node].Value,
           Writers(local[g].node)' = Writers(local[g].node),
           \A h \in Writers(local[g].node) : local'[h] = local[h]
    PROVE  Insertion(g, path)'
PROOF
<1>1. Word(g)' = Word(g) /\ Rune(g)' = Rune(g)
  BY DEF Word, Rune
<1>2. \A h \in Writers(local[g].node) : Rune(h)' = Rune(h)
  BY DEF Word, Rune
<1> DEFINE node == local[g].node  child == local[g].child  char == local[g].char
<1>3. /\ node \in Nodes' /\ char \in 1 .. Len(Word(g)) + 1
      /\ mapPc[g] # "children" => ~Fresh(node)'
      /\ path[node] = SubSeq(Word(g), 1, char - 1)
  BY DEF Insertion
<1>4. mapPc[g] \in {"lookup", "create", "write", "descend"} =>
         /\ char <= Len(Word(g)) /\ Trie'[node].made
         /\ Child(node, Rune(g))' = Child(node, Rune(g))
  BY DEF Insertion
<1>5. mapPc[g] = "create" =>
         /\ child # 0 => \/ Child(node, Rune(g))' # 0
                         \/ \E h \in Writers(node)' : Rune(h)' = Rune(g)
         /\ child = 0 /\ Safe(Word(g)) => Child(node, Rune(g))' = 0
  BY <1>2, <1>4 DEF Insertion
<1>6. mapPc[g] = "write" =>
         /\ child \in Nodes' /\ path[child] = Append(path[node], Rune(g))
         /\ Safe(Word(g)) => Child(node, Rune(g))' = 0
  BY <1>4 DEF Insertion
<1>7. mapPc[g] = "descend" => Child(node, Rune(g))' # 0
  BY <1>4 DEF Insertion
<1>8. mapPc[g] = "add" => char = Len(Word(g)) + 1 /\ local[g].old = Trie'[node].Value
  BY DEF Insertion
<1> QED BY <1>1, <1>3, <1>4, <1>5, <1>6, <1>7, <1>8 DEF Insertion, Safe

\* What the others see of a mapper's step.
Alone(f) ==
    /\ DOMAIN mapPc' = Files /\ DOMAIN local' = Files
    /\ \A g \in Files : g # f => mapPc'[g] = mapPc[g] /\ local'[g] = local[g]

\* A step of a mapper is seen by no other.
LEMMA MapAlone == ASSUME IInv, EInv, NEW f \in Files, Map(f) PROVE Alone(f)
PROOF
<1>1. DOMAIN mapPc = Files /\ DOMAIN local = Files
  BY DEF IInv, Places, EInv
<1>2. CASE Open(f) \/ OpenFails(f) \/ Scan(f) \/ EmitLock(f) \/ EmitStore(f)
           \/ ReleaseMapper(f) \/ MapperDone(f) \/ Die(f)
  BY <1>1, <1>2 DEF Alone, Open, OpenFails, Scan, EmitLock, EmitStore, ReleaseMapper, MapperDone,
                    Die, Goto, mapVars
<1>3. CASE MakeChildren(f) \/ Lookup(f) \/ MapRace(f) \/ KeepChild(f) \/ CreateChild(f)
  BY <1>1, <1>3 DEF Alone, MakeChildren, Lookup, MapRace, KeepChild, CreateChild, Goto
<1>4. CASE LinkChild(f) \/ Descend(f) \/ AddLock(f) \/ AddStore(f)
  BY <1>1, <1>4 DEF Alone, LinkChild, Descend, AddLock, AddStore, Goto
<1> QED BY <1>2, <1>3, <1>4 DEF Map, Insert

\* What a file's goroutine finds missing is found by OpenFails.
LEMMA LostKept ==
    ASSUME IInv, EInv, NEW f \in Files, Map(f), ~OpenFails(f)
    PROVE  Lost' = Lost
PROOF
<1>1. Alone(f) /\ LocalOf(f) /\ DOMAIN local = Files
  BY MapAlone DEF EInv
<1>2. local'[f].panicking = local[f].panicking
  <2>1. CASE Open(f) \/ Scan(f) \/ EmitLock(f) \/ EmitStore(f) \/ ReleaseMapper(f)
               \/ MapperDone(f) \/ Die(f)
    BY <1>1, <2>1 DEF Open, Scan, EmitLock, EmitStore, ReleaseMapper, MapperDone, Die, mapVars,
                      LocalOf
  <2>2. CASE MakeChildren(f) \/ Lookup(f) \/ MapRace(f) \/ KeepChild(f) \/ CreateChild(f)
    BY <1>1, <2>2 DEF MakeChildren, Lookup, MapRace, KeepChild, CreateChild, LocalOf
  <2>3. CASE LinkChild(f) \/ AddLock(f) \/ AddStore(f)
    BY <1>1, <2>3 DEF LinkChild, AddLock, AddStore, LocalOf
  <2>4. CASE Descend(f)
    <3>1. PICK n : local' = [local EXCEPT ![f].node = n, ![f].child = 0, ![f].char = @ + 1]
      BY <2>4 DEF Descend
    <3> QED BY <1>1, <3>1 DEF LocalOf
  <2> QED BY <2>1, <2>2, <2>3, <2>4 DEF Map, Insert
<1> QED BY <1>1, <1>2 DEF Alone, Lost

\* The lock of the trie is held by one mapper.
LEMMA MappersKept ==
    ASSUME NEW f \in Files, Alone(f), \A g \in Files : Mapper(g), Mapper(f)',
           trieMutex' = trieMutex \/ trieMutex = 0 \/ trieMutex = f
    PROVE  \A g \in Files : Mapper(g)'
PROOF
<1> SUFFICES ASSUME NEW g \in Files, g # f PROVE Mapper(g)'
  OBVIOUS
<1>1. g # 0 /\ Mapper(g) /\ (g \in Lost' <=> g \in Lost)
  BY Sizes DEF Lost, Alone
<1> QED BY <1>1 DEF Mapper, Alone

\* With the lock free or one's own, no other writes to the trie.
LEMMA NoWriter ==
    ASSUME \A g \in Files : Mapper(g), NEW f, trieMutex \in {0, f}
    PROVE  \A g \in Files : g # f => mapPc[g] \notin {"write", "add"}
PROOF BY Sizes DEF Mapper

\* The nodes that are being linked stay when no mapper begins or ends a write.
LEMMA FreshKept ==
    ASSUME NEW f \in Files, Alone(f), mapPc[f] # "write", mapPc'[f] # "write"
    PROVE  /\ \A n : Fresh(n)' <=> Fresh(n)
           /\ \A n : /\ Writers(n)' = Writers(n) /\ f \notin Writers(n)
                     /\ \A h \in Writers(n) : local'[h] = local[h]
PROOF
<1>1. \A g \in Files : mapPc'[g] = "write" \/ mapPc[g] = "write" =>
         mapPc'[g] = mapPc[g] /\ local'[g] = local[g]
  BY DEF Alone
<1>2. \A n : Fresh(n)' <=> Fresh(n)
  BY <1>1 DEF Fresh
<1>3. ASSUME NEW n
      PROVE  /\ Writers(n)' = Writers(n) /\ f \notin Writers(n)
             /\ \A h \in Writers(n) : local'[h] = local[h]
  BY <1>1 DEF Writers
<1> QED BY <1>2, <1>3

\* What is counted changes with the words only.
LEMMA AddedKept ==
    ASSUME \A g \in Files : local'[g].word = local[g].word
    PROVE  \A key : AddedAt(key)' = AddedAt(key)
PROOF
<1>1. UNION {{g} \X (1 .. local'[g].word - 1) : g \in Files}
        = UNION {{g} \X (1 .. local[g].word - 1) : g \in Files}
  OBVIOUS
<1> QED BY <1>1 DEF AddedAt

\* The trie as it was, but for the maps of the children.
SameTrie ==
    /\ IsSeq(Trie') /\ Len(Trie') = Len(Trie)
    /\ \A n \in Nodes : /\ DOMAIN Trie'[n] = DOMAIN Trie[n]
                        /\ Trie'[n].made \in BOOLEAN /\ (Trie[n].made => Trie'[n].made)
                        /\ Trie'[n].Value = Trie[n].Value /\ Trie'[n].IsEnd = Trie[n].IsEnd
                        /\ \A c \in Nat : Child(n, c)' = Child(n, c)

\* A step of a mapper that leaves the trie.
LEMMA QuietWhole ==
    ASSUME EInv, NEW path, Whole(path), NEW f \in Files, Alone(f), SameTrie,
           mapPc[f] # "write", mapPc'[f] # "write", local'[f].word = local[f].word,
           mapPc'[f] \in Inserting => Insertion(f, path)'
    PROVE  Whole(path)'
PROOF
<1>1. /\ \A n : Fresh(n)' <=> Fresh(n)
      /\ \A n : /\ Writers(n)' = Writers(n)
                /\ \A h \in Writers(n) : local'[h] = local[h]
  BY FreshKept
<1>2. Nodes' = Nodes
  BY DEF Nodes, SameTrie
<1>3. \A key : AddedAt(key)' = AddedAt(key)
  BY AddedKept DEF Alone
<1>4. Tree(path)'
  BY <1>1, TreeKept DEF Whole, SameTrie
<1>5. Values(path)'
  BY <1>1, <1>3, ValuesKept DEF Whole, SameTrie
<1>6. ASSUME NEW g \in Files, g # f, mapPc'[g] \in Inserting PROVE Insertion(g, path)'
  <2>1. mapPc'[g] = mapPc[g] /\ local'[g] = local[g]
    BY <1>6 DEF Alone
  <2>2. Insertion(g, path) /\ mapPc[g] \in Inserting
    BY <1>6, <2>1 DEF Whole
  <2>3. Rune(g)' = Rune(g)
    BY <2>1 DEF Rune, Word
  <2>4. /\ local[g].char <= Len(Word(g)) =>
             Child(local[g].node, Rune(g))' = Child(local[g].node, Rune(g))
        /\ Writers(local[g].node)' = Writers(local[g].node)
        /\ Fresh(local[g].node)' <=> Fresh(local[g].node)
    <3> DEFINE n == local[g].node
               c == Rune(g)
    <3>1. n' = n /\ c' = c /\ n \in Nodes
      BY <2>1, <2>2, <2>3 DEF Insertion
    <3>2. local[g].char <= Len(Word(g)) => c \in Nat
      BY <2>2, NextRune
    <3> HIDE DEF n, c
    <3>3. Writers(n)' = Writers(n) /\ (Fresh(n)' <=> Fresh(n))
      BY <3>1, <1>1 DEF Writers, Fresh
    <3>4. local[g].char <= Len(Word(g)) => Child(n, c)' = Child(n, c)
      BY <3>1, <3>2 DEF SameTrie, Child
    <3> QED BY <3>3, <3>4 DEF n, c
  <2>5. Trie[local[g].node].made => Trie'[local[g].node].made
    BY <2>2 DEF SameTrie, Insertion
  <2>6. Trie'[local[g].node].Value = Trie[local[g].node].Value
    BY <2>2 DEF SameTrie, Insertion
  <2> QED BY <1>1, <1>2, <2>1, <2>2, <2>4, <2>5, <2>6, InsertionKept
<1> QED BY <1>4, <1>5, <1>6 DEF Whole

\* A step that leaves the trie alone.
LEMMA StillTrie == ASSUME NEW path, Tree(path), Trie' = Trie PROVE SameTrie
PROOF BY DEF Tree, SameTrie, Nodes, Child

\* Map outside Insert.
LEMMA OutsideWhole ==
    ASSUME IInv, EInv, NEW path, Whole(path), NEW f \in Files, Map(f), ~Insert(f)
    PROVE  Whole(path)'
PROOF
<1>1. Alone(f) /\ LocalOf(f) /\ DOMAIN local = Files /\ DOMAIN mapPc = Files
  BY MapAlone DEF EInv, IInv, Places
<1>2. CASE ~EmitStore(f)
  <2>1. /\ Trie' = Trie /\ mapPc[f] # "write" /\ mapPc'[f] \notin Inserting
        /\ mapPc'[f] # "write" /\ local'[f].word = local[f].word
    <3>1. CASE Open(f) \/ Scan(f) \/ ReleaseMapper(f) \/ MapperDone(f) \/ Die(f)
      BY <1>1, <3>1 DEF Open, Scan, ReleaseMapper, MapperDone, Die, Goto, mapVars, Inserting
    <3>3. CASE OpenFails(f)
      BY <1>1, <3>3 DEF OpenFails, Goto, Inserting, LocalOf
    <3>2. CASE EmitLock(f)
      BY <1>1, <3>2 DEF EmitLock, Goto, Inserting, LocalOf
    <3> QED BY <1>2, <3>1, <3>2, <3>3 DEF Map
  <2> QED BY <1>1, <2>1, StillTrie, QuietWhole DEF Whole
<1>3. CASE EmitStore(f)
  <2>1. /\ Trie' = Trie /\ mapPc[f] = "append" /\ mapPc'[f] = "children"
        /\ local'[f].word = local[f].word /\ local'[f].node = 1 /\ local'[f].char = 1
    BY <1>1, <1>3 DEF EmitStore, Goto, LocalOf
  <2>2. Word(f)' = Word(f) /\ Word(f) \in Keys /\ Len(Word(f)) \in Nat \ {0}
    BY <2>1, WordOf DEF Word, InWord
  <2>3. 1 \in Nodes' /\ path[1] = << >>
    BY <2>1 DEF Whole, Tree, Nodes
  <2>4. SubSeq(Word(f), 1, 1 - 1) = << >> /\ 1 \in 1 .. Len(Word(f)) + 1
    BY <2>2, Prefixes
  <2>5. Insertion(f, path)'
    BY <2>1, <2>2, <2>3, <2>4 DEF Insertion
  <2> QED BY <1>1, <2>1, <2>5, StillTrie, QuietWhole DEF Whole
<1> QED BY <1>2, <1>3

\* The reads of the trie, and the lock sections that find nothing to do.
LEMMA ReadWhole ==
    ASSUME IInv, EInv, \A g \in Files : Mapper(g), NEW path, Whole(path), NEW f \in Files,
           Map(f), Lookup(f) \/ MapRace(f) \/ KeepChild(f) \/ Descend(f) \/ AddLock(f)
    PROVE  Whole(path)'
PROOF
<1> DEFINE node == local[f].node
           char == local[f].char
           child == local[f].child
<1>1. Alone(f) /\ LocalOf(f) /\ DOMAIN local = Files /\ DOMAIN mapPc = Files
  BY MapAlone DEF EInv, IInv, Places
<1>2. /\ Trie' = Trie /\ mapPc[f] \in Inserting /\ mapPc[f] # "write" /\ mapPc'[f] # "write"
      /\ local'[f].word = local[f].word
  <2>1. CASE Lookup(f) \/ MapRace(f) \/ KeepChild(f)
    <3>1. CASE Lookup(f)
      <4>1. PICK n : local' = [local EXCEPT ![f].child = n]
        BY <3>1 DEF Lookup
      <4> QED BY <1>1, <3>1, <4>1 DEF Lookup, Goto, LocalOf, Inserting
    <3>2. CASE MapRace(f) \/ KeepChild(f)
      BY <1>1, <3>2 DEF MapRace, KeepChild, Goto, LocalOf, Inserting
    <3> QED BY <2>1, <3>1, <3>2
  <2>2. CASE Descend(f) \/ AddLock(f)
    <3>1. CASE Descend(f)
      <4>1. PICK n : local' = [local EXCEPT ![f].node = n, ![f].child = 0, ![f].char = @ + 1]
        BY <3>1 DEF Descend
      <4> QED BY <1>1, <3>1, <4>1 DEF Descend, Goto, LocalOf, Inserting
    <3>2. CASE AddLock(f)
      BY <1>1, <3>2 DEF AddLock, Goto, LocalOf, Inserting
    <3> QED BY <2>2, <3>1, <3>2
  <2> QED BY <2>1, <2>2
<1>3. Insertion(f, path) /\ mapPc[f] \in InWord
  BY <1>2 DEF Whole, Inserting, InWord
<1>4. /\ Word(f) \in Keys /\ Word(f) # << >> /\ Len(Word(f)) \in Nat \ {0}
      /\ Word(f)' = Word(f) /\ char \in 1 .. Len(Word(f)) + 1 /\ node \in Nodes
  BY <1>2, <1>3, WordOf DEF Word, Insertion
<1>5. /\ \A n : Fresh(n)' <=> Fresh(n)
      /\ \A n : /\ Writers(n)' = Writers(n) /\ f \notin Writers(n)
                /\ \A h \in Writers(n) : local'[h] = local[h]
  BY <1>1, <1>2, FreshKept
<1>6. Nodes' = Nodes /\ \A n, c : Child(n, c)' = Child(n, c)
  BY <1>2 DEF Nodes, Child
<1>7. SUFFICES Insertion(f, path)'
  BY <1>1, <1>2, <1>7, StillTrie, QuietWhole DEF Whole
<1>8. \A n : \A h \in Writers(n) : Rune(h)' = Rune(h)
  BY <1>5 DEF Rune, Word
<1>9. CASE Lookup(f)
  <2>1. PICK n \in Readable(node, Rune(f)) :
            local' = [local EXCEPT ![f].child = n]
    BY <1>9 DEF Lookup
  <2>2. /\ local'[f].node = node /\ local'[f].char = char /\ local'[f].child = n
        /\ mapPc[f] = "lookup" /\ mapPc'[f] = "create"
    BY <1>1, <1>9, <2>1 DEF Lookup, Goto, LocalOf
  <2>3. Rune(f)' = Rune(f)
    BY <1>4, <2>2 DEF Rune
  <2>4. n # 0 => \/ Child(node, Rune(f)) # 0
                 \/ \E g \in Writers(node) : Rune(g) = Rune(f)
    BY <2>1 DEF Readable
  <2>5. ASSUME n = 0, Safe(Word(f)) PROVE Child(node, Rune(f)) = 0
    <3> SUFFICES ASSUME NEW h \in Writers(node), Rune(h) = Rune(f) PROVE FALSE
      BY <2>1, <2>5 DEF Readable
    <3>1. h \in Files /\ h # f /\ mapPc[h] = "write" /\ local[h].node = node
      BY <1>5 DEF Writers
    <3>2. Insertion(h, path) /\ mapPc[h] \in Inserting /\ mapPc[h] \in InWord
      BY <3>1 DEF Whole, Inserting, InWord
    <3>3. Append(path[node], Rune(f))[1] = Word(f)[1]
      BY <1>2, <1>3, <2>2, NextRune DEF Insertion
    <3>4. Append(path[node], Rune(h))[1] = Word(h)[1]
      BY <3>1, <3>2, NextRune DEF Insertion
    <3> QED BY <1>3, <2>5, <3>1, <3>2, <3>3, <3>4, Owner
  <2>6. child' = n /\ node' = node /\ char' = char
    BY <2>2
  <2>7. Child(node, Rune(f))' = Child(node, Rune(f)) /\ Writers(node)' = Writers(node)
    BY <1>2, <1>5, <2>3, <2>6 DEF Child, Writers
  <2>8. ~Fresh(node)' /\ char <= Len(Word(f)) /\ Trie[node].made
    <3>1. ~Fresh(node) /\ char <= Len(Word(f)) /\ Trie[node].made
      BY <1>3, <2>2 DEF Insertion
    <3> QED BY <1>5, <2>6, <3>1 DEF Fresh
  <2>9. (\E g \in Writers(node) : Rune(g) = Rune(f)) => \E g \in Writers(node)' : Rune(g)' = Rune(f)'
    BY <1>8, <2>3, <2>7
  <2> HIDE DEF node, char, child
  <2>10. node' = local'[f].node /\ char' = local'[f].char /\ child' = local'[f].child
    BY DEF node, char, child
  <2> QED BY <1>2, <1>3, <1>4, <1>6, <2>2, <2>3, <2>4, <2>5, <2>6, <2>7, <2>8, <2>9 DEF Insertion, node, char, child, Safe
<1>10. CASE MapRace(f) \/ KeepChild(f)
  <2>1. /\ local' = local
        /\ \/ mapPc'[f] = mapPc[f] /\ mapPc[f] \in {"lookup", "descend"}
           \/ /\ mapPc[f] = "create" /\ mapPc'[f] = "descend"
              /\ child # 0 /\ trieMutex = 0
    BY <1>1, <1>10 DEF MapRace, KeepChild, Goto, TrieFree
  <2>2. Rune(f)' = Rune(f)
    BY <1>4, <2>1 DEF Rune
  <2>3. mapPc[f] = "create" => Child(node, Rune(f)) # 0
    <3> SUFFICES ASSUME mapPc[f] = "create" PROVE Child(node, Rune(f)) # 0
      OBVIOUS
    <3>1. child # 0 /\ trieMutex = 0
      BY <2>1
    <3>2. Writers(node) = {}
      BY <3>1, NoWriter, <1>5 DEF Writers
    <3> QED BY <1>3, <3>1, <3>2 DEF Insertion
  <2>4. node' = node /\ char' = char /\ child' = child
    BY <2>1
  <2>5. ~Fresh(node)' /\ char <= Len(Word(f)) /\ Trie[node].made
    <3>1. ~Fresh(node) /\ char <= Len(Word(f)) /\ Trie[node].made
      BY <1>3, <2>1 DEF Insertion
    <3> QED BY <1>5, <2>4, <3>1 DEF Fresh
  <2>6. Child(node, Rune(f))' = Child(node, Rune(f))
    BY <1>2, <2>2, <2>4 DEF Child
  <2>7. mapPc[f] = "descend" => Child(node, Rune(f)) # 0
    BY <1>3 DEF Insertion
  <2> QED BY <1>2, <1>3, <1>4, <1>6, <2>1, <2>2, <2>3, <2>5, <2>6, <2>7 DEF Insertion
<1>11. CASE Descend(f)
  <2>1. PICK n \in Readable(node, Rune(f)) :
            local' = [local EXCEPT ![f].node = n, ![f].child = 0, ![f].char = @ + 1]
    BY <1>11 DEF Descend
  <2>2. /\ local'[f].node = n /\ local'[f].char = char + 1
        /\ mapPc[f] = "descend" /\ mapPc'[f] = "children"
    BY <1>1, <1>11, <2>1 DEF Descend, Goto, LocalOf
  <2>3. /\ char <= Len(Word(f)) /\ Rune(f) \in Nat
        /\ Append(path[node], Rune(f)) = SubSeq(Word(f), 1, char)
    BY <1>2, <1>3, <2>2, NextRune DEF Insertion
  <2>4. n \in Nodes /\ path[n] = Append(path[node], Rune(f))
    <3>1. CASE n = Child(node, Rune(f))
      <4>1. n # 0
        BY <1>3, <2>2, <3>1 DEF Insertion
      <4> QED BY <1>4, <2>3, <3>1, <4>1 DEF Whole, Tree
    <3>2. CASE n # Child(node, Rune(f))
      <4>1. PICK h \in Writers(node) : Rune(h) = Rune(f) /\ n = local[h].child
        BY <2>1, <3>2 DEF Readable
      <4>2. h \in Files /\ mapPc[h] = "write" /\ local[h].node = node
        BY <4>1 DEF Writers
      <4>3. Insertion(h, path)
        BY <4>2 DEF Whole, Inserting
      <4> QED BY <4>1, <4>2, <4>3 DEF Insertion
    <3> QED BY <3>1, <3>2
  <2>5. char + 1 \in 1 .. Len(Word(f)) + 1 /\ (char + 1) - 1 = char
    BY <1>4, <2>3
  <2> QED BY <1>4, <1>6, <2>2, <2>3, <2>4, <2>5 DEF Insertion
<1>12. CASE AddLock(f)
  <2>1. /\ mapPc[f] = "children" /\ mapPc'[f] = "add" /\ trieMutex = 0
        /\ local' = [local EXCEPT ![f].old = Trie[node].Value] /\ char > Len(Word(f))
    BY <1>1, <1>12, <1>4 DEF AddLock, Goto, TrieFree, MoreRunes
  <2>2. /\ local'[f].node = node /\ local'[f].char = char /\ local'[f].old = Trie[node].Value
    BY <1>1, <2>1 DEF LocalOf
  <2>3. \A g \in Files : mapPc[g] # "write"
    <3>1. trieMutex \in {0, f} /\ mapPc[f] # "write"
      BY <2>1
    <3> QED BY <3>1, NoWriter
  <2>4. ~Fresh(node)'
    BY <1>1, <2>1, <2>3 DEF Fresh, Alone
  <2>5. ~Fresh(local[f].node)' /\ char = Len(Word(f)) + 1
    BY <1>4, <2>1, <2>4
  <2> QED BY <1>2, <1>3, <1>4, <1>6, <2>1, <2>2, <2>5 DEF Insertion
<1> QED BY <1>9, <1>10, <1>11, <1>12

\* Changing one node.
Put(T, n, e) == [T EXCEPT ![n] = e]

\* The nodes after one is changed.
LEMMA OneNode ==
    ASSUME NEW T, IsSeq(T), NEW n \in 1 .. Len(T), NEW e
    PROVE  /\ IsSeq(Put(T, n, e)) /\ Len(Put(T, n, e)) = Len(T)
           /\ \A m \in 1 .. Len(T) : Put(T, n, e)[m] = IF m = n THEN e ELSE T[m]
PROOF
<1>1. PICK S : T \in Seq(S)
  BY DEF IsSeq
<1> DEFINE U == S \cup {e}
<1>2. T \in Seq(U) /\ e \in U
  BY <1>1
<1>3. Put(T, n, e) \in Seq(U) /\ Len(Put(T, n, e)) = Len(T)
  BY <1>2 DEF Put
<1> QED BY <1>2, <1>3 DEF IsSeq, Put

\* A mapper makes the map of its node, or finds it.
LEMMA MakeWhole ==
    ASSUME IInv, EInv, \A g \in Files : Mapper(g), NEW path, Whole(path), NEW f \in Files,
           Map(f), MakeChildren(f)
    PROVE  Whole(path)'
PROOF
<1> DEFINE node == local[f].node
<1>1. Alone(f) /\ DOMAIN mapPc = Files
  BY MapAlone DEF IInv, Places
<1>2. /\ mapPc[f] = "children" /\ mapPc'[f] = "lookup" /\ trieMutex \in {0, f}
      /\ local' = local /\ local[f].char <= Len(Word(f))
  BY <1>1 DEF MakeChildren, Goto, TrieFree, MoreRunes
<1>3. Insertion(f, path) /\ node \in Nodes
  BY <1>2 DEF Whole, Inserting, Insertion
<1>4. \A g \in Files : mapPc[g] # "write" /\ mapPc'[g] # "write"
  <2>1. trieMutex \in {0, f}
    BY <1>2
  <2>2. \A g \in Files : g # f => mapPc[g] \notin {"write", "add"}
    BY <2>1, NoWriter
  <2> QED BY <1>1, <1>2, <2>2 DEF Alone
<1>5. SameTrie /\ Trie'[node].made
  <2>1. CASE Trie[node].made
    <3>1. Trie' = Trie
      BY <2>1 DEF MakeChildren, HasMap
    <3> QED BY <2>1, <3>1, StillTrie DEF Whole
  <2>2. CASE ~Trie[node].made
    <3> DEFINE new == [[Trie[node] EXCEPT !.made = TRUE] EXCEPT !.Children = << >>]
    <3>1. Trie' = Put(Trie, node, new)
      BY <2>2 DEF MakeChildren, HasMap, Put
    <3>2. /\ IsSeq(Trie) /\ DOMAIN Trie[node] = {"made", "Children", "IsEnd", "Value"}
          /\ \A c \in Nat : Child(node, c) = 0
      BY <1>3, <2>2 DEF Whole, Tree
    <3>3. /\ DOMAIN new = DOMAIN Trie[node] /\ new.made = TRUE /\ new.Value = Trie[node].Value
          /\ new.IsEnd = Trie[node].IsEnd /\ new.Children = << >>
      BY <3>2
    <3> HIDE DEF new
    <3>4. /\ IsSeq(Trie') /\ Len(Trie') = Len(Trie)
          /\ \A m \in Nodes : Trie'[m] = IF m = node THEN new ELSE Trie[m]
      <4>1. IsSeq(Trie) /\ node \in 1 .. Len(Trie)
        BY <1>3, <3>2 DEF Nodes
      <4> HIDE DEF node
      <4> QED BY <3>1, <4>1, OneNode DEF Nodes
    <3>5. \A n \in Nodes : \A c \in Nat : Child(n, c)' = Child(n, c)
      <4>1. DOMAIN << >> = {}
        OBVIOUS
      <4>2. \A c \in Nat : c \notin DOMAIN Trie'[node].Children
        BY <1>3, <3>3, <3>4, <4>1
      <4> SUFFICES ASSUME NEW n \in Nodes, NEW c \in Nat PROVE Child(n, c)' = Child(n, c)
        OBVIOUS
      <4>3. CASE n = node
        BY <3>2, <4>2, <4>3 DEF Child
      <4>4. CASE n # node
        BY <3>4, <4>4 DEF Child
      <4> QED BY <4>3, <4>4
    <3>6. \A n \in Nodes : DOMAIN Trie[n] = {"made", "Children", "IsEnd", "Value"} /\ Trie[n].made \in BOOLEAN
      BY DEF Whole, Tree
    <3> QED BY <1>3, <3>2, <3>3, <3>4, <3>5, <3>6 DEF SameTrie
  <2> QED BY <2>1, <2>2
<1>6. Insertion(f, path)'
  <2>1. ~Fresh(node)'
    BY <1>4 DEF Fresh
  <2>2. Word(f)' = Word(f) /\ Nodes' = Nodes
    BY <1>2, <1>5 DEF Word, SameTrie, Nodes
  <2> QED BY <1>2, <1>3, <1>5, <2>1, <2>2 DEF Insertion
<1> QED BY <1>1, <1>2, <1>5, <1>6, QuietWhole

\* The occurrences that are counted are finitely many.
LEMMA AddedFinite ==
    ASSUME EInv, NEW key \in Keys
    PROVE  IsFiniteSet(AddedAt(key)) /\ Cardinality(AddedAt(key)) \in Nat
PROOF
<1>1. IsFiniteSet(EmittedAt(key))
  BY DEF EInv
<1>2. AddedAt(key) \subseteq EmittedAt(key)
  <2>1. ASSUME NEW f \in Files PROVE 1 .. local[f].word - 1 \subseteq Stored(f)
    <3>1. local[f].word \in Nat \ {0}
      BY DEF EInv, LocalOf
    <3> QED BY <3>1 DEF Stored
  <2> QED BY <2>1 DEF AddedAt, EmittedAt
<1> QED BY <1>1, <1>2, FS_Subset, FS_CardinalityType

\* A mapper creates a child: the path grows by its key.
LEMMA CreateWhole ==
    ASSUME IInv, EInv, \A g \in Files : Mapper(g), NEW path, Whole(path), NEW f \in Files,
           Map(f), CreateChild(f)
    PROVE  \E p : Whole(p)'
PROOF
<1> DEFINE Is(node, new, key, p) ==
             /\ node = local[f].node /\ new = Len(Trie) + 1
             /\ key = Append(path[local[f].node], Rune(f))
             /\ p = [n \in 1 .. Len(Trie) + 1 |-> IF n = Len(Trie) + 1 THEN key ELSE path[n]]
<1>0. PICK node, new, key, p : Is(node, new, key, p)
  OBVIOUS
<1>1. Alone(f) /\ DOMAIN mapPc = Files /\ LocalOf(f) /\ DOMAIN local = Files
  BY MapAlone DEF IInv, Places, EInv
<1>2. /\ mapPc[f] = "create" /\ mapPc'[f] = "write" /\ trieMutex = 0
      /\ local[f].child = 0 /\ Trie' = Append(Trie, NewNode)
      /\ local' = [local EXCEPT ![f].child = new]
  BY <1>0, <1>1 DEF CreateChild, Goto, TrieFree
<1>3. /\ local'[f].child = new /\ local'[f].node = node /\ local'[f].char = local[f].char
      /\ local'[f].word = local[f].word /\ local'[f].old = local[f].old
  BY <1>0, <1>1, <1>2 DEF LocalOf
<1>4. Insertion(f, path) /\ node \in Nodes /\ local[f].char <= Len(Word(f)) /\ Trie[node].made
  BY <1>0, <1>2 DEF Whole, Inserting, Insertion
<1>5. /\ Rune(f) \in Nat /\ path[node] \in Keys /\ key \in Keys /\ key # << >>
      /\ key[1] = Word(f)[1] /\ (Safe(key) <=> Safe(Word(f)))
  <2>1. mapPc[f] \in Inserting
    BY <1>2 DEF Inserting
  <2> QED BY <1>0, <1>4, <2>1, NextRune, OneRune
<1>6. \A g \in Files : mapPc[g] # "write" /\ mapPc[g] # "add"
  <2>1. trieMutex \in {0, f}
    BY <1>2
  <2>2. \A g \in Files : g # f => mapPc[g] \notin {"write", "add"}
    BY <2>1, NoWriter
  <2> QED BY <1>2, <2>2
<1>7. /\ \A n : ~Fresh(n) /\ (Fresh(n)' <=> n = new)
      /\ \A n : Writers(n) = {}
  <2>1. \A g \in Files : mapPc'[g] = "write" <=> g = f
    BY <1>1, <1>2, <1>6 DEF Alone
  <2> QED BY <1>3, <1>6, <2>1 DEF Fresh, Writers
<1>8. /\ Len(Trie) \in Nat /\ new \notin Nodes /\ 1 \in Nodes /\ new # 0 /\ new # 1
      /\ IsSeq(Trie') /\ Len(Trie') = new
      /\ \A n \in Nodes : Trie'[n] = Trie[n]
      /\ Trie'[new] = NewNode
  <2>1. PICK S : Trie \in Seq(S)
    BY DEF Whole, Tree, IsSeq
  <2> DEFINE U == S \cup {NewNode}
  <2>2. Trie \in Seq(U) /\ NewNode \in U
    BY <2>1
  <2>3. Append(Trie, NewNode) \in Seq(U)
    BY <2>2
  <2> HIDE DEF U
  <2>4. /\ Len(Trie) \in Nat /\ Len(Trie') = Len(Trie) + 1 /\ Trie'[Len(Trie) + 1] = NewNode
        /\ \A n \in 1 .. Len(Trie) : Trie'[n] = Trie[n]
    BY <1>2, <2>2
  <2>5. 1 \in Nodes
    BY DEF Whole, Tree
  <2> QED BY <1>0, <1>2, <2>3, <2>4, <2>5 DEF IsSeq, Nodes
<1>9. Nodes' = Nodes \cup {new} /\ Nodes \subseteq Nodes'
  BY <1>0, <1>8 DEF Nodes
<1>10. /\ p \in [Nodes' -> Keys] /\ p[new] = key
       /\ \A n \in Nodes : p[n] = path[n] /\ path[n] \in Keys /\ n # new /\ n # 0
  <2>1. \A n \in Nodes : path[n] \in Keys /\ n # new /\ n # 0
    BY <1>8 DEF Whole, Tree, Nodes
  <2> QED BY <1>0, <1>5, <1>8, <2>1 DEF Nodes
<1>11. /\ \A n \in Nodes : \A c : Child(n, c)' = Child(n, c)
       /\ \A c : Child(new, c)' = 0
  <2>1. NewNode.Children = << >> /\ DOMAIN << >> = {}
    BY DEF NewNode
  <2> QED BY <1>8, <2>1 DEF Child
<1>12. ASSUME NEW n \in Nodes, path[n] = key, Safe(key) PROVE FALSE
  <2>1. n # 1
    BY <1>5, <1>12 DEF Whole, Tree
  <2>2. PICK m \in Nodes, c \in Nat : path[n] = Append(path[m], c) /\ Child(m, c) = n
    BY <1>7, <1>12, <2>1 DEF Whole, Tree
  <2>3. path[m] = path[node] /\ c = Rune(f)
    <3>1. Append(path[node], Rune(f)) = Append(path[m], c)
      BY <1>0, <1>12, <2>2
    <3>2. path[m] \in Keys /\ path[node] \in Keys /\ Rune(f) \in Nat
      BY <1>4, <1>5, <1>10
    <3> QED BY <3>1, <3>2, SameRunes
  <2>4. m = node
    <3>1. CASE m = 1
      BY <1>4, <2>3, <3>1 DEF Whole, Tree
    <3>2. CASE m # 1
      <4>1. path[node] # << >>
        BY <2>3, <3>2 DEF Whole, Tree
      <4>2. key[1] = path[node][1]
        BY <1>0, <1>5, <4>1, OneRune
      <4>3. Safe(path[node])
        BY <1>12, <4>2 DEF Safe
      <4> QED BY <1>4, <2>3, <3>2, <4>3 DEF Whole, Tree
    <3> QED BY <3>1, <3>2
  <2>5. Child(node, Rune(f)) = 0
    BY <1>0, <1>2, <1>4, <1>5, <1>12 DEF Insertion
  <2> QED BY <1>10, <2>2, <2>3, <2>4, <2>5
<1>13. Tree(p)'
  <2>1. \A n \in Nodes' : /\ DOMAIN Trie'[n] = {"made", "Children", "IsEnd", "Value"}
                          /\ Trie'[n].made \in BOOLEAN
    <3>1. DOMAIN NewNode = {"made", "Children", "IsEnd", "Value"} /\ NewNode.made \in BOOLEAN
      BY DEF NewNode
    <3> QED BY <1>8, <1>9, <3>1 DEF Whole, Tree
  <2>2. \A n \in Nodes' : p[n] = << >> <=> n = 1
    BY <1>5, <1>8, <1>9, <1>10 DEF Whole, Tree
  <2>3. ASSUME NEW n \in Nodes', NEW c \in Nat, Child(n, c)' # 0
        PROVE  /\ Child(n, c)' \in Nodes' /\ ~Fresh(n)' /\ Trie'[n].made
               /\ p[Child(n, c)'] = Append(p[n], c)
    <3>1. n \in Nodes /\ Child(n, c)' = Child(n, c)
      BY <1>9, <1>11, <2>3
    <3>2. /\ Child(n, c) \in Nodes /\ Trie[n].made /\ path[Child(n, c)] = Append(path[n], c)
      BY <2>3, <3>1 DEF Whole, Tree
    <3> QED BY <1>7, <1>8, <1>9, <1>10, <3>1, <3>2
  <2>4. ASSUME NEW m \in Nodes', NEW n \in Nodes', m # 1, p[m] = p[n], Safe(p[n])
        PROVE  m = n
    <3>1. CASE m \in Nodes /\ n \in Nodes
      BY <1>10, <2>4, <3>1 DEF Whole, Tree
    <3>2. CASE m = new /\ n \in Nodes
      BY <1>10, <1>12, <2>4, <3>2
    <3>3. CASE m \in Nodes /\ n = new
      BY <1>10, <1>12, <2>4, <3>3
    <3> QED BY <1>9, <3>1, <3>2, <3>3
  <2>5. ASSUME NEW n \in Nodes', n # 1, Safe(p[n]), ~Fresh(n)'
        PROVE  \E m \in Nodes' : \E c \in Nat : p[n] = Append(p[m], c) /\ Child(m, c)' = n
    <3>1. n \in Nodes /\ p[n] = path[n]
      BY <1>7, <1>9, <1>10, <2>5
    <3>2. PICK m \in Nodes, c \in Nat : path[n] = Append(path[m], c) /\ Child(m, c) = n
      BY <1>7, <2>5, <3>1 DEF Whole, Tree
    <3> QED BY <1>9, <1>10, <1>11, <3>1, <3>2
  <2> QED BY <1>8, <1>9, <1>10, <2>1, <2>2, <2>3, <2>4, <2>5 DEF Tree, Safe
<1>14. Values(p)'
  <2>1. \A w : AddedAt(w)' = AddedAt(w)
    BY <1>1, <1>3, AddedKept DEF Alone
  <2>2. 0 <= Cardinality(AddedAt(key))
    BY <1>5, AddedFinite
  <2>3. Trie'[new].Value = 0 /\ Trie'[new].IsEnd = FALSE
    BY <1>8 DEF NewNode
  <2>4. ASSUME NEW n \in Nodes'
        PROVE  /\ Trie'[n].Value \in Nat /\ Trie'[n].IsEnd \in BOOLEAN
               /\ Trie'[n].IsEnd => ~Fresh(n)'
               /\ ~Trie'[n].IsEnd => Trie'[n].Value = 0
               /\ Trie'[n].Value <= Cardinality(AddedAt(p[n]))
               /\ Trie'[n].IsEnd /\ Safe(p[n]) => Trie'[n].Value = Cardinality(AddedAt(p[n]))
    <3>1. CASE n = new
      <4>1. p[n] = key /\ Trie'[n].Value = 0 /\ ~Trie'[n].IsEnd /\ Trie'[n].IsEnd \in BOOLEAN
        BY <1>10, <2>3, <3>1
      <4> QED BY <2>2, <4>1
    <3>2. CASE n \in Nodes
      BY <1>7, <1>8, <1>10, <3>2 DEF Whole, Values
    <3> QED BY <1>9, <3>1, <3>2
  <2>5. ASSUME NEW w \in Words, Safe(w), AddedAt(w) # {}
        PROVE  \E n \in Nodes' : p[n] = w /\ Trie'[n].IsEnd
    <3>1. PICK n \in Nodes : path[n] = w /\ Trie[n].IsEnd
      BY <2>5 DEF Whole, Values
    <3> QED BY <1>8, <1>9, <1>10, <3>1
  <2> QED BY <2>1, <2>4, <2>5 DEF Values, Safe
<1>15. Insertion(f, p)'
  <2>1. Word(f)' = Word(f) /\ Rune(f)' = Rune(f)
    BY <1>3 DEF Word, Rune
  <2>2. /\ p[node] = path[node] /\ p[new] = Append(p[node], Rune(f))
        /\ node \in Nodes' /\ new \in Nodes' /\ ~Fresh(node)' /\ Trie'[node].made
    BY <1>0, <1>4, <1>7, <1>8, <1>9, <1>10
  <2>3. Child(node, Rune(f))' = Child(node, Rune(f))
    BY <1>4, <1>11, <2>1 DEF Child
  <2>4. Safe(Word(f)) => Child(node, Rune(f)) = 0
    BY <1>0, <1>2, <1>4 DEF Insertion
  <2>5. local'[f].char \in 1 .. Len(Word(f)) + 1 /\ path[node] = SubSeq(Word(f), 1, local'[f].char - 1)
    BY <1>0, <1>3, <1>4 DEF Insertion
  <2> QED BY <1>2, <1>3, <1>4, <2>1, <2>2, <2>3, <2>4, <2>5 DEF Insertion, Safe, Child
<1>16. ASSUME NEW g \in Files, g # f, mapPc'[g] \in Inserting PROVE Insertion(g, p)'
  <2>1. /\ mapPc'[g] = mapPc[g] /\ local'[g] = local[g] /\ mapPc[g] \in Inserting
    BY <1>1, <1>16 DEF Alone
  <2>2. PICK n, c, q : n = local[g].node /\ c = Rune(g) /\ q = Word(g)
    OBVIOUS
  <2>3. /\ n' = local'[g].node /\ Word(g)' = q /\ Rune(g)' = c /\ n = local'[g].node
    BY <2>1, <2>2 DEF Word, Rune
  <2>4. Insertion(g, path)
    BY <2>1 DEF Whole
  <2>5. n \in Nodes /\ p[n] = path[n] /\ Trie'[n] = Trie[n] /\ n # new
    BY <1>8, <1>10, <2>2, <2>4 DEF Insertion
  <2>6. Child(n, c)' = Child(n, c) /\ ~Fresh(n)' /\ Writers(n) = {}
    BY <1>7, <1>11, <2>5
  <2>7. mapPc[g] # "write" /\ mapPc[g] # "add"
    BY <1>6
  <2> QED BY <1>9, <2>1, <2>2, <2>3, <2>4, <2>5, <2>6, <2>7 DEF Insertion, Safe
<1> QED BY <1>13, <1>14, <1>15, <1>16 DEF Whole

\* A mapper writes the child it created into the map.
LEMMA LinkWhole ==
    ASSUME IInv, EInv, \A g \in Files : Mapper(g), NEW path, Whole(path), NEW f \in Files,
           Map(f), LinkChild(f)
    PROVE  Whole(path)'
PROOF
<1>0. PICK node, child, c : node = local[f].node /\ child = local[f].child /\ c = Rune(f)
  OBVIOUS
<1>1. Alone(f) /\ DOMAIN mapPc = Files /\ Mapper(f) /\ f # 0
  BY MapAlone, Sizes DEF IInv, Places
<1>2. /\ mapPc[f] = "write" /\ mapPc'[f] = "descend" /\ trieMutex = f /\ local' = local
      /\ Trie' = [Trie EXCEPT ![node].Children =
                    [d \in DOMAIN @ \cup {c} |-> IF d = c THEN child ELSE @[d]]]
  BY <1>0, <1>1 DEF LinkChild, Goto, Mapper
<1>3. /\ Insertion(f, path) /\ node \in Nodes /\ child \in Nodes
      /\ local[f].char <= Len(Word(f)) /\ Trie[node].made /\ path[child] = Append(path[node], c)
  BY <1>0, <1>2 DEF Whole, Inserting, Insertion
<1>4. /\ c \in Nat /\ Append(path[node], c)[1] = Word(f)[1] /\ path[node] \in Keys
      /\ (Safe(path[child]) <=> Safe(Word(f)))
      /\ Safe(path[child]) => Child(node, c) = 0
  <2>1. mapPc[f] \in Inserting
    BY <1>2 DEF Inserting
  <2>2. /\ Rune(f) \in Nat /\ path[local[f].node] \in Keys
        /\ Append(path[local[f].node], Rune(f))[1] = Word(f)[1]
        /\ Safe(Append(path[local[f].node], Rune(f))) <=> Safe(Word(f))
    BY <1>3, <2>1, NextRune
  <2>3. Safe(Word(f)) => Child(local[f].node, Rune(f)) = 0
    BY <1>2, <1>3 DEF Insertion
  <2> QED BY <1>0, <1>3, <2>2, <2>3
<1>5. \A g \in Files : g # f => mapPc[g] # "write" /\ mapPc[g] # "add"
  <2>1. trieMutex \in {0, f}
    BY <1>2
  <2>2. \A g \in Files : g # f => mapPc[g] \notin {"write", "add"}
    BY <2>1, NoWriter
  <2> QED BY <2>2
<1>6. /\ \A n : (Fresh(n) <=> n = child) /\ ~Fresh(n)'
      /\ \A n : Writers(n) = IF n = node THEN {f} ELSE {}
  <2>1. \A g \in Files : mapPc'[g] # "write"
    BY <1>1, <1>2, <1>5 DEF Alone
  <2> QED BY <1>0, <1>2, <1>5, <2>1 DEF Fresh, Writers
<1>7. /\ IsSeq(Trie') /\ Len(Trie') = Len(Trie)
      /\ \A n \in Nodes : /\ DOMAIN Trie'[n] = DOMAIN Trie[n] /\ Trie'[n].made = Trie[n].made
                          /\ Trie'[n].Value = Trie[n].Value /\ Trie'[n].IsEnd = Trie[n].IsEnd
      /\ \A n \in Nodes : \A d : Child(n, d)' = IF n = node /\ d = c THEN child ELSE Child(n, d)
  <2>1. PICK kids : kids = [d \in DOMAIN Trie[node].Children \cup {c} |->
                              IF d = c THEN child ELSE Trie[node].Children[d]]
    OBVIOUS
  <2>2. PICK new : new = [Trie[node] EXCEPT !.Children = kids]
    OBVIOUS
  <2>3. /\ IsSeq(Trie) /\ node \in 1 .. Len(Trie)
        /\ DOMAIN Trie[node] = {"made", "Children", "IsEnd", "Value"}
    BY <1>3 DEF Whole, Tree, Nodes
  <2>4. Trie' = Put(Trie, node, new)
    BY <1>2, <2>1, <2>2, <2>3 DEF Put
  <2>5. /\ DOMAIN new = DOMAIN Trie[node] /\ new.made = Trie[node].made /\ new.Children = kids
        /\ new.Value = Trie[node].Value /\ new.IsEnd = Trie[node].IsEnd
    BY <2>2, <2>3
  <2>6. /\ IsSeq(Trie') /\ Len(Trie') = Len(Trie)
        /\ \A n \in Nodes : Trie'[n] = IF n = node THEN new ELSE Trie[n]
    BY <2>3, <2>4, OneNode DEF Nodes
  <2>7. ASSUME NEW n \in Nodes, NEW d
        PROVE  Child(n, d)' = IF n = node /\ d = c THEN child ELSE Child(n, d)
    <3>1. CASE n = node
      <4>1. Trie'[n].Children = kids
        BY <2>5, <2>6, <3>1
      <4>2. d \in DOMAIN kids <=> d \in DOMAIN Trie[node].Children \/ d = c
        BY <2>1
      <4>3. d \in DOMAIN kids => kids[d] = IF d = c THEN child ELSE Trie[node].Children[d]
        BY <2>1
      <4> QED BY <3>1, <4>1, <4>2, <4>3 DEF Child
    <3>2. CASE n # node
      BY <2>6, <3>2 DEF Child
    <3> QED BY <3>1, <3>2
  <2> QED BY <2>5, <2>6, <2>7
<1>8. Nodes' = Nodes /\ \A n \in Nodes : n # 0
  BY <1>7 DEF Nodes
<1>9. Tree(path)'
  <2>1. ASSUME NEW n \in Nodes, NEW d \in Nat, Child(n, d)' # 0
        PROVE  /\ Child(n, d)' \in Nodes /\ ~Fresh(n)' /\ Trie'[n].made
               /\ path[Child(n, d)'] = Append(path[n], d)
    <3>1. CASE n = node /\ d = c
      BY <1>3, <1>6, <1>7, <3>1
    <3>2. CASE ~(n = node /\ d = c)
      <4>1. Child(n, d)' = Child(n, d)
        BY <1>7, <3>2
      <4>2. /\ Child(n, d) \in Nodes /\ Trie[n].made /\ path[Child(n, d)] = Append(path[n], d)
        BY <2>1, <4>1 DEF Whole, Tree
      <4> QED BY <1>6, <1>7, <4>1, <4>2
    <3> QED BY <3>1, <3>2
  <2>2. ASSUME NEW n \in Nodes, n # 1, Safe(path[n])
        PROVE  \E m \in Nodes : \E d \in Nat : path[n] = Append(path[m], d) /\ Child(m, d)' = n
    <3>1. CASE n = child
      BY <1>3, <1>4, <1>7, <3>1
    <3>2. CASE n # child
      <4>1. PICK m \in Nodes, d \in Nat : path[n] = Append(path[m], d) /\ Child(m, d) = n
        BY <1>6, <2>2, <3>2 DEF Whole, Tree
      <4>2. ~(m = node /\ d = c)
        BY <1>3, <1>4, <1>8, <2>2, <4>1
      <4>3. Child(m, d)' = n
        BY <1>7, <4>1, <4>2
      <4> QED BY <4>1, <4>3
    <3> QED BY <3>1, <3>2
  <2>3. \A n \in Nodes : /\ DOMAIN Trie'[n] = {"made", "Children", "IsEnd", "Value"}
                         /\ Trie'[n].made \in BOOLEAN
    BY <1>7 DEF Whole, Tree
  <2> QED BY <1>6, <1>7, <1>8, <2>1, <2>2, <2>3 DEF Whole, Tree, Safe
<1>10. Values(path)'
  <2>1. \A w : AddedAt(w)' = AddedAt(w)
    BY <1>2, AddedKept
  <2> QED BY <1>6, <1>7, <2>1, ValuesKept DEF Whole
<1>11. Insertion(f, path)'
  <2>1. Word(f)' = Word(f) /\ Rune(f)' = c
    BY <1>0, <1>2 DEF Word, Rune
  <2>2. Child(node, c)' # 0 /\ Trie'[node].made /\ ~Fresh(node)'
    BY <1>3, <1>6, <1>7, <1>8
  <2> QED BY <1>0, <1>2, <1>3, <1>8, <2>1, <2>2 DEF Insertion, Child
<1>12. ASSUME NEW g \in Files, g # f, mapPc'[g] \in Inserting PROVE Insertion(g, path)'
  <2>1. /\ mapPc'[g] = mapPc[g] /\ local'[g] = local[g] /\ mapPc[g] \in Inserting
        /\ mapPc[g] # "write" /\ mapPc[g] # "add"
    BY <1>1, <1>5, <1>12 DEF Alone
  <2>2. PICK n, d, q : n = local[g].node /\ d = Rune(g) /\ q = Word(g)
    OBVIOUS
  <2>3. n = local'[g].node /\ Word(g)' = q /\ Rune(g)' = d
    BY <2>1, <2>2 DEF Word, Rune
  <2>4. Insertion(g, path) /\ n \in Nodes
    BY <2>1, <2>2 DEF Whole, Insertion
  <2>5. Trie[n].made => Trie'[n].made
    BY <1>7, <2>4
  <2>6. Child(n, d) # 0 => Child(n, d)' # 0
    BY <1>3, <1>7, <1>8, <2>4
  <2>7. mapPc[g] = "create" /\ local[g].child # 0 => Child(n, d)' # 0
    <3>1. ASSUME NEW h \in Writers(n), Rune(h) = d PROVE Child(n, d)' # 0
      <4>1. n = node /\ h = f /\ d = c
        BY <1>0, <1>6, <3>1
      <4> QED BY <1>3, <1>7, <1>8, <4>1
    <3> QED BY <2>2, <2>4, <2>6, <3>1 DEF Insertion
  <2>8. mapPc[g] = "create" /\ local[g].child = 0 /\ Safe(q) => Child(n, d)' = 0
    <3> SUFFICES ASSUME mapPc[g] = "create", local[g].child = 0, Safe(q) PROVE Child(n, d)' = 0
      OBVIOUS
    <3>1. Child(n, d) = 0
      BY <2>2, <2>4 DEF Insertion
    <3>2. local[g].char <= Len(Word(g))
      BY <2>4 DEF Insertion
    <3>3. Append(path[n], d)[1] = q[1]
      BY <2>1, <2>2, <2>4, <3>2, NextRune
    <3>4. mapPc[f] \in InWord /\ mapPc[g] \in InWord
      BY <1>2, <2>1 DEF Inserting, InWord
    <3>5. q[1] # Word(f)[1]
      BY <1>12, <2>2, <3>4, Owner
    <3>6. ~(n = node /\ d = c)
      BY <1>4, <3>3, <3>5
    <3> QED BY <1>7, <2>4, <3>1, <3>6
  <2>9. mapPc[g] = "descend" => Child(n, d)' # 0
    BY <2>2, <2>4, <2>6 DEF Insertion
  <2>10. mapPc'[g] \in Inserting => ~Fresh(n)'
    BY <1>6
  <2>11. /\ local'[g].char \in 1 .. Len(q) + 1
         /\ path[n] = SubSeq(q, 1, local'[g].char - 1)
         /\ mapPc[g] \in {"lookup", "create", "write", "descend"} =>
              local'[g].char <= Len(q) /\ Trie[n].made
    BY <2>1, <2>2, <2>4 DEF Insertion
  <2> QED BY <1>8, <2>1, <2>3, <2>4, <2>5, <2>7, <2>8, <2>9, <2>10, <2>11 DEF Insertion, Safe, Child
<1> QED BY <1>9, <1>10, <1>11, <1>12 DEF Whole

\* Counting the word.
LEMMA CountOne ==
    ASSUME IInv, EInv, NEW f \in Files, Map(f), AddStore(f), NEW w \in Keys, w = Word(f)
    PROVE  /\ \A key : key # w => AddedAt(key)' = AddedAt(key)
           /\ Cardinality(AddedAt(w)') = Cardinality(AddedAt(w)) + 1
           /\ AddedAt(w)' # {}
PROOF
<1>0. PICK n : n = local[f].word
  OBVIOUS
<1>1. Alone(f) /\ LocalOf(f) /\ DOMAIN local = Files
  BY MapAlone DEF EInv
<1>2. n \in Nat \ {0} /\ local'[f].word = n + 1 /\ Content[f][n] = w
  BY <1>0, <1>1 DEF AddStore, LocalOf, Word
<1>3. \A g \in Files : 1 .. local'[g].word - 1
                         = IF g = f THEN (1 .. n - 1) \cup {n} ELSE 1 .. local[g].word - 1
  <2>1. 1 .. (n + 1) - 1 = (1 .. n - 1) \cup {n}
    BY <1>2
  <2>2. \A g \in Files : g # f => local'[g] = local[g]
    BY <1>1 DEF Alone
  <2> QED BY <1>2, <2>1, <2>2
<1>4. ASSUME NEW key PROVE AddedAt(key)' = AddedAt(key) \cup {at \in {<<f, n>>} : w = key}
  <2> DEFINE A == UNION {{g} \X (1 .. local[g].word - 1) : g \in Files}
             B == UNION {{g} \X (1 .. local'[g].word - 1) : g \in Files}
  <2>1. B = A \cup {<<f, n>>}
    <3>1. \A g, k : <<g, k>> \in A <=> g \in Files /\ k \in 1 .. local[g].word - 1
      OBVIOUS
    <3>2. \A g, k : <<g, k>> \in B <=> g \in Files /\ k \in 1 .. local'[g].word - 1
      OBVIOUS
    <3>3. \A at \in A \cup B : \E g, k : at = <<g, k>>
      OBVIOUS
    <3> HIDE DEF A, B
    <3>4. \A g, k : <<g, k>> \in B <=> <<g, k>> \in A \cup {<<f, n>>}
      <4>1. local[f].word = n
        BY <1>0
      <4> QED BY <1>3, <3>1, <3>2, <4>1
    <3>5. \A at \in {<<f, n>>} : \E g, k : at = <<g, k>>
      OBVIOUS
    <3> QED BY <3>3, <3>4, <3>5
  <2>2. <<f, n>>[1] = f /\ <<f, n>>[2] = n
    OBVIOUS
  <2>3. /\ AddedAt(key) = {at \in A : Content[at[1]][at[2]] = key}
        /\ AddedAt(key)' = {at \in B : Content[at[1]][at[2]] = key}
    BY DEF AddedAt
  <2> HIDE DEF A, B
  <2> QED BY <1>2, <2>1, <2>2, <2>3
<1>5. <<f, n>> \notin AddedAt(w)
  <2>1. n \notin 1 .. n - 1
    BY <1>2
  <2> QED BY <1>0, <2>1 DEF AddedAt
<1>6. AddedAt(w)' = AddedAt(w) \cup {<<f, n>>} /\ \A key : key # w => AddedAt(key)' = AddedAt(key)
  BY <1>4
<1>7. IsFiniteSet(AddedAt(w))
  BY <1>0, AddedFinite
<1>8. Cardinality(AddedAt(w) \cup {<<f, n>>}) = Cardinality(AddedAt(w)) + 1
  BY <1>5, <1>7, FS_AddElement
<1> QED BY <1>6, <1>8

\* A mapper counts its word.
LEMMA AddWhole ==
    ASSUME IInv, EInv, \A g \in Files : Mapper(g), NEW path, Whole(path), NEW f \in Files,
           Map(f), AddStore(f)
    PROVE  Whole(path)'
PROOF
<1>0. PICK node, w : node = local[f].node /\ w = Word(f)
  OBVIOUS
<1>1. Alone(f) /\ DOMAIN mapPc = Files /\ Mapper(f) /\ LocalOf(f) /\ DOMAIN local = Files
  BY MapAlone DEF IInv, Places, EInv
<1>2. /\ mapPc[f] = "add" /\ mapPc'[f] = "scan" /\ trieMutex = f
      /\ Trie' = [Trie EXCEPT ![node].IsEnd = TRUE, ![node].Value = local[f].old + 1]
  BY <1>0, <1>1 DEF AddStore, Goto, Mapper
<1>3. /\ Insertion(f, path) /\ node \in Nodes /\ path[node] = w /\ ~Fresh(node)
      /\ local[f].old = Trie[node].Value /\ w \in Keys /\ w # << >>
  <2>1. Insertion(f, path) /\ w \in Keys /\ w # << >> /\ Len(w) \in Nat
    BY <1>0, <1>2, WordOf DEF Whole, Inserting, InWord
  <2>2. SubSeq(w, 1, (Len(w) + 1) - 1) = w
    BY <2>1, Prefixes
  <2> QED BY <1>0, <1>2, <2>1, <2>2 DEF Insertion
<1>4. node # 1
  BY <1>3 DEF Whole, Tree
<1>5. \A g \in Files : g # f => mapPc[g] # "write" /\ mapPc[g] # "add"
  <2>1. trieMutex \in {0, f}
    BY <1>2
  <2>2. \A g \in Files : g # f => mapPc[g] \notin {"write", "add"}
    BY <2>1, NoWriter
  <2> QED BY <2>2
<1>6. /\ \A n : Fresh(n)' <=> Fresh(n)
      /\ \A n : /\ Writers(n)' = Writers(n) /\ \A h \in Writers(n) : local'[h] = local[h]
  BY <1>1, <1>2, FreshKept
<1>7. /\ IsSeq(Trie') /\ Len(Trie') = Len(Trie)
      /\ \A n \in Nodes : /\ DOMAIN Trie'[n] = DOMAIN Trie[n] /\ Trie'[n].made = Trie[n].made
                          /\ \A d : Child(n, d)' = Child(n, d)
                          /\ n # node => Trie'[n] = Trie[n]
      /\ Trie'[node].Value = Trie[node].Value + 1 /\ Trie'[node].IsEnd = TRUE
  <2>1. PICK new : new = [[Trie[node] EXCEPT !.IsEnd = TRUE] EXCEPT !.Value = local[f].old + 1]
    OBVIOUS
  <2>2. /\ IsSeq(Trie) /\ node \in 1 .. Len(Trie)
        /\ DOMAIN Trie[node] = {"made", "Children", "IsEnd", "Value"}
    BY <1>3 DEF Whole, Tree, Nodes
  <2>3. Trie' = Put(Trie, node, new)
    BY <1>2, <2>1, <2>2 DEF Put
  <2>4. /\ DOMAIN new = DOMAIN Trie[node] /\ new.made = Trie[node].made
        /\ new.Children = Trie[node].Children
        /\ new.Value = Trie[node].Value + 1 /\ new.IsEnd = TRUE
    BY <1>3, <2>1, <2>2
  <2>5. /\ IsSeq(Trie') /\ Len(Trie') = Len(Trie)
        /\ \A n \in Nodes : Trie'[n] = IF n = node THEN new ELSE Trie[n]
    BY <2>2, <2>3, OneNode DEF Nodes
  <2>6. \A n \in Nodes : Trie'[n].Children = Trie[n].Children
    BY <2>4, <2>5
  <2>7. \A n \in Nodes : \A d : Child(n, d)' = Child(n, d)
    BY <2>6 DEF Child
  <2> QED BY <1>3, <2>4, <2>5, <2>7
<1>8. Nodes' = Nodes
  BY <1>7 DEF Nodes
<1>9. Tree(path)'
  <2>1. \A n \in Nodes : Trie[n].made \in BOOLEAN
    BY DEF Whole, Tree
  <2>2. Tree(path)
    BY DEF Whole
  <2>3. \A n \in Nodes : /\ DOMAIN Trie'[n] = DOMAIN Trie[n]
                         /\ Trie'[n].made \in BOOLEAN
                         /\ Trie[n].made => Trie'[n].made
                         /\ Fresh(n)' <=> Fresh(n)
                         /\ \A c \in Nat : Child(n, c)' = Child(n, c)
    BY <1>6, <1>7, <2>1
  <2> QED BY <1>7, <2>2, <2>3, TreeKept
<1>10. /\ \A key : key # w => AddedAt(key)' = AddedAt(key)
       /\ Cardinality(AddedAt(w)') = Cardinality(AddedAt(w)) + 1
       /\ Cardinality(AddedAt(w)) \in Nat
  BY <1>0, <1>3, CountOne, AddedFinite
<1>11. /\ Trie[node].Value \in Nat /\ Trie[node].Value <= Cardinality(AddedAt(w))
       /\ Safe(w) => Trie[node].Value = Cardinality(AddedAt(w))
  <2>1. ASSUME Safe(w), ~Trie[node].IsEnd PROVE AddedAt(w) = {}
    <3> SUFFICES ASSUME AddedAt(w) # {} PROVE FALSE
      OBVIOUS
    <3>1. w \in Words
      BY <1>0, <1>2, WordOf DEF InWord
    <3>2. PICK n \in Nodes : path[n] = w /\ Trie[n].IsEnd
      BY <2>1, <3>1 DEF Whole, Values
    <3>3. n = node
      BY <1>3, <1>4, <2>1, <3>2 DEF Whole, Tree
    <3> QED BY <2>1, <3>2, <3>3
  <2>2. Trie[node].IsEnd \in BOOLEAN /\ (~Trie[node].IsEnd => Trie[node].Value = 0)
    BY <1>3 DEF Whole, Values
  <2>3. Trie[node].IsEnd /\ Safe(w) => Trie[node].Value = Cardinality(AddedAt(w))
    BY <1>3 DEF Whole, Values
  <2>4. Trie[node].Value \in Nat /\ Trie[node].Value <= Cardinality(AddedAt(w))
    BY <1>3 DEF Whole, Values
  <2> QED BY <2>1, <2>2, <2>3, <2>4, FS_EmptySet
<1>12. Values(path)'
  <2>1. ASSUME NEW n \in Nodes
        PROVE  /\ Trie'[n].Value \in Nat /\ Trie'[n].IsEnd \in BOOLEAN
               /\ Trie'[n].IsEnd => ~Fresh(n)'
               /\ ~Trie'[n].IsEnd => Trie'[n].Value = 0
               /\ Trie'[n].Value <= Cardinality(AddedAt(path[n])')
               /\ Trie'[n].IsEnd /\ Safe(path[n]) => Trie'[n].Value = Cardinality(AddedAt(path[n])')
    <3>1. CASE n = node
      <4>1. Trie'[n].Value = Trie[node].Value + 1 /\ Trie'[n].IsEnd = TRUE /\ path[n] = w
        BY <1>3, <1>7, <3>1
      <4>2. ~Fresh(n)'
        BY <1>3, <1>6, <3>1
      <4>3. Cardinality(AddedAt(path[n])') = Cardinality(AddedAt(w)) + 1
        BY <1>10, <4>1
      <4>4. Trie'[n].Value \in Nat /\ Trie'[n].Value <= Cardinality(AddedAt(path[n])')
        BY <1>10, <1>11, <4>1, <4>3
      <4>5. Safe(path[n]) => Trie'[n].Value = Cardinality(AddedAt(path[n])')
        BY <1>11, <4>1, <4>3
      <4> QED BY <4>1, <4>2, <4>4, <4>5
    <3>2. CASE n # node
      <4>1. /\ Trie'[n] = Trie[n]
            /\ Trie[n].Value \in Nat /\ Trie[n].IsEnd \in BOOLEAN
            /\ Trie[n].IsEnd => ~Fresh(n)
            /\ ~Trie[n].IsEnd => Trie[n].Value = 0
            /\ Trie[n].Value <= Cardinality(AddedAt(path[n]))
            /\ Trie[n].IsEnd /\ Safe(path[n]) => Trie[n].Value = Cardinality(AddedAt(path[n]))
        BY <1>7, <3>2 DEF Whole, Values
      <4>2. CASE path[n] # w
        BY <1>6, <1>10, <4>1, <4>2
      <4>3. CASE path[n] = w
        <5>1. ~Safe(w)
          BY <1>3, <1>4, <3>2, <4>3 DEF Whole, Tree
        <5> QED BY <1>6, <1>10, <4>1, <4>3, <5>1
      <4> QED BY <4>2, <4>3
    <3> QED BY <3>1, <3>2
  <2>2. ASSUME NEW v \in Words, Safe(v), AddedAt(v)' # {}
        PROVE  \E n \in Nodes : path[n] = v /\ Trie'[n].IsEnd
    <3>1. CASE v = w
      BY <1>3, <1>7, <3>1
    <3>2. CASE v # w
      <4>1. PICK n \in Nodes : path[n] = v /\ Trie[n].IsEnd
        BY <1>10, <2>2, <3>2 DEF Whole, Values
      <4>2. n # node
        BY <1>3, <3>2, <4>1
      <4> QED BY <1>7, <4>1, <4>2
    <3> QED BY <3>1, <3>2
  <2> QED BY <1>8, <2>1, <2>2 DEF Values, Safe
<1>13. ASSUME NEW g \in Files, mapPc'[g] \in Inserting PROVE Insertion(g, path)'
  <2>1. /\ g # f /\ mapPc'[g] = mapPc[g] /\ local'[g] = local[g] /\ mapPc[g] \in Inserting
        /\ mapPc[g] # "add"
    BY <1>1, <1>2, <1>5, <1>13 DEF Alone, Inserting
  <2>2. Insertion(g, path)
    BY <2>1 DEF Whole
  <2>3. PICK n, d : n = local[g].node /\ d = Rune(g)
    OBVIOUS
  <2>4. n = local'[g].node /\ Rune(g)' = d
    BY <2>1, <2>3 DEF Rune, Word
  <2>5. n \in Nodes
    BY <2>2, <2>3 DEF Insertion
  <2>6. /\ Child(n, d)' = Child(n, d) /\ (Fresh(n)' => Fresh(n))
        /\ Trie'[n].made = Trie[n].made /\ Writers(n)' = Writers(n)
    BY <1>6, <1>7, <2>5
  <2>7. /\ Child(local[g].node, Rune(g))' = Child(local[g].node, Rune(g))
        /\ Fresh(local[g].node)' => Fresh(local[g].node)
        /\ Writers(local[g].node)' = Writers(local[g].node)
    BY <2>3, <2>4, <2>6 DEF Child, Fresh, Writers
  <2> QED BY <1>6, <1>8, <2>1, <2>2, <2>3, <2>6, <2>7, InsertionKept
<1> QED BY <1>9, <1>12, <1>13 DEF Whole

\* WInv holds at the start.
LEMMA InitTrie == Init => WInv
PROOF
<1> SUFFICES ASSUME Init PROVE WInv
  OBVIOUS
<1>1. PICK path : path = [n \in 1 .. 1 |-> << >>]
  OBVIOUS
<1>2. /\ mapPc = [f \in Files |-> "unborn"] /\ Trie = <<NewNode>> /\ Len(Trie) = 1
      /\ \A f \in Files : local[f].word = 1 /\ local[f].panicking = FALSE
  BY DEF Init
<1>3. \A f \in Files : Mapper(f) /\ mapPc[f] \notin Inserting
  BY <1>2 DEF Mapper, Inserting, Lost
<1>4. /\ IsSeq(Trie) /\ Nodes = {1} /\ Trie[1] = NewNode
      /\ \A n \in Nodes : path[n] = << >> /\ << >> \in Keys
  <2>1. Trie \in Seq({NewNode})
    BY <1>2
  <2>2. << >> \in Keys
    BY DEF Keys
  <2>3. 1 .. 1 = {1}
    OBVIOUS
  <2> QED BY <1>1, <1>2, <2>1, <2>2, <2>3 DEF IsSeq, Nodes
<1>5. /\ NewNode.Children = << >> /\ NewNode.made = FALSE /\ NewNode.IsEnd = FALSE
      /\ NewNode.Value = 0 /\ DOMAIN NewNode = {"made", "Children", "IsEnd", "Value"}
      /\ DOMAIN << >> = {}
  BY DEF NewNode
<1>6. \A n \in Nodes : \A c : Child(n, c) = 0
  BY <1>4, <1>5 DEF Child
<1>7. \A n : ~Fresh(n)
  BY <1>2 DEF Fresh
<1>8. Tree(path)
  <2>1. path \in [Nodes -> Keys]
    BY <1>1, <1>4
  <2> QED BY <1>4, <1>5, <1>6, <1>7, <2>1 DEF Tree
<1>9. \A key : AddedAt(key) = {}
  <2>1. \A f \in Files : 1 .. local[f].word - 1 = {}
    BY <1>2
  <2> QED BY <2>1 DEF AddedAt
<1>10. Values(path)
  <2>1. Cardinality({}) = 0
    BY FS_EmptySet
  <2>2. \A n \in Nodes : /\ Trie[n].Value = 0 /\ ~Trie[n].IsEnd /\ Trie[n].IsEnd \in BOOLEAN
                         /\ Cardinality(AddedAt(path[n])) = 0
    BY <1>4, <1>5, <1>9, <2>1
  <2> QED BY <1>9, <2>2 DEF Values
<1> QED BY <1>3, <1>8, <1>10 DEF WInv, Whole

\* The lock of the trie and the end of a file.
LEMMA MapMappers ==
    ASSUME IInv, EInv, \A g \in Files : Mapper(g), NEW f \in Files, Map(f)
    PROVE  \A g \in Files : Mapper(g)'
PROOF
<1>1. /\ Alone(f) /\ DOMAIN mapPc = Files /\ DOMAIN local = Files /\ Mapper(f) /\ f # 0
      /\ local[f].word \in Nat \ {0} /\ local[f].word <= Len(Content[f]) + 1
      /\ Len(Content[f]) \in Nat /\ LocalOf(f)
  BY MapAlone, Sizes, Contents DEF IInv, Places, EInv, LocalOf
<1>2. Mapper(f)' /\ (trieMutex' = trieMutex \/ trieMutex = 0 \/ trieMutex = f)
  <2>0. CASE OpenFails(f)
    BY <1>1, <2>0 DEF OpenFails, Goto, Mapper, Lost, LocalOf
  <2> SUFFICES ASSUME ~OpenFails(f)
               PROVE  Mapper(f)' /\ (trieMutex' = trieMutex \/ trieMutex = 0 \/ trieMutex = f)
    BY <2>0
  <2>6. f \in Lost' <=> f \in Lost
    BY LostKept
  <2>1. CASE Open(f) \/ Scan(f) \/ ReleaseMapper(f) \/ MapperDone(f) \/ Die(f)
    BY <1>1, <2>1, <2>6 DEF Open, Scan, ReleaseMapper, MapperDone, Die, Goto, mapVars, Mapper
  <2>2. CASE EmitLock(f) \/ EmitStore(f)
    BY <1>1, <2>2, <2>6 DEF EmitLock, EmitStore, Goto, Mapper
  <2>3. CASE MakeChildren(f) \/ Lookup(f) \/ MapRace(f) \/ KeepChild(f)
    BY <1>1, <2>3, <2>6 DEF MakeChildren, Lookup, MapRace, KeepChild, Goto, Mapper
  <2>4. CASE CreateChild(f) \/ Descend(f) \/ AddLock(f)
    BY <1>1, <2>4, <2>6 DEF CreateChild, Descend, AddLock, Goto, Mapper, TrieFree
  <2>5. CASE LinkChild(f) \/ AddStore(f)
    BY <1>1, <2>5, <2>6 DEF LinkChild, AddStore, Goto, Mapper
  <2> QED BY <2>1, <2>2, <2>3, <2>4, <2>5 DEF Map, Insert
<1> QED BY <1>1, <1>2, MappersKept

\* WInv is inductive, with IInv and EInv.
LEMMA StepTrie == IInv /\ EInv /\ WInv /\ [Next]_vars => WInv'
PROOF
<1> SUFFICES ASSUME IInv, EInv, WInv, [Next]_vars PROVE WInv'
  OBVIOUS
<1>1. PICK path : Whole(path)
  BY DEF WInv
<1>2. \A g \in Files : Mapper(g)
  BY DEF WInv
<1>3. ASSUME NEW f \in Files, Map(f) PROVE WInv'
  <2>1. CASE ~Insert(f)
    BY <1>1, <1>2, <1>3, <2>1, OutsideWhole, MapMappers DEF WInv
  <2>2. CASE Lookup(f) \/ MapRace(f) \/ KeepChild(f) \/ Descend(f) \/ AddLock(f)
    BY <1>1, <1>2, <1>3, <2>2, ReadWhole, MapMappers DEF WInv
  <2>3. CASE MakeChildren(f)
    BY <1>1, <1>2, <1>3, <2>3, MakeWhole, MapMappers DEF WInv
  <2>4. CASE CreateChild(f)
    BY <1>1, <1>2, <1>3, <2>4, CreateWhole, MapMappers DEF WInv
  <2>5. CASE LinkChild(f)
    BY <1>1, <1>2, <1>3, <2>5, LinkWhole, MapMappers DEF WInv
  <2>6. CASE AddStore(f)
    BY <1>1, <1>2, <1>3, <2>6, AddWhole, MapMappers DEF WInv
  <2> QED BY <2>1, <2>2, <2>3, <2>4, <2>5, <2>6 DEF Insert
<1>4. CASE StartMapper
  <2>1. PICK f \in Files : f = next
    BY <1>4 DEF StartMapper
  <2>2. /\ DOMAIN mapPc = Files /\ mapPc' = [mapPc EXCEPT ![f] = "open"]
        /\ UNCHANGED <<local, Trie, trieMutex>> /\ DOMAIN local = Files /\ Mapping
    BY <1>4, <2>1 DEF StartMapper, IInv, Places, EInv, Mapping, Reducing
  <2>3. mapPc[f] = "unborn" /\ mapPc'[f] = "open" /\ Alone(f)
    <3>1. f \in Int
      BY Sizes
    <3>2. f >= next
      BY <2>1, <3>1
    <3>3. mapPc[f] = "unborn"
      BY <2>2, <3>2 DEF Mapping
    <3>4. Alone(f) /\ mapPc'[f] = "open"
      BY <2>2 DEF Alone
    <3> QED BY <3>3, <3>4
  <2>4. SameTrie
    BY <1>1, <2>2, StillTrie DEF Whole
  <2>5. Whole(path)'
    BY <1>1, <2>2, <2>3, <2>4, QuietWhole DEF Inserting
  <2>6. \A g \in Files : Mapper(g)'
    BY <1>2, <2>2, <2>3, MappersKept DEF Mapper, Lost
  <2> QED BY <2>5, <2>6 DEF WInv
<1>5. CASE UNCHANGED <<mapPc, local, trieMutex, Trie>>
  <2>1. \A n : (Fresh(n)' <=> Fresh(n)) /\ Writers(n)' = Writers(n)
    BY <1>5 DEF Fresh, Writers
  <2>2. SameTrie
    BY <1>1, <1>5, StillTrie DEF Whole
  <2>3. Tree(path)'
    BY <1>1, <2>1, <2>2, TreeKept DEF Whole, SameTrie
  <2>4. \A key : AddedAt(key)' = AddedAt(key)
    BY <1>5, AddedKept
  <2>5. Values(path)'
    BY <1>1, <2>1, <2>2, <2>4, ValuesKept DEF Whole, SameTrie
  <2>6. \A g \in Files : Mapper(g)'
    BY <1>2, <1>5 DEF Mapper, Lost
  <2>7. ASSUME NEW g \in Files, mapPc'[g] \in Inserting PROVE Insertion(g, path)'
    <3>1. Insertion(g, path)
      BY <1>1, <1>5, <2>7 DEF Whole
    <3> QED BY <1>5, <3>1 DEF Insertion, Fresh, Writers, Child, Nodes, Word, Rune, Safe
  <2> QED BY <2>3, <2>5, <2>6, <2>7 DEF WInv, Whole
<1>6. CASE Main
  BY <1>4, <1>5, <1>6 DEF Main, MappersStarted, MappersDone, StartReducer, ReducersStarted,
                          ReducersDone, mapVars
<1>7. CASE \E p \in Partitions : Reducer(p)
  BY <1>5, <1>7 DEF Reducer, mapVars
<1>8. CASE UNCHANGED vars
  BY <1>5, <1>8 DEF vars
<1> QED BY <1>3, <1>6, <1>7, <1>8 DEF Next

-----------------------------------------------------------------------------
(* Search.                                                                 *)

\* h holds the nodes that Search passes in the trie T, up to the n-th rune.
ChildIn(T, node, c) ==
    IF c \in DOMAIN T[node].Children THEN T[node].Children[c] ELSE 0
WalkStep(T, h, key, i) ==
    IF i = 0 THEN 1 ELSE IF h[i - 1] = 0 THEN 0 ELSE ChildIn(T, h[i - 1], key[i])
Walks(T, h, key, n) == h = [i \in 0 .. n |-> WalkStep(T, h, key, i)]

\* A function with the equation of the walk exists.
LEMMA WalkExists ==
    ASSUME NEW T, NEW key, NEW n \in Nat
    PROVE  \E h : Walks(T, h, key, n)
PROOF
<1> DEFINE I == {k \in Nat : \E h : Walks(T, h, key, k)}
<1>1. 0 \in I
  <2> DEFINE h == [i \in 0 .. 0 |-> 1]
  <2>1. \A i \in 0 .. 0 : h[i] = WalkStep(T, h, key, i)
    BY DEF WalkStep
  <2>2. h = [i \in 0 .. 0 |-> h[i]]
    OBVIOUS
  <2>3. Walks(T, h, key, 0)
    BY <2>1, <2>2 DEF Walks
  <2> QED BY <2>3
<1>2. ASSUME NEW k \in Nat, k \in I PROVE k + 1 \in I
  <2>1. PICK g : Walks(T, g, key, k)
    BY <1>2
  <2> DEFINE h == [i \in 0 .. k + 1 |->
                     IF i = k + 1 THEN WalkStep(T, g, key, i) ELSE g[i]]
  <2>2. \A i \in 0 .. k : h[i] = g[i] /\ g[i] = WalkStep(T, g, key, i)
    BY <2>1 DEF Walks
  <2>3. ASSUME NEW i \in 0 .. k + 1 PROVE h[i] = WalkStep(T, h, key, i)
    <3>1. h[i] = WalkStep(T, g, key, i)
      <4>1. CASE i = k + 1
        BY <4>1
      <4>2. CASE i # k + 1
        <5>1. i \in 0 .. k
          BY <4>2
        <5> QED BY <2>2, <5>1
      <4> QED BY <4>1, <4>2
    <3>2. i # 0 => i - 1 \in 0 .. k
      OBVIOUS
    <3>3. i # 0 => h[i - 1] = g[i - 1]
      BY <2>2, <3>2
    <3> HIDE DEF h
    <3> QED BY <3>1, <3>3 DEF WalkStep
  <2>4. h = [i \in 0 .. k + 1 |-> h[i]]
    OBVIOUS
  <2> HIDE DEF h
  <2>5. h = [i \in 0 .. k + 1 |-> WalkStep(T, h, key, i)]
    BY <2>3, <2>4
  <2> QED BY <2>5 DEF Walks
<1>3. \A k \in Nat : k \in I
  <2> HIDE DEF I
  <2> QED BY <1>1, <1>2, Induction
<1> QED BY <1>3

\* Two functions with the equation of the walk are equal.
LEMMA WalkUnique ==
    ASSUME NEW T, NEW key, NEW n \in Nat, NEW h, NEW g, Walks(T, h, key, n), Walks(T, g, key, n)
    PROVE  h = g
PROOF
<1> DEFINE I == {i \in Nat : i <= n => h[i] = g[i]}
<1>1. \A i \in 0 .. n : h[i] = WalkStep(T, h, key, i) /\ g[i] = WalkStep(T, g, key, i)
  BY DEF Walks
<1>2. 0 \in I
  BY <1>1 DEF WalkStep
<1>3. ASSUME NEW i \in Nat, i \in I PROVE i + 1 \in I
  <2> SUFFICES ASSUME i + 1 <= n PROVE h[i + 1] = g[i + 1]
    OBVIOUS
  <2>1. h[i] = g[i] /\ i + 1 \in 0 .. n /\ (i + 1) - 1 = i /\ i + 1 # 0
    BY <1>3
  <2> QED BY <1>1, <2>1 DEF WalkStep
<1>4. \A i \in Nat : i \in I
  <2> HIDE DEF I
  <2> QED BY <1>2, <1>3, Induction
<1>5. \A i \in 0 .. n : h[i] = g[i]
  BY <1>4
<1> QED BY <1>5 DEF Walks

\* The node that Search ends at, and what it returns.
LastOf(T, key) == (CHOOSE h : Walks(T, h, key, Len(key)))[Len(key)]
SearchIn(T, key) ==
    IF LastOf(T, key) # 0 /\ T[LastOf(T, key)].IsEnd THEN T[LastOf(T, key)].Value ELSE 0

\* What Search returns, of this state and of the next.
LEMMA SearchIs == \A key : Search(key) = SearchIn(Trie, key) /\ Search(key)' = SearchIn(Trie', key)
PROOF BY DEF Search, SearchIn, LastOf, Walks, WalkStep, ChildIn, Child

\* The walk ends where Search does.
LEMMA LastIs ==
    ASSUME NEW T, NEW key, Len(key) \in Nat, NEW h, Walks(T, h, key, Len(key))
    PROVE  LastOf(T, key) = h[Len(key)]
PROOF
<1> DEFINE g == CHOOSE x : Walks(T, x, key, Len(key))
<1>1. Walks(T, g, key, Len(key))
  OBVIOUS
<1>2. g = h
  <2> HIDE DEF g
  <2> QED BY <1>1, WalkUnique
<1> QED BY <1>2 DEF LastOf

\* The nodes that Search passes have the prefixes of the key.
LEMMA WalkPath ==
    ASSUME NEW path, Tree(path), NEW w \in Keys, NEW h, Walks(Trie, h, w, Len(w))
    PROVE  \A i \in 0 .. Len(w) : h[i] = 0 \/ (h[i] \in Nodes /\ path[h[i]] = SubSeq(w, 1, i))
PROOF
<1> DEFINE Good(i) == h[i] = 0 \/ (h[i] \in Nodes /\ path[h[i]] = SubSeq(w, 1, i))
           I == {i \in Nat : i <= Len(w) => Good(i)}
<1>1. \A i \in 0 .. Len(w) : h[i] = WalkStep(Trie, h, w, i)
  BY DEF Walks
<1>2. Len(w) \in Nat /\ SubSeq(w, 1, 0) = << >>
  BY Prefixes
<1>3. 0 \in I
  <2>1. h[0] = 1
    BY <1>1, <1>2 DEF WalkStep
  <2> QED BY <1>2, <2>1 DEF Tree
<1>4. ASSUME NEW i \in Nat, i \in I PROVE i + 1 \in I
  <2> SUFFICES ASSUME i + 1 <= Len(w) PROVE Good(i + 1)
    OBVIOUS
  <2>1. Good(i) /\ i + 1 \in 0 .. Len(w) /\ (i + 1) - 1 = i /\ i + 1 # 0 /\ i + 1 \in 1 .. Len(w)
    BY <1>2, <1>4
  <2>2. h[i + 1] = IF h[i] = 0 THEN 0 ELSE Child(h[i], w[i + 1])
    BY <1>1, <2>1 DEF WalkStep, ChildIn, Child
  <2>3. w[i + 1] \in Nat /\ SubSeq(w, 1, i + 1) = Append(SubSeq(w, 1, i), w[i + 1])
    BY <2>1, Prefixes
  <2>4. CASE h[i] = 0
    <3>1. h[i + 1] = 0
      BY <2>2, <2>4
    <3> QED BY <3>1
  <2>5. CASE h[i] # 0
    <3>1. h[i] \in Nodes /\ path[h[i]] = SubSeq(w, 1, i)
      BY <2>1, <2>5
    <3>2. Child(h[i], w[i + 1]) # 0 =>
             /\ Child(h[i], w[i + 1]) \in Nodes
             /\ path[Child(h[i], w[i + 1])] = Append(path[h[i]], w[i + 1])
      BY <2>3, <3>1 DEF Tree
    <3>3. h[i + 1] = Child(h[i], w[i + 1])
      BY <2>2, <2>5
    <3>4. h[i + 1] # 0 => h[i + 1] \in Nodes /\ path[h[i + 1]] = SubSeq(w, 1, i + 1)
      BY <2>3, <3>1, <3>2, <3>3
    <3> QED BY <3>4
  <2> QED BY <2>4, <2>5
<1>5. \A i \in Nat : i \in I
  <2> HIDE DEF I
  <2> QED BY <1>3, <1>4, Induction
<1> QED BY <1>5

\* Of a safe key, Search passes every node on the way to one that has been linked.
LEMMA WalkSafe ==
    ASSUME NEW path, Tree(path), NEW w \in Keys, Safe(w), NEW h, Walks(Trie, h, w, Len(w)),
           NEW n \in Nodes, ~Fresh(n), path[n] = w
    PROVE  h[Len(w)] = n
PROOF
<1> DEFINE Good(i) == \A m \in Nodes : ~Fresh(m) /\ path[m] = SubSeq(w, 1, i) => h[i] = m
           I == {i \in Nat : i <= Len(w) => Good(i)}
<1>1. \A i \in 0 .. Len(w) : h[i] = WalkStep(Trie, h, w, i)
  BY DEF Walks
<1>2. Len(w) \in Nat /\ SubSeq(w, 1, 0) = << >> /\ SubSeq(w, 1, Len(w)) = w
  BY Prefixes
<1>3. 0 \in I
  <2>1. h[0] = 1
    BY <1>1, <1>2 DEF WalkStep
  <2> QED BY <1>2, <2>1 DEF Tree
<1>4. ASSUME NEW i \in Nat, i \in I PROVE i + 1 \in I
  <2> SUFFICES ASSUME i + 1 <= Len(w), NEW m \in Nodes, ~Fresh(m), path[m] = SubSeq(w, 1, i + 1)
               PROVE  h[i + 1] = m
    OBVIOUS
  <2>1. Good(i) /\ i + 1 \in 0 .. Len(w) /\ (i + 1) - 1 = i /\ i + 1 # 0 /\ i + 1 \in 1 .. Len(w)
        /\ i \in 0 .. Len(w)
    BY <1>2, <1>4
  <2>2. h[i + 1] = IF h[i] = 0 THEN 0 ELSE Child(h[i], w[i + 1])
    BY <1>1, <2>1 DEF WalkStep, ChildIn, Child
  <2>3. w[i + 1] \in Nat /\ SubSeq(w, 1, i + 1) = Append(SubSeq(w, 1, i), w[i + 1])
    <3>1. w \in Keys /\ i + 1 \in 1 .. Len(w)
      BY <2>1
    <3>2. w[i + 1] \in Nat /\ SubSeq(w, 1, i + 1) = Append(SubSeq(w, 1, (i + 1) - 1), w[i + 1])
      BY <3>1, Prefixes
    <3> QED BY <2>1, <3>2
  <2>31. SubSeq(w, 1, i) \in Keys
    BY <2>1, Prefixes
  <2>4. path[m] # << >> /\ m # 1
    <3>1. Append(SubSeq(w, 1, i), w[i + 1]) # << >>
      BY <2>3, <2>31, OneRune
    <3> QED BY <2>3, <3>1 DEF Tree
  <2>5. Safe(path[m])
    <3>1. SubSeq(w, 1, i + 1)[1] = w[1]
      BY <1>2, <2>1 DEF Keys
    <3> QED BY <3>1 DEF Safe
  <2>6. PICK l \in Nodes, c \in Nat : path[m] = Append(path[l], c) /\ Child(l, c) = m
    BY <2>4, <2>5 DEF Tree
  <2>7. path[l] = SubSeq(w, 1, i) /\ c = w[i + 1]
    <3>1. path[l] \in Keys /\ Append(path[l], c) = Append(SubSeq(w, 1, i), w[i + 1])
      BY <2>3, <2>6 DEF Tree
    <3>2. c \in Nat /\ w[i + 1] \in Nat /\ SubSeq(w, 1, i) \in Keys
      BY <2>3, <2>31
    <3>3. PICK s, d : s = SubSeq(w, 1, i) /\ d = w[i + 1]
      OBVIOUS
    <3>4. s \in Keys /\ path[l] \in Keys /\ d \in Nat /\ c \in Nat /\ Append(path[l], c) = Append(s, d)
      BY <3>1, <3>2, <3>3
    <3>5. path[l] = s /\ c = d
      BY <3>4, SameRunes
    <3> QED BY <3>3, <3>5
  <2>8. m # 0 /\ l # 0
    BY DEF Nodes
  <2>9. ~Fresh(l)
    BY <2>6, <2>8 DEF Tree
  <2>10. h[i] = l
    BY <2>1, <2>7, <2>9
  <2> QED BY <2>2, <2>6, <2>7, <2>8, <2>10
<1>5. \A i \in Nat : i \in I
  <2> HIDE DEF I
  <2> QED BY <1>3, <1>4, Induction
<1>6. Good(Len(w))
  BY <1>2, <1>5
<1> QED BY <1>2, <1>6

\* The words of the files and how often they occur.
LEMMA WordKeys == \A w \in Words : w \in Keys /\ w # << >>
PROOF
<1>1. \A f \in Files : \A n \in DOMAIN Content[f] : Content[f][n] \in Seq(Nat) \ {<< >>}
  BY InputAssumption
<1> QED BY <1>1 DEF Words, Keys

OccurAt(files, key) ==
    {at \in UNION {{f} \X DOMAIN Content[f] : f \in files} : Content[at[1]][at[2]] = key}

\* How often a word occurs in the files that are not lost.
Due(key) == Occurrences(Files \ Lost, key)

\* A word occurs finitely often.
LEMMA OccurFinite ==
    ASSUME NEW S \in SUBSET Files, NEW key
    PROVE  /\ IsFiniteSet(OccurAt(S, key)) /\ Cardinality(OccurAt(S, key)) \in Nat
           /\ Occurrences(S, key) = Cardinality(OccurAt(S, key))
PROOF
<1> DEFINE T == {{f} \X DOMAIN Content[f] : f \in S}
           g == [f \in S |-> {f} \X DOMAIN Content[f]]
<1>1. IsFiniteSet(S)
  BY FilesFinite
<1>2. g \in Surjection(S, T)
  BY DEF Surjection
<1>3. IsFiniteSet(T)
  <2> HIDE DEF g, T
  <2> QED BY <1>1, <1>2, FS_Surjection
<1>4. ASSUME NEW f \in S PROVE IsFiniteSet({f} \X DOMAIN Content[f])
  <2>1. Len(Content[f]) \in Nat /\ DOMAIN Content[f] = 1 .. Len(Content[f])
    BY Contents
  <2>2. IsFiniteSet(DOMAIN Content[f]) /\ IsFiniteSet({f})
    <3>1. 1 \in Int /\ Len(Content[f]) \in Int
      BY <2>1
    <3>2. IsFiniteSet(1 .. Len(Content[f]))
      BY <3>1, FS_Interval
    <3> QED BY <2>1, <3>2, FS_Singleton
  <2> QED BY <2>2, FS_Product
<1>5. \A t \in T : IsFiniteSet(t)
  BY <1>4
<1>6. IsFiniteSet(UNION T)
  <2> HIDE DEF T
  <2> QED BY <1>3, <1>5, FS_UNION
<1>7. OccurAt(S, key) \subseteq UNION T
  BY DEF OccurAt
<1>8. IsFiniteSet(OccurAt(S, key))
  <2> HIDE DEF T
  <2> QED BY <1>6, <1>7, FS_Subset
<1>9. Cardinality(OccurAt(S, key)) \in Nat
  BY <1>8, FS_CardinalityType
<1>10. Occurrences(S, key) = Cardinality(OccurAt(S, key))
  BY DEF Occurrences, OccurAt
<1> QED BY <1>8, <1>9, <1>10

LEMMA DueFinite ==
    \A key : /\ IsFiniteSet(OccurAt(Files \ Lost, key))
             /\ Due(key) = Cardinality(OccurAt(Files \ Lost, key)) /\ Due(key) \in Nat
PROOF
<1>1. Files \ Lost \in SUBSET Files
  OBVIOUS
<1> QED BY <1>1, OccurFinite DEF Due

\* What is counted and what is emitted occurs, and not in a lost file.
LEMMA AddedOccur ==
    ASSUME EInv, \A g \in Files : Mapper(g), NEW key \in Keys
    PROVE  /\ Cardinality(AddedAt(key)) <= Due(key) /\ Cardinality(EmittedAt(key)) <= Due(key)
           /\ Cardinality(AddedAt(key)) \in Nat /\ Cardinality(EmittedAt(key)) \in Nat
           /\ Due(key) \in Nat
PROOF
<1>1. \A f \in Files : /\ 1 .. local[f].word - 1 \subseteq Stored(f)
                       /\ Stored(f) \subseteq DOMAIN Content[f]
                       /\ f \in Lost => Stored(f) = {}
  <2> SUFFICES ASSUME NEW f \in Files
               PROVE  /\ 1 .. local[f].word - 1 \subseteq Stored(f)
                      /\ Stored(f) \subseteq DOMAIN Content[f]
                      /\ f \in Lost => Stored(f) = {}
    OBVIOUS
  <2>1. local[f].word \in Nat \ {0}
    BY DEF EInv, LocalOf
  <2>2. DOMAIN Content[f] = 1 .. Len(Content[f]) /\ Len(Content[f]) \in Nat
    BY Contents
  <2>3. 1 .. local[f].word - 1 \subseteq Stored(f)
    BY <2>1 DEF Stored
  <2>4. f \in Lost => Stored(f) = {}
    BY DEF Mapper, Stored
  <2> QED BY <2>2, <2>3, <2>4, StoredWords
<1> DEFINE O == OccurAt(Files \ Lost, key)
<1>2. AddedAt(key) \subseteq O /\ EmittedAt(key) \subseteq O
  BY <1>1 DEF AddedAt, EmittedAt, OccurAt
<1>3. IsFiniteSet(O) /\ Due(key) = Cardinality(O) /\ Due(key) \in Nat
  BY DueFinite
<1> HIDE DEF O
<1>4. /\ IsFiniteSet(AddedAt(key)) /\ Cardinality(AddedAt(key)) <= Cardinality(O)
      /\ IsFiniteSet(EmittedAt(key)) /\ Cardinality(EmittedAt(key)) <= Cardinality(O)
  BY <1>2, <1>3, FS_Subset
<1> QED BY <1>3, <1>4, FS_CardinalityType

\* What Search finds of each word, and of those that are not contested exactly.
Counted ==
    \A w \in Words :
      /\ Search(w) \in Nat /\ Search(w) <= Due(w)
      /\ Search(w) <= Cardinality(AddedAt(w))
      /\ w \notin Contested => Search(w) = Cardinality(AddedAt(w))

\* Search finds the node of a word, and its count.
LEMMA SearchFinds == EInv /\ WInv => Counted
PROOF
<1> SUFFICES ASSUME EInv, WInv, NEW w \in Words
             PROVE  /\ Search(w) \in Nat /\ Search(w) <= Due(w)
                    /\ Search(w) <= Cardinality(AddedAt(w))
                    /\ w \notin Contested => Search(w) = Cardinality(AddedAt(w))
  BY DEF Counted
<1>1. PICK path : Tree(path) /\ Values(path)
  BY DEF WInv, Whole
<1>2. /\ w \in Keys /\ Len(w) \in Nat
      /\ Cardinality(AddedAt(w)) <= Due(w) /\ Cardinality(AddedAt(w)) \in Nat
      /\ Due(w) \in Nat
  BY WordKeys, Prefixes, AddedOccur DEF WInv
<1>3. PICK h : Walks(Trie, h, w, Len(w))
  BY <1>2, WalkExists
<1>4. PICK last : last = h[Len(w)]
  OBVIOUS
<1>5. Search(w) = IF last # 0 /\ Trie[last].IsEnd THEN Trie[last].Value ELSE 0
  <2>1. LastOf(Trie, w) = last
    BY <1>2, <1>3, <1>4, LastIs
  <2> QED BY <2>1, SearchIs DEF SearchIn
<1>6. last = 0 \/ (last \in Nodes /\ path[last] = w)
  <2>1. Len(w) \in 0 .. Len(w) /\ SubSeq(w, 1, Len(w)) = w
    BY <1>2, Prefixes
  <2> QED BY <1>1, <1>2, <1>3, <1>4, <2>1, WalkPath
<1>7. Search(w) \in Nat /\ Search(w) <= Cardinality(AddedAt(w))
  <2>1. last # 0 => Trie[last].Value \in Nat /\ Trie[last].Value <= Cardinality(AddedAt(w))
    BY <1>1, <1>6 DEF Values
  <2> QED BY <1>2, <1>5, <2>1
<1>8. ASSUME w \notin Contested PROVE Search(w) = Cardinality(AddedAt(w))
  <2>1. Safe(w)
    BY <1>8 DEF Safe, Contested
  <2>2. CASE AddedAt(w) = {}
    BY <1>7, <2>2, FS_EmptySet
  <2>3. CASE AddedAt(w) # {}
    <3>1. PICK n \in Nodes : path[n] = w /\ Trie[n].IsEnd
      BY <1>1, <2>1, <2>3 DEF Values
    <3>2. ~Fresh(n)
      BY <1>1, <3>1 DEF Values
    <3>3. last = n
      BY <1>1, <1>2, <1>3, <1>4, <2>1, <3>1, <3>2, WalkSafe
    <3>4. Trie[n].Value = Cardinality(AddedAt(w))
      BY <1>1, <2>1, <3>1 DEF Values
    <3>5. n # 0
      BY DEF Nodes
    <3> QED BY <1>5, <3>1, <3>3, <3>4, <3>5
  <2> QED BY <2>2, <2>3
<1>9. Search(w) <= Due(w)
  BY <1>2, <1>7
<1> QED BY <1>7, <1>8, <1>9

\* Counting one word leaves what Search finds of the others.
LEMMA SearchKept ==
    ASSUME NEW path, Tree(path), NEW v \in Keys, NEW node \in Nodes, path[node] # v,
           \A n \in Nodes : /\ Trie'[n].Children = Trie[n].Children
                            /\ n # node => Trie'[n] = Trie[n]
    PROVE  Search(v)' = Search(v)
PROOF
<1>1. Len(v) \in Nat /\ Len(v) \in 0 .. Len(v) /\ SubSeq(v, 1, Len(v)) = v
  BY Prefixes
<1>2. PICK h : Walks(Trie, h, v, Len(v))
  BY <1>1, WalkExists
<1>3. \A i \in 0 .. Len(v) : h[i] = 0 \/ (h[i] \in Nodes /\ path[h[i]] = SubSeq(v, 1, i))
  BY <1>2, WalkPath
<1>4. PICK T : T = Trie'
  OBVIOUS
<1>5. Walks(T, h, v, Len(v))
  <2>1. ASSUME NEW i \in 0 .. Len(v) PROVE WalkStep(T, h, v, i) = WalkStep(Trie, h, v, i)
    <3>1. i # 0 => i - 1 \in 0 .. Len(v)
      BY <1>1
    <3>2. i # 0 /\ h[i - 1] # 0 => T[h[i - 1]].Children = Trie[h[i - 1]].Children
      BY <1>3, <1>4, <3>1
    <3> QED BY <3>2 DEF WalkStep, ChildIn
  <2> QED BY <1>2, <2>1 DEF Walks
<1>6. PICK last : last = h[Len(v)]
  OBVIOUS
<1>7. LastOf(T, v) = last /\ LastOf(Trie, v) = last
  BY <1>1, <1>2, <1>5, <1>6, LastIs
<1>8. last # 0 => T[last] = Trie[last]
  BY <1>1, <1>3, <1>4, <1>6
<1>9. SearchIn(T, v) = SearchIn(Trie, v)
  BY <1>7, <1>8 DEF SearchIn
<1> QED BY <1>4, <1>9, SearchIs

-----------------------------------------------------------------------------
(* The refinement of WordCount.                                            *)

\* PInv holds at the start.
LEMMA InitPrinted == Init => PInv
PROOF
<1> SUFFICES ASSUME Init PROVE PInv
  OBVIOUS
<1>1. \A p \in Partitions : KVMap[p] = << >> /\ printed[p] = << >>
  BY DEF Init
<1>2. DOMAIN << >> = {}
  OBVIOUS
<1> QED BY <1>1, <1>2 DEF PInv

\* A key that a mapper stores.
LEMMA StorePrinted ==
    ASSUME IInv, EInv, RInv, PInv, NEW f \in Files, Map(f), EmitStore(f)
    PROVE  PInv'
PROOF
<1>0. PICK w, p : w = Word(f) /\ p = MR_DefaultHashPartition(Word(f))
  OBVIOUS
<1>1. mapPc[f] = "append" /\ LocalOf(f) /\ printed' = printed
  BY DEF EmitStore, Goto, EInv, Map, redVars
<1>2. w \in Words /\ w \in Keys /\ p \in Partitions
  <2>1. w \in Words /\ w \in Keys
    BY <1>0, <1>1, WordOf DEF InWord
  <2> QED BY <1>0, <2>1, HashInRange DEF Keys
<1>3. /\ KVMap \in [Partitions -> Seq(Keys)]
      /\ KVMap' = [KVMap EXCEPT ![p] = Append(KVMap[p], w)]
  BY <1>0, <1>1 DEF EmitStore, LocalOf, Slice, EInv
<1>4. \A q \in Partitions : redPc[q] = "unborn"
  BY <1>1 DEF IInv, Mapping, Reducing
<1>5. ASSUME NEW q \in Partitions
      PROVE  /\ \A k \in DOMAIN KVMap'[q] : /\ KVMap'[q][k] \in Words
                                            /\ MR_DefaultHashPartition(KVMap'[q][k]) = q
             /\ \A k \in DOMAIN printed[q] : printed[q][k].key = KVMap'[q][k]
  <2>1. DOMAIN printed[q] = {}
    <3>1. IsSeq(printed[q]) /\ Len(printed[q]) = 0
      BY <1>4 DEF RInv, ReducerOf
    <3>2. PICK S : printed[q] \in Seq(S)
      BY <3>1 DEF IsSeq
    <3> QED BY <3>1, <3>2
  <2>2. /\ \A k \in DOMAIN KVMap[q] : /\ KVMap[q][k] \in Words
                                      /\ MR_DefaultHashPartition(KVMap[q][k]) = q
    BY DEF PInv
  <2>3. CASE q # p
    BY <1>2, <1>3, <2>1, <2>2, <2>3
  <2>4. CASE q = p
    <3>1. PICK s, t : s = KVMap[p] /\ t = Append(KVMap[p], w)
      OBVIOUS
    <3>2. s \in Seq(Keys) /\ KVMap'[q] = t
      BY <1>2, <1>3, <2>4, <3>1
    <3>3. \A k \in DOMAIN t : (k \in DOMAIN s /\ t[k] = s[k]) \/ t[k] = w
      BY <1>2, <3>1, <3>2
    <3> QED BY <1>0, <1>2, <2>1, <2>2, <2>4, <3>1, <3>2, <3>3
  <2> QED BY <2>3, <2>4
<1> QED BY <1>1, <1>5 DEF PInv, MR_DefaultHashPartition

\* A line of a reducer.
LEMMA OneLine ==
    ASSUME IInv, RInv, NEW p \in Partitions, Reduce(p), NEW k, k = redNext[p],
           NEW line, line = [key |-> KVMap[p][k], count |-> Search(KVMap[p][k])]
    PROVE  /\ printed' = [printed EXCEPT ![p] = Append(printed[p], line)]
           /\ DOMAIN printed = Partitions
           /\ k \in Nat \ {0} /\ k \notin DOMAIN printed[p] /\ k <= Len(KVMap[p])
           /\ DOMAIN printed'[p] = DOMAIN printed[p] \cup {k} /\ printed'[p][k] = line
           /\ \A i \in DOMAIN printed[p] : printed'[p][i] = printed[p][i] /\ i \in Nat /\ 1 <= i /\ i < k
           /\ \A q \in Partitions : q # p => printed'[q] = printed[q]
PROOF
<1>1. /\ IsSeq(printed[p]) /\ k = Len(printed[p]) + 1 /\ DOMAIN printed = Partitions
      /\ k <= Len(KVMap[p])
  BY DEF RInv, ReducerOf, Reduce
<1>2. printed' = [printed EXCEPT ![p] = Append(printed[p], line)]
  BY DEF Reduce
<1>3. PICK S : printed[p] \in Seq(S)
  BY <1>1 DEF IsSeq
<1> DEFINE U == S \cup {line}
<1>4. printed[p] \in Seq(U) /\ line \in U
  BY <1>3
<1> HIDE DEF U
<1>5. /\ k \in Nat \ {0} /\ k \notin DOMAIN printed[p]
      /\ \A i \in DOMAIN printed[p] : i \in Nat /\ 1 <= i /\ i < k
      /\ DOMAIN Append(printed[p], line) = DOMAIN printed[p] \cup {k}
      /\ Append(printed[p], line)[k] = line
      /\ \A i \in DOMAIN printed[p] : Append(printed[p], line)[i] = printed[p][i]
  BY <1>1, <1>4
<1>6. printed'[p] = Append(printed[p], line) /\ \A q \in Partitions : q # p => printed'[q] = printed[q]
  BY <1>1, <1>2
<1> QED BY <1>1, <1>2, <1>5, <1>6

\* PInv is inductive.
LEMMA StepPrinted == IInv /\ EInv /\ RInv /\ PInv /\ [Next]_vars => PInv'
PROOF
<1> SUFFICES ASSUME IInv, EInv, RInv, PInv, [Next]_vars PROVE PInv'
  OBVIOUS
<1>1. CASE UNCHANGED <<KVMap, printed>>
  BY <1>1 DEF PInv
<1>2. ASSUME NEW f \in Files, Map(f), ~EmitStore(f) PROVE UNCHANGED <<KVMap, printed>>
  BY <1>2 DEF Map, Open, OpenFails, Scan, EmitLock, Insert, ReleaseMapper, MapperDone, Die, mapVars,
              redVars
<1>3. CASE Main
  BY <1>1, <1>3 DEF Main, StartMapper, MappersStarted, MappersDone, StartReducer, ReducersStarted,
                    ReducersDone, mapVars, redVars
<1>4. ASSUME NEW p \in Partitions, Reducer(p) PROVE PInv'
  <2>1. KVMap' = KVMap
    BY <1>4 DEF Reducer, mapVars
  <2>2. CASE ~Reduce(p)
    BY <1>1, <1>4, <2>1, <2>2 DEF Reducer, ReleaseReducer, ReducerDone
  <2>3. CASE Reduce(p)
    <3>1. PICK k, line : k = redNext[p] /\ line = [key |-> KVMap[p][k], count |-> Search(KVMap[p][k])]
      OBVIOUS
    <3>2. line.key = KVMap[p][k]
      BY <3>1
    <3>3. /\ DOMAIN printed'[p] = DOMAIN printed[p] \cup {k} /\ printed'[p][k] = line
          /\ \A i \in DOMAIN printed[p] : printed'[p][i] = printed[p][i]
          /\ \A q \in Partitions : q # p => printed'[q] = printed[q]
      BY <2>3, <3>1, OneLine
    <3>4. \A q \in Partitions : \A i \in DOMAIN printed'[q] : printed'[q][i].key = KVMap[q][i]
      BY <3>2, <3>3 DEF PInv
    <3> QED BY <2>1, <3>4 DEF PInv
  <2> QED BY <2>2, <2>3
<1>5. CASE UNCHANGED vars
  BY <1>1, <1>5 DEF vars
<1> QED BY <1>1, <1>2, <1>3, <1>4, <1>5, StorePrinted DEF Next

\* At the start nothing is counted or reported.
LEMMA InitCounts == Init /\ Counted => Count!Init
PROOF
<1> SUFFICES ASSUME Init, Counted PROVE Count!Init
  OBVIOUS
<1>1. ASSUME NEW w \in Words PROVE Search(w) = 0 /\ ReportsOf(w) = [lines |-> 0, numbers |-> {}]
  <2>1. AddedAt(w) = {}
    <3>1. \A f \in Files : local[f].word = 1
      BY DEF Init
    <3>2. \A f \in Files : 1 .. local[f].word - 1 = {}
      BY <3>1
    <3> QED BY <3>2 DEF AddedAt
  <2>2. Search(w) = 0
    BY <2>1, FS_EmptySet DEF Counted
  <2>3. LinesOf(w) = {}
    <3>1. MR_DefaultHashPartition(w) \in Partitions
      BY WordKeys, HashInRange DEF Keys
    <3>2. \A p \in Partitions : printed[p] = << >>
      BY DEF Init
    <3>3. PrintedWith(w) = << >>
      BY <3>1, <3>2 DEF PrintedWith
    <3>4. DOMAIN << >> = {}
      OBVIOUS
    <3> QED BY <3>3, <3>4 DEF LinesOf
  <2>4. ReportsOf(w) = [lines |-> 0, numbers |-> {}]
    BY <2>3, FS_EmptySet DEF ReportsOf
  <2> QED BY <2>2, <2>4
<1>2. Lost = {}
  BY DEF Init, Lost
<1> QED BY <1>1, <1>2 DEF Count!Init

\* What WordCount expects is what is due.
LEMMA TimesDue == Count!Due = [w \in Words |-> Due(w)]
PROOF
<1>1. Lost \in SUBSET Files
  BY DEF Lost
<1> QED BY <1>1 DEF Count!Due, Due

\* Steps that report nothing and count no word that is not contested.
LEMMA DisturbRefines ==
    ASSUME Counted, Counted', printed' = printed, Lost' = Lost,
           \A w \in Words \ Contested : AddedAt(w)' = AddedAt(w)
    PROVE  Count!Disturb
PROOF
<1>1. \A w \in Words : ReportsOf(w)' = ReportsOf(w)
  BY DEF ReportsOf, LinesOf, PrintedWith
<1>2. \A w \in Words : Search(w)' \in Nat /\ Search(w)' <= Due(w)
  BY DEF Counted, Due
<1>3. \A w \in Words \ Contested : Search(w)' = Search(w)
  BY DEF Counted
<1>4. [w \in Words |-> Search(w)]' \in Count!Counts
  BY <1>2, TimesDue DEF Count!Counts
<1>5. \A w \in Words \ Contested :
         [v \in Words |-> Search(v)]'[w] = [v \in Words |-> Search(v)][w]
  BY <1>3
<1>6. [w \in Words |-> ReportsOf(w)]' = [w \in Words |-> ReportsOf(w)]
  BY <1>1
<1> QED BY <1>4, <1>5, <1>6 DEF Count!Disturb

\* The end of Insert counts its word.
LEMMA AddRefines ==
    ASSUME IInv, EInv, WInv, Counted, Counted', NEW f \in Files, Map(f), AddStore(f)
    PROVE  Count!Next
PROOF
<1>1. PICK w, node : w = Word(f) /\ node = local[f].node
  OBVIOUS
<1>2. /\ mapPc[f] = "add" /\ w \in Words /\ w \in Keys /\ printed' = printed
      /\ Len(w) \in Nat
  BY <1>1, WordOf, Prefixes DEF AddStore, Goto, InWord, Map, redVars
<1>3. /\ \A key : key # w => AddedAt(key)' = AddedAt(key)
      /\ Cardinality(AddedAt(w)') = Cardinality(AddedAt(w)) + 1
  BY <1>1, <1>2, CountOne
<1>6. Lost' = Lost
  BY <1>2, LostKept DEF OpenFails, Goto
<1>4. CASE w \in Contested
  BY <1>2, <1>3, <1>4, <1>6, DisturbRefines DEF Count!Next
<1>5. CASE w \notin Contested
  <2>1. PICK path : Whole(path)
    BY DEF WInv
  <2>2. Tree(path) /\ node \in Nodes /\ path[node] = w
    <3>1. Insertion(f, path) /\ mapPc[f] = "add" /\ Tree(path)
      BY <1>2, <2>1 DEF Whole, Inserting
    <3>2. SubSeq(w, 1, (Len(w) + 1) - 1) = w
      BY <1>2, Prefixes
    <3> QED BY <1>1, <3>1, <3>2 DEF Insertion
  <2>3. \A n \in Nodes : /\ Trie'[n].Children = Trie[n].Children
                         /\ n # node => Trie'[n] = Trie[n]
    <3>1. PICK new : new = [[Trie[node] EXCEPT !.IsEnd = TRUE] EXCEPT !.Value = local[f].old + 1]
      OBVIOUS
    <3>2. /\ IsSeq(Trie) /\ node \in 1 .. Len(Trie)
          /\ DOMAIN Trie[node] = {"made", "Children", "IsEnd", "Value"}
      BY <2>2 DEF Tree, Nodes
    <3>3. Trie' = Put(Trie, node, new)
      BY <1>1, <3>1, <3>2 DEF AddStore, Put
    <3>4. new.Children = Trie[node].Children
      BY <3>1, <3>2
    <3>5. \A n \in Nodes : Trie'[n] = IF n = node THEN new ELSE Trie[n]
      BY <3>2, <3>3, OneNode DEF Nodes
    <3> QED BY <3>4, <3>5
  <2>4. \A v \in Words : v # w => Search(v)' = Search(v)
    BY <2>2, <2>3, WordKeys, SearchKept
  <2>5. Search(w)' = Search(w) + 1 /\ Search(w)' <= Due(w) /\ Search(w) \in Nat
        /\ Search(w)' \in Nat
    BY <1>2, <1>3, <1>5, <1>6 DEF Counted, Due
  <2>6. Due(w) \in Nat
    BY DueFinite
  <2>7. \A v \in Words : ReportsOf(v)' = ReportsOf(v)
    BY <1>2 DEF ReportsOf, LinesOf, PrintedWith
  <2> DEFINE count == [v \in Words |-> Search(v)]
             times == [v \in Words |-> Due(v)]
  <2>8. count[w] < times[w]
    BY <1>2, <2>5, <2>6
  <2>9. count' = [count EXCEPT ![w] = @ + 1]
    BY <1>2, <2>4, <2>5
  <2>10. [v \in Words |-> ReportsOf(v)]' = [v \in Words |-> ReportsOf(v)]
    BY <2>7
  <2>11. Count!Count(w)
    BY <1>5, <1>6, <2>8, <2>9, <2>10, TimesDue DEF Count!Count
  <2> QED BY <1>2, <2>11 DEF Count!Next
<1> QED BY <1>4, <1>5

\* What Report of WordCount does to the reports, field by field.
WithReport(old, w, n) == [old EXCEPT ![w].lines = @ + 1, ![w].numbers = @ \cup {n}]

\* Reports that differ in one line of one word.
LEMMA ReportOne ==
    ASSUME NEW S, NEW w \in S, NEW l, NEW s, NEW n,
           NEW old, old = [v \in S |-> old[v]], old[w] = [lines |-> l, numbers |-> s],
           NEW new, new = [v \in S |-> new[v]], \A v \in S : v # w => new[v] = old[v],
           new[w] = [lines |-> l + 1, numbers |-> s \cup {n}]
    PROVE  new = WithReport(old, w, n)
PROOF
<1>1. PICK r : r = [lines |-> l, numbers |-> s]
  OBVIOUS
<1>2. PICK r1 : r1 = [r EXCEPT !.lines = @ + 1]
  OBVIOUS
<1>3. r1 = [lines |-> l + 1, numbers |-> s]
  BY <1>1, <1>2
<1>4. [r1 EXCEPT !.numbers = @ \cup {n}] = [lines |-> l + 1, numbers |-> s \cup {n}]
  BY <1>3
<1>5. PICK mid : mid = [old EXCEPT ![w] = r1]
  OBVIOUS
<1>6. mid = [old EXCEPT ![w].lines = @ + 1]
  BY <1>1, <1>2, <1>5
<1>7. mid[w] = r1 /\ mid = [v \in S |-> mid[v]] /\ \A v \in S : v # w => mid[v] = old[v]
  BY <1>5
<1>8. new = [mid EXCEPT ![w] = [r1 EXCEPT !.numbers = @ \cup {n}]]
  BY <1>4, <1>7
<1>9. new = [mid EXCEPT ![w].numbers = @ \cup {n}]
  BY <1>7, <1>8
<1> QED BY <1>6, <1>9 DEF WithReport

\* A line of a reducer reports its word, after all words are counted.
LEMMA ReduceRefines ==
    ASSUME IInv, EInv, WInv, RInv, PInv, Counted, NEW p \in Partitions, Reduce(p),
           Trie' = Trie, local' = local
    PROVE  \E w \in Words : Count!Report(w)
PROOF
<1>0. PICK k, w, line : /\ k = redNext[p] /\ w = KVMap[p][k]
                        /\ line = [key |-> w, count |-> Search(w)]
  OBVIOUS
<1>1. /\ printed' = [printed EXCEPT ![p] = Append(printed[p], line)] /\ DOMAIN printed = Partitions
      /\ k \in Nat \ {0} /\ k \notin DOMAIN printed[p] /\ k <= Len(KVMap[p])
      /\ DOMAIN printed'[p] = DOMAIN printed[p] \cup {k} /\ printed'[p][k] = line
      /\ \A i \in DOMAIN printed[p] : printed'[p][i] = printed[p][i] /\ i \in Nat /\ 1 <= i /\ i < k
      /\ \A q \in Partitions : q # p => printed'[q] = printed[q]
  BY <1>0, OneLine
<1>2. KVMap[p] \in Seq(Keys) /\ DOMAIN KVMap[p] = 1 .. Len(KVMap[p]) /\ Len(KVMap[p]) \in Nat
  BY DEF EInv
<1>3. k \in DOMAIN KVMap[p] /\ w \in Words /\ w \in Keys /\ MR_DefaultHashPartition(w) = p
  <2>1. k \in DOMAIN KVMap[p]
    BY <1>1, <1>2
  <2> QED BY <1>0, <2>1, WordKeys DEF PInv
<1>4. line.key = w /\ line.count = Search(w)
  BY <1>0
<1>5. \A v : v # w => LinesOf(v)' = LinesOf(v) /\ ReportsOf(v)' = ReportsOf(v)
  <2> SUFFICES ASSUME NEW v, v # w PROVE LinesOf(v)' = LinesOf(v) /\ ReportsOf(v)' = ReportsOf(v)
    OBVIOUS
  <2>1. LinesOf(v)' = LinesOf(v) /\ \A i \in LinesOf(v) : PrintedWith(v)'[i] = PrintedWith(v)[i]
    <3>1. PICK q : q = MR_DefaultHashPartition(v)
      OBVIOUS
    <3>2. CASE q = p
      BY <1>1, <1>4, <3>1, <3>2 DEF LinesOf, PrintedWith
    <3>3. CASE q # p
      <4>1. printed'[q] = printed[q]
        BY <1>1, <3>3
      <4> QED BY <3>1, <4>1 DEF LinesOf, PrintedWith
    <3> QED BY <3>2, <3>3
  <2> QED BY <2>1 DEF ReportsOf
<1>6. /\ LinesOf(w)' = LinesOf(w) \cup {k} /\ k \notin LinesOf(w)
      /\ \A i \in LinesOf(w) : PrintedWith(w)'[i] = PrintedWith(w)[i]
      /\ PrintedWith(w)'[k] = line
  BY <1>1, <1>3, <1>4 DEF LinesOf, PrintedWith
<1>7. LinesOf(w) \cup {k} \subseteq KeptAt(w) /\ IsFiniteSet(KeptAt(w))
  <2>1. Len(printed[p]) <= Len(KVMap[p])
    BY DEF RInv, ReducerOf, Reduce
  <2>2. \A i \in DOMAIN printed[p] : i \in DOMAIN KVMap[p] /\ printed[p][i].key = KVMap[p][i]
    BY <1>1, <1>2 DEF PInv
  <2>3. \A i \in LinesOf(w) : i \in KeptAt(w)
    BY <1>3, <2>2 DEF LinesOf, PrintedWith, KeptAt, Slice
  <2>4. k \in KeptAt(w)
    BY <1>0, <1>3 DEF KeptAt, Slice
  <2>5. IsFiniteSet(DOMAIN KVMap[p])
    <3>1. 1 \in Int /\ Len(KVMap[p]) \in Int
      BY <1>2
    <3> QED BY <1>2, <3>1, FS_Interval
  <2>6. KeptAt(w) \subseteq DOMAIN KVMap[p]
    BY <1>3 DEF KeptAt, Slice
  <2> QED BY <2>3, <2>4, <2>5, <2>6, FS_Subset
<1>8. /\ IsFiniteSet(LinesOf(w)) /\ Cardinality(LinesOf(w)) \in Nat
      /\ Cardinality(LinesOf(w) \cup {k}) = Cardinality(LinesOf(w)) + 1
      /\ Cardinality(LinesOf(w)) < Due(w)
  <2>1. IsFiniteSet(LinesOf(w)) /\ IsFiniteSet(LinesOf(w) \cup {k})
    BY <1>7, FS_Subset
  <2>2. Cardinality(LinesOf(w)) \in Nat /\ Cardinality(LinesOf(w) \cup {k}) = Cardinality(LinesOf(w)) + 1
    BY <1>6, <2>1, FS_CardinalityType, FS_AddElement
  <2>3. Cardinality(LinesOf(w) \cup {k}) <= Cardinality(KeptAt(w))
    BY <1>7, FS_Subset
  <2>4. /\ Cardinality(KeptAt(w)) = Cardinality(EmittedAt(w))
        /\ Cardinality(EmittedAt(w)) <= Due(w)
        /\ Cardinality(EmittedAt(w)) \in Nat /\ Due(w) \in Nat
    BY <1>3, AddedOccur DEF EInv, WInv
  <2> QED BY <2>1, <2>2, <2>3, <2>4
<1>9. ReportsOf(w)' = [lines |-> ReportsOf(w).lines + 1,
                       numbers |-> ReportsOf(w).numbers \cup {Search(w)}]
  <2>1. {PrintedWith(w)'[i].count : i \in LinesOf(w)'}
          = {PrintedWith(w)[i].count : i \in LinesOf(w)} \cup {Search(w)}
    BY <1>4, <1>6
  <2>2. Cardinality(LinesOf(w)') = Cardinality(LinesOf(w)) + 1
    BY <1>6, <1>8
  <2> QED BY <2>1, <2>2 DEF ReportsOf
<1>10. \A v \in Words \ Contested : Search(v) = Due(v)
  <2> SUFFICES ASSUME NEW v \in Words \ Contested PROVE Search(v) = Due(v)
    OBVIOUS
  <2>1. \A f \in Files : mapPc[f] = "gone"
    BY DEF Reduce, IInv, Mapping, Reducing
  <2>2. \A f \in Files : /\ local[f].word = IF f \in Lost THEN 1 ELSE Len(Content[f]) + 1
                        /\ Len(Content[f]) \in Nat /\ DOMAIN Content[f] = 1 .. Len(Content[f])
    BY <2>1, Contents DEF WInv, Mapper
  <2>3. \A f \in Files : 1 .. local[f].word - 1 = IF f \in Lost THEN {} ELSE DOMAIN Content[f]
    BY <2>2
  <2>4. AddedAt(v) = OccurAt(Files \ Lost, v)
    <3>1. UNION {{f} \X (1 .. local[f].word - 1) : f \in Files}
            = UNION {{f} \X DOMAIN Content[f] : f \in Files \ Lost}
      BY <2>3
    <3> QED BY <3>1 DEF AddedAt, OccurAt
  <2> QED BY <2>4, DueFinite DEF Counted
<1>11. Search(w) \in IF w \in Contested THEN 0 .. Due(w) ELSE {Due(w)}
  <2>1. Search(w) \in Nat /\ Search(w) <= Due(w) /\ Due(w) \in Nat
    BY <1>3, DueFinite DEF Counted
  <2> QED BY <1>3, <1>10, <2>1
<1>12. \A v : Search(v)' = Search(v)
  BY SearchIs
<1> DEFINE count == [v \in Words |-> Search(v)]
           times == [v \in Words |-> Due(v)]
           reports == [v \in Words |-> ReportsOf(v)]
<1>13. \A v \in Words \ Contested : count[v] = times[v]
  BY <1>10
<1>14. reports[w].lines < times[w]
  BY <1>3, <1>8 DEF ReportsOf
<1>15. reports' = [reports EXCEPT ![w].lines = @ + 1, ![w].numbers = @ \cup {Search(w)}]
  <2>1. PICK l, s, n : l = ReportsOf(w).lines /\ s = ReportsOf(w).numbers /\ n = Search(w)
    OBVIOUS
  <2>2. PICK old, new : old = reports /\ new = reports'
    OBVIOUS
  <2>3. old = [v \in Words |-> old[v]] /\ new = [v \in Words |-> new[v]]
    BY <2>2
  <2>4. \A v \in Words : v # w => new[v] = old[v]
    BY <1>5, <2>2
  <2>5. old[w] = [lines |-> l, numbers |-> s]
    BY <1>3, <2>1, <2>2 DEF ReportsOf
  <2>6. new[w] = [lines |-> l + 1, numbers |-> s \cup {n}]
    BY <1>3, <1>9, <2>1, <2>2
  <2>7. new = WithReport(old, w, n)
    BY <1>3, <2>3, <2>4, <2>5, <2>6, ReportOne
  <2> QED BY <2>1, <2>2, <2>7 DEF WithReport
<1>16. count' = count
  BY <1>12
<1>17. Count!Report(w)
  <2>1. Search(w) \in IF w \in Contested THEN 0 .. times[w] ELSE {times[w]}
    BY <1>3, <1>11
  <2>2. Lost' = Lost
    BY DEF Lost
  <2> QED BY <1>13, <1>14, <1>15, <1>16, <2>1, <2>2, TimesDue DEF Count!Report
<1> QED BY <1>3, <1>17

\* A file that is not there is lost to the count, before any report.
LEMMA LoseRefines ==
    ASSUME IInv, EInv, RInv, Counted', NEW f \in Files, Map(f), OpenFails(f)
    PROVE  Count!Lose(f)
PROOF
<1>1. /\ mapPc[f] = "open" /\ Trie' = Trie /\ printed' = printed /\ Alone(f) /\ LocalOf(f)
      /\ local'[f].panicking = TRUE
  BY MapAlone DEF OpenFails, Goto, Map, redVars, EInv, LocalOf
<1>2. Lost' = Lost \cup {f} /\ Lost' \in SUBSET Files
  BY <1>1 DEF Lost, Alone
<1>3. ASSUME NEW w \in Words PROVE ReportsOf(w).lines = 0
  <2>1. MR_DefaultHashPartition(w) \in Partitions
    BY WordKeys, HashInRange DEF Keys
  <2>2. \A p \in Partitions : IsSeq(printed[p]) /\ Len(printed[p]) = 0
    BY <1>1 DEF IInv, Mapping, Reducing, RInv, ReducerOf
  <2>3. PICK S : PrintedWith(w) \in Seq(S)
    BY <2>1, <2>2 DEF PrintedWith, IsSeq
  <2>4. Len(PrintedWith(w)) = 0
    BY <2>1, <2>2 DEF PrintedWith
  <2>5. LinesOf(w) = {}
    BY <2>3, <2>4 DEF LinesOf
  <2> QED BY <2>5, FS_EmptySet DEF ReportsOf
<1>4. \A w : Search(w)' = Search(w)
  BY <1>1, SearchIs
<1>5. ASSUME NEW w \in Words PROVE Search(w) <= Occurrences(Files \ Lost', w)
  BY <1>4 DEF Counted, Due
<1>6. \A w \in Words : ReportsOf(w)' = ReportsOf(w)
  BY <1>1 DEF ReportsOf, LinesOf, PrintedWith
<1> QED BY <1>2, <1>3, <1>4, <1>5, <1>6 DEF Count!Lose

\* Every step of MRRun is a step of WordCount, or leaves the words as they are.
LEMMA StepCounts ==
    IInv /\ EInv /\ WInv /\ RInv /\ PInv /\ Counted /\ Counted' /\ [Next]_vars
      => [Count!Next]_(Count!vars)
PROOF
<1> SUFFICES ASSUME IInv, EInv, WInv, RInv, PInv, Counted, Counted', [Next]_vars
             PROVE  Count!Next
  OBVIOUS
<1>1. ASSUME NEW f \in Files, Map(f) PROVE Count!Next
  <2>1. CASE AddStore(f)
    BY <1>1, <2>1, AddRefines
  <2>3. CASE OpenFails(f)
    BY <1>1, <2>3, LoseRefines DEF Count!Next
  <2>2. CASE ~AddStore(f) /\ ~OpenFails(f)
    <3>1. printed' = printed /\ \A g \in Files : local'[g].word = local[g].word
      <4>1. printed' = printed /\ Alone(f) /\ LocalOf(f) /\ DOMAIN local = Files
        BY <1>1, MapAlone DEF Map, redVars, EInv
      <4>2. CASE Open(f) \/ Scan(f) \/ EmitLock(f) \/ EmitStore(f) \/ ReleaseMapper(f)
                   \/ MapperDone(f) \/ Die(f)
        BY <4>1, <4>2 DEF Open, Scan, EmitLock, EmitStore, ReleaseMapper, MapperDone, Die,
                          mapVars, LocalOf
      <4>3. CASE MakeChildren(f) \/ Lookup(f) \/ MapRace(f) \/ KeepChild(f) \/ CreateChild(f)
        <5>1. CASE Lookup(f)
          <6>1. PICK n : local' = [local EXCEPT ![f].child = n]
            BY <5>1 DEF Lookup
          <6> QED BY <4>1, <6>1 DEF LocalOf
        <5>2. CASE MakeChildren(f) \/ MapRace(f) \/ KeepChild(f) \/ CreateChild(f)
          BY <4>1, <5>2 DEF MakeChildren, MapRace, KeepChild, CreateChild, LocalOf
        <5> QED BY <4>3, <5>1, <5>2
      <4>4. CASE LinkChild(f) \/ AddLock(f)
        BY <4>1, <4>4 DEF LinkChild, AddLock, LocalOf
      <4>5. CASE Descend(f)
        <5>1. PICK n : local' = [local EXCEPT ![f].node = n, ![f].child = 0, ![f].char = @ + 1]
          BY <4>5 DEF Descend
        <5> QED BY <4>1, <5>1 DEF LocalOf
      <4> QED BY <1>1, <2>2, <4>1, <4>2, <4>3, <4>4, <4>5 DEF Map, Insert
    <3> QED BY <1>1, <2>2, <3>1, LostKept, AddedKept, DisturbRefines DEF Count!Next
  <2> QED BY <2>1, <2>2, <2>3
<1>2. CASE UNCHANGED <<local, printed>>
  BY <1>2, AddedKept, DisturbRefines DEF Count!Next, Lost
<1>3. CASE Main
  BY <1>2, <1>3 DEF Main, StartMapper, MappersStarted, MappersDone, StartReducer, ReducersStarted,
                    ReducersDone, mapVars, redVars
<1>4. ASSUME NEW p \in Partitions, Reducer(p) PROVE Count!Next
  <2>1. local' = local /\ Trie' = Trie
    BY <1>4 DEF Reducer, mapVars
  <2>2. CASE Reduce(p)
    BY <2>1, <2>2, ReduceRefines DEF Count!Next
  <2>3. CASE ~Reduce(p)
    BY <1>2, <1>4, <2>1, <2>3 DEF Reducer, ReleaseReducer, ReducerDone
  <2> QED BY <2>2, <2>3
<1>5. CASE UNCHANGED vars
  BY <1>2, <1>5 DEF vars
<1> QED BY <1>1, <1>3, <1>4, <1>5 DEF Next

\* Whatever the files, the mappers and the schedule, MRRun counts every occurrence of
\* a word that no two files contest for once, disturbs no such word by what it does to
\* the trie without the lock (utils.go:43 and 50), and reports after all counts.  The
\* words of a file that could not be opened (main.go:16-19) are missing from what is
\* printed before the process dies, and nothing else is.
THEOREM WordsCounted == Spec => ImplementsWordCount
PROOF
<1>1. Init /\ Counted => Count!Init
  BY InitCounts
<1>2. EInv /\ WInv => Counted
  BY SearchFinds
<1>3. IInv /\ EInv /\ WInv /\ RInv /\ PInv /\ Counted /\ Counted' /\ [Next]_vars
        => [Count!Next]_(Count!vars)
  BY StepCounts
<1> QED BY <1>1, <1>2, <1>3, Invariance, InitEmit, StepEmit, InitTrie, StepTrie, InitReduce,
           StepReduce, InitPrinted, StepPrinted, PTL DEF Spec, ImplementsWordCount, Count!Spec
=============================================================================
