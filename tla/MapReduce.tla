------------------------------ MODULE MapReduce ------------------------------
(***************************************************************************)
(* MRRun of MapReduce/utils/utils.go with the word count of main.go.  The  *)
(* main goroutine starts one goroutine per file, at most NumMappers at a   *)
(* time, waits for all of them and starts one goroutine per partition.     *)
(*                                                                         *)
(* Lock sections are two steps where something can happen between taking   *)
(* the lock and releasing it.  Insert reads the Children maps without the  *)
(* lock (lines 43 and 50): a read that overlaps another goroutine's map    *)
(* write may be caught by the Go runtime, which then kills the program, or *)
(* return what the map held before or after the write.  Operators named    *)
(* Mut... are seeded bugs for testing the properties.                      *)
(***************************************************************************)
EXTENDS Integers, Sequences, FiniteSets

CONSTANTS
    NumFiles,            \* the length of input.Files
    Content,             \* the words a scan of each file yields
    Missing,             \* the files that may not be there when they are opened
    NumMappers, NumReducers,
    HashModulus          \* 2^64 in the code

Files == 1 .. NumFiles

ASSUME InputAssumption ==
    /\ NumFiles \in Nat
    /\ Content \in [Files -> Seq(Seq(Nat) \ {<< >>})]
    /\ Missing \subseteq Files
    /\ NumMappers \in Nat \ {0} /\ NumReducers \in Nat \ {0}
    /\ HashModulus \in Nat \ {0}

VARIABLES
    mainPc, next,        \* MRRun: the loop it is in and the next index of it
    semaphore,           \* the tokens in semaphore_map or semaphore_reduce
    wg,                  \* the wait group's counter
    mapPc,               \* where each file's goroutine is
    local,               \* its variables in Map, MR_Emit and Insert
    kvlock, trieMutex,   \* the holder of each lock, 0 for none
    KVMap,               \* the keys emitted to each partition
    Trie,                \* the trie's nodes; the first one is the root
    redPc, redNext,      \* where each reducer is, and in which key
    printed,             \* what each reducer printed
    fate                 \* how the process is doing
vars == <<mainPc, next, semaphore, wg, mapPc, local, kvlock, trieMutex,
          KVMap, Trie, redPc, redNext, printed, fate>>
mainVars == <<mainPc, next>>
pool == <<semaphore, wg>>
mapVars == <<mapPc, local, kvlock, trieMutex, KVMap, Trie>>
redVars == <<redPc, redNext, printed>>

Partitions == 0 .. NumReducers - 1

NewNode == [made |-> FALSE, Children |-> << >>, IsEnd |-> FALSE, Value |-> 0]

MR_DefaultHashPartition(key) ==
    LET hash[n \in 0 .. Len(key)] ==
          IF n = 0 THEN 5381 % HashModulus
                   ELSE (hash[n - 1] * 33 + key[n]) % HashModulus
    IN  hash[Len(key)] % NumReducers

\* The child of a node for a rune, or 0.
Child(node, c) ==
    IF c \in DOMAIN Trie[node].Children THEN Trie[node].Children[c] ELSE 0

Search(key) ==
    LET node[n \in 0 .. Len(key)] ==
          IF n = 0 THEN 1
          ELSE IF node[n - 1] = 0 THEN 0 ELSE Child(node[n - 1], key[n])
        last == node[Len(key)]
    IN  IF last # 0 /\ Trie[last].IsEnd THEN Trie[last].Value ELSE 0

Init ==
    /\ mainPc = "start mappers" /\ next = 1
    /\ semaphore = 0 /\ wg = 0
    /\ mapPc = [f \in Files |-> "unborn"]
    /\ local = [f \in Files |-> [word |-> 1, char |-> 1, node |-> 1,
                                 child |-> 0, seen |-> << >>, old |-> 0,
                                 panicking |-> FALSE]]
    /\ kvlock = 0 /\ trieMutex = 0
    /\ KVMap = [p \in Partitions |-> << >>]
    /\ Trie = <<NewNode>>
    /\ redPc = [p \in Partitions |-> "unborn"]
    /\ redNext = [p \in Partitions |-> 1]
    /\ printed = [p \in Partitions |-> << >>]
    /\ fate = "running"

-----------------------------------------------------------------------------
(* The main goroutine.                                                     *)

MutSlotFree(capacity) == semaphore <= capacity
SlotFree(capacity) == semaphore < capacity

MutStarted == semaphore' = semaphore + 1 /\ wg' = wg /\ next' = next + 1
Started == semaphore' = semaphore + 1 /\ wg' = wg + 1 /\ next' = next + 1

StartMapper ==
    /\ mainPc = "start mappers" /\ next \in Files
    /\ SlotFree(NumMappers) /\ Started
    /\ mapPc' = [mapPc EXCEPT ![next] = "open"]
    /\ UNCHANGED <<mainPc, local, kvlock, trieMutex, KVMap, Trie, redVars>>

MappersStarted ==
    /\ mainPc = "start mappers" /\ next \notin Files
    /\ mainPc' = "wait mappers"
    /\ UNCHANGED <<next, pool, mapVars, redVars>>

WaitOver == wg = 0

MappersDone ==
    /\ mainPc = "wait mappers" /\ WaitOver
    /\ mainPc' = "start reducers" /\ next' = 0 /\ semaphore' = 0
    /\ UNCHANGED <<wg, mapVars, redVars>>

StartReducer ==
    /\ mainPc = "start reducers" /\ next \in Partitions
    /\ SlotFree(NumReducers) /\ Started
    /\ redPc' = [redPc EXCEPT ![next] = "reduce"]
    /\ UNCHANGED <<mainPc, mapVars, redNext, printed>>

ReducersStarted ==
    /\ mainPc = "start reducers" /\ next \notin Partitions
    /\ mainPc' = "wait reducers"
    /\ UNCHANGED <<next, pool, mapVars, redVars>>

ReducersDone ==
    /\ mainPc = "wait reducers" /\ WaitOver
    /\ mainPc' = "returned"
    /\ UNCHANGED <<next, pool, mapVars, redVars>>

Main ==
    /\ UNCHANGED fate
    /\ \/ StartMapper \/ MappersStarted \/ MappersDone
       \/ StartReducer \/ ReducersStarted \/ ReducersDone

-----------------------------------------------------------------------------
(* The goroutine of file f: Map and MR_Emit.                               *)

Word(f) == Content[f][local[f].word]
Rune(f) == Word(f)[local[f].char]

Goto(f, here, there) == mapPc[f] = here /\ mapPc' = [mapPc EXCEPT ![f] = there]

Open(f) ==
    /\ Goto(f, "open", "scan")
    /\ UNCHANGED <<pool, local, kvlock, trieMutex, KVMap, Trie, fate>>

\* The file is not there: Map panics, and the deferred calls come first.
OpenFails(f) ==
    /\ f \in Missing /\ Goto(f, "open", "release")
    /\ local' = [local EXCEPT ![f].panicking = TRUE]
    /\ UNCHANGED <<pool, kvlock, trieMutex, KVMap, Trie, fate>>

Scan(f) ==
    /\ Goto(f, "scan",
            IF local[f].word <= Len(Content[f]) THEN "emit" ELSE "release")
    /\ UNCHANGED <<pool, local, kvlock, trieMutex, KVMap, Trie, fate>>

MutKvFree == TRUE
KvFree == kvlock = 0

EmitLock(f) ==
    /\ Goto(f, "emit", "append")
    /\ KvFree /\ kvlock' = f
    /\ local' = [local EXCEPT
                   ![f].seen = KVMap[MR_DefaultHashPartition(Word(f))]]
    /\ UNCHANGED <<pool, trieMutex, KVMap, Trie, fate>>

EmitStore(f) ==
    /\ Goto(f, "append", "children")
    /\ KVMap' = [KVMap EXCEPT ![MR_DefaultHashPartition(Word(f))] =
                    Append(local[f].seen, Word(f))]
    /\ kvlock' = 0
    /\ local' = [local EXCEPT ![f].seen = << >>, ![f].node = 1, ![f].char = 1]
    /\ UNCHANGED <<pool, trieMutex, Trie, fate>>

MutReleased == semaphore
Released == semaphore - 1

\* The deferred calls, in their order.
ReleaseMapper(f) ==
    /\ Goto(f, "release", "done") /\ semaphore' = Released
    /\ UNCHANGED <<wg, local, kvlock, trieMutex, KVMap, Trie, fate>>

MapperDone(f) ==
    /\ Goto(f, "done", "gone") /\ wg' = wg - 1
    /\ UNCHANGED <<semaphore, local, kvlock, trieMutex, KVMap, Trie, fate>>

\* The panic has run the deferred calls and ends the process, which may have
\* gone on meanwhile: the last MapperDone lets the main goroutine pass its wait.
Die(f) ==
    /\ mapPc[f] = "gone" /\ local[f].panicking
    /\ fate' = "panic"
    /\ UNCHANGED <<pool, mapVars>>

-----------------------------------------------------------------------------
(* Insert, by the goroutine of file f.                                     *)

TrieFree == trieMutex = 0

HasMap(node) == Trie[node].made

MutMoreRunes(f) == local[f].char < Len(Word(f))
MoreRunes(f) == local[f].char <= Len(Word(f))

MakeChildren(f) ==
    /\ Goto(f, "children", "lookup")
    /\ MoreRunes(f) /\ TrieFree
    /\ Trie' = IF HasMap(local[f].node) THEN Trie
               ELSE [Trie EXCEPT ![local[f].node].made = TRUE,
                                 ![local[f].node].Children = << >>]
    /\ UNCHANGED <<local, trieMutex, fate>>

\* The goroutines whose write to a node's map is under way.
Writers(node) == {g \in Files : mapPc[g] = "write" /\ local[g].node = node}

\* What an unlocked read of the map may find for the rune.
Readable(node, c) ==
    {Child(node, c)}
        \cup {local[g].child : g \in {h \in Writers(node) : Rune(h) = c}}

Lookup(f) ==
    /\ Goto(f, "lookup", "create")
    /\ \E n \in Readable(local[f].node, Rune(f)) :
          local' = [local EXCEPT ![f].child = n]
    /\ UNCHANGED <<trieMutex, Trie, fate>>

MapRace(f) ==
    /\ mapPc[f] \in {"lookup", "descend"}
    /\ Writers(local[f].node) # {}
    /\ fate' = "concurrent map read and map write"
    /\ UNCHANGED <<mapPc, local, trieMutex, Trie>>

\* The lookup found a child: the lock section does nothing.
KeepChild(f) ==
    /\ Goto(f, "create", "descend")
    /\ local[f].child # 0 /\ TrieFree
    /\ UNCHANGED <<local, trieMutex, Trie, fate>>

CreateChild(f) ==
    /\ Goto(f, "create", "write")
    /\ local[f].child = 0 /\ TrieFree
    /\ trieMutex' = f
    /\ Trie' = Append(Trie, NewNode)
    /\ local' = [local EXCEPT ![f].child = Len(Trie) + 1]
    /\ UNCHANGED fate

LinkChild(f) ==
    /\ Goto(f, "write", "descend")
    /\ Trie' = [Trie EXCEPT ![local[f].node].Children =
                  [c \in DOMAIN @ \cup {Rune(f)} |->
                     IF c = Rune(f) THEN local[f].child ELSE @[c]]]
    /\ trieMutex' = 0
    /\ UNCHANGED <<local, fate>>

Descend(f) ==
    /\ Goto(f, "descend", "children")
    /\ \E n \in Readable(local[f].node, Rune(f)) :
          local' = [local EXCEPT ![f].node = n, ![f].child = 0, ![f].char = @ + 1]
    /\ UNCHANGED <<trieMutex, Trie, fate>>

AddLock(f) ==
    /\ Goto(f, "children", "add")
    /\ ~MoreRunes(f) /\ TrieFree
    /\ trieMutex' = f
    /\ local' = [local EXCEPT ![f].old = Trie[local[f].node].Value]
    /\ UNCHANGED <<Trie, fate>>

AddStore(f) ==
    /\ Goto(f, "add", "scan")
    /\ Trie' = [Trie EXCEPT ![local[f].node].IsEnd = TRUE,
                            ![local[f].node].Value = local[f].old + 1]
    /\ trieMutex' = 0
    /\ local' = [local EXCEPT ![f].old = 0, ![f].word = @ + 1]
    /\ UNCHANGED fate

Insert(f) ==
    /\ UNCHANGED <<pool, kvlock, KVMap>>
    /\ \/ MakeChildren(f) \/ Lookup(f) \/ MapRace(f) \/ KeepChild(f)
       \/ CreateChild(f) \/ LinkChild(f) \/ Descend(f)
       \/ AddLock(f) \/ AddStore(f)

Map(f) ==
    /\ UNCHANGED <<mainVars, redVars>>
    /\ \/ Open(f) \/ OpenFails(f) \/ Scan(f) \/ EmitLock(f) \/ EmitStore(f)
       \/ Insert(f) \/ ReleaseMapper(f) \/ MapperDone(f) \/ Die(f)

-----------------------------------------------------------------------------
(* The goroutine of partition p.                                           *)

Reduce(p) ==
    /\ redPc[p] = "reduce" /\ redNext[p] <= Len(KVMap[p])
    /\ LET key == KVMap[p][redNext[p]]
       IN  printed' = [printed EXCEPT ![p] =
                         Append(@, [key |-> key, count |-> Search(key)])]
    /\ redNext' = [redNext EXCEPT ![p] = @ + 1]
    /\ UNCHANGED <<pool, redPc>>

ReleaseReducer(p) ==
    /\ redPc[p] = "reduce" /\ redNext[p] > Len(KVMap[p])
    /\ redPc' = [redPc EXCEPT ![p] = "done"]
    /\ semaphore' = semaphore - 1
    /\ UNCHANGED <<wg, redNext, printed>>

ReducerDone(p) ==
    /\ redPc[p] = "done"
    /\ redPc' = [redPc EXCEPT ![p] = "gone"]
    /\ wg' = wg - 1
    /\ UNCHANGED <<semaphore, redNext, printed>>

Reducer(p) ==
    /\ UNCHANGED <<mainVars, mapVars, fate>>
    /\ Reduce(p) \/ ReleaseReducer(p) \/ ReducerDone(p)

Next ==
    /\ fate = "running"
    /\ \/ Main
       \/ \E f \in Files : Map(f)
       \/ \E p \in Partitions : Reducer(p)

\* Every step ends something and the steps are finitely many, so it is enough
\* that the Go scheduler runs some goroutine while one can run.
Spec == Init /\ [][Next]_vars /\ WF_vars(Next)
-----------------------------------------------------------------------------
Mapped(f) == mapPc[f] \in {"done", "gone"}

\* README.md:266, "used semaphores ... to control the number of mappers and
\* reducers running concurrently": at most NumMappers goroutines are in Map.
MapperBound ==
    Cardinality({f \in Files : mapPc[f] # "unborn" /\ ~Mapped(f)}) <= NumMappers

\* The barrier of line 97: once a reducer exists no mapper can still emit, so
\* that Reduce may read the partitions and the trie without a lock.
ReduceAfterMap ==
    (\E p \in Partitions : redPc[p] # "unborn") => \A f \in Files : Mapped(f)

\* The wait of line 113: MRRun returns with every emitted key reduced.
ReturnsLast ==
    mainPc = "returned" =>
        \A p \in Partitions : Len(printed[p]) = Len(KVMap[p])

\* The words of file f whose key MR_Emit has stored.
Stored(f) ==
    1 .. (IF mapPc[f] \in {"children", "lookup", "create", "write", "descend", "add"}
            THEN local[f].word ELSE local[f].word - 1)
\* MR_Emit loses no key to another mapper's append, whatever the interleaving:
\* each partition holds each of its keys as often as it was stored.
NoEmitLost ==
    \A f \in Files : \A n \in Stored(f) :
        LET key == Content[f][n]
            slice == KVMap[MR_DefaultHashPartition(key)]
        IN  Cardinality({k \in DOMAIN slice : slice[k] = key}) =
              Cardinality({at \in UNION {{g} \X Stored(g) : g \in Files} :
                             Content[at[1]][at[2]] = key})

\* README.md:267, "Used Mutex locks to ensure that the trie modification is
\* thread safe": the Go runtime never finds two goroutines on one map.
TrieModificationThreadSafe == fate # "concurrent map read and map write"

\* MRRun returns unless the process dies: no deadlock among the semaphores, the
\* wait group and the two locks, and no token is lost.
Terminates == <>(mainPc = "returned" \/ fate # "running")
=============================================================================
