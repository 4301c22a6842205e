------------------------------ MODULE HyperLogLog ------------------------------
(***************************************************************************)
(* The registers of pkg.go under concurrent AddString, AddInt and          *)
(* Cardinality.  The calls of Add share hllMutex; Cardinality takes no     *)
(* lock.  Words have W bits (32 in the code).  Operators named Mut... are  *)
(* seeded bugs for testing the properties.                                 *)
(***************************************************************************)
EXTENDS Integers, Sequences, FiniteSets

CONSTANTS
    Goroutines, Elements,
    W, p,               \* bits of a word, and of an index
    Hash,               \* the hash of each element
    MaxCalls            \* bound on the calls of all goroutines together

\* The powers of 2, as far as the words go.
Two[n \in 0 .. W] == IF n = 0 THEN 1 ELSE 2 * Two[n - 1]

ASSUME HyperLogLogAssumption ==
    /\ W \in Nat \ {0} /\ p \in 0 .. W - 1
    /\ Hash \in [Elements -> 0 .. Two[W] - 1]
    /\ 0 \notin Goroutines /\ MaxCalls \in Nat

VARIABLES
    M,                  \* the registers
    hllMutex,           \* its holder, or 0
    pc, local,          \* where each goroutine is, and its variables
    added,              \* the elements whose Add has stored its register
    calls               \* how many calls were made
vars == <<M, hllMutex, pc, local, added, calls>>

Registers == 0 .. Two[p] - 1

Index(e) == Hash[e] \div Two[W - p]
Rest(e) == Hash[e] % Two[W - p]

NoCall == [element |-> << >>, w |-> 0, j |-> 0, old |-> 0,
           known |-> {}, values |-> << >>, next |-> 0, V |-> 0]

Init ==
    /\ M = [i \in Registers |-> 0]
    /\ hllMutex = 0
    /\ pc = [g \in Goroutines |-> "idle"]
    /\ local = [g \in Goroutines |-> NoCall]
    /\ added = {} /\ calls = 0

Goto(g, here, there) == pc[g] = here /\ pc' = [pc EXCEPT ![g] = there]

-----------------------------------------------------------------------------
(* AddString and AddInt, which differ in what they hash.                   *)

Adding(e) == [NoCall EXCEPT !.element = <<e>>, !.w = Rest(e)]

Add(g) ==
    /\ Goto(g, "idle", "zeroes")
    /\ calls < MaxCalls /\ calls' = calls + 1
    /\ \E e \in Elements : local' = [local EXCEPT ![g] = Adding(e)]
    /\ UNCHANGED <<M, hllMutex, added>>

\* For a word of zeroes the loop never ends: count goes round.
Odd(w) == w % 2 = 1
Halved(call) == [call EXCEPT !.w = @ \div 2, !.j = (@ + 1) % Two[W]]

getTrailingZeroes(g) ==
    /\ UNCHANGED <<M, hllMutex, added, calls>>
    /\ \/ /\ ~Odd(local[g].w) /\ Goto(g, "zeroes", "zeroes")
          /\ local' = [local EXCEPT ![g] = Halved(@)]
       \/ Odd(local[g].w) /\ Goto(g, "zeroes", "lock") /\ UNCHANGED local

MutFree(g) == TRUE
Free(g) == hllMutex = 0

Lock(g) ==
    /\ Goto(g, "lock", "store") /\ Free(g)
    /\ hllMutex' = g
    /\ local' = [local EXCEPT ![g].old = M[Index(local[g].element[1])]]
    /\ UNCHANGED <<M, added, calls>>

MutLarger(old, j) == j
Larger(old, j) == IF old > j THEN old ELSE j

Store(g) ==
    /\ Goto(g, "store", "unlock")
    /\ LET e == local[g].element[1]
       IN  /\ M' = [M EXCEPT ![Index(e)] = Larger(local[g].old, local[g].j)]
           /\ added' = added \cup {e}
    /\ UNCHANGED <<hllMutex, local, calls>>

MutUnlocked(g) == IF local[g].old > local[g].j THEN hllMutex ELSE 0
Unlocked(g) == 0

Unlock(g) ==
    /\ Goto(g, "unlock", "idle")
    /\ hllMutex' = Unlocked(g)
    /\ local' = [local EXCEPT ![g] = NoCall]
    /\ UNCHANGED <<M, added, calls>>

-----------------------------------------------------------------------------
(* Cardinality: one pass over the registers for the sum and, when the      *)
(* estimate is small, a second one that counts the empty registers.        *)

Estimate(g) ==
    /\ Goto(g, "idle", "sum")
    /\ calls < MaxCalls /\ calls' = calls + 1
    /\ local' = [local EXCEPT ![g] = [NoCall EXCEPT !.known = added]]
    /\ UNCHANGED <<M, hllMutex, added>>

Read(call) == [call EXCEPT !.values = Append(@, M[call.next]), !.next = @ + 1]

Sum(g) ==
    /\ local[g].next \in Registers /\ Goto(g, "sum", "sum")
    /\ local' = [local EXCEPT ![g] = Read(@)]
    /\ UNCHANGED <<M, hllMutex, added, calls>>

\* Whether the estimate is small is left open.
Summed(g) ==
    /\ local[g].next \notin Registers
    /\ \/ Goto(g, "sum", "empties") /\ local' = [local EXCEPT ![g].next = 0]
       \/ Goto(g, "sum", "idle") /\ local' = [local EXCEPT ![g] = NoCall]
    /\ UNCHANGED <<M, hllMutex, added, calls>>

Counted(call) == [call EXCEPT !.V = IF M[call.next] = 0 THEN @ + 1 ELSE @, !.next = @ + 1]

CountEmpty(g) ==
    /\ local[g].next \in Registers /\ Goto(g, "empties", "empties")
    /\ local' = [local EXCEPT ![g] = Counted(@)]
    /\ UNCHANGED <<M, hllMutex, added, calls>>

Return(g) ==
    /\ local[g].next \notin Registers /\ Goto(g, "empties", "idle")
    /\ local' = [local EXCEPT ![g] = NoCall]
    /\ UNCHANGED <<M, hllMutex, added, calls>>

Step(g) ==
    \/ getTrailingZeroes(g) \/ Lock(g) \/ Store(g) \/ Unlock(g)
    \/ Sum(g) \/ Summed(g) \/ CountEmpty(g) \/ Return(g)

Next == \E g \in Goroutines : Add(g) \/ Estimate(g) \/ Step(g)

\* The scheduler runs every goroutine; the calls are finitely many, so none waits
\* for ever for a mutex that others keep taking.
Spec == Init /\ [][Next]_vars /\ \A g \in Goroutines : WF_vars(Step(g))
-----------------------------------------------------------------------------
(* What the registers should be, from the elements alone.                  *)

Rank(e) == CHOOSE j \in 0 .. W - p - 1 : Hash[e] % Two[j + 1] = Two[j]

Ranks(S, r) == {0} \cup {Rank(e) : e \in {x \in S : Index(x) = r}}
Top(S, r) == CHOOSE j \in Ranks(S, r) : \A k \in Ranks(S, r) : k <= j

\* The registers are those of the set of elements added, whatever the order and
\* the number of times they were added in: no update is lost to another (lines
\* 53-55 and 63-65).
RegistersExact == M = [r \in Registers |-> Top(added, r)]

\* An estimate misses nothing that was added before it began and invents nothing,
\* in the sum and in the count of empty registers, though it reads the registers
\* one by one without the mutex (lines 88-98).
EstimateInBetween ==
    \A g \in Goroutines :
        LET call == local[g]
            Empty(S) == {r \in 0 .. call.next - 1 : Top(S, r) = 0}
            Between(v, r) == Top(call.known, r) <= v /\ v <= Top(added, r)
        IN  /\ \A k \in 1 .. Len(call.values) : Between(call.values[k], k - 1)
            /\ pc[g] = "empties" => /\ call.V <= Cardinality(Empty(call.known))
                                    /\ Cardinality(Empty(added)) <= call.V

\* A call returns even while another spins on a word of zeroes, which it does
\* before it takes the mutex; only the call that spins does not.
OthersReturn ==
    \A g \in Goroutines :
        pc[g] # "idle" /\ ~(pc[g] = "zeroes" /\ local[g].w = 0) ~> pc[g] = "idle"
=============================================================================
