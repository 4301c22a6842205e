------------------------------ MODULE WordCount ------------------------------
(* What the word count promises: every occurrence of a word is counted     *)
(* once, and once all of them are, each report of a word gives its number. *)
(* Of words that several files contest for it promises much less: counting *)
(* them disturbs no other word, and no report says more than there are.    *)
(* A file may be lost before the first report and before a word of it is   *)
(* counted: the numbers are then those of the other files.                 *)
EXTENDS Integers

CONSTANTS Words, Files,
          Times,          \* how often each word occurs outside the lost files
          Contested       \* the words whose counts may get lost

VARIABLES
    count,                \* the count so far
    reports,              \* how many lines report a word and the numbers they give
    lost                  \* the files whose words nobody counts
vars == <<count, reports, lost>>

Due == Times[lost]
Counts == {f \in [Words -> Nat] : \A w \in Words : f[w] <= Due[w]}

Init ==
    /\ count = [w \in Words |-> 0]
    /\ reports = [w \in Words |-> [lines |-> 0, numbers |-> {}]]
    /\ lost = {}

Lose(f) ==
    /\ lost' = lost \cup {f}
    /\ \A w \in Words : reports[w].lines = 0 /\ count[w] <= Times[lost'][w]
    /\ UNCHANGED <<count, reports>>

Count(w) ==
    /\ w \notin Contested /\ count[w] < Due[w]
    /\ count' = [count EXCEPT ![w] = @ + 1]
    /\ UNCHANGED <<reports, lost>>

Disturb ==
    /\ count' \in Counts
    /\ \A w \in Words \ Contested : count'[w] = count[w]
    /\ UNCHANGED <<reports, lost>>

Report(w) ==
    /\ \A v \in Words \ Contested : count[v] = Due[v]
    /\ reports[w].lines < Due[w]
    /\ \E n \in IF w \in Contested THEN 0 .. Due[w] ELSE {Due[w]} :
          reports' = [reports EXCEPT ![w].lines = @ + 1,
                                     ![w].numbers = @ \cup {n}]
    /\ UNCHANGED <<count, lost>>

Next ==
    \/ \E f \in Files : Lose(f)
    \/ Disturb
    \/ \E w \in Words : Count(w) \/ Report(w)

Spec == Init /\ [][Next]_vars
=============================================================================
