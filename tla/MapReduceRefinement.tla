------------------------- MODULE MapReduceRefinement -------------------------
(* MRRun with the goroutines, locks, partitions and the trie forgotten.    *)
EXTENDS MapReduce

Words == UNION {{Content[f][n] : n \in DOMAIN Content[f]} : f \in Files}

PrintedWith(w) == printed[MR_DefaultHashPartition(w)]
LinesOf(w) == {k \in DOMAIN PrintedWith(w) : PrintedWith(w)[k].key = w}
ReportsOf(w) == [lines   |-> Cardinality(LinesOf(w)),
                 numbers |-> {PrintedWith(w)[k].count : k \in LinesOf(w)}]

\* Two files contest for the words that start with a rune of words of both.
First(f) == {Content[f][n][1] : n \in DOMAIN Content[f]}
Contested ==
    {w \in Words : \E f, g \in Files : f # g /\ w[1] \in First(f) \cap First(g)}

Occurrences(files, w) ==
    Cardinality({at \in UNION {{f} \X DOMAIN Content[f] : f \in files} :
                   Content[at[1]][at[2]] = w})

\* The files whose goroutine found them missing.
Lost == {f \in Files : local[f].panicking}

Count == INSTANCE WordCount WITH
    Times       <- [lost \in SUBSET Files |->
                      [w \in Words |-> Occurrences(Files \ lost, w)]],
    count       <- [w \in Words |-> Search(w)],
    reports     <- [w \in Words |-> ReportsOf(w)],
    lost        <- Lost

\* Each Insert adds one to its word and disturbs no other but those that several
\* files contest for, although the words of a file share nodes of the trie and
\* every mapper works at the root; reports come after all counts, and are exact.
\* Where a panicking mapper's deferred calls let the reducers run before the
\* process dies, the lines they print lack the words of its file and no others.
ImplementsWordCount == Count!Spec
=============================================================================
