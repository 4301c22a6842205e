----------------------------- MODULE MCMapReduce -----------------------------
(* Small inputs for MapReduce: runes are small numbers.                    *)
EXTENDS MapReduceRefinement

\* Two files contest for a and ac; the third, which shares prefixes within itself
\* only, has b, bc, bc: a ac, a, b bc bc.
MixedContent == << << <<1>>, <<1, 3>> >>, << <<1>> >>, << <<2>>, <<2, 3>>, <<2, 3>> >> >>

\* Two files of the one word a.
TwinContent == << << <<1>> >>, << <<1>> >> >>
=============================================================================
