----------------------------- MODULE MCCalculator -----------------------------
(***************************************************************************)
(* Instances of Calculator for TLC.                                        *)
(***************************************************************************)
EXTENDS Calculator

MCClients == {1, 2}
MCLiterals == {<<"1">>, <<"2", ".", "3">>}

One == Number(<<"1">>)
Decimal == Number(<<"2", ".", "3">>)

\* Nested to the left, with a space after the operator, and to the right.
Nested == {Combined("/", Spaced(Combined("-", One, Decimal)), One),
           Combined("-", Decimal, Combined("/", One, Decimal))}

\* Next to them: an integer at the end, and an operator with one operand.
MCQueries == {e[2] : e \in Nested} \cup {<<"1">>, <<"2", ".", "3", "+">>}
=============================================================================
