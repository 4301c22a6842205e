----------------------------- MODULE MCHyperLogLog -----------------------------
(***************************************************************************)
(* An instance of HyperLogLog for TLC: words of 4 bits, two registers.     *)
(* Ranks 2, 1 and 0 for the first register, 1 for the second, and an       *)
(* element whose word is zero.                                             *)
(***************************************************************************)
EXTENDS HyperLogLog, TLC

MCHash == ("a" :> 4) @@ ("b" :> 2) @@ ("c" :> 1) @@ ("d" :> 14) @@ ("zero" :> 8)
MCElements == DOMAIN MCHash
=============================================================================
