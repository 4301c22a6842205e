------------------------------ MODULE MCReversal ------------------------------
(***************************************************************************)
(* An instance of Reversal for TLC: four clients for three places, the     *)
(* later messages longer and shorter than the earlier.                     *)
(***************************************************************************)
EXTENDS Reversal

MCMessages == (1 :> <<"a", "b", "c">>) @@ (2 :> <<"d", "e">>) @@ (3 :> <<"f">>)
                @@ (4 :> <<"g", "h", "h">>)
=============================================================================
