---------------------------- MODULE TicketLedger ----------------------------
(* What the ticket server is for: a booking is granted when there are      *)
(* tickets of both classes for it, and takes them, in one step.  That much *)
(* is promised until two bookings overlap; from then on the numbers left   *)
(* may be anything, and still only whole bookings are sold.                *)
EXTENDS Integers

CONSTANTS AC_NUM, SL_NUM, Counts

VARIABLES ac, sl,       \* the tickets left
          sold,         \* the tickets granted, by class
          overlapped    \* two bookings have overlapped
vars == <<ac, sl, sold, overlapped>>

Init == /\ ac = AC_NUM /\ sl = SL_NUM /\ sold = [ac |-> 0, sl |-> 0]
        /\ overlapped = FALSE

Sell(numAC, numSL) == sold' = [ac |-> sold.ac + numAC, sl |-> sold.sl + numSL]

Book(numAC, numSL) ==
    /\ ~overlapped /\ numAC <= ac /\ numSL <= sl
    /\ ac' = ac - numAC /\ sl' = sl - numSL
    /\ Sell(numAC, numSL)
    /\ UNCHANGED overlapped

Overlap == ~overlapped /\ overlapped' /\ UNCHANGED <<ac, sl, sold>>

Confuse ==
    /\ overlapped /\ ac' \in Int /\ sl' \in Int
    /\ sold' = sold \/ \E numAC, numSL \in Counts : Sell(numAC, numSL)
    /\ UNCHANGED overlapped

Next == Overlap \/ Confuse \/ \E numAC, numSL \in Counts : Book(numAC, numSL)

Spec == Init /\ [][Next]_vars
=============================================================================
