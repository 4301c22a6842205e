------------------------ MODULE ReservationRefinement ------------------------
(* The ticket server as a ledger.  A booking takes effect when it stores    *)
(* AC; the store to SL that follows is brought forward to it.               *)
EXTENDS ReservationSales

Storing(c) == thread[c] \in {"load SL", "store SL"}
ToStore == IF \E c \in Clients : Storing(c)
             THEN req[CHOOSE c \in Clients : Storing(c)].sl ELSE 0

Ledger == INSTANCE TicketLedger WITH
    ac   <- AC,
    sl   <- SL - ToStore,
    sold <- Sold(Clients)

\* The threads' loads and stores are a ledger's bookings until two overlap: each
\* takes its tickets of both classes, when there are enough of both, or none, and
\* a refused, failed or abandoned one takes nothing, whatever the sessions do.
ImplementsLedger == Ledger!Spec
=============================================================================
