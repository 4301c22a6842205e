-------------------------- MODULE ReservationSales --------------------------
(***************************************************************************)
(* Reservation with two histories the programs do not keep: the bookings   *)
(* in the order in which they took their tickets, and whether two threads  *)
(* have ever been between the comparisons of server.c:106 and the stores   *)
(* of lines 108-109 at once, which is where a lock would keep them apart.  *)
(***************************************************************************)
EXTENDS Reservation

VARIABLES sales, overlapped
salesVars == <<vars, sales, overlapped>>

SalesInit == Init /\ sales = << >> /\ overlapped = FALSE

Selling == {c \in Clients : thread[c] \in {"check SL", "load AC", "store AC",
                                          "load SL", "store SL"}}
Sells(c) == thread[c] = "store AC" /\ thread'[c] = "load SL"

SalesNext ==
    /\ Next
    /\ \/ \E c \in Clients : Sells(c) /\ sales' = Append(sales, Booking(c))
       \/ (\A c \in Clients : ~Sells(c)) /\ sales' = sales
    /\ overlapped' = (overlapped \/ \E c, d \in Selling' : c # d)

SalesSpec == SalesInit /\ [][SalesNext]_salesVars
-----------------------------------------------------------------------------
Sold(who) == Total(sales, who)

\* Where a thread has taken tickets that the file does not know of yet.
Granting(c) == thread[c] \in {"load SL", "store SL", "grant", "log"}

\* The file accounts for all tickets taken but those of the booking that each
\* thread has in hand, in any interleaving and for killed clients too: what a
\* server that exits leaves out is at most that one booking of a client.
SalesRecorded ==
    \A c \in Clients :
        Sold({c}) = IF Granting(c) THEN Plus(Recorded({c}), req[c])
                                   ELSE Recorded({c})

\* server.c:105, "Check if the tickets are available", for any number of sessions:
\* until two bookings overlap nothing is sold that is not there.
SoldWhatThereWas ==
    ~overlapped => Sold(Clients).ac <= AC_NUM /\ Sold(Clients).sl <= SL_NUM
=============================================================================
