---------------------------- MODULE MCReservation ----------------------------
(* Small inputs for Reservation.                                           *)
EXTENDS ReservationRefinement

\* client.c reads a count with %d and server.c with atoi: a negative count is
\* accepted by both and gives tickets back.
SignedCounts == {-1, 2}

\* Bound on the bookings of all clients together, two of one or one of each.
FewBookings == FoldFunction(LAMBDA a, b : a + b, 0, sent) <= 2

\* The clients behave alike.
Interchangeable == Permutations(Clients)
=============================================================================
