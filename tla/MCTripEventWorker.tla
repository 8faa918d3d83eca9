------------------------- MODULE MCTripEventWorker -------------------------
(***************************************************************************)
(* Small instances of TripEventWorker: two events of one trip, so that the *)
(* trip lock is contended both by duplicates of one event and by another   *)
(* event.                                                                  *)
(***************************************************************************)
EXTENDS TripEventWorker

CONSTANTS e1, e2, t1

OneTrip == [e \in Events |-> t1]
WorkerSymmetry == Permutations(Workers)

=============================================================================
