---------------------------- MODULE FencedLedger ----------------------------
(***************************************************************************)
(* What the trip-event pipeline promises of a database event row, with the *)
(* queue, the lock and the Workers abstracted away: an event is accepted   *)
(* once, is claimed under ever larger fencing tokens, receives work only   *)
(* under the token that claimed it last, and is completed once.            *)
(* TripEventWorker is shown to implement this module.                      *)
(***************************************************************************)
EXTENDS Naturals

CONSTANT Events     \* the trip_events rows

VARIABLES
  status,           \* trip_events.status
  fence,            \* trip_events.worker_fencing_token
  commits           \* fencing tokens under which agent work was committed

ledgerVars == <<status, fence, commits>>

EventStatus == {"absent", "processed", "worker_processing", "worker_processed"}

LedgerInit ==
  /\ status  = [e \in Events |-> "absent"]
  /\ fence   = [e \in Events |-> 0]
  /\ commits = [e \in Events |-> {}]

\* The API inserts the row; its status is then "processed" (by the API).
Accept(e) ==
  /\ status[e] = "absent"
  /\ status' = [status EXCEPT ![e] = "processed"]
  /\ UNCHANGED <<fence, commits>>

\* A Worker takes the event over under a token larger than any before.
Claim(e) ==
  /\ status[e] \in {"processed", "worker_processing"}
  /\ status' = [status EXCEPT ![e] = "worker_processing"]
  /\ fence'[e] \in Nat /\ fence[e] < fence'[e]
  /\ fence' = [fence EXCEPT ![e] = fence'[e]]
  /\ UNCHANGED commits

\* Work is committed under the latest claim.
Work(e) ==
  /\ status[e] = "worker_processing"
  /\ commits' = [commits EXCEPT ![e] = @ \cup {fence[e]}]
  /\ UNCHANGED <<status, fence>>

Complete(e) ==
  /\ status[e] = "worker_processing"
  /\ status' = [status EXCEPT ![e] = "worker_processed"]
  /\ UNCHANGED <<fence, commits>>

LedgerNext ==
  \E e \in Events : Accept(e) \/ Claim(e) \/ Work(e) \/ Complete(e)

LedgerSpec == LedgerInit /\ [][LedgerNext]_ledgerVars

=============================================================================
