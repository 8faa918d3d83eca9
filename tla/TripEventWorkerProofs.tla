----------------------- MODULE TripEventWorkerProofs -----------------------
(***************************************************************************)
(* Proofs about TripEventWorker for any number of Workers, events, trips,  *)
(* crashes, expired leases and retries: types, fencing tokens, the ledger. *)
(* The last two parts speak of fewer Workers, since with several of them   *)
(* the code does not keep what they state: notices are unique with one     *)
(* Worker or without stalls, and nothing is lost with one Worker.          *)
(***************************************************************************)
EXTENDS TripEventWorker, SequenceTheorems, FiniteSetTheorems, TLAPS

-----------------------------------------------------------------------------
(* Operators of the model *)

\* The initial local message is a message (the msg variable is always typed).
LEMMA NoMessageType == NoMessage \in Message
<1>1. AttemptLimit \in Nat \ {0}
  BY BoundsAssumption DEF AttemptLimit
<1>2. (CHOOSE e \in Events : TRUE) \in Events
  BY EventsAssumption
<1> QED  BY <1>1, <1>2 DEF NoMessage, Message

\* LREM keeps a list a list of the same things.
LEMMA RemoveAtType ==
  ASSUME NEW S, NEW s \in Seq(S), NEW i \in DOMAIN s
  PROVE  RemoveAt(s, i) \in Seq(S)
<1>1. Len(s) \in Nat /\ i \in 1..Len(s) /\ \A k \in 1..Len(s) : s[k] \in S
  OBVIOUS
<1>2. SubSeq(s, 1, i - 1) \in Seq(S)
  BY <1>1, SubSeqProperties
<1>3. SubSeq(s, i + 1, Len(s)) \in Seq(S)
  BY <1>1, SubSeqProperties
<1> QED  BY <1>2, <1>3, ConcatProperties DEF RemoveAt

\* An ordering of a finite set of messages is a sequence of messages.
LEMMA SetToSeqsType ==
  ASSUME NEW S, IsFiniteSet(S), NEW s \in SetToSeqs(S)
  PROVE  s \in Seq(S)
<1>1. Cardinality(S) \in Nat
  BY FS_CardinalityType
<1>2. s \in [1..Cardinality(S) -> S]
  BY DEF SetToSeqs
<1> QED  BY <1>1, <1>2, IsASeq

\* enqueue_retry keeps the retry set and the dead-letter list typed: below the
\* maximum a message stays a Message, at the maximum it is a DeadLetter.
LEMMA EnqueueRetryType ==
  ASSUME TypeOK, NEW m \in Message, NEW limit \in {MaxFailures, MaxContention},
         EnqueueRetry(m, limit)
  PROVE  /\ retry' \subseteq Message /\ IsFiniteSet(retry')
         /\ due' \subseteq retry' /\ dlq' \subseteq DeadLetter
<1> DEFINE again == [m EXCEPT !.attempt = @ + 1]
<1>1. limit \in Nat /\ AttemptLimit \in Nat /\ limit <= AttemptLimit
  BY BoundsAssumption DEF AttemptLimit
<1>2. again \in DeadLetter /\ again.attempt \in Nat
  BY <1>1 DEF Message, DeadLetter
<1>3. CASE again.attempt >= limit
  BY <1>2, <1>3 DEF TypeOK, EnqueueRetry
<1>4. CASE ~(again.attempt >= limit)
  <2>1. again \in Message
    BY <1>1, <1>2, <1>4 DEF Message, DeadLetter
  <2>2. IsFiniteSet(retry \cup {again})
    BY FS_AddElement DEF TypeOK
  <2> QED  BY <1>4, <2>1, <2>2 DEF TypeOK, EnqueueRetry
<1> QED  BY <1>3, <1>4

-----------------------------------------------------------------------------
(* Types *)

\* The initial state is well typed.
LEMMA InitTypeOK == Init => TypeOK
BY NoMessageType, BoundsAssumption, FS_EmptySet
DEF Init, TypeOK, WorkerPc, Handling, Holding


\* A reserved message names an event, which belongs to a trip.
LEMMA MessageTrip ==
  ASSUME TypeOK, NEW w \in Workers
  PROVE  msg[w] \in Message /\ msg[w].event \in Events /\ TripAt(w) \in Trips
BY TripOfAssumption DEF TypeOK, TripAt, Message

\* Every step of every process keeps the state well typed.
LEMMA NextTypeOK == TypeOK /\ [Next]_vars => TypeOK'
<1> SUFFICES ASSUME TypeOK, [Next]_vars PROVE TypeOK'
  OBVIOUS
<1> USE DEF dbVars, queueVars, lockVars, noticeVars, workerVars, boundVars
<1>1. ASSUME NEW e \in Events, IngestCommit(e) \/ IngestEnqueue(e) \/ IngestLost(e)
      PROVE  TypeOK'
  <2>1. CASE IngestCommit(e)
    BY <2>1 DEF TypeOK, IngestCommit
  <2>2. CASE IngestEnqueue(e)
    <3>1. [event |-> e, attempt |-> 0] \in Message
      BY NoMessageType DEF Message, NoMessage
    <3> QED  BY <2>2, <3>1, AppendProperties DEF TypeOK, IngestEnqueue
  <2>3. CASE IngestLost(e)
    BY <2>3 DEF TypeOK, IngestLost
  <2> QED  BY <1>1, <2>1, <2>2, <2>3
<1>2. ASSUME NEW m \in Message, BecomeDue(m) PROVE TypeOK'
  BY <1>2 DEF TypeOK, BecomeDue
<1>3. ASSUME NEW t \in Trips, LeaseExpires(t) PROVE TypeOK'
  <2>1. stalls' \in 0..MaxStalls
    <3>1. CASE stalls < MaxStalls /\ stalls' = stalls + 1
      BY <3>1, BoundsAssumption DEF TypeOK
    <3>2. CASE UNCHANGED stalls
      BY <3>2 DEF TypeOK
    <3> QED  BY <1>3, <3>1, <3>2 DEF LeaseExpires
  <2>2. lock' \in [Trips -> Nat]
    BY <1>3 DEF TypeOK, LeaseExpires
  <2> QED  BY <1>3, <2>1, <2>2 DEF TypeOK, LeaseExpires
<1>4. ASSUME NEW w \in Workers, Restart(w) PROVE TypeOK'
  BY <1>4, BoundsAssumption DEF TypeOK, Restart, Goto, WorkerPc
<1>5. ASSUME NEW w \in Workers, WorkerStep(w) PROVE TypeOK'
  <2>1. CASE Recover(w)
    <3>1. CASE processing # <<>> /\ quota[w] > 0
      <4>1. Head(processing) \in Message /\ Tail(processing) \in Seq(Message)
        BY <3>1, HeadTailProperties DEF TypeOK
      <4>2. main' \in Seq(Message) /\ processing' \in Seq(Message)
        <5>1. main' = Append(main, Head(processing)) /\ processing' = Tail(processing)
          BY <2>1, <3>1 DEF Recover
        <5> QED  BY <4>1, <5>1, AppendProperties DEF TypeOK
      <4>3. quota' \in [Workers -> 0..RecoverLimit]
        BY <2>1, <3>1, BoundsAssumption DEF TypeOK, Recover
      <4> QED  BY <2>1, <3>1, <4>2, <4>3 DEF TypeOK, Recover
    <3>2. CASE ~(processing # <<>> /\ quota[w] > 0)
      <4>1. Goto(w, {"boot"}, "top") /\ quota' = [quota EXCEPT ![w] = 0]
        BY <2>1, <3>2 DEF Recover
      <4>2. pc' \in [Workers -> WorkerPc] /\ quota' \in [Workers -> 0..RecoverLimit]
        BY <4>1, BoundsAssumption DEF TypeOK, Goto, WorkerPc
      <4> QED  BY <2>1, <3>2, <4>2 DEF TypeOK, Recover
    <3> QED  BY <3>1, <3>2
  <2>2. CASE PromoteRetries(w)
    <3>1. IsFiniteSet(due)
      BY FS_Subset DEF TypeOK
    <3>2. PICK s \in SetToSeqs(due) : main' = main \o s
      BY <2>2 DEF PromoteRetries
    <3>3. s \in Seq(due)
      BY <3>1, <3>2, SetToSeqsType
    <3>4. s \in Seq(Message)
      BY <3>3 DEF TypeOK
    <3>5. main' \in Seq(Message)
      BY <3>2, <3>4, ConcatProperties DEF TypeOK
    <3>6. retry' \subseteq Message /\ IsFiniteSet(retry') /\ due' \subseteq retry'
      BY <2>2, FS_Subset DEF TypeOK, PromoteRetries
    <3> QED  BY <2>2, <3>5, <3>6 DEF TypeOK, PromoteRetries, Goto, WorkerPc
  <2>3. CASE Reserve(w)
    <3>1. Head(main) \in Message /\ Tail(main) \in Seq(Message)
      BY <2>3, HeadTailProperties DEF TypeOK, Reserve
    <3>2. processing' \in Seq(Message)
      BY <2>3, <3>1, AppendProperties DEF TypeOK, Reserve
    <3> QED  BY <2>3, <3>1, <3>2 DEF TypeOK, Reserve, Goto, WorkerPc, Handling
  <2>4. CASE PollTimeout(w)
    BY <2>4 DEF TypeOK, PollTimeout, Goto, WorkerPc, Handling, Holding
  <2>5. CASE AcquireLock(w)
    <3>1. lockFence[TripAt(w)] + 1 \in Nat
      <4>1. TripAt(w) \in Trips
        BY MessageTrip
      <4> QED  BY <4>1 DEF TypeOK
    <3>2. /\ lock' \in [Trips -> Nat] /\ lockFence' \in [Trips -> Nat]
          /\ token' \in [Workers -> Nat]
      BY <2>5, <3>1 DEF TypeOK, AcquireLock
    <3>3. pc' \in [Workers -> WorkerPc]
      BY <2>5 DEF TypeOK, AcquireLock, Goto, WorkerPc, Handling, Holding
    <3> QED  BY <2>5, <3>2, <3>3 DEF TypeOK, AcquireLock
  <2>6. CASE Contended(w)
    <3>1. EnqueueRetry(msg[w], MaxContention) /\ msg[w] \in Message
      BY <2>6 DEF TypeOK, Contended
    <3>2. /\ retry' \subseteq Message /\ IsFiniteSet(retry')
          /\ due' \subseteq retry' /\ dlq' \subseteq DeadLetter
      BY <3>1, EnqueueRetryType
    <3> QED  BY <2>6, <3>2 DEF TypeOK, Contended, Goto, WorkerPc, Handling
  <2>7. CASE LoadEvent(w)
    BY <2>7 DEF TypeOK, LoadEvent, Goto, WorkerPc, Handling, Holding
  <2>8. CASE CheckLease(w)
    BY <2>8 DEF TypeOK, CheckLease, Goto, WorkerPc, Handling, Holding
  <2>9. CASE ClaimFence(w)
    <3> DEFINE e == msg[w].event
    <3>1. CASE status[e] # "worker_processed" /\ fence[e] < token[w]
      <4>1. /\ pc' = [pc EXCEPT ![w] = AfterClaim(e)]
            /\ status' = [status EXCEPT ![e] = "worker_processing"]
            /\ fence' = [fence EXCEPT ![e] = token[w]]
        BY <2>9, <3>1 DEF ClaimFence, Goto
      <4>2. pc' \in [Workers -> WorkerPc]
        BY <4>1 DEF TypeOK, AfterClaim, WorkerPc, Handling, Holding
      <4>3. status' \in [Events -> {"absent", "processed", "worker_processing",
                                    "worker_processed"}]
        BY <4>1 DEF TypeOK
      <4>4. fence' \in [Events -> Nat]
        BY <4>1 DEF TypeOK
      <4> QED  BY <2>9, <4>2, <4>3, <4>4 DEF TypeOK, ClaimFence
    <3>2. CASE ~(status[e] # "worker_processed" /\ fence[e] < token[w])
      BY <2>9, <3>2 DEF TypeOK, ClaimFence, Goto, WorkerPc, Handling, Holding
    <3> QED  BY <3>1, <3>2
  <2>10. CASE NotifyCheck(w)
    BY <2>10 DEF TypeOK, NotifyCheck, Goto, WorkerPc, Handling, Holding
  <2>11. CASE NotifySet(w)
    BY <2>11 DEF TypeOK, NotifySet, Goto, WorkerPc, Handling, Holding
  <2>12. CASE NotifyPush(w)
    <3>1. notices' \in [Events -> Nat]
      <4>1. notices' = [notices EXCEPT ![msg[w].event] = @ + 1]
        BY <2>12 DEF NotifyPush
      <4>2. msg[w].event \in Events
        BY MessageTrip
      <4>3. notices \in [Events -> Nat]
        BY DEF TypeOK
      <4> QED  BY <4>1, <4>2, <4>3
    <3>2. pc' \in [Workers -> WorkerPc]
      BY <2>12 DEF TypeOK, NotifyPush, Goto, WorkerPc, Handling, Holding
    <3> QED  BY <2>12, <3>1, <3>2 DEF TypeOK, NotifyPush
  <2>13. CASE AgentCommit(w)
    <3>1. CASE CommitAllowed(w)
      <4>1. commits' = [commits EXCEPT ![msg[w].event] = @ \cup {token[w]}]
        BY <2>13, <3>1 DEF AgentCommit
      <4>2. token[w] \in Nat
        BY DEF TypeOK
      <4>3. commits' \in [Events -> SUBSET Nat]
        <5>1. commits \in [Events -> SUBSET Nat]
          BY DEF TypeOK
        <5>2. commits[msg[w].event] \cup {token[w]} \in SUBSET Nat
          BY <4>2, <5>1, MessageTrip
        <5> QED  BY <4>1, <5>1, <5>2
      <4>4. tripCommit' \in [Trips -> Nat]
        <5>1. tripCommit' = [tripCommit EXCEPT ![TripAt(w)] = token[w]]
          BY <2>13, <3>1 DEF AgentCommit
        <5> QED  BY <4>2, <5>1 DEF TypeOK
      <4> QED  BY <2>13, <3>1, <4>3, <4>4 DEF TypeOK, AgentCommit
    <3>2. CASE ~CommitAllowed(w)
      BY <2>13, <3>2 DEF TypeOK, AgentCommit, Goto, WorkerPc, Handling, Holding
    <3> QED  BY <3>1, <3>2
  <2>14. CASE AgentDone(w)
    BY <2>14 DEF TypeOK, AgentDone, Goto, WorkerPc, Handling, Holding
  <2>15. CASE PublishStream(w)
    BY <2>15 DEF TypeOK, PublishStream, Goto, WorkerPc, Handling, Holding
  <2>16. CASE MarkProcessed(w)
    BY <2>16 DEF TypeOK, MarkProcessed, Goto, WorkerPc, Handling, Holding
  <2>17. CASE HandleFailure(w)
    <3>1. EnqueueRetry(msg[w], MaxFailures) /\ msg[w] \in Message
      BY <2>17 DEF TypeOK, HandleFailure
    <3>2. /\ retry' \subseteq Message /\ IsFiniteSet(retry')
          /\ due' \subseteq retry' /\ dlq' \subseteq DeadLetter
      BY <3>1, EnqueueRetryType
    <3> QED  BY <2>17, <3>2 DEF TypeOK, HandleFailure, Goto, WorkerPc, Handling, Holding
  <2>18. CASE ReleaseLock(w)
    BY <2>18 DEF TypeOK, ReleaseLock, ReleasedLock, Goto, WorkerPc, Handling
  <2>19. CASE Acknowledge(w)
    <3>1. processing' \in Seq(Message)
      BY <2>19, RemoveAtType DEF TypeOK, Acknowledge, RemoveFromProcessing
    <3> QED  BY <2>19, <3>1, NoMessageType DEF TypeOK, Acknowledge, Forget, Goto, WorkerPc
  <2> QED  BY <1>5, <2>1, <2>2, <2>3, <2>4, <2>5, <2>6, <2>7, <2>8, <2>9, <2>10,
               <2>11, <2>12, <2>13, <2>14, <2>15, <2>16, <2>17, <2>18, <2>19 DEF WorkerStep
<1>6. ASSUME NEW w \in Workers, WorkerFault(w) PROVE TypeOK'
  <2>1. CASE RenewFails(w)
    BY <2>1 DEF TypeOK, RenewFails
  <2>2. CASE RenewErrors(w)
    BY <2>2, BoundsAssumption DEF TypeOK, RenewErrors
  <2>3. CASE RunRaises(w)
    BY <2>3 DEF TypeOK, RunRaises, Goto, WorkerPc, Handling, Holding
  <2>4. CASE HandlerRaises(w)
    <3>1. lock' \in [Trips -> Nat]
      <4>1. UNCHANGED lock \/ lock' = ReleasedLock(w)
        BY <2>4 DEF HandlerRaises
      <4>2. ReleasedLock(w) \in [Trips -> Nat]
        BY MessageTrip DEF TypeOK, ReleasedLock
      <4> QED  BY <4>1, <4>2 DEF TypeOK
    <3>2. pc' \in [Workers -> WorkerPc]
      BY <2>4 DEF TypeOK, HandlerRaises, Goto, WorkerPc
    <3>3. redisErrors' \in 0..MaxRedisErrors
      BY <2>4, BoundsAssumption DEF TypeOK, HandlerRaises
    <3> QED  BY <2>4, <3>1, <3>2, <3>3, NoMessageType DEF TypeOK, HandlerRaises, Forget
  <2>5. CASE Crash(w)
    BY <2>5, NoMessageType, BoundsAssumption DEF TypeOK, Crash, Forget, Goto, WorkerPc
  <2> QED  BY <1>6, <2>1, <2>2, <2>3, <2>4, <2>5 DEF WorkerFault
<1>7. CASE UNCHANGED vars
  BY <1>7 DEF TypeOK, vars
<1> QED  BY <1>1, <1>2, <1>3, <1>4, <1>5, <1>6, <1>7 DEF Next

\* Type correctness of every reachable state.
THEOREM TypeCorrect == Spec => []TypeOK
BY InitTypeOK, NextTypeOK, PTL DEF Spec

-----------------------------------------------------------------------------
(* Fencing tokens *)

\* The initial state satisfies the fencing invariant.
LEMMA InitFenceInv == Init => FenceInv
BY TripOfAssumption
DEF Init, FenceInv, TokensIssued, TokensDistinct, ClaimIntact, NewEventsAbsent,
    Holding, Claimed

\* A step that issues no token, writes no row and lets no Worker into a place
\* it has no right to.
Quiet ==
  /\ UNCHANGED <<status, fence, lockFence>>
  /\ \A t \in Trips : lock'[t] \in {lock[t], 0}
  /\ \A e \in Events : api'[e] = "new" => api[e] = "new"
  /\ \A v \in Workers :
       pc'[v] \in Holding =>
         /\ pc[v] \in Holding /\ msg'[v] = msg[v] /\ token'[v] = token[v]
         /\ pc'[v] \in Claimed => pc[v] \in Claimed
         /\ pc'[v] \in {"check", "claim"}
              => pc[v] \in {"check", "claim"} \/ status[msg[v].event] # "absent"

\* Quiet steps preserve the fencing invariant.
LEMMA QuietStep == TypeOK /\ FenceInv /\ Quiet => FenceInv'
<1> SUFFICES ASSUME TypeOK, FenceInv, Quiet PROVE FenceInv'
  OBVIOUS
<1> USE DEF FenceInv, Quiet
<1>1. TokensIssued'
  <2>1. \A t \in Trips : lock'[t] <= lockFence'[t]
    <3> SUFFICES ASSUME NEW t \in Trips PROVE lock'[t] <= lockFence[t]
      OBVIOUS
    <3>1. lock[t] <= lockFence[t] /\ 0 <= lockFence[t]
      BY DEF TokensIssued, TypeOK
    <3> QED  BY <3>1
  <2>2. \A e \in Events : fence'[e] <= lockFence'[TripOf[e]]
    BY DEF TokensIssued
  <2>3. \A w \in Workers : pc'[w] \in Holding => token'[w] \in 1..lockFence'[TripAt(w)']
    BY DEF TokensIssued, TripAt
  <2> QED  BY <2>1, <2>2, <2>3 DEF TokensIssued
<1>2. TokensDistinct'
  BY DEF TokensDistinct, TripAt
<1>3. ClaimIntact'
  <2> SUFFICES ASSUME NEW w \in Workers
               PROVE  /\ pc'[w] \in {"check", "claim"} \cup Claimed
                           => status'[msg'[w].event] # "absent"
                      /\ pc'[w] \in Claimed /\ fence'[msg'[w].event] = token'[w]
                           => status'[msg'[w].event] = "worker_processing"
    BY DEF ClaimIntact
  <2>1. {"check", "claim"} \subseteq Holding /\ Claimed \subseteq Holding
    BY DEF Holding, Claimed
  <2> QED  BY <2>1 DEF ClaimIntact
<1>4. NewEventsAbsent'
  BY DEF NewEventsAbsent
<1> QED  BY <1>1, <1>2, <1>3, <1>4

\* Reporting an event writes a row no Worker can have seen.
LEMMA IngestCommitFenceInv ==
  ASSUME TypeOK, FenceInv, NEW e \in Events, IngestCommit(e)
  PROVE  FenceInv'
<1> USE DEF FenceInv, IngestCommit, lockVars, workerVars, TripAt
<1>1. TokensIssued'
  BY DEF TokensIssued
<1>2. TokensDistinct'
  BY DEF TokensDistinct
<1>3. ClaimIntact'
  BY MessageTrip DEF TypeOK, ClaimIntact, NewEventsAbsent
<1>4. NewEventsAbsent'
  BY DEF TypeOK, NewEventsAbsent
<1> QED  BY <1>1, <1>2, <1>3, <1>4

\* acquire_lock issues a token larger than every token of the trip.
LEMMA AcquireLockFenceInv ==
  ASSUME TypeOK, FenceInv, NEW w \in Workers, AcquireLock(w)
  PROVE  FenceInv'
<1> DEFINE t == TripAt(w)
<1> USE DEF FenceInv
<1>1. /\ t \in Trips /\ lockFence[t] \in Nat
      /\ lockFence' = [lockFence EXCEPT ![t] = lockFence[t] + 1]
      /\ lock' = [lock EXCEPT ![t] = lockFence[t] + 1]
      /\ token' = [token EXCEPT ![w] = lockFence[t] + 1]
      /\ pc[w] = "reserved" /\ pc' = [pc EXCEPT ![w] = "load"]
      /\ UNCHANGED <<status, fence, msg, api>>
  BY MessageTrip DEF TypeOK, AcquireLock, Goto, dbVars
<1>2. TripAt(w)' = t /\ \A v \in Workers : TripAt(v)' = TripAt(v) /\ TripAt(v) \in Trips
  BY <1>1, MessageTrip DEF TripAt
<1>3. TokensIssued'
  <2>1. \A u \in Trips : lock'[u] <= lockFence'[u] /\ lockFence[u] <= lockFence'[u]
    BY <1>1 DEF TokensIssued, TypeOK
  <2>2. \A e \in Events : fence'[e] <= lockFence'[TripOf[e]]
    <3> SUFFICES ASSUME NEW e \in Events PROVE fence[e] <= lockFence'[TripOf[e]]
      BY <1>1
    <3>1. TripOf[e] \in Trips
      BY TripOfAssumption
    <3>2. fence[e] <= lockFence[TripOf[e]] /\ lockFence[TripOf[e]] <= lockFence'[TripOf[e]]
      BY <2>1, <3>1 DEF TokensIssued
    <3>3. /\ fence[e] \in Nat /\ lockFence[TripOf[e]] \in Nat
          /\ lockFence'[TripOf[e]] \in Nat
      BY <1>1, <3>1 DEF TypeOK
    <3> QED  BY <3>2, <3>3
  <2>3. ASSUME NEW v \in Workers, pc'[v] \in Holding
        PROVE  token'[v] \in 1..lockFence'[TripAt(v)']
    <3>1. CASE v = w
      BY <1>1, <1>2, <3>1 DEF TypeOK
    <3>2. CASE v # w
      <4>1. token'[v] = token[v] /\ token[v] \in 1..lockFence[TripAt(v)]
        BY <1>1, <2>3, <3>2 DEF TokensIssued, TypeOK
      <4>2. /\ lockFence[TripAt(v)] \in Nat /\ lockFence'[TripAt(v)] \in Nat
            /\ lockFence[TripAt(v)] <= lockFence'[TripAt(v)]
        BY <1>1, <1>2, <2>1 DEF TypeOK
      <4> QED  BY <1>2, <4>1, <4>2
    <3> QED  BY <3>1, <3>2
  <2> QED  BY <2>1, <2>2, <2>3 DEF TokensIssued
<1>4. TokensDistinct'
  <2> SUFFICES ASSUME NEW u \in Workers, NEW v \in Workers, u # v,
                      pc'[u] \in Holding, pc'[v] \in Holding, TripAt(u) = TripAt(v)
               PROVE  token'[u] # token'[v]
    BY <1>2 DEF TokensDistinct
  <2>1. CASE u # w /\ v # w
    BY <1>1, <2>1 DEF TokensDistinct, TypeOK
  <2>2. CASE u = w
    <3>1. token'[v] = token[v] /\ token[v] \in 1..lockFence[t]
      BY <1>1, <2>2 DEF TokensIssued, TypeOK
    <3>2. token'[u] = lockFence[t] + 1
      BY <1>1, <2>2 DEF TypeOK
    <3> QED  BY <1>1, <3>1, <3>2
  <2>3. CASE v = w
    <3>1. token'[u] = token[u] /\ token[u] \in 1..lockFence[t]
      BY <1>1, <2>3 DEF TokensIssued, TypeOK
    <3>2. token'[v] = lockFence[t] + 1
      BY <1>1, <2>3 DEF TypeOK
    <3> QED  BY <1>1, <3>1, <3>2
  <2> QED  BY <2>1, <2>2, <2>3
<1>5. ClaimIntact'
  BY <1>1 DEF ClaimIntact, Claimed, TypeOK
<1>6. NewEventsAbsent'
  BY <1>1 DEF NewEventsAbsent
<1> QED  BY <1>3, <1>4, <1>5, <1>6

\* The claim puts the token on the row; the tokens of the other Workers of the
\* trip differ from it.
LEMMA ClaimFenceFenceInv ==
  ASSUME TypeOK, FenceInv, NEW w \in Workers, ClaimFence(w)
  PROVE  FenceInv'
<1> DEFINE e == msg[w].event
<1> USE DEF FenceInv, lockVars
<1>1. /\ e \in Events /\ pc[w] = "claim"
      /\ UNCHANGED <<lock, lockFence, msg, token, api>>
  BY MessageTrip DEF ClaimFence, Goto
<1>2. CASE status[e] # "worker_processed" /\ fence[e] < token[w]
  <2>1. /\ pc' = [pc EXCEPT ![w] = AfterClaim(e)] /\ AfterClaim(e) \in Claimed
        /\ status' = [status EXCEPT ![e] = "worker_processing"]
        /\ fence' = [fence EXCEPT ![e] = token[w]]
    BY <1>2 DEF ClaimFence, Goto, AfterClaim, Claimed
  <2>2. "claim" \in Holding /\ Claimed \subseteq Holding
    BY DEF Holding, Claimed
  <2>3. \A v \in Workers : /\ TripAt(v)' = TripAt(v)
                           /\ pc'[v] \in Holding => pc[v] \in Holding
                           /\ v # w => pc'[v] = pc[v]
    BY <1>1, <2>1, <2>2 DEF TripAt, TypeOK
  <2>4. TokensIssued'
    <3>1. \A f \in Events : fence'[f] <= lockFence'[TripOf[f]]
      <4> SUFFICES ASSUME NEW f \in Events PROVE fence'[f] <= lockFence[TripOf[f]]
        BY <1>1
      <4>1. CASE f = e
        <5>1. fence'[f] = token[w] /\ token[w] \in 1..lockFence[TripOf[e]]
          BY <1>1, <2>1, <2>2, <4>1 DEF TokensIssued, TripAt, TypeOK
        <5> QED  BY <4>1, <5>1
      <4>2. CASE f # e
        BY <2>1, <4>2 DEF TokensIssued, TypeOK
      <4> QED  BY <4>1, <4>2
    <3> QED  BY <1>1, <2>3, <3>1 DEF TokensIssued
  <2>5. TokensDistinct'
    BY <1>1, <2>3 DEF TokensDistinct
  <2>6. ClaimIntact'
    <3> SUFFICES ASSUME NEW v \in Workers
                 PROVE  /\ pc'[v] \in {"check", "claim"} \cup Claimed
                             => status'[msg[v].event] # "absent"
                        /\ pc'[v] \in Claimed /\ fence'[msg[v].event] = token[v]
                             => status'[msg[v].event] = "worker_processing"
      BY <1>1 DEF ClaimIntact
    <3>1. msg[v].event \in Events
      BY MessageTrip
    <3>2. CASE msg[v].event = e
      BY <1>1, <2>1, <3>2 DEF TypeOK
    <3>3. CASE msg[v].event # e
      <4>1. v # w
        BY <3>3
      <4> QED  BY <2>1, <2>3, <3>1, <3>3, <4>1 DEF ClaimIntact, TypeOK
    <3> QED  BY <3>2, <3>3
  <2>7. NewEventsAbsent'
    <3>1. status[e] # "absent"
      BY <1>1 DEF ClaimIntact
    <3> QED  BY <1>1, <2>1, <3>1 DEF NewEventsAbsent, TypeOK
  <2> QED  BY <2>4, <2>5, <2>6, <2>7
<1>3. CASE ~(status[e] # "worker_processed" /\ fence[e] < token[w])
  <2>1. pc' = [pc EXCEPT ![w] = "release"] /\ UNCHANGED <<status, fence>>
    BY <1>3 DEF ClaimFence, Goto
  <2>2. Quiet
    BY <1>1, <2>1 DEF Quiet, Holding, Claimed, TypeOK
  <2> QED  BY <2>2, QuietStep
<1> QED  BY <1>2, <1>3

\* The guard lets worker_processed through only under the token on the row, so
\* no other Worker of the event is left believing in its claim.
LEMMA MarkProcessedFenceInv ==
  ASSUME TypeOK, FenceInv, NEW w \in Workers, MarkProcessed(w)
  PROVE  FenceInv'
<1> DEFINE e == msg[w].event
<1> USE DEF FenceInv, lockVars
<1>1. /\ e \in Events /\ pc[w] = "finish"
      /\ UNCHANGED <<lock, lockFence, msg, token, api, fence>>
  BY MessageTrip DEF MarkProcessed, Goto
<1>2. CASE CommitAllowed(w)
  <2>1. /\ pc' = [pc EXCEPT ![w] = "release"] /\ fence[e] = token[w]
        /\ status' = [status EXCEPT ![e] = "worker_processed"]
    BY <1>2 DEF MarkProcessed, Goto, CommitAllowed
  <2>2. "finish" \in Holding /\ "release" \notin Claimed \cup {"check", "claim"}
        /\ Claimed \subseteq Holding
    BY DEF Holding, Claimed
  <2>3. \A v \in Workers : /\ TripAt(v)' = TripAt(v)
                           /\ pc'[v] \in Holding => pc[v] \in Holding
                           /\ v # w => pc'[v] = pc[v]
    BY <1>1, <2>1, <2>2 DEF TripAt, TypeOK
  <2>4. TokensIssued' /\ TokensDistinct'
    BY <1>1, <2>3 DEF TokensIssued, TokensDistinct
  <2>5. ClaimIntact'
    <3> SUFFICES ASSUME NEW v \in Workers,
                        pc'[v] \in {"check", "claim"} \cup Claimed
                 PROVE  /\ status'[msg[v].event] # "absent"
                        /\ pc'[v] \in Claimed /\ fence[msg[v].event] = token[v]
                             => status'[msg[v].event] = "worker_processing"
      BY <1>1 DEF ClaimIntact
    <3>1. v # w /\ pc'[v] = pc[v] /\ msg[v].event \in Events
      BY <2>1, <2>2, <2>3, MessageTrip DEF TypeOK
    <3>2. ASSUME msg[v].event = e, pc[v] \in Claimed PROVE fence[msg[v].event] # token[v]
      <4>1. TripAt(v) = TripAt(w)
        BY <3>2 DEF TripAt
      <4> QED  BY <1>1, <2>1, <2>2, <3>1, <3>2, <4>1 DEF TokensDistinct
    <3> QED  BY <2>1, <3>1, <3>2 DEF ClaimIntact, TypeOK
  <2>6. NewEventsAbsent'
    <3>1. status[e] # "absent"
      BY <1>1 DEF ClaimIntact, Claimed
    <3> QED  BY <1>1, <2>1, <3>1 DEF NewEventsAbsent, TypeOK
  <2> QED  BY <2>4, <2>5, <2>6
<1>3. CASE ~CommitAllowed(w)
  <2>1. pc' = [pc EXCEPT ![w] = "failed"] /\ UNCHANGED status
    BY <1>3 DEF MarkProcessed, Goto
  <2>2. Quiet
    BY <1>1, <2>1 DEF Quiet, Holding, Claimed, TypeOK
  <2> QED  BY <2>2, QuietStep
<1> QED  BY <1>2, <1>3

\* Every other step of a Worker is quiet.
LEMMA WorkerStepQuiet ==
  ASSUME TypeOK, FenceInv, NEW w \in Workers, WorkerStep(w),
         ~AcquireLock(w), ~ClaimFence(w), ~MarkProcessed(w)
  PROVE  Quiet
<1> USE DEF Quiet, Goto, Holding, Claimed, dbVars, lockVars
<1>0. pc \in [Workers -> WorkerPc]
  BY DEF TypeOK
<1>1. CASE Recover(w)
  BY <1>0, <1>1 DEF Recover
<1>2. CASE PromoteRetries(w)
  BY <1>0, <1>2 DEF PromoteRetries
<1>3. CASE Reserve(w)
  BY <1>0, <1>3 DEF Reserve
<1>4. CASE PollTimeout(w)
  BY <1>0, <1>4 DEF PollTimeout
<1>5. CASE Contended(w)
  BY <1>0, <1>5 DEF Contended
<1>6. CASE LoadEvent(w)
  BY <1>0, <1>6 DEF LoadEvent
<1>7. CASE CheckLease(w)
  BY <1>0, <1>7 DEF CheckLease
<1>8. CASE NotifyCheck(w)
  BY <1>0, <1>8 DEF NotifyCheck
<1>9. CASE NotifySet(w)
  BY <1>0, <1>9 DEF NotifySet
<1>10. CASE NotifyPush(w)
  BY <1>0, <1>10 DEF NotifyPush
<1>11. CASE AgentCommit(w)
  BY <1>0, <1>11 DEF AgentCommit
<1>12. CASE AgentDone(w)
  BY <1>0, <1>12 DEF AgentDone
<1>13. CASE PublishStream(w)
  BY <1>0, <1>13 DEF PublishStream
<1>14. CASE HandleFailure(w)
  BY <1>0, <1>14 DEF HandleFailure
<1>15. CASE ReleaseLock(w)
  BY <1>0, <1>15 DEF ReleaseLock, ReleasedLock
<1>16. CASE Acknowledge(w)
  BY <1>0, <1>16 DEF Acknowledge, Forget
<1> QED  BY <1>1, <1>2, <1>3, <1>4, <1>5, <1>6, <1>7, <1>8, <1>9, <1>10, <1>11, <1>12, <1>13, <1>14, <1>15, <1>16
             DEF WorkerStep

\* What befalls a Worker is quiet: its tokens die with it.
LEMMA WorkerFaultQuiet ==
  ASSUME TypeOK, NEW w \in Workers, WorkerFault(w)
  PROVE  Quiet
<1> USE DEF Quiet, Goto, Holding, Claimed, dbVars, lockVars
<1>0. pc \in [Workers -> WorkerPc]
  BY DEF TypeOK
<1>1. CASE RenewFails(w)
  BY <1>0, <1>1 DEF RenewFails
<1>2. CASE RenewErrors(w)
  BY <1>0, <1>2 DEF RenewErrors
<1>3. CASE RunRaises(w)
  BY <1>0, <1>3 DEF RunRaises
<1>4. CASE HandlerRaises(w)
  <2>1. \A t \in Trips : lock'[t] \in {lock[t], 0}
    <3>1. UNCHANGED lock \/ lock' = ReleasedLock(w)
      BY <1>4 DEF HandlerRaises
    <3> QED  BY <3>1 DEF ReleasedLock, TypeOK
  <2> QED  BY <1>0, <1>4, <2>1 DEF HandlerRaises, Forget
<1>5. CASE Crash(w)
  BY <1>0, <1>5 DEF Crash, Forget
<1> QED  BY <1>1, <1>2, <1>3, <1>4, <1>5 DEF WorkerFault

\* Every step preserves the fencing invariant.
LEMMA NextFenceInv == TypeOK /\ FenceInv /\ [Next]_vars => FenceInv'
<1> SUFFICES ASSUME TypeOK, FenceInv, [Next]_vars PROVE FenceInv'
  OBVIOUS
<1>1. ASSUME NEW e \in Events, IngestCommit(e) PROVE FenceInv'
  BY <1>1, IngestCommitFenceInv
<1>2. ASSUME NEW e \in Events, IngestEnqueue(e) \/ IngestLost(e) PROVE Quiet
  BY <1>2 DEF IngestEnqueue, IngestLost, Quiet, dbVars, lockVars, workerVars, TypeOK
<1>3. ASSUME NEW m \in Message, BecomeDue(m) PROVE Quiet
  BY <1>3 DEF BecomeDue, Quiet, dbVars, lockVars, workerVars
<1>4. ASSUME NEW t \in Trips, LeaseExpires(t) PROVE Quiet
  BY <1>4 DEF LeaseExpires, Quiet, dbVars, workerVars, TypeOK
<1>5. ASSUME NEW w \in Workers, Restart(w) PROVE Quiet
  BY <1>5 DEF Restart, Goto, Quiet, dbVars, lockVars, TypeOK, Holding, Claimed
<1>6. ASSUME NEW w \in Workers, WorkerStep(w) PROVE FenceInv'
  <2>1. CASE AcquireLock(w)
    BY <2>1, AcquireLockFenceInv
  <2>2. CASE ClaimFence(w)
    BY <2>2, ClaimFenceFenceInv
  <2>3. CASE MarkProcessed(w)
    BY <2>3, MarkProcessedFenceInv
  <2> QED  BY <1>6, <2>1, <2>2, <2>3, WorkerStepQuiet, QuietStep
<1>7. ASSUME NEW w \in Workers, WorkerFault(w) PROVE Quiet
  BY <1>7, WorkerFaultQuiet
<1>8. ASSUME UNCHANGED vars PROVE Quiet
  <2>1. UNCHANGED <<status, fence, lock, lockFence, api, pc, msg, token>>
    BY <1>8 DEF vars, dbVars, lockVars, workerVars
  <2> QED  BY <2>1 DEF Quiet
<1> QED  BY <1>1, <1>2, <1>3, <1>4, <1>5, <1>6, <1>7, <1>8, QuietStep DEF Next

\* Tokens are issued in order, held by one run at a time and, once on a row,
\* keep every other run of the event from completing it.
THEOREM FencingCorrect == Spec => []FenceInv
<1>1. Init => TypeOK /\ FenceInv
  BY InitTypeOK, InitFenceInv
<1>2. TypeOK /\ FenceInv /\ [Next]_vars => TypeOK' /\ FenceInv'
  BY NextTypeOK, NextFenceInv
<1> QED  BY <1>1, <1>2, PTL DEF Spec

\* However many Workers hold a message for an event, the before_commit guard
\* lets at most one of them commit.
THEOREM OneCommitter == Spec => []OneCommitterPerEvent
<1>1. TypeOK /\ FenceInv => OneCommitterPerEvent
  <2> SUFFICES ASSUME TypeOK, FenceInv, NEW v \in Workers, NEW w \in Workers, v # w,
                      pc[v] \in Claimed, pc[w] \in Claimed, msg[v].event = msg[w].event,
                      CommitAllowed(v), CommitAllowed(w)
               PROVE  FALSE
    BY DEF OneCommitterPerEvent
  <2>1. pc[v] \in Holding /\ pc[w] \in Holding /\ TripAt(v) = TripAt(w)
    BY DEF Holding, Claimed, TripAt
  <2>2. token[v] # token[w]
    BY <2>1 DEF FenceInv, TokensDistinct
  <2> QED  BY <2>2 DEF CommitAllowed
<1> QED  BY <1>1, TypeCorrect, FencingCorrect, PTL

-----------------------------------------------------------------------------
(* Refinement of the ledger *)

\* The initial state of the pipeline is the empty ledger.
LEMMA LedgerInit == Init => Ledger!LedgerInit
BY DEF Init, Ledger!LedgerInit

\* Every step of the pipeline is a step of the ledger or leaves it alone.
LEMMA LedgerStep ==
  TypeOK /\ FenceInv /\ [Next]_vars => [Ledger!LedgerNext]_(Ledger!ledgerVars)
<1> SUFFICES ASSUME TypeOK, FenceInv, [Next]_vars
             PROVE  Ledger!LedgerNext \/ UNCHANGED <<status, fence, commits>>
  BY DEF Ledger!ledgerVars
<1> USE DEF dbVars
<1>1. ASSUME NEW e \in Events, IngestCommit(e) PROVE Ledger!Accept(e)
  BY <1>1 DEF IngestCommit, Ledger!Accept, FenceInv, NewEventsAbsent
<1>2. ASSUME NEW e \in Events, IngestEnqueue(e) \/ IngestLost(e)
      PROVE  UNCHANGED <<status, fence, commits>>
  BY <1>2 DEF IngestEnqueue, IngestLost
<1>3. ASSUME NEW m \in Message, BecomeDue(m) PROVE UNCHANGED <<status, fence, commits>>
  BY <1>3 DEF BecomeDue
<1>4. ASSUME NEW t \in Trips, LeaseExpires(t) PROVE UNCHANGED <<status, fence, commits>>
  BY <1>4 DEF LeaseExpires
<1>5. ASSUME NEW w \in Workers, Restart(w) PROVE UNCHANGED <<status, fence, commits>>
  BY <1>5 DEF Restart
<1>6. ASSUME NEW w \in Workers, WorkerStep(w)
      PROVE  \/ UNCHANGED <<status, fence, commits>>
             \/ \E e \in Events : Ledger!Claim(e) \/ Ledger!Work(e) \/ Ledger!Complete(e)
  <2> DEFINE e == msg[w].event
  <2>1. e \in Events /\ status[e] \in {"absent", "processed", "worker_processing",
                                       "worker_processed"}
    BY MessageTrip DEF TypeOK
  <2>2. CASE ClaimFence(w)
    <3>1. CASE status[e] # "worker_processed" /\ fence[e] < token[w]
      <4>1. /\ pc[w] = "claim" /\ UNCHANGED commits
            /\ status' = [status EXCEPT ![e] = "worker_processing"]
            /\ fence' = [fence EXCEPT ![e] = token[w]]
        BY <2>2, <3>1 DEF ClaimFence, Goto
      <4>2. status[e] \in {"processed", "worker_processing"}
        BY <2>1, <3>1, <4>1 DEF FenceInv, ClaimIntact
      <4>3. fence'[e] = token[w] /\ token[w] \in Nat
        BY <2>1, <4>1 DEF TypeOK
      <4>4. Ledger!Claim(e)
        BY <3>1, <4>1, <4>2, <4>3 DEF Ledger!Claim
      <4> QED  BY <2>1, <4>4
    <3>2. CASE ~(status[e] # "worker_processed" /\ fence[e] < token[w])
      BY <2>2, <3>2 DEF ClaimFence
    <3> QED  BY <3>1, <3>2
  <2>3. CASE AgentCommit(w)
    <3>1. CASE CommitAllowed(w)
      <4>1. /\ pc[w] = "agent" /\ UNCHANGED <<status, fence>>
            /\ commits' = [commits EXCEPT ![e] = @ \cup {token[w]}]
            /\ fence[e] = token[w]
        BY <2>3, <3>1 DEF AgentCommit, CommitAllowed
      <4>2. status[e] = "worker_processing"
        BY <4>1 DEF FenceInv, ClaimIntact, Claimed
      <4> QED  BY <2>1, <4>1, <4>2 DEF Ledger!Work
    <3>2. CASE ~CommitAllowed(w)
      BY <2>3, <3>2 DEF AgentCommit
    <3> QED  BY <3>1, <3>2
  <2>4. CASE MarkProcessed(w)
    <3>1. CASE CommitAllowed(w)
      <4>1. /\ pc[w] = "finish" /\ UNCHANGED <<fence, commits>>
            /\ status' = [status EXCEPT ![e] = "worker_processed"]
            /\ fence[e] = token[w]
        BY <2>4, <3>1 DEF MarkProcessed, CommitAllowed, Goto
      <4>2. status[e] = "worker_processing"
        BY <4>1 DEF FenceInv, ClaimIntact, Claimed
      <4> QED  BY <2>1, <4>1, <4>2 DEF Ledger!Complete
    <3>2. CASE ~CommitAllowed(w)
      BY <2>4, <3>2 DEF MarkProcessed
    <3> QED  BY <3>1, <3>2
  <2>5. CASE ~ClaimFence(w) /\ ~AgentCommit(w) /\ ~MarkProcessed(w)
    BY <1>6, <2>5
    DEF WorkerStep, Recover, PromoteRetries, Reserve, PollTimeout, AcquireLock,
        Contended, LoadEvent, CheckLease, NotifyCheck, NotifySet, NotifyPush, AgentDone,
        PublishStream, HandleFailure, ReleaseLock, Acknowledge
  <2> QED  BY <2>2, <2>3, <2>4, <2>5
<1>7. ASSUME NEW w \in Workers, WorkerFault(w) PROVE UNCHANGED <<status, fence, commits>>
  BY <1>7 DEF WorkerFault, RenewFails, RenewErrors, RunRaises, HandlerRaises, Crash
<1>8. ASSUME UNCHANGED vars PROVE UNCHANGED <<status, fence, commits>>
  BY <1>8 DEF vars
<1> QED  BY <1>1, <1>2, <1>3, <1>4, <1>5, <1>6, <1>7, <1>8 DEF Next, Ledger!LedgerNext

\* The pipeline implements the ledger: claims under growing tokens, work only
\* under the latest claim, and nothing after worker_processed.
THEOREM LedgerImplemented == Spec => ImplementsLedger
<1>1. Init => Ledger!LedgerInit
  BY LedgerInit
<1>2. TypeOK /\ FenceInv /\ [Next]_vars => [Ledger!LedgerNext]_(Ledger!ledgerVars)
  BY LedgerStep
<1> QED  BY <1>1, <1>2, TypeCorrect, FencingCorrect, PTL
         DEF Spec, ImplementsLedger, Ledger!LedgerSpec

-----------------------------------------------------------------------------
(* One notice for each event *)

\* docker-compose.yml starts one Worker process.
OneWorker == \A v, w \in Workers : v = w

\* The dedupe key is written before the job is pushed, and only a run that has
\* found no key writes it.
NoticeInv ==
  /\ \A e \in Events : notices[e] <= 1 /\ (notices[e] = 1 => dedupeKey[e])
  /\ \A w \in Workers :
       /\ pc[w] = "notify_set" => ~dedupeKey[msg[w].event]
       /\ pc[w] = "notify_push" => dedupeKey[msg[w].event] /\ notices[msg[w].event] = 0

\* A Worker that runs owns the lock of its trip.
OwnerInv == \A w \in Workers : pc[w] \in Holding => lock[TripAt(w)] = token[w]

\* Runs on one trip do not overlap.
Exclusive ==
  \A v, w \in Workers :
    pc[v] \in Holding /\ pc[w] \in Holding /\ TripAt(v) = TripAt(w) => v = w

\* One Worker cannot overlap with itself, and the lock has one owner.
LEMMA RunsExclude ==
  ASSUME FenceInv, OneWorker \/ OwnerInv
  PROVE  Exclusive
<1>1. CASE OneWorker
  BY <1>1 DEF OneWorker, Exclusive
<1>2. CASE OwnerInv
  BY <1>2 DEF OwnerInv, FenceInv, TokensDistinct, Exclusive
<1> QED  BY <1>1, <1>2

\* A step after which the holders and their locks are what they were, or fewer.
LockKept ==
  /\ UNCHANGED lock
  /\ \A v \in Workers :
       pc'[v] \in Holding => pc[v] \in Holding /\ msg'[v] = msg[v] /\ token'[v] = token[v]

\* Such a step keeps every lock with its owner.
LEMMA LockKeptOwner == OwnerInv /\ LockKept => OwnerInv'
BY DEF OwnerInv, LockKept, TripAt

\* release_lock frees the lock of the run that ends and of no other.
LEMMA ReleasedOwner ==
  ASSUME TypeOK, FenceInv, OwnerInv, NEW w \in Workers, pc[w] \in Holding,
         pc'[w] \notin Holding, lock' = ReleasedLock(w),
         \A v \in Workers \ {w} :
           pc'[v] = pc[v] /\ msg'[v] = msg[v] /\ token'[v] = token[v]
  PROVE  OwnerInv'
<1> SUFFICES ASSUME NEW v \in Workers, pc'[v] \in Holding
             PROVE  lock'[TripOf[msg'[v].event]] = token'[v]
  BY DEF OwnerInv, TripAt
<1>1. v # w /\ pc[v] \in Holding /\ msg'[v] = msg[v] /\ token'[v] = token[v]
  OBVIOUS
<1>2. TripAt(v) # TripAt(w)
  BY <1>1, RunsExclude DEF Exclusive
<1>3. lock'[TripAt(v)] = lock[TripAt(v)]
  BY <1>2, MessageTrip DEF ReleasedLock, TypeOK
<1> QED  BY <1>1, <1>3 DEF OwnerInv, TripAt

\* Without stalls a lease runs out only when nobody runs under it, so every run
\* owns its lock to the end.
LEMMA NextOwnerInv ==
  ASSUME MaxStalls = 0, TypeOK, FenceInv, OwnerInv, [Next]_vars
  PROVE  OwnerInv'
<1> USE DEF LockKept, Goto, Holding, Claimed, lockVars, workerVars
<1>0. pc \in [Workers -> WorkerPc] /\ stalls = 0
  BY DEF TypeOK
<1>1. ASSUME NEW e \in Events, IngestCommit(e) \/ IngestEnqueue(e) \/ IngestLost(e)
      PROVE  LockKept
  BY <1>1 DEF IngestCommit, IngestEnqueue, IngestLost
<1>2. ASSUME NEW m \in Message, BecomeDue(m) PROVE LockKept
  BY <1>2 DEF BecomeDue
<1>3. ASSUME NEW t \in Trips, LeaseExpires(t) PROVE OwnerInv'
  <2>1. lock' = [lock EXCEPT ![t] = 0] /\ UNCHANGED <<pc, msg, token>>
    BY <1>3 DEF LeaseExpires
  <2>2. \A w \in Workers : ~OwnsLock(w, t)
    BY <1>0, <1>3 DEF LeaseExpires
  <2> QED  BY <2>1, <2>2, MessageTrip DEF OwnerInv, OwnsLock, TripAt, TypeOK
<1>4. ASSUME NEW w \in Workers, Restart(w) PROVE LockKept
  BY <1>0, <1>4 DEF Restart
<1>5. ASSUME NEW w \in Workers, AcquireLock(w) PROVE OwnerInv'
  <2> DEFINE t == TripAt(w)
  <2>1. /\ t \in Trips /\ lockFence[t] \in Nat /\ lock[t] = 0
        /\ lock' = [lock EXCEPT ![t] = lockFence[t] + 1]
        /\ token' = [token EXCEPT ![w] = lockFence[t] + 1]
        /\ pc' = [pc EXCEPT ![w] = "load"] /\ msg' = msg
    BY <1>5, MessageTrip DEF AcquireLock, TypeOK
  <2> SUFFICES ASSUME NEW v \in Workers, pc'[v] \in Holding
               PROVE  lock'[TripAt(v)] = token'[v]
    BY <2>1 DEF OwnerInv, TripAt
  <2>2. CASE v = w
    BY <2>1, <2>2 DEF TypeOK
  <2>3. CASE v # w
    <3>1. pc[v] \in Holding /\ token'[v] = token[v]
      BY <1>0, <2>1, <2>3
    <3>2. lock[TripAt(v)] = token[v] /\ token[v] # 0 /\ TripAt(v) \in Trips
      BY <3>1, MessageTrip DEF OwnerInv, FenceInv, TokensIssued
    <3>3. TripAt(v) # t
      BY <2>1, <3>2
    <3> QED  BY <2>1, <3>1, <3>2, <3>3 DEF TypeOK
  <2> QED  BY <2>2, <2>3
<1>6. ASSUME NEW w \in Workers, ReleaseLock(w) PROVE OwnerInv'
  <2>1. /\ pc[w] = "release" /\ pc' = [pc EXCEPT ![w] = "ack"]
        /\ lock' = ReleasedLock(w) /\ UNCHANGED <<msg, token>>
    BY <1>6 DEF ReleaseLock
  <2> QED  BY <1>0, <2>1, ReleasedOwner
<1>7. ASSUME NEW w \in Workers, HandlerRaises(w) PROVE OwnerInv'
  <2>1. /\ pc[w] \in {"reserved", "failed", "release"} /\ pc' = [pc EXCEPT ![w] = "top"]
        /\ msg' = [msg EXCEPT ![w] = NoMessage] /\ token' = [token EXCEPT ![w] = 0]
        /\ UNCHANGED lock \/ (pc[w] = "failed" /\ lock' = ReleasedLock(w))
    BY <1>7 DEF HandlerRaises, Forget
  <2>2. pc'[w] = "top" /\ \A v \in Workers \ {w} :
          pc'[v] = pc[v] /\ msg'[v] = msg[v] /\ token'[v] = token[v]
    BY <1>0, <2>1 DEF TypeOK
  <2>3. CASE UNCHANGED lock
    BY <2>2, <2>3, LockKeptOwner
  <2>4. CASE pc[w] = "failed" /\ lock' = ReleasedLock(w)
    BY <2>2, <2>4, ReleasedOwner
  <2> QED  BY <2>1, <2>3, <2>4
<1>8. ASSUME NEW w \in Workers, WorkerStep(w), ~AcquireLock(w), ~ReleaseLock(w)
      PROVE  LockKept
  <2>1. CASE Recover(w)
    BY <1>0, <2>1 DEF Recover
  <2>6. CASE PromoteRetries(w) \/ Reserve(w) \/ PollTimeout(w)
    <3>1. UNCHANGED <<lock, token>> /\ pc' = [pc EXCEPT ![w] = pc'[w]]
          /\ pc'[w] \in {"top", "poll", "reserved"}
          /\ \A v \in Workers \ {w} : msg'[v] = msg[v]
      BY <1>0, <2>6 DEF PromoteRetries, Reserve, PollTimeout, TypeOK
    <3> QED  BY <1>0, <3>1
  <2>2. CASE Contended(w) \/ LoadEvent(w) \/ CheckLease(w) \/ HandleFailure(w)
    BY <1>0, <2>2 DEF Contended, LoadEvent, CheckLease, HandleFailure
  <2>3. CASE ClaimFence(w) \/ MarkProcessed(w) \/ AgentCommit(w)
    BY <1>0, <2>3 DEF ClaimFence, MarkProcessed, AgentCommit
  <2>4. CASE NotifyCheck(w) \/ NotifySet(w) \/ NotifyPush(w) \/ AgentDone(w) \/ PublishStream(w)
    BY <1>0, <2>4 DEF NotifyCheck, NotifySet, NotifyPush, AgentDone, PublishStream
  <2>5. CASE Acknowledge(w)
    BY <1>0, <2>5 DEF Acknowledge, Forget
  <2> QED  BY <1>8, <2>1, <2>2, <2>3, <2>4, <2>5, <2>6 DEF WorkerStep
<1>9. ASSUME NEW w \in Workers, RenewFails(w) \/ RenewErrors(w) \/ RunRaises(w) \/ Crash(w)
      PROVE  LockKept
  <2>1. CASE RenewFails(w) \/ RenewErrors(w) \/ RunRaises(w)
    BY <1>0, <2>1 DEF RenewFails, RenewErrors, RunRaises
  <2>2. CASE Crash(w)
    BY <1>0, <2>2 DEF Crash, Forget
  <2> QED  BY <1>9, <2>1, <2>2
<1>10. CASE UNCHANGED vars
  BY <1>10, LockKeptOwner DEF vars
<1>11. ASSUME NEW w \in Workers, Restart(w) \/ WorkerStep(w) \/ WorkerFault(w) PROVE OwnerInv'
  <2>1. CASE WorkerStep(w)
    BY <2>1, <1>5, <1>6, <1>8, LockKeptOwner
  <2>2. CASE WorkerFault(w)
    BY <2>2, <1>7, <1>9, LockKeptOwner DEF WorkerFault
  <2> QED  BY <1>11, <1>4, <2>1, <2>2, LockKeptOwner
<1> HIDE DEF LockKept
<1> QED  BY <1>1, <1>2, <1>3, <1>10, <1>11, LockKeptOwner DEF Next

\* A step that neither queues a notice nor lets a Worker into its queueing.
NoNotice ==
  /\ UNCHANGED <<dedupeKey, notices>>
  /\ \A v \in Workers :
       pc'[v] \in {"notify_set", "notify_push"} => pc'[v] = pc[v] /\ msg'[v] = msg[v]

\* Such a step keeps what is known of the notices.
LEMMA NoNoticeKeeps == NoticeInv /\ NoNotice => NoticeInv'
BY DEF NoticeInv, NoNotice

\* The steps of NotificationService.enqueue: no other run is at this event.
LEMMA NotifyNoticeInv ==
  ASSUME TypeOK, NoticeInv, Exclusive, NEW w \in Workers,
         NotifyCheck(w) \/ NotifySet(w) \/ NotifyPush(w)
  PROVE  NoticeInv'
<1> DEFINE e == msg[w].event
<1>0. /\ pc \in [Workers -> WorkerPc] /\ e \in Events /\ msg' = msg
      /\ dedupeKey \in [Events -> BOOLEAN] /\ notices \in [Events -> Nat]
  BY MessageTrip DEF TypeOK, NotifyCheck, NotifySet, NotifyPush
<1>1. pc[w] \in Holding
  BY DEF NotifyCheck, NotifySet, NotifyPush, Goto, Holding
<1>2. \A v \in Workers : pc[v] \in {"notify_set", "notify_push"} /\ msg[v].event = e => v = w
  BY <1>1 DEF Exclusive, Holding, TripAt
<1>3. \A v \in Workers : msg[v].event \in Events
  BY MessageTrip
<1>4. CASE NotifyCheck(w)
  BY <1>0, <1>4 DEF NotifyCheck, Goto, NoticeInv, noticeVars
<1>5. CASE NotifySet(w)
  <2>1. /\ pc[w] = "notify_set" /\ pc' = [pc EXCEPT ![w] = "notify_push"]
        /\ dedupeKey' = [dedupeKey EXCEPT ![e] = TRUE] /\ notices' = notices
    BY <1>5 DEF NotifySet, Goto
  <2>2. ~dedupeKey[e] /\ notices[e] <= 1 /\ notices[e] # 1 /\ notices[e] \in Nat
    BY <1>0, <2>1 DEF NoticeInv
  <2>3. notices[e] = 0
    BY <2>2
  <2>4. \A f \in Events : notices'[f] <= 1 /\ (notices'[f] = 1 => dedupeKey'[f])
    BY <1>0, <2>1 DEF NoticeInv
  <2>5. ASSUME NEW v \in Workers
        PROVE  /\ pc'[v] = "notify_set" => ~dedupeKey'[msg[v].event]
               /\ pc'[v] = "notify_push"
                    => dedupeKey'[msg[v].event] /\ notices'[msg[v].event] = 0
    <3>1. CASE v = w
      BY <1>0, <2>1, <2>3, <3>1
    <3>2. CASE v # w
      <4>1. pc'[v] = pc[v] /\ (pc[v] \in {"notify_set", "notify_push"} => msg[v].event # e)
        BY <1>0, <1>2, <2>1, <3>2
      <4> QED  BY <1>0, <1>3, <2>1, <4>1 DEF NoticeInv
    <3> QED  BY <3>1, <3>2
  <2> QED  BY <1>0, <2>4, <2>5 DEF NoticeInv
<1>6. CASE NotifyPush(w)
  <2>1. /\ pc[w] = "notify_push" /\ pc' = [pc EXCEPT ![w] = "agent"]
        /\ notices' = [notices EXCEPT ![e] = @ + 1] /\ dedupeKey' = dedupeKey
    BY <1>6 DEF NotifyPush, Goto
  <2>2. dedupeKey[e] /\ notices[e] = 0
    BY <2>1 DEF NoticeInv
  <2>3. \A f \in Events : notices'[f] <= 1 /\ (notices'[f] = 1 => dedupeKey'[f])
    BY <1>0, <2>1, <2>2 DEF NoticeInv
  <2>4. ASSUME NEW v \in Workers
        PROVE  /\ pc'[v] = "notify_set" => ~dedupeKey'[msg[v].event]
               /\ pc'[v] = "notify_push"
                    => dedupeKey'[msg[v].event] /\ notices'[msg[v].event] = 0
    <3>1. CASE v = w
      BY <1>0, <2>1, <3>1
    <3>2. CASE v # w
      <4>1. pc'[v] = pc[v] /\ (pc[v] \in {"notify_set", "notify_push"} => msg[v].event # e)
        BY <1>0, <1>2, <2>1, <3>2
      <4> QED  BY <1>0, <1>3, <2>1, <4>1 DEF NoticeInv
    <3> QED  BY <3>1, <3>2
  <2> QED  BY <1>0, <2>3, <2>4 DEF NoticeInv
<1> QED  BY <1>4, <1>5, <1>6

\* Every step keeps what is known of the notices, as long as runs on one trip do
\* not overlap.
LEMMA NextNoticeInv ==
  ASSUME TypeOK, NoticeInv, Exclusive, [Next]_vars
  PROVE  NoticeInv'
<1> USE DEF NoNotice, Goto, noticeVars, workerVars
<1>0. pc \in [Workers -> WorkerPc]
  BY DEF TypeOK
<1>1. ASSUME NEW e \in Events, IngestCommit(e) \/ IngestEnqueue(e) \/ IngestLost(e)
      PROVE  NoNotice
  BY <1>1 DEF IngestCommit, IngestEnqueue, IngestLost
<1>2. ASSUME NEW m \in Message, BecomeDue(m) PROVE NoNotice
  BY <1>2 DEF BecomeDue
<1>3. ASSUME NEW t \in Trips, LeaseExpires(t) PROVE NoNotice
  BY <1>3 DEF LeaseExpires
<1>4. ASSUME NEW w \in Workers, Restart(w) PROVE NoNotice
  BY <1>0, <1>4 DEF Restart
<1>5. ASSUME NEW w \in Workers, WorkerStep(w) PROVE NoticeInv'
  <2>1. CASE Recover(w)
    BY <1>0, <2>1, NoNoticeKeeps DEF Recover
  <2>2. CASE PromoteRetries(w) \/ Reserve(w) \/ PollTimeout(w) \/ AcquireLock(w)
    <3>1. UNCHANGED noticeVars /\ pc' = [pc EXCEPT ![w] = pc'[w]]
          /\ pc'[w] \in {"top", "poll", "reserved", "load"}
          /\ \A v \in Workers \ {w} : msg'[v] = msg[v]
      BY <1>0, <2>2 DEF PromoteRetries, Reserve, PollTimeout, AcquireLock, TypeOK
    <3> QED  BY <1>0, <3>1, NoNoticeKeeps
  <2>3. CASE Contended(w) \/ LoadEvent(w) \/ CheckLease(w) \/ HandleFailure(w)
    BY <1>0, <2>3, NoNoticeKeeps DEF Contended, LoadEvent, CheckLease, HandleFailure
  <2>4. CASE ClaimFence(w) \/ MarkProcessed(w) \/ AgentCommit(w)
    BY <1>0, <2>4, NoNoticeKeeps DEF ClaimFence, AfterClaim, MarkProcessed, AgentCommit
  <2>5. CASE AgentDone(w) \/ PublishStream(w) \/ ReleaseLock(w)
    BY <1>0, <2>5, NoNoticeKeeps DEF AgentDone, PublishStream, ReleaseLock
  <2>6. CASE Acknowledge(w)
    BY <1>0, <2>6, NoNoticeKeeps DEF Acknowledge, Forget, TypeOK
  <2>7. CASE NotifyCheck(w) \/ NotifySet(w) \/ NotifyPush(w)
    BY <2>7, NotifyNoticeInv
  <2> QED  BY <1>5, <2>1, <2>2, <2>3, <2>4, <2>5, <2>6, <2>7 DEF WorkerStep
<1>6. ASSUME NEW w \in Workers, WorkerFault(w) PROVE NoNotice
  <2>1. CASE RenewFails(w) \/ RenewErrors(w) \/ RunRaises(w)
    BY <1>0, <2>1 DEF RenewFails, RenewErrors, RunRaises
  <2>2. CASE HandlerRaises(w)
    BY <1>0, <2>2 DEF HandlerRaises, Forget, TypeOK
  <2>3. CASE Crash(w)
    BY <1>0, <2>3 DEF Crash, Forget, TypeOK
  <2> QED  BY <1>6, <2>1, <2>2, <2>3 DEF WorkerFault
<1>7. CASE UNCHANGED vars
  BY <1>7, NoNoticeKeeps DEF vars
<1> HIDE DEF NoNotice
<1> QED  BY <1>1, <1>2, <1>3, <1>4, <1>5, <1>6, <1>7, NoNoticeKeeps DEF Next

\* With one Worker process, as docker-compose.yml starts it, or with any number
\* of Workers none of which stalls, an event has at most one notice however
\* often it is delivered (NotificationService.enqueue reads the dedupe key,
\* writes it and pushes the job in three steps).
THEOREM OneNotice ==
  ASSUME OneWorker \/ MaxStalls = 0
  PROVE  Spec => []OneNoticePerEvent
<1> DEFINE Inv == TypeOK /\ FenceInv /\ (MaxStalls = 0 => OwnerInv) /\ NoticeInv
<1>1. Init => Inv
  BY InitTypeOK, InitFenceInv DEF Init, OwnerInv, NoticeInv, Holding
<1>2. Inv /\ [Next]_vars => Inv'
  <2> SUFFICES ASSUME Inv, [Next]_vars PROVE Inv'
    OBVIOUS
  <2>1. TypeOK' /\ FenceInv'
    BY NextTypeOK, NextFenceInv
  <2>2. MaxStalls = 0 => OwnerInv'
    BY NextOwnerInv
  <2>3. Exclusive
    BY RunsExclude
  <2> QED  BY <2>1, <2>2, <2>3, NextNoticeInv
<1>3. Inv => OneNoticePerEvent
  BY DEF NoticeInv, OneNoticePerEvent
<1> QED  BY <1>1, <1>2, <1>3, PTL DEF Spec

-----------------------------------------------------------------------------
(* Nothing is lost *)

\* A list that gets one more entry.
LEMMA AppendSet ==
  ASSUME NEW S, NEW s \in Seq(S), NEW x \in S
  PROVE  ToSet(Append(s, x)) = ToSet(s) \cup {x}
<1>1. /\ Append(s, x) \in Seq(S) /\ Len(Append(s, x)) = Len(s) + 1 /\ Len(s) \in Nat
      /\ \A i \in 1..Len(s) : Append(s, x)[i] = s[i]
      /\ Append(s, x)[Len(s) + 1] = x
  BY AppendProperties
<1>2. DOMAIN s = 1..Len(s) /\ DOMAIN Append(s, x) = 1..(Len(s) + 1)
  BY <1>1
<1> QED  BY <1>1, <1>2 DEF ToSet

\* A list that loses its head.
LEMMA HeadTailSet ==
  ASSUME NEW S, NEW s \in Seq(S), s # <<>>
  PROVE  Head(s) \in S /\ ToSet(s) = ToSet(Tail(s)) \cup {Head(s)}
<1>1. /\ Head(s) \in S /\ Tail(s) \in Seq(S) /\ Head(s) = s[1]
      /\ Len(Tail(s)) = Len(s) - 1 /\ Len(s) \in Nat /\ Len(s) > 0
      /\ \A i \in 1..(Len(s) - 1) : Tail(s)[i] = s[i + 1]
  BY HeadTailProperties
<1>2. DOMAIN s = 1..Len(s) /\ DOMAIN Tail(s) = 1..(Len(s) - 1)
  BY <1>1
<1>3. ASSUME NEW i \in 1..Len(s), i # 1 PROVE s[i] \in ToSet(Tail(s))
  <2>1. i - 1 \in 1..(Len(s) - 1) /\ Tail(s)[i - 1] = s[(i - 1) + 1] /\ (i - 1) + 1 = i
    BY <1>1, <1>3
  <2> QED  BY <1>2, <2>1 DEF ToSet
<1>4. ASSUME NEW i \in 1..(Len(s) - 1) PROVE Tail(s)[i] \in ToSet(s)
  <2>1. i + 1 \in 1..Len(s)
    BY <1>1
  <2> QED  BY <1>1, <1>2, <2>1 DEF ToSet
<1>5. s[1] \in ToSet(s)
  BY <1>1, <1>2 DEF ToSet
<1>6. ToSet(s) \subseteq ToSet(Tail(s)) \cup {Head(s)}
  BY <1>1, <1>2, <1>3 DEF ToSet
<1>7. ToSet(Tail(s)) \subseteq ToSet(s)
  BY <1>2, <1>4 DEF ToSet
<1> QED  BY <1>1, <1>5, <1>6, <1>7

\* A list that is joined to another.
LEMMA ConcatSet ==
  ASSUME NEW S, NEW s \in Seq(S), NEW t \in Seq(S)
  PROVE  ToSet(s \o t) = ToSet(s) \cup ToSet(t)
<1>1. /\ Len(s) \in Nat /\ Len(t) \in Nat /\ Len(s \o t) = Len(s) + Len(t)
      /\ \A i \in 1..(Len(s) + Len(t)) :
           (s \o t)[i] = IF i <= Len(s) THEN s[i] ELSE t[i - Len(s)]
      /\ s \o t \in Seq(S)
  BY ConcatProperties
<1>2. DOMAIN s = 1..Len(s) /\ DOMAIN t = 1..Len(t) /\ DOMAIN (s \o t) = 1..(Len(s) + Len(t))
  BY <1>1
<1>3. ASSUME NEW i \in 1..(Len(s) + Len(t)) PROVE (s \o t)[i] \in ToSet(s) \cup ToSet(t)
  <2>1. CASE i <= Len(s)
    BY <1>1, <1>2, <2>1 DEF ToSet
  <2>2. CASE ~(i <= Len(s))
    <3>1. i - Len(s) \in 1..Len(t) /\ (s \o t)[i] = t[i - Len(s)]
      BY <1>1, <2>2
    <3> QED  BY <1>2, <3>1 DEF ToSet
  <2> QED  BY <2>1, <2>2
<1>4. ASSUME NEW i \in 1..Len(s) PROVE s[i] \in ToSet(s \o t)
  <2>1. i \in 1..(Len(s) + Len(t)) /\ (s \o t)[i] = s[i]
    BY <1>1
  <2> QED  BY <1>2, <2>1 DEF ToSet
<1>5. ASSUME NEW i \in 1..Len(t) PROVE t[i] \in ToSet(s \o t)
  <2>1. /\ i + Len(s) \in 1..(Len(s) + Len(t)) /\ ~(i + Len(s) <= Len(s))
        /\ (i + Len(s)) - Len(s) = i
    BY <1>1
  <2>2. (s \o t)[i + Len(s)] = t[i]
    BY <1>1, <2>1
  <2> QED  BY <1>2, <2>1, <2>2 DEF ToSet
<1>6. ToSet(s \o t) \subseteq ToSet(s) \cup ToSet(t)
  BY <1>2, <1>3 DEF ToSet
<1>7. ToSet(s) \subseteq ToSet(s \o t) /\ ToSet(t) \subseteq ToSet(s \o t)
  BY <1>2, <1>4, <1>5 DEF ToSet
<1> QED  BY <1>6, <1>7

\* An ordering of a finite set holds all of its members.
LEMMA OrderingSet ==
  ASSUME NEW S, IsFiniteSet(S), NEW s \in SetToSeqs(S)
  PROVE  ToSet(s) = S
<1> DEFINE D == 1..Cardinality(S)
<1>1. Cardinality(S) \in Nat /\ IsFiniteSet(D) /\ Cardinality(D) = Cardinality(S)
  BY FS_CardinalityType, FS_Interval
<1>2. s \in [D -> S] /\ \A i, j \in D : i # j => s[i] # s[j]
  BY DEF SetToSeqs
<1>3. s \in Injection(D, S)
  BY <1>2 DEF Injection, IsInjective
<1>4. s \in Surjection(D, S)
  BY <1>1, <1>3, FS_Injection
<1> QED  BY <1>2, <1>4 DEF Surjection, ToSet

\* LREM takes away no entry but its own.
LEMMA RemoveAtSet ==
  ASSUME NEW S, NEW s \in Seq(S), NEW i \in DOMAIN s
  PROVE  ToSet(s) \subseteq ToSet(RemoveAt(s, i)) \cup {s[i]}
<1>1. Len(s) \in Nat /\ DOMAIN s = 1..Len(s) /\ i \in 1..Len(s)
  OBVIOUS
<1> DEFINE a == SubSeq(s, 1, i - 1)
           b == SubSeq(s, i + 1, Len(s))
<1>2. /\ a \in Seq(S) /\ Len(a) = i - 1 /\ \A k \in 1..(i - 1) : a[k] = s[k]
  BY <1>1, SubSeqProperties
<1>3. /\ b \in Seq(S) /\ Len(b) = Len(s) - i
      /\ \A k \in 1..(Len(s) - i) : b[k] = s[i + k]
  BY <1>1, SubSeqProperties
<1>4. ToSet(RemoveAt(s, i)) = ToSet(a) \cup ToSet(b)
  BY <1>2, <1>3, ConcatSet DEF RemoveAt
<1>5. DOMAIN a = 1..(i - 1) /\ DOMAIN b = 1..(Len(s) - i)
  BY <1>1, <1>2, <1>3
<1> HIDE DEF a, b
<1>6. ASSUME NEW k \in 1..Len(s), k # i PROVE s[k] \in ToSet(a) \cup ToSet(b)
  <2>1. CASE k < i
    <3>1. k \in 1..(i - 1) /\ a[k] = s[k]
      BY <1>1, <1>2, <2>1
    <3> QED  BY <1>5, <3>1 DEF ToSet
  <2>2. CASE k > i
    <3>1. k - i \in 1..(Len(s) - i) /\ i + (k - i) = k
      BY <1>1, <2>2
    <3>2. b[k - i] = s[k]
      BY <1>3, <3>1
    <3> QED  BY <1>5, <3>1, <3>2 DEF ToSet
  <2> QED  BY <1>1, <1>6, <2>1, <2>2
<1> QED  BY <1>1, <1>4, <1>6 DEF ToSet

\* What waits for a Worker other than in the lists it takes from itself.
Elsewhere(e) == \E m \in retry \cup dlq : m.event = e

\* What a Worker has in hand is in the processing list.
Reserved == \A w \in Workers : pc[w] \in Handling => msg[w] \in ToSet(processing)

\* The claim of a run that has not claimed yet will succeed, and what is about
\* to be acknowledged is completed or queued again.
Disposed ==
  \A w \in Workers :
    /\ pc[w] \in {"load", "check", "claim"} => fence[msg[w].event] < token[w]
    /\ pc[w] \in {"release", "ack"} =>
         status[msg[w].event] = "worker_processed" \/ Elsewhere(msg[w].event)

\* A queued event needs no live Worker to be found again.
Recoverable ==
  \A e \in Events : api[e] = "queued" => status[e] = "worker_processed" \/ QueuedFor(e)

LossInv == Reserved /\ Disposed /\ Recoverable

\* A step that takes nothing from a list and brings no run closer to its end.
NothingTaken ==
  /\ UNCHANGED <<fence, status, main, processing, retry, dlq>>
  /\ \A e \in Events : api'[e] = "queued" => api[e] = "queued"
  /\ \A v \in Workers : pc'[v] \in Handling =>
       /\ pc[v] \in Handling /\ msg'[v] = msg[v] /\ token'[v] = token[v]
       /\ pc'[v] \in {"load", "check", "claim"} => pc[v] \in {"load", "check", "claim"}
       /\ pc'[v] \in {"release", "ack"} => pc[v] \in {"release", "ack"}

\* Such a step loses nothing.
LEMMA NothingTakenKeeps == LossInv /\ NothingTaken => LossInv'
<1> SUFFICES ASSUME LossInv, NothingTaken PROVE LossInv'
  OBVIOUS
<1>1. Reserved'
  BY DEF LossInv, Reserved, NothingTaken
<1>2. Disposed'
  BY DEF LossInv, Disposed, NothingTaken, Handling, Holding, Elsewhere
<1>3. Recoverable'
  BY DEF LossInv, Recoverable, NothingTaken, QueuedFor
<1> QED  BY <1>1, <1>2, <1>3 DEF LossInv

\* enqueue_retry leaves the event in the retry set or the dead-letter list, and
\* takes nothing out of them.
LEMMA EnqueueRetryKeeps ==
  ASSUME NEW m \in Message, NEW limit \in Nat, EnqueueRetry(m, limit)
  PROVE  /\ \E n \in retry' \cup dlq' : n.event = m.event
         /\ retry \subseteq retry' /\ dlq \subseteq dlq'
<1> DEFINE again == [m EXCEPT !.attempt = @ + 1]
<1>1. again.event = m.event
  BY DEF Message
<1>2. again \in retry' \cup dlq' /\ retry \subseteq retry' /\ dlq \subseteq dlq'
  BY DEF EnqueueRetry
<1> QED  BY <1>1, <1>2

\* Steps of the API: the row is there before the job.
LEMMA IngestLossInv ==
  ASSUME TypeOK, FenceInv, LossInv, NEW e \in Events, IngestCommit(e) \/ IngestEnqueue(e)
  PROVE  LossInv'
<1>0. \A w \in Workers : msg[w] \in Message /\ msg[w].event \in Events
  BY MessageTrip
<1>1. CASE IngestCommit(e)
  <2>1. /\ api[e] = "new" /\ api' = [api EXCEPT ![e] = "committed"]
        /\ status' = [status EXCEPT ![e] = "processed"] /\ status[e] = "absent"
        /\ UNCHANGED <<fence, main, processing, retry, dlq, pc, msg, token>>
    BY <1>1 DEF IngestCommit, FenceInv, NewEventsAbsent, queueVars, workerVars
  <2>2. Reserved'
    BY <2>1 DEF LossInv, Reserved
  <2>3. \A f \in Events : status[f] = "worker_processed" => status'[f] = "worker_processed"
    BY <2>1 DEF TypeOK
  <2>4. Disposed'
    BY <1>0, <2>1, <2>3 DEF LossInv, Disposed, Elsewhere
  <2>5. Recoverable'
    BY <2>1, <2>3 DEF LossInv, Recoverable, QueuedFor, TypeOK
  <2> QED  BY <2>2, <2>4, <2>5 DEF LossInv
<1>2. CASE IngestEnqueue(e)
  <2> DEFINE m == [event |-> e, attempt |-> 0]
  <2>1. /\ api' = [api EXCEPT ![e] = "queued"] /\ main' = Append(main, m)
        /\ UNCHANGED <<status, fence, processing, retry, dlq, pc, msg, token>>
    BY <1>2 DEF IngestEnqueue, dbVars, workerVars
  <2>2. m \in Message /\ m.event = e
    BY NoMessageType DEF Message, NoMessage
  <2>3. ToSet(main') = ToSet(main) \cup {m}
    BY <2>1, <2>2, AppendSet DEF TypeOK
  <2>4. Reserved' /\ Disposed'
    BY <2>1 DEF LossInv, Reserved, Disposed, Elsewhere
  <2>5. \A f \in Events : QueuedFor(f) => QueuedFor(f)'
    BY <2>1, <2>3 DEF QueuedFor
  <2>6. QueuedFor(e)'
    BY <2>2, <2>3 DEF QueuedFor
  <2>7. \A f \in Events \ {e} : api'[f] = api[f]
    BY <2>1 DEF TypeOK
  <2> HIDE DEF m
  <2>8. Recoverable'
    BY <2>1, <2>5, <2>6, <2>7 DEF LossInv, Recoverable
  <2> QED  BY <2>4, <2>8 DEF LossInv
<1> QED  BY <1>1, <1>2

\* The steps of run_worker that move entries from one list to the next.
LEMMA MoveLossInv ==
  ASSUME OneWorker, TypeOK, LossInv, NEW w \in Workers,
         Recover(w) \/ PromoteRetries(w) \/ Reserve(w)
  PROVE  LossInv'
<1>0. /\ main \in Seq(Message) /\ processing \in Seq(Message)
      /\ pc \in [Workers -> WorkerPc] /\ \A v \in Workers : v = w
  BY DEF TypeOK, OneWorker
<1>1. CASE Recover(w)
  <2>1. CASE processing # <<>> /\ quota[w] > 0
    <3>1. /\ pc[w] = "boot" /\ main' = Append(main, Head(processing))
          /\ processing' = Tail(processing)
          /\ UNCHANGED <<status, api, retry, dlq, pc, fence, token, msg>>
      BY <1>1, <2>1 DEF Recover, dbVars
    <3>2. Head(processing) \in Message
          /\ ToSet(processing) = ToSet(processing') \cup {Head(processing)}
      BY <1>0, <2>1, <3>1, HeadTailSet
    <3>3. ToSet(main') = ToSet(main) \cup {Head(processing)}
      BY <1>0, <3>1, <3>2, AppendSet
    <3>4. Reserved' /\ Disposed'
      BY <1>0, <3>1 DEF Reserved, Disposed, Handling, Holding
    <3>5. ToSet(main) \cup ToSet(processing) = ToSet(main') \cup ToSet(processing')
      BY <3>2, <3>3
    <3>6. Recoverable'
      BY <3>1, <3>5 DEF LossInv, Recoverable, QueuedFor
    <3> QED  BY <3>4, <3>6 DEF LossInv
  <2>2. CASE ~(processing # <<>> /\ quota[w] > 0)
    <3>1. NothingTaken
      BY <1>0, <1>1, <2>2
      DEF Recover, NothingTaken, Goto, dbVars, queueVars, Handling, Holding
    <3> QED  BY <3>1, NothingTakenKeeps
  <2> QED  BY <2>1, <2>2
<1>2. CASE PromoteRetries(w)
  <2>1. PICK s \in SetToSeqs(due) : main' = main \o s
    BY <1>2 DEF PromoteRetries
  <2>2. /\ pc' = [pc EXCEPT ![w] = "poll"] /\ retry' = retry \ due
        /\ UNCHANGED <<status, api, dlq, processing>>
    BY <1>2 DEF PromoteRetries, Goto, dbVars
  <2>3. due \subseteq Message /\ IsFiniteSet(due) /\ due \subseteq retry
    BY FS_Subset DEF TypeOK
  <2>4. s \in Seq(Message) /\ ToSet(s) = due
    <3>1. s \in Seq(due)
      BY <2>3, SetToSeqsType
    <3> QED  BY <2>3, <3>1, OrderingSet
  <2>5. ToSet(main') = ToSet(main) \cup due
    BY <1>0, <2>1, <2>4, ConcatSet
  <2>6. Reserved' /\ Disposed'
    <3>1. \A v \in Workers : pc'[v] = "poll"
      BY <1>0, <2>2
    <3> QED  BY <3>1 DEF Reserved, Disposed, Handling, Holding
  <2>7. ToSet(main) \cup retry = ToSet(main') \cup retry'
    BY <2>2, <2>3, <2>5
  <2>8. Recoverable'
    BY <2>2, <2>7 DEF LossInv, Recoverable, QueuedFor
  <2> QED  BY <2>6, <2>8 DEF LossInv
<1>3. CASE Reserve(w)
  <2>1. /\ main # <<>> /\ pc' = [pc EXCEPT ![w] = "reserved"]
        /\ msg' = [msg EXCEPT ![w] = Head(main)] /\ main' = Tail(main)
        /\ processing' = Append(processing, Head(main))
        /\ UNCHANGED <<status, api, retry, dlq>>
    BY <1>3 DEF Reserve, Goto, dbVars
  <2>2. Head(main) \in Message /\ ToSet(main) = ToSet(main') \cup {Head(main)}
    BY <1>0, <2>1, HeadTailSet
  <2>3. ToSet(processing') = ToSet(processing) \cup {Head(main)}
    BY <1>0, <2>1, <2>2, AppendSet
  <2>4. \A v \in Workers : pc'[v] = "reserved" /\ msg'[v] = Head(main)
    BY <1>0, <2>1 DEF TypeOK
  <2>5. Reserved' /\ Disposed'
    BY <2>3, <2>4 DEF Reserved, Disposed, Handling, Holding
  <2>6. ToSet(main) \cup ToSet(processing) = ToSet(main') \cup ToSet(processing')
    BY <2>2, <2>3
  <2>7. Recoverable'
    BY <2>1, <2>6 DEF LossInv, Recoverable, QueuedFor
  <2> QED  BY <2>5, <2>7 DEF LossInv
<1> QED  BY <1>1, <1>2, <1>3

\* The lock gives a run a token the row has not seen; the claim under it fails
\* only on a completed event.
LEMMA ClaimLossInv ==
  ASSUME OneWorker, TypeOK, FenceInv, LossInv, NEW w \in Workers,
         AcquireLock(w) \/ LoadEvent(w) \/ ClaimFence(w) \/ MarkProcessed(w)
  PROVE  LossInv'
<1> DEFINE e == msg[w].event
<1>0. /\ e \in Events /\ TripAt(w) \in Trips /\ TripAt(w) = TripOf[e]
      /\ pc \in [Workers -> WorkerPc] /\ \A v \in Workers : v = w
      /\ UNCHANGED <<msg, api, main, processing, retry, dlq>>
  BY MessageTrip
  DEF TypeOK, OneWorker, TripAt, AcquireLock, LoadEvent, ClaimFence, MarkProcessed, queueVars
<1>1. /\ pc[w] \in Handling /\ pc'[w] \in Handling
      /\ pc' = [pc EXCEPT ![w] = pc'[w]]
  BY <1>0 DEF AcquireLock, LoadEvent, ClaimFence, MarkProcessed, Goto, Handling, Holding,
              AfterClaim
<1>2. Reserved'
  BY <1>0, <1>1 DEF LossInv, Reserved
<1>3. \A f : QueuedFor(f)' <=> QueuedFor(f)
  BY <1>0 DEF QueuedFor
<1>4. Elsewhere(e) => Elsewhere(e)'
  BY <1>0 DEF Elsewhere
<1>5. CASE AcquireLock(w)
  <2>1. /\ pc'[w] = "load" /\ UNCHANGED <<status, fence>>
        /\ token' = [token EXCEPT ![w] = lockFence[TripAt(w)] + 1]
    BY <1>0, <1>5 DEF AcquireLock, Goto, dbVars
  <2>2. fence[e] <= lockFence[TripAt(w)] /\ fence[e] \in Nat /\ lockFence[TripAt(w)] \in Nat
    BY <1>0 DEF FenceInv, TokensIssued, TypeOK
  <2>3. token'[w] = lockFence[TripAt(w)] + 1 /\ fence'[e] < token'[w]
    BY <2>1, <2>2 DEF TypeOK
  <2>4. Disposed'
    BY <1>0, <2>1, <2>3 DEF Disposed
  <2>5. Recoverable'
    BY <1>0, <1>3, <2>1 DEF LossInv, Recoverable
  <2> QED  BY <1>2, <2>4, <2>5 DEF LossInv
<1>6. CASE LoadEvent(w)
  <2>1. /\ pc[w] = "load" /\ UNCHANGED <<status, fence, token>>
        /\ pc'[w] = IF status[e] = "worker_processed" THEN "release" ELSE "check"
    BY <1>0, <1>6 DEF LoadEvent, Goto, dbVars
  <2>2. fence[e] < token[w]
    BY <2>1 DEF LossInv, Disposed
  <2>3. Disposed'
    BY <1>0, <2>1, <2>2 DEF Disposed
  <2>4. Recoverable'
    BY <1>0, <1>3, <2>1 DEF LossInv, Recoverable
  <2> QED  BY <1>2, <2>3, <2>4 DEF LossInv
<1>7. CASE ClaimFence(w)
  <2>1. pc[w] = "claim" /\ fence[e] < token[w] /\ UNCHANGED token
    BY <1>7 DEF ClaimFence, Goto, LossInv, Disposed
  <2>2. CASE status[e] # "worker_processed"
    <3>1. /\ pc'[w] \in {"notify", "agent"}
          /\ status' = [status EXCEPT ![e] = "worker_processing"]
      BY <1>0, <1>7, <2>1, <2>2 DEF ClaimFence, Goto, AfterClaim
    <3>2. Disposed'
      BY <1>0, <3>1 DEF Disposed
    <3>3. \A f \in Events : status[f] = "worker_processed" => status'[f] = "worker_processed"
      BY <2>2, <3>1 DEF TypeOK
    <3>4. Recoverable'
      BY <1>0, <1>3, <3>3 DEF LossInv, Recoverable
    <3> QED  BY <1>2, <3>2, <3>4 DEF LossInv
  <2>3. CASE status[e] = "worker_processed"
    <3>1. pc'[w] = "release" /\ UNCHANGED <<status, fence>>
      BY <1>0, <1>7, <2>3 DEF ClaimFence, Goto
    <3>2. Disposed'
      BY <1>0, <2>3, <3>1 DEF Disposed
    <3>3. Recoverable'
      BY <1>0, <1>3, <3>1 DEF LossInv, Recoverable
    <3> QED  BY <1>2, <3>2, <3>3 DEF LossInv
  <2> QED  BY <2>2, <2>3
<1>8. CASE MarkProcessed(w)
  <2>1. CASE CommitAllowed(w)
    <3>1. /\ pc'[w] = "release" /\ status' = [status EXCEPT ![e] = "worker_processed"]
      BY <1>0, <1>8, <2>1 DEF MarkProcessed, Goto
    <3>2. status'[e] = "worker_processed"
          /\ \A f \in Events : status[f] = "worker_processed" => status'[f] = "worker_processed"
      BY <1>0, <3>1 DEF TypeOK
    <3>3. Disposed'
      BY <1>0, <3>1, <3>2 DEF Disposed
    <3>4. Recoverable'
      BY <1>0, <1>3, <3>2 DEF LossInv, Recoverable
    <3> QED  BY <1>2, <3>3, <3>4 DEF LossInv
  <2>2. CASE ~CommitAllowed(w)
    <3>1. pc'[w] = "failed" /\ UNCHANGED <<status, fence, token>>
      BY <1>0, <1>8, <2>2 DEF MarkProcessed, Goto
    <3>2. Disposed'
      BY <1>0, <3>1 DEF Disposed
    <3>3. Recoverable'
      BY <1>0, <1>3, <3>1 DEF LossInv, Recoverable
    <3> QED  BY <1>2, <3>2, <3>3 DEF LossInv
  <2> QED  BY <2>1, <2>2
<1> QED  BY <1>5, <1>6, <1>7, <1>8

\* A contended or failed run leaves its event in the retry set or the dead-letter
\* list before it acknowledges anything.
LEMMA RetryLossInv ==
  ASSUME OneWorker, TypeOK, LossInv, NEW w \in Workers, Contended(w) \/ HandleFailure(w)
  PROVE  LossInv'
<1> DEFINE e == msg[w].event
<1>0. /\ pc \in [Workers -> WorkerPc] /\ \A v \in Workers : v = w
      /\ UNCHANGED <<status, fence, token, msg, api, main, processing>>
      /\ pc[w] \in Handling /\ pc'[w] \in {"ack", "release"}
  BY DEF TypeOK, OneWorker, Contended, HandleFailure, Goto, Handling, Holding, dbVars
<1>1. PICK limit \in {MaxContention, MaxFailures} : EnqueueRetry(msg[w], limit)
  BY DEF Contended, HandleFailure
<1>2. limit \in Nat /\ msg[w] \in Message
  BY BoundsAssumption, MessageTrip
<1>3. Elsewhere(e)' /\ retry \subseteq retry' /\ dlq \subseteq dlq'
  BY <1>0, <1>1, <1>2, EnqueueRetryKeeps DEF Elsewhere
<1>4. Reserved'
  BY <1>0 DEF LossInv, Reserved
<1>5. Disposed'
  BY <1>0, <1>3 DEF Disposed
<1>6. \A f \in Events : QueuedFor(f) => QueuedFor(f)'
  BY <1>0, <1>3 DEF QueuedFor
<1>7. Recoverable'
  BY <1>0, <1>6 DEF LossInv, Recoverable
<1> QED  BY <1>4, <1>5, <1>7 DEF LossInv

\* The acknowledgement takes away an entry for the event of the run, which is
\* completed or queued again.
LEMMA AcknowledgeLossInv ==
  ASSUME OneWorker, TypeOK, LossInv, NEW w \in Workers, Acknowledge(w)
  PROVE  LossInv'
<1>0. /\ pc \in [Workers -> WorkerPc] /\ processing \in Seq(Message) /\ pc[w] = "ack"
      /\ \A v \in Workers : v = w
      /\ pc' = [pc EXCEPT ![w] = "top"] /\ UNCHANGED <<status, api, main, retry, dlq>>
  BY DEF TypeOK, OneWorker, Acknowledge, Goto, dbVars
<1>1. Reserved' /\ Disposed'
  <2>1. \A v \in Workers : pc'[v] = "top"
    BY <1>0
  <2> QED  BY <2>1 DEF Reserved, Disposed, Handling, Holding
<1>2. ToSet(processing) \subseteq ToSet(processing') \cup {msg[w]}
  <2>1. CASE UNCHANGED processing
    BY <2>1
  <2>2. ASSUME NEW i \in DOMAIN processing, processing[i] = msg[w],
               processing' = RemoveAt(processing, i)
        PROVE  ToSet(processing) \subseteq ToSet(processing') \cup {msg[w]}
    BY <1>0, <2>2, RemoveAtSet
  <2> QED  BY <2>1, <2>2 DEF Acknowledge, RemoveFromProcessing
<1>3. status[msg[w].event] = "worker_processed" \/ Elsewhere(msg[w].event)
  BY <1>0 DEF LossInv, Disposed
<1>4. Recoverable'
  <2> SUFFICES ASSUME NEW f \in Events, api[f] = "queued", status[f] # "worker_processed"
               PROVE  QueuedFor(f)'
    BY <1>0 DEF Recoverable
  <2>1. QueuedFor(f)
    BY DEF LossInv, Recoverable
  <2>2. CASE f = msg[w].event
    BY <1>0, <1>3, <2>2 DEF Elsewhere, QueuedFor
  <2>3. CASE f # msg[w].event
    BY <1>0, <1>2, <2>1, <2>3 DEF QueuedFor
  <2> QED  BY <2>2, <2>3
<1> QED  BY <1>1, <1>4 DEF LossInv

\* Every step of one Worker process and of the API keeps every event recoverable.
LEMMA NextLossInv ==
  ASSUME OneWorker, TypeOK, FenceInv, LossInv, [Next]_vars
  PROVE  LossInv'
<1> USE DEF NothingTaken, Goto, dbVars, queueVars, workerVars
<1>0. pc \in [Workers -> WorkerPc]
  BY DEF TypeOK
<1>1. ASSUME NEW e \in Events, IngestLost(e) PROVE NothingTaken
  BY <1>1 DEF IngestLost, TypeOK
<1>2. ASSUME NEW m \in Message, BecomeDue(m) PROVE NothingTaken
  BY <1>2 DEF BecomeDue
<1>3. ASSUME NEW t \in Trips, LeaseExpires(t) PROVE NothingTaken
  BY <1>3 DEF LeaseExpires
<1>4. ASSUME NEW w \in Workers, Restart(w) \/ PollTimeout(w) PROVE NothingTaken
  BY <1>0, <1>4 DEF Restart, PollTimeout, Handling, Holding
<1>5. ASSUME NEW w \in Workers,
             \/ CheckLease(w) \/ NotifyCheck(w) \/ NotifySet(w) \/ NotifyPush(w)
             \/ AgentCommit(w) \/ AgentDone(w) \/ PublishStream(w) \/ ReleaseLock(w)
      PROVE  NothingTaken
  <2>1. /\ UNCHANGED <<fence, status, main, processing, retry, dlq, api, msg, token>>
        /\ pc[w] \in Handling /\ pc' = [pc EXCEPT ![w] = pc'[w]]
        /\ pc'[w] \in {"load", "check", "claim"} => pc[w] \in {"load", "check", "claim"}
        /\ pc'[w] \in {"release", "ack"} => pc[w] \in {"release", "ack"}
    BY <1>0, <1>5 DEF CheckLease, NotifyCheck, NotifySet, NotifyPush, AgentCommit, AgentDone,
      PublishStream, ReleaseLock, Handling, Holding
  <2> QED  BY <1>0, <2>1
<1>6. ASSUME NEW w \in Workers, WorkerFault(w) PROVE NothingTaken
  <2>1. CASE RenewFails(w) \/ RenewErrors(w)
    BY <1>0, <2>1 DEF RenewFails, RenewErrors
  <2>2. CASE RunRaises(w)
    BY <1>0, <2>2 DEF RunRaises, Claimed, Handling, Holding
  <2>3. CASE HandlerRaises(w)
    BY <1>0, <2>3 DEF HandlerRaises, Forget, TypeOK, Handling, Holding
  <2>4. CASE Crash(w)
    BY <1>0, <2>4 DEF Crash, Forget, TypeOK, Handling, Holding
  <2> QED  BY <1>6, <2>1, <2>2, <2>3, <2>4 DEF WorkerFault
<1>7. CASE UNCHANGED vars
  BY <1>7, NothingTakenKeeps DEF vars
<1> HIDE DEF NothingTaken
<1>8. ASSUME NEW e \in Events, IngestCommit(e) \/ IngestEnqueue(e) \/ IngestLost(e)
      PROVE  LossInv'
  BY <1>8, <1>1, IngestLossInv, NothingTakenKeeps
<1>9. ASSUME NEW w \in Workers, WorkerStep(w) PROVE LossInv'
  BY <1>9, <1>4, <1>5, NothingTakenKeeps, MoveLossInv, ClaimLossInv, RetryLossInv,
     AcknowledgeLossInv
  DEF WorkerStep
<1> QED  BY <1>2, <1>3, <1>4, <1>6, <1>7, <1>8, <1>9, NothingTakenKeeps DEF Next

\* With one Worker process, as docker-compose.yml starts it, an event that was
\* queued is completed, dead-lettered or still in a Redis list, whatever crashes,
\* stalls and refusals of Redis it meets: run_worker acknowledges only what is
\* completed or queued again, and everything it has in hand is in the processing
\* list (reserve, recover_processing).
THEOREM NothingLost ==
  ASSUME OneWorker
  PROVE  Spec => []NoEventLost
<1> DEFINE Inv == TypeOK /\ FenceInv /\ LossInv
<1>1. Init => Inv
  <2>1. Init => LossInv
    BY DEF Init, LossInv, Reserved, Disposed, Recoverable, Handling, Holding
  <2> QED  BY <2>1, InitTypeOK, InitFenceInv
<1>2. Inv /\ [Next]_vars => Inv'
  BY NextTypeOK, NextFenceInv, NextLossInv
<1>3. Inv => NoEventLost
  BY DEF LossInv, Recoverable, NoEventLost
<1> QED  BY <1>1, <1>2, <1>3, PTL DEF Spec

=============================================================================
