--------------------------- MODULE TripEventWorker ---------------------------
(***************************************************************************)
(* The trip-event pipeline: the API handler that stores an event and queues *)
(* it (api/companion.py), the Redis lists, retry set and fenced trip lock   *)
(* (infrastructure/runtime_store.py) and the Worker processes that consume  *)
(* it (worker.py).  One action is one step between two awaits that reads or *)
(* writes state another process can see.  Two shorthands of the comments:   *)
(* "the claim" is _claim_worker_fence, "the guard" is the before_commit     *)
(* listener of _install_worker_fence_guard.                                 *)
(*                                                                         *)
(* Abstracted: payloads other than the event id and the attempt counter,   *)
(* the clock (a delay is an unspecified wait, a TTL may run out at any     *)
(* step), the content of what an agent run commits (the fencing token it   *)
(* commits under is kept in `commits'), and the SSE snapshot.              *)
(***************************************************************************)
EXTENDS Naturals, FiniteSets, SequencesExt

CONSTANTS
  Workers,          \* Worker processes
  Events,           \* trip_events rows the clients report
  Trips,            \* trip sessions
  TripOf,           \* [Events -> Trips]
  NotifyEvents,     \* events whose decision says should_notify
  AgentEvents,      \* events of high or critical impact on a trip with an agent
  MaxFailures,      \* max_attempts after an exception         (5 in the code)
  MaxContention,    \* max_attempts after a contended lock     (8 in the code)
  RecoverLimit,     \* worker_recover_processing_limit         (100)
  MaxCrashes,       \* bound: crashes of Worker processes
  MaxStalls,        \* bound: leases lost by a live Worker
  MaxRedisErrors    \* bound: Redis writes that raise inside a handler

ASSUME BoundsAssumption ==
  /\ MaxFailures \in Nat \ {0} /\ MaxContention \in Nat \ {0}
  /\ RecoverLimit \in Nat /\ MaxCrashes \in Nat
  /\ MaxStalls \in Nat /\ MaxRedisErrors \in Nat
ASSUME TripOfAssumption == TripOf \in [Events -> Trips]
ASSUME EventKindsAssumption == NotifyEvents \subseteq Events /\ AgentEvents \subseteq Events
ASSUME EventsAssumption == Events # {}

VARIABLES
  \* ---- database
  status,           \* TripEvent.status; "absent" before the row exists
  fence,            \* TripEvent.worker_fencing_token
  commits,          \* history: tokens under which agent work was committed
  tripCommit,       \* history: token of the last agent commit of each trip
  \* ---- API
  api,              \* progress of the request that reports each event
  \* ---- Redis
  main,             \* mapgo:trip-events, oldest first
  processing,       \* mapgo:trip-events:processing, oldest first
  retry,            \* mapgo:trip-events:retry, a sorted set
  due,              \* members of retry whose score has passed
  dlq,              \* mapgo:trip-events:dlq
  lock,             \* token held in lock:agent-run:trip:<t>, 0 when no key
  lockFence,        \* lock-fence:agent-run:trip:<t>
  dedupeKey,        \* notify:dedupe:<fingerprint of the event's notice>
  notices,          \* mapgo:notifications: jobs queued for each event
  \* ---- Worker processes
  pc,               \* where each Worker is
  msg,              \* the reserved message
  token,            \* fencing token of the lock it acquired
  leaseLost,        \* the lease_lost event of the current run
  quota,            \* entries recover_processing may still move
  \* ---- bounds
  crashes, stalls, redisErrors

dbVars     == <<status, fence, commits, tripCommit>>
queueVars  == <<main, processing, retry, due, dlq>>
lockVars   == <<lock, lockFence>>
noticeVars == <<dedupeKey, notices>>
workerVars == <<pc, msg, token, leaseLost, quota>>
boundVars  == <<crashes, stalls, redisErrors>>
vars == <<dbVars, api, queueVars, lockVars, noticeVars, workerVars, boundVars>>

AttemptLimit == IF MaxFailures > MaxContention THEN MaxFailures ELSE MaxContention
Message == [event : Events, attempt : 0..(AttemptLimit - 1)]
DeadLetter == [event : Events, attempt : 1..AttemptLimit]
NoMessage == [event |-> CHOOSE e \in Events : TRUE, attempt |-> 0]

\* Where a Worker can be.  A Worker "holds" from the acquired lock until the
\* release in the finally block of process_trip_event; it has "claimed" from
\* the claim until then.
Holding  == {"load", "check", "claim", "notify", "notify_set", "notify_push",
             "agent", "publish", "finish", "failed", "release"}
Claimed  == {"notify", "notify_set", "notify_push", "agent", "publish", "finish"}
Handling == Holding \cup {"reserved", "ack"}
WorkerPc == Handling \cup {"down", "boot", "top", "poll"}

TripAt(w) == TripOf[msg[w].event]

TypeOK ==
  /\ status \in [Events -> {"absent", "processed", "worker_processing", "worker_processed"}]
  /\ fence \in [Events -> Nat]
  /\ commits \in [Events -> SUBSET Nat]
  /\ tripCommit \in [Trips -> Nat]
  /\ api \in [Events -> {"new", "committed", "queued", "lost"}]
  /\ main \in Seq(Message) /\ processing \in Seq(Message)
  /\ retry \subseteq Message /\ IsFiniteSet(retry)
  /\ due \subseteq retry /\ dlq \subseteq DeadLetter
  /\ lock \in [Trips -> Nat] /\ lockFence \in [Trips -> Nat]
  /\ dedupeKey \in [Events -> BOOLEAN] /\ notices \in [Events -> Nat]
  /\ pc \in [Workers -> WorkerPc]
  /\ msg \in [Workers -> Message]
  /\ token \in [Workers -> Nat]
  /\ leaseLost \in [Workers -> BOOLEAN]
  /\ quota \in [Workers -> 0..RecoverLimit]
  /\ crashes \in 0..MaxCrashes /\ stalls \in 0..MaxStalls
  /\ redisErrors \in 0..MaxRedisErrors

Init ==
  /\ status = [e \in Events |-> "absent"]
  /\ fence = [e \in Events |-> 0]
  /\ commits = [e \in Events |-> {}]
  /\ tripCommit = [t \in Trips |-> 0]
  /\ api = [e \in Events |-> "new"]
  /\ main = <<>> /\ processing = <<>>
  /\ retry = {} /\ due = {} /\ dlq = {}
  /\ lock = [t \in Trips |-> 0] /\ lockFence = [t \in Trips |-> 0]
  /\ dedupeKey = [e \in Events |-> FALSE] /\ notices = [e \in Events |-> 0]
  /\ pc = [w \in Workers |-> "down"]
  /\ msg = [w \in Workers |-> NoMessage]
  /\ token = [w \in Workers |-> 0]
  /\ leaseLost = [w \in Workers |-> FALSE]
  /\ quota = [w \in Workers |-> 0]
  /\ crashes = 0 /\ stalls = 0 /\ redisErrors = 0

-----------------------------------------------------------------------------
(* Helpers *)

\* Worker w, at one of the places `from', goes on to `to'.
Goto(w, from, to) ==
  /\ pc[w] \in from
  /\ pc' = [pc EXCEPT ![w] = to]

\* The local variables of a run die with it.
Forget(w) ==
  /\ msg' = [msg EXCEPT ![w] = NoMessage]
  /\ token' = [token EXCEPT ![w] = 0]
  /\ leaseLost' = [leaseLost EXCEPT ![w] = FALSE]

\* LREM <list> 1 <payload>: the newest entry equal to m goes, whoever put it there.
RemoveFromProcessing(m) ==
  LET at == {i \in DOMAIN processing : processing[i] = m}
  IN  \/ at = {} /\ UNCHANGED processing
      \/ \E i \in at : /\ \A j \in at : j <= i
                       /\ processing' = RemoveAt(processing, i)

\* A handler that never compares the counter with its maximum.
EnqueueRetry_Unbounded(m, limit) ==
  LET again == [m EXCEPT !.attempt = @ + 1]
  IN  retry' = retry \cup {again} /\ due' = due \ {again} /\ UNCHANGED dlq

\* enqueue_retry with attempt + 1: the dead-letter list at the maximum, else
\* ZADD, which reschedules a payload that is already a member.
EnqueueRetry(m, limit) ==
  LET again == [m EXCEPT !.attempt = @ + 1]
  IN  IF again.attempt >= limit
      THEN dlq' = dlq \cup {again} /\ UNCHANGED <<retry, due>>
      ELSE retry' = retry \cup {again} /\ due' = due \ {again} /\ UNCHANGED dlq

\* What the before_commit guard lets through: no lease loss signalled, and the
\* row still carries the token of this Worker.
CommitAllowed_NoFence(w) == ~leaseLost[w]
CommitAllowed(w) == ~leaseLost[w] /\ fence[msg[w].event] = token[w]

-----------------------------------------------------------------------------
(* API: ingest_event and update_location.  A client's repetition of an      *)
(* event id finds the row and changes nothing.                              *)

IngestCommit(e) ==
  /\ api[e] = "new"
  /\ api' = [api EXCEPT ![e] = "committed"]
  /\ status' = [status EXCEPT ![e] = "processed"]
  /\ UNCHANGED <<fence, commits, tripCommit, queueVars, lockVars, noticeVars,
                 workerVars, boundVars>>

IngestEnqueue(e) ==
  /\ api[e] = "committed"
  /\ api' = [api EXCEPT ![e] = "queued"]
  /\ main' = Append(main, [event |-> e, attempt |-> 0])
  /\ UNCHANGED <<dbVars, processing, retry, due, dlq, lockVars, noticeVars,
                 workerVars, boundVars>>

\* The API process stops, or Redis refuses, between the commit and the queue.
IngestLost(e) ==
  /\ api[e] = "committed"
  /\ api' = [api EXCEPT ![e] = "lost"]
  /\ UNCHANGED <<dbVars, queueVars, lockVars, noticeVars, workerVars, boundVars>>

-----------------------------------------------------------------------------
(* Redis: time passing *)

BecomeDue(m) ==
  /\ m \in retry \ due
  /\ due' = due \cup {m}
  /\ UNCHANGED <<dbVars, api, main, processing, retry, dlq, lockVars, noticeVars,
                 workerVars, boundVars>>

\* Worker w runs with the lock of trip t in Redis under its own token.
OwnsLock(w, t) == pc[w] \in Holding /\ TripAt(w) = t /\ token[w] = lock[t]

\* A fence counter that is given the TTL of the lock.
LeaseExpires_CounterToo(t) ==
  /\ lock[t] # 0
  /\ IF \E w \in Workers : OwnsLock(w, t)
     THEN stalls < MaxStalls /\ stalls' = stalls + 1
     ELSE UNCHANGED stalls
  /\ lock' = [lock EXCEPT ![t] = 0]
  /\ lockFence' = [lockFence EXCEPT ![t] = 0]
  /\ UNCHANGED <<dbVars, api, queueVars, noticeVars, workerVars, crashes, redisErrors>>

\* The TTL of the lock runs out.  Its owner renews it, so a live owner loses it
\* only by stalling longer than the TTL.
LeaseExpires(t) ==
  /\ lock[t] # 0
  /\ IF \E w \in Workers : OwnsLock(w, t)
     THEN stalls < MaxStalls /\ stalls' = stalls + 1
     ELSE UNCHANGED stalls
  /\ lock' = [lock EXCEPT ![t] = 0]
  /\ UNCHANGED <<dbVars, api, queueVars, lockFence, noticeVars, workerVars,
                 crashes, redisErrors>>

-----------------------------------------------------------------------------
(* Worker: start, poll and reserve (run_worker) *)

Restart(w) ==
  /\ Goto(w, {"down"}, "boot")
  /\ quota' = [quota EXCEPT ![w] = RecoverLimit]
  /\ UNCHANGED <<dbVars, api, queueVars, lockVars, noticeVars, msg, token,
                 leaseLost, boundVars>>

\* A start-up that leaves the processing list alone.
Recover_Skipped(w) ==
  /\ Goto(w, {"boot"}, "top")
  /\ UNCHANGED <<dbVars, api, queueVars, lockVars, noticeVars, msg, token,
                 leaseLost, quota, boundVars>>

\* recover_processing: RPOPLPUSH one entry at a time, oldest first, whichever
\* Worker reserved it.
Recover(w) ==
  IF processing # <<>> /\ quota[w] > 0
  THEN /\ pc[w] = "boot"
       /\ main' = Append(main, Head(processing))
       /\ processing' = Tail(processing)
       /\ quota' = [quota EXCEPT ![w] = @ - 1]
       /\ UNCHANGED <<dbVars, api, retry, due, dlq, lockVars, noticeVars, pc, msg,
                      token, leaseLost, boundVars>>
  ELSE /\ Goto(w, {"boot"}, "top")
       /\ quota' = [quota EXCEPT ![w] = 0]
       /\ UNCHANGED <<dbVars, api, queueVars, lockVars, noticeVars, msg, token,
                      leaseLost, boundVars>>

\* promote_retries: one script moves every due member to the main list.  Members
\* with the same score come in lexical order; here the order is unspecified.
PromoteRetries(w) ==
  /\ Goto(w, {"top"}, "poll")
  /\ \E s \in SetToSeqs(due) : main' = main \o s
  /\ retry' = retry \ due
  /\ due' = {}
  /\ UNCHANGED <<dbVars, api, processing, dlq, lockVars, noticeVars, msg, token,
                 leaseLost, quota, boundVars>>

\* BRPOP, the reservation the reliable list replaced.
Reserve_Pop(w) ==
  /\ main # <<>>
  /\ Goto(w, {"poll"}, "reserved")
  /\ msg' = [msg EXCEPT ![w] = Head(main)]
  /\ main' = Tail(main)
  /\ UNCHANGED <<dbVars, api, processing, retry, due, dlq, lockVars, noticeVars, token,
                 leaseLost, quota, boundVars>>

\* BRPOPLPUSH: from the main list to the processing list in one step.
Reserve(w) ==
  /\ main # <<>>
  /\ Goto(w, {"poll"}, "reserved")
  /\ msg' = [msg EXCEPT ![w] = Head(main)]
  /\ main' = Tail(main)
  /\ processing' = Append(processing, Head(main))
  /\ UNCHANGED <<dbVars, api, retry, due, dlq, lockVars, noticeVars, token,
                 leaseLost, quota, boundVars>>

PollTimeout(w) ==
  /\ main = <<>>
  /\ Goto(w, {"poll"}, "top")
  /\ UNCHANGED <<dbVars, api, queueVars, lockVars, noticeVars, msg, token,
                 leaseLost, quota, boundVars>>

-----------------------------------------------------------------------------
(* Worker: process_trip_event *)

AcquireLock(w) ==
  LET t == TripAt(w)
  IN  /\ lock[t] = 0
      /\ Goto(w, {"reserved"}, "load")
      /\ lockFence' = [lockFence EXCEPT ![t] = @ + 1]
      /\ lock' = [lock EXCEPT ![t] = lockFence[t] + 1]
      /\ token' = [token EXCEPT ![w] = lockFence[t] + 1]
      /\ leaseLost' = [leaseLost EXCEPT ![w] = FALSE]
      /\ UNCHANGED <<dbVars, api, queueVars, noticeVars, msg, quota, boundVars>>

Contended(w) ==
  /\ lock[TripAt(w)] # 0
  /\ Goto(w, {"reserved"}, "ack")
  /\ EnqueueRetry(msg[w], MaxContention)
  /\ UNCHANGED <<dbVars, api, main, processing, lockVars, noticeVars, msg, token,
                 leaseLost, quota, boundVars>>

\* The renewer finds another value, or none, under the lock key.
RenewFails(w) ==
  /\ pc[w] \in Holding \ {"release"}
  /\ ~leaseLost[w]
  /\ lock[TripAt(w)] # token[w]
  /\ leaseLost' = [leaseLost EXCEPT ![w] = TRUE]
  /\ UNCHANGED <<dbVars, api, queueVars, lockVars, noticeVars, pc, msg, token,
                 quota, boundVars>>

\* The renewal raises: the lease counts as lost although Redis still holds it.
RenewErrors(w) ==
  /\ pc[w] \in Holding \ {"release"}
  /\ ~leaseLost[w]
  /\ stalls < MaxStalls
  /\ stalls' = stalls + 1
  /\ leaseLost' = [leaseLost EXCEPT ![w] = TRUE]
  /\ UNCHANGED <<dbVars, api, queueVars, lockVars, noticeVars, pc, msg, token,
                 quota, crashes, redisErrors>>

\* db.get(TripEvent): a completed event is a duplicate delivery.  The row exists,
\* since it is committed before it is queued.
LoadEvent(w) ==
  /\ status[msg[w].event] # "absent"
  /\ Goto(w, {"load"},
          IF status[msg[w].event] = "worker_processed" THEN "release" ELSE "check")
  /\ UNCHANGED <<dbVars, api, queueVars, lockVars, noticeVars, msg, token,
                 leaseLost, quota, boundVars>>

CheckLease(w) ==
  /\ Goto(w, {"check"},
          IF ~leaseLost[w] /\ lock[TripAt(w)] = token[w] THEN "claim" ELSE "failed")
  /\ UNCHANGED <<dbVars, api, queueVars, lockVars, noticeVars, msg, token,
                 leaseLost, quota, boundVars>>

\* Where a claimed run goes first: NotificationService.enqueue when the stored
\* decision says so, then the agent run.
AfterClaim(e) == IF e \in NotifyEvents THEN "notify" ELSE "agent"

\* The claim without its comparison of tokens.
ClaimFence_NoCompare(w) ==
  LET e == msg[w].event
  IN  /\ IF status[e] # "worker_processed"
         THEN /\ Goto(w, {"claim"}, AfterClaim(e))
              /\ status' = [status EXCEPT ![e] = "worker_processing"]
              /\ fence' = [fence EXCEPT ![e] = token[w]]
         ELSE Goto(w, {"claim"}, "release") /\ UNCHANGED <<status, fence>>
      /\ UNCHANGED <<commits, tripCommit, api, queueVars, lockVars, noticeVars,
                     msg, token, leaseLost, quota, boundVars>>

\* _claim_worker_fence: one UPDATE ... WHERE, committed at once.
ClaimFence(w) ==
  LET e == msg[w].event
  IN  /\ IF status[e] # "worker_processed" /\ fence[e] < token[w]
         THEN /\ Goto(w, {"claim"}, AfterClaim(e))
              /\ status' = [status EXCEPT ![e] = "worker_processing"]
              /\ fence' = [fence EXCEPT ![e] = token[w]]
         ELSE Goto(w, {"claim"}, "release") /\ UNCHANGED <<status, fence>>
      /\ UNCHANGED <<commits, tripCommit, api, queueVars, lockVars, noticeVars,
                     msg, token, leaseLost, quota, boundVars>>

\* NotificationService.enqueue: read the dedupe key, write it, push the job.
NotifyCheck(w) ==
  /\ Goto(w, {"notify"}, IF dedupeKey[msg[w].event] THEN "agent" ELSE "notify_set")
  /\ UNCHANGED <<dbVars, api, queueVars, lockVars, noticeVars, msg, token,
                 leaseLost, quota, boundVars>>

NotifySet_NoKey(w) ==
  /\ Goto(w, {"notify_set"}, "notify_push")
  /\ UNCHANGED <<dbVars, api, queueVars, lockVars, noticeVars, msg, token,
                 leaseLost, quota, boundVars>>

NotifySet(w) ==
  /\ Goto(w, {"notify_set"}, "notify_push")
  /\ dedupeKey' = [dedupeKey EXCEPT ![msg[w].event] = TRUE]
  /\ UNCHANGED <<dbVars, api, queueVars, lockVars, notices, msg, token,
                 leaseLost, quota, boundVars>>

NotifyPush(w) ==
  /\ Goto(w, {"notify_push"}, "agent")
  /\ notices' = [notices EXCEPT ![msg[w].event] = @ + 1]
  /\ UNCHANGED <<dbVars, api, queueVars, lockVars, dedupeKey, msg, token,
                 leaseLost, quota, boundVars>>

\* One of the commits of an agent run: a proposed plan version, a workflow
\* checkpoint, the decision.  A run makes any number of them, each through the
\* guard; the guard raises when it does not let the commit through.
AgentCommit(w) ==
  LET e == msg[w].event
  IN  /\ e \in AgentEvents
      /\ IF CommitAllowed(w)
         THEN /\ pc[w] = "agent"
              /\ commits' = [commits EXCEPT ![e] = @ \cup {token[w]}]
              /\ tripCommit' = [tripCommit EXCEPT ![TripAt(w)] = token[w]]
              /\ UNCHANGED pc
         ELSE Goto(w, {"agent"}, "failed") /\ UNCHANGED <<commits, tripCommit>>
      /\ UNCHANGED <<status, fence, api, queueVars, lockVars, noticeVars, msg, token,
                     leaseLost, quota, boundVars>>

\* The run is over, or there was none to make.
AgentDone(w) ==
  /\ Goto(w, {"agent"}, "publish")
  /\ msg[w].event \in AgentEvents => token[w] \in commits[msg[w].event]
  /\ UNCHANGED <<dbVars, api, queueVars, lockVars, noticeVars, msg, token,
                 leaseLost, quota, boundVars>>

\* publish_trip_stream: no database session is involved, so no guard runs.
PublishStream(w) ==
  /\ Goto(w, {"publish"}, "finish")
  /\ UNCHANGED <<dbVars, api, queueVars, lockVars, noticeVars, msg, token,
                 leaseLost, quota, boundVars>>

MarkProcessed(w) ==
  LET e == msg[w].event
  IN  /\ IF CommitAllowed(w)
         THEN /\ Goto(w, {"finish"}, "release")
              /\ status' = [status EXCEPT ![e] = "worker_processed"]
         ELSE Goto(w, {"finish"}, "failed") /\ UNCHANGED status
      /\ UNCHANGED <<fence, commits, tripCommit, api, queueVars, lockVars, noticeVars,
                     msg, token, leaseLost, quota, boundVars>>

\* A provider, Redis or the database raises inside the try block.
RunRaises(w) ==
  /\ Goto(w, Claimed \cup {"load", "check", "claim"}, "failed")
  /\ UNCHANGED <<dbVars, api, queueVars, lockVars, noticeVars, msg, token,
                 leaseLost, quota, boundVars>>

\* The except block: retry or dead-letter, then return normally.
HandleFailure(w) ==
  /\ Goto(w, {"failed"}, "release")
  /\ EnqueueRetry(msg[w], MaxFailures)
  /\ UNCHANGED <<dbVars, api, main, processing, lockVars, noticeVars, msg,
                 token, leaseLost, quota, boundVars>>

\* release_lock compares the token before it deletes.
ReleasedLock(w) ==
  IF lock[TripAt(w)] = token[w] THEN [lock EXCEPT ![TripAt(w)] = 0] ELSE lock

ReleaseLock(w) ==
  /\ Goto(w, {"release"}, "ack")
  /\ lock' = ReleasedLock(w)
  /\ UNCHANGED <<dbVars, api, queueVars, lockFence, noticeVars, msg, token,
                 leaseLost, quota, boundVars>>

\* Redis refuses the acquisition or the retry: the exception leaves
\* process_trip_event, nothing is acknowledged and the loop goes on.  The lock
\* is released on the way out, unless Redis refuses that too.
HandlerRaises(w) ==
  /\ redisErrors < MaxRedisErrors
  /\ redisErrors' = redisErrors + 1
  /\ \/ Goto(w, {"reserved", "failed", "release"}, "top") /\ UNCHANGED lock
     \/ Goto(w, {"failed"}, "top") /\ lock' = ReleasedLock(w)
  /\ Forget(w)
  /\ UNCHANGED <<dbVars, api, queueVars, lockFence, noticeVars, quota, crashes, stalls>>

Acknowledge(w) ==
  /\ Goto(w, {"ack"}, "top")
  /\ RemoveFromProcessing(msg[w])
  /\ Forget(w)
  /\ UNCHANGED <<dbVars, api, main, retry, due, dlq, lockVars, noticeVars, quota,
                 boundVars>>

\* The process dies: Redis and the database keep what they have.
Crash(w) ==
  /\ crashes < MaxCrashes
  /\ crashes' = crashes + 1
  /\ Goto(w, WorkerPc \ {"down"}, "down")
  /\ Forget(w)
  /\ quota' = [quota EXCEPT ![w] = 0]
  /\ UNCHANGED <<dbVars, api, queueVars, lockVars, noticeVars, stalls, redisErrors>>

-----------------------------------------------------------------------------
\* The steps a live Worker takes by itself, one after the other.
WorkerStep(w) ==
  \/ Recover(w) \/ PromoteRetries(w) \/ Reserve(w) \/ PollTimeout(w)
  \/ AcquireLock(w) \/ Contended(w) \/ LoadEvent(w) \/ CheckLease(w)
  \/ ClaimFence(w) \/ NotifyCheck(w) \/ NotifySet(w) \/ NotifyPush(w)
  \/ AgentCommit(w) \/ AgentDone(w) \/ PublishStream(w) \/ MarkProcessed(w)
  \/ HandleFailure(w) \/ ReleaseLock(w) \/ Acknowledge(w)

\* What may befall it.
WorkerFault(w) ==
  RenewFails(w) \/ RenewErrors(w) \/ RunRaises(w) \/ HandlerRaises(w) \/ Crash(w)

Next ==
  \/ \E e \in Events : IngestCommit(e) \/ IngestEnqueue(e) \/ IngestLost(e)
  \/ \E m \in Message : BecomeDue(m)
  \/ \E t \in Trips : LeaseExpires(t)
  \/ \E w \in Workers : Restart(w) \/ WorkerStep(w) \/ WorkerFault(w)

Spec == Init /\ [][Next]_vars

\* A live process goes on, the container is restarted, and time passes.
Fairness ==
  /\ \A w \in Workers : WF_vars(WorkerStep(w)) /\ WF_vars(Restart(w))
  /\ \A m \in Message : WF_vars(BecomeDue(m))

FairSpec == Spec /\ Fairness

-----------------------------------------------------------------------------
(* Properties *)

\* No lock, no row and no run carries a token the trip's counter has not issued.
TokensIssued ==
  /\ \A t \in Trips : lock[t] <= lockFence[t]
  /\ \A e \in Events : fence[e] <= lockFence[TripOf[e]]
  /\ \A w \in Workers : pc[w] \in Holding => token[w] \in 1..lockFence[TripAt(w)]

\* No two runs on one trip hold the same token, also when a lease has expired.
TokensDistinct ==
  \A v, w \in Workers :
    v # w /\ pc[v] \in Holding /\ pc[w] \in Holding /\ TripAt(v) = TripAt(w)
      => token[v] # token[w]

\* A run past the claim whose token is still on the row has not been completed
\* by anybody else.
ClaimIntact ==
  \A w \in Workers :
    /\ pc[w] \in {"check", "claim"} \cup Claimed => status[msg[w].event] # "absent"
    /\ pc[w] \in Claimed /\ fence[msg[w].event] = token[w]
         => status[msg[w].event] = "worker_processing"

\* An event that is still to be reported has no row.
NewEventsAbsent == \A e \in Events : api[e] = "new" => status[e] = "absent"

\* The invariant the fencing argument rests on (runtime_store.py acquire_lock,
\* worker.py _claim_worker_fence).
FenceInv == TokensIssued /\ TokensDistinct /\ ClaimIntact /\ NewEventsAbsent

\* The before_commit guard lets at most one Worker commit for an event, however
\* many hold a message for it and whatever happened to their leases.
OneCommitterPerEvent ==
  \A v, w \in Workers :
    /\ pc[v] \in Claimed /\ pc[w] \in Claimed
    /\ msg[v].event = msg[w].event
    /\ CommitAllowed(v) /\ CommitAllowed(w)
    => v = w

\* The pipeline implements the ledger: claims in token order, work only under
\* the latest claim, and nothing at all after worker_processed is committed
\* (docs/WORKER_FAULT_RECOVERY.md, "without repeating side effects").
Ledger == INSTANCE FencedLedger
ImplementsLedger == Ledger!LedgerSpec

\* An event that reached the queue is completed, dead-lettered, in a Redis list
\* from which a Worker can take it, or in the hands of a live Worker: a crash
\* at any step leaves it recoverable (docs/WORKER_FAULT_RECOVERY.md:9).
QueuedFor(e) ==
  \E m \in ToSet(main) \cup ToSet(processing) \cup retry \cup dlq : m.event = e
InHand(e) == \E w \in Workers : pc[w] \in Handling /\ msg[w].event = e
NoEventLost ==
  \A e \in Events :
    api[e] = "queued" => status[e] = "worker_processed" \/ QueuedFor(e) \/ InHand(e)

\* Within the dedupe window, redeliveries and retries of an event queue its
\* notice at most once.
OneNoticePerEvent == \A e \in Events : notices[e] <= 1

\* Every queued event is completed or dead-lettered in the end, across crashes,
\* stale locks and failing runs.
EventuallySettled ==
  \A e \in Events :
    api[e] = "queued" ~> \/ status[e] = "worker_processed"
                        \/ \E m \in dlq : m.event = e

\* "preventing a stale Worker from publishing later state after ownership
\* changes" (docs/CHANGELOG.md:270): the agent work committed for one trip comes
\* in the order of the tokens of the trip's lock.
TripCommitsInOrder == [][\A t \in Trips : tripCommit'[t] >= tripCommit[t]]_tripCommit

=============================================================================
