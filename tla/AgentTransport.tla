--------------------------- MODULE AgentTransport ---------------------------
(***************************************************************************)
(* The recoverable transport for Agent messages (services/agent_transport. *)
(* py), the role workers that consume it (AgentTaskWorker and               *)
(* agent_role_worker.py) and the workflows that send a task to a role and  *)
(* wait for its result in a reply inbox (_run_remote_agent in              *)
(* services/agent_orchestrator.py, _run_distributed_replanner in           *)
(* services/dynamic_replanning.py).                                        *)
(*                                                                         *)
(* Both transports have one shape: entries in the order they were added,   *)
(* how many of them have been handed out, and the claims that are not yet  *)
(* acknowledged (the group's pending entries list, or _pending).  The      *)
(* place of an entry in `log' is its receipt.                              *)
(*                                                                         *)
(* Abstracted: the envelope's fields and their validation (a message that  *)
(* fails it is a handler that raises), trace context and metrics, the      *)
(* length limits of streams, the day-long TTL of keys and inboxes, and the *)
(* clock: a claim may reach the idle time, and a deadline pass, at any     *)
(* step.  A workflow that dies while it waits is one that times out.       *)
(***************************************************************************)
EXTENDS Naturals, FiniteSets, SequencesExt

CONSTANTS
  Requests,         \* tasks that workflows send to one role
  Consumers,        \* processes of that role
  Outputs,          \* contents a handler may produce
  NoOutput,         \* the caller has taken no answer
  Transports,       \* subset of {"redis_stream", "memory"}
  MaxAttempts,      \* agent_message_max_attempts              (3 in the code)
  MaxCrashes,       \* bound: crashes of role workers
  MaxStalls,        \* bound: claims that grow idle in the hands of a live worker
  MaxAckErrors,     \* bound: acknowledgements that raise
  MaxFaults         \* bound: crashes, stalls and errors together

ASSUME LimitsAssumption ==
  MaxAttempts \in 1..5 /\ MaxCrashes \in Nat /\ MaxStalls \in Nat /\ MaxAckErrors \in Nat
  /\ MaxFaults \in Nat
ASSUME TransportsAssumption == Transports \subseteq {"redis_stream", "memory"}
ASSUME OutputsAssumption == NoOutput \notin Outputs

VARIABLES
  transport,        \* the transport build_agent_message_bus selected
  log,              \* entries of the role's stream
  read,             \* how many of them have been handed out
  pel,              \* claims: [count, idle] for each receipt
  dead,             \* the role's :dlq stream
  keys,             \* deduplication keys of published replies
  inbox,            \* reply inbox of each request
  inboxDead,        \* inboxes whose reply went to the inbox's :dlq
  caller,           \* where the workflow that sends the request is
  answer,           \* the reply it received
  pc, held, made,   \* a role worker: its step, its delivery, the handler's output
  runs,             \* history: handler executions for each request
  crashes, stalls, ackErrors

streamVars == <<log, read, pel, dead>>
replyVars  == <<keys, inbox, inboxDead>>
callerVars == <<caller, answer>>
workerVars == <<pc, held, made>>
boundVars  == <<crashes, stalls, ackErrors>>
vars == <<transport, streamVars, replyVars, callerVars, workerVars, runs, boundVars>>

Entry    == [req : Requests, attempt : 1..MaxAttempts]
Delivery == [receipt : Nat, req : Requests, attempt : 1..MaxAttempts, count : Nat]
NoDelivery == [receipt |-> 0]

CallerSteps == {"new", "waiting", "received", "done", "timed_out", "failed"}
WorkerSteps == {"down", "idle", "claimed", "have", "publish", "ack", "failed"}
Working     == {"claimed", "have", "publish", "ack", "failed"}

TypeOK ==
  /\ transport \in Transports
  /\ log \in Seq(Entry) /\ read \in 0..Len(log)
  /\ \E P \in SUBSET (1..read) : pel \in [P -> [count : Nat \ {0}, idle : BOOLEAN]]
  /\ dead \subseteq Requests
  /\ keys \subseteq Requests \X Outputs
  /\ inbox \in [Requests -> Seq(Outputs)] /\ inboxDead \subseteq Requests
  /\ caller \in [Requests -> CallerSteps] /\ answer \in [Requests -> Outputs \cup {NoOutput}]
  /\ pc \in [Consumers -> WorkerSteps] /\ made \in [Consumers -> Outputs \cup {NoOutput}]
  /\ held \in [Consumers -> Delivery \cup {NoDelivery}]
  /\ \A w \in Consumers : pc[w] \in Working => held[w] \in Delivery
  /\ runs \in [Requests -> Nat]
  /\ crashes \in 0..MaxCrashes /\ stalls \in 0..MaxStalls /\ ackErrors \in 0..MaxAckErrors

MoreFaults == crashes + stalls + ackErrors < MaxFaults

Init ==
  /\ transport \in Transports
  /\ log = <<>> /\ read = 0 /\ pel = <<>> /\ dead = {}
  /\ keys = {} /\ inbox = [r \in Requests |-> <<>>] /\ inboxDead = {}
  /\ caller = [r \in Requests |-> "new"] /\ answer = [r \in Requests |-> NoOutput]
  /\ pc = [w \in Consumers |-> "idle"] /\ held = [w \in Consumers |-> NoDelivery]
  /\ made = [w \in Consumers |-> NoOutput]
  /\ runs = [r \in Requests |-> 0]
  /\ crashes = 0 /\ stalls = 0 /\ ackErrors = 0

\* Receipts of a request that are still to be handed out or acknowledged.
LiveEntries(r) == {i \in DOMAIN pel \cup (read + 1)..Len(log) : log[i].req = r}
Claim(i, n) == [j \in DOMAIN pel \cup {i} |->
                  IF j = i THEN [count |-> n, idle |-> FALSE] ELSE pel[j]]
Unclaim(i) == [j \in DOMAIN pel \ {i} |-> pel[j]]
IdleClaims == {i \in DOMAIN pel : pel[i].idle}
OldestIdle == CHOOSE i \in IdleClaims : \A j \in IdleClaims : i <= j
\* Redis counts the deliveries of an entry from 1, the memory transport from the
\* attempt of its message.
FirstCount(i) == IF transport = "memory" THEN log[i].attempt ELSE 1
\* The idempotency key of a reply: the ids of its request and the hash of its
\* content, so that a second handling is a duplicate only if it made the same.
ReplyKey(r, c) == <<r, c>>

(***************************************************************************)
(* The workflow that sends a task.                                         *)
(***************************************************************************)
\* publish: the key holds fresh ids (correlation, inbox), so SET NX succeeds.
PublishRequest(r) ==
  /\ caller[r] = "new"
  /\ caller' = [caller EXCEPT ![r] = "waiting"]
  /\ log' = Append(log, [req |-> r, attempt |-> 1])
  /\ UNCHANGED <<transport, read, pel, dead, replyVars, answer, workerVars, runs, boundVars>>

\* receive on the inbox: the first reply.  Its ids are those of the request,
\* since the inbox is the request's own.
TakeReply(r) ==
  /\ caller[r] = "waiting" /\ inbox[r] # <<>>
  /\ caller' = [caller EXCEPT ![r] = "received"]
  /\ answer' = [answer EXCEPT ![r] = Head(inbox[r])]
  /\ UNCHANGED <<transport, streamVars, replyVars, workerVars, runs, boundVars>>

AckReply(r) ==
  /\ caller[r] = "received"
  /\ caller' = [caller EXCEPT ![r] = "done"]
  /\ UNCHANGED <<transport, streamVars, replyVars, answer, workerVars, runs, boundVars>>

\* The acknowledgement raises: retry with max_attempts=1 dead-letters the reply.
AckReplyFails(r) ==
  /\ caller[r] = "received"
  /\ MoreFaults /\ ackErrors < MaxAckErrors /\ ackErrors' = ackErrors + 1
  /\ caller' = [caller EXCEPT ![r] = "failed"]
  /\ inboxDead' = inboxDead \cup {r}
  /\ UNCHANGED <<transport, streamVars, keys, inbox, answer, workerVars, runs, crashes, stalls>>

Deadline(r) ==
  /\ caller[r] = "waiting"
  /\ caller' = [caller EXCEPT ![r] = "timed_out"]
  /\ UNCHANGED <<transport, streamVars, replyVars, answer, workerVars, runs, boundVars>>

(***************************************************************************)
(* A role worker: AgentTaskWorker.run_once.                                *)
(***************************************************************************)
Hold(w, i, n) ==
  held' = [held EXCEPT ![w] =
             [receipt |-> i, req |-> log[i].req, attempt |-> log[i].attempt, count |-> n]]

\* Reclaim that leaves the delivery count of the claim as it is.
Reclaim_SameCount(w) ==
  /\ pc[w] = "idle" /\ IdleClaims # {}
  /\ pel' = Claim(OldestIdle, pel[OldestIdle].count)
  /\ Hold(w, OldestIdle, pel[OldestIdle].count)
  /\ pc' = [pc EXCEPT ![w] = IF transport = "memory" THEN "have" ELSE "claimed"]
  /\ UNCHANGED <<transport, log, read, dead, replyVars, callerVars, made, runs, boundVars>>

\* A reclaim that finds nothing.
Reclaim_Nothing(w) == pc[w] = "idle" /\ IdleClaims # {} /\ FALSE /\ UNCHANGED vars

\* reclaim, count=1: XAUTOCLAIM takes the oldest claim that is idle long
\* enough.  With Redis its delivery count is asked for in a second call.
Reclaim(w) ==
  /\ pc[w] = "idle" /\ IdleClaims # {}
  /\ pel' = Claim(OldestIdle, pel[OldestIdle].count + 1)
  /\ Hold(w, OldestIdle, pel[OldestIdle].count + 1)
  /\ pc' = [pc EXCEPT ![w] = IF transport = "memory" THEN "have" ELSE "claimed"]
  /\ UNCHANGED <<transport, log, read, dead, replyVars, callerVars, made, runs, boundVars>>

\* XPENDING for that receipt: it may have been acknowledged meanwhile, and then
\* the attempt of the message counts.
ReadDeliveryCount(w) ==
  /\ pc[w] = "claimed"
  /\ LET i == held[w].receipt
     IN  Hold(w, i, IF i \in DOMAIN pel THEN pel[i].count ELSE log[i].attempt)
  /\ pc' = [pc EXCEPT ![w] = "have"]
  /\ UNCHANGED <<transport, streamVars, replyVars, callerVars, made, runs, boundVars>>

\* A receive that acknowledges at once (NOACK).
Receive_NoAck(w) ==
  /\ pc[w] = "idle" /\ IdleClaims = {} /\ read < Len(log)
  /\ read' = read + 1
  /\ Hold(w, read + 1, log[read + 1].attempt)
  /\ pc' = [pc EXCEPT ![w] = "have"]
  /\ UNCHANGED <<transport, log, pel, dead, replyVars, callerVars, made, runs, boundVars>>

\* Nothing to reclaim: receive the next entry.
Receive(w) ==
  /\ pc[w] = "idle" /\ IdleClaims = {} /\ read < Len(log)
  /\ read' = read + 1
  /\ pel' = Claim(read + 1, FirstCount(read + 1))
  /\ Hold(w, read + 1, log[read + 1].attempt)
  /\ pc' = [pc EXCEPT ![w] = "have"]
  /\ UNCHANGED <<transport, log, dead, replyVars, callerVars, made, runs, boundVars>>

\* run_once returns, or the process ends.
Release(w, step) ==
  /\ pc' = [pc EXCEPT ![w] = step]
  /\ held' = [held EXCEPT ![w] = NoDelivery]
  /\ made' = [made EXCEPT ![w] = NoOutput]

OverLimit(w) == held[w].count > MaxAttempts

\* The handler runs; it returns a reply or raises.  A reply that bus.publish
\* refuses to validate raises as well.
RunHandler(w) ==
  /\ pc[w] = "have" /\ ~OverLimit(w)
  /\ runs' = [runs EXCEPT ![held[w].req] = @ + 1]
  /\ \/ \E c \in Outputs : /\ made' = [made EXCEPT ![w] = c]
                           /\ pc' = [pc EXCEPT ![w] = "publish"]
     \/ pc' = [pc EXCEPT ![w] = "failed"] /\ UNCHANGED made
  /\ UNCHANGED <<transport, streamVars, replyVars, callerVars, held, boundVars>>

\* A key that was published within its TTL is not published again.
Duplicate(k) == k \in keys

\* bus.publish of the reply: SET NX of its key, then XADD, in one script.
PublishReply(w) ==
  LET r == held[w].req
      k == ReplyKey(r, made[w])
  IN  /\ pc[w] = "publish"
      /\ IF Duplicate(k)
         THEN UNCHANGED <<keys, inbox>>
         ELSE keys' = keys \cup {k} /\ inbox' = [inbox EXCEPT ![r] = Append(@, made[w])]
      /\ pc' = [pc EXCEPT ![w] = "ack"]
      /\ UNCHANGED <<transport, streamVars, inboxDead, callerVars, held, made, runs, boundVars>>

\* An entry that is no longer pending is left alone.
Acknowledge(w) ==
  /\ pc[w] = "ack"
  /\ pel' = Unclaim(held[w].receipt)
  /\ Release(w, "idle")
  /\ UNCHANGED <<transport, log, read, dead, replyVars, callerVars, runs, boundVars>>

\* XACK raises inside the try block.
AcknowledgeFails(w) ==
  /\ pc[w] = "ack" /\ transport = "redis_stream"
  /\ MoreFaults /\ ackErrors < MaxAckErrors /\ ackErrors' = ackErrors + 1
  /\ pc' = [pc EXCEPT ![w] = "failed"]
  /\ UNCHANGED <<transport, streamVars, replyVars, callerVars, held, made, runs, crashes, stalls>>

\* A disposition that compares the attempt with the limit one too late.
Requeue_OffByOne(d) ==
  IF d.attempt > MaxAttempts \/ d.count > MaxAttempts
  THEN dead' = dead \cup {d.req} /\ UNCHANGED log
  ELSE log' = Append(log, [req |-> d.req, attempt |-> d.attempt + 1]) /\ UNCHANGED dead

\* The disposition of retry: dead-letter or a new entry with the next attempt.
Requeue(d) ==
  IF d.attempt >= MaxAttempts \/ d.count >= MaxAttempts
  THEN dead' = dead \cup {d.req} /\ UNCHANGED log
  ELSE log' = Append(log, [req |-> d.req, attempt |-> d.attempt + 1]) /\ UNCHANGED dead

\* retry that does not look whether the claim is still there.
Retry_Unchecked(w) ==
  /\ pc[w] = "failed" \/ (pc[w] = "have" /\ OverLimit(w))
  /\ pel' = Unclaim(held[w].receipt)
  /\ Requeue(held[w])
  /\ Release(w, "idle")
  /\ UNCHANGED <<transport, read, replyVars, callerVars, runs, boundVars>>

\* retry, after a failure or for a delivery over the limit: one transaction that
\* acknowledges and adds.  The memory transport raises when the claim is gone,
\* which ends the process; Redis adds the entry all the same.
Retry(w) ==
  /\ pc[w] = "failed" \/ (pc[w] = "have" /\ OverLimit(w))
  /\ IF transport = "memory" /\ held[w].receipt \notin DOMAIN pel
     THEN /\ Release(w, "down")
          /\ UNCHANGED <<pel, log, dead>>
     ELSE /\ pel' = Unclaim(held[w].receipt)
          /\ Requeue(held[w])
          /\ Release(w, "idle")
  /\ UNCHANGED <<transport, read, replyVars, callerVars, runs, boundVars>>

(***************************************************************************)
(* Faults and time.                                                        *)
(***************************************************************************)
\* A role worker dies; what it claimed stays pending.  (The memory transport dies
\* with its only process, so it has no such step.)
Crash(w) ==
  /\ pc[w] \in Working /\ transport = "redis_stream"
  /\ MoreFaults /\ crashes < MaxCrashes /\ crashes' = crashes + 1
  /\ Release(w, "down")
  /\ UNCHANGED <<transport, streamVars, replyVars, callerVars, runs, stalls, ackErrors>>

Restart(w) ==
  /\ pc[w] = "down"
  /\ pc' = [pc EXCEPT ![w] = "idle"]
  /\ UNCHANGED <<transport, streamVars, replyVars, callerVars, held, made, runs, boundVars>>

\* A live worker is still busy with the entry.
InHand(i) == \E w \in Consumers : pc[w] \in Working /\ held[w].receipt = i

\* The idle time of a claim passes; for a live worker's claim that is a stall.
GrowIdle(i) ==
  /\ i \in DOMAIN pel /\ ~pel[i].idle
  /\ IF InHand(i) THEN MoreFaults /\ stalls < MaxStalls /\ stalls' = stalls + 1 ELSE UNCHANGED stalls
  /\ pel' = [pel EXCEPT ![i].idle = TRUE]
  /\ UNCHANGED <<transport, log, read, dead, replyVars, callerVars, workerVars, runs,
                 crashes, ackErrors>>

WorkerStep(w) ==
  \/ Reclaim(w) \/ ReadDeliveryCount(w) \/ Receive(w) \/ RunHandler(w)
  \/ PublishReply(w) \/ Acknowledge(w) \/ AcknowledgeFails(w) \/ Retry(w)

CallerStep(r) ==
  PublishRequest(r) \/ TakeReply(r) \/ AckReply(r) \/ AckReplyFails(r) \/ Deadline(r)

Next ==
  \/ \E r \in Requests : CallerStep(r)
  \/ \E w \in Consumers : WorkerStep(w) \/ Crash(w) \/ Restart(w)
  \/ \E i \in DOMAIN pel : GrowIdle(i)

\* A role worker loops for ever and is restarted; time passes.
Fairness ==
  /\ \A w \in Consumers : WF_vars(WorkerStep(w)) /\ WF_vars(Restart(w))
  /\ WF_vars(\E i \in DOMAIN pel : GrowIdle(i) /\ ~InHand(i))
  /\ \A r \in Requests : WF_vars(TakeReply(r) \/ AckReply(r) \/ Deadline(r))

Spec == Init /\ [][Next]_vars
FairSpec == Spec /\ Fairness

(***************************************************************************)
(* Properties.                                                             *)
(***************************************************************************)
\* Entries the stream ever had for a task: one for each attempt.
Attempts(r) == Cardinality({i \in 1..Len(log) : log[i].req = r})

\* Attempts (retry) and deliveries (reclaim) are counted apart, so a task runs
\* more often than MaxAttempts; but while no live worker is overtaken, each
\* attempt that failed was delivered fewer than MaxAttempts times before, and
\* the latest one at most MaxAttempts times, however workers crash.
RunsBounded ==
  stalls = 0 =>
    \A r \in Requests : Attempts(r) > 0 =>
      runs[r] <= (Attempts(r) - 1) * (MaxAttempts - 1) + MaxAttempts

\* A task has one copy in flight: always with the memory transport, whose retry
\* refuses a claim that is gone, and with Redis as long as no claim of a live
\* worker is taken over.
OneCopyInFlight ==
  transport = "memory" \/ stalls = 0
    => \A r \in Requests : Cardinality(LiveEntries(r)) <= 1

\* Every task leaves the channel in the end, whatever its handler does: the role
\* workers and the reclaim of dead workers' claims drain the stream.
EventuallyDrained ==
  \A r \in Requests : (caller[r] # "new") ~> (LiveEntries(r) = {})

\* What the channel of RequestChannel is made of here.
SentTasks  == {r \in Requests : caller[r] # "new"}
OpenTasks  == {r \in Requests : LiveEntries(r) # {}}
Answers    == [r \in Requests |-> ToSet(inbox[r])]
EndedCalls == {r \in Requests : caller[r] \in {"done", "timed_out", "failed"}}
Channel == INSTANCE RequestChannel WITH
  sent <- SentTasks, open <- OpenTasks, answers <- Answers, buried <- dead,
  outcome <- answer, ended <- EndedCalls

\* The transport implements the channel: wherever a worker crashes, a task leaves
\* the stream and the pending list only when it is answered or dead-lettered
\* (run_once acknowledges after its reply is published, retry adds what it
\* acknowledges), and a caller's outcome is a reply to its own task.
ImplementsChannel == Channel!ChannelSpec

=============================================================================
