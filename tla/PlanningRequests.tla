-------------------------- MODULE PlanningRequests --------------------------
(***************************************************************************)
(* The planning API of one user (api/ai_planner.py): POST /plans,          *)
(* POST /conversations and PATCH /conversations/{id}, with the idempotency *)
(* records, the daily quotas in Redis, the long-term preferences           *)
(* (services/agent_memory.py) and the answers to clarification questions   *)
(* (services/clarification.py).                                            *)
(*                                                                         *)
(* Handlers of the same user run side by side: each action is what one     *)
(* handler does between two awaits that other handlers can see (a commit,  *)
(* a Redis call, a read).  A handler may stop at any of them, and the TTL  *)
(* of a record may run out at any of them.  The planning itself is         *)
(* PlanningWorkflow; here it is one step with an outcome.                  *)
(*                                                                         *)
(* A request body says, for each field, a value or nothing, whether        *)
(* long-term memory may be used, and whether its text mentions the         *)
(* preference (a text cue).  An answer is a field and a value.             *)
(***************************************************************************)
EXTENDS Naturals, Sequences, FiniteSets

CONSTANTS
  Slots,         \* handlers that may run at the same time
  Headers,       \* Idempotency-Key headers of the requests
  NoKey,         \* no such header
  Fields,        \* fields of the request that an answer may set
  Preference,    \* the field that long-term memory has a default for
  Values,        \* values of the fields
  Answers,       \* the <<field, value>> pairs users answer
  MemoryValues,  \* values the user confirms as long-term preference
  Unset,         \* the request says nothing about the field
  Bodies,        \* request bodies
  Outcomes,      \* what a planning that returns may end with
  DailyLimit,    \* settings.ai_plans_per_day
  TokenLimit,    \* settings.daily_ai_token_quota, in units of one plan
  Usage,         \* units one planning may use
  EarlierPlans,  \* plannings of the same day before the first request
  MaxRequests,   \* bound: requests sent
  MaxFaults      \* bound: plannings and handlers that fail

\* "critic_review" and "human_confirmation" are questions the planner asks and
\* the handler refuses an answer to.
Askable == Fields \cup {"critic_review", "human_confirmation"}

ASSUME RequestsAssumption ==
  /\ Preference \in Fields
  /\ Unset \notin Values
  /\ MemoryValues \subseteq Values
  /\ Answers \subseteq Askable \X Values
  /\ Bodies \subseteq [said : [Fields -> Values \cup {Unset}],
                       memory : BOOLEAN, cue : BOOLEAN]
  /\ Outcomes \subseteq {"success", "need_clarification", "infeasible"}
  /\ Usage \subseteq {0, 1}
  /\ EarlierPlans \subseteq (0 .. DailyLimit) \cap (0 .. TokenLimit)
  /\ {DailyLimit, TokenLimit, MaxRequests, MaxFaults} \subseteq Nat
  /\ IsFiniteSet(Slots) /\ Slots # {}

VARIABLES
  records,  \* IdempotencyRecord rows, by id; a deleted row keeps its place
  runs,     \* PlanningRun rows of POST /plans, with their first PlanVersion
  convs,    \* PlanningConversation rows; said, overlap and first are history
  prefs,    \* the confirmed long-term preference, or Unset
  plans,    \* Redis counter quota:ai-plans of today
  tokens,   \* Redis counter quota:ai-tokens of today
  admitted, \* history: handlers that passed the budget today
  strays,   \* history: replies computed for another body than the client's
  h,        \* the handlers
  sent,     \* requests sent so far
  faults    \* failures so far

vars == <<records, runs, convs, prefs, plans, tokens, admitted, strays, h, sent, faults>>
quotas == <<plans, tokens, admitted>>
tables == <<records, runs, convs>>

NoRequest == [f \in Fields |-> Unset]
NoReply == [kind |-> "none"]

Idle == [pc |-> "idle", kind |-> "none", key |-> NoKey, body |-> CHOOSE b \in Bodies : TRUE,
         rid |-> 0, id |-> 0, request |-> NoRequest, answer |-> <<>>, same |-> FALSE,
         state |-> "none", revision |-> 0]

\* A row that was deleted.
Gone == [status |-> "deleted"]

Stored(r) == r > 0 /\ records[r] # Gone

\* Not yet past its expires_at.
Valid(r) == Stored(r) /\ records[r].live

\* The row that the unique constraint (owner_key, idempotency_key) allows; 0 if none.
RecordOf(kind, key) ==
  LET rs == {r \in DOMAIN records : /\ Stored(r)
                                    /\ records[r].kind = kind
                                    /\ records[r].key = key}
  IN IF rs = {} THEN 0 ELSE CHOOSE r \in rs : \A q \in rs : r >= q

\* A failure is one of MaxFaults.
Fault == faults < MaxFaults /\ faults' = faults + 1

Goto(s, pc) == h' = [h EXCEPT ![s] = [@ EXCEPT !.pc = pc]]

\* The handler's record row gets a new status.
Mark(r, status) == records' = [records EXCEPT ![r] = [@ EXCEPT !.status = status]]

\* The handler is over; the client has a reply, or an error.
Return(s) == h' = [h EXCEPT ![s] = Idle]

Replay(kind, body, reply) ==
  strays' = IF reply.kind = kind /\ reply.body = body THEN strays ELSE strays \cup {reply}

Init ==
  /\ records = <<>> /\ runs = <<>> /\ convs = <<>>
  /\ prefs = Unset
  /\ \E n \in EarlierPlans : plans = n /\ tokens = n /\ admitted = n
  /\ strays = {}
  /\ h = [s \in Slots |-> Idle]
  /\ sent = 0 /\ faults = 0

-----------------------------------------------------------------------------
(* A POST arrives.  With a key it looks its record up first: an expired    *)
(* record is dropped; the fingerprint of another body, a failed and a      *)
(* running request are refused; a finished one is replayed.                *)

Begin(s, kind, body, key) ==
  LET r == IF key = NoKey THEN 0 ELSE RecordOf(kind, key)
      new == [Idle EXCEPT !.kind = kind, !.body = body, !.key = key]
      first == IF kind = "plans" \/ key = NoKey THEN "budget" ELSE "insert"
  IN
  /\ h[s].pc = "idle" /\ sent < MaxRequests
  /\ sent' = sent + 1
  /\ h' = [h EXCEPT ![s] =
       CASE r = 0 -> [new EXCEPT !.pc = first]
         [] r # 0 /\ ~records[r].live ->
              [new EXCEPT !.pc = IF kind = "plans" THEN "expire" ELSE "drop", !.rid = r]
         [] r # 0 /\ records[r].live -> Idle]
  /\ IF Valid(r) /\ records[r].body = body /\ records[r].status = "succeeded"
     THEN Replay(kind, body, records[r].reply) ELSE UNCHANGED strays
  /\ UNCHANGED <<tables, prefs, quotas, faults>>

\* POST /plans marks the row before it deletes it: an UPDATE of a row that
\* another handler deleted meanwhile raises.
MarkExpired(s) ==
  /\ h[s].pc = "expire"
  /\ IF Stored(h[s].rid)
     THEN /\ Mark(h[s].rid, "expired")
          /\ Goto(s, "drop")
     ELSE /\ Return(s)
          /\ UNCHANGED records
  /\ UNCHANGED <<runs, convs, prefs, strays, quotas, sent, faults>>

DropExpired(s) ==
  /\ h[s].pc = "drop"
  /\ records' = [records EXCEPT ![h[s].rid] = Gone]
  /\ h' = [h EXCEPT ![s] =
       [@ EXCEPT !.rid = 0, !.pc = IF h[s].kind = "plans" THEN "budget" ELSE "insert"]]
  /\ UNCHANGED <<runs, convs, prefs, strays, quotas, sent, faults>>

\* Mutant: no unique constraint, only the lookup before it.
Refused_Never(s) == FALSE

\* The unique constraint refuses a second row of the key.
Refused(s) == RecordOf(h[s].kind, h[s].key) # 0

Insert(s) ==
  /\ h[s].pc = "insert"
  /\ IF Refused(s)
     THEN Return(s) /\ UNCHANGED records
     ELSE /\ records' = Append(records,
                [kind |-> h[s].kind, key |-> h[s].key, body |-> h[s].body,
                 status |-> "processing", reply |-> NoReply, live |-> TRUE])
          /\ h' = [h EXCEPT ![s] = [@ EXCEPT
                !.rid = Len(records) + 1,
                !.pc = IF h[s].kind = "plans" THEN "open" ELSE "budget"]]
  /\ UNCHANGED <<runs, convs, prefs, strays, quotas, sent, faults>>

-----------------------------------------------------------------------------
(* PATCH /conversations/{id}: the row is read once, its revision compared  *)
(* once, and the answers are applied to the request as it was read.        *)

\* Mutant: only the fields of this answer are left in the request.
ApplyAnswer_Forgets(request, field, value) == [NoRequest EXCEPT ![field] = value]

ApplyAnswer(request, field, value) == [request EXCEPT ![field] = value]

\* A handler that has read conversation c and has not committed its result.
InFlight(s, c) == h[s].id = c /\ h[s].kind # "plans" /\ h[s].pc \notin {"idle", "record"}

Continue(s, c, base, field, value) ==
  /\ h[s].pc = "idle" /\ sent < MaxRequests
  /\ sent' = sent + 1
  /\ IF base = convs[c].revision /\ field \in Fields
     THEN /\ h' = [h EXCEPT ![s] = [Idle EXCEPT
                !.pc = "budget", !.kind = "continue", !.id = c,
                !.answer = <<field, value>>,
                !.request = ApplyAnswer(convs[c].request, field, value),
                !.same = convs[c].request[field] = value,
                !.state = convs[c].state, !.revision = convs[c].revision]]
          /\ convs' = IF \E t \in Slots : InFlight(t, c)
                      THEN [convs EXCEPT ![c] = [@ EXCEPT !.overlap = TRUE]] ELSE convs
     ELSE Return(s) /\ UNCHANGED convs
  /\ UNCHANGED <<records, runs, prefs, strays, quotas, faults>>

-----------------------------------------------------------------------------
(* The daily budget: the counter is increased and then compared, so that   *)
(* refused and repeated requests count too.  The limit on the cost of one  *)
(* request depends on its text alone and refuses in the same way.          *)

\* Mutant: one plan more.
WithinBudget_OneMore(count) == count <= DailyLimit + 1 /\ tokens < TokenLimit

WithinBudget(count) == count <= DailyLimit /\ tokens < TokenLimit

AfterBudget(s) ==
  IF h[s].kind = "plans" /\ h[s].key # NoKey THEN "insert" ELSE "open"

EnforceAIBudget(s) ==
  /\ h[s].pc = "budget"
  /\ plans' = plans + 1
  /\ IF WithinBudget(plans + 1)
     THEN admitted' = admitted + 1 /\ Goto(s, AfterBudget(s))
     ELSE /\ IF h[s].rid > 0 THEN Goto(s, "fail") ELSE Return(s)
          /\ UNCHANGED admitted
  /\ UNCHANGED <<tables, prefs, strays, tokens, sent, faults>>

-----------------------------------------------------------------------------
(* The planning.                                                           *)

\* apply_long_term_preferences: a default is used when the request neither
\* says anything about it nor mentions it in its text.
Applied(body, stored) ==
  IF body.memory /\ body.said[Preference] = Unset /\ ~body.cue
  THEN [body.said EXCEPT ![Preference] = stored] ELSE body.said

\* Of a conversation that goes on, the columns that differ from what was read.
Continued(s, conv) ==
  [conv EXCEPT !.state = IF h[s].state = "running" THEN @ ELSE "running",
               !.request = IF h[s].same THEN @ ELSE h[s].request,
               !.said = [@ EXCEPT ![h[s].answer[1]] = h[s].answer[2]]]

\* The row is committed before the planning starts.  POST /plans hands the
\* request and its defaults to the planner and keeps neither.
Open(s) ==
  /\ h[s].pc = "open"
  /\ CASE h[s].kind = "plans" ->
         /\ runs' = Append(runs, [status |-> "running", version |-> FALSE, rid |-> h[s].rid])
         /\ h' = [h EXCEPT ![s] = [@ EXCEPT !.pc = "plan", !.id = Len(runs) + 1]]
         /\ UNCHANGED convs
       [] h[s].kind = "conversations" ->
         /\ convs' = Append(convs, [state |-> "running", revision |-> 1,
                request |-> Applied(h[s].body, prefs), of |-> NoRequest, first |-> FALSE,
                rid |-> h[s].rid, said |-> h[s].body.said, overlap |-> FALSE])
         /\ h' = [h EXCEPT ![s] = [@ EXCEPT
                !.pc = "plan", !.id = Len(convs) + 1, !.state = "running", !.revision = 1,
                !.request = Applied(h[s].body, prefs)]]
         /\ UNCHANGED runs
       [] h[s].kind = "continue" ->
         /\ convs' = [convs EXCEPT ![h[s].id] = Continued(s, convs[h[s].id])]
         /\ h' = [h EXCEPT ![s] = [@ EXCEPT
                !.pc = "plan", !.state = "running", !.answer = <<>>, !.same = FALSE]]
         /\ UNCHANGED runs
  /\ UNCHANGED <<records, prefs, strays, quotas, sent, faults>>

\* service.plan returns, and the tokens it used are added to the counter; the
\* rule parser uses none.  The outcome shows in the commit that follows.
Planned(s, used) ==
  /\ h[s].pc = "plan"
  /\ Goto(s, "commit")
  /\ tokens' = tokens + used
  /\ UNCHANGED <<tables, prefs, strays, plans, admitted, sent, faults>>

\* service.plan raises.  POST /plans fails run and record in one commit,
\* which raises itself, and writes nothing, when the record is gone.
PlanRaises(s) ==
  /\ h[s].pc = "plan"
  /\ Fault
  /\ IF h[s].kind = "plans"
     THEN /\ IF h[s].rid > 0 /\ ~Stored(h[s].rid) THEN UNCHANGED <<records, runs>>
             ELSE /\ runs' = [runs EXCEPT ![h[s].id] = [@ EXCEPT !.status = "failed"]]
                  /\ IF h[s].rid = 0 THEN UNCHANGED records ELSE Mark(h[s].rid, "failed")
          /\ Return(s)
          /\ UNCHANGED convs
     ELSE /\ convs' = [convs EXCEPT ![h[s].id] = [@ EXCEPT !.state = "failed"]]
          /\ IF h[s].rid > 0 THEN Goto(s, "fail") ELSE Return(s)
          /\ UNCHANGED <<records, runs>>
  /\ UNCHANGED <<prefs, strays, quotas, sent>>

ReplyOf(s) == [kind |-> h[s].kind, id |-> h[s].id, body |-> h[s].body]

\* The record keeps the reply for those who repeat the request.
Succeed(r, s) ==
  records' = [records EXCEPT ![r] = [@ EXCEPT !.status = "succeeded", !.reply = ReplyOf(s)]]

\* Mutant: the record is looked up by its key again instead of by its row.
Finished_ByKey(s) == RecordOf(h[s].kind, h[s].key)

\* The record row this handler finishes.
Finished(s) == h[s].rid

\* POST /plans: the run, its first version and the record in one commit.
CommitPlan(s, outcome) ==
  LET r == Finished(s) IN
  /\ h[s].pc = "commit" /\ h[s].kind = "plans"
  /\ IF r > 0 /\ ~Stored(r)
     THEN Return(s) /\ UNCHANGED <<records, runs>>
     ELSE /\ runs' = [runs EXCEPT ![h[s].id] =
                [@ EXCEPT !.status = outcome, !.version = outcome # "need_clarification"]]
          /\ IF r = 0 THEN UNCHANGED records ELSE Succeed(r, s)
          /\ Return(s)
  /\ UNCHANGED <<convs, prefs, strays, quotas, sent, faults>>

StateOf(outcome) == CASE outcome = "success"            -> "PLAN_READY"
                      [] outcome = "need_clarification" -> "NEED_CLARIFICATION"
                      [] outcome = "infeasible"         -> "INFEASIBLE"

\* The conversation takes the result; its request column is not written again.
Resulted(s, conv, outcome) ==
  [conv EXCEPT !.state = StateOf(outcome), !.of = h[s].request,
               !.revision = IF h[s].kind = "continue" THEN h[s].revision + 1 ELSE @,
               !.first = @ \/ h[s].kind = "conversations"]

CommitConversation(s, outcome) ==
  LET c == h[s].id IN
  /\ h[s].pc = "commit" /\ h[s].kind # "plans"
  /\ convs' = [convs EXCEPT ![c] = Resulted(s, convs[c], outcome)]
  /\ IF h[s].rid > 0 THEN Goto(s, "record") ELSE Return(s)
  /\ UNCHANGED <<records, runs, prefs, strays, quotas, sent, faults>>

\* The second commit of POST /conversations.
RecordConversation(s) ==
  LET r == Finished(s) IN
  /\ h[s].pc = "record"
  /\ IF Stored(r)
     THEN Succeed(r, s) /\ Return(s)
     ELSE Return(s) /\ UNCHANGED records
  /\ UNCHANGED <<runs, convs, prefs, strays, quotas, sent, faults>>

\* Mutant: the second commit of POST /conversations is inside the try, too.
SaveRaises_AlsoRecord(s) ==
  /\ h[s].pc \in {"plan", "commit", "record"}
  /\ Fault
  /\ IF h[s].kind # "plans" /\ h[s].rid > 0 THEN Goto(s, "fail") ELSE Return(s)
  /\ UNCHANGED <<tables, prefs, strays, quotas, sent>>

\* An error after the planning, when the result is charged or saved.  In
\* POST /plans no handler catches it; POST /conversations rolls back.
SaveRaises(s) ==
  /\ h[s].pc \in {"plan", "commit"}
  /\ Fault
  /\ IF h[s].kind # "plans" /\ h[s].rid > 0 THEN Goto(s, "fail") ELSE Return(s)
  /\ UNCHANGED <<tables, prefs, strays, quotas, sent>>

\* POST /conversations marks its record failed, if the row is still there.
FailRecord(s) ==
  /\ h[s].pc = "fail"
  /\ IF Stored(h[s].rid) THEN Mark(h[s].rid, "failed") ELSE UNCHANGED records
  /\ Return(s)
  /\ UNCHANGED <<runs, convs, prefs, strays, quotas, sent, faults>>

\* The process stops, or the request is cancelled, in mid-handler.
Stop(s) ==
  /\ h[s].pc # "idle"
  /\ Fault
  /\ Return(s)
  /\ UNCHANGED <<tables, prefs, strays, quotas, sent>>

-----------------------------------------------------------------------------
(* Long-term preferences, and time.                                        *)

SavePreference(value) ==
  /\ prefs' = value
  /\ UNCHANGED <<tables, quotas, strays, h, sent, faults>>

DeletePreference ==
  /\ prefs # Unset
  /\ prefs' = Unset
  /\ UNCHANGED <<tables, quotas, strays, h, sent, faults>>

RecordExpires(r) ==
  /\ Valid(r)
  /\ records' = [records EXCEPT ![r] = [@ EXCEPT !.live = FALSE]]
  /\ UNCHANGED <<runs, convs, prefs, strays, quotas, h, sent, faults>>

Handle(s) ==
  \/ MarkExpired(s) \/ DropExpired(s) \/ Insert(s)
  \/ EnforceAIBudget(s) \/ Open(s)
  \/ \E used \in Usage : Planned(s, used)
  \/ PlanRaises(s)
  \/ \E outcome \in Outcomes : CommitPlan(s, outcome) \/ CommitConversation(s, outcome)
  \/ RecordConversation(s)
  \/ SaveRaises(s) \/ FailRecord(s)

Next ==
  \/ \E s \in Slots, kind \in {"plans", "conversations"}, body \in Bodies,
        key \in Headers : Begin(s, kind, body, key)
  \/ \E s \in Slots, c \in DOMAIN convs, a \in Answers :
        \E base \in {convs[c].revision, convs[c].revision + 1} :
          Continue(s, c, base, a[1], a[2])
  \/ \E s \in Slots : Handle(s) \/ Stop(s)
  \/ \E value \in MemoryValues : SavePreference(value)
  \/ DeletePreference
  \/ \E r \in DOMAIN records : RecordExpires(r)

Spec == Init /\ [][Next]_vars
-----------------------------------------------------------------------------
(* A replayed reply was computed for the very body the client sent, and by *)
(* the endpoint it was sent to, although keys are used again once their    *)
(* record has expired and the handler of the older request may still be    *)
(* running (api/ai_planner.py, lookup and final commit).                   *)
RepliesMatch == strays = {}

(* While the record of a key is valid, the key has started at most one     *)
(* planning: two requests with one key that both found no record do not    *)
(* both plan.                                                              *)
OneExecutionPerKey ==
  \A kind \in {"plans", "conversations"} :
    LET table == IF kind = "plans" THEN runs ELSE convs IN
    \A i, j \in DOMAIN table :
      i # j /\ Valid(table[i].rid) /\ Valid(table[j].rid) =>
        records[table[i].rid].key # records[table[j].rid].key

(* What a record tells a client that repeats its request: "succeeded" only *)
(* when the plan and its version are committed, "failed" only when the     *)
(* planning of this record stored no plan.                                 *)
RecordTellsOutcome ==
  \A r \in DOMAIN records : Stored(r) =>
    /\ records[r].status = "succeeded" =>
         LET reply == records[r].reply IN
         /\ reply # NoReply
         /\ IF reply.kind = "plans"
            THEN runs[reply.id].status = "need_clarification" \/ runs[reply.id].version
            ELSE convs[reply.id].first
    /\ records[r].status = "failed" =>
         /\ \A i \in DOMAIN runs : runs[i].rid = r => ~runs[i].version
         /\ \A c \in DOMAIN convs : convs[c].rid = r => ~convs[c].first

(* As long as the handlers of a conversation do not overlap, whatever the  *)
(* user said, in the body or in an accepted answer, is in its request,     *)
(* through failed and stopped plannings and never displaced by a long-term *)
(* default; and a result stands beside the request it was computed from.   *)
AnswersKept ==
  \A c \in DOMAIN convs : ~convs[c].overlap =>
    /\ \A f \in Fields : convs[c].said[f] # Unset => convs[c].request[f] = convs[c].said[f]
    /\ convs[c].state \notin {"running", "failed"} => convs[c].of = convs[c].request

(* No more plannings a day than the limit, and the token quota is passed   *)
(* by no more than what the handlers running at the same time may use      *)
(* (_enforce_ai_budget reads before, _record_ai_usage adds after).         *)
QuotaHeld ==
  /\ admitted <= DailyLimit
  /\ tokens < TokenLimit + Cardinality(Slots)

=============================================================================
