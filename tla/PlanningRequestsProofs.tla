----------------------- MODULE PlanningRequestsProofs -----------------------
(***************************************************************************)
(* Proofs about PlanningRequests for any number of handlers, headers,      *)
(* fields, values and limits.  A handler that has inserted a record is the *)
(* only one that finishes it, whoever deletes or expires the row meanwhile *)
(* and whichever request inserts the next row of the same key: what a      *)
(* record tells is what its own handler did.                               *)
(***************************************************************************)
EXTENDS PlanningRequests, FiniteSetTheorems, WellFoundedInduction, TLAPS

-----------------------------------------------------------------------------
(* Types *)

PCs == {"idle", "expire", "drop", "insert", "budget", "open", "plan", "commit", "record", "fail"}
Posts == {"plans", "conversations"}
Kinds == Posts \cup {"none", "continue"}
Keys == Headers \cup {NoKey}
AnyBody == Bodies \cup {Idle.body}
Request == [Fields -> Values \cup {Unset}]
Answer == {<<>>} \cup (Fields \X Values)
ConvStates == {"none", "running", "failed", "PLAN_READY", "NEED_CLARIFICATION", "INFEASIBLE"}

Handler ==
  [pc : PCs, kind : Kinds, key : Keys, body : AnyBody, rid : Nat, id : Nat, request : Request,
   answer : Answer, same : BOOLEAN, state : ConvStates, revision : Nat]

Reply == [kind : Kinds, id : Nat, body : AnyBody]

Record ==
  [kind : Posts, key : Keys, body : AnyBody,
   status : {"processing", "succeeded", "failed", "expired"}, reply : Reply \cup {NoReply},
   live : BOOLEAN]

Run == [status : {"running", "failed", "success", "need_clarification", "infeasible"},
        version : BOOLEAN, rid : Nat]

Conv ==
  [state : ConvStates, revision : Nat, request : Request, of : Request, first : BOOLEAN,
   rid : Nat, said : Request, overlap : BOOLEAN]

TypeInv ==
  /\ records \in Seq(Record \cup {Gone})
  /\ runs \in Seq(Run)
  /\ convs \in Seq(Conv)
  /\ prefs \in Values \cup {Unset}
  /\ plans \in Nat /\ tokens \in Nat /\ admitted \in Nat
  /\ h \in [Slots -> Handler]

\* What a handler needs to be where it is.
Ready(x) ==
  /\ x.pc # "idle" => x.kind # "none"
  /\ x.kind \in Posts => x.body \in Bodies
  /\ x.pc \in {"expire", "drop"} => x.kind \in Posts /\ x.rid > 0
  /\ x.pc = "insert" => x.kind \in Posts /\ x.rid = 0
  /\ x.pc = "budget" /\ x.kind = "plans" => x.rid = 0
  /\ x.pc \in {"record", "fail"} => x.kind = "conversations" /\ x.rid > 0
  /\ x.pc \in {"budget", "open"} /\ x.kind = "continue" => x.answer \in Fields \X Values
  /\ x.kind = "continue" => x.rid = 0

\* Its rows exist, among r records, u runs and c conversations.
Points(x, r, u, c) ==
  /\ x.rid <= r
  /\ x.kind = "plans" /\ x.pc \in {"plan", "commit"} => x.id \in 1..u
  /\ x.kind = "conversations" /\ x.pc \in {"plan", "commit", "record"} => x.id \in 1..c
  /\ x.kind = "continue" => x.id \in 1..c

Pointing == \A s \in Slots : Points(h[s], Len(records), Len(runs), Len(convs))

Shape == TypeInv /\ (\A s \in Slots : Ready(h[s])) /\ Pointing

LEMMA IdleFields ==
  /\ Idle \in Handler /\ Idle.pc = "idle" /\ Idle.kind = "none" /\ Idle.rid = 0 /\ Idle.id = 0
  /\ Idle.key = NoKey /\ Idle.request = NoRequest /\ Idle.answer = <<>> /\ Idle.same = FALSE
  /\ NoRequest \in Request
<1>1. NoRequest \in Request
  BY DEF NoRequest, Request
<1>2. <<>> \in Answer
  BY DEF Answer
<1>3. Idle.body \in AnyBody
  BY DEF AnyBody
<1> DEFINE B == CHOOSE b \in Bodies : TRUE
<1>4. Idle = [pc |-> "idle", kind |-> "none", key |-> NoKey, body |-> B,
              rid |-> 0, id |-> 0, request |-> NoRequest, answer |-> <<>>, same |-> FALSE,
              state |-> "none", revision |-> 0]
  BY DEF Idle
<1> HIDE DEF B
<1>5. Idle.body = B
  BY <1>4
<1> QED
  BY <1>1, <1>2, <1>3, <1>4, <1>5 DEF Handler, PCs, Kinds, Posts, Keys, ConvStates

-----------------------------------------------------------------------------
(* Moves of one handler *)

Others(s) == \A t \in Slots : t # s => h'[t] = h[t]

\* The request a handler serves stays with it.
SameRequest(s) ==
  /\ h'[s].kind = h[s].kind /\ h'[s].key = h[s].key /\ h'[s].body = h[s].body

LEMMA Update ==
  ASSUME h \in [Slots -> Handler], NEW s \in Slots, NEW x \in Handler, h' = [h EXCEPT ![s] = x]
  PROVE  h' \in [Slots -> Handler] /\ h'[s] = x /\ Others(s)
  BY DEF Others

LEMMA ReturnMove ==
  ASSUME TypeInv, NEW s \in Slots, Return(s)
  PROVE  h' \in [Slots -> Handler] /\ h'[s] = Idle /\ Others(s)
  BY Update, IdleFields DEF TypeInv, Return

LEMMA GotoMove ==
  ASSUME TypeInv, NEW s \in Slots, NEW p \in PCs, Goto(s, p)
  PROVE  /\ h' \in [Slots -> Handler] /\ Others(s) /\ h'[s].pc = p /\ SameRequest(s)
         /\ h'[s].rid = h[s].rid /\ h'[s].id = h[s].id /\ h'[s].request = h[s].request
         /\ h'[s].answer = h[s].answer /\ h'[s].same = h[s].same /\ h'[s].state = h[s].state
         /\ h'[s].revision = h[s].revision
<1> DEFINE x == [h[s] EXCEPT !.pc = p]
<1>1. h[s] \in Handler /\ h \in [Slots -> Handler]
  BY DEF TypeInv
<1>2. /\ x \in Handler /\ x.pc = p /\ x.kind = h[s].kind /\ x.key = h[s].key
      /\ x.body = h[s].body
      /\ x.rid = h[s].rid /\ x.id = h[s].id /\ x.request = h[s].request
      /\ x.answer = h[s].answer /\ x.same = h[s].same /\ x.state = h[s].state
      /\ x.revision = h[s].revision
  BY <1>1 DEF Handler
<1>3. h' = [h EXCEPT ![s] = x]
  BY DEF Goto
<1> HIDE DEF x
<1>4. h' \in [Slots -> Handler] /\ h'[s] = x /\ Others(s)
  BY <1>1, <1>2, <1>3, Update
<1> QED  BY <1>2, <1>4 DEF SameRequest

\* A non-empty set of numbers up to n has a largest one.
LEMMA LargestOf ==
  ASSUME NEW n \in Nat, NEW rs \in SUBSET (1..n), rs # {}
  PROVE  \E r \in rs : \A q \in rs : r >= q
<1> DEFINE D == {n - q : q \in rs}
           R == OpToRel(<, Nat)
<1>1. D \in SUBSET Nat /\ D # {}
  <2>1. \A q \in rs : n - q \in Nat
    OBVIOUS
  <2>2. PICK q \in rs : TRUE
    OBVIOUS
  <2> QED  BY <2>1, <2>2
<1>2. IsWellFoundedOn(R, Nat)
  BY NatLessThanWellFounded
<1> HIDE DEF D, R
<1>3. PICK k \in D : \A j \in D : <<j, k>> \notin R
  BY <1>1, <1>2, WFMin
<1>4. PICK r \in rs : k = n - r
  BY <1>3 DEF D
<1>5. ASSUME NEW q \in rs PROVE r >= q
  <2>1. n - q \in D /\ n - q \in Nat /\ k \in Nat
    BY <1>1 DEF D
  <2>2. ~(n - q < k)
    BY <1>3, <2>1 DEF R, OpToRel
  <2> QED  BY <1>4, <2>2
<1> QED  BY <1>5

\* The record that RecordOf finds.
LEMMA Found ==
  ASSUME TypeInv, NEW kind, NEW key
  PROVE  LET r == RecordOf(kind, key) IN
         /\ r \in Nat /\ r <= Len(records)
         /\ r # 0 => /\ r \in DOMAIN records /\ Stored(r) /\ records[r].kind = kind
                     /\ records[r].key = key
         /\ r = 0 => \A q \in DOMAIN records :
                       ~(Stored(q) /\ records[q].kind = kind /\ records[q].key = key)
<1> DEFINE rs == {r \in DOMAIN records : /\ Stored(r)
                                         /\ records[r].kind = kind
                                         /\ records[r].key = key}
<1>1. DOMAIN records = 1..Len(records) /\ Len(records) \in Nat
  BY DEF TypeInv
<1>2. CASE rs = {}
  BY <1>1, <1>2 DEF RecordOf
<1>3. CASE rs # {}
  <2>1. rs \in SUBSET (1..Len(records))
    BY <1>1
  <2> HIDE DEF rs
  <2>2. \E r \in rs : \A q \in rs : r >= q
    BY <1>1, <1>3, <2>1, LargestOf
  <2> DEFINE m == CHOOSE r \in rs : \A q \in rs : r >= q
  <2>3. m \in rs
    BY <2>2
  <2>4. RecordOf(kind, key) = m
    BY <1>3 DEF RecordOf, rs
  <2> HIDE DEF m
  <2> QED  BY <1>1, <2>3, <2>4 DEF rs
<1> QED  BY <1>2, <1>3

\* A request arrives: it is answered at once, starts anew or finds a record
\* that has expired.
LEMMA BeginMove ==
  ASSUME TypeInv, NEW s \in Slots, NEW kind \in Posts, NEW body \in Bodies, NEW key \in Headers,
         Begin(s, kind, body, key)
  PROVE  /\ h' \in [Slots -> Handler] /\ Others(s)
         /\ \/ h'[s] = Idle
            \/ /\ h'[s].kind = kind /\ h'[s].body = body /\ h'[s].key = key /\ h'[s].id = 0
               /\ \/ /\ h'[s].rid = 0
                     /\ h'[s].pc = IF kind = "plans" \/ key = NoKey THEN "budget" ELSE "insert"
                  \/ /\ h'[s].rid \in 1..Len(records)
                     /\ h'[s].pc = IF kind = "plans" THEN "expire" ELSE "drop"
<1> DEFINE r == IF key = NoKey THEN 0 ELSE RecordOf(kind, key)
           new == [Idle EXCEPT !.kind = kind, !.body = body, !.key = key]
           first == IF kind = "plans" \/ key = NoKey THEN "budget" ELSE "insert"
           x == [new EXCEPT !.pc = first]
           y == [new EXCEPT !.pc = IF kind = "plans" THEN "expire" ELSE "drop", !.rid = r]
<1>1. r \in Nat /\ r <= Len(records) /\ Len(records) \in Nat
  BY Found DEF TypeInv
<1>2. h' = [h EXCEPT ![s] = CASE r = 0 -> x
                              [] r # 0 /\ ~records[r].live -> y
                              [] r # 0 /\ records[r].live -> Idle]
  BY DEF Begin
<1> HIDE DEF r
<1>3. new \in Handler /\ new.kind = kind /\ new.body = body /\ new.key = key /\ new.id = 0
      /\ new.rid = 0
  BY IdleFields DEF Handler, Keys, Kinds, AnyBody
<1> HIDE DEF new
<1>4. /\ x \in Handler /\ x.kind = kind /\ x.body = body /\ x.key = key /\ x.id = 0
      /\ x.rid = 0 /\ x.pc = first
  BY <1>3 DEF Handler, PCs
<1>5. /\ y \in Handler /\ y.kind = kind /\ y.body = body /\ y.key = key /\ y.id = 0
      /\ y.rid = r /\ y.pc = IF kind = "plans" THEN "expire" ELSE "drop"
  BY <1>1, <1>3 DEF Handler, PCs
<1> HIDE DEF x, y
<1>6. h \in [Slots -> Handler]
  BY DEF TypeInv
<1>7. CASE r = 0
  <2>1. h' = [h EXCEPT ![s] = x]
    BY <1>2, <1>7
  <2> QED  BY <1>4, <1>6, <2>1, Update
<1>8. CASE r # 0 /\ ~records[r].live
  <2>1. h' = [h EXCEPT ![s] = y]
    BY <1>2, <1>8
  <2>2. r \in 1..Len(records)
    BY <1>1, <1>8
  <2> QED  BY <1>5, <1>6, <2>1, <2>2, Update
<1>9. CASE r # 0 /\ records[r].live
  <2>1. h' = [h EXCEPT ![s] = Idle]
    BY <1>2, <1>9
  <2> QED  BY <1>6, <2>1, Update, IdleFields
<1> QED  BY <1>7, <1>8, <1>9

LEMMA DropMove ==
  ASSUME TypeInv, NEW s \in Slots, DropExpired(s)
  PROVE  /\ h' \in [Slots -> Handler] /\ Others(s) /\ SameRequest(s)
         /\ h'[s].rid = 0 /\ h'[s].id = h[s].id
         /\ h'[s].pc = IF h[s].kind = "plans" THEN "budget" ELSE "insert"
<1> DEFINE p == IF h[s].kind = "plans" THEN "budget" ELSE "insert"
           x == [h[s] EXCEPT !.rid = 0, !.pc = p]
<1>1. h[s] \in Handler /\ h \in [Slots -> Handler] /\ p \in PCs
  BY DEF TypeInv, PCs
<1>2. h' = [h EXCEPT ![s] = x]
  BY DEF DropExpired
<1> HIDE DEF p
<1>3. /\ x \in Handler /\ x.kind = h[s].kind /\ x.key = h[s].key /\ x.body = h[s].body
      /\ x.rid = 0 /\ x.id = h[s].id /\ x.pc = p
  BY <1>1 DEF Handler
<1> HIDE DEF x
<1>4. h' \in [Slots -> Handler] /\ h'[s] = x /\ Others(s)
  BY <1>1, <1>2, <1>3, Update
<1> QED  BY <1>3, <1>4 DEF SameRequest, p

LEMMA InsertMove ==
  ASSUME TypeInv, NEW s \in Slots, Insert(s), ~Refused(s)
  PROVE  /\ h' \in [Slots -> Handler] /\ Others(s) /\ SameRequest(s)
         /\ h'[s].rid = Len(records) + 1 /\ h'[s].id = h[s].id
         /\ h'[s].pc = IF h[s].kind = "plans" THEN "open" ELSE "budget"
<1> DEFINE p == IF h[s].kind = "plans" THEN "open" ELSE "budget"
           x == [h[s] EXCEPT !.rid = Len(records) + 1, !.pc = p]
<1>1. h[s] \in Handler /\ h \in [Slots -> Handler] /\ p \in PCs /\ Len(records) + 1 \in Nat
  BY DEF TypeInv, PCs
<1>2. h' = [h EXCEPT ![s] = x]
  BY DEF Insert
<1> HIDE DEF p
<1>3. /\ x \in Handler /\ x.kind = h[s].kind /\ x.key = h[s].key /\ x.body = h[s].body
      /\ x.rid = Len(records) + 1 /\ x.id = h[s].id /\ x.pc = p
  BY <1>1 DEF Handler
<1> HIDE DEF x
<1>4. h' \in [Slots -> Handler] /\ h'[s] = x /\ Others(s)
  BY <1>1, <1>2, <1>3, Update
<1> QED  BY <1>3, <1>4 DEF SameRequest, p

\* A PATCH that is accepted.
LEMMA ContinueMove ==
  ASSUME TypeInv, NEW s \in Slots, NEW c \in DOMAIN convs, NEW field \in Fields,
         NEW value \in Values, Continue(s, c, convs[c].revision, field, value)
  PROVE  /\ h' \in [Slots -> Handler] /\ Others(s)
         /\ h'[s].pc = "budget" /\ h'[s].kind = "continue" /\ h'[s].id = c /\ h'[s].rid = 0
         /\ h'[s].answer = <<field, value>> /\ h'[s].state = convs[c].state
         /\ h'[s].request = ApplyAnswer(convs[c].request, field, value)
         /\ h'[s].same = (convs[c].request[field] = value)
<1> DEFINE request == ApplyAnswer(convs[c].request, field, value)
           same == convs[c].request[field] = value
           answer == <<field, value>>
           x == [Idle EXCEPT !.pc = "budget", !.kind = "continue", !.id = c,
                             !.answer = answer, !.request = request, !.same = same,
                             !.state = convs[c].state, !.revision = convs[c].revision]
<1>1. h \in [Slots -> Handler] /\ convs[c] \in Conv /\ c \in Nat
  BY DEF TypeInv
<1>2. /\ convs[c].request \in Request /\ convs[c].state \in ConvStates
      /\ convs[c].revision \in Nat
  BY <1>1 DEF Conv
<1>3. request \in Request /\ answer \in Answer /\ same \in BOOLEAN
  BY <1>2 DEF ApplyAnswer, Request, Answer
<1>4. h' = [h EXCEPT ![s] = x]
  BY DEF Continue
<1> HIDE DEF request, answer, same
<1>5. /\ x \in Handler /\ x.pc = "budget" /\ x.kind = "continue" /\ x.id = c /\ x.rid = 0
      /\ x.answer = answer /\ x.state = convs[c].state /\ x.request = request /\ x.same = same
  BY <1>1, <1>2, <1>3, IdleFields DEF Handler, PCs, Kinds
<1> HIDE DEF x
<1>6. h' \in [Slots -> Handler] /\ h'[s] = x /\ Others(s)
  BY <1>1, <1>4, <1>5, Update
<1> QED  BY <1>5, <1>6, Zenon DEF request, answer, same

\* apply_long_term_preferences displaces nothing the body says.
LEMMA AppliedKeeps ==
  ASSUME NEW body \in Bodies, NEW stored \in Values \cup {Unset}
  PROVE  /\ Applied(body, stored) \in Request /\ body.said \in Request
         /\ \A f \in Fields : body.said[f] # Unset => Applied(body, stored)[f] = body.said[f]
<1>1. body \in [said : [Fields -> Values \cup {Unset}], memory : BOOLEAN, cue : BOOLEAN]
      /\ Preference \in Fields
  BY RequestsAssumption
<1>2. body.said \in Request
  BY <1>1 DEF Request
<1> QED  BY <1>1, <1>2 DEF Applied, Request

LEMMA OpenPlanMove ==
  ASSUME TypeInv, NEW s \in Slots, Open(s), h[s].kind = "plans"
  PROVE  /\ h' \in [Slots -> Handler] /\ Others(s) /\ SameRequest(s)
         /\ h'[s].pc = "plan" /\ h'[s].id = Len(runs) + 1 /\ h'[s].rid = h[s].rid
         /\ runs' = Append(runs, [status |-> "running", version |-> FALSE, rid |-> h[s].rid])
         /\ UNCHANGED convs
<1> DEFINE x == [h[s] EXCEPT !.pc = "plan", !.id = Len(runs) + 1]
<1>1. h[s] \in Handler /\ h \in [Slots -> Handler] /\ Len(runs) + 1 \in Nat
  BY DEF TypeInv
<1>2. /\ h' = [h EXCEPT ![s] = x] /\ UNCHANGED convs
      /\ runs' = Append(runs, [status |-> "running", version |-> FALSE, rid |-> h[s].rid])
  BY DEF Open
<1>3. /\ x \in Handler /\ x.kind = h[s].kind /\ x.key = h[s].key /\ x.body = h[s].body
      /\ x.pc = "plan" /\ x.id = Len(runs) + 1 /\ x.rid = h[s].rid
  BY <1>1 DEF Handler, PCs
<1> HIDE DEF x
<1>4. h' \in [Slots -> Handler] /\ h'[s] = x /\ Others(s)
  BY <1>1, <1>2, <1>3, Update
<1> QED  BY <1>2, <1>3, <1>4 DEF SameRequest

\* The conversation of a POST as it is first committed.
NewConv(s) ==
  [state |-> "running", revision |-> 1, request |-> Applied(h[s].body, prefs),
   of |-> NoRequest, first |-> FALSE, rid |-> h[s].rid, said |-> h[s].body.said,
   overlap |-> FALSE]

LEMMA OpenConvMove ==
  ASSUME TypeInv, NEW s \in Slots, Open(s), h[s].kind = "conversations", h[s].body \in Bodies
  PROVE  /\ h' \in [Slots -> Handler] /\ Others(s) /\ SameRequest(s)
         /\ h'[s].pc = "plan" /\ h'[s].id = Len(convs) + 1 /\ h'[s].rid = h[s].rid
         /\ h'[s].request = Applied(h[s].body, prefs)
         /\ convs' = Append(convs, NewConv(s)) /\ NewConv(s) \in Conv
         /\ UNCHANGED runs
<1> DEFINE request == Applied(h[s].body, prefs)
           x == [h[s] EXCEPT !.pc = "plan", !.id = Len(convs) + 1, !.state = "running",
                             !.revision = 1, !.request = request]
<1>1. h[s] \in Handler /\ h \in [Slots -> Handler] /\ Len(convs) + 1 \in Nat /\ h[s].rid \in Nat
  BY DEF TypeInv, Handler
<1>2. request \in Request /\ h[s].body.said \in Request /\ NoRequest \in Request
  BY AppliedKeeps, IdleFields DEF TypeInv
<1>3. h' = [h EXCEPT ![s] = x] /\ convs' = Append(convs, NewConv(s)) /\ UNCHANGED runs
  BY DEF Open, NewConv
<1>4. NewConv(s) \in Conv
  BY <1>1, <1>2 DEF NewConv, Conv, ConvStates
<1> HIDE DEF request
<1>5. /\ x \in Handler /\ x.kind = h[s].kind /\ x.key = h[s].key /\ x.body = h[s].body
      /\ x.pc = "plan" /\ x.id = Len(convs) + 1 /\ x.rid = h[s].rid /\ x.request = request
  BY <1>1, <1>2 DEF Handler, PCs, ConvStates
<1> HIDE DEF x
<1>6. h' \in [Slots -> Handler] /\ h'[s] = x /\ Others(s)
  BY <1>1, <1>3, <1>5, Update
<1> QED  BY <1>3, <1>4, <1>5, <1>6 DEF SameRequest, request

LEMMA OpenContinueMove ==
  ASSUME TypeInv, NEW s \in Slots, Open(s), h[s].kind = "continue"
  PROVE  /\ h' \in [Slots -> Handler] /\ Others(s) /\ SameRequest(s)
         /\ h'[s].pc = "plan" /\ h'[s].id = h[s].id /\ h'[s].rid = h[s].rid
         /\ h'[s].request = h[s].request
         /\ convs' = [convs EXCEPT ![h[s].id] = Continued(s, convs[h[s].id])]
         /\ UNCHANGED runs
<1> DEFINE x == [h[s] EXCEPT !.pc = "plan", !.state = "running", !.answer = <<>>,
                             !.same = FALSE]
<1>1. h[s] \in Handler /\ h \in [Slots -> Handler] /\ <<>> \in Answer
  BY DEF TypeInv, Answer
<1>2. /\ h' = [h EXCEPT ![s] = x] /\ UNCHANGED runs
      /\ convs' = [convs EXCEPT ![h[s].id] = Continued(s, convs[h[s].id])]
  BY DEF Open
<1>3. /\ x \in Handler /\ x.kind = h[s].kind /\ x.key = h[s].key /\ x.body = h[s].body
      /\ x.pc = "plan" /\ x.id = h[s].id /\ x.rid = h[s].rid /\ x.request = h[s].request
  BY <1>1 DEF Handler, PCs, ConvStates
<1> HIDE DEF x
<1>4. h' \in [Slots -> Handler] /\ h'[s] = x /\ Others(s)
  BY <1>1, <1>2, <1>3, Update
<1> QED  BY <1>2, <1>3, <1>4 DEF SameRequest

\* What the conversation is after that.
LEMMA ContinuedFields ==
  ASSUME NEW s \in Slots, h[s] \in Handler, h[s].answer \in Fields \X Values, NEW conv \in Conv
  PROVE  LET x == Continued(s, conv) IN
         /\ x \in Conv /\ x.of = conv.of /\ x.first = conv.first /\ x.rid = conv.rid
         /\ x.overlap = conv.overlap
         /\ x.state = IF h[s].state = "running" THEN conv.state ELSE "running"
         /\ x.request = IF h[s].same THEN conv.request ELSE h[s].request
         /\ x.said = [conv.said EXCEPT ![h[s].answer[1]] = h[s].answer[2]]
<1> DEFINE state == IF h[s].state = "running" THEN conv.state ELSE "running"
           request == IF h[s].same THEN conv.request ELSE h[s].request
           said == [conv.said EXCEPT ![h[s].answer[1]] = h[s].answer[2]]
           x == [conv EXCEPT !.state = state, !.request = request, !.said = said]
<1>1. state \in ConvStates
  BY DEF Conv, Handler, ConvStates
<1>2. request \in Request
  BY DEF Conv, Handler
<1>3. said \in Request
  <2>1. conv.said \in Request /\ h[s].answer[1] \in Fields /\ h[s].answer[2] \in Values
    BY DEF Conv
  <2> QED  BY <2>1 DEF Request
<1>4. Continued(s, conv) = x
  BY DEF Continued
<1> HIDE DEF state, request, said
<1>5. /\ x \in Conv /\ x.of = conv.of /\ x.first = conv.first /\ x.rid = conv.rid
      /\ x.overlap = conv.overlap /\ x.state = state /\ x.request = request /\ x.said = said
  BY <1>1, <1>2, <1>3 DEF Conv
<1> HIDE DEF x
<1> QED  BY <1>4, <1>5 DEF state, request, said

-----------------------------------------------------------------------------
(* Writes of the records *)

Statuses == {"processing", "succeeded", "failed", "expired"}

LEMMA StoredRecord ==
  ASSUME TypeInv, NEW r \in Nat, r <= Len(records), Stored(r)
  PROVE  r \in DOMAIN records /\ records[r] \in Record
<1> DEFINE R == Record \cup {Gone}
<1>1. records \in Seq(R)
  BY DEF TypeInv
<1> HIDE DEF R
<1>2. r \in DOMAIN records /\ records[r] \in R
  BY <1>1 DEF Stored
<1> QED  BY <1>2 DEF R, Stored

LEMMA NeverGone ==
  ASSUME NEW x \in Record
  PROVE  x # Gone
<1>1. x.status # "deleted"
  BY DEF Record
<1>2. Gone.status = "deleted"
  BY DEF Gone
<1> QED  BY <1>1, <1>2

\* One row r is written; x is what it holds now.
Written(r, x) ==
  /\ records' \in Seq(Record \cup {Gone}) /\ Len(records') = Len(records)
  /\ DOMAIN records' = DOMAIN records /\ records'[r] = x
  /\ \A q \in DOMAIN records : q # r => records'[q] = records[q]

LEMMA WriteRecord ==
  ASSUME TypeInv, NEW r \in DOMAIN records, NEW x \in Record \cup {Gone},
         records' = [records EXCEPT ![r] = x]
  PROVE  Written(r, x)
<1> DEFINE R == Record \cup {Gone}
<1>1. records \in Seq(R) /\ x \in R
  BY DEF TypeInv
<1> HIDE DEF R
<1>2. /\ records' \in Seq(R) /\ Len(records') = Len(records)
      /\ DOMAIN records' = DOMAIN records /\ records'[r] = x
      /\ \A q \in DOMAIN records : q # r => records'[q] = records[q]
  BY <1>1
<1> QED  BY <1>2 DEF Written, R

\* The row r is still there and belongs to the same request.
Rewritten(r) ==
  \E x \in Record :
    /\ Written(r, x) /\ x.kind = records[r].kind /\ x.key = records[r].key
    /\ x.body = records[r].body

LEMMA MarkWrite ==
  ASSUME TypeInv, NEW r \in Nat, r <= Len(records), Stored(r), NEW status \in Statuses,
         Mark(r, status)
  PROVE  \E x \in Record :
           /\ Written(r, x) /\ x.kind = records[r].kind /\ x.key = records[r].key
           /\ x.body = records[r].body /\ x.reply = records[r].reply /\ x.live = records[r].live
           /\ x.status = status
<1> DEFINE x == [records[r] EXCEPT !.status = status]
<1>1. r \in DOMAIN records /\ records[r] \in Record
  BY StoredRecord
<1>2. /\ x \in Record /\ x.kind = records[r].kind /\ x.key = records[r].key
      /\ x.body = records[r].body /\ x.reply = records[r].reply /\ x.live = records[r].live
      /\ x.status = status
  BY <1>1 DEF Record, Statuses
<1>3. records' = [records EXCEPT ![r] = x]
  BY DEF Mark
<1> HIDE DEF x
<1>4. Written(r, x)
  BY <1>1, <1>2, <1>3, WriteRecord
<1> QED  BY <1>2, <1>4

LEMMA SucceedWrite ==
  ASSUME TypeInv, NEW s \in Slots, NEW r \in Nat, r <= Len(records), Stored(r), Succeed(r, s)
  PROVE  \E x \in Record :
           /\ Written(r, x) /\ x.kind = records[r].kind /\ x.key = records[r].key
           /\ x.body = records[r].body /\ x.live = records[r].live
           /\ x.status = "succeeded" /\ x.reply = ReplyOf(s)
<1> DEFINE x == [records[r] EXCEPT !.status = "succeeded", !.reply = ReplyOf(s)]
<1>1. r \in DOMAIN records /\ records[r] \in Record
  BY StoredRecord
<1>2. ReplyOf(s) \in Reply
  BY DEF ReplyOf, Reply, TypeInv, Handler
<1>3. /\ x \in Record /\ x.kind = records[r].kind /\ x.key = records[r].key
      /\ x.body = records[r].body /\ x.live = records[r].live
      /\ x.status = "succeeded" /\ x.reply = ReplyOf(s)
  BY <1>1, <1>2 DEF Record
<1>4. records' = [records EXCEPT ![r] = x]
  BY DEF Succeed
<1> HIDE DEF x
<1>5. Written(r, x)
  BY <1>1, <1>3, <1>4, WriteRecord
<1> QED  BY <1>3, <1>5

\* The record of a request that was just inserted.
NewRecord(s) ==
  [kind |-> h[s].kind, key |-> h[s].key, body |-> h[s].body, status |-> "processing",
   reply |-> NoReply, live |-> TRUE]

LEMMA InsertWrite ==
  ASSUME TypeInv, NEW s \in Slots, h[s].kind \in Posts, Insert(s), ~Refused(s)
  PROVE  /\ NewRecord(s) \in Record
         /\ records' \in Seq(Record \cup {Gone}) /\ Len(records') = Len(records) + 1
         /\ records'[Len(records) + 1] = NewRecord(s)
         /\ \A q \in DOMAIN records : q \in DOMAIN records' /\ records'[q] = records[q]
<1> DEFINE R == Record \cup {Gone}
<1>1. records \in Seq(R)
  BY DEF TypeInv
<1>2. h[s] \in Handler
  BY DEF TypeInv
<1>3. NewRecord(s) \in Record
  BY <1>2 DEF NewRecord, Record, Handler
<1>4. records' = Append(records, NewRecord(s))
  BY DEF Insert, NewRecord
<1> DEFINE n == NewRecord(s)
<1>5. n \in R
  BY <1>3
<1> HIDE DEF R, n
<1>6. /\ records' \in Seq(R) /\ Len(records') = Len(records) + 1
      /\ records'[Len(records) + 1] = n
      /\ \A q \in DOMAIN records : q \in DOMAIN records' /\ records'[q] = records[q]
  BY <1>1, <1>4, <1>5 DEF n
<1> QED  BY <1>3, <1>6 DEF R, n

LEMMA ExpireWrite ==
  ASSUME TypeInv, NEW r \in DOMAIN records, RecordExpires(r)
  PROVE  \E x \in Record :
           /\ Written(r, x) /\ x.kind = records[r].kind /\ x.key = records[r].key
           /\ x.body = records[r].body /\ x.reply = records[r].reply
           /\ x.status = records[r].status /\ ~x.live
<1> DEFINE x == [records[r] EXCEPT !.live = FALSE]
<1>1. r \in Nat /\ r <= Len(records) /\ Stored(r)
  BY DEF TypeInv, RecordExpires, Valid
<1>2. records[r] \in Record
  BY <1>1, StoredRecord
<1>3. /\ x \in Record /\ x.kind = records[r].kind /\ x.key = records[r].key
      /\ x.body = records[r].body /\ x.reply = records[r].reply
      /\ x.status = records[r].status /\ ~x.live
  BY <1>2 DEF Record
<1>4. records' = [records EXCEPT ![r] = x]
  BY DEF RecordExpires
<1> HIDE DEF x
<1>5. Written(r, x)
  BY <1>2, <1>3, <1>4, WriteRecord
<1> QED  BY <1>3, <1>5

-----------------------------------------------------------------------------
(* Writes of the runs and of the conversations *)

RunWritten(i, x) ==
  /\ runs' \in Seq(Run) /\ Len(runs') = Len(runs) /\ DOMAIN runs' = DOMAIN runs /\ runs'[i] = x
  /\ \A j \in DOMAIN runs : j # i => runs'[j] = runs[j]

ConvWritten(c, x) ==
  /\ convs' \in Seq(Conv) /\ Len(convs') = Len(convs) /\ DOMAIN convs' = DOMAIN convs
  /\ convs'[c] = x /\ \A d \in DOMAIN convs : d # c => convs'[d] = convs[d]

LEMMA WriteRun ==
  ASSUME TypeInv, NEW i \in 1..Len(runs), NEW x \in Run, runs' = [runs EXCEPT ![i] = x]
  PROVE  RunWritten(i, x)
<1>1. runs \in Seq(Run)
  BY DEF TypeInv
<1> QED  BY <1>1 DEF RunWritten

LEMMA WriteConv ==
  ASSUME TypeInv, NEW c \in 1..Len(convs), NEW x \in Conv, convs' = [convs EXCEPT ![c] = x]
  PROVE  ConvWritten(c, x)
<1>1. convs \in Seq(Conv)
  BY DEF TypeInv
<1> QED  BY <1>1 DEF ConvWritten

LEMMA AppendRun ==
  ASSUME TypeInv, NEW x \in Run, runs' = Append(runs, x)
  PROVE  /\ runs' \in Seq(Run) /\ Len(runs') = Len(runs) + 1 /\ runs'[Len(runs) + 1] = x
         /\ \A i \in DOMAIN runs' : i = Len(runs) + 1 \/ (i \in DOMAIN runs /\ runs'[i] = runs[i])
         /\ \A i \in DOMAIN runs : i \in DOMAIN runs' /\ runs'[i] = runs[i]
<1>1. runs \in Seq(Run)
  BY DEF TypeInv
<1> QED  BY <1>1

LEMMA AppendConv ==
  ASSUME TypeInv, NEW x \in Conv, convs' = Append(convs, x)
  PROVE  /\ convs' \in Seq(Conv) /\ Len(convs') = Len(convs) + 1 /\ convs'[Len(convs) + 1] = x
         /\ \A c \in DOMAIN convs' :
              c = Len(convs) + 1 \/ (c \in DOMAIN convs /\ convs'[c] = convs[c])
         /\ \A c \in DOMAIN convs : c \in DOMAIN convs' /\ convs'[c] = convs[c]
<1>1. convs \in Seq(Conv)
  BY DEF TypeInv
<1> QED  BY <1>1

\* The result of a planning in its run.
LEMMA RunResult ==
  ASSUME TypeInv, NEW i \in 1..Len(runs), NEW outcome \in Outcomes,
         runs' = [runs EXCEPT ![i] =
           [@ EXCEPT !.status = outcome, !.version = outcome # "need_clarification"]]
  PROVE  \E x \in Run : /\ RunWritten(i, x) /\ x.rid = runs[i].rid /\ x.status = outcome
                        /\ x.version = (outcome # "need_clarification")
<1> DEFINE v == outcome # "need_clarification"
           x == [runs[i] EXCEPT !.status = outcome, !.version = v]
<1>1. runs[i] \in Run /\ v \in BOOLEAN
  BY DEF TypeInv
<1>2. runs' = [runs EXCEPT ![i] = x]
  OBVIOUS
<1>3. outcome \in {"success", "need_clarification", "infeasible"}
  BY RequestsAssumption
<1> HIDE DEF v
<1>4. x \in Run /\ x.rid = runs[i].rid /\ x.status = outcome /\ x.version = v
  BY <1>1, <1>3 DEF Run
<1> HIDE DEF x
<1>5. RunWritten(i, x)
  BY <1>2, <1>4, WriteRun
<1> QED  BY <1>4, <1>5 DEF v

LEMMA RunFails ==
  ASSUME TypeInv, NEW i \in 1..Len(runs),
         runs' = [runs EXCEPT ![i] = [@ EXCEPT !.status = "failed"]]
  PROVE  \E x \in Run : /\ RunWritten(i, x) /\ x.rid = runs[i].rid /\ x.status = "failed"
                        /\ x.version = runs[i].version
<1> DEFINE x == [runs[i] EXCEPT !.status = "failed"]
<1>1. runs[i] \in Run
  BY DEF TypeInv
<1>2. runs' = [runs EXCEPT ![i] = x]
  OBVIOUS
<1>3. x \in Run /\ x.rid = runs[i].rid /\ x.status = "failed" /\ x.version = runs[i].version
  BY <1>1 DEF Run
<1> HIDE DEF x
<1>4. RunWritten(i, x)
  BY <1>2, <1>3, WriteRun
<1> QED  BY <1>3, <1>4

LEMMA ConvFails ==
  ASSUME TypeInv, NEW c \in 1..Len(convs),
         convs' = [convs EXCEPT ![c] = [@ EXCEPT !.state = "failed"]]
  PROVE  \E x \in Conv :
           /\ ConvWritten(c, x) /\ x.state = "failed" /\ x.rid = convs[c].rid
           /\ x.first = convs[c].first /\ x.of = convs[c].of /\ x.said = convs[c].said
           /\ x.request = convs[c].request /\ x.overlap = convs[c].overlap
<1> DEFINE x == [convs[c] EXCEPT !.state = "failed"]
<1>1. convs[c] \in Conv
  BY DEF TypeInv
<1>2. convs' = [convs EXCEPT ![c] = x]
  OBVIOUS
<1>3. /\ x \in Conv /\ x.state = "failed" /\ x.rid = convs[c].rid
      /\ x.first = convs[c].first /\ x.of = convs[c].of /\ x.said = convs[c].said
      /\ x.request = convs[c].request /\ x.overlap = convs[c].overlap
  BY <1>1 DEF Conv, ConvStates
<1> HIDE DEF x
<1>4. ConvWritten(c, x)
  BY <1>2, <1>3, WriteConv
<1> QED  BY <1>3, <1>4

LEMMA ConvResult ==
  ASSUME TypeInv, NEW s \in Slots, NEW c \in 1..Len(convs), NEW outcome \in Outcomes,
         convs' = [convs EXCEPT ![c] = Resulted(s, convs[c], outcome)]
  PROVE  \E x \in Conv :
           /\ ConvWritten(c, x) /\ x.state = StateOf(outcome) /\ x.rid = convs[c].rid
           /\ x.first = (convs[c].first \/ h[s].kind = "conversations")
           /\ x.of = h[s].request /\ x.said = convs[c].said
           /\ x.request = convs[c].request /\ x.overlap = convs[c].overlap
<1> DEFINE conv == convs[c]
           first == conv.first \/ h[s].kind = "conversations"
           revision == IF h[s].kind = "continue" THEN h[s].revision + 1 ELSE conv.revision
           x == [conv EXCEPT !.state = StateOf(outcome), !.of = h[s].request,
                             !.revision = revision, !.first = first]
<1>1. conv \in Conv /\ h[s] \in Handler
  BY DEF TypeInv
<1>2. first \in BOOLEAN
  OBVIOUS
<1>3. revision \in Nat /\ h[s].request \in Request
  BY <1>1 DEF Conv, Handler
<1>4. StateOf(outcome) \in ConvStates
  BY RequestsAssumption DEF StateOf, ConvStates
<1>5. convs' = [convs EXCEPT ![c] = x]
  BY DEF Resulted
<1> HIDE DEF first, revision, conv
<1>6. /\ x \in Conv /\ x.state = StateOf(outcome) /\ x.rid = conv.rid
      /\ x.first = first /\ x.of = h[s].request /\ x.said = conv.said
      /\ x.request = conv.request /\ x.overlap = conv.overlap
  BY <1>1, <1>2, <1>3, <1>4 DEF Conv
<1> HIDE DEF x
<1>7. ConvWritten(c, x)
  BY <1>5, <1>6, WriteConv
<1> QED  BY <1>6, <1>7 DEF conv, first

\* An answer that overlaps another handler's is noted.
LEMMA ConvOverlaps ==
  ASSUME TypeInv, NEW c \in 1..Len(convs),
         convs' = [convs EXCEPT ![c] = [@ EXCEPT !.overlap = TRUE]]
  PROVE  \E x \in Conv :
           /\ ConvWritten(c, x) /\ x.overlap /\ x.rid = convs[c].rid
           /\ x.first = convs[c].first
<1> DEFINE x == [convs[c] EXCEPT !.overlap = TRUE]
<1>1. convs[c] \in Conv
  BY DEF TypeInv
<1>2. convs' = [convs EXCEPT ![c] = x]
  OBVIOUS
<1>3. x \in Conv /\ x.overlap /\ x.rid = convs[c].rid /\ x.first = convs[c].first
  BY <1>1 DEF Conv
<1> HIDE DEF x
<1>4. ConvWritten(c, x)
  BY <1>2, <1>3, WriteConv
<1> QED  BY <1>3, <1>4

-----------------------------------------------------------------------------
(* The shape of the state is kept *)

TypedTables ==
  /\ records \in Seq(Record \cup {Gone}) /\ runs \in Seq(Run) /\ convs \in Seq(Conv)
  /\ prefs \in Values \cup {Unset}
  /\ plans \in Nat /\ tokens \in Nat /\ admitted \in Nat

LEMMA ShapeMove ==
  ASSUME Shape, NEW s \in Slots, TypedTables', h' \in [Slots -> Handler], Others(s),
         Len(records) <= Len(records'), Len(runs) <= Len(runs'), Len(convs) <= Len(convs'),
         Ready(h'[s]), Points(h'[s], Len(records'), Len(runs'), Len(convs'))
  PROVE  Shape'
<1>1. TypeInv'
  BY DEF TypedTables, TypeInv
<1>2. \A t \in Slots : Ready(h'[t])
  BY DEF Shape, Others
<1>3. /\ Len(records) \in Nat /\ Len(runs) \in Nat /\ Len(convs) \in Nat
      /\ Len(records') \in Nat /\ Len(runs') \in Nat /\ Len(convs') \in Nat
  BY DEF Shape, TypeInv, TypedTables
<1>4. ASSUME NEW t \in Slots, t # s
      PROVE  Points(h'[t], Len(records'), Len(runs'), Len(convs'))
  <2>1. h'[t] = h[t] /\ Points(h[t], Len(records), Len(runs), Len(convs))
    BY <1>4 DEF Shape, Pointing, Others
  <2>2. h[t].rid \in Nat
    BY DEF Shape, TypeInv, Handler
  <2> QED  BY <1>3, <2>1, <2>2 DEF Points
<1>5. Pointing'
  BY <1>4 DEF Pointing
<1> QED  BY <1>1, <1>2, <1>5 DEF Shape

LEMMA SlotFacts ==
  ASSUME Shape, NEW s \in Slots
  PROVE  /\ h[s] \in Handler /\ h[s].rid \in Nat /\ h[s].id \in Nat /\ h[s].kind \in Kinds
         /\ Ready(h[s]) /\ h[s].rid <= Len(records)
         /\ Points(h[s], Len(records), Len(runs), Len(convs))
         /\ Len(records) \in Nat /\ Len(runs) \in Nat /\ Len(convs) \in Nat
  BY DEF Shape, TypeInv, Handler, Pointing, Points

LEMMA TypedNow ==
  ASSUME Shape
  PROVE  TypedTables /\ TypeInv
  BY DEF Shape, TypeInv, TypedTables

\* A handler that ends needs nothing.
LEMMA ShapeReturn ==
  ASSUME Shape, NEW s \in Slots, Return(s), TypedTables',
         Len(records) <= Len(records'), Len(runs) <= Len(runs'), Len(convs) <= Len(convs')
  PROVE  Shape'
<1>1. h' \in [Slots -> Handler] /\ h'[s] = Idle /\ Others(s)
  BY ReturnMove DEF Shape
<1>2. Len(records') \in Nat
  BY DEF TypedTables
<1>3. Ready(Idle) /\ Points(Idle, Len(records'), Len(runs'), Len(convs'))
  BY <1>2, IdleFields DEF Ready, Points, Posts
<1> QED  BY <1>1, <1>3, ShapeMove

\* A handler that goes on to where it has what it needs.
LEMMA ShapeGoto ==
  ASSUME Shape, NEW s \in Slots, NEW p \in PCs, Goto(s, p), TypedTables',
         Len(records) <= Len(records'), Len(runs) <= Len(runs'), Len(convs) <= Len(convs'),
         h[s].pc # "idle",
         \/ p = "drop" /\ h[s].pc = "expire"
         \/ p = "insert" /\ h[s].kind = "plans" /\ h[s].pc = "budget"
         \/ p = "open" /\ h[s].pc = "budget"
         \/ p = "commit" /\ h[s].pc = "plan"
         \/ p \in {"record", "fail"} /\ h[s].kind = "conversations" /\ h[s].rid > 0
            /\ (p = "record" => h[s].pc = "commit")
  PROVE  Shape'
<1>1. /\ h' \in [Slots -> Handler] /\ Others(s) /\ h'[s].pc = p /\ SameRequest(s)
      /\ h'[s].rid = h[s].rid /\ h'[s].id = h[s].id /\ h'[s].answer = h[s].answer
  BY GotoMove DEF Shape
<1>2. /\ Ready(h[s]) /\ Points(h[s], Len(records), Len(runs), Len(convs))
      /\ h[s].rid \in Nat /\ h[s].id \in Nat /\ h[s].kind \in Kinds
      /\ Len(records) \in Nat /\ Len(runs) \in Nat /\ Len(convs) \in Nat
  BY SlotFacts
<1>3. Len(records') \in Nat /\ Len(runs') \in Nat /\ Len(convs') \in Nat
  BY DEF TypedTables
<1>4. Ready(h'[s])
  BY <1>1, <1>2 DEF Ready, SameRequest, Posts, Kinds
<1>5. Points(h'[s], Len(records'), Len(runs'), Len(convs'))
  BY <1>1, <1>2, <1>3 DEF Points, SameRequest
<1> QED  BY <1>1, <1>4, <1>5, ShapeMove

LEMMA ShapeInit == Init => Shape
<1> SUFFICES ASSUME Init PROVE Shape
  OBVIOUS
<1>1. records = <<>> /\ runs = <<>> /\ convs = <<>> /\ prefs = Unset
      /\ h = [s \in Slots |-> Idle]
  BY DEF Init
<1>2. plans \in Nat /\ tokens \in Nat /\ admitted \in Nat
  BY RequestsAssumption DEF Init
<1>3. <<>> \in Seq(Record \cup {Gone}) /\ <<>> \in Seq(Run) /\ <<>> \in Seq(Conv)
  OBVIOUS
<1>4. TypeInv
  BY <1>1, <1>2, <1>3, IdleFields DEF TypeInv
<1>5. \A s \in Slots : h[s] = Idle
  BY <1>1
<1>6. Ready(Idle) /\ Points(Idle, Len(records), Len(runs), Len(convs))
  BY <1>1, IdleFields DEF Ready, Points, Posts
<1> QED  BY <1>4, <1>5, <1>6 DEF Shape, Pointing

LEMMA ShapeBegin ==
  ASSUME Shape, NEW s \in Slots, NEW kind \in Posts, NEW body \in Bodies, NEW key \in Headers,
         Begin(s, kind, body, key)
  PROVE  Shape'
<1>1. UNCHANGED <<records, runs, convs, prefs, plans, tokens, admitted>>
  BY DEF Begin, tables, quotas
<1>2. TypedTables' /\ Len(records) \in Nat /\ Len(runs) \in Nat /\ Len(convs) \in Nat
  BY <1>1, TypedNow DEF TypedTables
<1>3. /\ h' \in [Slots -> Handler] /\ Others(s)
      /\ \/ h'[s] = Idle
         \/ /\ h'[s].kind = kind /\ h'[s].body = body /\ h'[s].key = key /\ h'[s].id = 0
            /\ \/ /\ h'[s].rid = 0
                  /\ h'[s].pc = IF kind = "plans" \/ key = NoKey THEN "budget" ELSE "insert"
               \/ /\ h'[s].rid \in 1..Len(records)
                  /\ h'[s].pc = IF kind = "plans" THEN "expire" ELSE "drop"
  BY BeginMove DEF Shape
<1>4. Ready(h'[s]) /\ Points(h'[s], Len(records), Len(runs), Len(convs))
  BY <1>2, <1>3, IdleFields DEF Ready, Points, Posts
<1> QED  BY <1>1, <1>2, <1>3, <1>4, ShapeMove

LEMMA ShapeContinue ==
  ASSUME Shape, NEW s \in Slots, NEW c \in DOMAIN convs, NEW base, NEW field,
         NEW value \in Values, Continue(s, c, base, field, value)
  PROVE  Shape'
<1>1. UNCHANGED <<records, runs, prefs, plans, tokens, admitted>> /\ c \in 1..Len(convs)
  BY DEF Continue, quotas, Shape, TypeInv
<1>2. TypedTables /\ TypeInv /\ Len(records) \in Nat /\ Len(runs) \in Nat /\ Len(convs) \in Nat
  BY TypedNow DEF TypedTables
<1>3. CASE base = convs[c].revision /\ field \in Fields
  <2>2. /\ h' \in [Slots -> Handler] /\ Others(s)
        /\ h'[s].pc = "budget" /\ h'[s].kind = "continue" /\ h'[s].id = c /\ h'[s].rid = 0
        /\ h'[s].answer = <<field, value>>
    <3>1. Continue(s, c, convs[c].revision, field, value) /\ field \in Fields /\ TypeInv
      BY <1>2, <1>3
    <3> QED  BY <3>1, ContinueMove
  <2>3. convs' \in Seq(Conv) /\ Len(convs') = Len(convs)
    <3>1. CASE \E t \in Slots : InFlight(t, c)
      <4>1. convs' = [convs EXCEPT ![c] = [@ EXCEPT !.overlap = TRUE]]
        BY <1>3, <3>1 DEF Continue
      <4> QED  BY <1>1, <1>2, <4>1, ConvOverlaps DEF ConvWritten
    <3>2. CASE ~\E t \in Slots : InFlight(t, c)
      <4>1. convs' = convs
        BY <1>3, <3>2 DEF Continue
      <4> QED  BY <1>2, <4>1 DEF TypedTables
    <3> QED  BY <3>1, <3>2
  <2>4. Ready(h'[s]) /\ Points(h'[s], Len(records), Len(runs), Len(convs))
    BY <1>1, <1>2, <1>3, <2>2 DEF Ready, Points, Posts
  <2>5. TypedTables'
    BY <1>1, <1>2, <2>3 DEF TypedTables
  <2> QED  BY <1>1, <1>2, <2>2, <2>3, <2>4, <2>5, ShapeMove
<1>4. CASE ~(base = convs[c].revision /\ field \in Fields)
  <2>1. Return(s) /\ UNCHANGED convs
    BY <1>4 DEF Continue
  <2> QED  BY <1>1, <1>2, <2>1, ShapeReturn DEF TypedTables
<1> QED  BY <1>3, <1>4

LEMMA ShapeRecords ==
  ASSUME Shape, NEW s \in Slots, MarkExpired(s) \/ DropExpired(s) \/ Insert(s)
  PROVE  Shape'
<1>1. UNCHANGED <<runs, convs, prefs, plans, tokens, admitted>>
  BY DEF MarkExpired, DropExpired, Insert, quotas
<1>2. TypedTables /\ TypeInv
  BY TypedNow
<1>3. /\ Ready(h[s]) /\ Points(h[s], Len(records), Len(runs), Len(convs))
      /\ h[s].rid \in Nat /\ h[s].rid <= Len(records) /\ h[s].id \in Nat /\ h[s].kind \in Kinds
      /\ Len(records) \in Nat /\ Len(runs) \in Nat /\ Len(convs) \in Nat
  BY SlotFacts
<1>4. CASE MarkExpired(s)
  <2>1. CASE Stored(h[s].rid)
    <3>1. Mark(h[s].rid, "expired") /\ Goto(s, "drop") /\ h[s].pc = "expire"
      BY <1>4, <2>1 DEF MarkExpired
    <3>2. records' \in Seq(Record \cup {Gone}) /\ Len(records') = Len(records)
      BY <1>2, <1>3, <2>1, <3>1, MarkWrite DEF Statuses, Written
    <3>3. TypedTables'
      BY <1>1, <1>2, <3>2 DEF TypedTables
    <3> QED  BY <1>1, <1>3, <3>1, <3>2, <3>3, ShapeGoto DEF PCs
  <2>2. CASE ~Stored(h[s].rid)
    <3>1. Return(s) /\ UNCHANGED records
      BY <1>4, <2>2 DEF MarkExpired
    <3> QED  BY <1>1, <1>2, <1>3, <3>1, ShapeReturn DEF TypedTables
  <2> QED  BY <2>1, <2>2
<1>5. CASE DropExpired(s)
  <2>1. h[s].rid \in DOMAIN records /\ records' = [records EXCEPT ![h[s].rid] = Gone]
    BY <1>2, <1>3, <1>5 DEF DropExpired, Ready, TypeInv
  <2>2. records' \in Seq(Record \cup {Gone}) /\ Len(records') = Len(records)
    BY <1>2, <2>1, WriteRecord DEF Written
  <2>3. TypedTables'
    BY <1>1, <1>2, <2>2 DEF TypedTables
  <2>4. /\ h' \in [Slots -> Handler] /\ Others(s) /\ SameRequest(s)
        /\ h'[s].rid = 0 /\ h'[s].id = h[s].id
        /\ h'[s].pc = IF h[s].kind = "plans" THEN "budget" ELSE "insert"
    BY <1>2, <1>5, DropMove
  <2>5. h[s].pc = "drop" /\ h[s].kind \in Posts
    BY <1>3, <1>5 DEF DropExpired, Ready
  <2>6. Ready(h'[s]) /\ Points(h'[s], Len(records'), Len(runs'), Len(convs'))
    BY <1>1, <1>3, <2>2, <2>4, <2>5 DEF Ready, Points, SameRequest, Posts
  <2> QED  BY <1>1, <1>3, <2>2, <2>3, <2>4, <2>6, ShapeMove
<1>6. CASE Insert(s) /\ Refused(s)
  <2>1. Return(s) /\ UNCHANGED records
    BY <1>6 DEF Insert
  <2> QED  BY <1>1, <1>2, <1>3, <2>1, ShapeReturn DEF TypedTables
<1>7. CASE Insert(s) /\ ~Refused(s)
  <2>1. h[s].pc = "insert" /\ h[s].kind \in Posts
    BY <1>3, <1>7 DEF Insert, Ready
  <2>2. records' \in Seq(Record \cup {Gone}) /\ Len(records') = Len(records) + 1
    BY <1>2, <1>7, <2>1, InsertWrite
  <2>3. TypedTables'
    BY <1>1, <1>2, <2>2 DEF TypedTables
  <2>4. /\ h' \in [Slots -> Handler] /\ Others(s) /\ SameRequest(s)
        /\ h'[s].rid = Len(records) + 1 /\ h'[s].id = h[s].id
        /\ h'[s].pc = IF h[s].kind = "plans" THEN "open" ELSE "budget"
    BY <1>2, <1>7, InsertMove
  <2>5. Ready(h'[s]) /\ Points(h'[s], Len(records'), Len(runs'), Len(convs'))
    BY <1>1, <1>3, <2>1, <2>2, <2>4 DEF Ready, Points, SameRequest, Posts
  <2> QED  BY <1>1, <1>3, <2>2, <2>3, <2>4, <2>5, ShapeMove
<1> QED  BY <1>4, <1>5, <1>6, <1>7

LEMMA ShapeOpen ==
  ASSUME Shape, NEW s \in Slots, Open(s)
  PROVE  Shape'
<1>1. UNCHANGED <<records, prefs, plans, tokens, admitted>> /\ h[s].pc = "open"
  BY DEF Open, quotas
<1>2. TypedTables /\ TypeInv
  BY TypedNow
<1>3. /\ Ready(h[s]) /\ Points(h[s], Len(records), Len(runs), Len(convs))
      /\ h[s] \in Handler /\ h[s].rid \in Nat /\ h[s].id \in Nat /\ h[s].kind \in Kinds
      /\ Len(records) \in Nat /\ Len(runs) \in Nat /\ Len(convs) \in Nat
  BY SlotFacts
<1>4. CASE h[s].kind = "plans"
  <2> DEFINE x == [status |-> "running", version |-> FALSE, rid |-> h[s].rid]
  <2>1. x \in Run
    BY <1>3 DEF Run
  <2>2. /\ h' \in [Slots -> Handler] /\ Others(s) /\ SameRequest(s)
        /\ h'[s].pc = "plan" /\ h'[s].id = Len(runs) + 1 /\ h'[s].rid = h[s].rid
        /\ runs' = Append(runs, x) /\ UNCHANGED convs
    BY <1>2, <1>4, OpenPlanMove
  <2> HIDE DEF x
  <2>3. runs' \in Seq(Run) /\ Len(runs') = Len(runs) + 1
    BY <1>2, <2>1, <2>2, AppendRun
  <2>4. TypedTables'
    BY <1>1, <1>2, <2>2, <2>3 DEF TypedTables
  <2>5. Ready(h'[s]) /\ Points(h'[s], Len(records'), Len(runs'), Len(convs'))
    BY <1>1, <1>3, <1>4, <2>2, <2>3 DEF Ready, Points, SameRequest, Posts
  <2> QED  BY <1>1, <1>3, <2>2, <2>3, <2>4, <2>5, ShapeMove
<1>5. CASE h[s].kind = "conversations"
  <2>1. h[s].body \in Bodies
    BY <1>3, <1>5 DEF Ready, Posts
  <2>2. /\ h' \in [Slots -> Handler] /\ Others(s) /\ SameRequest(s)
        /\ h'[s].pc = "plan" /\ h'[s].id = Len(convs) + 1 /\ h'[s].rid = h[s].rid
        /\ convs' = Append(convs, NewConv(s)) /\ NewConv(s) \in Conv /\ UNCHANGED runs
    BY <1>2, <1>5, <2>1, OpenConvMove
  <2>3. convs' \in Seq(Conv) /\ Len(convs') = Len(convs) + 1
    BY <1>2, <2>2, AppendConv
  <2>4. TypedTables'
    BY <1>1, <1>2, <2>2, <2>3 DEF TypedTables
  <2>5. Ready(h'[s]) /\ Points(h'[s], Len(records'), Len(runs'), Len(convs'))
    BY <1>1, <1>3, <1>5, <2>2, <2>3 DEF Ready, Points, SameRequest, Posts
  <2> QED  BY <1>1, <1>3, <2>2, <2>3, <2>4, <2>5, ShapeMove
<1>6. CASE h[s].kind = "continue"
  <2>1. h[s].answer \in Fields \X Values /\ h[s].id \in 1..Len(convs)
    BY <1>1, <1>3, <1>6 DEF Ready, Points
  <2>2. /\ h' \in [Slots -> Handler] /\ Others(s) /\ SameRequest(s)
        /\ h'[s].pc = "plan" /\ h'[s].id = h[s].id /\ h'[s].rid = h[s].rid
        /\ convs' = [convs EXCEPT ![h[s].id] = Continued(s, convs[h[s].id])]
        /\ UNCHANGED runs
    BY <1>2, <1>6, OpenContinueMove
  <2>3. convs[h[s].id] \in Conv
    BY <1>2, <2>1 DEF TypeInv
  <2>4. Continued(s, convs[h[s].id]) \in Conv
    BY <1>3, <2>1, <2>3, ContinuedFields
  <2>5. convs' \in Seq(Conv) /\ Len(convs') = Len(convs)
    BY <1>2, <2>1, <2>2, <2>4, WriteConv DEF ConvWritten
  <2>6. TypedTables'
    BY <1>1, <1>2, <2>2, <2>5 DEF TypedTables
  <2>7. Ready(h'[s]) /\ Points(h'[s], Len(records'), Len(runs'), Len(convs'))
    BY <1>1, <1>3, <1>6, <2>1, <2>2, <2>5 DEF Ready, Points, SameRequest, Posts
  <2> QED  BY <1>1, <1>3, <2>2, <2>5, <2>6, <2>7, ShapeMove
<1> QED  BY <1>1, <1>3, <1>4, <1>5, <1>6 DEF Kinds, Posts, Ready

\* A handler that ends or goes on to mark its record, writing nothing else.
LEMMA ShapeEnds ==
  ASSUME Shape, NEW s \in Slots, TypedTables', h[s].pc # "idle",
         Len(records) <= Len(records'), Len(runs) <= Len(runs'), Len(convs) <= Len(convs'),
         \/ Return(s)
         \/ Goto(s, "fail") /\ h[s].kind = "conversations" /\ h[s].rid > 0
  PROVE  Shape'
  BY ShapeReturn, ShapeGoto DEF PCs

LEMMA ShapeBudget ==
  ASSUME Shape, NEW s \in Slots, EnforceAIBudget(s)
  PROVE  Shape'
<1>1. UNCHANGED <<records, runs, convs, prefs, tokens>> /\ h[s].pc = "budget"
  BY DEF EnforceAIBudget, tables
<1>2. TypedTables /\ TypeInv
  BY TypedNow
<1>3. /\ Ready(h[s]) /\ h[s].rid \in Nat /\ h[s].kind \in Kinds
      /\ Len(records) \in Nat /\ Len(runs) \in Nat /\ Len(convs) \in Nat
  BY SlotFacts
<1>4. plans' \in Nat /\ admitted' \in Nat
  BY <1>2 DEF EnforceAIBudget, TypedTables
<1>5. TypedTables'
  BY <1>1, <1>2, <1>4 DEF TypedTables
<1>6. CASE WithinBudget(plans + 1)
  <2>1. Goto(s, AfterBudget(s))
    BY <1>6 DEF EnforceAIBudget
  <2>2. CASE h[s].kind = "plans" /\ h[s].key # NoKey
    <3>1. Goto(s, "insert")
      BY <2>1, <2>2 DEF AfterBudget
    <3> QED  BY <1>1, <1>3, <1>5, <2>2, <3>1, ShapeGoto DEF PCs
  <2>3. CASE ~(h[s].kind = "plans" /\ h[s].key # NoKey)
    <3>1. Goto(s, "open")
      BY <2>1, <2>3 DEF AfterBudget
    <3> QED  BY <1>1, <1>3, <1>5, <3>1, ShapeGoto DEF PCs
  <2> QED  BY <2>2, <2>3
<1>7. CASE ~WithinBudget(plans + 1)
  <2>1. \/ Return(s)
        \/ Goto(s, "fail") /\ h[s].kind = "conversations" /\ h[s].rid > 0
    BY <1>1, <1>3, <1>7 DEF EnforceAIBudget, Ready, Kinds, Posts
  <2> QED  BY <1>1, <1>3, <1>5, <2>1, ShapeEnds
<1> QED  BY <1>6, <1>7

LEMMA ShapePlanned ==
  ASSUME Shape, NEW s \in Slots, NEW used \in Usage, Planned(s, used)
  PROVE  Shape'
<1>1. UNCHANGED <<records, runs, convs, prefs, plans, admitted>> /\ h[s].pc = "plan"
      /\ Goto(s, "commit") /\ tokens' = tokens + used
  BY DEF Planned, tables
<1>2. TypedTables /\ TypeInv /\ used \in Nat
  BY TypedNow, RequestsAssumption
<1>3. TypedTables'
  BY <1>1, <1>2 DEF TypedTables
<1> QED  BY <1>1, <1>3, SlotFacts, ShapeGoto DEF PCs

LEMMA ShapePlanRaises ==
  ASSUME Shape, NEW s \in Slots, PlanRaises(s)
  PROVE  Shape'
<1>1. UNCHANGED <<prefs, plans, tokens, admitted>> /\ h[s].pc = "plan"
  BY DEF PlanRaises, quotas
<1>2. TypedTables /\ TypeInv
  BY TypedNow
<1>3. /\ Ready(h[s]) /\ Points(h[s], Len(records), Len(runs), Len(convs))
      /\ h[s].rid \in Nat /\ h[s].rid <= Len(records) /\ h[s].kind \in Kinds
      /\ Len(records) \in Nat /\ Len(runs) \in Nat /\ Len(convs) \in Nat
  BY SlotFacts
<1>4. CASE h[s].kind = "plans"
  <2>1. Return(s) /\ UNCHANGED convs
    BY <1>4 DEF PlanRaises
  <2>2. CASE h[s].rid > 0 /\ ~Stored(h[s].rid)
    <3>1. UNCHANGED <<records, runs>>
      BY <1>4, <2>2 DEF PlanRaises
    <3> QED  BY <1>1, <1>2, <1>3, <2>1, <3>1, ShapeReturn DEF TypedTables
  <2>3. CASE ~(h[s].rid > 0 /\ ~Stored(h[s].rid))
    <3>1. h[s].id \in 1..Len(runs)
      BY <1>1, <1>3, <1>4 DEF Points
    <3>2. runs' = [runs EXCEPT ![h[s].id] = [@ EXCEPT !.status = "failed"]]
      BY <1>4, <2>3 DEF PlanRaises
    <3>3. runs' \in Seq(Run) /\ Len(runs') = Len(runs)
      BY <1>2, <3>1, <3>2, RunFails DEF RunWritten
    <3>4. records' \in Seq(Record \cup {Gone}) /\ Len(records') = Len(records)
      <4>1. CASE h[s].rid = 0
        BY <1>2, <1>4, <2>3, <4>1 DEF PlanRaises, TypedTables
      <4>2. CASE h[s].rid # 0
        <5>1. Stored(h[s].rid) /\ Mark(h[s].rid, "failed")
          BY <1>3, <1>4, <2>3, <4>2 DEF PlanRaises
        <5> QED  BY <1>2, <1>3, <5>1, MarkWrite DEF Statuses, Written
      <4> QED  BY <4>1, <4>2
    <3>5. TypedTables'
      BY <1>1, <1>2, <2>1, <3>3, <3>4 DEF TypedTables
    <3> QED  BY <1>3, <2>1, <3>3, <3>4, <3>5, ShapeReturn
  <2> QED  BY <2>2, <2>3
<1>5. CASE h[s].kind # "plans"
  <2>1. h[s].id \in 1..Len(convs)
    BY <1>1, <1>3, <1>5 DEF Points, Ready, Kinds, Posts
  <2>2. convs' = [convs EXCEPT ![h[s].id] = [@ EXCEPT !.state = "failed"]]
        /\ UNCHANGED <<records, runs>>
    BY <1>5 DEF PlanRaises
  <2>3. convs' \in Seq(Conv) /\ Len(convs') = Len(convs)
    BY <1>2, <2>1, <2>2, ConvFails DEF ConvWritten
  <2>4. TypedTables'
    BY <1>1, <1>2, <2>2, <2>3 DEF TypedTables
  <2>5. \/ Return(s)
        \/ Goto(s, "fail") /\ h[s].kind = "conversations" /\ h[s].rid > 0
    BY <1>1, <1>3, <1>5 DEF PlanRaises, Ready, Kinds, Posts
  <2> QED  BY <1>1, <1>3, <2>2, <2>3, <2>4, <2>5, ShapeEnds
<1> QED  BY <1>4, <1>5

LEMMA ShapeCommitPlan ==
  ASSUME Shape, NEW s \in Slots, NEW outcome \in Outcomes, CommitPlan(s, outcome)
  PROVE  Shape'
<1>1. UNCHANGED <<convs, prefs, plans, tokens, admitted>> /\ h[s].pc = "commit"
      /\ h[s].kind = "plans" /\ Return(s)
  BY DEF CommitPlan, quotas
<1>2. TypedTables /\ TypeInv
  BY TypedNow
<1>3. /\ Points(h[s], Len(records), Len(runs), Len(convs))
      /\ h[s].rid \in Nat /\ h[s].rid <= Len(records)
      /\ Len(records) \in Nat /\ Len(runs) \in Nat /\ Len(convs) \in Nat
  BY SlotFacts
<1>4. CASE h[s].rid > 0 /\ ~Stored(h[s].rid)
  <2>1. UNCHANGED <<records, runs>>
    BY <1>4 DEF CommitPlan, Finished
  <2> QED  BY <1>1, <1>2, <1>3, <2>1, ShapeReturn DEF TypedTables
<1>5. CASE ~(h[s].rid > 0 /\ ~Stored(h[s].rid))
  <2>1. h[s].id \in 1..Len(runs)
    BY <1>1, <1>3 DEF Points
  <2>2. runs' = [runs EXCEPT ![h[s].id] =
                   [@ EXCEPT !.status = outcome, !.version = outcome # "need_clarification"]]
    BY <1>5 DEF CommitPlan, Finished
  <2>3. runs' \in Seq(Run) /\ Len(runs') = Len(runs)
    BY <1>2, <2>1, <2>2, RunResult DEF RunWritten
  <2>4. records' \in Seq(Record \cup {Gone}) /\ Len(records') = Len(records)
    <3>1. CASE h[s].rid = 0
      BY <1>2, <1>5, <3>1 DEF CommitPlan, Finished, TypedTables
    <3>2. CASE h[s].rid # 0
      <4>1. Stored(h[s].rid) /\ Succeed(h[s].rid, s)
        BY <1>3, <1>5, <3>2 DEF CommitPlan, Finished
      <4> QED  BY <1>2, <1>3, <4>1, SucceedWrite DEF Written
    <3> QED  BY <3>1, <3>2
  <2>5. TypedTables'
    BY <1>1, <1>2, <2>3, <2>4 DEF TypedTables
  <2> QED  BY <1>1, <1>3, <2>3, <2>4, <2>5, ShapeReturn
<1> QED  BY <1>4, <1>5

LEMMA ShapeCommitConversation ==
  ASSUME Shape, NEW s \in Slots, NEW outcome \in Outcomes, CommitConversation(s, outcome)
  PROVE  Shape'
<1>1. UNCHANGED <<records, runs, prefs, plans, tokens, admitted>> /\ h[s].pc = "commit"
      /\ h[s].kind # "plans" /\ convs' = [convs EXCEPT ![h[s].id] = Resulted(s, convs[h[s].id], outcome)]
  BY DEF CommitConversation, quotas
<1>2. TypedTables /\ TypeInv
  BY TypedNow
<1>3. /\ Ready(h[s]) /\ Points(h[s], Len(records), Len(runs), Len(convs))
      /\ h[s].rid \in Nat /\ h[s].kind \in Kinds
      /\ Len(records) \in Nat /\ Len(runs) \in Nat /\ Len(convs) \in Nat
  BY SlotFacts
<1>4. h[s].id \in 1..Len(convs)
  BY <1>1, <1>3 DEF Points, Ready, Kinds, Posts
<1>5. convs' \in Seq(Conv) /\ Len(convs') = Len(convs)
  BY <1>1, <1>2, <1>4, ConvResult DEF ConvWritten
<1>6. TypedTables'
  BY <1>1, <1>2, <1>5 DEF TypedTables
<1>7. CASE h[s].rid > 0
  <2>1. Goto(s, "record") /\ h[s].kind = "conversations"
    BY <1>1, <1>3, <1>7 DEF CommitConversation, Ready, Kinds, Posts
  <2> QED  BY <1>1, <1>3, <1>5, <1>6, <1>7, <2>1, ShapeGoto DEF PCs
<1>8. CASE ~(h[s].rid > 0)
  BY <1>1, <1>3, <1>5, <1>6, <1>8, ShapeReturn DEF CommitConversation
<1> QED  BY <1>7, <1>8

LEMMA ShapeRecordOutcome ==
  ASSUME Shape, NEW s \in Slots, RecordConversation(s) \/ FailRecord(s)
  PROVE  Shape'
<1>1. UNCHANGED <<runs, convs, prefs, plans, tokens, admitted>> /\ Return(s)
  BY DEF RecordConversation, FailRecord, quotas
<1>2. TypedTables /\ TypeInv
  BY TypedNow
<1>3. /\ h[s].rid \in Nat /\ h[s].rid <= Len(records)
      /\ Len(records) \in Nat /\ Len(runs) \in Nat /\ Len(convs) \in Nat
  BY SlotFacts
<1>4. CASE Stored(h[s].rid)
  <2>1. Succeed(h[s].rid, s) \/ Mark(h[s].rid, "failed")
    BY <1>4 DEF RecordConversation, FailRecord, Finished
  <2>2. records' \in Seq(Record \cup {Gone}) /\ Len(records') = Len(records)
    BY <1>2, <1>3, <1>4, <2>1, SucceedWrite, MarkWrite DEF Statuses, Written
  <2> QED  BY <1>1, <1>2, <1>3, <2>2, ShapeReturn DEF TypedTables
<1>5. CASE ~Stored(h[s].rid)
  <2>1. UNCHANGED records
    BY <1>5 DEF RecordConversation, FailRecord, Finished
  <2> QED  BY <1>1, <1>2, <1>3, <2>1, ShapeReturn DEF TypedTables
<1> QED  BY <1>4, <1>5

LEMMA ShapeStops ==
  ASSUME Shape, NEW s \in Slots, SaveRaises(s) \/ Stop(s)
  PROVE  Shape'
<1>1. UNCHANGED <<records, runs, convs, prefs, plans, tokens, admitted>> /\ h[s].pc # "idle"
  BY DEF SaveRaises, Stop, quotas, tables
<1>2. TypedTables /\ TypeInv
  BY TypedNow
<1>3. /\ Ready(h[s]) /\ h[s].rid \in Nat /\ h[s].kind \in Kinds
      /\ Len(records) \in Nat /\ Len(runs) \in Nat /\ Len(convs) \in Nat
  BY SlotFacts
<1>4. \/ Return(s)
      \/ Goto(s, "fail") /\ h[s].kind = "conversations" /\ h[s].rid > 0
  BY <1>1, <1>3 DEF SaveRaises, Stop, Ready, Kinds, Posts
<1>5. TypedTables'
  BY <1>1, <1>2 DEF TypedTables
<1> QED  BY <1>1, <1>3, <1>4, <1>5, ShapeEnds

\* The steps of one handler, by the rows they write.
SlotStep(s) ==
  \/ \E kind \in Posts, body \in Bodies, key \in Headers : Begin(s, kind, body, key)
  \/ \E c \in DOMAIN convs, base \in Nat, field \in Askable, value \in Values :
       Continue(s, c, base, field, value)
  \/ MarkExpired(s) \/ DropExpired(s) \/ Insert(s)
  \/ EnforceAIBudget(s) \/ Open(s)
  \/ \E used \in Usage : Planned(s, used)
  \/ PlanRaises(s)
  \/ \E outcome \in Outcomes : CommitPlan(s, outcome) \/ CommitConversation(s, outcome)
  \/ RecordConversation(s) \/ FailRecord(s)
  \/ SaveRaises(s) \/ Stop(s)

\* The steps of the user's preferences and of time.
OtherStep ==
  \/ \E value \in MemoryValues : SavePreference(value)
  \/ DeletePreference
  \/ \E r \in DOMAIN records : RecordExpires(r)

LEMMA NextSplit ==
  ASSUME TypeInv, Next
  PROVE  (\E s \in Slots : SlotStep(s)) \/ OtherStep
<1>1. ASSUME NEW s \in Slots, NEW c \in DOMAIN convs, NEW a \in Answers,
             NEW base \in {convs[c].revision, convs[c].revision + 1},
             Continue(s, c, base, a[1], a[2])
      PROVE  SlotStep(s)
  <2>1. a[1] \in Askable /\ a[2] \in Values
    BY RequestsAssumption
  <2>2. convs[c].revision \in Nat
    <3>1. convs[c] \in Conv
      BY DEF TypeInv
    <3> QED  BY <3>1 DEF Conv
  <2>3. base \in Nat
    BY <2>2
  <2> QED  BY <1>1, <2>1, <2>3 DEF SlotStep
<1>2. CASE \E s \in Slots, kind \in {"plans", "conversations"}, body \in Bodies,
              key \in Headers : Begin(s, kind, body, key)
  BY <1>2 DEF SlotStep, Posts
<1>3. CASE \E s \in Slots : Handle(s) \/ Stop(s)
  BY <1>3 DEF SlotStep, Handle
<1> QED  BY <1>1, <1>2, <1>3 DEF Next, OtherStep

LEMMA ShapeOther ==
  ASSUME Shape, OtherStep
  PROVE  Shape'
<1>1. UNCHANGED <<runs, convs, plans, tokens, admitted, h>>
  BY DEF OtherStep, SavePreference, DeletePreference, RecordExpires, tables, quotas
<1>2. prefs' \in Values \cup {Unset}
  BY RequestsAssumption DEF OtherStep, SavePreference, DeletePreference, RecordExpires,
     Shape, TypeInv
<1>3. records' \in Seq(Record \cup {Gone}) /\ Len(records') = Len(records)
  <2>1. CASE \E r \in DOMAIN records : RecordExpires(r)
    BY <2>1, ExpireWrite DEF Shape, Written
  <2>2. CASE ~\E r \in DOMAIN records : RecordExpires(r)
    BY <2>2 DEF OtherStep, SavePreference, DeletePreference, tables, Shape, TypeInv
  <2> QED  BY <2>1, <2>2
<1>4. TypeInv'
  BY <1>1, <1>2, <1>3 DEF Shape, TypeInv
<1> QED  BY <1>1, <1>3, <1>4 DEF Shape, Pointing

LEMMA ShapeStep ==
  ASSUME Shape, [Next]_vars
  PROVE  Shape'
<1>1. ASSUME NEW s \in Slots, SlotStep(s)
      PROVE  Shape'
  BY <1>1, ShapeBegin, ShapeContinue, ShapeRecords, ShapeOpen, ShapeBudget, ShapePlanned,
     ShapePlanRaises, ShapeCommitPlan, ShapeCommitConversation, ShapeRecordOutcome, ShapeStops
     DEF SlotStep
<1>2. CASE UNCHANGED vars
  BY <1>2 DEF vars, Shape, TypeInv, Pointing
<1> QED  BY <1>1, <1>2, ShapeOther, NextSplit DEF Shape

-----------------------------------------------------------------------------
(* The quota: who was admitted and has not been charged yet *)

\* A handler that passed the budget and whose tokens are not counted.
Uncharged(x) == x.pc \in {"open", "plan"} \/ (x.pc = "insert" /\ x.kind = "plans")

Spending == {s \in Slots : Uncharged(h[s])}

\* Every admission raised the counter, and stood below the token limit when
\* the tokens of the handlers beside it were not counted.
QuotaInv ==
  /\ admitted <= DailyLimit /\ admitted <= plans
  /\ tokens + Cardinality(Spending) < TokenLimit + Cardinality(Slots)

SlotCount == Cardinality(Slots)

LEMMA SlotCountFacts ==
  SlotCount \in Nat /\ SlotCount >= 1
<1>1. SlotCount \in Nat
  BY RequestsAssumption, FS_CardinalityType DEF SlotCount
<1>2. SlotCount # 0
  BY RequestsAssumption, FS_EmptySet DEF SlotCount
<1> QED  BY <1>1, <1>2

LEMMA SubsetCount ==
  ASSUME NEW S \in SUBSET Slots
  PROVE  IsFiniteSet(S) /\ Cardinality(S) \in Nat /\ Cardinality(S) <= SlotCount
  BY RequestsAssumption, FS_Subset, FS_CardinalityType DEF SlotCount

\* Where nobody enters and nothing is counted, the quota stands.
LEMMA QuotaKept ==
  ASSUME TypeInv, QuotaInv, UNCHANGED <<admitted, tokens>>, plans' \in Nat, plans' >= plans,
         Spending' \subseteq Spending
  PROVE  QuotaInv'
<1>1. /\ Cardinality(Spending) \in Nat /\ Cardinality(Spending') \in Nat
      /\ Cardinality(Spending') <= Cardinality(Spending)
  <2>1. Spending \in SUBSET Slots
    BY DEF Spending
  <2> QED  BY <2>1, SubsetCount, FS_Subset, FS_CardinalityType
<1>2. Cardinality(Slots) \in Nat
  BY SlotCountFacts DEF SlotCount
<1>3. tokens \in Nat /\ admitted \in Nat /\ plans \in Nat
  BY DEF TypeInv
<1>4. DailyLimit \in Nat /\ TokenLimit \in Nat
  BY RequestsAssumption
<1>5. tokens' + Cardinality(Spending') < TokenLimit + Cardinality(Slots)
  BY <1>1, <1>2, <1>3, <1>4 DEF QuotaInv
<1>6. admitted' <= DailyLimit /\ admitted' <= plans'
  BY <1>3, <1>4 DEF QuotaInv
<1> QED  BY <1>5, <1>6 DEF QuotaInv

-----------------------------------------------------------------------------
(* What one step does to its handler *)

\* The handler of a request goes on, with its request and its record.
Advance(s) ==
  /\ SameRequest(s) /\ h'[s].rid = h[s].rid
  /\ \/ h[s].pc = "expire" /\ h'[s].pc = "drop"
     \/ h[s].pc = "budget" /\ h'[s].pc = "insert" /\ h[s].kind = "plans"
     \/ h[s].pc = "budget" /\ h'[s].pc = "open"
     \/ h[s].pc = "open" /\ h'[s].pc = "plan"
     \/ h[s].pc = "plan" /\ h'[s].pc = "commit"
     \/ h[s].pc = "commit" /\ h'[s].pc = "record"
     \/ h[s].pc \in {"budget", "plan", "commit"} /\ h'[s].pc = "fail"

\* A request arrives.
Arrive(s) ==
  /\ h[s].pc = "idle" /\ h'[s].id = 0
  /\ \/ h'[s].rid = 0 /\ h'[s].pc \in {"budget", "insert"}
     \/ h'[s].rid \in 1..Len(records) /\ h'[s].pc \in {"expire", "drop"}
  /\ h'[s].pc = "insert" => h'[s].kind # "plans"

\* An answer arrives.
Answered(s) ==
  h[s].pc = "idle" /\ h'[s].pc = "budget" /\ h'[s].kind = "continue" /\ h'[s].rid = 0

Dropped(s) ==
  /\ h[s].pc = "drop" /\ SameRequest(s) /\ h'[s].rid = 0 /\ h'[s].id = h[s].id
  /\ h'[s].pc = IF h[s].kind = "plans" THEN "budget" ELSE "insert"

Inserted(s) ==
  /\ h[s].pc = "insert" /\ SameRequest(s) /\ h'[s].id = h[s].id
  /\ h'[s].rid = Len(records) + 1 /\ Len(records') = Len(records) + 1
  /\ h'[s].pc = IF h[s].kind = "plans" THEN "open" ELSE "budget"

-----------------------------------------------------------------------------
(* Records and their owners *)

\* The handler inserted its record.
Owner(x) == x.rid > 0 /\ x.pc \notin {"idle", "expire", "drop"}

\* The record of a handler that has not finished is its own, whoever else
\* looked it up meanwhile.
OwnInv ==
  /\ \A s \in Slots : Owner(h[s]) /\ Stored(h[s].rid) =>
       LET x == records[h[s].rid] IN
       /\ x.kind = h[s].kind /\ x.key = h[s].key /\ x.body = h[s].body
       /\ x.status \in {"processing", "expired"}
  /\ \A s, t \in Slots : s # t /\ Owner(h[s]) /\ Owner(h[t]) => h[s].rid # h[t].rid

KeyInv ==
  \A q, r \in DOMAIN records :
    Stored(q) /\ Stored(r) /\ records[q].kind = records[r].kind
      /\ records[q].key = records[r].key => q = r

ReplyInv ==
  /\ \A r \in DOMAIN records : Stored(r) /\ records[r].status = "succeeded" =>
       /\ records[r].reply # NoReply /\ records[r].reply.kind = records[r].kind
       /\ records[r].reply.body = records[r].body
  /\ strays = {}

-----------------------------------------------------------------------------
(* Runs and conversations and the records they were planned for *)

\* The handler has its record and has not opened its run or conversation.
Unopened(x) == x.rid > 0 /\ x.pc \in {"budget", "open"}

RunRidInv ==
  /\ \A i \in DOMAIN runs : /\ runs[i].rid <= Len(records)
                            /\ Stored(runs[i].rid) => records[runs[i].rid].kind = "plans"
  /\ \A i, j \in DOMAIN runs : i # j /\ runs[i].rid > 0 => runs[i].rid # runs[j].rid
  /\ \A s \in Slots, i \in DOMAIN runs : Unopened(h[s]) => runs[i].rid # h[s].rid

ConvRidInv ==
  /\ \A c \in DOMAIN convs : /\ convs[c].rid <= Len(records)
                             /\ Stored(convs[c].rid) =>
                                  records[convs[c].rid].kind = "conversations"
  /\ \A c, d \in DOMAIN convs : c # d /\ convs[c].rid > 0 => convs[c].rid # convs[d].rid
  /\ \A s \in Slots, c \in DOMAIN convs : Unopened(h[s]) => convs[c].rid # h[s].rid

Planning(x, kind) == x.kind = kind /\ x.pc \in {"plan", "commit"}

\* A handler that plans has the run or the conversation it opened for its
\* record, without a result, to itself.
RunWorkInv ==
  /\ \A s \in Slots : Planning(h[s], "plans") =>
       runs[h[s].id].rid = h[s].rid /\ ~runs[h[s].id].version
  /\ \A s, t \in Slots : s # t /\ Planning(h[s], "plans") /\ Planning(h[t], "plans") =>
       h[s].id # h[t].id

ConvWorkInv ==
  /\ \A s \in Slots : Planning(h[s], "conversations") =>
       convs[h[s].id].rid = h[s].rid /\ ~convs[h[s].id].first
  /\ \A s, t \in Slots :
       s # t /\ Planning(h[s], "conversations") /\ Planning(h[t], "conversations") =>
       h[s].id # h[t].id
  /\ \A s \in Slots : h[s].pc = "record" => convs[h[s].id].first
  /\ \A s \in Slots, c \in DOMAIN convs :
       h[s].pc = "fail" /\ convs[c].rid = h[s].rid => ~convs[c].first

RunTold(r) ==
  LET reply == records[r].reply IN
  /\ records[r].status = "succeeded" /\ reply.kind = "plans" =>
       /\ reply.id \in DOMAIN runs /\ runs[reply.id].rid = r
       /\ runs[reply.id].status = "need_clarification" \/ runs[reply.id].version
  /\ records[r].status = "failed" => \A i \in DOMAIN runs : runs[i].rid = r => ~runs[i].version

ConvTold(r) ==
  LET reply == records[r].reply IN
  /\ records[r].status = "succeeded" /\ reply.kind # "plans" =>
       reply.id \in DOMAIN convs /\ convs[reply.id].first
  /\ records[r].status = "failed" => \A c \in DOMAIN convs : convs[c].rid = r => ~convs[c].first

RunToldInv == \A r \in DOMAIN records : Stored(r) => RunTold(r)
ConvToldInv == \A r \in DOMAIN records : Stored(r) => ConvTold(r)

-----------------------------------------------------------------------------
(* Answers and the conversations they change *)

\* What the handlers of conversation c know of it.
AnswerKept(s, c) ==
  /\ h[s].pc \in {"budget", "open"} =>
       /\ h[s].request = [convs[c].request EXCEPT ![h[s].answer[1]] = h[s].answer[2]]
       /\ h[s].same = (convs[c].request[h[s].answer[1]] = h[s].answer[2])
       /\ h[s].state = convs[c].state
  /\ h[s].pc \in {"plan", "commit"} =>
       h[s].request = convs[c].request /\ convs[c].state = "running"

ConvKept(c) ==
  /\ \A s, t \in Slots : InFlight(s, c) /\ InFlight(t, c) => s = t
  /\ \A s \in Slots : InFlight(s, c) => AnswerKept(s, c)
  /\ \A f \in Fields : convs[c].said[f] # Unset => convs[c].request[f] = convs[c].said[f]
  /\ convs[c].state \notin {"running", "failed"} => convs[c].of = convs[c].request

AnswersInv ==
  /\ \A s \in Slots : h[s].kind # "plans" => h[s].id <= Len(convs)
  /\ \A s \in Slots : h[s].kind = "conversations"
                      /\ h[s].pc \in {"expire", "drop", "insert", "budget", "open"} => h[s].id = 0
  /\ \A c \in DOMAIN convs : ~convs[c].overlap => ConvKept(c)

-----------------------------------------------------------------------------
(* The moves *)

LEMMA EndOrFail ==
  ASSUME Shape, NEW s \in Slots, h[s].pc \in {"budget", "plan", "commit"},
         Return(s) \/ Goto(s, "fail")
  PROVE  h' \in [Slots -> Handler] /\ Others(s) /\ (h'[s] = Idle \/ Advance(s))
<1>1. TypeInv /\ "fail" \in PCs
  BY DEF Shape, PCs
<1>2. CASE Return(s)
  BY <1>1, <1>2, ReturnMove
<1>3. CASE Goto(s, "fail")
  BY <1>1, <1>3, GotoMove DEF Advance
<1> QED  BY <1>2, <1>3

\* Whatever the handler does in a step, it ends, goes on, starts, or has lost
\* or got its record.
SlotMoves(s) ==
  /\ h' \in [Slots -> Handler] /\ Others(s)
  /\ \/ h'[s] = Idle
     \/ Advance(s) \/ Arrive(s) \/ Answered(s) \/ Dropped(s) \/ Inserted(s)

LEMMA SlotMove ==
  ASSUME Shape, NEW s \in Slots, SlotStep(s)
  PROVE  SlotMoves(s)
<1>1. TypeInv /\ h[s].kind \in Kinds /\ Ready(h[s])
  BY SlotFacts DEF Shape
<1>2. ASSUME NEW kind \in Posts, NEW body \in Bodies, NEW key \in Headers,
             Begin(s, kind, body, key)
      PROVE  SlotMoves(s)
  <2>1. /\ h' \in [Slots -> Handler] /\ Others(s)
        /\ \/ h'[s] = Idle
           \/ /\ h'[s].kind = kind /\ h'[s].body = body /\ h'[s].key = key /\ h'[s].id = 0
              /\ \/ /\ h'[s].rid = 0
                    /\ h'[s].pc = IF kind = "plans" \/ key = NoKey THEN "budget" ELSE "insert"
                 \/ /\ h'[s].rid \in 1..Len(records)
                    /\ h'[s].pc = IF kind = "plans" THEN "expire" ELSE "drop"
    BY <1>1, <1>2, BeginMove
  <2>2. h[s].pc = "idle"
    BY <1>2 DEF Begin
  <2>3. h'[s] = Idle \/ Arrive(s)
    BY <2>1, <2>2 DEF Arrive
  <2> QED  BY <2>1, <2>3 DEF SlotMoves
<1>3. ASSUME NEW c \in DOMAIN convs, NEW base \in Nat, NEW field \in Askable,
             NEW value \in Values, Continue(s, c, base, field, value)
      PROVE  SlotMoves(s)
  <2>1. CASE base = convs[c].revision /\ field \in Fields
    <3>1. Continue(s, c, convs[c].revision, field, value) /\ field \in Fields
          /\ h[s].pc = "idle"
      BY <1>3, <2>1 DEF Continue
    <3>2. h' \in [Slots -> Handler] /\ Others(s) /\ Answered(s)
      BY <1>1, <3>1, ContinueMove DEF Answered
    <3> QED  BY <3>2 DEF SlotMoves
  <2>2. CASE ~(base = convs[c].revision /\ field \in Fields)
    <3>1. Return(s)
      BY <1>3, <2>2 DEF Continue
    <3> QED  BY <1>1, <3>1, ReturnMove DEF SlotMoves
  <2> QED  BY <2>1, <2>2
<1>4. CASE MarkExpired(s)
  <2>1. h[s].pc = "expire" /\ (Goto(s, "drop") \/ Return(s)) /\ "drop" \in PCs
    BY <1>4 DEF MarkExpired, PCs
  <2> QED  BY <1>1, <2>1, GotoMove, ReturnMove DEF SlotMoves, Advance
<1>5. CASE DropExpired(s)
  <2>1. h[s].pc = "drop"
    BY <1>5 DEF DropExpired
  <2> QED  BY <1>1, <1>5, <2>1, DropMove DEF SlotMoves, Dropped
<1>6. CASE Insert(s)
  <2>1. h[s].pc = "insert" /\ h[s].kind \in Posts
    BY <1>1, <1>6 DEF Insert, Ready
  <2>2. CASE Refused(s)
    BY <1>1, <1>6, <2>2, ReturnMove DEF SlotMoves, Insert
  <2>3. CASE ~Refused(s)
    <3>1. Len(records') = Len(records) + 1
      BY <1>1, <1>6, <2>1, <2>3, InsertWrite
    <3> QED  BY <1>1, <1>6, <2>1, <2>3, <3>1, InsertMove DEF SlotMoves, Inserted
  <2> QED  BY <2>2, <2>3
<1>7. CASE EnforceAIBudget(s)
  <2>1. h[s].pc = "budget"
    BY <1>7 DEF EnforceAIBudget
  <2>2. CASE WithinBudget(plans + 1)
    <3>1. Goto(s, AfterBudget(s))
      BY <1>7, <2>2 DEF EnforceAIBudget
    <3>2. CASE h[s].kind = "plans" /\ h[s].key # NoKey
      <4>1. Goto(s, "insert") /\ "insert" \in PCs
        BY <3>1, <3>2 DEF AfterBudget, PCs
      <4> QED  BY <1>1, <2>1, <3>2, <4>1, GotoMove DEF SlotMoves, Advance
    <3>3. CASE ~(h[s].kind = "plans" /\ h[s].key # NoKey)
      <4>1. Goto(s, "open") /\ "open" \in PCs
        BY <3>1, <3>3 DEF AfterBudget, PCs
      <4> QED  BY <1>1, <2>1, <4>1, GotoMove DEF SlotMoves, Advance
    <3> QED  BY <3>2, <3>3
  <2>3. CASE ~WithinBudget(plans + 1)
    <3>1. Return(s) \/ Goto(s, "fail")
      BY <1>7, <2>3 DEF EnforceAIBudget
    <3> QED  BY <2>1, <3>1, EndOrFail DEF SlotMoves
  <2> QED  BY <2>2, <2>3
<1>8. CASE Open(s)
  <2>1. h[s].pc = "open" /\ h[s].kind \in {"plans", "conversations", "continue"}
    BY <1>1, <1>8 DEF Open, Ready, Kinds, Posts
  <2>2. CASE h[s].kind = "plans"
    BY <1>1, <1>8, <2>1, <2>2, OpenPlanMove DEF SlotMoves, Advance
  <2>3. CASE h[s].kind = "conversations"
    <3>1. h[s].body \in Bodies
      BY <1>1, <2>3 DEF Ready, Posts
    <3> QED  BY <1>1, <1>8, <2>1, <2>3, <3>1, OpenConvMove DEF SlotMoves, Advance
  <2>4. CASE h[s].kind = "continue"
    BY <1>1, <1>8, <2>1, <2>4, OpenContinueMove DEF SlotMoves, Advance
  <2> QED  BY <2>1, <2>2, <2>3, <2>4
<1>9. ASSUME NEW used \in Usage, Planned(s, used)
      PROVE  SlotMoves(s)
  <2>1. h[s].pc = "plan" /\ Goto(s, "commit") /\ "commit" \in PCs
    BY <1>9 DEF Planned, PCs
  <2> QED  BY <1>1, <2>1, GotoMove DEF SlotMoves, Advance
<1>10. CASE PlanRaises(s) \/ SaveRaises(s)
  <2>1. h[s].pc \in {"budget", "plan", "commit"} /\ (Return(s) \/ Goto(s, "fail"))
    BY <1>10 DEF PlanRaises, SaveRaises
  <2> QED  BY <2>1, EndOrFail DEF SlotMoves
<1>11. ASSUME NEW outcome \in Outcomes, CommitConversation(s, outcome)
       PROVE  SlotMoves(s)
  <2>1. h[s].pc = "commit" /\ (Goto(s, "record") \/ Return(s)) /\ "record" \in PCs
    BY <1>11 DEF CommitConversation, PCs
  <2> QED  BY <1>1, <2>1, GotoMove, ReturnMove DEF SlotMoves, Advance
<1>12. ASSUME NEW outcome \in Outcomes, CommitPlan(s, outcome)
       PROVE  SlotMoves(s)
  BY <1>1, <1>12, ReturnMove DEF CommitPlan, SlotMoves
<1>13. CASE RecordConversation(s) \/ FailRecord(s) \/ Stop(s)
  BY <1>1, <1>13, ReturnMove DEF RecordConversation, FailRecord, Stop, SlotMoves
<1> QED
  BY <1>2, <1>3, <1>4, <1>5, <1>6, <1>7, <1>8, <1>9, <1>10, <1>11, <1>12, <1>13 DEF SlotStep

-----------------------------------------------------------------------------
(* The quota is held *)

LEMMA QuotaInit == Init => QuotaInv
<1> SUFFICES ASSUME Init PROVE QuotaInv
  OBVIOUS
<1>1. /\ admitted \in Nat /\ admitted = plans /\ admitted <= DailyLimit
      /\ tokens \in Nat /\ tokens <= TokenLimit /\ DailyLimit \in Nat /\ TokenLimit \in Nat
  BY RequestsAssumption DEF Init
<1>2. \A s \in Slots : h[s] = Idle
  BY DEF Init
<1>3. Spending = {}
  BY <1>2, IdleFields DEF Spending, Uncharged
<1>4. Cardinality(Spending) = 0
  BY <1>3, FS_EmptySet
<1>5. tokens + Cardinality(Spending) < TokenLimit + Cardinality(Slots)
  BY <1>1, <1>4, SlotCountFacts DEF SlotCount
<1> QED  BY <1>1, <1>5 DEF QuotaInv

LEMMA QuotaBudget ==
  ASSUME Shape, QuotaInv, NEW s \in Slots, EnforceAIBudget(s)
  PROVE  QuotaInv'
<1>1. /\ tokens \in Nat /\ admitted \in Nat /\ plans \in Nat /\ TokenLimit \in Nat
      /\ DailyLimit \in Nat
  BY RequestsAssumption DEF Shape, TypeInv
<1>2. plans' = plans + 1 /\ tokens' = tokens /\ h[s].pc = "budget"
  BY DEF EnforceAIBudget
<1>3. CASE WithinBudget(plans + 1)
  <2>1. admitted' = admitted + 1 /\ plans + 1 <= DailyLimit /\ tokens < TokenLimit
    BY <1>3 DEF EnforceAIBudget, WithinBudget
  <2>2. Cardinality(Spending') \in Nat /\ Cardinality(Spending') <= SlotCount
    <3>1. Spending' \in SUBSET Slots
      BY DEF Spending
    <3> QED  BY <3>1, SubsetCount
  <2>3. tokens' + Cardinality(Spending') < TokenLimit + Cardinality(Slots)
    BY <1>1, <1>2, <2>1, <2>2, SlotCountFacts DEF SlotCount
  <2>4. admitted' <= DailyLimit /\ admitted' <= plans'
    BY <1>1, <1>2, <2>1 DEF QuotaInv
  <2> QED  BY <2>3, <2>4 DEF QuotaInv
<1>4. CASE ~WithinBudget(plans + 1)
  <2>1. admitted' = admitted /\ (Return(s) \/ Goto(s, "fail"))
    BY <1>4 DEF EnforceAIBudget
  <2>2. Others(s) /\ (h'[s] = Idle \/ h'[s].pc = "fail")
    BY <2>1, ReturnMove, GotoMove DEF Shape, PCs
  <2>3. Spending' \subseteq Spending
    BY <2>2, IdleFields DEF Spending, Uncharged, Others
  <2>4. UNCHANGED <<admitted, tokens>> /\ plans' \in Nat /\ plans' >= plans /\ TypeInv
    BY <1>1, <1>2, <2>1 DEF Shape
  <2> QED  BY <2>3, <2>4, QuotaKept
<1> QED  BY <1>3, <1>4

LEMMA QuotaPlanned ==
  ASSUME Shape, QuotaInv, NEW s \in Slots, NEW used \in Usage, Planned(s, used)
  PROVE  QuotaInv'
<1>1. /\ tokens \in Nat /\ admitted \in Nat /\ plans \in Nat /\ TokenLimit \in Nat
      /\ DailyLimit \in Nat /\ used \in {0, 1}
  BY RequestsAssumption DEF Shape, TypeInv
<1>2. /\ h[s].pc = "plan" /\ Goto(s, "commit") /\ tokens' = tokens + used
      /\ UNCHANGED <<plans, admitted>>
  BY DEF Planned
<1>3. Others(s) /\ h'[s].pc = "commit"
  BY <1>2, GotoMove DEF Shape, PCs
<1>4. s \in Spending /\ Spending' = Spending \ {s}
  BY <1>2, <1>3 DEF Spending, Uncharged, Others
<1>5. IsFiniteSet(Spending) /\ Cardinality(Spending) \in Nat
  <2>1. Spending \in SUBSET Slots
    BY DEF Spending
  <2> QED  BY <2>1, SubsetCount
<1>6. Cardinality(Spending') = Cardinality(Spending) - 1
  BY <1>4, <1>5, FS_RemoveElement
<1>7. tokens' + Cardinality(Spending') < TokenLimit + Cardinality(Slots)
  BY <1>1, <1>2, <1>5, <1>6, SlotCountFacts DEF QuotaInv, SlotCount
<1>8. admitted' <= DailyLimit /\ admitted' <= plans'
  BY <1>2 DEF QuotaInv
<1> QED  BY <1>7, <1>8 DEF QuotaInv

LEMMA QuotaStep ==
  ASSUME Shape, QuotaInv, [Next]_vars
  PROVE  QuotaInv'
<1>0. TypeInv
  BY DEF Shape
<1>1. ASSUME NEW s \in Slots, SlotStep(s), ~EnforceAIBudget(s),
             \A used \in Usage : ~Planned(s, used)
      PROVE  QuotaInv'
  <2>1. UNCHANGED <<plans, tokens, admitted>>
    BY <1>1 DEF SlotStep, Begin, Continue, MarkExpired, DropExpired, Insert, Open, PlanRaises,
       CommitPlan, CommitConversation, RecordConversation, FailRecord, SaveRaises, Stop, quotas
  <2>2. SlotMoves(s)
    BY <1>1, SlotMove
  <2>3. h'[s] = Idle \/ h[s].pc # "budget"
    <3>1. CASE Stop(s)
      BY <1>0, <3>1, ReturnMove DEF Stop
    <3> QED
      BY <1>1, <3>1 DEF SlotStep, Begin, Continue, MarkExpired, DropExpired, Insert, Open,
         PlanRaises, CommitPlan, CommitConversation, RecordConversation, FailRecord, SaveRaises
  <2>4. Uncharged(h'[s]) => Uncharged(h[s])
    <3>1. ~Uncharged(Idle)
      BY IdleFields DEF Uncharged
    <3> QED  BY <2>2, <2>3, <3>1 DEF SlotMoves, Advance, Arrive, Answered, Dropped,
                Inserted, Uncharged, SameRequest
  <2>5. Spending' \subseteq Spending
    BY <2>2, <2>4 DEF Spending, SlotMoves, Others
  <2>6. plans' \in Nat /\ plans' >= plans
    BY <1>0, <2>1 DEF TypeInv
  <2> QED  BY <1>0, <2>1, <2>5, <2>6, QuotaKept
<1>2. CASE OtherStep \/ UNCHANGED vars
  <2>1. UNCHANGED <<plans, tokens, admitted, h>>
    BY <1>2 DEF OtherStep, SavePreference, DeletePreference, RecordExpires, tables, quotas, vars
  <2>2. Spending' = Spending /\ plans' \in Nat /\ plans' >= plans
    BY <1>0, <2>1 DEF Spending, TypeInv
  <2> QED  BY <1>0, <2>1, <2>2, QuotaKept
<1> QED  BY <1>0, <1>1, <1>2, NextSplit, QuotaBudget, QuotaPlanned DEF SlotStep

-----------------------------------------------------------------------------
(* What one step does to the records *)

\* A row that is still there belongs to the same request.
SameRow(q) ==
  Stored(q)' => /\ Stored(q) /\ records'[q].kind = records[q].kind
                /\ records'[q].key = records[q].key /\ records'[q].body = records[q].body

\* Nobody settled it.
SameOutcome(q) ==
  Stored(q)' => /\ records'[q].status \in {records[q].status, "expired"}
                /\ records'[q].reply = records[q].reply

RowsKept ==
  /\ DOMAIN records' = DOMAIN records /\ Len(records') = Len(records)
  /\ \A q \in DOMAIN records : SameRow(q) /\ SameOutcome(q)

\* The owner writes the outcome and is done.
RowsSettled(s) ==
  /\ Owner(h[s]) /\ Stored(h[s].rid) /\ h'[s] = Idle
  /\ DOMAIN records' = DOMAIN records /\ Len(records') = Len(records)
  /\ \A q \in DOMAIN records : SameRow(q)
  /\ \A q \in DOMAIN records : q # h[s].rid => records'[q] = records[q]
  /\ \/ records'[h[s].rid].status = "failed"
     \/ records'[h[s].rid].status = "succeeded" /\ records'[h[s].rid].reply = ReplyOf(s)

RowsInserted(s) ==
  /\ Inserted(s) /\ ~Refused(s) /\ h[s].kind \in Posts
  /\ records'[Len(records) + 1] = NewRecord(s) /\ DOMAIN records' = 1..Len(records')
  /\ \A q \in DOMAIN records : q \in DOMAIN records' /\ records'[q] = records[q]

RowsChange(s) == RowsKept \/ RowsSettled(s) \/ RowsInserted(s)

LEMMA RowsUnchanged ==
  ASSUME UNCHANGED records
  PROVE  RowsKept
  BY DEF RowsKept, SameRow, SameOutcome, Stored

LEMMA RowsWritten ==
  ASSUME TypeInv, NEW r \in DOMAIN records, Stored(r), NEW x \in Record, Written(r, x),
         x.kind = records[r].kind, x.key = records[r].key, x.body = records[r].body
  PROVE  /\ DOMAIN records' = DOMAIN records /\ Len(records') = Len(records)
         /\ \A q \in DOMAIN records : SameRow(q)
         /\ \A q \in DOMAIN records : q # r => records'[q] = records[q]
         /\ records'[r] = x
  BY DEF Written, SameRow, Stored

LEMMA RowsRemarked ==
  ASSUME TypeInv, NEW r \in DOMAIN records, Stored(r), NEW x \in Record, Written(r, x),
         x.kind = records[r].kind, x.key = records[r].key, x.body = records[r].body,
         x.reply = records[r].reply, x.status \in {records[r].status, "expired"}
  PROVE  RowsKept
<1>1. /\ DOMAIN records' = DOMAIN records /\ Len(records') = Len(records)
      /\ \A q \in DOMAIN records : SameRow(q)
      /\ \A q \in DOMAIN records : q # r => records'[q] = records[q]
      /\ records'[r] = x
  BY RowsWritten
<1> QED  BY <1>1 DEF RowsKept, SameOutcome

LEMMA RowsSettle ==
  ASSUME Shape, NEW s \in Slots, Owner(h[s]), Stored(h[s].rid), Return(s),
         Mark(h[s].rid, "failed") \/ Succeed(h[s].rid, s)
  PROVE  RowsSettled(s)
<1>1. TypeInv /\ h[s].rid \in Nat /\ h[s].rid <= Len(records) /\ h'[s] = Idle
  BY SlotFacts, ReturnMove DEF Shape
<1>2. h[s].rid \in DOMAIN records
  BY <1>1, StoredRecord
<1>3. PICK x \in Record :
        /\ Written(h[s].rid, x) /\ x.kind = records[h[s].rid].kind
        /\ x.key = records[h[s].rid].key /\ x.body = records[h[s].rid].body
        /\ \/ x.status = "failed"
           \/ x.status = "succeeded" /\ x.reply = ReplyOf(s)
  BY <1>1, MarkWrite, SucceedWrite DEF Statuses
<1>4. /\ DOMAIN records' = DOMAIN records /\ Len(records') = Len(records)
      /\ \A q \in DOMAIN records : SameRow(q)
      /\ \A q \in DOMAIN records : q # h[s].rid => records'[q] = records[q]
      /\ records'[h[s].rid] = x
  BY <1>1, <1>2, <1>3, RowsWritten
<1> QED  BY <1>1, <1>3, <1>4 DEF RowsSettled

LEMMA RowsChanged ==
  ASSUME Shape, NEW s \in Slots, SlotStep(s)
  PROVE  RowsChange(s)
<1>1. /\ TypeInv /\ Ready(h[s]) /\ h[s].rid \in Nat /\ h[s].rid <= Len(records)
      /\ Len(records) \in Nat
  BY SlotFacts DEF Shape
<1>2. CASE MarkExpired(s)
  <2>1. CASE Stored(h[s].rid)
    <3>1. Mark(h[s].rid, "expired") /\ h[s].rid \in DOMAIN records
      BY <1>1, <1>2, <2>1, StoredRecord DEF MarkExpired
    <3>2. PICK x \in Record :
            /\ Written(h[s].rid, x) /\ x.kind = records[h[s].rid].kind
            /\ x.key = records[h[s].rid].key /\ x.body = records[h[s].rid].body
            /\ x.reply = records[h[s].rid].reply /\ x.status = "expired"
      BY <1>1, <2>1, <3>1, MarkWrite DEF Statuses
    <3>3. RowsKept
      BY <1>1, <2>1, <3>1, <3>2, RowsRemarked
    <3> QED  BY <3>3 DEF RowsChange
  <2>2. CASE ~Stored(h[s].rid)
    BY <1>2, <2>2, RowsUnchanged DEF MarkExpired, RowsChange
  <2> QED  BY <2>1, <2>2
<1>3. CASE DropExpired(s)
  <2>1. h[s].rid \in DOMAIN records /\ records' = [records EXCEPT ![h[s].rid] = Gone]
    BY <1>1, <1>3 DEF DropExpired, Ready, TypeInv
  <2>2. Written(h[s].rid, Gone)
    BY <1>1, <2>1, WriteRecord
  <2>3. RowsKept
    BY <2>1, <2>2 DEF Written, RowsKept, SameRow, SameOutcome, Stored
  <2> QED  BY <2>3 DEF RowsChange
<1>4. CASE Insert(s)
  <2>1. h[s].pc = "insert" /\ h[s].kind \in Posts
    BY <1>1, <1>4 DEF Insert, Ready
  <2>2. CASE Refused(s)
    BY <1>4, <2>2, RowsUnchanged DEF Insert, RowsChange
  <2>3. CASE ~Refused(s)
    <3>1. /\ Len(records') = Len(records) + 1 /\ records'[Len(records) + 1] = NewRecord(s)
          /\ \A q \in DOMAIN records : q \in DOMAIN records' /\ records'[q] = records[q]
      BY <1>1, <1>4, <2>1, <2>3, InsertWrite
    <3>2. Inserted(s)
      BY <1>1, <1>4, <2>1, <2>3, <3>1, InsertMove DEF Inserted
    <3>3. DOMAIN records' = 1..Len(records')
      <4>1. records' \in Seq(Record \cup {Gone})
        BY <1>1, <1>4, <2>1, <2>3, InsertWrite
      <4> QED  BY <4>1
    <3> QED  BY <2>1, <2>3, <3>1, <3>2, <3>3 DEF RowsInserted, RowsChange
  <2> QED  BY <2>2, <2>3
<1>5. CASE PlanRaises(s)
  <2>1. h[s].pc = "plan"
    BY <1>5 DEF PlanRaises
  <2>2. CASE h[s].kind = "plans" /\ h[s].rid > 0 /\ Stored(h[s].rid)
    <3>1. Mark(h[s].rid, "failed") /\ Return(s) /\ Owner(h[s])
      BY <1>1, <1>5, <2>1, <2>2 DEF PlanRaises, Owner
    <3> QED  BY <2>2, <3>1, RowsSettle DEF RowsChange
  <2>3. CASE ~(h[s].kind = "plans" /\ h[s].rid > 0 /\ Stored(h[s].rid))
    <3>1. UNCHANGED records
      BY <1>1, <1>5, <2>3 DEF PlanRaises
    <3> QED  BY <3>1, RowsUnchanged DEF RowsChange
  <2> QED  BY <2>2, <2>3
<1>6. ASSUME NEW outcome \in Outcomes, CommitPlan(s, outcome)
      PROVE  RowsChange(s)
  <2>1. h[s].pc = "commit" /\ Return(s)
    BY <1>6 DEF CommitPlan
  <2>2. CASE h[s].rid > 0 /\ Stored(h[s].rid)
    <3>1. Succeed(h[s].rid, s) /\ Owner(h[s])
      BY <1>1, <1>6, <2>1, <2>2 DEF CommitPlan, Finished, Owner
    <3> QED  BY <2>1, <2>2, <3>1, RowsSettle DEF RowsChange
  <2>3. CASE ~(h[s].rid > 0 /\ Stored(h[s].rid))
    <3>1. UNCHANGED records
      BY <1>1, <1>6, <2>3 DEF CommitPlan, Finished
    <3> QED  BY <3>1, RowsUnchanged DEF RowsChange
  <2> QED  BY <2>2, <2>3
<1>7. CASE RecordConversation(s) \/ FailRecord(s)
  <2>1. h[s].pc \in {"record", "fail"} /\ Return(s)
    BY <1>7 DEF RecordConversation, FailRecord
  <2>2. Owner(h[s])
    BY <1>1, <2>1 DEF Ready, Owner
  <2>3. CASE Stored(h[s].rid)
    <3>1. Succeed(h[s].rid, s) \/ Mark(h[s].rid, "failed")
      BY <1>7, <2>3 DEF RecordConversation, FailRecord, Finished
    <3> QED  BY <2>1, <2>2, <2>3, <3>1, RowsSettle DEF RowsChange
  <2>4. CASE ~Stored(h[s].rid)
    <3>1. UNCHANGED records
      BY <1>7, <2>4 DEF RecordConversation, FailRecord, Finished
    <3> QED  BY <3>1, RowsUnchanged DEF RowsChange
  <2> QED  BY <2>3, <2>4
<1>8. ASSUME \/ \E kind \in Posts, body \in Bodies, key \in Headers : Begin(s, kind, body, key)
             \/ \E c \in DOMAIN convs, base \in Nat, field \in Askable, value \in Values :
                  Continue(s, c, base, field, value)
             \/ EnforceAIBudget(s) \/ Open(s)
             \/ \E used \in Usage : Planned(s, used)
             \/ \E outcome \in Outcomes : CommitConversation(s, outcome)
             \/ SaveRaises(s) \/ Stop(s)
      PROVE  RowsChange(s)
  <2>1. UNCHANGED records
    BY <1>8 DEF Begin, Continue, EnforceAIBudget, Open, Planned, CommitConversation, SaveRaises,
       Stop, tables
  <2> QED  BY <2>1, RowsUnchanged DEF RowsChange
<1> QED  BY <1>2, <1>3, <1>4, <1>5, <1>6, <1>7, <1>8 DEF SlotStep

LEMMA OtherRows ==
  ASSUME Shape, OtherStep \/ UNCHANGED vars
  PROVE  RowsKept /\ UNCHANGED <<runs, convs, h, strays>>
<1>1. UNCHANGED <<runs, convs, h, strays>>
  BY DEF OtherStep, SavePreference, DeletePreference, RecordExpires, tables, vars
<1>2. ASSUME NEW r \in DOMAIN records, RecordExpires(r)
      PROVE  RowsKept
  <2>1. TypeInv /\ Stored(r)
    BY <1>2 DEF Shape, RecordExpires, Valid
  <2>2. PICK x \in Record :
          /\ Written(r, x) /\ x.kind = records[r].kind /\ x.key = records[r].key
          /\ x.body = records[r].body /\ x.reply = records[r].reply
          /\ x.status = records[r].status
    BY <1>2, <2>1, ExpireWrite
  <2> QED  BY <2>1, <2>2, RowsRemarked
<1>3. ASSUME UNCHANGED records PROVE RowsKept
  BY <1>3, RowsUnchanged
<1>4. (\E r \in DOMAIN records : RecordExpires(r)) \/ UNCHANGED records
  BY DEF OtherStep, SavePreference, DeletePreference, tables, vars
<1> QED  BY <1>1, <1>2, <1>3, <1>4

-----------------------------------------------------------------------------
(* A record stays with its owner *)

LEMMA OwnerMoves ==
  ASSUME NEW s \in Slots, SlotMoves(s), Owner(h'[s])
  PROVE  \/ Owner(h[s]) /\ SameRequest(s) /\ h'[s].rid = h[s].rid
         \/ Inserted(s)
<1>1. ~Owner(Idle)
  BY IdleFields DEF Owner
<1>2. ~Arrive(s) /\ ~Answered(s) /\ ~Dropped(s)
  BY DEF Owner, Arrive, Answered, Dropped
<1> QED  BY <1>1, <1>2 DEF SlotMoves, Advance, Owner

LEMMA OwnStep ==
  ASSUME Shape, OwnInv, NEW s \in Slots, SlotMoves(s), RowsChange(s)
  PROVE  OwnInv'
<1>1. \A t \in Slots : h[t].rid \in Nat /\ h[t].rid <= Len(records)
  BY SlotFacts
<1>2. \A t \in Slots : Owner(h[t]) => h[t].rid \in DOMAIN records
  BY <1>1 DEF Owner, Shape, TypeInv
<1>3. Len(records) \in Nat
  BY SlotFacts
<1>4. Owner(h'[s]) => \/ Owner(h[s]) /\ SameRequest(s) /\ h'[s].rid = h[s].rid
                      \/ Inserted(s)
  BY OwnerMoves
<1>5. Others(s)
  BY DEF SlotMoves
<1>6. RowsKept \/ RowsSettled(s) => ~Inserted(s)
  BY <1>3 DEF RowsKept, RowsSettled, Inserted
<1> DEFINE Own(t) ==
      Owner(h[t]) /\ Stored(h[t].rid) =>
        LET x == records[h[t].rid] IN
        /\ x.kind = h[t].kind /\ x.key = h[t].key /\ x.body = h[t].body
        /\ x.status \in {"processing", "expired"}
<1>7. ASSUME NEW t \in Slots PROVE Own(t)'
  <2>1. Own(t)
    BY DEF OwnInv
  <2>2. CASE t # s
    <3>1. h'[t] = h[t]
      BY <1>5, <2>2 DEF Others
    <3>2. Owner(h[t]) /\ Owner(h[s]) => h[t].rid # h[s].rid
      BY <2>2 DEF OwnInv
    <3>3. CASE RowsKept
      BY <1>2, <2>1, <3>1, <3>3 DEF RowsKept, SameRow, SameOutcome
    <3>4. CASE RowsSettled(s)
      <4>1. Owner(h[t]) => records'[h[t].rid] = records[h[t].rid]
        BY <1>2, <3>2, <3>4 DEF RowsSettled
      <4> QED  BY <2>1, <3>1, <4>1 DEF Stored
    <3>5. CASE RowsInserted(s)
      <4>1. Owner(h[t]) => records'[h[t].rid] = records[h[t].rid]
        BY <1>2, <3>5 DEF RowsInserted
      <4> QED  BY <2>1, <3>1, <4>1 DEF Stored
    <3> QED  BY <3>3, <3>4, <3>5 DEF RowsChange
  <2>3. CASE t = s
    <3>1. CASE RowsKept
      <4>1. Owner(h'[s]) => Owner(h[s]) /\ SameRequest(s) /\ h'[s].rid = h[s].rid
        BY <1>4, <1>6, <3>1
      <4> QED  BY <1>2, <2>1, <2>3, <3>1, <4>1 DEF RowsKept, SameRow, SameOutcome, SameRequest
    <3>2. CASE RowsSettled(s)
      BY <2>3, <3>2, IdleFields DEF RowsSettled, Owner
    <3>3. CASE RowsInserted(s)
      BY <2>3, <3>3 DEF RowsInserted, Inserted, NewRecord, SameRequest
    <3> QED  BY <3>1, <3>2, <3>3 DEF RowsChange
  <2> QED  BY <2>2, <2>3
<1>8. ASSUME NEW t \in Slots, NEW u \in Slots, t # u, Owner(h'[t]), Owner(h'[u])
      PROVE  h'[t].rid # h'[u].rid
  <2>1. \A v \in Slots : v # s => h'[v] = h[v]
    BY <1>5 DEF Others
  <2>2. \A v, w \in Slots : v # w /\ Owner(h[v]) /\ Owner(h[w]) => h[v].rid # h[w].rid
    BY DEF OwnInv
  <2>3. CASE Inserted(s)
    <3>1. h'[s].rid = Len(records) + 1
      BY <2>3 DEF Inserted
    <3> QED  BY <1>1, <1>3, <1>8, <2>1, <2>2, <3>1
  <2>4. CASE ~Inserted(s)
    <3>1. Owner(h'[s]) => Owner(h[s]) /\ h'[s].rid = h[s].rid
      BY <1>4, <2>4
    <3> QED  BY <1>8, <2>1, <2>2, <3>1
  <2> QED  BY <2>3, <2>4
<1> HIDE DEF Own
<1>9. (\A t \in Slots : Own(t)') => (\A t \in Slots : Own(t))'
  OBVIOUS
<1> QED  BY <1>7, <1>8 DEF OwnInv, Own

LEMMA OwnOther ==
  ASSUME Shape, OwnInv, RowsKept, UNCHANGED h
  PROVE  OwnInv'
<1>1. \A t \in Slots : Owner(h[t]) => h[t].rid \in DOMAIN records
  BY SlotFacts DEF Owner, Shape, TypeInv
<1> QED  BY <1>1 DEF OwnInv, RowsKept, SameRow, SameOutcome

-----------------------------------------------------------------------------
(* A key has one row, and a reply belongs to the row's request *)

LEMMA InsertedDomain ==
  ASSUME Shape, NEW s \in Slots, RowsInserted(s)
  PROVE  \A q \in DOMAIN records' : q \in DOMAIN records \/ q = Len(records) + 1
<1>1. Len(records) \in Nat /\ DOMAIN records = 1..Len(records)
  BY DEF Shape, TypeInv
<1>2. Len(records') = Len(records) + 1 /\ DOMAIN records' = 1..Len(records')
  BY DEF RowsInserted, Inserted
<1> QED  BY <1>1, <1>2

LEMMA KeyStep ==
  ASSUME Shape, KeyInv, NEW s \in Slots, RowsChange(s)
  PROVE  KeyInv'
<1>1. CASE RowsKept \/ RowsSettled(s)
  <2>1. DOMAIN records' = DOMAIN records /\ \A q \in DOMAIN records : SameRow(q)
    BY <1>1 DEF RowsKept, RowsSettled
  <2> QED  BY <2>1 DEF KeyInv, SameRow
<1>2. CASE RowsInserted(s)
  <2>1. TypeInv /\ Len(records) \in Nat /\ DOMAIN records = 1..Len(records)
    BY DEF Shape, TypeInv
  <2>3. \A q \in DOMAIN records :
          ~(Stored(q) /\ records[q].kind = h[s].kind /\ records[q].key = h[s].key)
    <3>1. RecordOf(h[s].kind, h[s].key) = 0
      BY <1>2 DEF RowsInserted, Refused
    <3> QED  BY <2>1, <3>1, Found
  <2>4. /\ records'[Len(records) + 1].kind = h[s].kind
        /\ records'[Len(records) + 1].key = h[s].key
    BY <1>2 DEF RowsInserted, NewRecord
  <2>5. \A q \in DOMAIN records : records'[q] = records[q] /\ (Stored(q)' <=> Stored(q))
    BY <1>2 DEF RowsInserted, Stored
  <2>6. \A q \in DOMAIN records' : q \in DOMAIN records \/ q = Len(records) + 1
    BY <1>2, InsertedDomain
  <2> QED  BY <2>3, <2>4, <2>5, <2>6 DEF KeyInv
<1> QED  BY <1>1, <1>2 DEF RowsChange

LEMMA KeyOther ==
  ASSUME KeyInv, RowsKept
  PROVE  KeyInv'
  BY DEF KeyInv, RowsKept, SameRow

\* What a finished record replies is of its own request.
TrueReply(r) ==
  Stored(r) /\ records[r].status = "succeeded" =>
    /\ records[r].reply # NoReply /\ records[r].reply.kind = records[r].kind
    /\ records[r].reply.body = records[r].body

LEMMA ReplyKept ==
  ASSUME NEW q \in DOMAIN records, SameRow(q), SameOutcome(q), TrueReply(q)
  PROVE  TrueReply(q)'
  BY DEF SameRow, SameOutcome, TrueReply

LEMMA StraysKept ==
  ASSUME Shape, ReplyInv, NEW s \in Slots, SlotStep(s)
  PROVE  strays' = {}
<1>1. ASSUME NEW kind \in Posts, NEW body \in Bodies, NEW key \in Headers,
             Begin(s, kind, body, key)
      PROVE  strays' = {}
  <2> DEFINE r == IF key = NoKey THEN 0 ELSE RecordOf(kind, key)
  <2>1. IF Valid(r) /\ records[r].body = body /\ records[r].status = "succeeded"
        THEN Replay(kind, body, records[r].reply) ELSE UNCHANGED strays
    BY <1>1 DEF Begin
  <2>2. r # 0 => r \in DOMAIN records /\ Stored(r) /\ records[r].kind = kind
    <3>1. TypeInv
      BY DEF Shape
    <3> QED  BY <3>1, Found
  <2> HIDE DEF r
  <2>3. CASE Valid(r) /\ records[r].body = body /\ records[r].status = "succeeded"
    <3>1. r # 0
      BY <2>3 DEF Valid, Stored
    <3>2. records[r].reply.kind = kind /\ records[r].reply.body = body /\ strays = {}
      BY <2>2, <2>3, <3>1 DEF ReplyInv
    <3> QED  BY <2>1, <2>3, <3>2 DEF Replay
  <2>4. CASE ~(Valid(r) /\ records[r].body = body /\ records[r].status = "succeeded")
    BY <2>1, <2>4 DEF ReplyInv
  <2> QED  BY <2>3, <2>4
<1>2. CASE ~\E kind \in Posts, body \in Bodies, key \in Headers : Begin(s, kind, body, key)
  <2>1. UNCHANGED strays
    BY <1>2 DEF SlotStep, Continue, MarkExpired, DropExpired, Insert, EnforceAIBudget, Open,
       Planned, PlanRaises, CommitPlan, CommitConversation, RecordConversation, FailRecord,
       SaveRaises, Stop
  <2> QED  BY <2>1 DEF ReplyInv
<1> QED  BY <1>1, <1>2

LEMMA ReplyStep ==
  ASSUME Shape, OwnInv, ReplyInv, NEW s \in Slots, SlotStep(s), RowsChange(s)
  PROVE  ReplyInv'
<1>1. strays' = {}
  BY StraysKept
<1>2. \A q \in DOMAIN records : TrueReply(q)
  BY DEF ReplyInv, TrueReply
<1>3. TypeInv /\ Len(records) \in Nat /\ DOMAIN records = 1..Len(records)
  BY DEF Shape, TypeInv
<1>4. ASSUME NEW q \in DOMAIN records'
      PROVE  TrueReply(q)'
  <2>1. CASE RowsKept
    BY <1>2, <2>1, ReplyKept DEF RowsKept
  <2>2. CASE RowsSettled(s)
    <3>1. q \in DOMAIN records /\ SameRow(q)
      BY <2>2 DEF RowsSettled
    <3>2. CASE q # h[s].rid
      BY <1>2, <2>2, <3>1, <3>2 DEF RowsSettled, TrueReply, Stored
    <3>3. CASE q = h[s].rid
      <4>1. records[q].kind = h[s].kind /\ records[q].body = h[s].body
        BY <2>2, <3>3 DEF OwnInv, RowsSettled
      <4>2. records[q] \in Record
        BY <1>3, <2>2, <3>1, <3>3, StoredRecord DEF RowsSettled
      <4>3. h[s].kind # "none"
        BY <4>1, <4>2 DEF Record, Posts
      <4>4. ReplyOf(s).kind = h[s].kind /\ ReplyOf(s).body = h[s].body /\ ReplyOf(s) # NoReply
        BY <4>3 DEF ReplyOf, NoReply
      <4> HIDE DEF TrueReply
      <4>5. \/ records'[q].status = "failed"
            \/ records'[q].status = "succeeded" /\ records'[q].reply = ReplyOf(s)
        BY <2>2, <3>3 DEF RowsSettled
      <4> QED  BY <3>1, <4>1, <4>4, <4>5 DEF TrueReply, SameRow
    <3> QED  BY <3>2, <3>3
  <2>3. CASE RowsInserted(s)
    <3>1. CASE q \in DOMAIN records
      BY <1>2, <2>3, <3>1 DEF RowsInserted, TrueReply, Stored
    <3>2. CASE q \notin DOMAIN records
      <4>2. q = Len(records) + 1
        BY <2>3, <3>2, InsertedDomain
      <4> QED  BY <2>3, <4>2 DEF RowsInserted, NewRecord, TrueReply
    <3> QED  BY <3>1, <3>2
  <2> QED  BY <2>1, <2>2, <2>3 DEF RowsChange
<1> QED  BY <1>1, <1>4 DEF ReplyInv, TrueReply

LEMMA ReplyOther ==
  ASSUME ReplyInv, RowsKept, UNCHANGED strays
  PROVE  ReplyInv'
<1>1. \A q \in DOMAIN records' : TrueReply(q)'
  BY ReplyKept DEF RowsKept, ReplyInv, TrueReply
<1> QED  BY <1>1 DEF ReplyInv, TrueReply

-----------------------------------------------------------------------------
(* What one step does to the runs *)

StaysPlanning(s, kind) ==
  Planning(h'[s], kind) =>
    Planning(h[s], kind) /\ h'[s].id = h[s].id /\ h'[s].rid = h[s].rid

\* The row that is r now is there after the step.
StoredNext(r) == r > 0 /\ records'[r] # Gone

RunsKept(s) ==
  /\ UNCHANGED runs /\ StaysPlanning(s, "plans")
  /\ RowsKept \/ RowsInserted(s) \/ (RowsSettled(s) /\ h[s].kind # "plans")

RunOpened(s) ==
  /\ h[s].kind = "plans" /\ h[s].pc = "open" /\ RowsKept
  /\ h'[s].pc = "plan" /\ h'[s].rid = h[s].rid /\ h'[s].id = Len(runs) + 1
  /\ Len(runs) + 1 \in DOMAIN runs'
  /\ runs'[Len(runs) + 1].rid = h[s].rid /\ ~runs'[Len(runs) + 1].version
  /\ \A i \in DOMAIN runs' : i = Len(runs) + 1 \/ i \in DOMAIN runs
  /\ \A i \in DOMAIN runs : i \in DOMAIN runs' /\ runs'[i] = runs[i]

\* The record of the run, if it has one, tells what is stored of the run.
RunEnded(s) ==
  LET i == h[s].id
      r == h[s].rid IN
  /\ Planning(h[s], "plans") /\ h'[s] = Idle /\ (RowsKept \/ RowsSettled(s))
  /\ DOMAIN runs' = DOMAIN runs /\ \A j \in DOMAIN runs : j # i => runs'[j] = runs[j]
  /\ runs'[i].rid = runs[i].rid
  /\ \/ /\ runs'[i].version = runs[i].version
        /\ StoredNext(r) => records'[r].status = "failed"
     \/ /\ runs'[i].status = "need_clarification" \/ runs'[i].version
        /\ StoredNext(r) => records'[r].status = "succeeded" /\ records'[r].reply = ReplyOf(s)

RunsChange(s) == RunsKept(s) \/ RunOpened(s) \/ RunEnded(s)

\* A handler that ends, starts or is on its way to the planning does not plan.
LEMMA PlanningMoves ==
  ASSUME NEW s \in Slots, SlotMoves(s), NEW kind \in Posts,
         h[s].pc = "open" => h'[s] = Idle,
         h[s].pc = "plan" => h'[s].id = h[s].id \/ h'[s].pc \notin {"plan", "commit"}
  PROVE  StaysPlanning(s, kind)
<1>1. ~Planning(Idle, kind)
  BY IdleFields DEF Planning
<1>2. Arrive(s) \/ Answered(s) \/ Dropped(s) \/ Inserted(s) => ~Planning(h'[s], kind)
  BY DEF Arrive, Answered, Dropped, Inserted, Planning
<1>3. CASE Advance(s)
  BY <1>3, IdleFields DEF Advance, SameRequest, Planning, StaysPlanning
<1> QED  BY <1>1, <1>2, <1>3 DEF SlotMoves, StaysPlanning

LEMMA RunsUntouched ==
  ASSUME Shape, NEW s \in Slots, SlotStep(s), UNCHANGED runs, StaysPlanning(s, "plans"),
         ~Owner(h[s]) \/ h[s].kind # "plans" \/ UNCHANGED records
  PROVE  RunsKept(s)
<1>1. RowsChange(s)
  BY RowsChanged
<1>2. RowsKept \/ RowsInserted(s) \/ (RowsSettled(s) /\ h[s].kind # "plans")
  BY <1>1, RowsUnchanged DEF RowsChange, RowsSettled
<1> QED  BY <1>2 DEF RunsKept

LEMMA RunsChanged ==
  ASSUME Shape, NEW s \in Slots, SlotStep(s)
  PROVE  RunsChange(s)
<1>1. /\ TypeInv /\ Ready(h[s]) /\ h[s].rid \in Nat /\ h[s].rid <= Len(records)
      /\ Points(h[s], Len(records), Len(runs), Len(convs)) /\ h[s].kind \in Kinds
      /\ SlotMoves(s) /\ RowsChange(s)
  BY SlotFacts, SlotMove, RowsChanged DEF Shape
<1>2. CASE Open(s)
  <2>1. UNCHANGED records /\ h[s].pc = "open"
    BY <1>2 DEF Open
  <2>2. CASE h[s].kind = "plans"
    <3> DEFINE x == [status |-> "running", version |-> FALSE, rid |-> h[s].rid]
    <3>1. x \in Run /\ x.rid = h[s].rid /\ ~x.version
      BY <1>1 DEF Run
    <3>2. /\ h'[s].pc = "plan" /\ h'[s].id = Len(runs) + 1 /\ h'[s].rid = h[s].rid
          /\ runs' = Append(runs, x)
      BY <1>1, <1>2, <2>2, OpenPlanMove
    <3> HIDE DEF x
    <3>3. /\ runs' \in Seq(Run) /\ Len(runs') = Len(runs) + 1 /\ runs'[Len(runs) + 1] = x
          /\ \A i \in DOMAIN runs' :
               i = Len(runs) + 1 \/ (i \in DOMAIN runs /\ runs'[i] = runs[i])
          /\ \A i \in DOMAIN runs : i \in DOMAIN runs' /\ runs'[i] = runs[i]
      BY <1>1, <3>1, <3>2, AppendRun
    <3>4. Len(runs) + 1 \in DOMAIN runs'
      BY <1>1, <3>3 DEF TypeInv
    <3>5. RunOpened(s)
      BY <2>1, <2>2, <3>1, <3>2, <3>3, <3>4, RowsUnchanged DEF RunOpened
    <3> QED  BY <3>5 DEF RunsChange
  <2>3. CASE h[s].kind # "plans"
    <3>1. UNCHANGED runs
      BY <1>1, <1>2, <2>1, <2>3 DEF Open, Ready, Kinds, Posts
    <3>2. StaysPlanning(s, "plans")
      <4>1. h'[s].kind # "plans"
        BY <1>1, <2>1, <2>3, IdleFields DEF SlotMoves, Advance, Arrive, Answered, Dropped,
           Inserted, SameRequest
      <4> QED  BY <4>1 DEF StaysPlanning, Planning
    <3> QED  BY <2>1, <3>1, <3>2, RunsUntouched DEF RunsChange
  <2> QED  BY <2>2, <2>3
<1>3. CASE PlanRaises(s)
  <2>1. h[s].pc = "plan"
    BY <1>3 DEF PlanRaises
  <2>2. CASE h[s].kind = "plans" /\ ~(h[s].rid > 0 /\ ~Stored(h[s].rid))
    <3>1. h[s].id \in 1..Len(runs) /\ Planning(h[s], "plans")
      BY <1>1, <2>1, <2>2 DEF Points, Planning
    <3>2. runs' = [runs EXCEPT ![h[s].id] = [@ EXCEPT !.status = "failed"]] /\ Return(s)
      BY <1>3, <2>2 DEF PlanRaises
    <3>3. PICK x \in Run : RunWritten(h[s].id, x) /\ x.rid = runs[h[s].id].rid
                           /\ x.version = runs[h[s].id].version
      BY <1>1, <3>1, <3>2, RunFails
    <3>4. h'[s] = Idle
      BY <1>1, <3>2, ReturnMove
    <3>5. (RowsKept \/ RowsSettled(s)) /\ (StoredNext(h[s].rid) => records'[h[s].rid].status = "failed")
      <4>1. CASE h[s].rid = 0
        <5>1. UNCHANGED records
          BY <1>3, <2>2, <4>1 DEF PlanRaises
        <5> QED  BY <4>1, <5>1, RowsUnchanged DEF StoredNext
      <4>2. CASE h[s].rid # 0
        <5>1. Mark(h[s].rid, "failed") /\ Stored(h[s].rid) /\ Owner(h[s])
          BY <1>1, <1>3, <2>1, <2>2, <4>2 DEF PlanRaises, Owner
        <5>2. RowsSettled(s)
          BY <3>2, <5>1, RowsSettle
        <5>3. PICK y \in Record : Written(h[s].rid, y) /\ y.status = "failed"
          BY <1>1, <5>1, MarkWrite DEF Statuses
        <5> QED  BY <5>2, <5>3 DEF Written
      <4> QED  BY <4>1, <4>2
    <3>6. RunEnded(s)
      BY <3>1, <3>3, <3>4, <3>5 DEF RunEnded, RunWritten
    <3> QED  BY <3>6 DEF RunsChange
  <2>3. CASE ~(h[s].kind = "plans" /\ ~(h[s].rid > 0 /\ ~Stored(h[s].rid)))
    <3>1. UNCHANGED <<runs, records>> /\ (Return(s) \/ Goto(s, "fail"))
      BY <1>3, <2>3 DEF PlanRaises
    <3>2. h'[s] = Idle \/ h'[s].pc = "fail"
      BY <1>1, <3>1, ReturnMove, GotoMove DEF PCs
    <3>3. StaysPlanning(s, "plans")
      BY <3>2, IdleFields DEF StaysPlanning, Planning
    <3> QED  BY <3>1, <3>3, RunsUntouched DEF RunsChange
  <2> QED  BY <2>2, <2>3
<1>4. ASSUME NEW outcome \in Outcomes, CommitPlan(s, outcome)
      PROVE  RunsChange(s)
  <2>1. h[s].pc = "commit" /\ h[s].kind = "plans" /\ Return(s)
    BY <1>4 DEF CommitPlan
  <2>2. h'[s] = Idle
    BY <1>1, <2>1, ReturnMove
  <2>3. CASE ~(h[s].rid > 0 /\ ~Stored(h[s].rid))
    <3>1. h[s].id \in 1..Len(runs) /\ Planning(h[s], "plans")
      BY <1>1, <2>1 DEF Points, Planning
    <3>2. runs' = [runs EXCEPT ![h[s].id] =
                     [@ EXCEPT !.status = outcome, !.version = outcome # "need_clarification"]]
      BY <1>4, <2>3 DEF CommitPlan, Finished
    <3>3. PICK x \in Run : /\ RunWritten(h[s].id, x) /\ x.rid = runs[h[s].id].rid
                           /\ x.status = outcome
                           /\ x.version = (outcome # "need_clarification")
      BY <1>1, <3>1, <3>2, RunResult
    <3>4. /\ RowsKept \/ RowsSettled(s)
          /\ StoredNext(h[s].rid) => /\ records'[h[s].rid].status = "succeeded"
                                  /\ records'[h[s].rid].reply = ReplyOf(s)
      <4>1. CASE h[s].rid = 0
        <5>1. UNCHANGED records
          BY <1>4, <2>3, <4>1 DEF CommitPlan, Finished
        <5> QED  BY <4>1, <5>1, RowsUnchanged DEF StoredNext
      <4>2. CASE h[s].rid # 0
        <5>1. Succeed(h[s].rid, s) /\ Stored(h[s].rid) /\ Owner(h[s])
          BY <1>1, <1>4, <2>1, <2>3, <4>2 DEF CommitPlan, Finished, Owner
        <5>2. RowsSettled(s)
          BY <2>1, <5>1, RowsSettle
        <5>3. PICK y \in Record :
                Written(h[s].rid, y) /\ y.status = "succeeded" /\ y.reply = ReplyOf(s)
          BY <1>1, <5>1, SucceedWrite
        <5> QED  BY <5>2, <5>3 DEF Written
      <4> QED  BY <4>1, <4>2
    <3>5. runs'[h[s].id].status = "need_clarification" \/ runs'[h[s].id].version
      BY <3>3 DEF RunWritten
    <3>6. RunEnded(s)
      BY <2>2, <3>1, <3>3, <3>4, <3>5 DEF RunEnded, RunWritten
    <3> QED  BY <3>6 DEF RunsChange
  <2>4. CASE h[s].rid > 0 /\ ~Stored(h[s].rid)
    <3>1. UNCHANGED <<runs, records>>
      BY <1>4, <2>4 DEF CommitPlan, Finished
    <3>2. StaysPlanning(s, "plans")
      BY <2>2, IdleFields DEF StaysPlanning, Planning
    <3> QED  BY <3>1, <3>2, RunsUntouched DEF RunsChange
  <2> QED  BY <2>3, <2>4
<1>5. ASSUME \/ \E kind \in Posts, body \in Bodies, key \in Headers : Begin(s, kind, body, key)
             \/ \E c \in DOMAIN convs, base \in Nat, field \in Askable, value \in Values :
                  Continue(s, c, base, field, value)
             \/ MarkExpired(s) \/ DropExpired(s) \/ Insert(s) \/ EnforceAIBudget(s)
             \/ \E used \in Usage : Planned(s, used)
             \/ \E outcome \in Outcomes : CommitConversation(s, outcome)
             \/ RecordConversation(s) \/ FailRecord(s) \/ SaveRaises(s) \/ Stop(s)
      PROVE  RunsChange(s)
  <2>1. UNCHANGED runs
    BY <1>5 DEF Begin, Continue, MarkExpired, DropExpired, Insert, EnforceAIBudget, Planned,
       CommitConversation, RecordConversation, FailRecord, SaveRaises, Stop, tables
  <2>2. \/ h[s].pc \in {"idle", "expire", "drop", "insert", "budget", "commit"}
        \/ \E used \in Usage : Planned(s, used)
        \/ h[s].pc \in {"record", "fail"}
        \/ Return(s) \/ Goto(s, "fail")
    BY <1>5 DEF Begin, Continue, MarkExpired, DropExpired, Insert, EnforceAIBudget,
       CommitConversation, RecordConversation, FailRecord, SaveRaises, Stop
  <2>3. StaysPlanning(s, "plans")
    <3>1. CASE \E used \in Usage : Planned(s, used)
      <4>1. h[s].pc = "plan" /\ Goto(s, "commit")
        BY <3>1 DEF Planned
      <4>2. h'[s].id = h[s].id
        BY <1>1, <4>1, GotoMove DEF PCs
      <4> QED  BY <1>1, <4>1, <4>2, PlanningMoves DEF Posts
    <3>2. CASE Return(s) \/ Goto(s, "fail")
      <4>1. h'[s] = Idle \/ h'[s].pc = "fail"
        BY <1>1, <3>2, ReturnMove, GotoMove DEF PCs
      <4> QED  BY <4>1, IdleFields DEF StaysPlanning, Planning
    <3>3. CASE h[s].pc \in {"idle", "expire", "drop", "insert", "budget", "commit", "record",
                            "fail"}
      BY <1>1, <3>3, PlanningMoves DEF Posts
    <3> QED  BY <2>2, <3>1, <3>2, <3>3
  <2>4. ~Owner(h[s]) \/ h[s].kind # "plans" \/ UNCHANGED records
    <3>1. CASE MarkExpired(s) \/ DropExpired(s) \/ Insert(s)
      BY <1>1, <3>1 DEF MarkExpired, DropExpired, Insert, Owner, Ready
    <3>2. CASE RecordConversation(s) \/ FailRecord(s)
      BY <1>1, <3>2 DEF RecordConversation, FailRecord, Ready
    <3>3. CASE ~(MarkExpired(s) \/ DropExpired(s) \/ Insert(s) \/ RecordConversation(s)
                 \/ FailRecord(s))
      BY <1>5, <3>3 DEF Begin, Continue, EnforceAIBudget, Planned, CommitConversation,
         SaveRaises, Stop, tables
    <3> QED  BY <3>1, <3>2, <3>3
  <2> QED  BY <2>1, <2>3, <2>4, RunsUntouched DEF RunsChange
<1> QED  BY <1>2, <1>3, <1>4, <1>5 DEF SlotStep

-----------------------------------------------------------------------------
(* Runs have records of their own *)

LEMMA RowStays ==
  ASSUME Shape, NEW s \in Slots, RowsChange(s), NEW r \in Nat, r <= Len(records)
  PROVE  /\ r <= Len(records')
         /\ StoredNext(r) => Stored(r) /\ records'[r].kind = records[r].kind
<1>1. Len(records) \in Nat /\ DOMAIN records = 1..Len(records)
  BY DEF Shape, TypeInv
<1>2. r <= Len(records')
  <2>1. Len(records') = Len(records) \/ Len(records') = Len(records) + 1
    BY DEF RowsChange, RowsKept, RowsSettled, RowsInserted, Inserted
  <2> QED  BY <1>1, <2>1
<1>3. CASE r = 0
  BY <1>2, <1>3 DEF StoredNext
<1>4. CASE r # 0
  <2>1. r \in DOMAIN records
    BY <1>1, <1>4
  <2>2. SameRow(r) \/ records'[r] = records[r]
    BY <2>1 DEF RowsChange, RowsKept, RowsSettled, RowsInserted
  <2> QED  BY <1>2, <2>2 DEF SameRow, StoredNext, Stored
<1> QED  BY <1>3, <1>4

\* The rid of a handler that has not opened what it plans.
LEMMA UnopenedMoves ==
  ASSUME NEW s \in Slots, SlotMoves(s), Unopened(h'[s])
  PROVE  \/ Unopened(h[s]) /\ h'[s].rid = h[s].rid
         \/ h'[s].rid = Len(records) + 1
<1>1. ~Unopened(Idle)
  BY IdleFields DEF Unopened
<1>2. ~Arrive(s) /\ ~Answered(s) /\ ~Dropped(s)
  BY DEF Unopened, Arrive, Answered, Dropped
<1> QED  BY <1>1, <1>2 DEF SlotMoves, Advance, Inserted, Unopened

RunRids ==
  \A i \in DOMAIN runs : runs[i].rid \in Nat /\ runs[i].rid <= Len(records)

LEMMA RunRidStep ==
  ASSUME Shape, OwnInv, RunRidInv, NEW s \in Slots, SlotMoves(s), RowsChange(s), RunsChange(s)
  PROVE  RunRidInv'
<1>1. TypeInv /\ Len(records) \in Nat /\ Len(runs) \in Nat /\ DOMAIN runs = 1..Len(runs)
  BY DEF Shape, TypeInv
<1>2. RunRids
  <2>1. \A i \in DOMAIN runs : runs[i] \in Run
    BY <1>1 DEF TypeInv
  <2> QED  BY <2>1 DEF RunRidInv, RunRids, Run
<1>3. \A t \in Slots : h[t].rid \in Nat /\ h[t].rid <= Len(records)
  BY SlotFacts
<1>4. \A t \in Slots : t # s => h'[t] = h[t]
  BY DEF SlotMoves, Others
<1>5. Unopened(h'[s]) => \/ Unopened(h[s]) /\ h'[s].rid = h[s].rid
                         \/ h'[s].rid = Len(records) + 1
  BY UnopenedMoves
<1>6. \A t, u \in Slots : t # u /\ Owner(h[t]) /\ Owner(h[u]) => h[t].rid # h[u].rid
  BY DEF OwnInv
<1> DEFINE Fits(i) == /\ runs[i].rid <= Len(records)
                      /\ Stored(runs[i].rid) => records[runs[i].rid].kind = "plans"
<1>7. \A i \in DOMAIN runs : Fits(i)
  BY DEF RunRidInv
<1>8. CASE RunsKept(s) \/ RunEnded(s)
  <2>1. DOMAIN runs' = DOMAIN runs /\ \A i \in DOMAIN runs : runs'[i].rid = runs[i].rid
    BY <1>8 DEF RunsKept, RunEnded
  <2>2. ASSUME NEW i \in DOMAIN runs PROVE Fits(i)'
    <3>1. /\ runs[i].rid <= Len(records')
          /\ StoredNext(runs[i].rid) =>
               Stored(runs[i].rid) /\ records'[runs[i].rid].kind = records[runs[i].rid].kind
      BY <1>2, RowStays DEF RunRids
    <3> QED  BY <1>7, <2>1, <3>1 DEF Stored, StoredNext
  <2>3. \A i, j \in DOMAIN runs : i # j /\ runs'[i].rid > 0 => runs'[i].rid # runs'[j].rid
    BY <2>1 DEF RunRidInv
  <2>4. \A t \in Slots, i \in DOMAIN runs : Unopened(h'[t]) => runs'[i].rid # h'[t].rid
    BY <1>1, <1>2, <1>4, <1>5, <2>1 DEF RunRidInv, RunRids
  <2> QED  BY <2>1, <2>2, <2>3, <2>4 DEF RunRidInv
<1>9. CASE RunOpened(s)
  <2> DEFINE n == Len(runs) + 1
  <2>1. /\ n \in DOMAIN runs' /\ runs'[n].rid = h[s].rid /\ n \notin DOMAIN runs
        /\ \A i \in DOMAIN runs' : i = n \/ i \in DOMAIN runs
        /\ \A i \in DOMAIN runs : i \in DOMAIN runs' /\ runs'[i] = runs[i]
    BY <1>1, <1>9 DEF RunOpened
  <2>2. h[s].pc = "open" /\ h[s].kind = "plans" /\ h'[s].pc = "plan"
    BY <1>9 DEF RunOpened
  <2>3. Stored(h[s].rid) => records[h[s].rid].kind = "plans"
    <3>1. Stored(h[s].rid) => Owner(h[s])
      BY <2>2 DEF Stored, Owner
    <3> QED  BY <2>2, <3>1 DEF OwnInv
  <2> HIDE DEF n
  <2>4. ASSUME NEW i \in DOMAIN runs' PROVE Fits(i)'
    <3>1. CASE i = n
      <4>1. /\ h[s].rid <= Len(records')
            /\ StoredNext(h[s].rid) =>
                 Stored(h[s].rid) /\ records'[h[s].rid].kind = records[h[s].rid].kind
        BY <1>3, RowStays
      <4> QED  BY <2>1, <2>3, <3>1, <4>1 DEF Stored, StoredNext
    <3>2. CASE i # n
      <4>1. i \in DOMAIN runs /\ runs'[i] = runs[i]
        BY <2>1, <3>2
      <4>2. /\ runs[i].rid <= Len(records')
            /\ StoredNext(runs[i].rid) =>
                 Stored(runs[i].rid) /\ records'[runs[i].rid].kind = records[runs[i].rid].kind
        BY <1>2, <4>1, RowStays DEF RunRids
      <4> QED  BY <1>7, <4>1, <4>2 DEF Stored, StoredNext
    <3> QED  BY <3>1, <3>2
  <2>5. \A i \in DOMAIN runs : h[s].rid > 0 => runs[i].rid # h[s].rid
    BY <2>2 DEF RunRidInv, Unopened
  <2>6. \A i, j \in DOMAIN runs' : i # j /\ runs'[i].rid > 0 => runs'[i].rid # runs'[j].rid
    <3>1. \A i, j \in DOMAIN runs : i # j /\ runs[i].rid > 0 => runs[i].rid # runs[j].rid
      BY DEF RunRidInv
    <3> QED  BY <2>1, <2>5, <3>1
  <2>7. ASSUME NEW t \in Slots, NEW i \in DOMAIN runs', Unopened(h'[t])
        PROVE  runs'[i].rid # h'[t].rid
    <3>1. t # s /\ h'[t] = h[t] /\ Unopened(h[t]) /\ h[t].rid > 0
      BY <1>4, <2>2, <2>7 DEF Unopened
    <3>2. h[t].rid # h[s].rid
      <4>1. Owner(h[t]) /\ (h[s].rid > 0 => Owner(h[s]))
        BY <2>2, <3>1 DEF Owner, Unopened
      <4> QED  BY <1>3, <1>6, <3>1, <4>1
    <3> QED  BY <2>1, <3>1, <3>2 DEF RunRidInv
  <2> QED  BY <2>4, <2>6, <2>7 DEF RunRidInv
<1> QED  BY <1>8, <1>9 DEF RunsChange

LEMMA RunRidOther ==
  ASSUME Shape, RunRidInv, RowsKept, UNCHANGED <<runs, h>>
  PROVE  RunRidInv'
<1>1. \A i \in DOMAIN runs : Stored(runs[i].rid) => runs[i].rid \in DOMAIN records
  <2>1. \A i \in DOMAIN runs : runs[i] \in Run
    BY DEF Shape, TypeInv
  <2> QED  BY <2>1 DEF RunRidInv, Stored, Run, Shape, TypeInv
<1>2. \A i \in DOMAIN runs : runs[i].rid > 0 => runs[i].rid \in DOMAIN records
  <2>1. \A i \in DOMAIN runs : runs[i] \in Run
    BY DEF Shape, TypeInv
  <2> QED  BY <2>1 DEF RunRidInv, Run, Shape, TypeInv
<1> QED  BY <1>2 DEF RunRidInv, RowsKept, SameRow, Stored

LEMMA RunWorkStep ==
  ASSUME Shape, RunWorkInv, NEW s \in Slots, SlotMoves(s), RunsChange(s)
  PROVE  RunWorkInv'
<1>1. Len(runs) \in Nat /\ DOMAIN runs = 1..Len(runs)
  BY DEF Shape, TypeInv
<1>2. \A t \in Slots : t # s => h'[t] = h[t]
  BY DEF SlotMoves, Others
<1>3. \A t \in Slots : Planning(h[t], "plans") => h[t].id \in DOMAIN runs
  BY <1>1, SlotFacts DEF Planning, Points
<1>4. /\ \A t \in Slots : Planning(h[t], "plans") =>
           runs[h[t].id].rid = h[t].rid /\ ~runs[h[t].id].version
      /\ \A t, u \in Slots : t # u /\ Planning(h[t], "plans") /\ Planning(h[u], "plans") =>
           h[t].id # h[u].id
  BY DEF RunWorkInv
<1>5. CASE RunsKept(s)
  <2>1. /\ runs' = runs
        /\ Planning(h'[s], "plans") =>
             Planning(h[s], "plans") /\ h'[s].id = h[s].id /\ h'[s].rid = h[s].rid
    BY <1>5 DEF RunsKept, StaysPlanning
  <2> QED  BY <1>2, <1>4, <2>1 DEF RunWorkInv
<1>6. CASE RunOpened(s)
  <2>1. /\ h'[s].id = Len(runs) + 1 /\ runs'[Len(runs) + 1].rid = h'[s].rid
        /\ ~runs'[Len(runs) + 1].version /\ \A i \in DOMAIN runs : runs'[i] = runs[i]
    BY <1>6 DEF RunOpened
  <2>2. \A t \in Slots : t # s /\ Planning(h'[t], "plans") =>
          h'[t].id # Len(runs) + 1 /\ h'[t].id \in DOMAIN runs
    BY <1>1, <1>2, <1>3
  <2> QED  BY <1>2, <1>4, <2>1, <2>2 DEF RunWorkInv
<1>7. CASE RunEnded(s)
  <2>1. /\ Planning(h[s], "plans") /\ ~Planning(h'[s], "plans")
        /\ \A j \in DOMAIN runs : j # h[s].id => runs'[j] = runs[j]
    BY <1>7, IdleFields DEF RunEnded, Planning
  <2> QED  BY <1>2, <1>3, <1>4, <2>1 DEF RunWorkInv
<1> QED  BY <1>5, <1>6, <1>7 DEF RunsChange

-----------------------------------------------------------------------------
(* What a record tells of its run *)

LEMMA RunToldKept ==
  ASSUME NEW r \in DOMAIN records, Stored(r) => RunTold(r), SameRow(r), SameOutcome(r),
         UNCHANGED runs, Stored(r)'
  PROVE  RunTold(r)'
<1>1. /\ Stored(r) /\ records'[r].status \in {records[r].status, "expired"}
      /\ records'[r].reply = records[r].reply
  BY DEF SameRow, SameOutcome
<1> QED  BY <1>1 DEF RunTold

LEMMA RunToldStep ==
  ASSUME Shape, OwnInv, RunRidInv, RunWorkInv, RunToldInv, NEW s \in Slots, RunsChange(s)
  PROVE  RunToldInv'
<1>1. /\ \A t \in Slots : Planning(h[t], "plans") => h[t].id \in DOMAIN runs
      /\ Len(runs) \in Nat /\ DOMAIN runs = 1..Len(runs)
  BY SlotFacts DEF Planning, Points, Shape, TypeInv
<1>2. SUFFICES ASSUME NEW r \in DOMAIN records', Stored(r)'
               PROVE  RunTold(r)'
  BY DEF RunToldInv
<1>3. r \in DOMAIN records /\ Stored(r) => RunTold(r)
  BY DEF RunToldInv
<1>4. CASE RunsKept(s) /\ RowsKept
  BY <1>2, <1>3, <1>4, RunToldKept DEF RunsKept, RowsKept
<1>5. CASE RunsKept(s) /\ RowsInserted(s)
  <2>1. CASE r \in DOMAIN records
    <3>1. runs' = runs /\ records'[r] = records[r] /\ Stored(r)
      BY <1>2, <1>5, <2>1 DEF RunsKept, RowsInserted, Stored
    <3> QED  BY <1>3, <2>1, <3>1 DEF RunTold
  <2>2. CASE r \notin DOMAIN records
    <3>1. r = Len(records) + 1
      BY <1>5, <2>2, InsertedDomain
    <3> QED  BY <1>5, <3>1 DEF RowsInserted, NewRecord, RunTold
  <2> QED  BY <2>1, <2>2
<1>6. CASE RunsKept(s) /\ RowsSettled(s) /\ h[s].kind # "plans"
  <2>1. runs' = runs /\ r \in DOMAIN records /\ SameRow(r)
    BY <1>6 DEF RunsKept, RowsSettled
  <2>2. CASE r # h[s].rid
    <3>1. records'[r] = records[r] /\ Stored(r)
      BY <1>2, <1>6, <2>1, <2>2 DEF RowsSettled, Stored
    <3> QED  BY <1>3, <2>1, <3>1 DEF RunTold
  <2>3. CASE r = h[s].rid
    <3>1. records[r].kind # "plans" /\ Stored(r)
      BY <1>6, <2>3 DEF OwnInv, RowsSettled
    <3>2. \A i \in DOMAIN runs : runs[i].rid # r
      BY <3>1 DEF RunRidInv
    <3>3. \/ records'[r].status = "failed"
          \/ records'[r].status = "succeeded" /\ records'[r].reply.kind # "plans"
      BY <1>6, <2>3 DEF RowsSettled, ReplyOf
    <3> QED  BY <2>1, <3>2, <3>3 DEF RunTold
  <2> QED  BY <2>2, <2>3
<1>7. CASE RunOpened(s)
  <2>1. /\ r \in DOMAIN records /\ SameRow(r) /\ SameOutcome(r)
        /\ ~runs'[Len(runs) + 1].version
        /\ \A i \in DOMAIN runs' : i = Len(runs) + 1 \/ i \in DOMAIN runs
        /\ \A i \in DOMAIN runs : i \in DOMAIN runs' /\ runs'[i] = runs[i]
    BY <1>7 DEF RunOpened, RowsKept
  <2>2. /\ RunTold(r) /\ records'[r].status \in {records[r].status, "expired"}
        /\ records'[r].reply = records[r].reply
    BY <1>2, <1>3, <2>1 DEF SameRow, SameOutcome
  <2> QED  BY <2>1, <2>2 DEF RunTold
<1>8. CASE RunEnded(s)
  <2> DEFINE i == h[s].id
  <2>1. /\ i \in DOMAIN runs /\ runs[i].rid = h[s].rid /\ ~runs[i].version
        /\ h[s].kind = "plans"
    BY <1>1, <1>8 DEF RunEnded, RunWorkInv, Planning
  <2>2. /\ DOMAIN runs' = DOMAIN runs /\ runs'[i].rid = runs[i].rid
        /\ \A j \in DOMAIN runs : j # i => runs'[j] = runs[j]
    BY <1>8 DEF RunEnded
  <2>3. ReplyOf(s).id = i
    BY DEF ReplyOf
  <2>4. \/ ~runs'[i].version /\ (StoredNext(h[s].rid) => records'[h[s].rid].status = "failed")
        \/ /\ runs'[i].status = "need_clarification" \/ runs'[i].version
           /\ StoredNext(h[s].rid) => /\ records'[h[s].rid].status = "succeeded"
                                      /\ records'[h[s].rid].reply = ReplyOf(s)
    BY <1>8, <2>1 DEF RunEnded
  <2>5. r \in DOMAIN records /\ SameRow(r) /\ r > 0
    BY <1>2, <1>8 DEF RunEnded, RowsKept, RowsSettled, Stored
  <2>6. SameOutcome(r) \/ r = h[s].rid
    BY <1>8, <2>5 DEF RunEnded, RowsKept, RowsSettled, SameOutcome
  <2> HIDE DEF i
  <2>7. CASE r = h[s].rid
    <3>1. StoredNext(r)
      BY <1>2 DEF StoredNext, Stored
    <3>2. \A j \in DOMAIN runs : j # i => runs'[j].rid # r
      BY <2>1, <2>2, <2>5, <2>7 DEF RunRidInv
    <3> QED  BY <2>1, <2>2, <2>3, <2>4, <2>7, <3>1, <3>2 DEF RunTold
  <2>8. CASE r # h[s].rid
    <3>1. /\ RunTold(r) /\ records'[r].status \in {records[r].status, "expired"}
          /\ records'[r].reply = records[r].reply
      BY <1>2, <1>3, <2>5, <2>6, <2>8 DEF SameRow, SameOutcome
    <3> QED  BY <2>1, <2>2, <2>8, <3>1 DEF RunTold
  <2> QED  BY <2>7, <2>8
<1> QED  BY <1>4, <1>5, <1>6, <1>7, <1>8 DEF RunsChange, RunsKept

LEMMA RunToldOther ==
  ASSUME RunToldInv, RowsKept, UNCHANGED runs
  PROVE  RunToldInv'
  BY RunToldKept DEF RunToldInv, RowsKept

-----------------------------------------------------------------------------
(* What one step does to the conversations *)

\* For which record a conversation was opened, and whether it has a result.
SameConv(d) == convs'[d].rid = convs[d].rid /\ convs'[d].first = convs[d].first

\* A handler that goes to mark its record has opened nothing, or has no result.
FailsInTime(s) ==
  h'[s].pc = "fail" =>
    /\ h'[s].rid = h[s].rid
    /\ Unopened(h[s]) \/ Planning(h[s], "conversations")

RecordTold(s) ==
  \/ h[s].kind # "conversations"
  \/ /\ h[s].pc = "record" /\ records'[h[s].rid].status = "succeeded"
     /\ records'[h[s].rid].reply = ReplyOf(s)
  \/ h[s].pc = "fail" /\ records'[h[s].rid].status = "failed"

ConvsKept(s) ==
  /\ DOMAIN convs' = DOMAIN convs /\ \A d \in DOMAIN convs : SameConv(d)
  /\ StaysPlanning(s, "conversations") /\ h'[s].pc # "record" /\ FailsInTime(s)
  /\ RowsKept \/ RowsInserted(s) \/ (RowsSettled(s) /\ RecordTold(s))

ConvOpened(s) ==
  /\ h[s].kind = "conversations" /\ h[s].pc = "open" /\ RowsKept
  /\ h'[s].pc = "plan" /\ h'[s].rid = h[s].rid /\ h'[s].id = Len(convs) + 1
  /\ Len(convs) + 1 \in DOMAIN convs'
  /\ convs'[Len(convs) + 1].rid = h[s].rid /\ ~convs'[Len(convs) + 1].first
  /\ \A c \in DOMAIN convs' : c = Len(convs) + 1 \/ c \in DOMAIN convs
  /\ \A c \in DOMAIN convs : c \in DOMAIN convs' /\ convs'[c] = convs[c]

ConvFinished(s) ==
  /\ Planning(h[s], "conversations") /\ RowsKept
  /\ h'[s] = Idle \/ (h'[s].pc = "record" /\ h'[s].id = h[s].id)
  /\ DOMAIN convs' = DOMAIN convs /\ \A d \in DOMAIN convs : d # h[s].id => SameConv(d)
  /\ convs'[h[s].id].rid = convs[h[s].id].rid /\ convs'[h[s].id].first

ConvsChange(s) == ConvsKept(s) \/ ConvOpened(s) \/ ConvFinished(s)

LEMMA SameConvs ==
  ASSUME UNCHANGED convs
  PROVE  DOMAIN convs' = DOMAIN convs /\ \A d \in DOMAIN convs : SameConv(d)
  BY DEF SameConv

LEMMA SameConvsWritten ==
  ASSUME NEW c \in 1..Len(convs), NEW x, ConvWritten(c, x), x.rid = convs[c].rid,
         x.first = convs[c].first
  PROVE  DOMAIN convs' = DOMAIN convs /\ \A d \in DOMAIN convs : SameConv(d)
  BY DEF SameConv, ConvWritten

\* A handler that ends or goes to mark its record.
LEMMA ConvsEnd ==
  ASSUME Shape, NEW s \in Slots, SlotMoves(s), h'[s] = Idle \/ h'[s].pc = "fail",
         h'[s].pc = "fail" =>
           /\ h[s].kind = "conversations" /\ h[s].rid > 0
           /\ h[s].pc \in {"budget", "plan", "commit"}
  PROVE  StaysPlanning(s, "conversations") /\ h'[s].pc # "record" /\ FailsInTime(s)
<1>1. StaysPlanning(s, "conversations") /\ h'[s].pc # "record"
  BY IdleFields DEF StaysPlanning, Planning
<1>2. CASE h'[s] = Idle
  BY <1>1, <1>2, IdleFields DEF FailsInTime
<1>3. CASE h'[s].pc = "fail"
  <2>1. h'[s].rid = h[s].rid
    BY <1>3, IdleFields DEF SlotMoves, Advance, Arrive, Answered, Dropped, Inserted
  <2> QED  BY <1>1, <1>3, <2>1 DEF FailsInTime, Unopened, Planning
<1> QED  BY <1>2, <1>3

\* A handler that goes on without an end.
LEMMA ConvsOn ==
  ASSUME NEW s \in Slots, SlotMoves(s), h'[s].pc \notin {"record", "fail"},
         h[s].pc \in {"open", "plan"} => h'[s].kind # "conversations"
  PROVE  StaysPlanning(s, "conversations") /\ h'[s].pc # "record" /\ FailsInTime(s)
<1>1. FailsInTime(s)
  BY DEF FailsInTime
<1>2. StaysPlanning(s, "conversations")
  BY IdleFields DEF SlotMoves, Advance, Arrive, Answered, Dropped, Inserted, StaysPlanning,
     Planning
<1> QED  BY <1>1, <1>2

LEMMA ConvsChanged ==
  ASSUME Shape, NEW s \in Slots, SlotStep(s)
  PROVE  ConvsChange(s)
<1>1. /\ TypeInv /\ Ready(h[s]) /\ h[s].rid \in Nat /\ h[s].rid <= Len(records)
      /\ Points(h[s], Len(records), Len(runs), Len(convs)) /\ h[s].kind \in Kinds
      /\ SlotMoves(s) /\ RowsChange(s) /\ h[s] \in Handler
  BY SlotFacts, SlotMove, RowsChanged DEF Shape
<1>2. CASE Open(s)
  <2>1. RowsKept /\ h[s].pc = "open"
    BY <1>2, RowsUnchanged DEF Open
  <2>2. CASE h[s].kind = "conversations"
    <3>1. h[s].body \in Bodies
      BY <1>1, <2>2 DEF Ready, Posts
    <3>2. /\ h'[s].pc = "plan" /\ h'[s].id = Len(convs) + 1 /\ h'[s].rid = h[s].rid
          /\ convs' = Append(convs, NewConv(s)) /\ NewConv(s) \in Conv
      BY <1>1, <1>2, <2>2, <3>1, OpenConvMove
    <3>3. NewConv(s).rid = h[s].rid /\ ~NewConv(s).first
      BY DEF NewConv
    <3>4. /\ convs' \in Seq(Conv) /\ Len(convs') = Len(convs) + 1
          /\ convs'[Len(convs) + 1] = NewConv(s)
          /\ \A c \in DOMAIN convs' :
               c = Len(convs) + 1 \/ (c \in DOMAIN convs /\ convs'[c] = convs[c])
          /\ \A c \in DOMAIN convs : c \in DOMAIN convs' /\ convs'[c] = convs[c]
      BY <1>1, <3>2, AppendConv
    <3>5. Len(convs) + 1 \in DOMAIN convs'
      BY <1>1, <3>4 DEF TypeInv
    <3>6. ConvOpened(s)
      BY <2>1, <2>2, <3>2, <3>3, <3>4, <3>5 DEF ConvOpened
    <3> QED  BY <3>6 DEF ConvsChange
  <2>3. CASE h[s].kind # "conversations"
    <3>1. h'[s].kind # "conversations" /\ h'[s].pc = "plan"
      <4>1. CASE h[s].kind = "plans"
        BY <1>1, <1>2, <4>1, OpenPlanMove DEF SameRequest
      <4>2. CASE h[s].kind = "continue"
        BY <1>1, <1>2, <4>2, OpenContinueMove DEF SameRequest
      <4> QED  BY <1>1, <2>1, <2>3, <4>1, <4>2 DEF Ready, Kinds, Posts
    <3>2. StaysPlanning(s, "conversations") /\ h'[s].pc # "record" /\ FailsInTime(s)
      BY <1>1, <3>1, ConvsOn
    <3>3. DOMAIN convs' = DOMAIN convs /\ \A d \in DOMAIN convs : SameConv(d)
      <4>1. CASE h[s].kind = "plans"
        BY <1>1, <1>2, <4>1, OpenPlanMove, SameConvs
      <4>2. CASE h[s].kind = "continue"
        <5>1. h[s].answer \in Fields \X Values /\ h[s].id \in 1..Len(convs)
          BY <1>1, <2>1, <4>2 DEF Ready, Points
        <5>2. convs' = [convs EXCEPT ![h[s].id] = Continued(s, convs[h[s].id])]
          BY <1>1, <1>2, <4>2, OpenContinueMove
        <5>3. convs[h[s].id] \in Conv
          BY <1>1, <5>1 DEF TypeInv
        <5> DEFINE x == Continued(s, convs[h[s].id])
        <5>4. x \in Conv /\ x.rid = convs[h[s].id].rid /\ x.first = convs[h[s].id].first
          BY <1>1, <5>1, <5>3, ContinuedFields
        <5> HIDE DEF x
        <5>5. ConvWritten(h[s].id, x)
          BY <1>1, <5>1, <5>2, <5>4, WriteConv DEF x
        <5> QED  BY <5>1, <5>4, <5>5, SameConvsWritten
      <4> QED  BY <1>1, <2>1, <2>3, <4>1, <4>2 DEF Ready, Kinds, Posts
    <3> QED  BY <2>1, <3>2, <3>3 DEF ConvsKept, ConvsChange
  <2> QED  BY <2>2, <2>3
<1>3. ASSUME NEW c \in DOMAIN convs, NEW base \in Nat, NEW field \in Askable,
             NEW value \in Values, Continue(s, c, base, field, value)
      PROVE  ConvsChange(s)
  <2>1. RowsKept /\ h[s].pc = "idle" /\ c \in 1..Len(convs)
    BY <1>1, <1>3, RowsUnchanged DEF Continue, TypeInv
  <2>2. DOMAIN convs' = DOMAIN convs /\ \A d \in DOMAIN convs : SameConv(d)
    <3>1. CASE base = convs[c].revision /\ field \in Fields /\ \E t \in Slots : InFlight(t, c)
      <4>1. convs' = [convs EXCEPT ![c] = [@ EXCEPT !.overlap = TRUE]]
        BY <1>3, <3>1 DEF Continue
      <4> QED  BY <1>1, <2>1, <4>1, ConvOverlaps, SameConvsWritten
    <3>2. CASE ~(base = convs[c].revision /\ field \in Fields
                 /\ \E t \in Slots : InFlight(t, c))
      <4>1. UNCHANGED convs
        BY <1>3, <3>2 DEF Continue
      <4> QED  BY <4>1, SameConvs
    <3> QED  BY <3>1, <3>2
  <2>3. h'[s].pc \notin {"record", "fail"}
    BY <1>1, <2>1, IdleFields DEF SlotMoves, Advance, Arrive, Answered, Dropped, Inserted
  <2>4. StaysPlanning(s, "conversations") /\ h'[s].pc # "record" /\ FailsInTime(s)
    BY <1>1, <2>1, <2>3, ConvsOn
  <2> QED  BY <2>1, <2>2, <2>4 DEF ConvsKept, ConvsChange
<1>4. CASE PlanRaises(s) \/ SaveRaises(s)
  <2>1. h[s].pc \in {"plan", "commit"}
    BY <1>4 DEF PlanRaises, SaveRaises
  <2>2. Return(s) \/ (Goto(s, "fail") /\ h[s].kind # "plans" /\ h[s].rid > 0)
    BY <1>4 DEF PlanRaises, SaveRaises
  <2>3. /\ h'[s] = Idle \/ h'[s].pc = "fail"
        /\ h'[s].pc = "fail" => h[s].kind = "conversations" /\ h[s].rid > 0
    BY <1>1, <2>1, <2>2, ReturnMove, GotoMove, IdleFields DEF PCs, Ready, Kinds, Posts
  <2>4. StaysPlanning(s, "conversations") /\ h'[s].pc # "record" /\ FailsInTime(s)
    BY <1>1, <2>1, <2>3, ConvsEnd
  <2>5. DOMAIN convs' = DOMAIN convs /\ \A d \in DOMAIN convs : SameConv(d)
    <3>1. CASE PlanRaises(s) /\ h[s].kind # "plans"
      <4>1. h[s].id \in 1..Len(convs)
            /\ convs' = [convs EXCEPT ![h[s].id] = [@ EXCEPT !.state = "failed"]]
        BY <1>1, <3>1 DEF PlanRaises, Points, Ready, Kinds, Posts
      <4> QED  BY <1>1, <4>1, ConvFails, SameConvsWritten
    <3>2. CASE ~(PlanRaises(s) /\ h[s].kind # "plans")
      <4>1. UNCHANGED convs
        BY <1>4, <3>2 DEF PlanRaises, SaveRaises, tables
      <4> QED  BY <4>1, SameConvs
    <3> QED  BY <3>1, <3>2
  <2>6. RowsKept \/ (RowsSettled(s) /\ h[s].kind # "conversations")
    <3>1. CASE h[s].kind = "plans"
      BY <1>1, <2>1, <3>1 DEF RowsChange, RowsInserted, Inserted
    <3>2. CASE h[s].kind # "plans"
      <4>1. UNCHANGED records
        BY <1>4, <3>2 DEF PlanRaises, SaveRaises, tables
      <4> QED  BY <4>1, RowsUnchanged
    <3> QED  BY <3>1, <3>2
  <2> QED  BY <2>4, <2>5, <2>6 DEF ConvsKept, ConvsChange, RecordTold
<1>5. ASSUME NEW outcome \in Outcomes, CommitConversation(s, outcome)
      PROVE  ConvsChange(s)
  <2>1. /\ h[s].pc = "commit" /\ h[s].kind # "plans" /\ RowsKept
        /\ convs' = [convs EXCEPT ![h[s].id] = Resulted(s, convs[h[s].id], outcome)]
        /\ (h[s].rid > 0 /\ Goto(s, "record")) \/ (~(h[s].rid > 0) /\ Return(s))
    BY <1>5, RowsUnchanged DEF CommitConversation
  <2>2. h[s].id \in 1..Len(convs)
    BY <1>1, <2>1 DEF Points, Ready, Kinds, Posts
  <2>3. PICK x \in Conv :
          /\ ConvWritten(h[s].id, x) /\ x.rid = convs[h[s].id].rid
          /\ x.first = (convs[h[s].id].first \/ h[s].kind = "conversations")
    BY <1>1, <2>1, <2>2, ConvResult
  <2>4. \/ h'[s] = Idle
        \/ h[s].rid > 0 /\ h'[s].pc = "record" /\ h'[s].id = h[s].id
    BY <1>1, <2>1, ReturnMove, GotoMove DEF PCs
  <2>5. CASE h[s].kind = "conversations"
    <3>1. ConvFinished(s)
      BY <2>1, <2>2, <2>3, <2>4, <2>5 DEF ConvFinished, ConvWritten, SameConv, Planning
    <3> QED  BY <3>1 DEF ConvsChange
  <2>6. CASE h[s].kind = "continue"
    <3>1. h[s].rid = 0
      BY <1>1, <2>6 DEF Ready
    <3>2. StaysPlanning(s, "conversations") /\ h'[s].pc # "record" /\ FailsInTime(s)
      BY <1>1, <2>4, <3>1, ConvsEnd, IdleFields
    <3>3. x.first = convs[h[s].id].first
      <4>1. convs[h[s].id] \in Conv
        BY <1>1, <2>2 DEF TypeInv
      <4> QED  BY <2>3, <2>6, <4>1 DEF Conv
    <3>4. DOMAIN convs' = DOMAIN convs /\ \A d \in DOMAIN convs : SameConv(d)
      BY <2>2, <2>3, <3>3, SameConvsWritten
    <3> QED  BY <2>1, <3>2, <3>4 DEF ConvsKept, ConvsChange
  <2> QED  BY <1>1, <2>1, <2>5, <2>6 DEF Ready, Kinds, Posts
<1>6. ASSUME NEW outcome \in Outcomes, CommitPlan(s, outcome)
      PROVE  ConvsChange(s)
  <2>1. h[s].pc = "commit" /\ h[s].kind = "plans" /\ UNCHANGED convs /\ h'[s] = Idle
    BY <1>1, <1>6, ReturnMove DEF CommitPlan
  <2>2. StaysPlanning(s, "conversations") /\ h'[s].pc # "record" /\ FailsInTime(s)
    BY <1>1, <2>1, ConvsEnd, IdleFields
  <2>3. RowsKept \/ RowsInserted(s) \/ (RowsSettled(s) /\ RecordTold(s))
    BY <1>1, <2>1 DEF RowsChange, RecordTold
  <2> QED  BY <2>1, <2>2, <2>3, SameConvs DEF ConvsKept, ConvsChange
<1>7. CASE RecordConversation(s) \/ FailRecord(s)
  <2>1. h[s].pc \in {"record", "fail"} /\ UNCHANGED convs /\ h'[s] = Idle /\ Return(s)
    BY <1>1, <1>7, ReturnMove DEF RecordConversation, FailRecord
  <2>2. StaysPlanning(s, "conversations") /\ h'[s].pc # "record" /\ FailsInTime(s)
    BY <1>1, <2>1, ConvsEnd, IdleFields
  <2>3. CASE Stored(h[s].rid)
    <3>1. \/ h[s].pc = "record" /\ Succeed(h[s].rid, s)
          \/ h[s].pc = "fail" /\ Mark(h[s].rid, "failed")
      BY <1>7, <2>3 DEF RecordConversation, FailRecord, Finished
    <3>2. Owner(h[s])
      BY <1>1, <2>1 DEF Ready, Owner
    <3>3. RowsSettled(s)
      BY <2>1, <2>3, <3>1, <3>2, RowsSettle
    <3>4. RecordTold(s)
      <4>1. CASE h[s].pc = "record" /\ Succeed(h[s].rid, s)
        <5>1. PICK x \in Record :
                Written(h[s].rid, x) /\ x.status = "succeeded" /\ x.reply = ReplyOf(s)
          BY <1>1, <2>3, <4>1, SucceedWrite
        <5> QED  BY <4>1, <5>1 DEF RecordTold, Written
      <4>2. CASE h[s].pc = "fail" /\ Mark(h[s].rid, "failed")
        <5>1. PICK x \in Record : Written(h[s].rid, x) /\ x.status = "failed"
          BY <1>1, <2>3, <4>2, MarkWrite DEF Statuses
        <5> QED  BY <4>2, <5>1 DEF RecordTold, Written
      <4> QED  BY <3>1, <4>1, <4>2
    <3> QED  BY <2>1, <2>2, <3>3, <3>4, SameConvs DEF ConvsKept, ConvsChange
  <2>4. CASE ~Stored(h[s].rid)
    <3>1. UNCHANGED records
      BY <1>7, <2>4 DEF RecordConversation, FailRecord, Finished
    <3> QED  BY <2>1, <2>2, <3>1, SameConvs, RowsUnchanged DEF ConvsKept, ConvsChange
  <2> QED  BY <2>3, <2>4
<1>8. CASE EnforceAIBudget(s)
  <2>1. h[s].pc = "budget" /\ UNCHANGED convs /\ RowsKept
    BY <1>8, RowsUnchanged DEF EnforceAIBudget, tables
  <2>2. CASE h'[s] = Idle \/ h'[s].pc = "fail"
    <3>1. h'[s].pc = "fail" => h[s].kind = "conversations" /\ h[s].rid > 0
      <4>1. ASSUME h'[s].pc = "fail" PROVE ~WithinBudget(plans + 1)
        <5>1. CASE WithinBudget(plans + 1)
          <6>1. Goto(s, AfterBudget(s)) /\ AfterBudget(s) \in {"insert", "open"}
            BY <1>8, <5>1 DEF EnforceAIBudget, AfterBudget
          <6>2. h'[s].pc = AfterBudget(s)
            BY <1>1, <6>1, GotoMove DEF PCs
          <6> QED  BY <4>1, <6>1, <6>2
        <5> QED  BY <5>1
      <4>2. ASSUME h'[s].pc = "fail" PROVE h[s].rid > 0
        <5>1. CASE ~(h[s].rid > 0)
          <6>1. Return(s)
            BY <1>8, <4>1, <4>2, <5>1 DEF EnforceAIBudget
          <6> QED  BY <1>1, <4>2, <6>1, ReturnMove, IdleFields
        <5> QED  BY <5>1
      <4> QED  BY <1>1, <2>1, <4>2 DEF Ready, Kinds, Posts
    <3>2. StaysPlanning(s, "conversations") /\ h'[s].pc # "record" /\ FailsInTime(s)
      BY <1>1, <2>1, <2>2, <3>1, ConvsEnd
    <3> QED  BY <2>1, <3>2, SameConvs DEF ConvsKept, ConvsChange
  <2>3. CASE ~(h'[s] = Idle \/ h'[s].pc = "fail")
    <3>1. h'[s].pc # "record"
      BY <1>1, <2>1, <2>3 DEF SlotMoves, Advance, Arrive, Answered, Dropped, Inserted
    <3>2. StaysPlanning(s, "conversations") /\ h'[s].pc # "record" /\ FailsInTime(s)
      BY <1>1, <2>1, <2>3, <3>1, ConvsOn
    <3> QED  BY <2>1, <3>2, SameConvs DEF ConvsKept, ConvsChange
  <2> QED  BY <2>2, <2>3
<1>9. ASSUME NEW used \in Usage, Planned(s, used)
      PROVE  ConvsChange(s)
  <2>1. h[s].pc = "plan" /\ Goto(s, "commit") /\ UNCHANGED convs /\ RowsKept
    BY <1>9, RowsUnchanged DEF Planned, tables
  <2>2. h'[s].pc = "commit" /\ SameRequest(s) /\ h'[s].id = h[s].id /\ h'[s].rid = h[s].rid
    BY <1>1, <2>1, GotoMove DEF PCs
  <2>3. StaysPlanning(s, "conversations") /\ h'[s].pc # "record" /\ FailsInTime(s)
    BY <2>1, <2>2 DEF StaysPlanning, Planning, FailsInTime, SameRequest
  <2> QED  BY <2>1, <2>3, SameConvs DEF ConvsKept, ConvsChange
<1>10. ASSUME \/ \E kind \in Posts, body \in Bodies, key \in Headers : Begin(s, kind, body, key)
              \/ MarkExpired(s) \/ DropExpired(s) \/ Insert(s)
       PROVE  ConvsChange(s)
  <2>1. h[s].pc \in {"idle", "expire", "drop", "insert"} /\ UNCHANGED convs
    BY <1>10 DEF Begin, MarkExpired, DropExpired, Insert, tables
  <2>2. h'[s].pc \notin {"record", "fail"}
    BY <1>1, <2>1, IdleFields DEF SlotMoves, Advance, Arrive, Answered, Dropped, Inserted
  <2>3. StaysPlanning(s, "conversations") /\ h'[s].pc # "record" /\ FailsInTime(s)
    BY <1>1, <2>1, <2>2, ConvsOn
  <2>4. RowsKept \/ RowsInserted(s)
    <3>1. CASE h[s].pc = "idle"
      <4>1. UNCHANGED records
        BY <1>10, <3>1 DEF Begin, MarkExpired, DropExpired, Insert, tables
      <4> QED  BY <4>1, RowsUnchanged
    <3>2. CASE h[s].pc # "idle"
      <4>1. ~Owner(h[s])
        BY <1>1, <2>1, <3>2 DEF Owner, Ready
      <4> QED  BY <1>1, <4>1 DEF RowsChange, RowsSettled
    <3> QED  BY <3>1, <3>2
  <2> QED  BY <2>1, <2>3, <2>4, SameConvs DEF ConvsKept, ConvsChange
<1>11. CASE Stop(s)
  <2>1. UNCHANGED convs /\ RowsKept /\ h'[s] = Idle
    BY <1>1, <1>11, RowsUnchanged, ReturnMove DEF Stop, tables
  <2>2. StaysPlanning(s, "conversations") /\ h'[s].pc # "record" /\ FailsInTime(s)
    BY <1>1, <2>1, ConvsEnd, IdleFields
  <2> QED  BY <2>1, <2>2, SameConvs DEF ConvsKept, ConvsChange
<1> QED
  BY <1>2, <1>3, <1>4, <1>5, <1>6, <1>7, <1>8, <1>9, <1>10, <1>11 DEF SlotStep

-----------------------------------------------------------------------------
(* Conversations have records of their own *)

ConvRids ==
  \A c \in DOMAIN convs : convs[c].rid \in Nat /\ convs[c].rid <= Len(records)

LEMMA ConvRidRange ==
  ASSUME Shape, ConvRidInv
  PROVE  ConvRids
<1>1. \A c \in DOMAIN convs : convs[c] \in Conv
  BY DEF Shape, TypeInv
<1> QED  BY <1>1 DEF ConvRidInv, ConvRids, Conv

LEMMA ConvRidStep ==
  ASSUME Shape, OwnInv, ConvRidInv, NEW s \in Slots, SlotMoves(s), RowsChange(s),
         ConvsChange(s)
  PROVE  ConvRidInv'
<1>1. TypeInv /\ Len(records) \in Nat /\ Len(convs) \in Nat /\ DOMAIN convs = 1..Len(convs)
  BY DEF Shape, TypeInv
<1>2. ConvRids
  BY ConvRidRange
<1>3. \A t \in Slots : h[t].rid \in Nat /\ h[t].rid <= Len(records)
  BY SlotFacts
<1>4. \A t \in Slots : t # s => h'[t] = h[t]
  BY DEF SlotMoves, Others
<1>5. Unopened(h'[s]) => \/ Unopened(h[s]) /\ h'[s].rid = h[s].rid
                         \/ h'[s].rid = Len(records) + 1
  BY UnopenedMoves
<1>6. \A t, u \in Slots : t # u /\ Owner(h[t]) /\ Owner(h[u]) => h[t].rid # h[u].rid
  BY DEF OwnInv
<1> DEFINE Fits(c) == /\ convs[c].rid <= Len(records)
                      /\ Stored(convs[c].rid) =>
                           records[convs[c].rid].kind = "conversations"
<1>7. \A c \in DOMAIN convs : Fits(c)
  BY DEF ConvRidInv
<1>8. CASE ConvsKept(s) \/ ConvFinished(s)
  <2>1. DOMAIN convs' = DOMAIN convs /\ \A c \in DOMAIN convs : convs'[c].rid = convs[c].rid
    BY <1>8 DEF ConvsKept, ConvFinished, SameConv
  <2>2. ASSUME NEW c \in DOMAIN convs PROVE Fits(c)'
    <3>1. /\ convs[c].rid <= Len(records')
          /\ StoredNext(convs[c].rid) =>
               Stored(convs[c].rid) /\ records'[convs[c].rid].kind = records[convs[c].rid].kind
      BY <1>2, RowStays DEF ConvRids
    <3> QED  BY <1>7, <2>1, <3>1 DEF Stored, StoredNext
  <2>3. \A c, d \in DOMAIN convs : c # d /\ convs'[c].rid > 0 => convs'[c].rid # convs'[d].rid
    BY <2>1 DEF ConvRidInv
  <2>4. \A t \in Slots, c \in DOMAIN convs : Unopened(h'[t]) => convs'[c].rid # h'[t].rid
    BY <1>1, <1>2, <1>4, <1>5, <2>1 DEF ConvRidInv, ConvRids
  <2> QED  BY <2>1, <2>2, <2>3, <2>4 DEF ConvRidInv
<1>9. CASE ConvOpened(s)
  <2> DEFINE n == Len(convs) + 1
  <2>1. /\ n \in DOMAIN convs' /\ convs'[n].rid = h[s].rid /\ n \notin DOMAIN convs
        /\ \A c \in DOMAIN convs' : c = n \/ c \in DOMAIN convs
        /\ \A c \in DOMAIN convs : c \in DOMAIN convs' /\ convs'[c] = convs[c]
    BY <1>1, <1>9 DEF ConvOpened
  <2>2. h[s].pc = "open" /\ h[s].kind = "conversations" /\ h'[s].pc = "plan"
    BY <1>9 DEF ConvOpened
  <2>3. Stored(h[s].rid) => records[h[s].rid].kind = "conversations"
    <3>1. Stored(h[s].rid) => Owner(h[s])
      BY <2>2 DEF Stored, Owner
    <3> QED  BY <2>2, <3>1 DEF OwnInv
  <2> HIDE DEF n
  <2>4. ASSUME NEW c \in DOMAIN convs' PROVE Fits(c)'
    <3>1. CASE c = n
      <4>1. /\ h[s].rid <= Len(records')
            /\ StoredNext(h[s].rid) =>
                 Stored(h[s].rid) /\ records'[h[s].rid].kind = records[h[s].rid].kind
        BY <1>3, RowStays
      <4> QED  BY <2>1, <2>3, <3>1, <4>1 DEF Stored, StoredNext
    <3>2. CASE c # n
      <4>1. c \in DOMAIN convs /\ convs'[c] = convs[c]
        BY <2>1, <3>2
      <4>2. /\ convs[c].rid <= Len(records')
            /\ StoredNext(convs[c].rid) =>
                 /\ Stored(convs[c].rid)
                 /\ records'[convs[c].rid].kind = records[convs[c].rid].kind
        BY <1>2, <4>1, RowStays DEF ConvRids
      <4> QED  BY <1>7, <4>1, <4>2 DEF Stored, StoredNext
    <3> QED  BY <3>1, <3>2
  <2>5. \A c \in DOMAIN convs : h[s].rid > 0 => convs[c].rid # h[s].rid
    BY <2>2 DEF ConvRidInv, Unopened
  <2>6. \A c, d \in DOMAIN convs' :
          c # d /\ convs'[c].rid > 0 => convs'[c].rid # convs'[d].rid
    <3>1. \A c, d \in DOMAIN convs : c # d /\ convs[c].rid > 0 => convs[c].rid # convs[d].rid
      BY DEF ConvRidInv
    <3> QED  BY <2>1, <2>5, <3>1
  <2>7. ASSUME NEW t \in Slots, NEW c \in DOMAIN convs', Unopened(h'[t])
        PROVE  convs'[c].rid # h'[t].rid
    <3>1. t # s /\ h'[t] = h[t] /\ Unopened(h[t]) /\ h[t].rid > 0
      BY <1>4, <2>2, <2>7 DEF Unopened
    <3>2. h[t].rid # h[s].rid
      <4>1. Owner(h[t]) /\ (h[s].rid > 0 => Owner(h[s]))
        BY <2>2, <3>1 DEF Owner, Unopened
      <4> QED  BY <1>3, <1>6, <3>1, <4>1
    <3> QED  BY <2>1, <3>1, <3>2 DEF ConvRidInv
  <2> QED  BY <2>4, <2>6, <2>7 DEF ConvRidInv
<1> QED  BY <1>8, <1>9 DEF ConvsChange

LEMMA ConvRidOther ==
  ASSUME Shape, ConvRidInv, RowsKept, UNCHANGED <<convs, h>>
  PROVE  ConvRidInv'
<1>1. \A c \in DOMAIN convs : convs[c].rid > 0 => convs[c].rid \in DOMAIN records
  BY ConvRidRange DEF ConvRids, Shape, TypeInv
<1> QED  BY <1>1 DEF ConvRidInv, RowsKept, SameRow, Stored

LEMMA ConvWorkStep ==
  ASSUME Shape, Shape', OwnInv, ConvRidInv, ConvWorkInv, NEW s \in Slots, SlotMoves(s), ConvsChange(s)
  PROVE  ConvWorkInv'
<1>1. Len(convs) \in Nat /\ DOMAIN convs = 1..Len(convs)
  BY DEF Shape, TypeInv
<1>2. \A t \in Slots : t # s => h'[t] = h[t]
  BY DEF SlotMoves, Others
<1>3. \A t \in Slots :
        /\ Planning(h[t], "conversations") => h[t].id \in DOMAIN convs
        /\ h[t].pc = "record" => h[t].id \in DOMAIN convs
        /\ h[t].pc = "fail" => h[t].rid > 0
        /\ h[t].rid \in Nat
  BY <1>1, SlotFacts DEF Planning, Points, Ready
<1>4. /\ \A t \in Slots : Planning(h[t], "conversations") =>
           convs[h[t].id].rid = h[t].rid /\ ~convs[h[t].id].first
      /\ \A t, u \in Slots :
           t # u /\ Planning(h[t], "conversations") /\ Planning(h[u], "conversations") =>
           h[t].id # h[u].id
      /\ \A t \in Slots : h[t].pc = "record" => convs[h[t].id].first
      /\ \A t \in Slots, c \in DOMAIN convs :
           h[t].pc = "fail" /\ convs[c].rid = h[t].rid => ~convs[c].first
  BY DEF ConvWorkInv
<1>5. CASE ConvsKept(s)
  <2>1. /\ DOMAIN convs' = DOMAIN convs /\ h'[s].pc # "record"
        /\ \A d \in DOMAIN convs : convs'[d].rid = convs[d].rid /\ convs'[d].first = convs[d].first
        /\ Planning(h'[s], "conversations") =>
             /\ Planning(h[s], "conversations") /\ h'[s].id = h[s].id /\ h'[s].rid = h[s].rid
    BY <1>5 DEF ConvsKept, StaysPlanning, SameConv
  <2>2. \A t \in Slots : Planning(h'[t], "conversations") =>
          convs'[h'[t].id].rid = h'[t].rid /\ ~convs'[h'[t].id].first
    BY <1>2, <1>3, <1>4, <2>1
  <2>3. \A t, u \in Slots :
          t # u /\ Planning(h'[t], "conversations") /\ Planning(h'[u], "conversations") =>
          h'[t].id # h'[u].id
    BY <1>2, <1>4, <2>1
  <2>4. \A t \in Slots : h'[t].pc = "record" => convs'[h'[t].id].first
    BY <1>2, <1>3, <1>4, <2>1
  <2>5. ASSUME h'[s].pc = "fail", NEW c \in DOMAIN convs, convs'[c].rid = h'[s].rid
        PROVE  ~convs'[c].first
    <3>1. /\ h'[s].rid = h[s].rid
          /\ Unopened(h[s]) \/ Planning(h[s], "conversations")
      BY <1>5, <2>5 DEF ConvsKept, FailsInTime
    <3>2. CASE Unopened(h[s])
      BY <2>1, <2>5, <3>1, <3>2 DEF ConvRidInv
    <3>3. CASE Planning(h[s], "conversations")
      <4>1. convs[c].rid = convs[h[s].id].rid /\ h[s].id \in DOMAIN convs
        BY <1>3, <1>4, <2>1, <2>5, <3>1, <3>3
      <4>2. convs[c].rid > 0
        <5>1. h'[s].rid > 0
          BY <2>5 DEF Shape, Ready
        <5> QED  BY <2>1, <2>5, <5>1
      <4>3. c = h[s].id
        BY <4>1, <4>2 DEF ConvRidInv
      <4> QED  BY <1>4, <2>1, <3>3, <4>1, <4>3
    <3> QED  BY <3>1, <3>2, <3>3
  <2>6. \A t \in Slots, c \in DOMAIN convs :
          h'[t].pc = "fail" /\ convs'[c].rid = h'[t].rid => ~convs'[c].first
    BY <1>2, <1>4, <2>1, <2>5
  <2> QED  BY <2>1, <2>2, <2>3, <2>4, <2>6 DEF ConvWorkInv
<1>6. CASE ConvOpened(s)
  <2> DEFINE n == Len(convs) + 1
  <2>1. /\ h'[s].pc = "plan" /\ h'[s].id = n /\ h'[s].rid = h[s].rid
        /\ convs'[n].rid = h[s].rid /\ ~convs'[n].first
        /\ \A c \in DOMAIN convs' : c = n \/ c \in DOMAIN convs
        /\ \A c \in DOMAIN convs : convs'[c] = convs[c]
    BY <1>6 DEF ConvOpened
  <2>2. \A t \in Slots : t # s /\ Planning(h'[t], "conversations") =>
          h'[t].id # n /\ h'[t].id \in DOMAIN convs
    BY <1>1, <1>2, <1>3
  <2>3. n \notin DOMAIN convs
    BY <1>1
  <2> HIDE DEF n
  <2>4. \A t \in Slots : Planning(h'[t], "conversations") =>
          convs'[h'[t].id].rid = h'[t].rid /\ ~convs'[h'[t].id].first
    BY <1>2, <1>4, <2>1, <2>2
  <2>5. \A t, u \in Slots :
          t # u /\ Planning(h'[t], "conversations") /\ Planning(h'[u], "conversations") =>
          h'[t].id # h'[u].id
    BY <1>2, <1>4, <2>1, <2>2
  <2>6. \A t \in Slots : h'[t].pc = "record" => convs'[h'[t].id].first
    BY <1>2, <1>3, <1>4, <2>1
  <2>7. \A t \in Slots, c \in DOMAIN convs' :
          h'[t].pc = "fail" /\ convs'[c].rid = h'[t].rid => ~convs'[c].first
    BY <1>2, <1>4, <2>1
  <2> QED  BY <2>4, <2>5, <2>6, <2>7 DEF ConvWorkInv
<1>7. CASE ConvFinished(s)
  <2> DEFINE i == h[s].id
  <2>1. /\ Planning(h[s], "conversations") /\ ~Planning(h'[s], "conversations")
        /\ h'[s].pc = "record" => h'[s].id = i
        /\ h'[s].pc # "fail"
        /\ DOMAIN convs' = DOMAIN convs
        /\ \A d \in DOMAIN convs :
             d # i => convs'[d].rid = convs[d].rid /\ convs'[d].first = convs[d].first
        /\ convs'[i].rid = convs[i].rid /\ convs'[i].first
    BY <1>7, IdleFields DEF ConvFinished, Planning, SameConv
  <2>2. i \in DOMAIN convs /\ convs[i].rid = h[s].rid
    BY <1>3, <1>4, <2>1
  <2>3. \A t \in Slots : t # s /\ Planning(h[t], "conversations") => h[t].id # i
    BY <1>4, <2>1
  <2>4. ASSUME NEW t \in Slots, t # s, h[t].pc = "fail" PROVE h[t].rid # convs[i].rid
    <3>1. Owner(h[t]) /\ h[t].rid > 0
      BY <1>3, <2>4 DEF Owner
    <3>2. h[s].rid > 0 => Owner(h[s])
      BY <2>1 DEF Planning, Owner
    <3>3. Owner(h[s]) => h[s].rid # h[t].rid
      BY <2>4, <3>1 DEF OwnInv
    <3> QED  BY <1>3, <2>2, <3>1, <3>2, <3>3
  <2> HIDE DEF i
  <2>5. \A t \in Slots : Planning(h'[t], "conversations") =>
          convs'[h'[t].id].rid = h'[t].rid /\ ~convs'[h'[t].id].first
    BY <1>2, <1>3, <1>4, <2>1, <2>3
  <2>6. \A t, u \in Slots :
          t # u /\ Planning(h'[t], "conversations") /\ Planning(h'[u], "conversations") =>
          h'[t].id # h'[u].id
    BY <1>2, <1>4, <2>1
  <2>7. \A t \in Slots : h'[t].pc = "record" => convs'[h'[t].id].first
    BY <1>2, <1>3, <1>4, <2>1
  <2>8. \A t \in Slots, c \in DOMAIN convs' :
          h'[t].pc = "fail" /\ convs'[c].rid = h'[t].rid => ~convs'[c].first
    BY <1>2, <1>4, <2>1, <2>4
  <2> QED  BY <2>5, <2>6, <2>7, <2>8 DEF ConvWorkInv
<1> QED  BY <1>5, <1>6, <1>7 DEF ConvsChange

LEMMA ConvToldKept ==
  ASSUME NEW r \in DOMAIN records, Stored(r) => ConvTold(r), SameRow(r), SameOutcome(r),
         DOMAIN convs' = DOMAIN convs, \A d \in DOMAIN convs : SameConv(d), Stored(r)'
  PROVE  ConvTold(r)'
<1>1. /\ ConvTold(r) /\ records'[r].status \in {records[r].status, "expired"}
      /\ records'[r].reply = records[r].reply
  BY DEF SameRow, SameOutcome
<1>2. \A d \in DOMAIN convs : convs'[d].rid = convs[d].rid /\ convs'[d].first = convs[d].first
  BY DEF SameConv
<1> QED  BY <1>1, <1>2 DEF ConvTold

LEMMA ConvToldStep ==
  ASSUME Shape, OwnInv, ConvRidInv, ConvWorkInv, ConvToldInv, NEW s \in Slots, ConvsChange(s)
  PROVE  ConvToldInv'
<1>1. /\ \A t \in Slots : Planning(h[t], "conversations") \/ h[t].pc = "record" =>
           h[t].id \in DOMAIN convs
      /\ Len(convs) \in Nat /\ DOMAIN convs = 1..Len(convs)
  BY SlotFacts DEF Planning, Points, Ready, Shape, TypeInv
<1>2. SUFFICES ASSUME NEW r \in DOMAIN records', Stored(r)'
               PROVE  ConvTold(r)'
  BY DEF ConvToldInv
<1>3. r \in DOMAIN records /\ Stored(r) => ConvTold(r)
  BY DEF ConvToldInv
<1>4. CASE ConvsKept(s) /\ RowsKept
  BY <1>2, <1>3, <1>4, ConvToldKept DEF ConvsKept, RowsKept
<1>5. CASE ConvsKept(s) /\ RowsInserted(s)
  <2>1. CASE r \in DOMAIN records
    <3>1. /\ records'[r] = records[r] /\ Stored(r) /\ DOMAIN convs' = DOMAIN convs
          /\ \A d \in DOMAIN convs : SameConv(d)
      BY <1>2, <1>5, <2>1 DEF ConvsKept, RowsInserted, Stored
    <3>2. SameRow(r) /\ SameOutcome(r)
      BY <3>1 DEF SameRow, SameOutcome
    <3> QED  BY <1>2, <1>3, <2>1, <3>1, <3>2, ConvToldKept
  <2>2. CASE r \notin DOMAIN records
    <3>1. r = Len(records) + 1
      BY <1>5, <2>2, InsertedDomain
    <3> QED  BY <1>5, <3>1 DEF RowsInserted, NewRecord, ConvTold
  <2> QED  BY <2>1, <2>2
<1>6. CASE ConvsKept(s) /\ RowsSettled(s) /\ RecordTold(s)
  <2>1. /\ DOMAIN convs' = DOMAIN convs /\ \A d \in DOMAIN convs : SameConv(d)
        /\ r \in DOMAIN records /\ SameRow(r)
    BY <1>6 DEF ConvsKept, RowsSettled
  <2>2. CASE r # h[s].rid
    <3>1. records'[r] = records[r]
      BY <1>6, <2>1, <2>2 DEF RowsSettled
    <3>2. SameOutcome(r)
      BY <3>1 DEF SameOutcome
    <3> QED  BY <1>2, <1>3, <2>1, <3>2, ConvToldKept
  <2>3. CASE r = h[s].rid
    <3>1. Owner(h[s]) /\ Stored(r) /\ records[r].kind = h[s].kind
      BY <1>6, <2>3 DEF OwnInv, RowsSettled
    <3>2. \A d \in DOMAIN convs :
            convs'[d].rid = convs[d].rid /\ convs'[d].first = convs[d].first
      BY <2>1 DEF SameConv
    <3>3. CASE h[s].kind # "conversations"
      <4>1. \A c \in DOMAIN convs : convs[c].rid # r
        BY <3>1, <3>3 DEF ConvRidInv
      <4>2. h[s].kind = "plans"
        <5>1. TypeInv /\ r \in Nat /\ r <= Len(records)
          BY <2>3, SlotFacts DEF Shape
        <5>2. records[r] \in Record
          BY <3>1, <5>1, StoredRecord
        <5> QED  BY <3>1, <3>3, <5>2 DEF Record, Posts
      <4>3. \/ records'[r].status = "failed"
            \/ records'[r].status = "succeeded" /\ records'[r].reply.kind = "plans"
        BY <1>6, <2>3, <4>2 DEF RowsSettled, ReplyOf
      <4> QED  BY <2>1, <3>2, <4>1, <4>3 DEF ConvTold
    <3>4. CASE h[s].pc = "record" /\ records'[r].status = "succeeded"
               /\ records'[r].reply = ReplyOf(s)
      <4>1. ReplyOf(s).id \in DOMAIN convs /\ convs[ReplyOf(s).id].first
        BY <1>1, <3>4 DEF ConvWorkInv, ReplyOf
      <4> QED  BY <2>1, <3>2, <3>4, <4>1 DEF ConvTold
    <3>5. CASE h[s].pc = "fail" /\ records'[r].status = "failed"
      <4>1. \A c \in DOMAIN convs : convs[c].rid = r => ~convs[c].first
        BY <2>3, <3>5 DEF ConvWorkInv
      <4> QED  BY <2>1, <3>2, <3>5, <4>1 DEF ConvTold
    <3> QED  BY <1>6, <2>3, <3>3, <3>4, <3>5 DEF RecordTold
  <2> QED  BY <2>2, <2>3
<1>7. CASE ConvOpened(s)
  <2>1. /\ r \in DOMAIN records /\ SameRow(r) /\ SameOutcome(r)
        /\ ~convs'[Len(convs) + 1].first
        /\ \A c \in DOMAIN convs' : c = Len(convs) + 1 \/ c \in DOMAIN convs
        /\ \A c \in DOMAIN convs : c \in DOMAIN convs' /\ convs'[c] = convs[c]
    BY <1>7 DEF ConvOpened, RowsKept
  <2>2. /\ ConvTold(r) /\ records'[r].status \in {records[r].status, "expired"}
        /\ records'[r].reply = records[r].reply
    BY <1>2, <1>3, <2>1 DEF SameRow, SameOutcome
  <2> QED  BY <2>1, <2>2 DEF ConvTold
<1>8. CASE ConvFinished(s)
  <2> DEFINE i == h[s].id
  <2>1. i \in DOMAIN convs /\ convs[i].rid = h[s].rid /\ Planning(h[s], "conversations")
    BY <1>1, <1>8 DEF ConvFinished, ConvWorkInv
  <2>2. /\ DOMAIN convs' = DOMAIN convs /\ convs'[i].rid = convs[i].rid /\ convs'[i].first
        /\ \A d \in DOMAIN convs :
             d # i => convs'[d].rid = convs[d].rid /\ convs'[d].first = convs[d].first
        /\ r \in DOMAIN records /\ SameRow(r) /\ SameOutcome(r)
    BY <1>8 DEF ConvFinished, SameConv, RowsKept
  <2>3. /\ ConvTold(r) /\ records'[r].status \in {records[r].status, "expired"}
        /\ records'[r].reply = records[r].reply /\ Stored(r)
    BY <1>2, <1>3, <2>2 DEF SameRow, SameOutcome
  <2>4. records'[r].status = "failed" => r # convs[i].rid
    <3>1. ASSUME r = h[s].rid PROVE records[r].status \in {"processing", "expired"}
      <4>1. Owner(h[s])
        BY <2>1, <2>3, <3>1 DEF Owner, Planning, Stored
      <4> QED  BY <2>3, <3>1, <4>1 DEF OwnInv
    <3> QED  BY <2>1, <2>3, <3>1
  <2> HIDE DEF i
  <2> QED  BY <2>1, <2>2, <2>3, <2>4 DEF ConvTold
<1> QED  BY <1>4, <1>5, <1>6, <1>7, <1>8 DEF ConvsChange, ConvsKept

LEMMA ConvToldOther ==
  ASSUME ConvToldInv, RowsKept, UNCHANGED convs
  PROVE  ConvToldInv'
  BY ConvToldKept, SameConvs DEF ConvToldInv, RowsKept

-----------------------------------------------------------------------------
(* Answers are kept *)

\* Where a handler that serves a conversation has to be in step with it.
Placed(x, c) ==
  /\ x.kind # "plans" => x.id <= c
  /\ x.kind = "conversations" /\ x.pc \in {"expire", "drop", "insert", "budget", "open"} =>
       x.id = 0

LEMMA PlacedStep ==
  ASSUME Shape, AnswersInv, NEW s \in Slots, Others(s), Len(convs') \in Nat,
         Len(convs) <= Len(convs'), Placed(h'[s], Len(convs'))
  PROVE  \A t \in Slots : Placed(h'[t], Len(convs'))
<1>1. ASSUME NEW t \in Slots, t # s
      PROVE  Placed(h'[t], Len(convs'))
  <2>1. h'[t] = h[t] /\ h[t].id \in Nat /\ Len(convs) \in Nat /\ Placed(h[t], Len(convs))
    BY <1>1, SlotFacts DEF Others, AnswersInv, Placed
  <2> QED  BY <2>1 DEF Placed
<1> QED  BY <1>1

\* Handlers and conversations that are as they were.
LEMMA OthersKept ==
  ASSUME NEW s \in Slots, Others(s), NEW c \in DOMAIN convs, ConvKept(c), convs'[c] = convs[c]
  PROVE  /\ \A t \in Slots : t # s => /\ InFlight(t, c)' <=> InFlight(t, c)
                                      /\ InFlight(t, c) => AnswerKept(t, c)'
         /\ \A f \in Fields : convs'[c].said[f] # Unset => convs'[c].request[f] = convs'[c].said[f]
         /\ convs'[c].state \notin {"running", "failed"} => convs'[c].of = convs'[c].request
  BY DEF Others, ConvKept, InFlight, AnswerKept

LEMMA KeepsConv ==
  ASSUME NEW s \in Slots, Others(s), NEW c \in DOMAIN convs, ConvKept(c), convs'[c] = convs[c],
         InFlight(s, c)' => InFlight(s, c) /\ AnswerKept(s, c)'
  PROVE  ConvKept(c)'
<1>1. /\ \A t \in Slots : t # s => /\ InFlight(t, c)' <=> InFlight(t, c)
                                   /\ InFlight(t, c) => AnswerKept(t, c)'
      /\ \A f \in Fields : convs'[c].said[f] # Unset => convs'[c].request[f] = convs'[c].said[f]
      /\ convs'[c].state \notin {"running", "failed"} => convs'[c].of = convs'[c].request
  BY OthersKept
<1>2. \A t, u \in Slots : InFlight(t, c)' /\ InFlight(u, c)' => t = u
  <2>1. \A t, u \in Slots : InFlight(t, c) /\ InFlight(u, c) => t = u
    BY DEF ConvKept
  <2>2. \A t \in Slots : InFlight(t, c)' => InFlight(t, c)
    BY <1>1
  <2> QED  BY <2>1, <2>2
<1>3. \A t \in Slots : InFlight(t, c)' => AnswerKept(t, c)'
  BY <1>1
<1> QED  BY <1>1, <1>2, <1>3 DEF ConvKept

LEMMA AnswersQuiet ==
  ASSUME Shape, AnswersInv, NEW s \in Slots, Others(s), UNCHANGED convs,
         Placed(h'[s], Len(convs)),
         \A c \in DOMAIN convs : ConvKept(c) /\ InFlight(s, c)' =>
           InFlight(s, c) /\ AnswerKept(s, c)'
  PROVE  AnswersInv'
<1>1. Len(convs) \in Nat
  BY SlotFacts
<1>2. \A t \in Slots : Placed(h'[t], Len(convs'))
  BY <1>1, PlacedStep
<1>3. \A c \in DOMAIN convs' : ~convs'[c].overlap => ConvKept(c)'
  BY KeepsConv DEF AnswersInv
<1> QED  BY <1>2, <1>3 DEF AnswersInv, Placed

\* The one handler of conversation c writes it.
LEMMA AnswersWrite ==
  ASSUME Shape, AnswersInv, NEW s \in Slots, Others(s), NEW c \in 1..Len(convs), InFlight(s, c),
         NEW x \in Conv, ConvWritten(c, x), x.overlap = convs[c].overlap,
         h'[s].id \in {0, c}, Placed(h'[s], Len(convs)),
         ~x.overlap =>
           /\ \A f \in Fields : x.said[f] # Unset => x.request[f] = x.said[f]
           /\ x.state \notin {"running", "failed"} => x.of = x.request
           /\ InFlight(s, c)' => AnswerKept(s, c)'
  PROVE  AnswersInv'
<1>1. /\ Len(convs) \in Nat /\ DOMAIN convs = 1..Len(convs) /\ DOMAIN convs' = DOMAIN convs
      /\ Len(convs') = Len(convs) /\ convs'[c] = x
      /\ \A d \in DOMAIN convs : d # c => convs'[d] = convs[d]
  BY DEF Shape, TypeInv, ConvWritten
<1>2. \A t \in Slots : Placed(h'[t], Len(convs'))
  BY <1>1, PlacedStep
<1>3. ASSUME NEW d \in DOMAIN convs, ~convs'[d].overlap
      PROVE  ConvKept(d)'
  <2>1. CASE d # c
    <3>1. ConvKept(d) /\ convs'[d] = convs[d]
      BY <1>1, <1>3, <2>1 DEF AnswersInv
    <3>2. ~InFlight(s, d)'
      BY <1>1, <2>1 DEF InFlight
    <3> QED  BY <3>1, <3>2, KeepsConv
  <2>2. CASE d = c
    <3>1. ConvKept(c)
      BY <1>1, <1>3, <2>2 DEF AnswersInv
    <3>2. \A t \in Slots : t # s => ~InFlight(t, c)'
      <4>1. \A t \in Slots : t # s => ~InFlight(t, c)
        BY <3>1 DEF ConvKept
      <4> QED  BY <4>1 DEF Others, InFlight
    <3>3. \A t, u \in Slots : InFlight(t, c)' /\ InFlight(u, c)' => t = u
      BY <3>2
    <3>4. \A t \in Slots : InFlight(t, c)' => AnswerKept(t, c)'
      BY <1>1, <1>3, <2>2, <3>2
    <3> QED  BY <1>1, <1>3, <2>2, <3>3, <3>4 DEF ConvKept
  <2> QED  BY <2>1, <2>2
<1> QED  BY <1>1, <1>2, <1>3 DEF AnswersInv, Placed

\* A handler that goes on, other than by opening, keeps what it works with.
LEMMA AdvanceWork ==
  ASSUME Shape, NEW s \in Slots, SlotStep(s), ~Open(s), Advance(s)
  PROVE  /\ h[s].pc # "open" /\ h'[s].id = h[s].id /\ h'[s].request = h[s].request
         /\ h'[s].answer = h[s].answer /\ h'[s].same = h[s].same /\ h'[s].state = h[s].state
<1>1. TypeInv
  BY DEF Shape
<1>2. h[s].pc \notin {"idle", "drop", "insert", "record", "fail"} /\ h'[s] # Idle
  BY IdleFields DEF Advance
<1>3. ~Return(s)
  BY <1>1, <1>2, ReturnMove
<1>4. h[s].pc # "open" /\ \E p \in {"drop", "insert", "open", "commit", "fail", "record"} : Goto(s, p)
  BY <1>2, <1>3 DEF SlotStep, Begin, Continue, MarkExpired, DropExpired, Insert, EnforceAIBudget,
     AfterBudget, Planned, PlanRaises, CommitPlan, CommitConversation, RecordConversation,
     FailRecord, SaveRaises, Stop
<1> QED  BY <1>1, <1>4, GotoMove DEF PCs

LEMMA AnswersMove ==
  ASSUME Shape, AnswersInv, NEW s \in Slots, SlotStep(s), UNCHANGED convs,
         Open(s) => h[s].kind = "plans", ~Answered(s)
  PROVE  AnswersInv'
<1>1. /\ Ready(h[s]) /\ h[s].kind \in Kinds /\ Len(convs) \in Nat /\ SlotMoves(s)
      /\ DOMAIN convs = 1..Len(convs) /\ Placed(h[s], Len(convs))
  BY SlotFacts, SlotMove DEF AnswersInv, Placed, Shape, TypeInv
<1>2. Others(s)
  BY <1>1 DEF SlotMoves
<1>3. CASE h'[s] = Idle \/ Arrive(s) \/ Dropped(s) \/ Inserted(s)
  <2>1. h'[s].kind = "plans" \/ h'[s].id = 0
    BY <1>1, <1>3, IdleFields DEF Arrive, Dropped, Inserted, SameRequest, Ready, Placed, Posts
  <2>2. Placed(h'[s], Len(convs)) /\ \A c \in DOMAIN convs : ~InFlight(s, c)'
    BY <1>1, <2>1 DEF Placed, InFlight
  <2> QED  BY <1>2, <2>2, AnswersQuiet
<1>4. CASE Advance(s) /\ Open(s)
  <2>1. h'[s].kind = "plans"
    BY <1>4 DEF Advance, SameRequest
  <2>2. Placed(h'[s], Len(convs)) /\ \A c \in DOMAIN convs : ~InFlight(s, c)'
    BY <1>1, <2>1 DEF Placed, InFlight
  <2> QED  BY <1>2, <2>2, AnswersQuiet
<1>5. CASE Advance(s) /\ ~Open(s)
  <2>1. /\ h[s].pc # "open" /\ h'[s].id = h[s].id /\ h'[s].request = h[s].request
        /\ h'[s].answer = h[s].answer /\ h'[s].same = h[s].same /\ h'[s].state = h[s].state
    BY <1>5, AdvanceWork
  <2>2. Placed(h'[s], Len(convs))
    BY <1>1, <1>5, <2>1 DEF Placed, Advance, SameRequest
  <2>3. ASSUME NEW c \in DOMAIN convs, ConvKept(c), InFlight(s, c)'
        PROVE  InFlight(s, c) /\ AnswerKept(s, c)'
    <3>1. InFlight(s, c)
      BY <1>5, <2>1, <2>3 DEF InFlight, Advance, SameRequest
    <3>2. AnswerKept(s, c)
      BY <2>3, <3>1 DEF ConvKept
    <3> QED  BY <1>5, <2>1, <2>3, <3>1, <3>2 DEF AnswerKept, Advance
  <2> QED  BY <1>2, <2>2, <2>3, AnswersQuiet
<1> QED  BY <1>1, <1>3, <1>4, <1>5 DEF SlotMoves

\* An answer is taken.
LEMMA AnswersContinue ==
  ASSUME Shape, AnswersInv, NEW s \in Slots, NEW c \in DOMAIN convs, NEW field \in Fields,
         NEW value \in Values, Continue(s, c, convs[c].revision, field, value)
  PROVE  AnswersInv'
<1>1. /\ TypeInv /\ Len(convs) \in Nat /\ DOMAIN convs = 1..Len(convs) /\ h[s].pc = "idle"
      /\ c \in 1..Len(convs)
  BY DEF Shape, TypeInv, Continue
<1>2. /\ Others(s)
      /\ h'[s].pc = "budget" /\ h'[s].kind = "continue" /\ h'[s].id = c
      /\ h'[s].answer = <<field, value>> /\ h'[s].state = convs[c].state
      /\ h'[s].request = ApplyAnswer(convs[c].request, field, value)
      /\ h'[s].same = (convs[c].request[field] = value)
  BY <1>1, ContinueMove
<1>3. Placed(h'[s], Len(convs))
  BY <1>1, <1>2 DEF Placed
<1>4. \A d \in DOMAIN convs : ~InFlight(s, d) /\ (InFlight(s, d)' => d = c)
  BY <1>1, <1>2 DEF InFlight
<1>5. CASE \E t \in Slots : InFlight(t, c)
  <2>1. convs' = [convs EXCEPT ![c] = [@ EXCEPT !.overlap = TRUE]]
    BY <1>5 DEF Continue
  <2>2. PICK x \in Conv : ConvWritten(c, x) /\ x.overlap
    BY <1>1, <2>1, ConvOverlaps
  <2>3. /\ DOMAIN convs' = DOMAIN convs /\ Len(convs') = Len(convs) /\ convs'[c].overlap
        /\ \A d \in DOMAIN convs : d # c => convs'[d] = convs[d]
    BY <2>2 DEF ConvWritten
  <2>4. \A t \in Slots : Placed(h'[t], Len(convs'))
    BY <1>1, <1>2, <1>3, <2>3, PlacedStep
  <2>5. ASSUME NEW d \in DOMAIN convs, ~convs'[d].overlap PROVE ConvKept(d)'
    <3>1. d # c /\ convs'[d] = convs[d] /\ ConvKept(d) /\ ~InFlight(s, d)'
      BY <1>4, <2>3, <2>5 DEF AnswersInv
    <3> QED  BY <1>2, <3>1, KeepsConv
  <2> QED  BY <2>3, <2>4, <2>5 DEF AnswersInv, Placed
<1>6. CASE ~\E t \in Slots : InFlight(t, c)
  <2>1. convs' = convs
    BY <1>6 DEF Continue
  <2>2. \A t \in Slots : Placed(h'[t], Len(convs'))
    BY <1>1, <1>2, <1>3, <2>1, PlacedStep
  <2>3. ASSUME NEW d \in DOMAIN convs, ~convs'[d].overlap, d # c PROVE ConvKept(d)'
    <3>1. convs'[d] = convs[d] /\ ConvKept(d) /\ ~InFlight(s, d)'
      BY <1>4, <2>1, <2>3 DEF AnswersInv
    <3> QED  BY <1>2, <3>1, KeepsConv
  <2>4. ASSUME ~convs'[c].overlap PROVE ConvKept(c)'
    <3>1. ConvKept(c) /\ convs'[c] = convs[c]
      BY <2>1, <2>4 DEF AnswersInv
    <3>2. \A t \in Slots : InFlight(t, c)' => t = s
      BY <1>2, <1>6 DEF Others, InFlight
    <3>3. AnswerKept(s, c)'
      <4>1. h'[s].answer[1] = field /\ h'[s].answer[2] = value
        BY <1>2
      <4> QED  BY <1>2, <2>1, <4>1 DEF AnswerKept, ApplyAnswer
    <3> QED  BY <1>2, <3>1, <3>2, <3>3, OthersKept DEF ConvKept
  <2> QED  BY <2>1, <2>2, <2>3, <2>4 DEF AnswersInv, Placed
<1> QED  BY <1>5, <1>6

\* A conversation starts with what its body says.
LEMMA AnswersOpen ==
  ASSUME Shape, AnswersInv, NEW s \in Slots, Open(s), h[s].kind = "conversations"
  PROVE  AnswersInv'
<1>0. PICK n : n = Len(convs) + 1
  OBVIOUS
<1>1. /\ TypeInv /\ Len(convs) \in Nat /\ DOMAIN convs = 1..Len(convs)
      /\ h[s].body \in Bodies /\ prefs \in Values \cup {Unset}
  BY SlotFacts DEF Shape, TypeInv, Ready, Posts
<1>2. /\ Others(s) /\ SameRequest(s) /\ h'[s].pc = "plan" /\ h'[s].id = n
      /\ h'[s].request = Applied(h[s].body, prefs)
      /\ convs' = Append(convs, NewConv(s)) /\ NewConv(s) \in Conv
  BY <1>0, <1>1, OpenConvMove
<1>3. /\ convs' \in Seq(Conv) /\ Len(convs') = n /\ convs'[n] = NewConv(s)
      /\ \A d \in DOMAIN convs' : d = n \/ (d \in DOMAIN convs /\ convs'[d] = convs[d])
  BY <1>0, <1>1, <1>2, AppendConv
<1>4. \A f \in Fields : h[s].body.said[f] # Unset =>
        Applied(h[s].body, prefs)[f] = h[s].body.said[f]
  BY <1>1, AppliedKeeps
<1>5. \A t \in Slots : Placed(h'[t], Len(convs'))
  <2>1. Placed(h'[s], Len(convs'))
    BY <1>0, <1>1, <1>2, <1>3 DEF Placed
  <2> QED  BY <1>0, <1>1, <1>2, <1>3, <2>1, PlacedStep
<1>6. \A t \in Slots : t # s => ~InFlight(t, n)'
  <2>1. \A t \in Slots : h[t].kind # "plans" => h[t].id # n
    BY <1>0, <1>1, SlotFacts DEF AnswersInv
  <2> QED  BY <1>0, <1>2, <2>1 DEF Others, InFlight
<1>7. /\ NewConv(s).state = "running" /\ NewConv(s).said = h[s].body.said
      /\ NewConv(s).request = Applied(h[s].body, prefs)
  BY DEF NewConv
<1>8. ASSUME NEW d \in DOMAIN convs', ~convs'[d].overlap PROVE ConvKept(d)'
  <2>1. CASE d = n
    <3>1. AnswerKept(s, n)'
      BY <1>2, <1>3, <1>7 DEF AnswerKept
    <3>2. \A t, u \in Slots : InFlight(t, n)' /\ InFlight(u, n)' => t = u
      BY <1>6
    <3> QED  BY <1>3, <1>4, <1>6, <1>7, <2>1, <3>1, <3>2 DEF ConvKept
  <2>2. CASE d # n
    <3>1. d \in DOMAIN convs /\ convs'[d] = convs[d]
      BY <1>3, <2>2
    <3>2. ConvKept(d) /\ ~InFlight(s, d)'
      BY <1>2, <1>8, <2>2, <3>1 DEF AnswersInv, InFlight
    <3> QED  BY <1>2, <3>1, <3>2, KeepsConv
  <2> QED  BY <2>1, <2>2
<1> QED  BY <1>5, <1>8 DEF AnswersInv, Placed

\* A conversation goes on with the request its handler read and changed.
LEMMA AnswersGoOn ==
  ASSUME Shape, AnswersInv, NEW s \in Slots, Open(s), h[s].kind = "continue"
  PROVE  AnswersInv'
<1>0. PICK c : c = h[s].id
  OBVIOUS
<1> DEFINE conv == convs[c]
           x == Continued(s, conv)
           f == h[s].answer[1]
           v == h[s].answer[2]
<1>1. /\ TypeInv /\ Len(convs) \in Nat /\ DOMAIN convs = 1..Len(convs) /\ h[s].pc = "open"
      /\ Ready(h[s]) /\ Points(h[s], Len(records), Len(runs), Len(convs)) /\ h[s] \in Handler
  BY SlotFacts DEF Shape, TypeInv, Open
<1>2. c \in 1..Len(convs) /\ h[s].answer \in Fields \X Values
  BY <1>0, <1>1 DEF Points, Ready
<1>3. /\ Others(s) /\ SameRequest(s) /\ h'[s].pc = "plan" /\ h'[s].id = c
      /\ h'[s].request = h[s].request
      /\ convs' = [convs EXCEPT ![c] = x]
  BY <1>0, <1>1, OpenContinueMove
<1>4. conv \in Conv /\ conv.request \in Request /\ conv.said \in Request
  <2>1. conv \in Conv
    BY <1>1, <1>2 DEF TypeInv
  <2> QED  BY <2>1 DEF Conv
<1>5. /\ x \in Conv /\ x.overlap = conv.overlap
      /\ x.state = IF h[s].state = "running" THEN conv.state ELSE "running"
      /\ x.request = IF h[s].same THEN conv.request ELSE h[s].request
      /\ x.said = [conv.said EXCEPT ![f] = v]
  BY <1>1, <1>2, <1>4, ContinuedFields
<1>6. f \in Fields /\ v \in Values
  BY <1>2
<1>7. InFlight(s, c)
  BY <1>0, <1>1 DEF InFlight
<1> HIDE DEF x, f, v
<1>8. ConvWritten(c, x)
  BY <1>1, <1>2, <1>3, <1>5, WriteConv
<1>9. ASSUME ~x.overlap
      PROVE  /\ x.request = h[s].request /\ x.state = "running"
             /\ \A g \in Fields : x.said[g] # Unset => x.request[g] = x.said[g]
  <2>1. ConvKept(c)
    BY <1>1, <1>2, <1>5, <1>9 DEF AnswersInv
  <2>2. /\ h[s].request = [conv.request EXCEPT ![f] = v]
        /\ h[s].same = (conv.request[f] = v) /\ h[s].state = conv.state
    BY <1>1, <1>7, <2>1 DEF ConvKept, AnswerKept, f, v
  <2>3. \A g \in Fields : conv.said[g] # Unset => conv.request[g] = conv.said[g]
    BY <2>1 DEF ConvKept
  <2> HIDE DEF conv
  <2>4. x.state = "running"
    BY <1>5, <2>2
  <2>5. x.request = [conv.request EXCEPT ![f] = v]
    <3>1. CASE h[s].same
      <4>1. conv.request[f] = v
        BY <2>2, <3>1
      <4>2. conv.request = [conv.request EXCEPT ![f] = v]
        BY <1>4, <1>6, <4>1 DEF Request
      <4> QED  BY <1>5, <3>1, <4>2
    <3>2. CASE ~h[s].same
      BY <1>5, <2>2, <3>2
    <3> QED  BY <3>1, <3>2
  <2>6. ASSUME NEW g \in Fields, x.said[g] # Unset
        PROVE  x.request[g] = x.said[g]
    <3>1. CASE g = f
      BY <1>4, <1>5, <1>6, <2>5, <3>1 DEF Request
    <3>2. CASE g # f
      BY <1>4, <1>5, <1>6, <2>3, <2>5, <2>6, <3>2 DEF Request
    <3> QED  BY <3>1, <3>2
  <2> QED  BY <2>2, <2>4, <2>5, <2>6
<1>10. convs'[c] = x
  BY <1>8 DEF ConvWritten
<1>11. ~x.overlap => AnswerKept(s, c)'
  BY <1>3, <1>9, <1>10 DEF AnswerKept
<1>12. Placed(h'[s], Len(convs))
  BY <1>1, <1>2, <1>3 DEF Placed, SameRequest
<1>13. h'[s].id \in {0, c} /\ x.overlap = convs[c].overlap
  BY <1>3, <1>5
<1>14. ~x.overlap =>
         /\ \A g \in Fields : x.said[g] # Unset => x.request[g] = x.said[g]
         /\ x.state \notin {"running", "failed"} => x.of = x.request
         /\ InFlight(s, c)' => AnswerKept(s, c)'
  BY <1>9, <1>11
<1> HIDE DEF conv
<1> QED  BY <1>2, <1>3, <1>5, <1>7, <1>8, <1>12, <1>13, <1>14, AnswersWrite

\* The planning of a conversation ends with a result or a failure.
LEMMA AnswersEnd ==
  ASSUME Shape, AnswersInv, NEW s \in Slots, h[s].kind # "plans",
         PlanRaises(s) \/ \E outcome \in Outcomes : CommitConversation(s, outcome)
  PROVE  AnswersInv'
<1>0. PICK c : c = h[s].id
  OBVIOUS
<1>1. /\ TypeInv /\ Len(convs) \in Nat /\ DOMAIN convs = 1..Len(convs)
      /\ h[s].pc \in {"plan", "commit"} /\ Ready(h[s]) /\ h[s].kind \in Kinds
      /\ Points(h[s], Len(records), Len(runs), Len(convs))
  BY SlotFacts DEF Shape, TypeInv, PlanRaises, CommitConversation
<1>2. c \in 1..Len(convs) /\ InFlight(s, c) /\ DOMAIN convs = 1..Len(convs)
  BY <1>0, <1>1 DEF Points, Ready, Kinds, Posts, InFlight
<1>3. Return(s) \/ Goto(s, "fail") \/ Goto(s, "record")
  BY DEF PlanRaises, CommitConversation
<1>4. /\ Others(s) /\ h'[s].id \in {0, c} /\ h'[s].pc \in {"idle", "fail", "record"}
  BY <1>0, <1>1, <1>3, ReturnMove, GotoMove, IdleFields DEF PCs
<1>5. Placed(h'[s], Len(convs)) /\ AnswerKept(s, c)'
  BY <1>1, <1>2, <1>4 DEF Placed, AnswerKept
<1>6. ConvKept(c) => /\ \A f \in Fields : convs[c].said[f] # Unset =>
                          convs[c].request[f] = convs[c].said[f]
                     /\ h[s].request = convs[c].request
  BY <1>1, <1>2 DEF ConvKept, AnswerKept
<1>7. ~convs[c].overlap => ConvKept(c)
  BY <1>2 DEF AnswersInv
<1>8. CASE PlanRaises(s)
  <2>1. convs' = [convs EXCEPT ![c] = [@ EXCEPT !.state = "failed"]]
    BY <1>0, <1>8 DEF PlanRaises
  <2>2. PICK x \in Conv :
          /\ ConvWritten(c, x) /\ x.state = "failed" /\ x.said = convs[c].said
          /\ x.request = convs[c].request /\ x.overlap = convs[c].overlap
    BY <1>1, <1>2, <2>1, ConvFails
  <2>3. ~x.overlap =>
          /\ \A f \in Fields : x.said[f] # Unset => x.request[f] = x.said[f]
          /\ x.state \notin {"running", "failed"} => x.of = x.request
          /\ InFlight(s, c)' => AnswerKept(s, c)'
    BY <1>5, <1>6, <1>7, <2>2
  <2> QED  BY <1>2, <1>4, <1>5, <2>2, <2>3, AnswersWrite
<1>9. ASSUME NEW outcome \in Outcomes, CommitConversation(s, outcome)
      PROVE  AnswersInv'
  <2>1. convs' = [convs EXCEPT ![c] = Resulted(s, convs[c], outcome)]
    BY <1>0, <1>9 DEF CommitConversation
  <2>2. PICK x \in Conv :
          /\ ConvWritten(c, x) /\ x.of = h[s].request /\ x.said = convs[c].said
          /\ x.request = convs[c].request /\ x.overlap = convs[c].overlap
    BY <1>1, <1>2, <2>1, ConvResult
  <2>3. ~x.overlap =>
          /\ \A f \in Fields : x.said[f] # Unset => x.request[f] = x.said[f]
          /\ x.state \notin {"running", "failed"} => x.of = x.request
          /\ InFlight(s, c)' => AnswerKept(s, c)'
    BY <1>5, <1>6, <1>7, <2>2
  <2> QED  BY <1>2, <1>4, <1>5, <2>2, <2>3, AnswersWrite
<1> QED  BY <1>8, <1>9

\* A handler that opens its row does not return.
LEMMA OpenMoves ==
  ASSUME TypeInv, NEW s \in Slots, Ready(h[s]), Return(s)
  PROVE  ~Open(s)
<1>1. h'[s].pc = "idle" /\ h[s].kind \in Kinds
  BY ReturnMove, IdleFields DEF TypeInv, Handler
<1>2. ASSUME Open(s) PROVE h'[s].pc = "plan"
  <2>1. h[s].pc = "open" /\ h[s].kind \in Posts \cup {"continue"}
    BY <1>1, <1>2 DEF Open, Ready, Kinds
  <2>2. CASE h[s].kind = "conversations"
    <3>1. h[s].body \in Bodies
      BY <2>2 DEF Ready, Posts
    <3> QED  BY <1>2, <2>2, <3>1, OpenConvMove
  <2> QED  BY <1>2, <2>1, <2>2, OpenPlanMove, OpenContinueMove DEF Posts
<1> QED  BY <1>1, <1>2

LEMMA AnswersStep ==
  ASSUME Shape, AnswersInv, NEW s \in Slots, SlotStep(s)
  PROVE  AnswersInv'
<1>1. TypeInv /\ Ready(h[s]) /\ h[s].kind \in Kinds
  BY SlotFacts DEF Shape
<1>2. ASSUME NEW c \in DOMAIN convs, NEW base \in Nat, NEW field \in Askable,
             NEW value \in Values, Continue(s, c, base, field, value)
      PROVE  AnswersInv'
  <2>1. CASE base = convs[c].revision /\ field \in Fields
    <3>1. Continue(s, c, convs[c].revision, field, value) /\ field \in Fields
      BY <1>2, <2>1
    <3> QED  BY <3>1, AnswersContinue
  <2>2. CASE ~(base = convs[c].revision /\ field \in Fields)
    <3>1. UNCHANGED convs /\ h'[s] = Idle /\ h[s].pc = "idle"
      BY <1>1, <1>2, <2>2, ReturnMove DEF Continue
    <3>2. ~Answered(s) /\ ~Open(s)
      BY <3>1, IdleFields DEF Answered, Open
    <3> QED  BY <3>1, <3>2, AnswersMove
  <2> QED  BY <2>1, <2>2
<1>3. CASE Open(s) /\ h[s].kind # "plans"
  <2>1. h[s].kind = "conversations" \/ h[s].kind = "continue"
    BY <1>1, <1>3 DEF Open, Ready, Kinds, Posts
  <2> QED  BY <1>3, <2>1, AnswersOpen, AnswersGoOn
<1>4. CASE /\ PlanRaises(s) \/ \E outcome \in Outcomes : CommitConversation(s, outcome)
           /\ h[s].kind # "plans"
  BY <1>4, AnswersEnd
<1>5. ASSUME NEW kind \in Posts, NEW body \in Bodies, NEW key \in Headers,
             Begin(s, kind, body, key)
      PROVE  AnswersInv'
  <2>1. h'[s] = Idle \/ h'[s].kind = kind
    BY <1>1, <1>5, BeginMove
  <2>2. UNCHANGED convs /\ ~Answered(s) /\ ~Open(s)
    BY <1>5, <2>1, IdleFields DEF Begin, Answered, Open, Posts, tables
  <2> QED  BY <2>2, AnswersMove
<1>6. ASSUME \/ MarkExpired(s) \/ DropExpired(s) \/ Insert(s) \/ EnforceAIBudget(s)
             \/ Open(s) /\ h[s].kind = "plans"
             \/ \E used \in Usage : Planned(s, used)
             \/ PlanRaises(s) /\ h[s].kind = "plans"
             \/ \E outcome \in Outcomes : CommitPlan(s, outcome)
             \/ RecordConversation(s) \/ FailRecord(s) \/ SaveRaises(s) \/ Stop(s)
      PROVE  AnswersInv'
  <2>1. UNCHANGED convs /\ h[s].pc # "idle"
    BY <1>6 DEF MarkExpired, DropExpired, Insert, EnforceAIBudget, Open, Planned, PlanRaises,
       CommitPlan, RecordConversation, FailRecord, SaveRaises, Stop, tables
  <2>2. Open(s) => h[s].kind = "plans"
    <3>1. CASE Stop(s)
      BY <1>1, <3>1, OpenMoves DEF Stop
    <3> QED
      BY <1>6, <3>1 DEF Open, MarkExpired, DropExpired, Insert, EnforceAIBudget, Planned,
         PlanRaises, CommitPlan, RecordConversation, FailRecord, SaveRaises
  <2> QED  BY <2>1, <2>2, AnswersMove DEF Answered
<1>7. \A outcome \in Outcomes : CommitConversation(s, outcome) => h[s].kind # "plans"
  BY DEF CommitConversation
<1> QED  BY <1>2, <1>3, <1>4, <1>5, <1>6, <1>7 DEF SlotStep

LEMMA AnswersOther ==
  ASSUME AnswersInv, UNCHANGED <<convs, h>>
  PROVE  AnswersInv'
  BY DEF AnswersInv, ConvKept, InFlight, AnswerKept

-----------------------------------------------------------------------------
(* The inductive invariant and what follows from it. *)

IInv ==
  /\ Shape /\ QuotaInv
  /\ OwnInv /\ KeyInv /\ ReplyInv
  /\ RunRidInv /\ RunWorkInv /\ RunToldInv
  /\ ConvRidInv /\ ConvWorkInv /\ ConvToldInv
  /\ AnswersInv

LEMMA InitInv == Init => IInv
<1> SUFFICES ASSUME Init PROVE IInv
  OBVIOUS
<1>1. /\ DOMAIN records = {} /\ DOMAIN runs = {} /\ DOMAIN convs = {}
      /\ Len(convs) = 0 /\ strays = {}
  BY DEF Init
<1>2. \A s \in Slots : h[s].pc = "idle" /\ h[s].rid = 0 /\ h[s].id = 0
  BY IdleFields DEF Init
<1>3. OwnInv /\ KeyInv /\ ReplyInv
  BY <1>1, <1>2 DEF OwnInv, KeyInv, ReplyInv, Owner
<1>4. RunRidInv /\ RunWorkInv /\ RunToldInv
  BY <1>1, <1>2 DEF RunRidInv, RunWorkInv, RunToldInv, Planning
<1>5. ConvRidInv /\ ConvWorkInv /\ ConvToldInv
  BY <1>1, <1>2 DEF ConvRidInv, ConvWorkInv, ConvToldInv, Planning
<1>6. AnswersInv
  BY <1>1, <1>2 DEF AnswersInv
<1> QED  BY <1>3, <1>4, <1>5, <1>6, ShapeInit, QuotaInit DEF IInv

LEMMA StepInv == IInv /\ [Next]_vars => IInv'
<1> SUFFICES ASSUME IInv, [Next]_vars PROVE IInv'
  OBVIOUS
<1>1. /\ Shape /\ QuotaInv /\ OwnInv /\ KeyInv /\ ReplyInv
      /\ RunRidInv /\ RunWorkInv /\ RunToldInv
      /\ ConvRidInv /\ ConvWorkInv /\ ConvToldInv /\ AnswersInv
  BY DEF IInv
<1>2. Shape' /\ QuotaInv'
  BY <1>1, ShapeStep, QuotaStep
<1>3. ASSUME NEW s \in Slots, SlotStep(s) PROVE IInv'
  <2>1. SlotMoves(s) /\ RowsChange(s) /\ RunsChange(s) /\ ConvsChange(s)
    BY <1>1, <1>3, SlotMove, RowsChanged, RunsChanged, ConvsChanged
  <2>2. OwnInv' /\ KeyInv' /\ ReplyInv'
    BY <1>1, <1>3, <2>1, OwnStep, KeyStep, ReplyStep
  <2>3. RunRidInv' /\ RunWorkInv' /\ RunToldInv'
    BY <1>1, <2>1, RunRidStep, RunWorkStep, RunToldStep
  <2>4. ConvRidInv' /\ ConvWorkInv' /\ ConvToldInv'
    BY <1>1, <1>2, <2>1, ConvRidStep, ConvWorkStep, ConvToldStep
  <2>5. AnswersInv'
    BY <1>1, <1>3, AnswersStep
  <2> QED  BY <1>2, <2>2, <2>3, <2>4, <2>5 DEF IInv
<1>4. ASSUME OtherStep \/ UNCHANGED vars PROVE IInv'
  <2>1. RowsKept /\ UNCHANGED <<runs, convs, h, strays>>
    BY <1>1, <1>4, OtherRows
  <2>2. OwnInv' /\ KeyInv' /\ ReplyInv'
    BY <1>1, <2>1, OwnOther, KeyOther, ReplyOther
  <2>3. RunRidInv' /\ RunToldInv' /\ ConvRidInv' /\ ConvToldInv' /\ AnswersInv'
    BY <1>1, <2>1, RunRidOther, RunToldOther, ConvRidOther, ConvToldOther, AnswersOther
  <2>4. RunWorkInv' /\ ConvWorkInv'
    BY <1>1, <2>1 DEF RunWorkInv, ConvWorkInv, Planning
  <2> QED  BY <1>2, <2>2, <2>3, <2>4 DEF IInv
<1> QED  BY <1>1, <1>3, <1>4, NextSplit DEF Shape

\* The inductive invariant: how the records, the handlers, the tables they wrote
\* and the counters of the quota stand to each other.
LEMMA Invariance == Spec => []IInv
  BY InitInv, StepInv, PTL DEF Spec

\* A reply that the lookup replays was computed by the endpoint it was sent to
\* and for the body the client sent (the fingerprint test and the final
\* commits of api/ai_planner.py), for any number of handlers that share, lose
\* and reuse a key.
THEOREM RepliesBelong == Spec => []RepliesMatch
<1>1. IInv => RepliesMatch
  BY DEF IInv, ReplyInv, RepliesMatch
<1> QED  BY <1>1, Invariance, PTL

\* A key whose record is valid has started at most one planning, whatever the
\* interleaving of the lookups and inserts of its requests.
THEOREM KeyPlansOnce == Spec => []OneExecutionPerKey
<1>1. ASSUME IInv PROVE OneExecutionPerKey
  <2>1. KeyInv /\ RunRidInv /\ ConvRidInv /\ TypeInv
    BY <1>1 DEF IInv, Shape
  <2>2. ASSUME NEW r \in Nat, NEW q \in Nat, r <= Len(records), q <= Len(records),
               Stored(r), Stored(q), records[r].kind = records[q].kind, r # q
        PROVE  records[r].key # records[q].key
    <3>1. r \in DOMAIN records /\ q \in DOMAIN records
      BY <2>1, <2>2 DEF TypeInv, Stored
    <3> QED  BY <2>1, <2>2, <3>1 DEF KeyInv
  <2>3. ASSUME NEW i \in DOMAIN runs, NEW j \in DOMAIN runs, i # j,
               Valid(runs[i].rid), Valid(runs[j].rid)
        PROVE  records[runs[i].rid].key # records[runs[j].rid].key
    <3>1. /\ runs[i].rid \in Nat /\ runs[i].rid <= Len(records)
          /\ runs[j].rid \in Nat /\ runs[j].rid <= Len(records)
      <4>1. runs[i] \in Run /\ runs[j] \in Run
        BY <2>1 DEF TypeInv
      <4> QED  BY <2>1, <4>1 DEF RunRidInv, Run
    <3>2. Stored(runs[i].rid) /\ Stored(runs[j].rid) /\ runs[i].rid > 0
      BY <2>3 DEF Valid, Stored
    <3>3. /\ runs[i].rid # runs[j].rid
          /\ records[runs[i].rid].kind = "plans" /\ records[runs[j].rid].kind = "plans"
      BY <2>1, <2>3, <3>2 DEF RunRidInv
    <3> QED  BY <2>2, <3>1, <3>2, <3>3
  <2>4. ASSUME NEW i \in DOMAIN convs, NEW j \in DOMAIN convs, i # j,
               Valid(convs[i].rid), Valid(convs[j].rid)
        PROVE  records[convs[i].rid].key # records[convs[j].rid].key
    <3>1. /\ convs[i].rid \in Nat /\ convs[i].rid <= Len(records)
          /\ convs[j].rid \in Nat /\ convs[j].rid <= Len(records)
      <4>1. convs[i] \in Conv /\ convs[j] \in Conv
        BY <2>1 DEF TypeInv
      <4> QED  BY <2>1, <4>1 DEF ConvRidInv, Conv
    <3>2. Stored(convs[i].rid) /\ Stored(convs[j].rid) /\ convs[i].rid > 0
      BY <2>4 DEF Valid, Stored
    <3>3. /\ convs[i].rid # convs[j].rid
          /\ records[convs[i].rid].kind = "conversations"
          /\ records[convs[j].rid].kind = "conversations"
      BY <2>1, <2>4, <3>2 DEF ConvRidInv
    <3> QED  BY <2>2, <3>1, <3>2, <3>3
  <2> QED  BY <2>3, <2>4 DEF OneExecutionPerKey
<1> QED  BY <1>1, Invariance, PTL

\* "succeeded" tells of a committed plan or conversation result, "failed" of a
\* planning that stored none: the commits and the failure handlers of both
\* POST endpoints, whichever of them is interrupted.
THEOREM RecordsTell == Spec => []RecordTellsOutcome
<1>1. ASSUME IInv PROVE RecordTellsOutcome
  <2>1. ReplyInv /\ RunToldInv /\ ConvToldInv
    BY <1>1 DEF IInv
  <2> QED  BY <2>1 DEF ReplyInv, RunToldInv, RunTold, ConvToldInv, ConvTold, RecordTellsOutcome
<1> QED  BY <1>1, Invariance, PTL

\* What the user said stays in the request of the conversation, and a result
\* stands beside the request it was computed from, as long as no two handlers
\* of the conversation overlap (the PATCH handler and its commits).
THEOREM AnswersStay == Spec => []AnswersKept
<1>1. IInv => AnswersKept
  BY DEF IInv, AnswersInv, ConvKept, AnswersKept
<1> QED  BY <1>1, Invariance, PTL

\* The plan counter and the token quota bound a day's plannings for any number
\* of handlers: every handler past _enforce_ai_budget and not yet charged is
\* one of the Slots, and adds at most one unit.
THEOREM QuotaStands == Spec => []QuotaHeld
<1>1. ASSUME IInv PROVE QuotaHeld
  <2>1. QuotaInv /\ TypeInv
    BY <1>1 DEF IInv, Shape
  <2>2. Cardinality(Spending) \in Nat
    BY SubsetCount DEF Spending
  <2>3. Cardinality(Slots) \in Nat /\ TokenLimit \in Nat
    BY SlotCountFacts, RequestsAssumption DEF SlotCount
  <2> QED  BY <2>1, <2>2, <2>3 DEF QuotaInv, QuotaHeld, TypeInv
<1> QED  BY <1>1, Invariance, PTL

=============================================================================
