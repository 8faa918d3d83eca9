------------------------- MODULE TripSessionProofs -------------------------
(***************************************************************************)
(* Proofs about TripSession for any number of requests, Workers, events,   *)
(* consents and limits.  What a request or a run holds depends on where it is, so   *)
(* the invariants speak of the fields a program counter gives a meaning    *)
(* to.  Each property has an inductive invariant of its own; they share    *)
(* what is known of the requests and of the runs.                          *)
(***************************************************************************)
EXTENDS TripSession, FiniteSetTheorems, TLAPS

-----------------------------------------------------------------------------
(* Requests and runs *)

\* Every request has a state.
Served == req = [r \in Requests |-> req[r]]

\* A record with the fields of an Agent run under way.
IsRun(x) ==
  x \in [pc : {x.pc}, job : {x.job}, state : {x.state}, now : {x.now}, consent : {x.consent},
         base : {x.base}, steps : {x.steps}, used : {x.used}, ruled : BOOLEAN,
         status : {x.status}]

\* Every Worker has a run, which may be idle.
Staffed == run = [w \in Workers |-> run[w]]

Running(w) == run[w].pc \in {"loop", "ended"}

\* A run has taken a whole number of steps, on a number of calls it has read.
RunShape ==
  \A w \in Workers : Running(w) => IsRun(run[w]) /\ run[w].steps \in Nat /\ run[w].base \in Nat

\* A request that moves leaves the others as they are.
LEMMA OneMoves ==
  ASSUME Served, NEW r \in Requests, NEW v, req' = [req EXCEPT ![r] = v]
  PROVE  /\ Served' /\ req'[r] = v
         /\ \A q \in Requests : q # r => req'[q] = req[q]
  BY DEF Served

\* A run that moves leaves the others as they are.
LEMMA OneRuns ==
  ASSUME Staffed, NEW w \in Workers, NEW x, RunIs(w, x)
  PROVE  /\ Staffed' /\ run'[w] = x
         /\ \A v \in Workers : v # w => run'[v] = run[v]
  BY DEF Staffed, RunIs

\* One more step of a run.
LEMMA StepFields ==
  ASSUME NEW w, IsRun(run[w]), NEW tool, NEW b \in BOOLEAN
  PROVE  LET x == StepTaken(w, tool, b) IN
         /\ IsRun(x) /\ x.job = run[w].job /\ x.base = run[w].base
         /\ x.steps = run[w].steps + 1 /\ x.used = run[w].used \cup {tool}
         /\ x.ruled = (run[w].ruled /\ b)
         /\ x.pc = IF run[w].steps + 1 = StepLimit THEN "ended" ELSE "loop"
<1> DEFINE x == StepTaken(w, tool, b)
<1>1. (run[w].ruled /\ b) \in BOOLEAN
  OBVIOUS
<1> QED  BY <1>1 DEF StepTaken, IsRun

\* The end of a run.
LEMMA EndFields ==
  ASSUME NEW w, IsRun(run[w]), NEW status, NEW b \in BOOLEAN
  PROVE  LET x == RunEnds(w, status, b) IN
         /\ IsRun(x) /\ x.job = run[w].job /\ x.base = run[w].base
         /\ x.steps = run[w].steps /\ x.used = run[w].used
         /\ x.ruled = (run[w].ruled /\ b) /\ x.pc = "ended" /\ x.status = status
<1>1. (run[w].ruled /\ b) \in BOOLEAN
  OBVIOUS
<1> QED  BY <1>1 DEF RunEnds, IsRun

\* A step taken by a run, by its rules or not, that calls a tool.
Took(w, tool) ==
  /\ ~RunBudgetExceeded(w)
  /\ run'[w].steps = run[w].steps + 1 /\ run'[w].used = run[w].used \cup {tool}
  /\ run'[w].pc = IF run[w].steps + 1 = StepLimit THEN "ended" ELSE "loop"

\* A run that is over, for a reason that is not the rules'.
Aborted(w) ==
  /\ run'[w].pc = "ended"
  /\ \/ run'[w].steps = run[w].steps /\ run'[w].status = "budget_exceeded"
     \/ /\ ~RunBudgetExceeded(w)
        /\ run'[w].steps = run[w].steps + 1 /\ run'[w].status = "tool_failed"

\* What a run keeps through a turn of its loop.
SameRun(w) ==
  /\ IsRun(run'[w]) /\ run'[w].job = run[w].job /\ run'[w].base = run[w].base
  /\ run'[w].pc \in {"loop", "ended"}

\* A turn that asks for a tool is a step or aborts the run.
LEMMA CallToolTurn ==
  ASSUME Staffed, NEW w \in Workers, IsRun(run[w]), NEW tool, NEW b \in BOOLEAN,
         CallTool(w, tool, b)
  PROVE  SameRun(w) /\ run'[w].ruled = (run[w].ruled /\ b) /\ (Took(w, tool) \/ Aborted(w))
<1> DEFINE Goal == SameRun(w) /\ run'[w].ruled = (run[w].ruled /\ b)
                     /\ (Took(w, tool) \/ Aborted(w))
<1>1. CASE RunBudgetExceeded(w) /\ RunIs(w, RunEnds(w, "budget_exceeded", b))
  <2>1. run'[w] = RunEnds(w, "budget_exceeded", b)
    BY <1>1, OneRuns
  <2> QED  BY <2>1, EndFields DEF SameRun, Aborted
<1>2. CASE ~RunBudgetExceeded(w) /\ RunIs(w, StepTaken(w, tool, b))
  <2>1. run'[w] = StepTaken(w, tool, b)
    BY <1>2, OneRuns
  <2> QED  BY <1>2, <2>1, StepFields DEF SameRun, Took
<1>3. ASSUME ~RunBudgetExceeded(w), NEW s, RunIs(w, [StepTaken(w, tool, b) EXCEPT !.now = s])
      PROVE  Goal
  <2> DEFINE x == StepTaken(w, tool, b)
  <2>1. /\ IsRun(x) /\ x.job = run[w].job /\ x.base = run[w].base
        /\ x.steps = run[w].steps + 1 /\ x.used = run[w].used \cup {tool}
        /\ x.ruled = (run[w].ruled /\ b)
        /\ x.pc = IF run[w].steps + 1 = StepLimit THEN "ended" ELSE "loop"
    BY StepFields
  <2>2. run'[w] = [x EXCEPT !.now = s]
    BY <1>3, OneRuns
  <2> HIDE DEF x
  <2>3. /\ IsRun(run'[w]) /\ run'[w].job = x.job /\ run'[w].base = x.base
        /\ run'[w].steps = x.steps
        /\ run'[w].used = x.used /\ run'[w].ruled = x.ruled /\ run'[w].pc = x.pc
    BY <2>1, <2>2 DEF IsRun
  <2> QED  BY <1>3, <2>1, <2>3 DEF SameRun, Took
<1>4. CASE /\ ~RunBudgetExceeded(w)
           /\ RunIs(w, [RunEnds(w, "tool_failed", b) EXCEPT !.steps = @ + 1])
  <2> DEFINE x == RunEnds(w, "tool_failed", b)
  <2>1. /\ IsRun(x) /\ x.job = run[w].job /\ x.base = run[w].base
        /\ x.steps = run[w].steps /\ x.used = run[w].used
        /\ x.ruled = (run[w].ruled /\ b) /\ x.pc = "ended" /\ x.status = "tool_failed"
    BY EndFields
  <2>2. run'[w] = [x EXCEPT !.steps = x.steps + 1]
    BY <1>4, OneRuns
  <2> HIDE DEF x
  <2>3. /\ IsRun(run'[w]) /\ run'[w].job = x.job /\ run'[w].base = x.base
        /\ run'[w].steps = x.steps + 1
        /\ run'[w].status = x.status /\ run'[w].ruled = x.ruled /\ run'[w].pc = x.pc
    BY <2>1, <2>2 DEF IsRun
  <2> QED  BY <1>4, <2>1, <2>3 DEF SameRun, Aborted
<1> QED  BY <1>1, <1>2, <1>3, <1>4 DEF CallTool

\* A turn of the loop takes a step, aborts the run or ends it.  Whatever is
\* still ruled was decided by the rules.
LEMMA Turn ==
  ASSUME Staffed, RunShape, NEW w \in Workers, RunStep(w)
  PROVE  /\ SameRun(w) /\ run[w].pc = "loop"
         /\ \/ \E tool : Took(w, tool) /\ (run'[w].ruled => tool = Ruled(w) /\ Ruled(w) # "finish")
            \/ Aborted(w)
            \/ run'[w].pc = "ended" /\ run'[w].steps = run[w].steps /\ run'[w].used = run[w].used
               /\ (run'[w].ruled => Ruled(w) = "finish")
         /\ run'[w].ruled => run[w].ruled
<1>1. IsRun(run[w]) /\ run[w].pc = "loop" /\ run[w].ruled \in BOOLEAN
  BY DEF RunShape, RunStep, Running, IsRun
<1>2. CASE Ruled(w) # "finish" /\ CallTool(w, Ruled(w), TRUE)
  <2>1. SameRun(w) /\ run'[w].ruled = (run[w].ruled /\ TRUE) /\ (Took(w, Ruled(w)) \/ Aborted(w))
    BY <1>1, <1>2, CallToolTurn
  <2>2. run'[w].ruled => run[w].ruled
    BY <2>1, Zenon
  <2> QED  BY <1>1, <1>2, <2>1, <2>2
<1>3. CASE Ruled(w) = "finish" /\ RunIs(w, RunEnds(w, "succeeded", TRUE))
  <2> DEFINE x == RunEnds(w, "succeeded", TRUE)
  <2>0. /\ IsRun(x) /\ x.job = run[w].job /\ x.base = run[w].base
        /\ x.steps = run[w].steps /\ x.used = run[w].used
        /\ x.ruled = (run[w].ruled /\ TRUE) /\ x.pc = "ended"
    <3>1. (run[w].ruled /\ TRUE) \in BOOLEAN
      OBVIOUS
    <3> QED  BY <1>1, <3>1 DEF RunEnds, IsRun
  <2>1. /\ IsRun(run'[w]) /\ run'[w].job = run[w].job /\ run'[w].base = run[w].base
        /\ run'[w].steps = run[w].steps /\ run'[w].used = run[w].used
        /\ run'[w].ruled = (run[w].ruled /\ TRUE) /\ run'[w].pc = "ended"
    <3>1. RunIs(w, x)
      BY <1>3
    <3> HIDE DEF x
    <3>2. run'[w] = x
      BY <3>1, OneRuns
    <3> QED  BY <2>0, <3>2, Zenon
  <2>2. run'[w].ruled => run[w].ruled
    BY <2>1, Zenon
  <2> QED  BY <1>1, <1>3, <2>1, <2>2 DEF SameRun
<1>4. ASSUME NEW tool \in Tools, CallTool(w, tool, FALSE)
      PROVE  SameRun(w) /\ ~run'[w].ruled /\ (Took(w, tool) \/ Aborted(w))
  <2>1. SameRun(w) /\ run'[w].ruled = (run[w].ruled /\ FALSE) /\ (Took(w, tool) \/ Aborted(w))
    BY <1>1, <1>4, CallToolTurn
  <2> QED  BY <2>1, Zenon
<1>5. ASSUME NEW status, RunIs(w, RunEnds(w, status, FALSE))
      PROVE  SameRun(w) /\ ~run'[w].ruled /\ run'[w].pc = "ended" /\ run'[w].steps = run[w].steps
             /\ run'[w].used = run[w].used
  <2> DEFINE x == RunEnds(w, status, FALSE)
  <2>0. /\ IsRun(x) /\ x.job = run[w].job /\ x.base = run[w].base
        /\ x.steps = run[w].steps /\ x.used = run[w].used
        /\ x.ruled = (run[w].ruled /\ FALSE) /\ x.pc = "ended"
    <3>1. (run[w].ruled /\ FALSE) \in BOOLEAN
      OBVIOUS
    <3> QED  BY <1>1, <3>1 DEF RunEnds, IsRun
  <2>1. /\ IsRun(run'[w]) /\ run'[w].job = run[w].job /\ run'[w].base = run[w].base
        /\ run'[w].steps = run[w].steps /\ run'[w].used = run[w].used
        /\ run'[w].ruled = (run[w].ruled /\ FALSE) /\ run'[w].pc = "ended"
    <3>1. RunIs(w, x)
      BY <1>5
    <3> HIDE DEF x
    <3>2. run'[w] = x
      BY <3>1, OneRuns
    <3> QED  BY <2>0, <3>2, Zenon
  <2>2. ~run'[w].ruled
    BY <2>1, Zenon
  <2> QED  BY <2>1, <2>2 DEF SameRun
<1>6. CASE ModelTurn(w)
  <2>1. CASE \E tool \in Tools : CallTool(w, tool, FALSE)
    BY <1>1, <1>4, <2>1
  <2>2. CASE \E status \in {"succeeded", "budget_exceeded"} : RunIs(w, RunEnds(w, status, FALSE))
    BY <1>1, <1>5, <2>2
  <2> QED  BY <1>6, <2>1, <2>2 DEF ModelTurn
<1> QED  BY <1>2, <1>3, <1>6 DEF RunStep

-----------------------------------------------------------------------------
(* The shape of requests and runs is kept *)

Shape == Served /\ Staffed /\ RunShape /\ calls \in Nat

LEMMA ShapeInit == Init => Shape
<1> SUFFICES ASSUME Init PROVE Shape
  OBVIOUS
<1>1. req = [r \in Requests |-> Idle] /\ run = [w \in Workers |-> Idle] /\ calls = 0
  BY DEF Init
<1>2. Served /\ Staffed
  BY <1>1 DEF Served, Staffed
<1>3. \A w \in Workers : ~Running(w)
  BY <1>1 DEF Running, Idle
<1> QED  BY <1>1, <1>2, <1>3 DEF Shape, RunShape

\* The steps of one request: it moves, and the runs and the stream stay.
RequestStep(r) ==
  \/ \E s \in TripStates : Transition(r, s)
  \/ CommitTransition(r)
  \/ \E e \in EventIds, outside \in BOOLEAN : UpdateLocation(r, e, outside)
  \/ CommitLocation(r)
  \/ \E e \in EventIds, ev \in EventInputs : IngestEvent(r, e, ev)
  \/ CommitEvent(r)
  \/ Enqueue(r)
  \/ \E tool \in Tools : ExecuteTool(r, tool)
  \/ RecordTool(r)

\* The steps of the user, of the clock and of the browser.
OutsideStep ==
  \/ \E scope \in {"precise_location", "background_location"}, granted \in BOOLEAN :
       SetConsent(scope, granted)
  \/ \E k \in 1..MaxConsents : ConsentExpires(k)
  \/ DeleteLocations \/ Purge \/ LocationExpires
  \/ SnapshotExpires \/ Poll \/ Reload \/ CooldownPasses

\* The steps of a Worker's run.
RunMoves(w) ==
  (\E job \in jobs : StartRun(w, job)) \/ RunStep(w) \/ CommitRun(w) \/ RunRaises(w)

LEMMA NextSplit ==
  ASSUME Next
  PROVE  \/ \E r \in Requests : RequestStep(r)
         \/ OutsideStep \/ (\E w \in Workers : RunMoves(w)) \/ PublishNumber \/ PublishSnapshot
  BY DEF Next, RequestStep, OutsideStep, RunMoves

\* A step of a request changes its state and neither a run nor the stream.
LEMMA RequestFrame ==
  ASSUME Served, NEW r \in Requests, RequestStep(r)
  PROVE  /\ Served' /\ \A q \in Requests : q # r => req'[q] = req[q]
         /\ req'[r].pc \in {"idle", "loaded", "enqueue", "publish"}
         /\ UNCHANGED <<consents, wish, run, seq, snap, cursor>>
         /\ calls' = calls \/ RecordTool(r)
<1>1. ASSUME NEW v, req' = [req EXCEPT ![r] = v],
             v.pc \in {"idle", "loaded", "enqueue", "publish"}
      PROVE  /\ Served' /\ \A q \in Requests : q # r => req'[q] = req[q]
             /\ req'[r].pc \in {"idle", "loaded", "enqueue", "publish"}
  BY <1>1, OneMoves
<1>2. CASE \E s \in TripStates : Transition(r, s)
  BY <1>1, <1>2 DEF Transition, sessionVars, streamVars
<1>3. CASE \E e \in EventIds, outside \in BOOLEAN : UpdateLocation(r, e, outside)
  BY <1>1, <1>3 DEF UpdateLocation, sessionVars, streamVars
<1>4. CASE \E e \in EventIds, ev \in EventInputs : IngestEvent(r, e, ev)
  BY <1>1, <1>4 DEF IngestEvent, sessionVars, streamVars
<1>5. CASE CommitTransition(r) \/ RecordTool(r)
  BY <1>1, <1>5 DEF CommitTransition, RecordTool, Idle, streamVars
<1>6. CASE CommitLocation(r)
  BY <1>1, <1>6 DEF CommitLocation, Idle, streamVars
<1>7. CASE CommitEvent(r)
  BY <1>1, <1>7 DEF CommitEvent, Idle, streamVars
<1>8. CASE Enqueue(r)
  BY <1>1, <1>8 DEF Enqueue, streamVars
<1>9. CASE \E tool \in Tools : ExecuteTool(r, tool)
  BY <1>1, <1>9 DEF ExecuteTool, streamVars, sessionVars
<1> QED  BY <1>2, <1>3, <1>4, <1>5, <1>6, <1>7, <1>8, <1>9 DEF RequestStep

LEMMA OutsideFrame ==
  ASSUME OutsideStep
  PROVE  UNCHANGED <<req, run, calls, events, jobs, effects, seq>>
  BY DEF OutsideStep, SetConsent, ConsentExpires, DeleteLocations, Purge, LocationExpires,
     SnapshotExpires, Poll, Reload, CooldownPasses, sessionVars, streamVars

LEMMA RunFrame ==
  ASSUME NEW w \in Workers, RunMoves(w)
  PROVE  UNCHANGED <<req, consents, wish, events, jobs, effects, seq, snap, cursor>>
<1>1. CASE RunStep(w)
  BY <1>1 DEF RunStep, streamVars
<1>2. CASE RunMoves(w) /\ ~RunStep(w)
  BY <1>2 DEF RunMoves, StartRun, CommitRun, RunRaises, sessionVars, streamVars
<1> QED  BY <1>1, <1>2

\* A step of a run moves one Worker.
LEMMA RunAlone ==
  ASSUME Staffed, NEW w \in Workers, RunMoves(w)
  PROVE  Staffed' /\ \A v \in Workers : v # w => run'[v] = run[v]
<1>1. ASSUME NEW x, RunIs(w, x)
      PROVE  Staffed' /\ \A v \in Workers : v # w => run'[v] = run[v]
  BY <1>1, OneRuns
<1>2. CASE \E job \in jobs : StartRun(w, job)
  BY <1>1, <1>2 DEF StartRun, RunIs
<1>3. CASE CommitRun(w) \/ RunRaises(w)
  BY <1>1, <1>3 DEF CommitRun, RunRaises
<1>4. ASSUME NEW tool, NEW b, CallTool(w, tool, b)
      PROVE  \E x : RunIs(w, x)
  BY <1>4, Zenon DEF CallTool
<1>5. CASE RunStep(w)
  <2>1. \E x : RunIs(w, x)
    BY <1>4, <1>5, Zenon DEF RunStep, ModelTurn
  <2> QED  BY <1>1, <2>1
<1> QED  BY <1>2, <1>3, <1>5 DEF RunMoves

\* A publication of a request or of a run, a number and then the snapshot.
LEMMA PublishFrame ==
  ASSUME Served, Staffed, PublishNumber \/ PublishSnapshot
  PROVE  /\ Served' /\ Staffed' /\ jobs' \subseteq jobs
         /\ UNCHANGED <<consents, wish, events, calls, effects, cursor>>
         /\ \A w \in Workers : ~Running(w)' \/ run'[w] = run[w]
         /\ \A q \in Requests : req'[q] = req[q] \/ req'[q].pc \in {"store", "idle"}
<1> DEFINE Moved == /\ Served' /\ Staffed'
                    /\ \A w \in Workers : ~Running(w)' \/ run'[w] = run[w]
                    /\ \A q \in Requests : req'[q] = req[q] \/ req'[q].pc \in {"store", "idle"}
<1>1. ASSUME NEW r \in Requests, Served', req'[r].pc \in {"store", "idle"}, UNCHANGED run,
             \A q \in Requests : q # r => req'[q] = req[q]
      PROVE  Moved
  <2>1. Staffed'
    BY <1>1, Zenon DEF Staffed
  <2> QED  BY <1>1, <2>1
<1>2. ASSUME NEW w \in Workers, NEW x, x.pc \in {"store", "idle"}, UNCHANGED req, RunIs(w, x)
      PROVE  Moved
  <2>1. /\ Staffed' /\ run'[w] = x
        /\ \A v \in Workers : v # w => run'[v] = run[v]
    BY <1>2, OneRuns
  <2>2. ~Running(w)'
    BY <1>2, <2>1 DEF Running
  <2>3. Served'
    BY <1>2, Zenon DEF Served
  <2> QED  BY <1>2, <2>1, <2>2, <2>3
<1> HIDE DEF Moved
<1>3. CASE PublishNumber
  <2>1. ASSUME NEW r \in Requests, UNCHANGED run,
               req' = [req EXCEPT ![r] = [pc |-> "store", n |-> seq + 1]]
        PROVE  Moved
    <3>1. /\ Served' /\ req'[r] = [pc |-> "store", n |-> seq + 1]
          /\ \A q \in Requests : q # r => req'[q] = req[q]
      BY <2>1, OneMoves
    <3>2. req'[r].pc \in {"store", "idle"}
      BY <3>1
    <3> QED  BY <1>1, <2>1, <3>1, <3>2
  <2>2. ASSUME NEW w \in Workers, UNCHANGED req,
               RunIs(w, [pc |-> "store", n |-> seq + 1, job |-> run[w].job])
        PROVE  Moved
    <3> DEFINE x == [pc |-> "store", n |-> seq + 1, job |-> run[w].job]
    <3>1. x.pc \in {"store", "idle"} /\ RunIs(w, x)
      BY <2>2
    <3> HIDE DEF x
    <3> QED  BY <1>2, <2>2, <3>1
  <2>3. Moved
    BY <1>3, <2>1, <2>2 DEF PublishNumber
  <2>4. UNCHANGED <<consents, wish, events, jobs, calls, effects, cursor>>
    BY <1>3 DEF PublishNumber, sessionVars
  <2> QED  BY <2>3, <2>4 DEF Moved
<1>4. CASE PublishSnapshot
  <2>1. ASSUME NEW r \in Requests, UNCHANGED run, req' = [req EXCEPT ![r] = Idle]
        PROVE  Moved
    <3>1. /\ Served' /\ req'[r] = Idle
          /\ \A q \in Requests : q # r => req'[q] = req[q]
      BY <2>1, OneMoves
    <3>2. req'[r].pc \in {"store", "idle"}
      BY <3>1 DEF Idle
    <3> QED  BY <1>1, <2>1, <3>1, <3>2
  <2>2. ASSUME NEW w \in Workers, UNCHANGED req, RunIs(w, Idle)
        PROVE  Moved
    BY <1>2, <2>2 DEF Idle
  <2>3. Moved
    BY <1>4, <2>1, <2>2 DEF PublishSnapshot
  <2>4. jobs' \subseteq jobs /\ UNCHANGED <<consents, wish, events, calls, effects, cursor>>
    BY <1>4 DEF PublishSnapshot
  <2> QED  BY <2>3, <2>4 DEF Moved
<1> QED  BY <1>3, <1>4

\* A run starts as a record of its own.
LEMMA StartFields ==
  ASSUME Staffed, NEW w \in Workers, NEW job, StartRun(w, job)
  PROVE  /\ IsRun(run'[w]) /\ run'[w].pc = "loop" /\ run'[w].job = job /\ run'[w].steps = 0
         /\ run'[w].used = {} /\ run'[w].ruled /\ run'[w].base = calls
         /\ calls' = calls /\ jobs' = jobs /\ job \in jobs
<1> DEFINE x == [pc |-> "loop", job |-> job, state |-> row.state, now |-> row.state,
                 consent |-> AnyGrant, base |-> calls, steps |-> 0, used |-> {}, ruled |-> TRUE,
                 status |-> "running"]
<1>1. RunIs(w, x)
  BY DEF StartRun, RunIs
<1>2. run'[w] = x
  <2> HIDE DEF x
  <2> QED  BY <1>1, OneRuns
<1>3. /\ IsRun(x) /\ x.pc = "loop" /\ x.job = job /\ x.steps = 0
      /\ x.used = {} /\ x.ruled /\ x.base = calls
  BY DEF IsRun
<1> HIDE DEF x
<1>4. calls' = calls /\ jobs' = jobs /\ job \in jobs
  BY DEF StartRun, sessionVars
<1> QED  BY <1>2, <1>3, <1>4

\* A committed run goes on to publish.
LEMMA CommitFields ==
  ASSUME Staffed, NEW w \in Workers, CommitRun(w)
  PROVE  /\ run[w].pc = "ended" /\ calls' = calls + run[w].steps /\ run'[w].pc = "publish"
<1>1. run'[w] = [pc |-> "publish", job |-> run[w].job]
  BY OneRuns DEF CommitRun
<1> QED  BY <1>1 DEF CommitRun

\* A run that is given up leaves its Worker free.
LEMMA RaiseFields ==
  ASSUME Staffed, NEW w \in Workers, RunRaises(w)
  PROVE  run'[w].pc = "idle" /\ calls' = calls
<1>1. run'[w] = Idle
  BY OneRuns DEF RunRaises
<1> QED  BY <1>1 DEF RunRaises, Idle, sessionVars

LEMMA ShapeStep ==
  ASSUME Shape, [Next]_vars
  PROVE  Shape'
<1>1. ASSUME NEW r \in Requests, RequestStep(r)
      PROVE  Shape'
  <2>1. Served' /\ run' = run
    BY <1>1, RequestFrame DEF Shape
  <2>2. calls' \in Nat
    BY <1>1, RequestFrame DEF Shape, RecordTool
  <2>3. RunShape' /\ Staffed'
    BY <2>1 DEF Shape, RunShape, Running, Staffed
  <2> QED  BY <2>1, <2>2, <2>3 DEF Shape
<1>2. CASE OutsideStep
  BY <1>2, OutsideFrame DEF Shape, Served, Staffed, RunShape, Running
<1>3. ASSUME NEW w \in Workers, RunMoves(w)
      PROVE  Shape'
  <2>1. /\ Served' /\ Staffed'
        /\ \A v \in Workers : v # w => run'[v] = run[v]
    BY <1>3, RunFrame, RunAlone DEF Shape, Served
  <2>2. SUFFICES /\ Running(w)' => /\ IsRun(run'[w])
                                    /\ run'[w].steps \in Nat /\ run'[w].base \in Nat
                 /\ calls' \in Nat
    <3>1. ASSUME NEW v \in Workers, Running(v)', v # w
          PROVE  IsRun(run'[v]) /\ run'[v].steps \in Nat /\ run'[v].base \in Nat
      BY <2>1, <3>1 DEF Shape, RunShape, Running
    <3> QED  BY <2>1, <3>1 DEF Shape, RunShape
  <2>3. ASSUME NEW job \in jobs, StartRun(w, job)
        PROVE  IsRun(run'[w]) /\ run'[w].steps \in Nat /\ run'[w].base \in Nat /\ calls' \in Nat
    BY <2>3, StartFields DEF Shape
  <2>4. CASE RunStep(w)
    <3>1. calls' = calls
      BY <2>4 DEF RunStep
    <3>2. run[w].steps \in Nat /\ run[w].base \in Nat /\ SameRun(w)
          /\ run'[w].steps \in {run[w].steps, run[w].steps + 1}
      BY <2>4, Turn DEF Shape, RunShape, RunStep, Running, Took, Aborted
    <3>3. run'[w].steps \in Nat /\ run'[w].base \in Nat
      BY <3>2 DEF SameRun
    <3> QED  BY <3>1, <3>2, <3>3 DEF Shape, SameRun
  <2>5. CASE CommitRun(w)
    <3>1. run[w].steps \in Nat
      BY <2>5, CommitFields DEF Running, Shape, RunShape
    <3>2. ~Running(w)'
      BY <2>5, CommitFields DEF Running, Shape
    <3> QED  BY <2>5, <3>1, <3>2, CommitFields DEF Shape
  <2>6. CASE RunRaises(w)
    <3>1. ~Running(w)' /\ calls' = calls
      BY <2>6, RaiseFields DEF Running, Shape
    <3> QED  BY <3>1 DEF Shape
  <2> QED  BY <1>3, <2>3, <2>4, <2>5, <2>6 DEF RunMoves
<1>4. CASE PublishNumber \/ PublishSnapshot
  BY <1>4, PublishFrame DEF Shape, RunShape, Running
<1>5. CASE UNCHANGED vars
  BY <1>5 DEF vars, sessionVars, Shape, Served, Staffed, RunShape, Running
<1> QED  BY <1>1, <1>2, <1>3, <1>4, <1>5, NextSplit

-----------------------------------------------------------------------------
(* The stream: no number is ahead of the counter *)

StreamInv ==
  /\ seq \in Nat /\ snap \in 0..seq /\ cursor \in 0..seq
  /\ \A r \in Requests : req[r].pc = "store" => req[r].n \in 1..seq
  /\ \A w \in Workers : run[w].pc = "store" => run[w].n \in 1..seq

LEMMA StreamInit == Init => StreamInv
  BY DEF Init, StreamInv, Idle

LEMMA StreamStep ==
  ASSUME Shape, StreamInv, [Next]_vars
  PROVE  StreamInv'
<1> USE DEF Shape
<1>1. ASSUME NEW r \in Requests, RequestStep(r)
      PROVE  StreamInv'
  <2>1. /\ \A q \in Requests : q # r => req'[q] = req[q]
        /\ req'[r].pc # "store" /\ UNCHANGED <<run, seq, snap, cursor>>
    BY <1>1, RequestFrame
  <2> QED  BY <2>1 DEF StreamInv
<1>2. CASE OutsideStep
  <2>1. UNCHANGED <<req, run, seq>>
    BY <1>2, OutsideFrame
  <2>2. snap' \in {snap, 0} /\ cursor' \in {cursor, snap, 0}
    BY <1>2 DEF OutsideStep, SetConsent, ConsentExpires, DeleteLocations, Purge, LocationExpires,
       SnapshotExpires, Poll, Reload, CooldownPasses, streamVars
  <2> QED  BY <2>1, <2>2 DEF StreamInv
<1>3. ASSUME NEW w \in Workers, RunMoves(w)
      PROVE  StreamInv'
  <2>1. /\ UNCHANGED <<req, seq, snap, cursor>>
        /\ \A v \in Workers : v # w => run'[v] = run[v]
    BY <1>3, RunFrame, RunAlone
  <2>2. run'[w].pc # "store"
    <3>1. CASE RunStep(w)
      BY <3>1, Turn DEF SameRun
    <3>2. CASE (\E job \in jobs : StartRun(w, job)) \/ CommitRun(w) \/ RunRaises(w)
      BY <3>2, StartFields, CommitFields, RaiseFields
    <3> QED  BY <1>3, <3>1, <3>2 DEF RunMoves
  <2> QED  BY <2>1, <2>2 DEF StreamInv
<1>4. CASE PublishNumber
  <2>1. seq' = seq + 1 /\ UNCHANGED <<snap, cursor>>
    BY <1>4 DEF PublishNumber
  <2>2. /\ \A q \in Requests : req'[q].pc = "store" => req'[q] = req[q] \/ req'[q].n = seq + 1
        /\ \A w \in Workers : run'[w].pc = "store" => run'[w] = run[w] \/ run'[w].n = seq + 1
    <3>1. ASSUME NEW r \in Requests, UNCHANGED run,
                 req' = [req EXCEPT ![r] = [pc |-> "store", n |-> seq + 1]]
          PROVE  <2>2!1 /\ <2>2!2
      BY <3>1, OneMoves
    <3>2. ASSUME NEW w \in Workers, UNCHANGED req,
                 RunIs(w, [pc |-> "store", n |-> seq + 1, job |-> run[w].job])
          PROVE  <2>2!1 /\ <2>2!2
      <4>1. /\ run'[w] = [pc |-> "store", n |-> seq + 1, job |-> run[w].job]
            /\ \A v \in Workers : v # w => run'[v] = run[v]
        BY <3>2, OneRuns
      <4> QED  BY <3>2, <4>1
    <3> QED  BY <1>4, <3>1, <3>2 DEF PublishNumber
  <2> QED  BY <2>1, <2>2 DEF StreamInv
<1>5. CASE PublishSnapshot
  <2>1. UNCHANGED <<seq, cursor>>
    BY <1>5 DEF PublishSnapshot
  <2>2. ASSUME NEW r \in Requests, req[r].pc = "store", snap' = req[r].n,
               req' = [req EXCEPT ![r] = Idle], UNCHANGED run
        PROVE  StreamInv'
    <3>1. req'[r] = Idle /\ \A q \in Requests : q # r => req'[q] = req[q]
      BY <2>2, OneMoves
    <3>2. req'[r].pc # "store"
      BY <3>1 DEF Idle
    <3> QED  BY <2>1, <2>2, <3>1, <3>2 DEF StreamInv
  <2>3. ASSUME NEW w \in Workers, run[w].pc = "store", snap' = run[w].n, RunIs(w, Idle),
               UNCHANGED req
        PROVE  StreamInv'
    <3>1. run'[w] = Idle /\ \A v \in Workers : v # w => run'[v] = run[v]
      BY <2>3, OneRuns
    <3>2. run'[w].pc # "store"
      BY <3>1 DEF Idle
    <3> QED  BY <2>1, <2>3, <3>1, <3>2 DEF StreamInv
  <2> QED  BY <1>5, <2>2, <2>3 DEF PublishSnapshot
<1>6. CASE UNCHANGED vars
  BY <1>6 DEF vars, streamVars, StreamInv
<1> QED  BY <1>1, <1>2, <1>3, <1>4, <1>5, <1>6, NextSplit

-----------------------------------------------------------------------------
(* The consents: the latest row grants only what the user still wants *)

ConsentInv ==
  /\ consents \in Seq([granted : BOOLEAN, live : BOOLEAN])
  /\ wish \in BOOLEAN
  /\ HasConsent => wish

LEMMA ConsentInit == Init => ConsentInv
<1>1. Init => consents = <<>> /\ wish = FALSE
  BY DEF Init
<1>2. <<>> \in Seq([granted : BOOLEAN, live : BOOLEAN]) /\ FALSE \in BOOLEAN
  OBVIOUS
<1> QED  BY <1>1, <1>2, Zenon DEF ConsentInv, HasConsent

LEMMA ConsentStep ==
  ASSUME Shape, ConsentInv, [Next]_vars
  PROVE  ConsentInv'
<1> USE DEF Shape
<1>1. ASSUME UNCHANGED <<consents, wish>>
      PROVE  ConsentInv'
  BY <1>1 DEF ConsentInv, HasConsent
<1>2. CASE OutsideStep
  <2>1. ASSUME NEW scope, NEW granted \in BOOLEAN, SetConsent(scope, granted)
        PROVE  ConsentInv'
    <3>1. CASE scope = "precise_location"
      <4> DEFINE c == [granted |-> granted, live |-> TRUE]
      <4>1. c \in [granted : BOOLEAN, live : BOOLEAN] /\ c.granted = granted
        BY <2>1
      <4>2. consents' = Append(consents, c) /\ wish' = granted
        BY <2>1, <3>1 DEF SetConsent
      <4> HIDE DEF c
      <4>3. /\ consents' \in Seq([granted : BOOLEAN, live : BOOLEAN])
            /\ consents'[Len(consents')] = c
        BY <4>1, <4>2 DEF ConsentInv
      <4> QED  BY <2>1, <4>1, <4>2, <4>3 DEF ConsentInv, HasConsent
    <3>2. CASE scope # "precise_location"
      BY <1>1, <2>1, <3>2 DEF SetConsent
    <3> QED  BY <3>1, <3>2
  <2>2. ASSUME NEW k, ConsentExpires(k)
        PROVE  ConsentInv'
    <3> DEFINE C == [granted : BOOLEAN, live : BOOLEAN]
               c == [consents[k] EXCEPT !.live = FALSE]
    <3>1. k \in 1..Len(consents) /\ consents[k] \in C
      <4>1. k \in 1..Len(consents)
        BY <2>2, Zenon DEF ConsentExpires
      <4>2. consents \in Seq(C)
        BY DEF ConsentInv
      <4> HIDE DEF C
      <4> QED  BY <4>1, <4>2
    <3>2. c \in C /\ ~c.live
      BY <3>1
    <3>3. consents' = [consents EXCEPT ![k] = c] /\ wish' = (wish /\ k # Len(consents))
      BY <2>2 DEF ConsentExpires
    <3>4. wish' \in BOOLEAN /\ (k # Len(consents) /\ wish => wish')
      <4>1. (wish /\ k # Len(consents)) \in BOOLEAN
        OBVIOUS
      <4> QED  BY <3>3, <4>1, Zenon
    <3> HIDE DEF c, C
    <3>5. consents' \in Seq(C) /\ Len(consents') = Len(consents) /\ consents'[k] = c
          /\ \A j \in 1..Len(consents) : j # k => consents'[j] = consents[j]
      BY <3>1, <3>2, <3>3 DEF ConsentInv, C
    <3>6. HasConsent' => HasConsent /\ k # Len(consents)
      <4> SUFFICES ASSUME HasConsent' PROVE HasConsent /\ k # Len(consents)
        OBVIOUS
      <4>1. consents'[Len(consents)].granted /\ consents'[Len(consents)].live
        BY <3>5 DEF HasConsent
      <4>2. k # Len(consents)
        BY <3>2, <3>5, <4>1
      <4>3. Len(consents) \in 1..Len(consents) /\ consents # <<>>
        BY <3>1 DEF ConsentInv
      <4> QED  BY <3>5, <4>1, <4>2, <4>3 DEF HasConsent
    <3> QED  BY <3>4, <3>5, <3>6 DEF ConsentInv, C
  <2>3. CASE Purge
    <3>1. consents' = <<>> /\ wish' = FALSE
      BY <2>3 DEF Purge
    <3>2. <<>> \in Seq([granted : BOOLEAN, live : BOOLEAN]) /\ FALSE \in BOOLEAN
      OBVIOUS
    <3> QED  BY <3>1, <3>2, Zenon DEF ConsentInv, HasConsent
  <2>4. CASE UNCHANGED <<consents, wish>>
    BY <1>1, <2>4
  <2> QED
    BY <1>2, <2>1, <2>2, <2>3, <2>4 DEF OutsideStep, DeleteLocations, LocationExpires,
       SnapshotExpires, Poll, Reload, CooldownPasses, sessionVars
<1> QED
  BY <1>1, <1>2, NextSplit, RequestFrame, RunFrame, PublishFrame DEF vars, sessionVars

\* update_location lets a position in on the latest row alone, so the grant it
\* rests on is the one the user still wants.
LEMMA LocationStep ==
  ASSUME Shape, ConsentInv, [Next]_vars, NEW q \in Requests, req[q] = Idle,
         req'[q].pc = "loaded", req'[q].kind = "location"
  PROVE  wish
<1> USE DEF Shape
<1>1. req'[q] # req[q] /\ req'[q].pc \notin {"store", "idle"}
  BY DEF Idle
<1>2. ASSUME NEW r \in Requests, RequestStep(r)
      PROVE  wish
  <2>1. q = r /\ req[r].pc = "idle"
    BY <1>1, <1>2, RequestFrame DEF Idle
  <2>2. ASSUME NEW s \in TripStates, Transition(r, s)
        PROVE  FALSE
    <3>1. req'[r] = [pc |-> "loaded", kind |-> "transition", read |-> row,
                     written |-> Entered(row, s)]
      BY <2>2, OneMoves, Zenon DEF Transition
    <3> QED  BY <2>1, <3>1
  <2>3. ASSUME NEW e \in EventIds, NEW ev \in EventInputs, IngestEvent(r, e, ev)
        PROVE  FALSE
    <3>1. req'[r] = [pc |-> "loaded", kind |-> "event", id |-> <<"client", e>>, ev |-> ev,
                     read |-> row, written |-> Notified(Entered(row, NextState(row.state, ev)), ev)]
      BY <2>3, OneMoves, Zenon DEF IngestEvent
    <3> QED  BY <2>1, <3>1
  <2>4. ASSUME NEW tool \in Tools, ExecuteTool(r, tool)
        PROVE  FALSE
    <3>1. req'[r] = [pc |-> "loaded", kind |-> "tool"]
      BY <2>4, OneMoves, Zenon DEF ExecuteTool
    <3> QED  BY <2>1, <3>1
  <2>5. ASSUME NEW e \in EventIds, NEW outside \in BOOLEAN, UpdateLocation(r, e, outside)
        PROVE  wish
    <3>1. HasConsent
      BY <2>5 DEF UpdateLocation
    <3> QED  BY <3>1 DEF ConsentInv
  <2>6. ~(CommitTransition(r) \/ CommitLocation(r) \/ CommitEvent(r) \/ Enqueue(r) \/ RecordTool(r))
    BY <2>1 DEF CommitTransition, CommitLocation, CommitEvent, Enqueue, RecordTool
  <2> QED  BY <1>2, <2>2, <2>3, <2>4, <2>5, <2>6 DEF RequestStep
<1> QED
  BY <1>1, <1>2, NextSplit, OutsideFrame, RunFrame, PublishFrame DEF vars

-----------------------------------------------------------------------------
(* The events: an event row and the event's effect come together *)

\* The client's own events, and what a request that reports one holds.
ClientIds == {<<"client", e>> : e \in EventIds}

Reports(q) == q.pc = "loaded" /\ q.kind \in {"location", "event"}

\* A derived event comes with the position it was derived from.
EffectInv ==
  /\ events \subseteq RowIds
  /\ effects \in [RowIds -> Nat]
  /\ \A i \in RowIds : effects[i] = IF i \in events THEN 1 ELSE 0
  /\ \A e \in EventIds : <<"auto", e>> \in events => <<"client", e>> \in events
  /\ \A r \in Requests : Reports(req[r]) => req[r].id \in ClientIds

LEMMA EffectInit == Init => EffectInv
<1> SUFFICES ASSUME Init PROVE EffectInv
  OBVIOUS
<1>1. events = {} /\ effects = [i \in RowIds |-> 0]
  BY DEF Init
<1>2. \A r \in Requests : req[r].pc = "idle"
  BY DEF Init, Idle
<1> QED  BY <1>1, <1>2 DEF EffectInv, Reports

\* What a request moves to reports an event only if it was just read with it.
LEMMA ReportStep ==
  ASSUME Served, NEW r \in Requests, RequestStep(r)
  PROVE  Reports(req'[r]) => req'[r].id \in ClientIds
<1>1. ASSUME NEW s, Transition(r, s)
      PROVE  ~Reports(req'[r])
  <2>1. req'[r] = [pc |-> "loaded", kind |-> "transition", read |-> row,
                   written |-> Entered(row, s)]
    BY <1>1, OneMoves, Zenon DEF Transition
  <2> QED  BY <2>1 DEF Reports
<1>2. ASSUME NEW e \in EventIds, NEW outside, UpdateLocation(r, e, outside)
      PROVE  req'[r].id \in ClientIds
  <2>1. PICK alarm, written :
           req' = [req EXCEPT ![r] = [pc |-> "loaded", kind |-> "location", id |-> <<"client", e>>,
                                      read |-> row, alarm |-> alarm, written |-> written]]
    BY <1>2, Zenon DEF UpdateLocation
  <2>2. req'[r] = [pc |-> "loaded", kind |-> "location", id |-> <<"client", e>>,
                   read |-> row, alarm |-> alarm, written |-> written]
    BY <2>1, OneMoves, Zenon
  <2> QED  BY <2>2 DEF ClientIds
<1>3. ASSUME NEW e \in EventIds, NEW ev, IngestEvent(r, e, ev)
      PROVE  req'[r].id \in ClientIds
  <2>1. req'[r] = [pc |-> "loaded", kind |-> "event", id |-> <<"client", e>>, ev |-> ev,
                   read |-> row, written |-> Notified(Entered(row, NextState(row.state, ev)), ev)]
    BY <1>3, OneMoves, Zenon DEF IngestEvent
  <2> QED  BY <2>1 DEF ClientIds
<1>4. ASSUME NEW tool, ExecuteTool(r, tool)
      PROVE  ~Reports(req'[r])
  <2>1. req'[r] = [pc |-> "loaded", kind |-> "tool"]
    BY <1>4, OneMoves, Zenon DEF ExecuteTool
  <2> QED  BY <2>1 DEF Reports
<1>5. ASSUME NEW v, req' = [req EXCEPT ![r] = v], v.pc \in {"idle", "enqueue", "publish"}
      PROVE  ~Reports(req'[r])
  BY <1>5, OneMoves DEF Reports
<1>6. CASE CommitTransition(r) \/ RecordTool(r)
  BY <1>5, <1>6 DEF CommitTransition, RecordTool, Idle
<1>7. CASE CommitLocation(r)
  BY <1>5, <1>7 DEF CommitLocation, Idle
<1>8. CASE CommitEvent(r) \/ Enqueue(r)
  BY <1>5, <1>8 DEF CommitEvent, Enqueue, Idle
<1> QED  BY <1>1, <1>2, <1>3, <1>4, <1>6, <1>7, <1>8 DEF RequestStep

\* The commit of an event that is not stored yet, with or without the one
\* derived from it.
LEMMA StoredOnce ==
  ASSUME EffectInv, NEW e \in EventIds, NEW new, <<"client", e>> \notin events,
         new = {<<"client", e>>} \/ new = {<<"client", e>>, <<"auto", e>>},
         events' = events \cup new, effects' \in [RowIds -> Nat],
         \A i \in RowIds : effects'[i] = IF i \in new THEN effects[i] + 1 ELSE effects[i]
  PROVE  /\ events' \subseteq RowIds
         /\ \A i \in RowIds : effects'[i] = IF i \in events' THEN 1 ELSE 0
         /\ \A d \in EventIds : <<"auto", d>> \in events' => <<"client", d>> \in events'
<1> DEFINE c == <<"client", e>>
           a == <<"auto", e>>
<1>1. c \in RowIds /\ a \in RowIds /\ c \notin events /\ a \notin events
  BY DEF RowIds, EffectInv
<1>2. \A d \in EventIds : <<"auto", d>> # c /\ (<<"auto", d>> = a => d = e)
  OBVIOUS
<1>3. \A d \in EventIds : <<"auto", d>> \in events' => <<"client", d>> \in events'
  BY <1>1, <1>2 DEF EffectInv
<1>4. new = {c} \/ new = {c, a}
  OBVIOUS
<1> HIDE DEF c, a
<1>5. events' \subseteq RowIds
  BY <1>1, <1>4 DEF EffectInv
<1>6. \A i \in RowIds : effects'[i] = IF i \in events' THEN 1 ELSE 0
  <2> SUFFICES ASSUME NEW i \in RowIds PROVE effects'[i] = IF i \in events' THEN 1 ELSE 0
    OBVIOUS
  <2>1. CASE i \in new
    <3>1. i \notin events /\ i \in events'
      BY <1>1, <1>4, <2>1
    <3> QED  BY <2>1, <3>1 DEF EffectInv
  <2>2. CASE i \notin new
    BY <2>2 DEF EffectInv
  <2> QED  BY <2>1, <2>2
<1> QED  BY <1>3, <1>5, <1>6

\* What CommitLocation adds to the counters.
LEMMA TwoUpdates ==
  ASSUME NEW S, NEW f \in [S -> Nat], NEW c \in S, NEW a \in S, c # a
  PROVE  /\ LET g == [f EXCEPT ![c] = @ + 1, ![a] = @ + 1] IN
            /\ g \in [S -> Nat]
            /\ \A i \in S : g[i] = IF i \in {c, a} THEN f[i] + 1 ELSE f[i]
         /\ LET g == [f EXCEPT ![c] = @ + 1, ![a] = @] IN
            /\ g \in [S -> Nat]
            /\ \A i \in S : g[i] = IF i \in {c} THEN f[i] + 1 ELSE f[i]
  OBVIOUS

LEMMA LocationCommit ==
  ASSUME Served, EffectInv, NEW r \in Requests, CommitLocation(r)
  PROVE  /\ events' \subseteq RowIds /\ effects' \in [RowIds -> Nat]
         /\ \A i \in RowIds : effects'[i] = IF i \in events' THEN 1 ELSE 0
         /\ \A d \in EventIds : <<"auto", d>> \in events' => <<"client", d>> \in events'
<1>1. PICK e \in EventIds : req[r].id = <<"client", e>>
  BY DEF CommitLocation, EffectInv, Reports, ClientIds
<1> DEFINE c == <<"client", e>>
           a == <<"auto", e>>
<1>2. c \in RowIds /\ a \in RowIds /\ c # a /\ <<"auto", req[r].id[2]>> = a /\ req[r].id = c
  BY <1>1 DEF RowIds
<1>3. CASE req[r].id \in events
  <2>1. UNCHANGED <<events, effects>>
    BY <1>3, Zenon DEF CommitLocation
  <2> QED  BY <2>1 DEF EffectInv
<1>4. CASE req[r].id \notin events
  <2>1. effects \in [RowIds -> Nat]
    BY DEF EffectInv
  <2>2. CASE req[r].alarm
    <3>1. events' = events \cup {c} \cup {a} /\ effects' = [effects EXCEPT ![c] = @ + 1, ![a] = @ + 1]
      BY <1>2, <1>4, <2>2 DEF CommitLocation
    <3> HIDE DEF c, a
    <3>2. /\ effects' \in [RowIds -> Nat]
          /\ \A i \in RowIds : effects'[i] = IF i \in {c, a} THEN effects[i] + 1 ELSE effects[i]
      BY <1>2, <2>1, <3>1, TwoUpdates
    <3>3. events' = events \cup {c, a}
      BY <3>1
    <3>4. c \notin events
      BY <1>2, <1>4
    <3> QED  BY <3>2, <3>3, <3>4, StoredOnce, Zenon DEF c, a
  <2>3. CASE ~req[r].alarm
    <3>1. events' = events \cup {c} /\ effects' = [effects EXCEPT ![c] = @ + 1, ![a] = @]
      BY <1>2, <1>4, <2>3 DEF CommitLocation
    <3> HIDE DEF c, a
    <3>2. /\ effects' \in [RowIds -> Nat]
          /\ \A i \in RowIds : effects'[i] = IF i \in {c} THEN effects[i] + 1 ELSE effects[i]
      BY <1>2, <2>1, <3>1, TwoUpdates
    <3> QED  BY <1>2, <1>4, <3>1, <3>2, StoredOnce DEF c, a
  <2> QED  BY <2>2, <2>3
<1> QED  BY <1>3, <1>4

LEMMA EventCommit ==
  ASSUME Served, EffectInv, NEW r \in Requests, CommitEvent(r)
  PROVE  /\ events' \subseteq RowIds /\ effects' \in [RowIds -> Nat]
         /\ \A i \in RowIds : effects'[i] = IF i \in events' THEN 1 ELSE 0
         /\ \A d \in EventIds : <<"auto", d>> \in events' => <<"client", d>> \in events'
<1>1. PICK e \in EventIds : req[r].id = <<"client", e>>
  BY DEF CommitEvent, EffectInv, Reports, ClientIds
<1> DEFINE c == <<"client", e>>
<1>2. c \in RowIds /\ req[r].id = c
  BY <1>1 DEF RowIds
<1>3. CASE req[r].id \in events
  <2>1. UNCHANGED <<events, effects>>
    BY <1>3, Zenon DEF CommitEvent
  <2> QED  BY <2>1 DEF EffectInv
<1>4. CASE req[r].id \notin events
  <2>1. effects \in [RowIds -> Nat]
    BY DEF EffectInv
  <2>2. events' = events \cup {c} /\ effects' = [effects EXCEPT ![c] = @ + 1]
    BY <1>2, <1>4 DEF CommitEvent
  <2> HIDE DEF c
  <2>3. /\ effects' \in [RowIds -> Nat]
        /\ \A i \in RowIds : effects'[i] = IF i \in {c} THEN effects[i] + 1 ELSE effects[i]
    BY <1>2, <2>1, <2>2
  <2> QED  BY <1>2, <1>4, <2>2, <2>3, StoredOnce DEF c
<1> QED  BY <1>3, <1>4

LEMMA EffectStep ==
  ASSUME Shape, EffectInv, [Next]_vars
  PROVE  EffectInv'
<1> USE DEF Shape
<1>1. ASSUME UNCHANGED <<events, effects>>,
             \A q \in Requests : Reports(req'[q]) => req'[q].id \in ClientIds
      PROVE  EffectInv'
  BY <1>1 DEF EffectInv
<1>2. ASSUME NEW r \in Requests, RequestStep(r)
      PROVE  EffectInv'
  <2>1. \A q \in Requests : Reports(req'[q]) => req'[q].id \in ClientIds
    BY <1>2, RequestFrame, ReportStep DEF EffectInv
  <2>2. CASE CommitLocation(r)
    BY <2>1, <2>2, LocationCommit DEF EffectInv
  <2>3. CASE CommitEvent(r)
    BY <2>1, <2>3, EventCommit DEF EffectInv
  <2>4. CASE ~CommitLocation(r) /\ ~CommitEvent(r)
    <3>1. UNCHANGED <<events, effects>>
      BY <1>2, <2>4, Zenon DEF RequestStep, Transition, CommitTransition, UpdateLocation,
         IngestEvent, Enqueue, ExecuteTool, RecordTool, sessionVars
    <3> QED  BY <1>1, <2>1, <3>1
  <2> QED  BY <2>2, <2>3, <2>4
<1>3. CASE OutsideStep \/ (\E w \in Workers : RunMoves(w)) \/ UNCHANGED vars
  <2>1. UNCHANGED <<events, effects, req>>
    BY <1>3, OutsideFrame, RunFrame DEF vars, sessionVars
  <2> QED  BY <1>1, <2>1 DEF EffectInv
<1>4. CASE PublishNumber \/ PublishSnapshot
  BY <1>1, <1>4, PublishFrame DEF EffectInv, Reports
<1> QED  BY <1>2, <1>3, <1>4, NextSplit

-----------------------------------------------------------------------------
(* The rules: every step they take is a tool they had not used *)

\* The tools the rules ask for before the replan that have been used.
Rungs(used) ==
  (IF "get_weather" \in used THEN 1 ELSE 0) + (IF "get_trip_state" \in used THEN 1 ELSE 0)
    + (IF "get_current_location" \in used THEN 1 ELSE 0)

\* A run that only the rules decided has asked for a replan, or was cut short, or
\* has at most the steps of the rungs it took; only grave events reach a run.
OnRungs(x) ==
  /\ x.job[2].type \in RiskEvents
  /\ x.ruled =>
       \/ "propose_replan" \in x.used
       \/ x.pc = "ended" /\ x.status \in {"tool_failed", "budget_exceeded"}
       \/ x.pc = "loop" /\ x.steps <= Rungs(x.used)

ChainInv ==
  /\ \A job \in jobs : job[2].type \in RiskEvents
  /\ \A w \in Workers : Running(w) => OnRungs(run[w])

LEMMA GraveIsRisk ==
  ASSUME NEW ev, Grave(ev)
  PROVE  ev.type \in RiskEvents
  BY DEF Grave, Impact, RiskEvents

LEMMA RungsBounded ==
  ASSUME NEW used
  PROVE  Rungs(used) \in 0..3
  BY DEF Rungs

\* The rules ask for a tool that has not been used, the replan last.
LEMMA RuleClimbs ==
  ASSUME NEW type \in RiskEvents, NEW used, "propose_replan" \notin used
  PROVE  LET tool == RuleDecision(type, TRUE, used) IN
         /\ tool # "finish"
         /\ tool # "propose_replan" => Rungs(used \cup {tool}) = Rungs(used) + 1
<1> DEFINE tool == RuleDecision(type, TRUE, used)
<1>1. \/ tool \in {"get_weather", "get_trip_state", "get_current_location"} /\ tool \notin used
      \/ tool = "propose_replan"
  BY DEF RuleDecision
<1> SUFFICES tool # "finish" /\ (tool # "propose_replan" => Rungs(used \cup {tool}) = Rungs(used) + 1)
  OBVIOUS
<1> HIDE DEF tool
<1>2. CASE tool = "get_weather" /\ tool \notin used
  BY <1>2 DEF Rungs
<1>3. CASE tool = "get_trip_state" /\ tool \notin used
  BY <1>3 DEF Rungs
<1>4. CASE tool = "get_current_location" /\ tool \notin used
  BY <1>4 DEF Rungs
<1> QED  BY <1>1, <1>2, <1>3, <1>4

LEMMA ChainInit == Init => ChainInv
<1>1. Init => jobs = {} /\ run = [w \in Workers |-> Idle]
  BY DEF Init
<1>2. run = [w \in Workers |-> Idle] => \A w \in Workers : ~Running(w)
  BY DEF Running, Idle
<1> QED  BY <1>1, <1>2 DEF ChainInv

\* A turn of the loop climbs, or ends the run with the replan asked for.
LEMMA ChainTurn ==
  ASSUME MaxSteps >= 4, Shape, ChainInv, NEW w \in Workers, RunStep(w)
  PROVE  OnRungs(run'[w])
<1>1. /\ SameRun(w) /\ run[w].pc = "loop"
      /\ \/ \E tool : Took(w, tool) /\ (run'[w].ruled => tool = Ruled(w) /\ Ruled(w) # "finish")
         \/ Aborted(w)
         \/ run'[w].pc = "ended" /\ run'[w].steps = run[w].steps /\ run'[w].used = run[w].used
            /\ (run'[w].ruled => Ruled(w) = "finish")
      /\ run'[w].ruled => run[w].ruled
  BY Turn DEF Shape
<1>2. OnRungs(run[w]) /\ run[w].steps \in Nat
  BY <1>1 DEF Running, ChainInv, Shape, RunShape
<1>3. run[w].job[2].type \in RiskEvents /\ run'[w].job[2].type \in RiskEvents
  BY <1>1, <1>2 DEF SameRun, OnRungs
<1>4. SUFFICES ASSUME run'[w].ruled
               PROVE  \/ "propose_replan" \in run'[w].used
                      \/ run'[w].pc = "ended" /\ run'[w].status \in {"tool_failed", "budget_exceeded"}
                      \/ run'[w].pc = "loop" /\ run'[w].steps <= Rungs(run'[w].used)
  BY <1>3, <1>4 DEF OnRungs
<1>5. "propose_replan" \in run[w].used \/ run[w].steps <= Rungs(run[w].used)
  BY <1>1, <1>2, <1>4 DEF OnRungs
<1>6. "propose_replan" \notin run[w].used => Ruled(w) # "finish"
  BY <1>3, RuleClimbs DEF Ruled
<1>7. ASSUME Took(w, Ruled(w))
      PROVE  \/ "propose_replan" \in run'[w].used
             \/ run'[w].pc = "loop" /\ run'[w].steps <= Rungs(run'[w].used)
  <2>1. run'[w].used = run[w].used \cup {Ruled(w)} /\ run'[w].steps = run[w].steps + 1
        /\ (run[w].steps + 1 # MaxSteps => run'[w].pc = "loop")
    BY <1>7 DEF Took, StepLimit
  <2>2. CASE "propose_replan" \in run[w].used \/ Ruled(w) = "propose_replan"
    BY <2>1, <2>2
  <2>3. CASE "propose_replan" \notin run[w].used /\ Ruled(w) # "propose_replan"
    <3>1. Rungs(run'[w].used) = Rungs(run[w].used) + 1
      BY <1>3, <2>1, <2>3, RuleClimbs DEF Ruled
    <3>2. Rungs(run[w].used) \in 0..3 /\ Rungs(run'[w].used) \in 0..3
      BY RungsBounded
    <3> QED  BY <1>2, <1>5, <2>1, <2>3, <3>1, <3>2, LimitsAssumption
  <2> QED  BY <2>2, <2>3
<1> QED  BY <1>1, <1>4, <1>5, <1>6, <1>7 DEF Aborted

LEMMA ChainStep ==
  ASSUME MaxSteps >= 4, Shape, ChainInv, [Next]_vars
  PROVE  ChainInv'
<1>1. ASSUME NEW r \in Requests, RequestStep(r)
      PROVE  ChainInv'
  <2>1. run' = run
    BY <1>1, RequestFrame DEF Shape
  <2>2. CASE Enqueue(r)
    <3>1. \A job \in jobs' : job \in jobs \/ (Grave(req[r].ev) /\ job = <<req[r].id, req[r].ev>>)
      BY <2>2 DEF Enqueue
    <3>2. \A job \in jobs' : job[2].type \in RiskEvents
      BY <3>1, GraveIsRisk DEF ChainInv
    <3> QED  BY <2>1, <3>2 DEF ChainInv, Running
  <2>3. CASE ~Enqueue(r)
    <3>1. jobs' = jobs
      BY <1>1, <2>3, Zenon DEF RequestStep, Transition, CommitTransition, UpdateLocation,
         CommitLocation, IngestEvent, CommitEvent, ExecuteTool, RecordTool, sessionVars
    <3> QED  BY <2>1, <3>1 DEF ChainInv, Running
  <2> QED  BY <2>2, <2>3
<1>2. ASSUME NEW w \in Workers, RunMoves(w)
      PROVE  ChainInv'
  <2>1. jobs' = jobs /\ \A v \in Workers : v # w => run'[v] = run[v]
    BY <1>2, RunFrame, RunAlone DEF Shape
  <2>2. Running(w)' => OnRungs(run'[w])
    <3>1. ASSUME NEW job \in jobs, StartRun(w, job)
          PROVE  OnRungs(run'[w])
      <4>1. run'[w].pc = "loop" /\ run'[w].job = job /\ run'[w].steps = 0 /\ run'[w].used = {}
        BY <3>1, StartFields DEF Shape
      <4>2. run'[w].steps <= Rungs(run'[w].used)
        BY <4>1, RungsBounded
      <4> QED  BY <4>1, <4>2 DEF ChainInv, OnRungs
    <3>2. CASE RunStep(w)
      BY <3>2, ChainTurn
    <3>3. CASE CommitRun(w) \/ RunRaises(w)
      BY <3>3, CommitFields, RaiseFields DEF Shape, Running
    <3> QED  BY <1>2, <3>1, <3>2, <3>3 DEF RunMoves
  <2> QED  BY <2>1, <2>2 DEF ChainInv, Running
<1>3. CASE OutsideStep \/ UNCHANGED vars
  <2>1. UNCHANGED <<run, jobs>>
    BY <1>3, OutsideFrame DEF vars, sessionVars
  <2> QED  BY <2>1 DEF ChainInv, Running
<1>4. CASE PublishNumber \/ PublishSnapshot
  BY <1>4, PublishFrame DEF Shape, ChainInv, Running
<1> QED  BY <1>1, <1>2, <1>3, <1>4, NextSplit

-----------------------------------------------------------------------------
(* The tool budget: what is under way was let in below the limit *)

Calling(q) == q.pc = "loaded" /\ q.kind = "tool"

\* The requests whose tool call is not recorded yet.
Pending == {r \in Requests : Calling(req[r])}

\* The Workers whose run started below the limit and is not recorded yet.
Spending == {w \in Workers : Running(w) /\ run[w].base < MaxTripCalls}

N == Cardinality(Requests)
W == Cardinality(Workers)

\* What a run may have called: within its own limit, and nothing when it
\* started at the trip's limit.
WithinRun(x) ==
  /\ x.steps <= MaxRunCalls
  /\ x.steps > 0 => x.base < MaxTripCalls

\* A call or a run is let in below the limit only.  With all its calls reserved
\* for each run under way, what is recorded and reserved passes the limit by
\* what all requests and all Workers can have under way.
BudgetInv ==
  /\ calls + Cardinality(Pending) + MaxRunCalls * Cardinality(Spending)
       <= MaxTripCalls + N - 1 + MaxRunCalls * W
  /\ \A w \in Workers : Running(w) => WithinRun(run[w])

LEMMA Sizes ==
  /\ IsFiniteSet(Pending) /\ Cardinality(Pending) \in Nat /\ Cardinality(Pending) <= N
  /\ IsFiniteSet(Spending) /\ Cardinality(Spending) \in Nat /\ Cardinality(Spending) <= W
  /\ N \in Nat /\ W \in Nat
<1>1. Pending \subseteq Requests /\ Spending \subseteq Workers
  BY DEF Pending, Spending
<1> QED  BY <1>1, ProcessesAssumption, FS_Subset, FS_CardinalityType DEF N, W

LEMMA SizesAfter ==
  /\ IsFiniteSet(Pending') /\ Cardinality(Pending') \in Nat /\ Cardinality(Pending') <= N
  /\ IsFiniteSet(Spending') /\ Cardinality(Spending') \in Nat /\ Cardinality(Spending') <= W
<1>1. Pending' \subseteq Requests /\ Spending' \subseteq Workers
  BY DEF Pending, Spending
<1> QED  BY <1>1, ProcessesAssumption, FS_Subset, FS_CardinalityType DEF N, W

LEMMA Products ==
  ASSUME NEW m \in Nat, NEW a \in Nat, NEW b \in Nat
  PROVE  /\ m * a \in Nat
         /\ a <= b => m * a <= m * b
         /\ m * (a + 1) = m * a + m
  OBVIOUS

LEMMA BudgetInit == Init => BudgetInv
<1> SUFFICES ASSUME Init PROVE BudgetInv
  OBVIOUS
<1>1. calls = 0 /\ \A w \in Workers : ~Running(w)
  BY DEF Init, Running, Idle
<1>2. \A r \in Requests : req[r].pc = "idle"
  BY DEF Init, Idle
<1>3. Cardinality(Pending) = 0 /\ Cardinality(Spending) = 0
  BY <1>1, <1>2, FS_EmptySet DEF Pending, Calling, Spending
<1>4. MaxRunCalls * Cardinality(Spending) = 0 /\ MaxRunCalls * W \in Nat
  <2>1. MaxRunCalls * 0 = 0 /\ MaxRunCalls \in Nat
    BY LimitsAssumption
  <2> QED  BY <1>3, <2>1, Sizes, Products
<1>5. calls + Cardinality(Pending) + MaxRunCalls * Cardinality(Spending)
        <= MaxTripCalls + N - 1 + MaxRunCalls * W
  <2> DEFINE reserved == MaxRunCalls * Cardinality(Spending)
             most == MaxRunCalls * W
  <2>1. reserved = 0 /\ most \in Nat /\ N \in Nat /\ MaxTripCalls \in Nat \ {0}
    BY <1>4, Sizes, LimitsAssumption
  <2> HIDE DEF reserved, most
  <2>2. 0 + 0 + reserved <= MaxTripCalls + N - 1 + most
    BY <2>1
  <2> QED  BY <1>1, <1>3, <2>2 DEF reserved, most
<1> QED  BY <1>1, <1>5 DEF BudgetInv

\* No step but execute_agent_tool puts a call under way.
LEMMA NewCall ==
  ASSUME Served, NEW r \in Requests, RequestStep(r), ~\E tool \in Tools : ExecuteTool(r, tool)
  PROVE  ~Calling(req'[r])
<1>1. ASSUME NEW s, Transition(r, s)
      PROVE  ~Calling(req'[r])
  <2>1. req'[r] = [pc |-> "loaded", kind |-> "transition", read |-> row,
                   written |-> Entered(row, s)]
    BY <1>1, OneMoves, Zenon DEF Transition
  <2> QED  BY <2>1 DEF Calling
<1>2. ASSUME NEW e, NEW outside, UpdateLocation(r, e, outside)
      PROVE  ~Calling(req'[r])
  <2>1. PICK alarm, written :
           req' = [req EXCEPT ![r] = [pc |-> "loaded", kind |-> "location", id |-> <<"client", e>>,
                                      read |-> row, alarm |-> alarm, written |-> written]]
    BY <1>2, Zenon DEF UpdateLocation
  <2>2. req'[r] = [pc |-> "loaded", kind |-> "location", id |-> <<"client", e>>,
                   read |-> row, alarm |-> alarm, written |-> written]
    BY <2>1, OneMoves, Zenon
  <2> QED  BY <2>2 DEF Calling
<1>3. ASSUME NEW e, NEW ev, IngestEvent(r, e, ev)
      PROVE  ~Calling(req'[r])
  <2>1. req'[r] = [pc |-> "loaded", kind |-> "event", id |-> <<"client", e>>, ev |-> ev,
                   read |-> row, written |-> Notified(Entered(row, NextState(row.state, ev)), ev)]
    BY <1>3, OneMoves, Zenon DEF IngestEvent
  <2> QED  BY <2>1 DEF Calling
<1>4. ASSUME NEW v, req' = [req EXCEPT ![r] = v], v.pc \in {"idle", "enqueue", "publish"}
      PROVE  ~Calling(req'[r])
  BY <1>4, OneMoves DEF Calling
<1>5. CASE CommitTransition(r) \/ RecordTool(r)
  BY <1>4, <1>5 DEF CommitTransition, RecordTool, Idle
<1>6. CASE CommitLocation(r)
  BY <1>4, <1>6 DEF CommitLocation, Idle
<1>7. CASE CommitEvent(r) \/ Enqueue(r)
  BY <1>4, <1>7 DEF CommitEvent, Enqueue, Idle
<1> QED  BY <1>1, <1>2, <1>3, <1>5, <1>6, <1>7 DEF RequestStep

\* Nothing more is under way and no call is recorded.
LEMMA BudgetKept ==
  ASSUME Shape, BudgetInv, Pending' \subseteq Pending, Spending' \subseteq Spending,
         calls' = calls, \A w \in Workers : Running(w)' => WithinRun(run'[w])
  PROVE  BudgetInv'
<1>1. Cardinality(Pending') <= Cardinality(Pending) /\ Cardinality(Spending') <= Cardinality(Spending)
  BY Sizes, FS_Subset
<1>2. /\ MaxRunCalls * Cardinality(Spending') <= MaxRunCalls * Cardinality(Spending)
      /\ MaxRunCalls * Cardinality(Spending') \in Nat /\ MaxRunCalls * Cardinality(Spending) \in Nat
      /\ MaxRunCalls * W \in Nat
  BY <1>1, Sizes, SizesAfter, Products, LimitsAssumption
<1>3. calls' + Cardinality(Pending') + MaxRunCalls * Cardinality(Spending')
        <= MaxTripCalls + N - 1 + MaxRunCalls * W
  BY <1>1, <1>2, Sizes, SizesAfter, LimitsAssumption DEF Shape, BudgetInv
<1> QED  BY <1>3 DEF BudgetInv, N, W

\* What was let in below the limit, while no call is recorded.
LEMMA BudgetBelow ==
  ASSUME Shape, calls < MaxTripCalls, calls' = calls,
         \A w \in Workers : Running(w)' => WithinRun(run'[w])
  PROVE  BudgetInv'
<1>1. /\ MaxRunCalls * Cardinality(Spending') <= MaxRunCalls * W
      /\ MaxRunCalls * Cardinality(Spending') \in Nat /\ MaxRunCalls * W \in Nat
  BY Sizes, SizesAfter, Products, LimitsAssumption
<1>2. calls' + Cardinality(Pending') + MaxRunCalls * Cardinality(Spending')
        <= MaxTripCalls + N - 1 + MaxRunCalls * W
  BY <1>1, Sizes, SizesAfter, LimitsAssumption DEF Shape
<1> QED  BY <1>2 DEF BudgetInv, N, W

\* Pending calls after a step: none is new unless execute_agent_tool let it in.
LEMMA PendingAfter ==
  ASSUME Shape, [Next]_vars,
         ~\E r \in Requests, tool \in Tools : ExecuteTool(r, tool)
  PROVE  Pending' \subseteq Pending
<1> USE DEF Shape
<1>1. ASSUME \A q \in Requests : Calling(req'[q]) => req'[q] = req[q]
      PROVE  Pending' \subseteq Pending
  BY <1>1 DEF Pending
<1>2. ASSUME NEW r \in Requests, RequestStep(r)
      PROVE  \A q \in Requests : Calling(req'[q]) => req'[q] = req[q]
  BY <1>2, RequestFrame, NewCall
<1>3. CASE OutsideStep \/ (\E w \in Workers : RunMoves(w)) \/ UNCHANGED vars
  BY <1>1, <1>3, OutsideFrame, RunFrame DEF vars
<1>4. CASE PublishNumber \/ PublishSnapshot
  <2>1. \A q \in Requests : req'[q] = req[q] \/ req'[q].pc \in {"store", "idle"}
    BY <1>4, PublishFrame
  <2> QED  BY <1>1, <2>1 DEF Calling
<1> QED  BY <1>1, <1>2, <1>3, <1>4, NextSplit

\* execute_agent_tool reads the count below the limit.
LEMMA BudgetLetIn ==
  ASSUME Shape, BudgetInv, NEW r \in Requests, NEW tool, ExecuteTool(r, tool)
  PROVE  BudgetInv'
<1>1. calls' = calls /\ run' = run /\ calls < MaxTripCalls
  BY DEF ExecuteTool, CallsLeft, sessionVars
<1>2. \A w \in Workers : Running(w)' => WithinRun(run'[w])
  BY <1>1 DEF BudgetInv, Running
<1> QED  BY <1>1, <1>2, BudgetBelow

\* A recorded call was pending.
LEMMA BudgetRecord ==
  ASSUME Shape, BudgetInv, NEW r \in Requests, RecordTool(r)
  PROVE  BudgetInv'
<1>1. calls' = calls + 1 /\ run' = run /\ Calling(req[r]) /\ req' = [req EXCEPT ![r] = Idle]
  BY DEF RecordTool, Calling
<1>2. Pending' = Pending \ {r} /\ r \in Pending
  <2>1. req'[r] = Idle /\ \A q \in Requests : q # r => req'[q] = req[q]
    BY <1>1, OneMoves DEF Shape
  <2>2. ~Calling(req'[r])
    BY <2>1 DEF Calling, Idle
  <2> QED  BY <1>1, <2>1, <2>2 DEF Pending
<1>3. Cardinality(Pending') = Cardinality(Pending) - 1
  <2>1. Cardinality(Pending \ {r}) = Cardinality(Pending) - 1
    BY <1>2, Sizes, FS_RemoveElement
  <2> QED  BY <1>2, <2>1
<1>4. Spending' = Spending /\ \A w \in Workers : Running(w)' => WithinRun(run'[w])
  BY <1>1 DEF Spending, Running, BudgetInv
<1>5. calls' + Cardinality(Pending') = calls + Cardinality(Pending)
  BY <1>1, <1>3, Sizes DEF Shape
<1>6. calls' + Cardinality(Pending') + MaxRunCalls * Cardinality(Spending')
        <= MaxTripCalls + N - 1 + MaxRunCalls * W
  BY <1>4, <1>5 DEF BudgetInv
<1> QED  BY <1>4, <1>6 DEF BudgetInv, N, W

\* A step of a run is taken below the limits.
LEMMA BudgetTurn ==
  ASSUME Shape, BudgetInv, NEW w \in Workers, RunStep(w)
  PROVE  SameRun(w) /\ Running(w) /\ WithinRun(run'[w])
<1>1. /\ SameRun(w) /\ run[w].pc = "loop"
      /\ \/ run'[w].steps = run[w].steps
         \/ run'[w].steps = run[w].steps + 1 /\ ~RunBudgetExceeded(w)
  BY Turn DEF Shape, Took, Aborted
<1>2. run[w].steps \in Nat /\ run[w].base \in Nat /\ Running(w) /\ WithinRun(run[w])
  BY <1>1 DEF Shape, RunShape, Running, BudgetInv
<1> QED
  BY <1>1, <1>2, LimitsAssumption DEF RunBudgetExceeded, SameRun, WithinRun

\* A run that is recorded uses what was reserved for it at most.
LEMMA BudgetCommit ==
  ASSUME Shape, BudgetInv, NEW w \in Workers, CommitRun(w), Pending' \subseteq Pending,
         \A v \in Workers : v # w => run'[v] = run[v]
  PROVE  BudgetInv'
<1>1. Running(w) /\ ~Running(w)' /\ calls' = calls + run[w].steps
  BY CommitFields DEF Running, Shape
<1>2. /\ run[w].steps \in Nat /\ run[w].base \in Nat /\ calls \in Nat
      /\ WithinRun(run[w])
  BY <1>1 DEF Shape, RunShape, BudgetInv
<1>3. Spending' = Spending \ {w}
  BY <1>1 DEF Spending, Running
<1>4. \A v \in Workers : Running(v)' => WithinRun(run'[v])
  BY <1>1 DEF Running, BudgetInv
<1>5. Cardinality(Pending') <= Cardinality(Pending)
  BY Sizes, FS_Subset
<1>6. /\ MaxRunCalls * Cardinality(Spending') \in Nat
      /\ run[w].steps + MaxRunCalls * Cardinality(Spending') <= MaxRunCalls * Cardinality(Spending)
  <2>1. CASE w \in Spending
    <3>1. Cardinality(Spending) = Cardinality(Spending') + 1
      BY <1>3, <2>1, Sizes, SizesAfter, FS_RemoveElement
    <3>2. /\ MaxRunCalls * Cardinality(Spending') \in Nat
          /\ MaxRunCalls * Cardinality(Spending) = MaxRunCalls * Cardinality(Spending') + MaxRunCalls
      BY <3>1, SizesAfter, Products, LimitsAssumption
    <3> QED  BY <1>2, <3>2, LimitsAssumption DEF WithinRun
  <2>2. CASE w \notin Spending
    <3>1. run[w].steps = 0
      BY <1>1, <1>2, <2>2 DEF Spending, WithinRun
    <3>2. Spending' = Spending
      BY <1>3, <2>2
    <3>3. Cardinality(Spending') = Cardinality(Spending)
      BY <3>2
    <3>4. MaxRunCalls * Cardinality(Spending') \in Nat
      BY SizesAfter, Products, LimitsAssumption
    <3> QED  BY <3>1, <3>3, <3>4
  <2> QED  BY <2>1, <2>2
<1>7. calls' + Cardinality(Pending') + MaxRunCalls * Cardinality(Spending')
        <= MaxTripCalls + N - 1 + MaxRunCalls * W
  <2>1. MaxRunCalls * Cardinality(Spending) \in Nat /\ MaxRunCalls * W \in Nat
    BY Sizes, Products, LimitsAssumption
  <2> QED  BY <1>1, <1>2, <1>5, <1>6, <2>1, Sizes, SizesAfter, LimitsAssumption DEF BudgetInv
<1> QED  BY <1>4, <1>7 DEF BudgetInv, N, W

LEMMA BudgetStep ==
  ASSUME Shape, BudgetInv, [Next]_vars
  PROVE  BudgetInv'
<1>1. CASE \E r \in Requests, tool \in Tools : ExecuteTool(r, tool)
  BY <1>1, BudgetLetIn
<1>2. CASE \E r \in Requests : RecordTool(r)
  BY <1>2, BudgetRecord
<1>3. CASE /\ ~\E r \in Requests, tool \in Tools : ExecuteTool(r, tool)
           /\ ~\E r \in Requests : RecordTool(r)
  <2>1. Pending' \subseteq Pending
    BY <1>3, PendingAfter
  <2>2. ASSUME calls' = calls, \A w \in Workers : ~Running(w)' \/ run'[w] = run[w]
        PROVE  BudgetInv'
    <3>1. Spending' \subseteq Spending
      BY <2>2 DEF Spending, Running
    <3>2. \A w \in Workers : Running(w)' => WithinRun(run'[w])
      BY <2>2 DEF Running, BudgetInv
    <3> QED  BY <2>1, <2>2, <3>1, <3>2, BudgetKept
  <2>3. ASSUME NEW r \in Requests, RequestStep(r)
        PROVE  BudgetInv'
    BY <1>3, <2>2, <2>3, RequestFrame DEF Shape
  <2>4. CASE OutsideStep \/ UNCHANGED vars
    BY <2>2, <2>4, OutsideFrame DEF vars, sessionVars
  <2>5. CASE PublishNumber \/ PublishSnapshot
    BY <2>2, <2>5, PublishFrame DEF Shape
  <2>6. ASSUME NEW w \in Workers, RunMoves(w)
        PROVE  BudgetInv'
    <3>1. \A v \in Workers : v # w => run'[v] = run[v]
      BY <2>6, RunAlone DEF Shape
    <3>2. ASSUME NEW job \in jobs, StartRun(w, job)
          PROVE  BudgetInv'
      <4>1. run'[w].steps = 0 /\ run'[w].base = calls /\ calls' = calls /\ calls \in Nat
        BY <3>2, StartFields DEF Shape
      <4>2. \A v \in Workers : Running(v)' => WithinRun(run'[v])
        <5>1. WithinRun(run'[w])
          BY <4>1, LimitsAssumption DEF WithinRun
        <5> QED  BY <3>1, <5>1 DEF Running, BudgetInv
      <4>3. CASE calls < MaxTripCalls
        BY <4>1, <4>2, <4>3, BudgetBelow
      <4>4. CASE ~(calls < MaxTripCalls)
        <5>1. Spending' \subseteq Spending
          BY <3>1, <4>1, <4>4 DEF Spending, Running
        <5> QED  BY <2>1, <4>1, <4>2, <5>1, BudgetKept
      <4> QED  BY <4>3, <4>4
    <3>3. CASE RunStep(w)
      <4>1. SameRun(w) /\ Running(w) /\ WithinRun(run'[w])
        BY <3>3, BudgetTurn
      <4>2. Spending' \subseteq Spending
        BY <3>1, <4>1 DEF Spending, Running, SameRun
      <4>3. \A v \in Workers : Running(v)' => WithinRun(run'[v])
        BY <3>1, <4>1 DEF Running, BudgetInv
      <4>4. calls' = calls
        BY <3>3 DEF RunStep
      <4> QED  BY <2>1, <4>2, <4>3, <4>4, BudgetKept
    <3>4. CASE CommitRun(w)
      BY <2>1, <3>1, <3>4, BudgetCommit
    <3>5. CASE RunRaises(w)
      BY <2>2, <3>1, <3>5, RaiseFields DEF Shape, Running
    <3> QED  BY <2>6, <3>2, <3>3, <3>4, <3>5 DEF RunMoves
  <2> QED  BY <2>3, <2>4, <2>5, <2>6, NextSplit
<1> QED  BY <1>1, <1>2, <1>3

-----------------------------------------------------------------------------
(* Theorems *)

\* However requests with one event id overlap or are repeated, the event moves
\* the trip at most once, and every stored event has moved it (CommitEvent and
\* CommitLocation, the unique constraint on trip_events).
THEOREM EffectOnce == Spec => []OneEffectPerEvent
<1>1. Init => Shape /\ EffectInv
  BY ShapeInit, EffectInit
<1>2. Shape /\ EffectInv /\ [Next]_vars => (Shape /\ EffectInv)'
  BY ShapeStep, EffectStep
<1>3. EffectInv => OneEffectPerEvent
  BY DEF EffectInv, OneEffectPerEvent
<1> QED  BY <1>1, <1>2, <1>3, PTL DEF Spec

\* A position is let in only on a grant the user still wants (update_location
\* asks _has_consent, where the latest row decides).
THEOREM LocationConsented == Spec => LocationFollowsLatestConsent
<1>1. Init => Shape /\ ConsentInv
  BY ShapeInit, ConsentInit
<1>2. Shape /\ ConsentInv /\ [Next]_vars => (Shape /\ ConsentInv)'
  BY ShapeStep, ConsentStep
<1>3. Shape /\ ConsentInv /\ [Next]_vars =>
        [\A r \in Requests :
           (req[r] = Idle /\ req'[r].pc = "loaded" /\ req'[r].kind = "location") => wish]_vars
  BY LocationStep
<1> QED  BY <1>1, <1>2, <1>3, PTL DEF Spec, LocationFollowsLatestConsent

\* Whatever overlaps, the trip's tool calls pass their limit by no more than
\* the calls of one run of each Worker and of the requests under way
\* (execute_agent_tool and run_once check before a call and record after it),
\* for any number of Workers, whether or not they keep the trip's lock.
THEOREM BudgetHolds == Spec => []ToolBudgetBounded
<1>1. Init => Shape /\ BudgetInv
  BY ShapeInit, BudgetInit
<1>2. Shape /\ BudgetInv /\ [Next]_vars => (Shape /\ BudgetInv)'
  BY ShapeStep, BudgetStep
<1>3. Shape /\ BudgetInv => ToolBudgetBounded
  <2>1. MaxRunCalls * Cardinality(Spending) \in Nat /\ MaxRunCalls * W \in Nat
        /\ MaxRunCalls * W = W * MaxRunCalls
    BY Sizes, Products, LimitsAssumption
  <2> QED  BY <2>1, Sizes, LimitsAssumption DEF Shape, BudgetInv, ToolBudgetBounded, N, W
<1> QED  BY <1>1, <1>2, <1>3, PTL DEF Spec

\* With the four steps the code grants, a run that the rules alone decide asks
\* for a replan before it stops, unless a tool failed or a budget ended it.
THEOREM RuledRunProposes ==
  ASSUME MaxSteps >= 4
  PROVE  Spec => []RiskIsProposed
<1>1. Init => Shape /\ ChainInv
  BY ShapeInit, ChainInit
<1>2. Shape /\ ChainInv /\ [Next]_vars => (Shape /\ ChainInv)'
  BY ShapeStep, ChainStep
<1>3. ChainInv => RiskIsProposed
  BY DEF ChainInv, OnRungs, RiskIsProposed, Running
<1> QED  BY <1>1, <1>2, <1>3, PTL DEF Spec

\* A browser never holds a number the stream's counter has not reached, also
\* after the snapshot lapsed (publish_trip_stream, stream_trip_events).
THEOREM CursorWithinCounter == Spec => []ClientNotAhead
<1>1. Init => Shape /\ StreamInv
  BY ShapeInit, StreamInit
<1>2. Shape /\ StreamInv /\ [Next]_vars => (Shape /\ StreamInv)'
  BY ShapeStep, StreamStep
<1>3. StreamInv => ClientNotAhead
  BY DEF StreamInv, ClientNotAhead
<1> QED  BY <1>1, <1>2, <1>3, PTL DEF Spec

=============================================================================
