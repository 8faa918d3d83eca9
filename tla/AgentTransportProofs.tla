------------------------ MODULE AgentTransportProofs ------------------------
(***************************************************************************)
(* Proofs about AgentTransport for any number of requests, role workers    *)
(* and faults.  As long as no claim is taken from a live worker, a claim   *)
(* has one holder, so that a task has one copy in flight and each delivery *)
(* of it runs the handler at most once; and with any number of takeovers   *)
(* the transport implements RequestChannel.                                *)
(***************************************************************************)
EXTENDS AgentTransport, Integers, SequenceTheorems, FiniteSetTheorems, TLAPS

-----------------------------------------------------------------------------
(* The inductive invariant *)

\* A delivery in hand is an entry that was handed out; a reply that is to be
\* acknowledged is in the inbox.
HeldInv ==
  \A w \in Consumers : pc[w] \in Working =>
    /\ held[w].receipt \in 1..read
    /\ held[w].req = log[held[w].receipt].req
    /\ held[w].attempt = log[held[w].receipt].attempt
    /\ pc[w] \in {"publish", "ack"} => made[w] \in Outputs
    /\ pc[w] = "ack" => inbox[held[w].req] # <<>>

\* A key stands for a reply in the inbox.
KeysInv == \A r \in Requests, c \in Outputs : <<r, c>> \in keys => inbox[r] # <<>>

\* Only tasks that were sent are in the stream; a caller that waits has taken
\* nothing.
SentInv ==
  /\ \A i \in 1..Len(log) : caller[log[i].req] # "new"
  /\ \A r \in Requests : caller[r] \in {"new", "waiting"} => answer[r] = NoOutput

\* Unless a live worker was overtaken, what it holds is its own fresh claim.
ClaimInv ==
  stalls = 0 => \A w \in Consumers : pc[w] \in Working =>
    /\ held[w].receipt \in DOMAIN pel
    /\ ~pel[held[w].receipt].idle
    /\ pel[held[w].receipt].count <= held[w].count
    /\ \A v \in Consumers : pc[v] \in Working /\ held[v].receipt = held[w].receipt => v = w

\* One copy in flight.
CopyInv ==
  transport = "memory" \/ stalls = 0 => \A r \in Requests : \A i, j \in LiveEntries(r) : i = j

\* Handler runs that the entries before the latest one account for.
Base(r) == (Attempts(r) - 1) * (MaxAttempts - 1)

\* The handler has not yet been run for this delivery of entry i.
Starting(i) == \E w \in Consumers : pc[w] \in {"claimed", "have"} /\ held[w].receipt = i

\* Each delivery of the latest entry adds at most one run.
RunsInv ==
  stalls = 0 => \A r \in Requests :
    /\ Attempts(r) = 0 => runs[r] = 0
    /\ Attempts(r) > 0 => runs[r] <= Base(r) + MaxAttempts
    /\ \A i \in LiveEntries(r) :
         /\ i > read => runs[r] <= Base(r)
         /\ i \in DOMAIN pel => runs[r] <= Base(r) + pel[i].count
         /\ i \in DOMAIN pel /\ Starting(i) => runs[r] <= Base(r) + pel[i].count - 1

IInv == TypeOK /\ HeldInv /\ KeysInv /\ SentInv /\ ClaimInv /\ CopyInv /\ RunsInv

-----------------------------------------------------------------------------
(* The stream and its claims *)

PelEntry == [count : Nat \ {0}, idle : BOOLEAN]

\* What TypeOK says of the stream.
LEMMA StreamFacts ==
  ASSUME TypeOK
  PROVE  /\ log \in Seq(Entry) /\ Len(log) \in Nat /\ read \in Nat /\ read <= Len(log)
         /\ DOMAIN pel \in SUBSET (1..read) /\ pel \in [DOMAIN pel -> PelEntry]
         /\ \A i \in 1..Len(log) : log[i] \in Entry
         /\ \A i \in 1..Len(log) : log[i].req \in Requests /\ log[i].attempt \in 1..MaxAttempts
         /\ MaxAttempts \in Nat /\ MaxAttempts > 0
<1>1. log \in Seq(Entry) /\ Len(log) \in Nat /\ read \in Nat /\ read <= Len(log)
  BY LenProperties DEF TypeOK
<1>2. DOMAIN pel \in SUBSET (1..read) /\ pel \in [DOMAIN pel -> PelEntry]
  BY DEF TypeOK, PelEntry
<1>3. \A i \in 1..Len(log) : log[i] \in Entry
  BY <1>1, ElementOfSeq
<1> QED  BY <1>1, <1>2, <1>3, LimitsAssumption DEF Entry

\* A type-correct pending list, seen from its domain.
LEMMA PelType ==
  ASSUME NEW P \in SUBSET (1..read), pel \in [P -> PelEntry]
  PROVE  \E Q \in SUBSET (1..read) : pel \in [Q -> [count : Nat \ {0}, idle : BOOLEAN]]
  BY DEF PelEntry

\* A claim adds or renews one pending entry.
LEMMA ClaimFacts ==
  ASSUME TypeOK, NEW i \in Nat, NEW n \in Nat \ {0}
  PROVE  /\ DOMAIN Claim(i, n) = DOMAIN pel \cup {i}
         /\ Claim(i, n) \in [DOMAIN pel \cup {i} -> PelEntry]
         /\ Claim(i, n)[i].count = n /\ Claim(i, n)[i].idle = FALSE
         /\ \A j \in DOMAIN pel \ {i} : Claim(i, n)[j] = pel[j]
<1>1. pel \in [DOMAIN pel -> PelEntry] /\ [count |-> n, idle |-> FALSE] \in PelEntry
  BY StreamFacts DEF PelEntry
<1> QED  BY <1>1 DEF Claim

\* An acknowledgement removes at most that entry.
LEMMA UnclaimFacts ==
  ASSUME TypeOK, NEW i
  PROVE  /\ DOMAIN Unclaim(i) = DOMAIN pel \ {i}
         /\ Unclaim(i) \in [DOMAIN pel \ {i} -> PelEntry]
         /\ \A j \in DOMAIN pel \ {i} : Unclaim(i)[j] = pel[j]
  BY StreamFacts DEF Unclaim

\* A nonempty set of naturals has a least element.
LEMMA LeastNatural ==
  ASSUME NEW S \in SUBSET Nat, S # {}
  PROVE  \E m \in S : \A x \in S : m <= x
<1> DEFINE R == OpToRel(<, Nat)
<1>1. PICK m \in S : \A x \in S : <<x, m>> \notin R
  <2>1. IsWellFoundedOn(R, Nat)
    BY NatLessThanWellFounded
  <2> HIDE DEF R
  <2> QED  BY <2>1, WFMin
<1>2. \A x \in S : ~(x < m)
  BY <1>1 DEF OpToRel
<1> QED  BY <1>2

\* The oldest idle claim is an idle claim.
LEMMA OldestIdleFacts ==
  ASSUME TypeOK, IdleClaims # {}
  PROVE  /\ OldestIdle \in DOMAIN pel /\ pel[OldestIdle].idle
         /\ OldestIdle \in 1..read /\ pel[OldestIdle].count \in Nat \ {0}
<1>1. IdleClaims \in SUBSET (DOMAIN pel) /\ IdleClaims \in SUBSET Nat
  BY StreamFacts DEF IdleClaims
<1>2. \E i \in IdleClaims : \A j \in IdleClaims : i <= j
  BY <1>1, LeastNatural
<1>3. OldestIdle \in IdleClaims
  BY <1>2 DEF OldestIdle
<1> QED  BY <1>1, <1>3, StreamFacts DEF IdleClaims, PelEntry

\* The attempts of a task, counted in the stream.
LEMMA AttemptsFacts ==
  ASSUME TypeOK, NEW r
  PROVE  /\ IsFiniteSet({i \in 1..Len(log) : log[i].req = r}) /\ Attempts(r) \in Nat
         /\ Attempts(r) = 0 <=> \A i \in 1..Len(log) : log[i].req # r
<1> DEFINE S == {i \in 1..Len(log) : log[i].req = r}
<1>1. IsFiniteSet(1..Len(log))
  <2>1. 1 \in Int /\ Len(log) \in Int
    BY StreamFacts
  <2> QED  BY <2>1, FS_Interval
<1>2. IsFiniteSet(S)
  <2>1. S \in SUBSET (1..Len(log))
    OBVIOUS
  <2> HIDE DEF S
  <2> QED  BY <1>1, <2>1, FS_Subset
<1>3. Cardinality(S) \in Nat /\ (Cardinality(S) = 0 <=> S = {})
  BY <1>2, FS_CardinalityType, FS_EmptySet
<1> QED  BY <1>2, <1>3 DEF Attempts

\* A new entry follows the others and is one more attempt of its task.
LEMMA AppendFacts ==
  ASSUME TypeOK, NEW e \in Entry, log' = Append(log, e)
  PROVE  /\ log' \in Seq(Entry) /\ Len(log)' = Len(log) + 1
         /\ \A i \in 1..Len(log) : log'[i] = log[i]
         /\ log'[Len(log) + 1] = e
         /\ \A r \in Requests : Attempts(r)' = IF r = e.req THEN Attempts(r) + 1 ELSE Attempts(r)
<1>1. /\ log' \in Seq(Entry) /\ Len(log') = Len(log) + 1
      /\ \A i \in 1..Len(log) : log'[i] = log[i]
      /\ log'[Len(log) + 1] = e /\ Len(log) \in Nat
  BY AppendProperties, StreamFacts
<1>2. ASSUME NEW r \in Requests
      PROVE  Attempts(r)' = IF r = e.req THEN Attempts(r) + 1 ELSE Attempts(r)
  <2> DEFINE S == {i \in 1..Len(log) : log[i].req = r}
             T == {i \in 1..Len(log') : log'[i].req = r}
  <2>1. Attempts(r) = Cardinality(S) /\ Attempts(r)' = Cardinality(T) /\ IsFiniteSet(S)
    BY AttemptsFacts DEF Attempts
  <2>2. CASE r = e.req
    <3>1. T = S \cup {Len(log) + 1} /\ Len(log) + 1 \notin S
      BY <1>1, <2>2
    <3> HIDE DEF S, T
    <3> QED  BY <2>1, <2>2, <3>1, FS_AddElement
  <2>3. CASE r # e.req
    <3>1. T = S
      BY <1>1, <2>3
    <3> QED  BY <2>1, <2>3, <3>1
  <2> QED  BY <2>2, <2>3
<1> QED  BY <1>1, <1>2

\* The live entries of a task, claimed or waiting.
LEMMA LiveFacts ==
  ASSUME TypeOK, NEW r
  PROVE  LiveEntries(r) = {i \in 1..Len(log) : (i \in DOMAIN pel \/ i > read) /\ log[i].req = r}
  BY StreamFacts DEF LiveEntries

-----------------------------------------------------------------------------
(* What a step leaves alone *)

\* One copy in flight is a fact about the stream.
LEMMA CopyFrame ==
  ASSUME CopyInv, UNCHANGED <<transport, stalls, log, read, pel>>
  PROVE  CopyInv'
  BY DEF CopyInv, LiveEntries

\* A step that runs no handler and hands out nothing keeps the bound on runs.
LEMMA RunsFrame ==
  ASSUME RunsInv, UNCHANGED <<stalls, runs, log, read, pel>>,
         \A i \in DOMAIN pel : Starting(i)' => Starting(i)
  PROVE  RunsInv'
<1>1. \A r : LiveEntries(r)' = LiveEntries(r) /\ Attempts(r)' = Attempts(r) /\ Base(r)' = Base(r)
  BY DEF LiveEntries, Attempts, Base
<1> QED  BY <1>1 DEF RunsInv

\* The workers keep their claims when the claims do not change and no worker
\* begins to hold one.
LEMMA ClaimFrame ==
  ASSUME ClaimInv, UNCHANGED <<stalls, pel>>,
         \A w \in Consumers : pc'[w] \in Working => pc[w] \in Working /\ held'[w] = held[w]
  PROVE  ClaimInv'
  BY DEF ClaimInv

\* A worker that does not move keeps its delivery while the stream and the
\* inboxes only grow.
LEMMA HeldFrame ==
  ASSUME TypeOK, HeldInv, NEW v \in Consumers, pc'[v] = pc[v], held'[v] = held[v],
         made'[v] = made[v], read' \in Nat, read <= read',
         \A i \in 1..read : log'[i] = log[i],
         \A r \in Requests : inbox[r] # <<>> => inbox'[r] # <<>>,
         pc'[v] \in Working
  PROVE  /\ held'[v].receipt \in 1..read'
         /\ held'[v].req = log'[held'[v].receipt].req
         /\ held'[v].attempt = log'[held'[v].receipt].attempt
         /\ pc'[v] \in {"publish", "ack"} => made'[v] \in Outputs
         /\ pc'[v] = "ack" => inbox'[held'[v].req] # <<>>
<1>1. /\ held[v].receipt \in 1..read /\ held[v].req \in Requests
      /\ held[v].req = log[held[v].receipt].req
      /\ held[v].attempt = log[held[v].receipt].attempt
      /\ pc[v] \in {"publish", "ack"} => made[v] \in Outputs
      /\ pc[v] = "ack" => inbox[held[v].req] # <<>>
  BY DEF HeldInv, TypeOK, Delivery
<1> QED  BY <1>1, StreamFacts

-----------------------------------------------------------------------------
(* The steps of callers *)

\* The initial state: an empty stream, idle workers.
LEMMA InitIInv == Init => IInv
<1> SUFFICES ASSUME Init PROVE IInv
  OBVIOUS
<1>1. TypeOK
  <2>1. log \in Seq(Entry) /\ read \in 0..Len(log)
    BY DEF Init
  <2>2. \E P \in SUBSET (1..read) : pel \in [P -> [count : Nat \ {0}, idle : BOOLEAN]]
    <3>1. pel \in [{} -> [count : Nat \ {0}, idle : BOOLEAN]]
      BY DEF Init
    <3>2. {} \in SUBSET (1..read)
      OBVIOUS
    <3> QED  BY <3>1, <3>2
  <2>3. /\ transport \in Transports /\ dead \subseteq Requests
        /\ keys \subseteq Requests \X Outputs /\ inboxDead \subseteq Requests
        /\ inbox \in [Requests -> Seq(Outputs)] /\ caller \in [Requests -> CallerSteps]
        /\ answer \in [Requests -> Outputs \cup {NoOutput}] /\ runs \in [Requests -> Nat]
    BY DEF Init, CallerSteps
  <2>4. /\ pc \in [Consumers -> WorkerSteps] /\ made \in [Consumers -> Outputs \cup {NoOutput}]
        /\ held \in [Consumers -> Delivery \cup {NoDelivery}]
        /\ \A w \in Consumers : pc[w] \notin Working
    BY DEF Init, WorkerSteps, Working
  <2>5. crashes \in 0..MaxCrashes /\ stalls \in 0..MaxStalls /\ ackErrors \in 0..MaxAckErrors
    BY LimitsAssumption DEF Init
  <2> QED  BY <2>1, <2>2, <2>3, <2>4, <2>5 DEF TypeOK
<1>2. HeldInv /\ KeysInv /\ ClaimInv
  BY DEF Init, HeldInv, KeysInv, ClaimInv, Working
<1>3. SentInv
  BY DEF Init, SentInv
<1>4. \A r : LiveEntries(r) = {}
  BY DEF Init, LiveEntries
<1>5. \A r : Attempts(r) = 0
  BY <1>1, AttemptsFacts DEF Init
<1>6. CopyInv /\ RunsInv
  BY <1>4, <1>5 DEF Init, CopyInv, RunsInv
<1> QED  BY <1>1, <1>2, <1>3, <1>6 DEF IInv

\* The number of runs accounted for before the latest entry.
LEMMA BaseFacts ==
  ASSUME TypeOK, NEW r
  PROVE  /\ Base(r) \in Int
         /\ Attempts(r) = 1 => Base(r) = 0
<1>1. Attempts(r) \in Nat /\ MaxAttempts \in Nat
  BY AttemptsFacts, StreamFacts
<1> QED  BY <1>1 DEF Base

\* A caller that sends a task puts its only entry into the stream.
LEMMA PublishRequestIInv ==
  ASSUME IInv, NEW r \in Requests, PublishRequest(r)
  PROVE  IInv'
<1> DEFINE e == [req |-> r, attempt |-> 1]
<1>0. TypeOK /\ HeldInv /\ KeysInv /\ SentInv /\ ClaimInv /\ CopyInv /\ RunsInv
  BY DEF IInv
<1>1. /\ caller[r] = "new" /\ caller' = [caller EXCEPT ![r] = "waiting"]
      /\ log' = Append(log, e) /\ e \in Entry /\ e.req = r
      /\ UNCHANGED <<transport, read, pel, dead, keys, inbox, inboxDead, answer, pc, held, made,
                     runs, crashes, stalls, ackErrors>>
  BY LimitsAssumption DEF PublishRequest, Entry, replyVars, workerVars, boundVars
<1> HIDE DEF e
<1>2. /\ log' \in Seq(Entry) /\ Len(log)' = Len(log) + 1
      /\ \A i \in 1..Len(log) : log'[i] = log[i]
      /\ log'[Len(log) + 1] = e
      /\ \A q \in Requests : Attempts(q)' = IF q = r THEN Attempts(q) + 1 ELSE Attempts(q)
  BY <1>0, <1>1, AppendFacts
<1>3. /\ Len(log) \in Nat /\ read \in Nat /\ read <= Len(log) /\ DOMAIN pel \subseteq 1..read
      /\ \A i \in 1..Len(log) : log[i].req \in Requests
  BY <1>0, StreamFacts
<1>4. TypeOK'
  <2>1. read \in 0..Len(log') /\ caller' \in [Requests -> CallerSteps]
    BY <1>0, <1>1, <1>2, <1>3 DEF TypeOK, CallerSteps
  <2> QED  BY <1>0, <1>1, <1>2, <2>1 DEF TypeOK
<1>5. HeldInv'
  BY <1>0, <1>1, <1>2, <1>3, HeldFrame DEF HeldInv
<1>6. KeysInv' /\ ClaimInv'
  BY <1>0, <1>1 DEF KeysInv, ClaimInv
<1>7. \A i \in 1..Len(log) : log[i].req # r
  BY <1>0, <1>1 DEF SentInv
<1>8. SentInv'
  <2>1. \A i \in 1..(Len(log) + 1) : caller'[log'[i].req] # "new"
    BY <1>0, <1>1, <1>2, <1>3, <1>7 DEF SentInv, TypeOK
  <2>2. \A q \in Requests : caller'[q] \in {"new", "waiting"} => answer'[q] = NoOutput
    BY <1>0, <1>1 DEF SentInv, TypeOK
  <2> QED  BY <1>2, <2>1, <2>2 DEF SentInv
<1>9. LiveEntries(r)' = {Len(log) + 1}
  BY <1>1, <1>2, <1>3, <1>7 DEF LiveEntries
<1>10. \A q \in Requests : q # r => LiveEntries(q)' = LiveEntries(q)
  BY <1>1, <1>2, <1>3 DEF LiveEntries
<1>11. CopyInv'
  BY <1>0, <1>1, <1>9, <1>10 DEF CopyInv
<1>12. RunsInv'
  <2> SUFFICES ASSUME stalls = 0, NEW q \in Requests
               PROVE  /\ Attempts(q)' = 0 => runs[q] = 0
                      /\ Attempts(q)' > 0 => runs[q] <= Base(q)' + MaxAttempts
                      /\ \A i \in LiveEntries(q)' :
                           /\ i > read => runs[q] <= Base(q)'
                           /\ i \in DOMAIN pel => runs[q] <= Base(q)' + pel[i].count
                           /\ i \in DOMAIN pel /\ Starting(i)'
                                => runs[q] <= Base(q)' + pel[i].count - 1
    BY <1>1 DEF RunsInv
  <2>1. CASE q = r
    <3>1. Attempts(r) = 0 /\ Attempts(r)' = 1 /\ runs[r] = 0
      <4>1. Attempts(r) = 0
        BY <1>0, <1>7, AttemptsFacts
      <4> QED  BY <1>0, <1>2, <4>1 DEF RunsInv
    <3>2. Base(r)' = 0
      BY <3>1, StreamFacts, <1>0 DEF Base
    <3>3. Len(log) + 1 \notin DOMAIN pel /\ MaxAttempts \in Nat
      BY <1>0, <1>3, StreamFacts
    <3> QED  BY <1>9, <2>1, <3>1, <3>2, <3>3
  <2>2. CASE q # r
    <3>1. Attempts(q)' = Attempts(q) /\ Base(q)' = Base(q)
      BY <1>2, <2>2 DEF Base
    <3>2. \A i : Starting(i)' => Starting(i)
      BY <1>1 DEF Starting
    <3> QED  BY <1>0, <1>10, <2>2, <3>1, <3>2 DEF RunsInv
  <2> QED  BY <2>1, <2>2
<1> QED  BY <1>4, <1>5, <1>6, <1>8, <1>11, <1>12 DEF IInv

\* A caller that receives, acknowledges or gives up changes nothing but itself
\* and the dead letters of its inbox.
LEMMA CallerIInv ==
  ASSUME IInv, NEW r \in Requests,
         TakeReply(r) \/ AckReply(r) \/ AckReplyFails(r) \/ Deadline(r)
  PROVE  IInv'
<1>0. TypeOK /\ HeldInv /\ KeysInv /\ SentInv /\ ClaimInv /\ CopyInv /\ RunsInv
  BY DEF IInv
<1> USE DEF TakeReply, AckReply, AckReplyFails, Deadline, streamVars, replyVars, workerVars, boundVars
<1>1. UNCHANGED <<transport, log, read, pel, dead, keys, inbox, pc, held, made, runs, crashes,
                  stalls>>
  OBVIOUS
<1>2. /\ caller' \in [Requests -> CallerSteps] /\ caller'[r] \notin {"new", "waiting"}
      /\ \A q \in Requests \ {r} : caller'[q] = caller[q]
  BY <1>0 DEF TypeOK, CallerSteps
<1>3. /\ answer' \in [Requests -> Outputs \cup {NoOutput}]
      /\ \A q \in Requests \ {r} : answer'[q] = answer[q]
  <2>1. CASE TakeReply(r)
    <3>1. Head(inbox[r]) \in Outputs
      BY <1>0, <2>1, HeadTailProperties DEF TypeOK
    <3> QED  BY <1>0, <2>1, <3>1 DEF TypeOK
  <2>2. CASE UNCHANGED answer
    BY <1>0, <2>2 DEF TypeOK
  <2> QED  BY <2>1, <2>2
<1>4. inboxDead' \subseteq Requests
  BY <1>0 DEF TypeOK
<1>5. ackErrors' \in 0..MaxAckErrors
  BY <1>0, LimitsAssumption DEF TypeOK
<1>6. TypeOK'
  BY <1>0, <1>1, <1>2, <1>3, <1>4, <1>5 DEF TypeOK
<1>7. HeldInv' /\ KeysInv' /\ ClaimInv' /\ CopyInv'
  BY <1>0, <1>1, ClaimFrame, CopyFrame DEF HeldInv, KeysInv
<1>8. SentInv'
  <2>1. \A i \in 1..Len(log) : log[i].req \in Requests
    BY <1>0, StreamFacts
  <2>2. \A i \in 1..Len(log)' : caller'[log'[i].req] # "new"
    BY <1>0, <1>1, <1>2, <2>1 DEF SentInv
  <2>3. \A q \in Requests : caller'[q] \in {"new", "waiting"} => answer'[q] = NoOutput
    BY <1>0, <1>2, <1>3 DEF SentInv
  <2> QED  BY <2>2, <2>3 DEF SentInv
<1>9. RunsInv'
  BY <1>0, <1>1, RunsFrame DEF Starting
<1> QED  BY <1>6, <1>7, <1>8, <1>9 DEF IInv

-----------------------------------------------------------------------------
(* The steps of workers *)

\* A worker is handed entry i: the oldest idle claim or the next entry.
HandOut(w, i, n, m) ==
  /\ pc[w] = "idle" /\ i \in 1..Len(log) /\ n \in Nat \ {0} /\ m \in Nat /\ n <= m
  /\ \/ read' = read /\ i \in DOMAIN pel /\ pel[i].idle /\ n = pel[i].count + 1
     \/ read' = read + 1 /\ i = read + 1
  /\ pel' = Claim(i, n)
  /\ Hold(w, i, m)
  /\ pc' \in {[pc EXCEPT ![w] = "claimed"], [pc EXCEPT ![w] = "have"]}
  /\ UNCHANGED <<transport, log, dead, keys, inbox, inboxDead, caller, answer, made, runs,
                 crashes, stalls, ackErrors>>

\* Handing out an entry keeps the invariant: an idle claim is nobody's, and what
\* has not been read has not been run.
LEMMA HandOutIInv ==
  ASSUME IInv, NEW w \in Consumers, NEW i, NEW n, NEW m, HandOut(w, i, n, m)
  PROVE  IInv'
<1>0. TypeOK /\ HeldInv /\ KeysInv /\ SentInv /\ ClaimInv /\ CopyInv /\ RunsInv
  BY DEF IInv
<1>1. /\ pc[w] = "idle" /\ i \in 1..Len(log) /\ n \in Nat \ {0} /\ m \in Nat /\ n <= m
      /\ \/ read' = read /\ i \in DOMAIN pel /\ pel[i].idle /\ n = pel[i].count + 1
         \/ read' = read + 1 /\ i = read + 1
      /\ pel' = Claim(i, n)
      /\ UNCHANGED <<transport, log, dead, keys, inbox, inboxDead, caller, answer, made, runs,
                     crashes, stalls, ackErrors>>
  BY DEF HandOut
<1>2. /\ Len(log) \in Nat /\ read \in Nat /\ read <= Len(log) /\ DOMAIN pel \subseteq 1..read
      /\ log[i].req \in Requests /\ log[i].attempt \in 1..MaxAttempts /\ MaxAttempts \in Nat
      /\ pel \in [DOMAIN pel -> PelEntry]
  BY <1>0, <1>1, StreamFacts
<1>3. /\ DOMAIN pel' = DOMAIN pel \cup {i} /\ pel' \in [DOMAIN pel \cup {i} -> PelEntry]
      /\ pel'[i].count = n /\ pel'[i].idle = FALSE
      /\ \A j \in DOMAIN pel \ {i} : pel'[j] = pel[j]
  <2>1. i \in Nat /\ n \in Nat \ {0} /\ pel' = Claim(i, n)
    BY <1>1, <1>2
  <2>2. /\ DOMAIN Claim(i, n) = DOMAIN pel \cup {i}
        /\ Claim(i, n) \in [DOMAIN pel \cup {i} -> PelEntry]
        /\ Claim(i, n)[i].count = n /\ Claim(i, n)[i].idle = FALSE
        /\ \A j \in DOMAIN pel \ {i} : Claim(i, n)[j] = pel[j]
    BY <1>0, <2>1, ClaimFacts
  <2> QED  BY <2>1, <2>2
<1>4. /\ read' \in 0..Len(log) /\ read <= read' /\ i \in 1..read' /\ DOMAIN pel' \in SUBSET (1..read')
      /\ i \notin DOMAIN pel => i > read
  BY <1>1, <1>2, <1>3
<1>5. /\ held' \in [Consumers -> Delivery \cup {NoDelivery}] /\ held'[w] \in Delivery
      /\ held'[w].receipt = i /\ held'[w].req = log[i].req /\ held'[w].attempt = log[i].attempt
      /\ held'[w].count = m
      /\ \A v \in Consumers \ {w} : held'[v] = held[v]
  <2> DEFINE d == [receipt |-> i, req |-> log[i].req, attempt |-> log[i].attempt, count |-> m]
  <2>1. /\ d \in Delivery /\ d.receipt = i /\ d.req = log[i].req /\ d.attempt = log[i].attempt
        /\ d.count = m
    BY <1>1, <1>2 DEF Delivery
  <2>2. held' = [held EXCEPT ![w] = d]
    BY DEF HandOut, Hold
  <2> HIDE DEF d
  <2> QED  BY <1>0, <2>1, <2>2 DEF TypeOK
<1>6. /\ pc' \in [Consumers -> WorkerSteps] /\ pc'[w] \in {"claimed", "have"} /\ pc'[w] \in Working
      /\ \A v \in Consumers \ {w} : pc'[v] = pc[v]
  BY <1>0 DEF HandOut, TypeOK, WorkerSteps, Working
<1>7. TypeOK'
  <2>1. \E P \in SUBSET (1..read') : pel' \in [P -> [count : Nat \ {0}, idle : BOOLEAN]]
    BY <1>3, <1>4 DEF PelEntry
  <2>2. \A v \in Consumers : pc'[v] \in Working => held'[v] \in Delivery
    BY <1>0, <1>5, <1>6 DEF TypeOK
  <2> QED  BY <1>0, <1>1, <1>4, <1>5, <1>6, <2>1, <2>2 DEF TypeOK
<1>8. HeldInv'
  <2> SUFFICES ASSUME NEW v \in Consumers, pc'[v] \in Working
               PROVE  /\ held'[v].receipt \in 1..read'
                      /\ held'[v].req = log'[held'[v].receipt].req
                      /\ held'[v].attempt = log'[held'[v].receipt].attempt
                      /\ pc'[v] \in {"publish", "ack"} => made'[v] \in Outputs
                      /\ pc'[v] = "ack" => inbox'[held'[v].req] # <<>>
    BY DEF HeldInv
  <2>1. CASE v = w
    BY <1>1, <1>4, <1>5, <1>6, <2>1
  <2>2. CASE v # w
    BY <1>0, <1>1, <1>2, <1>4, <1>5, <1>6, <2>2, HeldFrame
  <2> QED  BY <2>1, <2>2
<1>9. KeysInv' /\ SentInv'
  BY <1>0, <1>1 DEF KeysInv, SentInv
<1>10. stalls = 0 => \A v \in Consumers : v # w /\ pc[v] \in Working => held[v].receipt # i
  <2> SUFFICES ASSUME stalls = 0, NEW v \in Consumers, pc[v] \in Working
               PROVE  held[v].receipt # i
    OBVIOUS
  <2>1. held[v].receipt \in DOMAIN pel /\ ~pel[held[v].receipt].idle
    BY <1>0 DEF ClaimInv
  <2> QED  BY <1>1, <1>2, <2>1
<1>11. ClaimInv'
  <2> SUFFICES ASSUME stalls = 0, NEW v \in Consumers, pc'[v] \in Working
               PROVE  /\ held'[v].receipt \in DOMAIN pel' /\ ~pel'[held'[v].receipt].idle
                      /\ pel'[held'[v].receipt].count <= held'[v].count
                      /\ \A u \in Consumers :
                           pc'[u] \in Working /\ held'[u].receipt = held'[v].receipt => u = v
    BY <1>1 DEF ClaimInv
  <2>1. CASE v = w
    BY <1>1, <1>3, <1>5, <1>6, <1>10, <2>1
  <2>2. CASE v # w
    <3>1. /\ held[v].receipt \in DOMAIN pel /\ ~pel[held[v].receipt].idle
          /\ pel[held[v].receipt].count <= held[v].count /\ held[v].receipt # i
          /\ \A u \in Consumers : pc[u] \in Working /\ held[u].receipt = held[v].receipt => u = v
      BY <1>0, <1>6, <1>10, <2>2 DEF ClaimInv
    <3> QED  BY <1>3, <1>5, <1>6, <2>2, <3>1
  <2> QED  BY <2>1, <2>2
<1>12. \A r : LiveEntries(r)' = LiveEntries(r)
  <2>1. DOMAIN pel' \cup (read' + 1)..Len(log) = DOMAIN pel \cup (read + 1)..Len(log)
    BY <1>1, <1>2, <1>3
  <2> QED  BY <1>1, <2>1 DEF LiveEntries
<1>13. CopyInv'
  BY <1>0, <1>1, <1>12 DEF CopyInv
<1>14. RunsInv'
  <2> SUFFICES ASSUME stalls = 0, NEW r \in Requests
               PROVE  /\ Attempts(r) = 0 => runs[r] = 0
                      /\ Attempts(r) > 0 => runs[r] <= Base(r) + MaxAttempts
                      /\ \A j \in LiveEntries(r) :
                           /\ j > read' => runs[r] <= Base(r)
                           /\ j \in DOMAIN pel' => runs[r] <= Base(r) + pel'[j].count
                           /\ j \in DOMAIN pel' /\ Starting(j)'
                                => runs[r] <= Base(r) + pel'[j].count - 1
    BY <1>1, <1>12 DEF RunsInv, Attempts, Base
  <2>1. /\ Attempts(r) = 0 => runs[r] = 0
        /\ Attempts(r) > 0 => runs[r] <= Base(r) + MaxAttempts
    BY <1>0 DEF RunsInv
  <2>2. Base(r) \in Int /\ runs[r] \in Nat
    BY <1>0, BaseFacts DEF TypeOK
  <2> SUFFICES ASSUME NEW j \in LiveEntries(r)
               PROVE  /\ j > read' => runs[r] <= Base(r)
                      /\ j \in DOMAIN pel' => runs[r] <= Base(r) + pel'[j].count
                      /\ j \in DOMAIN pel' /\ Starting(j)'
                           => runs[r] <= Base(r) + pel'[j].count - 1
    BY <2>1
  <2>3. j \in Nat
    BY <1>2 DEF LiveEntries
  <2>4. /\ j > read => runs[r] <= Base(r)
        /\ j \in DOMAIN pel => runs[r] <= Base(r) + pel[j].count
        /\ j \in DOMAIN pel /\ Starting(j) => runs[r] <= Base(r) + pel[j].count - 1
    BY <1>0 DEF RunsInv
  <2>5. CASE j = i
    <3>1. \/ i > read
          \/ i \in DOMAIN pel /\ n = pel[i].count + 1 /\ pel[i].count \in Nat
      BY <1>1, <1>2 DEF PelEntry
    <3>2. runs[r] <= Base(r) + n - 1
      BY <1>1, <2>2, <2>4, <2>5, <3>1
    <3> QED  BY <1>1, <1>2, <1>3, <1>4, <2>2, <2>5, <3>2
  <2>6. CASE j # i
    <3>1. Starting(j)' => Starting(j)
      BY <1>5, <1>6, <2>6 DEF Starting
    <3>2. j > read' => j > read
      BY <1>1, <1>2, <2>3
    <3>3. j \in DOMAIN pel' => j \in DOMAIN pel /\ pel'[j] = pel[j]
      BY <1>3, <2>6
    <3> QED  BY <2>4, <3>1, <3>2, <3>3
  <2> QED  BY <2>5, <2>6
<1> QED  BY <1>7, <1>8, <1>9, <1>11, <1>13, <1>14 DEF IInv

\* reclaim and receive hand out an entry.
LEMMA ReceiveIInv ==
  ASSUME IInv, NEW w \in Consumers, Reclaim(w) \/ Receive(w)
  PROVE  IInv'
<1>0. TypeOK
  BY DEF IInv
<1> USE DEF replyVars, callerVars, boundVars
<1>1. CASE Reclaim(w)
  <2>1. OldestIdle \in DOMAIN pel /\ pel[OldestIdle].idle /\ pel[OldestIdle].count \in Nat
        /\ OldestIdle \in 1..Len(log)
    BY <1>0, <1>1, OldestIdleFacts, StreamFacts DEF Reclaim
  <2>2. HandOut(w, OldestIdle, pel[OldestIdle].count + 1, pel[OldestIdle].count + 1)
    <3>1. pc' \in {[pc EXCEPT ![w] = "claimed"], [pc EXCEPT ![w] = "have"]}
      BY <1>1 DEF Reclaim
    <3>2. pel[OldestIdle].count + 1 \in Nat \ {0}
      BY <2>1
    <3> QED  BY <1>1, <2>1, <3>1, <3>2 DEF HandOut, Reclaim
  <2> QED  BY <2>2, HandOutIInv
<1>2. CASE Receive(w)
  <2>1. read + 1 \in 1..Len(log) /\ log[read + 1].attempt \in 1..MaxAttempts /\ MaxAttempts \in Nat
    BY <1>0, <1>2, StreamFacts DEF Receive
  <2>2. /\ FirstCount(read + 1) \in Nat \ {0} /\ log[read + 1].attempt \in Nat
        /\ FirstCount(read + 1) <= log[read + 1].attempt
    BY <2>1 DEF FirstCount
  <2>3. HandOut(w, read + 1, FirstCount(read + 1), log[read + 1].attempt)
    BY <1>2, <2>1, <2>2 DEF HandOut, Receive
  <2> QED  BY <2>3, HandOutIInv
<1> QED  BY <1>1, <1>2

\* Of a step that leaves the stream alone the moving worker, the replies and the
\* runs remain to be shown.
LEMMA QuietIInv ==
  ASSUME IInv, NEW w \in Consumers,
         UNCHANGED <<transport, log, read, pel, dead, caller, answer, stalls, inboxDead>>,
         TypeOK', KeysInv', RunsInv',
         \A v \in Consumers \ {w} : pc'[v] = pc[v] /\ held'[v] = held[v] /\ made'[v] = made[v],
         \A r \in Requests : inbox[r] # <<>> => inbox'[r] # <<>>,
         pc'[w] \in Working =>
           /\ pc[w] \in Working
           /\ held'[w].receipt = held[w].receipt /\ held'[w].req = held[w].req
           /\ held'[w].attempt = held[w].attempt
           /\ stalls = 0 => pel[held[w].receipt].count <= held'[w].count
           /\ pc'[w] \in {"publish", "ack"} => made'[w] \in Outputs
           /\ pc'[w] = "ack" => inbox'[held[w].req] # <<>>
  PROVE  IInv'
<1>0. TypeOK /\ HeldInv /\ SentInv /\ ClaimInv /\ CopyInv /\ read \in Nat
  BY StreamFacts DEF IInv
<1>1. HeldInv'
  <2> SUFFICES ASSUME NEW v \in Consumers, pc'[v] \in Working
               PROVE  /\ held'[v].receipt \in 1..read'
                      /\ held'[v].req = log'[held'[v].receipt].req
                      /\ held'[v].attempt = log'[held'[v].receipt].attempt
                      /\ pc'[v] \in {"publish", "ack"} => made'[v] \in Outputs
                      /\ pc'[v] = "ack" => inbox'[held'[v].req] # <<>>
    BY DEF HeldInv
  <2>1. CASE v = w
    BY <1>0, <2>1 DEF HeldInv
  <2>2. CASE v # w
    BY <1>0, <2>2, HeldFrame
  <2> QED  BY <2>1, <2>2
<1>2. SentInv' /\ CopyInv'
  BY <1>0, CopyFrame DEF SentInv
<1>3. ClaimInv'
  <2> SUFFICES ASSUME stalls = 0, NEW v \in Consumers, pc'[v] \in Working
               PROVE  /\ held'[v].receipt \in DOMAIN pel /\ ~pel[held'[v].receipt].idle
                      /\ pel[held'[v].receipt].count <= held'[v].count
                      /\ \A u \in Consumers :
                           pc'[u] \in Working /\ held'[u].receipt = held'[v].receipt => u = v
    BY DEF ClaimInv
  <2>1. \A u \in Consumers :
          pc'[u] \in Working => pc[u] \in Working /\ held'[u].receipt = held[u].receipt
    OBVIOUS
  <2> QED  BY <1>0, <2>1 DEF ClaimInv
<1> QED  BY <1>0, <1>1, <1>2, <1>3 DEF IInv

\* The steps of a worker between two calls that change the stream.
LEMMA HandlingIInv ==
  ASSUME IInv, NEW w \in Consumers,
         \/ ReadDeliveryCount(w) \/ RunHandler(w) \/ PublishReply(w)
         \/ AcknowledgeFails(w) \/ Crash(w) \/ Restart(w)
  PROVE  IInv'
<1>0. TypeOK /\ HeldInv /\ KeysInv /\ SentInv /\ ClaimInv /\ CopyInv /\ RunsInv
  BY DEF IInv
<1> USE DEF streamVars, replyVars, callerVars, workerVars, boundVars, Working, WorkerSteps
<1>1. pc[w] \in Working => /\ held[w] \in Delivery /\ held[w].receipt \in 1..read
                           /\ held[w].req \in Requests /\ held[w].receipt \in 1..Len(log)
                           /\ held[w].req = log[held[w].receipt].req
                           /\ held[w].attempt = log[held[w].receipt].attempt
                           /\ pc[w] \in {"publish", "ack"} => made[w] \in Outputs
                           /\ pc[w] = "ack" => inbox[held[w].req] # <<>>
                           /\ stalls = 0 => held[w].receipt \in DOMAIN pel
                                            /\ pel[held[w].receipt].count <= held[w].count
  <2>1. read \in Nat /\ Len(log) \in Nat /\ read <= Len(log)
    BY <1>0, StreamFacts
  <2> QED  BY <1>0, <2>1 DEF TypeOK, HeldInv, ClaimInv, Delivery
<1>2. CASE ReadDeliveryCount(w)
  <2> DEFINE i == held[w].receipt
             n == IF i \in DOMAIN pel THEN pel[i].count ELSE log[i].attempt
             d == [receipt |-> i, req |-> log[i].req, attempt |-> log[i].attempt, count |-> n]
  <2>1. pc[w] = "claimed" /\ pc' = [pc EXCEPT ![w] = "have"] /\ held' = [held EXCEPT ![w] = d]
    BY <1>2 DEF ReadDeliveryCount, Hold
  <2>2. n \in Nat /\ log[i].req \in Requests /\ log[i].attempt \in 1..MaxAttempts /\ i \in Nat
    BY <1>0, <1>1, <2>1, StreamFacts DEF PelEntry
  <2>3. /\ d \in Delivery /\ d.receipt = held[w].receipt /\ d.req = held[w].req
        /\ d.attempt = held[w].attempt /\ d.count = n
    BY <1>1, <2>1, <2>2 DEF Delivery
  <2> HIDE DEF d
  <2>4. /\ held' \in [Consumers -> Delivery \cup {NoDelivery}] /\ held'[w] = d
        /\ \A v \in Consumers \ {w} : held'[v] = held[v]
    BY <1>0, <2>1, <2>3 DEF TypeOK
  <2>5. /\ pc' \in [Consumers -> WorkerSteps] /\ pc'[w] = "have"
        /\ \A v \in Consumers \ {w} : pc'[v] = pc[v]
    BY <1>0, <2>1 DEF TypeOK
  <2>6. TypeOK'
    BY <1>0, <1>2, <2>3, <2>4, <2>5 DEF ReadDeliveryCount, TypeOK
  <2>7. \A j : Starting(j)' => Starting(j)
    BY <2>1, <2>3, <2>4, <2>5 DEF Starting
  <2>8. RunsInv' /\ KeysInv'
    BY <1>0, <1>2, <2>7, RunsFrame DEF ReadDeliveryCount, KeysInv
  <2>9. stalls = 0 => pel[held[w].receipt].count <= held'[w].count
    BY <1>1, <2>1, <2>2, <2>3, <2>4
  <2> QED  BY <1>1, <1>2, <2>1, <2>3, <2>4, <2>5, <2>6, <2>8, <2>9, QuietIInv
             DEF ReadDeliveryCount
<1>3. CASE RunHandler(w)
  <2>1. /\ pc[w] = "have" /\ held[w].count <= MaxAttempts /\ held[w].req \in Requests
        /\ runs' = [runs EXCEPT ![held[w].req] = @ + 1]
        /\ pc' \in [Consumers -> WorkerSteps] /\ pc'[w] \in {"publish", "failed"}
        /\ \A v \in Consumers \ {w} : pc'[v] = pc[v]
        /\ UNCHANGED <<transport, log, read, pel, dead, keys, inbox, inboxDead, caller, answer,
                       held, crashes, stalls, ackErrors>>
    <3>1. pc[w] = "have" /\ ~(held[w].count > MaxAttempts)
      BY <1>3 DEF RunHandler, OverLimit
    <3>2. held[w].count \in Nat /\ MaxAttempts \in Nat /\ held[w].req \in Requests
      BY <1>1, <3>1, LimitsAssumption DEF Delivery
    <3>3. held[w].count <= MaxAttempts
      BY <3>1, <3>2
    <3>4. /\ pc' \in [Consumers -> WorkerSteps] /\ pc'[w] \in {"publish", "failed"}
          /\ \A v \in Consumers \ {w} : pc'[v] = pc[v]
      BY <1>0, <1>3 DEF RunHandler, TypeOK
    <3> QED  BY <1>3, <3>1, <3>2, <3>3, <3>4 DEF RunHandler
  <2>2. /\ made' \in [Consumers -> Outputs \cup {NoOutput}]
        /\ \A v \in Consumers \ {w} : made'[v] = made[v]
        /\ pc'[w] = "publish" => made'[w] \in Outputs
    BY <1>0, <1>3 DEF RunHandler, TypeOK
  <2>3. runs' \in [Requests -> Nat]
    BY <1>0, <2>1 DEF TypeOK
  <2>4. TypeOK'
    BY <1>0, <1>1, <2>1, <2>2, <2>3 DEF TypeOK
  <2>5. RunsInv'
    <3> SUFFICES ASSUME stalls = 0, NEW r \in Requests
                 PROVE  /\ Attempts(r) = 0 => runs'[r] = 0
                        /\ Attempts(r) > 0 => runs'[r] <= Base(r) + MaxAttempts
                        /\ \A j \in LiveEntries(r) :
                             /\ j > read => runs'[r] <= Base(r)
                             /\ j \in DOMAIN pel => runs'[r] <= Base(r) + pel[j].count
                             /\ j \in DOMAIN pel /\ Starting(j)'
                                  => runs'[r] <= Base(r) + pel[j].count - 1
      BY <2>1 DEF RunsInv, Attempts, Base, LiveEntries
    <3>1. /\ Attempts(r) = 0 => runs[r] = 0
          /\ Attempts(r) > 0 => runs[r] <= Base(r) + MaxAttempts
          /\ \A j \in LiveEntries(r) :
               /\ j > read => runs[r] <= Base(r)
               /\ j \in DOMAIN pel => runs[r] <= Base(r) + pel[j].count
               /\ j \in DOMAIN pel /\ Starting(j) => runs[r] <= Base(r) + pel[j].count - 1
      BY <1>0 DEF RunsInv
    <3>2. \A j : Starting(j)' => Starting(j)
      BY <2>1 DEF Starting
    <3>3. CASE r # held[w].req
      BY <1>0, <2>1, <3>1, <3>2, <3>3 DEF TypeOK
    <3>4. CASE r = held[w].req
      <4> DEFINE i == held[w].receipt
      <4>1. /\ i \in DOMAIN pel /\ pel[i].count <= held[w].count /\ i \in LiveEntries(r)
            /\ Starting(i) /\ i \in 1..Len(log) /\ log[i].req = r /\ i \in 1..read
        BY <1>1, <2>1, <3>4 DEF LiveEntries, Starting
      <4>2. /\ pel[i].count \in Nat /\ held[w].count \in Nat /\ MaxAttempts \in Nat
            /\ read \in Nat /\ Base(r) \in Int /\ runs[r] \in Nat /\ runs'[r] = runs[r] + 1
        <5>1. pel[i].count \in Nat /\ MaxAttempts \in Nat /\ read \in Nat
          BY <1>0, <4>1, StreamFacts DEF PelEntry
        <5>2. held[w].count \in Nat
          BY <1>1, <2>1 DEF Delivery
        <5>3. Base(r) \in Int
          BY <1>0, BaseFacts
        <5>4. runs[r] \in Nat /\ runs'[r] = runs[r] + 1
          BY <1>0, <2>1, <3>4 DEF TypeOK
        <5> QED  BY <5>1, <5>2, <5>3, <5>4
      <4>3. runs'[r] <= Base(r) + pel[i].count /\ pel[i].count <= MaxAttempts
        <5>1. runs[r] <= Base(r) + pel[i].count - 1
          BY <3>1, <4>1
        <5>2. pel[i].count <= held[w].count /\ held[w].count <= MaxAttempts
          BY <2>1, <4>1
        <5> HIDE DEF i
        <5> QED  BY <4>2, <5>1, <5>2
      <4>4. Attempts(r) # 0
        BY <1>0, <4>1, AttemptsFacts
      <4>5. \A j \in LiveEntries(r) : j = i
        BY <1>0, <4>1 DEF CopyInv
      <4>6. ASSUME NEW j, Starting(j)' PROVE j # i
        <5>1. PICK v \in Consumers : pc'[v] \in {"claimed", "have"} /\ held'[v].receipt = j
          BY <4>6 DEF Starting
        <5>2. v # w /\ pc[v] \in Working /\ held[v].receipt = j
          BY <2>1, <5>1
        <5> QED  BY <1>0, <2>1, <5>2 DEF ClaimInv
      <4> HIDE DEF i
      <4> QED  BY <4>1, <4>2, <4>3, <4>4, <4>5, <4>6
    <3> QED  BY <3>3, <3>4
  <2>6. KeysInv'
    BY <1>0, <2>1 DEF KeysInv
  <2> QED  BY <1>1, <2>1, <2>2, <2>4, <2>5, <2>6, QuietIInv
<1>4. CASE PublishReply(w)
  <2> DEFINE r == held[w].req
             c == made[w]
  <2>1. /\ pc[w] = "publish" /\ r \in Requests /\ c \in Outputs
        /\ pc' = [pc EXCEPT ![w] = "ack"]
        /\ UNCHANGED <<transport, log, read, pel, dead, inboxDead, caller, answer, held, made,
                       runs, crashes, stalls, ackErrors>>
    BY <1>1, <1>4 DEF PublishReply
  <2>2. \/ <<r, c>> \in keys /\ UNCHANGED <<keys, inbox>>
        \/ keys' = keys \cup {<<r, c>>} /\ inbox' = [inbox EXCEPT ![r] = Append(@, c)]
    BY <1>4 DEF PublishReply, Duplicate, ReplyKey
  <2> HIDE DEF r, c
  <2>3. /\ keys' \subseteq Requests \X Outputs /\ inbox' \in [Requests -> Seq(Outputs)]
        /\ inbox'[r] # <<>>
        /\ \A q \in Requests : inbox[q] # <<>> => inbox'[q] # <<>>
        /\ \A q \in Requests, x \in Outputs : <<q, x>> \in keys' => <<q, x>> \in keys \/ q = r
    <3>1. CASE <<r, c>> \in keys /\ UNCHANGED <<keys, inbox>>
      BY <1>0, <2>1, <3>1 DEF TypeOK, KeysInv
    <3>2. CASE keys' = keys \cup {<<r, c>>} /\ inbox' = [inbox EXCEPT ![r] = Append(@, c)]
      <4>1. Append(inbox[r], c) \in Seq(Outputs) /\ Append(inbox[r], c) # <<>>
        <5>1. inbox[r] \in Seq(Outputs)
          BY <1>0, <2>1 DEF TypeOK
        <5> QED  BY <2>1, <5>1, AppendProperties
      <4> QED  BY <1>0, <2>1, <3>2, <4>1 DEF TypeOK
    <3> QED  BY <2>2, <3>1, <3>2
  <2>4. KeysInv'
    BY <1>0, <2>1, <2>3 DEF KeysInv
  <2>5. pc' \in [Consumers -> WorkerSteps] /\ pc'[w] = "ack" /\ \A v \in Consumers \ {w} : pc'[v] = pc[v]
    BY <1>0, <2>1 DEF TypeOK
  <2>6. TypeOK'
    BY <1>0, <1>1, <2>1, <2>3, <2>5 DEF TypeOK
  <2>7. RunsInv'
    BY <1>0, <2>1, <2>5, RunsFrame DEF Starting
  <2> QED  BY <1>1, <2>1, <2>3, <2>4, <2>5, <2>6, <2>7, QuietIInv DEF r, c
<1>5. CASE AcknowledgeFails(w)
  <2>1. /\ pc[w] = "ack" /\ pc' \in [Consumers -> WorkerSteps] /\ pc'[w] = "failed"
        /\ \A v \in Consumers \ {w} : pc'[v] = pc[v]
        /\ UNCHANGED <<transport, log, read, pel, dead, keys, inbox, inboxDead, caller, answer,
                       held, made, runs, crashes, stalls>>
    BY <1>0, <1>5 DEF AcknowledgeFails, TypeOK
  <2>2. ackErrors' \in 0..MaxAckErrors
    BY <1>0, <1>5, LimitsAssumption DEF AcknowledgeFails, TypeOK
  <2>3. TypeOK'
    BY <1>0, <1>1, <2>1, <2>2 DEF TypeOK
  <2>4. RunsInv' /\ KeysInv'
    BY <1>0, <2>1, RunsFrame DEF Starting, KeysInv
  <2> QED  BY <1>1, <2>1, <2>3, <2>4, QuietIInv
<1>6. CASE Crash(w)
  <2>1. /\ pc' \in [Consumers -> WorkerSteps] /\ pc'[w] = "down"
        /\ held' \in [Consumers -> Delivery \cup {NoDelivery}]
        /\ made' \in [Consumers -> Outputs \cup {NoOutput}]
        /\ \A v \in Consumers \ {w} : pc'[v] = pc[v] /\ held'[v] = held[v] /\ made'[v] = made[v]
        /\ UNCHANGED <<transport, log, read, pel, dead, keys, inbox, inboxDead, caller, answer,
                       runs, stalls, ackErrors>>
    BY <1>0, <1>6 DEF Crash, Release, TypeOK
  <2>2. crashes' \in 0..MaxCrashes
    BY <1>0, <1>6, LimitsAssumption DEF Crash, TypeOK
  <2>3. TypeOK'
    BY <1>0, <2>1, <2>2 DEF TypeOK
  <2>4. RunsInv' /\ KeysInv'
    BY <1>0, <2>1, RunsFrame DEF Starting, KeysInv
  <2> QED  BY <2>1, <2>3, <2>4, QuietIInv
<1>7. CASE Restart(w)
  <2>1. /\ pc[w] = "down" /\ pc' \in [Consumers -> WorkerSteps] /\ pc'[w] = "idle"
        /\ \A v \in Consumers \ {w} : pc'[v] = pc[v]
        /\ UNCHANGED <<transport, log, read, pel, dead, keys, inbox, inboxDead, caller, answer,
                       held, made, runs, crashes, stalls, ackErrors>>
    BY <1>0, <1>7 DEF Restart, TypeOK
  <2>2. TypeOK'
    BY <1>0, <2>1 DEF TypeOK
  <2>3. RunsInv' /\ KeysInv'
    BY <1>0, <2>1, RunsFrame DEF Starting, KeysInv
  <2> QED  BY <2>1, <2>2, <2>3, QuietIInv
<1> QED  BY <1>2, <1>3, <1>4, <1>5, <1>6, <1>7

\* A worker that has let go of its delivery.
Released(w) ==
  /\ pc' \in [Consumers -> WorkerSteps] /\ pc'[w] \notin Working
  /\ held' \in [Consumers -> Delivery \cup {NoDelivery}]
  /\ made' \in [Consumers -> Outputs \cup {NoOutput}]
  /\ \A v \in Consumers \ {w} : pc'[v] = pc[v] /\ held'[v] = held[v] /\ made'[v] = made[v]

\* Release lets go of the delivery.
LEMMA ReleaseFacts ==
  ASSUME TypeOK, NEW w \in Consumers, NEW step \in {"idle", "down"}, Release(w, step)
  PROVE  Released(w)
  BY DEF Release, Released, TypeOK, WorkerSteps, Working

\* A worker takes its receipt i from the pending list and may add one entry e
\* of the same task, if the claim was its own whenever copies are counted.
Settled(w, i) ==
  /\ pc[w] \in Working /\ held[w].receipt = i
  /\ pel' = Unclaim(i) /\ Released(w)
  /\ dead' \subseteq Requests
  /\ UNCHANGED <<transport, read, keys, inbox, inboxDead, caller, answer, runs, crashes, stalls,
                 ackErrors>>

\* What a settled delivery means for the other workers.
LEMMA SettledInv ==
  ASSUME IInv, NEW w \in Consumers, NEW i, Settled(w, i), log' \in Seq(Entry), Len(log) <= Len(log'),
         \A j \in 1..Len(log) : log'[j] = log[j]
  PROVE  /\ TypeOK' /\ HeldInv' /\ KeysInv' /\ ClaimInv'
         /\ DOMAIN pel' = DOMAIN pel \ {i}
         /\ \A j \in DOMAIN pel' : pel'[j] = pel[j]
<1>0. TypeOK /\ HeldInv /\ KeysInv /\ ClaimInv
  BY DEF IInv
<1>1. /\ Len(log) \in Nat /\ Len(log') \in Nat /\ read \in Nat /\ read <= Len(log)
      /\ DOMAIN pel \in SUBSET (1..read)
  BY <1>0, StreamFacts, LenProperties
<1>2. /\ DOMAIN pel' = DOMAIN pel \ {i} /\ pel' \in [DOMAIN pel \ {i} -> PelEntry]
      /\ \A j \in DOMAIN pel \ {i} : pel'[j] = pel[j]
  BY <1>0, UnclaimFacts DEF Settled
<1>3. TypeOK'
  <2>1. \E P \in SUBSET (1..read') : pel' \in [P -> [count : Nat \ {0}, idle : BOOLEAN]]
    <3>1. DOMAIN pel \ {i} \in SUBSET (1..read')
      BY <1>1 DEF Settled
    <3> QED  BY <1>2, <3>1 DEF PelEntry
  <2>2. \A v \in Consumers : pc'[v] \in Working => held'[v] \in Delivery
    BY <1>0 DEF TypeOK, Settled, Released
  <2>3. read' \in 0..Len(log')
    BY <1>1 DEF Settled
  <2> QED  BY <1>0, <2>1, <2>2, <2>3 DEF TypeOK, Settled, Released
<1>4. HeldInv'
  <2> SUFFICES ASSUME NEW v \in Consumers, pc'[v] \in Working
               PROVE  /\ held'[v].receipt \in 1..read'
                      /\ held'[v].req = log'[held'[v].receipt].req
                      /\ held'[v].attempt = log'[held'[v].receipt].attempt
                      /\ pc'[v] \in {"publish", "ack"} => made'[v] \in Outputs
                      /\ pc'[v] = "ack" => inbox'[held'[v].req] # <<>>
    BY DEF HeldInv
  <2>1. v # w /\ pc'[v] = pc[v] /\ held'[v] = held[v] /\ made'[v] = made[v]
    BY DEF Settled, Released
  <2>2. \A j \in 1..read : log'[j] = log[j]
    BY <1>1
  <2>3. read' = read /\ inbox' = inbox
    BY DEF Settled
  <2> QED  BY <1>0, <1>1, <2>1, <2>2, <2>3, HeldFrame
<1>5. KeysInv'
  BY <1>0 DEF KeysInv, Settled
<1>6. ClaimInv'
  <2> SUFFICES ASSUME stalls = 0, NEW v \in Consumers, pc'[v] \in Working
               PROVE  /\ held'[v].receipt \in DOMAIN pel' /\ ~pel'[held'[v].receipt].idle
                      /\ pel'[held'[v].receipt].count <= held'[v].count
                      /\ \A u \in Consumers :
                           pc'[u] \in Working /\ held'[u].receipt = held'[v].receipt => u = v
    BY DEF ClaimInv, Settled
  <2>1. /\ v # w /\ pc[v] \in Working /\ held'[v] = held[v]
        /\ \A u \in Consumers : pc'[u] \in Working => pc[u] \in Working /\ held'[u] = held[u]
    BY DEF Settled, Released
  <2>2. held[v].receipt # i
    BY <1>0, <2>1 DEF ClaimInv, Settled
  <2> QED  BY <1>0, <1>2, <2>1, <2>2 DEF ClaimInv
<1> QED  BY <1>2, <1>3, <1>4, <1>5, <1>6

\* A released worker starts nothing.
LEMMA ReleasedStarts ==
  ASSUME NEW w \in Consumers, Released(w), NEW j, Starting(j)'
  PROVE  Starting(j)
  BY DEF Starting, Released, Working

\* An acknowledged or dead-lettered delivery leaves the stream as it is.
LEMMA DropIInv ==
  ASSUME IInv, NEW w \in Consumers, NEW i, Settled(w, i), UNCHANGED log
  PROVE  IInv'
<1>0. TypeOK /\ SentInv /\ CopyInv /\ RunsInv /\ log \in Seq(Entry) /\ Len(log) \in Nat
  BY StreamFacts DEF IInv
<1>1. /\ TypeOK' /\ HeldInv' /\ KeysInv' /\ ClaimInv'
      /\ DOMAIN pel' = DOMAIN pel \ {i}
      /\ \A j \in DOMAIN pel' : pel'[j] = pel[j]
  <2>1. log' \in Seq(Entry) /\ Len(log) <= Len(log') /\ \A j \in 1..Len(log) : log'[j] = log[j]
    BY <1>0
  <2> QED  BY <2>1, SettledInv, Zenon
<1>2. SentInv'
  BY <1>0 DEF SentInv, Settled
<1>3. \A r : LiveEntries(r)' \subseteq LiveEntries(r)
  BY <1>1 DEF LiveEntries, Settled
<1>4. CopyInv'
  BY <1>0, <1>3 DEF CopyInv, Settled
<1>5. \A r : Attempts(r)' = Attempts(r) /\ Base(r)' = Base(r)
  BY DEF Attempts, Base
<1>6. RunsInv'
  <2> SUFFICES ASSUME stalls = 0, NEW r \in Requests
               PROVE  /\ Attempts(r) = 0 => runs[r] = 0
                      /\ Attempts(r) > 0 => runs[r] <= Base(r) + MaxAttempts
                      /\ \A j \in LiveEntries(r)' :
                           /\ j > read => runs[r] <= Base(r)
                           /\ j \in DOMAIN pel' => runs[r] <= Base(r) + pel'[j].count
                           /\ j \in DOMAIN pel' /\ Starting(j)'
                                => runs[r] <= Base(r) + pel'[j].count - 1
    BY <1>5 DEF RunsInv, Settled
  <2>1. \A j : Starting(j)' => Starting(j)
    BY ReleasedStarts DEF Settled
  <2> QED  BY <1>0, <1>1, <1>3, <2>1 DEF RunsInv
<1> QED  BY <1>1, <1>2, <1>4, <1>6 DEF IInv

\* A retried delivery is replaced by one entry with the next attempt.
LEMMA AgainIInv ==
  ASSUME IInv, NEW w \in Consumers, NEW i, Settled(w, i), NEW e \in Entry, log' = Append(log, e),
         NEW r \in Requests, held[w].req = r, e.req = r,
         transport = "memory" => i \in DOMAIN pel, held[w].count < MaxAttempts
  PROVE  IInv'
<1>0. TypeOK /\ HeldInv /\ SentInv /\ ClaimInv /\ CopyInv /\ RunsInv
  BY DEF IInv
<1>1. /\ log' \in Seq(Entry) /\ Len(log') = Len(log) + 1
      /\ \A j \in 1..Len(log) : log'[j] = log[j]
      /\ log'[Len(log) + 1] = e
      /\ \A q \in Requests : Attempts(q)' = IF q = r THEN Attempts(q) + 1 ELSE Attempts(q)
  BY <1>0, AppendFacts
<1>2. /\ Len(log) \in Nat /\ read \in Nat /\ read <= Len(log) /\ DOMAIN pel \subseteq 1..read
      /\ MaxAttempts \in Nat /\ MaxAttempts > 0 /\ \A j \in 1..Len(log) : log[j].req \in Requests
  BY <1>0, StreamFacts
<1>3. /\ TypeOK' /\ HeldInv' /\ KeysInv' /\ ClaimInv'
      /\ DOMAIN pel' = DOMAIN pel \ {i}
      /\ \A j \in DOMAIN pel' : pel'[j] = pel[j]
  <2>1. log' \in Seq(Entry) /\ Len(log) <= Len(log') /\ \A j \in 1..Len(log) : log'[j] = log[j]
    BY <1>1, <1>2
  <2> QED  BY <2>1, SettledInv, Zenon
<1>4. /\ i \in 1..Len(log) /\ log[i].req = r /\ held[w].count \in Nat
      /\ stalls = 0 => i \in DOMAIN pel /\ pel[i].count <= held[w].count
  BY <1>0, <1>2 DEF HeldInv, TypeOK, Settled, Delivery, ClaimInv
<1>5. SentInv'
  <2>1. caller[r] # "new"
    BY <1>0, <1>4 DEF SentInv
  <2>2. \A j \in 1..(Len(log) + 1) : caller[log'[j].req] # "new"
    BY <1>0, <1>1, <1>2, <2>1 DEF SentInv
  <2> QED  BY <1>0, <1>1, <2>2 DEF SentInv, Settled
<1>6. \A q \in Requests : q # r => LiveEntries(q)' \subseteq LiveEntries(q)
  <2> SUFFICES ASSUME NEW q \in Requests, q # r, NEW j \in LiveEntries(q)'
               PROVE  j \in LiveEntries(q)
    OBVIOUS
  <2>1. j \in DOMAIN pel' \cup (read + 1)..(Len(log) + 1) /\ log'[j].req = q
    BY <1>1 DEF LiveEntries, Settled
  <2>2. j # Len(log) + 1
    BY <1>1, <2>1
  <2>3. j \in DOMAIN pel \cup (read + 1)..Len(log) /\ j \in 1..Len(log)
    BY <1>2, <1>3, <2>1, <2>2
  <2> QED  BY <1>1, <2>1, <2>3 DEF LiveEntries
<1>7. \A j \in LiveEntries(r)' : j = Len(log) + 1 \/ (j \in LiveEntries(r) /\ j # i)
  <2> SUFFICES ASSUME NEW j \in LiveEntries(r)', j # Len(log) + 1
               PROVE  j \in LiveEntries(r) /\ j # i
    OBVIOUS
  <2>1. j \in DOMAIN pel' \cup (read + 1)..(Len(log) + 1) /\ log'[j].req = r
    BY <1>1 DEF LiveEntries, Settled
  <2>2. j \in DOMAIN pel \cup (read + 1)..Len(log) /\ j \in 1..Len(log)
    BY <1>2, <1>3, <2>1
  <2>3. i \in 1..read
    BY <1>0 DEF HeldInv, Settled
  <2>4. j # i
    BY <1>2, <1>3, <2>1, <2>3
  <2> QED  BY <1>1, <2>1, <2>2, <2>4 DEF LiveEntries
<1>8. transport = "memory" \/ stalls = 0 => LiveEntries(r)' \subseteq {Len(log) + 1}
  <2> SUFFICES ASSUME transport = "memory" \/ stalls = 0, NEW j \in LiveEntries(r)'
               PROVE  j = Len(log) + 1
    OBVIOUS
  <2>1. i \in LiveEntries(r)
    BY <1>4 DEF LiveEntries
  <2>2. \A k \in LiveEntries(r) : k = i
    BY <1>0, <2>1 DEF CopyInv
  <2> QED  BY <1>7, <2>2
<1>9. CopyInv'
  BY <1>0, <1>6, <1>8 DEF CopyInv, Settled
<1>10. RunsInv'
  <2> SUFFICES ASSUME stalls = 0, NEW q \in Requests
               PROVE  /\ Attempts(q)' = 0 => runs[q] = 0
                      /\ Attempts(q)' > 0 => runs[q] <= Base(q)' + MaxAttempts
                      /\ \A j \in LiveEntries(q)' :
                           /\ j > read => runs[q] <= Base(q)'
                           /\ j \in DOMAIN pel' => runs[q] <= Base(q)' + pel'[j].count
                           /\ j \in DOMAIN pel' /\ Starting(j)'
                                => runs[q] <= Base(q)' + pel'[j].count - 1
    BY DEF RunsInv, Settled
  <2>1. CASE q = r
    <3>1. Attempts(r) \in Nat /\ runs[r] \in Nat /\ Base(r) \in Int /\ i \in LiveEntries(r)
      BY <1>0, <1>4, AttemptsFacts, BaseFacts DEF TypeOK, LiveEntries
    <3>2. Base(r)' = Base(r) + MaxAttempts - 1
      <4>1. Attempts(r)' = Attempts(r) + 1
        BY <1>1
      <4> QED  BY <1>2, <3>1, <4>1 DEF Base
    <3>3. runs[r] <= Base(r) + pel[i].count /\ pel[i].count \in Nat
      BY <1>0, <1>4, <3>1, StreamFacts DEF RunsInv, PelEntry
    <3>4. runs[r] <= Base(r)'
      BY <1>2, <1>4, <3>1, <3>2, <3>3
    <3>5. Len(log) + 1 \notin DOMAIN pel' /\ Attempts(r)' # 0
      BY <1>1, <1>2, <1>3, <3>1
    <3> QED  BY <1>2, <1>8, <2>1, <3>1, <3>2, <3>4, <3>5
  <2>2. CASE q # r
    <3>1. Attempts(q)' = Attempts(q) /\ Base(q)' = Base(q)
      BY <1>1, <2>2 DEF Base
    <3>2. \A j : Starting(j)' => Starting(j)
      BY ReleasedStarts DEF Settled
    <3> QED  BY <1>0, <1>3, <1>6, <2>2, <3>1, <3>2 DEF RunsInv
  <2> QED  BY <2>1, <2>2
<1> QED  BY <1>3, <1>5, <1>9, <1>10 DEF IInv

\* acknowledge and retry.
LEMMA SettleIInv ==
  ASSUME IInv, NEW w \in Consumers, Acknowledge(w) \/ Retry(w)
  PROVE  IInv'
<1>0. TypeOK /\ HeldInv /\ KeysInv /\ RunsInv
  BY DEF IInv
<1> USE DEF replyVars, callerVars, boundVars
<1>1. CASE Acknowledge(w)
  <2>1. Released(w)
    BY <1>0, <1>1, ReleaseFacts DEF Acknowledge
  <2>2. Settled(w, held[w].receipt) /\ UNCHANGED log
    BY <1>0, <1>1, <2>1 DEF Acknowledge, Settled, TypeOK, Working
  <2> QED  BY <2>2, DropIInv
<1>2. CASE Retry(w)
  <2>0. pc[w] \in Working /\ held[w] \in Delivery
    BY <1>0, <1>2 DEF Retry, Working, TypeOK
  <2>1. CASE transport = "memory" /\ held[w].receipt \notin DOMAIN pel
    <3>1. /\ Released(w)
          /\ UNCHANGED <<transport, log, read, pel, dead, keys, inbox, inboxDead, caller, answer,
                         runs, crashes, stalls, ackErrors>>
      BY <1>0, <1>2, <2>1, ReleaseFacts DEF Retry
    <3>2. TypeOK'
      BY <1>0, <3>1 DEF TypeOK, Released
    <3>3. RunsInv'
      BY <1>0, <3>1, RunsFrame, ReleasedStarts
    <3>4. KeysInv'
      BY <1>0, <3>1 DEF KeysInv
    <3> QED  BY <3>1, <3>2, <3>3, <3>4, QuietIInv DEF Released
  <2>2. CASE ~(transport = "memory" /\ held[w].receipt \notin DOMAIN pel)
    <3>1. /\ Released(w) /\ pel' = Unclaim(held[w].receipt) /\ Requeue(held[w])
          /\ UNCHANGED <<transport, read, keys, inbox, inboxDead, caller, answer, runs, crashes,
                         stalls, ackErrors>>
      BY <1>0, <1>2, <2>2, ReleaseFacts DEF Retry
    <3>2. dead' \subseteq Requests
      BY <1>0, <2>0, <3>1 DEF Requeue, TypeOK, Delivery
    <3>3. Settled(w, held[w].receipt)
      BY <2>0, <3>1, <3>2 DEF Settled
    <3>4. CASE UNCHANGED log
      BY <3>3, <3>4, DropIInv
    <3>5. CASE /\ ~(held[w].attempt >= MaxAttempts \/ held[w].count >= MaxAttempts)
               /\ log' = Append(log, [req |-> held[w].req, attempt |-> held[w].attempt + 1])
      <4> DEFINE e == [req |-> held[w].req, attempt |-> held[w].attempt + 1]
      <4>1. /\ held[w].req \in Requests /\ held[w].attempt \in 1..MaxAttempts
            /\ held[w].count \in Nat /\ MaxAttempts \in Nat
        BY <1>0, <2>0, StreamFacts DEF Delivery
      <4>2. held[w].count < MaxAttempts /\ held[w].attempt + 1 \in 1..MaxAttempts
        BY <3>5, <4>1
      <4>3. e \in Entry /\ e.req = held[w].req
        BY <4>1, <4>2 DEF Entry
      <4> HIDE DEF e
      <4>4. log' = Append(log, e)
        BY <3>5 DEF e
      <4> QED  BY <2>2, <3>3, <4>1, <4>2, <4>3, <4>4, AgainIInv
    <3> QED  BY <3>1, <3>4, <3>5 DEF Requeue
  <2> QED  BY <2>1, <2>2
<1> QED  BY <1>1, <1>2

-----------------------------------------------------------------------------
(* The passing of time, and all steps together *)

\* A claim that grows idle is nobody's, or a live worker has stalled.
LEMMA GrowIdleIInv ==
  ASSUME IInv, NEW i \in DOMAIN pel, GrowIdle(i)
  PROVE  IInv'
<1>0. TypeOK /\ HeldInv /\ KeysInv /\ SentInv /\ ClaimInv /\ CopyInv /\ RunsInv
  BY DEF IInv
<1>1. UNCHANGED <<transport, log, read, dead, keys, inbox, inboxDead, caller, answer, pc, held,
                  made, runs, crashes, ackErrors>>
  BY DEF GrowIdle, replyVars, callerVars, workerVars
<1>2. stalls' \in 0..MaxStalls /\ (stalls' = 0 => stalls = 0 /\ ~InHand(i))
  BY <1>0, LimitsAssumption DEF GrowIdle, TypeOK
<1>3. pel \in [DOMAIN pel -> PelEntry] /\ DOMAIN pel \in SUBSET (1..read)
  BY <1>0, StreamFacts
<1>4. /\ pel' \in [DOMAIN pel -> PelEntry] /\ DOMAIN pel' = DOMAIN pel
      /\ pel'[i].count = pel[i].count
      /\ \A j \in DOMAIN pel \ {i} : pel'[j] = pel[j]
  <2> DEFINE c == [pel[i] EXCEPT !.idle = TRUE]
  <2>1. c \in PelEntry /\ c.count = pel[i].count
    BY <1>3 DEF PelEntry
  <2>2. pel' = [pel EXCEPT ![i] = c]
    BY DEF GrowIdle
  <2> HIDE DEF c
  <2> QED  BY <1>3, <2>1, <2>2
<1>5. TypeOK'
  <2>1. \E P \in SUBSET (1..read') : pel' \in [P -> [count : Nat \ {0}, idle : BOOLEAN]]
    BY <1>1, <1>3, <1>4 DEF PelEntry
  <2> QED  BY <1>0, <1>1, <1>2, <2>1 DEF TypeOK
<1>6. HeldInv' /\ KeysInv' /\ SentInv'
  BY <1>0, <1>1 DEF HeldInv, KeysInv, SentInv
<1>7. ClaimInv'
  <2> SUFFICES ASSUME stalls' = 0, NEW v \in Consumers, pc[v] \in Working
               PROVE  /\ held[v].receipt \in DOMAIN pel' /\ ~pel'[held[v].receipt].idle
                      /\ pel'[held[v].receipt].count <= held[v].count
                      /\ \A u \in Consumers :
                           pc[u] \in Working /\ held[u].receipt = held[v].receipt => u = v
    BY <1>1 DEF ClaimInv
  <2>1. held[v].receipt # i
    BY <1>2 DEF InHand
  <2>2. /\ held[v].receipt \in DOMAIN pel /\ ~pel[held[v].receipt].idle
        /\ pel[held[v].receipt].count <= held[v].count
        /\ \A u \in Consumers :
             pc[u] \in Working /\ held[u].receipt = held[v].receipt => u = v
    BY <1>0, <1>2 DEF ClaimInv
  <2> QED  BY <1>4, <2>1, <2>2
<1>8. \A r : LiveEntries(r)' = LiveEntries(r) /\ Attempts(r)' = Attempts(r) /\ Base(r)' = Base(r)
  BY <1>1, <1>4 DEF LiveEntries, Attempts, Base
<1>9. CopyInv'
  BY <1>0, <1>1, <1>2, <1>8 DEF CopyInv
<1>10. RunsInv'
  <2>1. \A j : Starting(j)' => Starting(j)
    BY <1>1 DEF Starting
  <2>2. \A j \in DOMAIN pel : pel'[j].count = pel[j].count
    BY <1>4
  <2> QED  BY <1>0, <1>1, <1>2, <1>4, <1>8, <2>1, <2>2 DEF RunsInv
<1> QED  BY <1>5, <1>6, <1>7, <1>9, <1>10 DEF IInv

\* Every step keeps the invariant.
LEMMA NextIInv == IInv /\ [Next]_vars => IInv'
<1> SUFFICES ASSUME IInv, [Next]_vars PROVE IInv'
  OBVIOUS
<1>1. ASSUME NEW r \in Requests, CallerStep(r) PROVE IInv'
  BY <1>1, PublishRequestIInv, CallerIInv DEF CallerStep
<1>2. ASSUME NEW w \in Consumers, WorkerStep(w) \/ Crash(w) \/ Restart(w) PROVE IInv'
  BY <1>2, ReceiveIInv, HandlingIInv, SettleIInv DEF WorkerStep
<1>3. ASSUME NEW i \in DOMAIN pel, GrowIdle(i) PROVE IInv'
  BY <1>3, GrowIdleIInv
<1>4. CASE UNCHANGED vars
  <2>0. TypeOK /\ HeldInv /\ KeysInv /\ SentInv /\ ClaimInv /\ CopyInv /\ RunsInv
    BY DEF IInv
  <2>1. UNCHANGED <<transport, log, read, pel, dead, keys, inbox, inboxDead, caller, answer, pc,
                    held, made, runs, crashes, stalls, ackErrors>>
    BY <1>4 DEF vars, streamVars, replyVars, callerVars, workerVars, boundVars
  <2>2. TypeOK'
    BY <2>0, <2>1 DEF TypeOK
  <2>3. HeldInv' /\ KeysInv' /\ SentInv'
    BY <2>0, <2>1 DEF HeldInv, KeysInv, SentInv
  <2>4. ClaimInv' /\ CopyInv'
    BY <2>0, <2>1, ClaimFrame, CopyFrame
  <2>5. RunsInv'
    BY <2>0, <2>1, RunsFrame DEF Starting
  <2> QED  BY <2>2, <2>3, <2>4, <2>5 DEF IInv
<1> QED  BY <1>1, <1>2, <1>3, <1>4 DEF Next

\* The inductive invariant holds in every behaviour.
LEMMA Invariance == Spec => []IInv
  BY InitIInv, NextIInv, PTL DEF Spec

-----------------------------------------------------------------------------
(* Theorems *)

\* Type correctness of the stream, its claims, the inboxes and the workers.
THEOREM TypeCorrect == Spec => []TypeOK
<1>1. IInv => TypeOK
  BY DEF IInv
<1> QED  BY <1>1, Invariance, PTL

\* A task has one copy in flight, with the memory transport always and with Redis
\* until a claim of a live worker is taken over, for any number of crashes.
THEOREM SingleCopy == Spec => []OneCopyInFlight
<1>1. IInv => OneCopyInFlight
  <2> SUFFICES ASSUME IInv, transport = "memory" \/ stalls = 0, NEW r \in Requests
               PROVE  Cardinality(LiveEntries(r)) <= 1
    BY DEF OneCopyInFlight
  <2>1. \A i, j \in LiveEntries(r) : i = j
    BY DEF IInv, CopyInv
  <2>2. CASE LiveEntries(r) = {}
    <3>1. Cardinality({}) = 0
      BY FS_EmptySet, Zenon
    <3> QED  BY <2>2, <3>1
  <2>3. CASE LiveEntries(r) # {}
    <3>1. PICK i \in LiveEntries(r) : TRUE
      BY <2>3
    <3>2. LiveEntries(r) = {i}
      BY <2>1, <3>1
    <3>3. Cardinality({i}) = 1
      BY FS_Singleton, Zenon
    <3> QED  BY <3>2, <3>3
  <2> QED  BY <2>2, <2>3
<1> QED  BY <1>1, Invariance, PTL

\* How often a handler can run for one task, in terms of its attempts, as long as
\* no live worker is overtaken: crashes count against the deliveries of the
\* attempt they hit.
THEOREM HandlerRunsBounded == Spec => []RunsBounded
<1>1. IInv => RunsBounded
  BY DEF IInv, RunsInv, Base, RunsBounded
<1> QED  BY <1>1, Invariance, PTL

-----------------------------------------------------------------------------
(* The channel *)

\* A step that changes neither the callers nor the inboxes.
SameCalls == UNCHANGED <<caller, answer, inbox>>

\* It leaves what was sent, answered and ended as it is.
LEMMA CallsFrame ==
  ASSUME SameCalls
  PROVE  UNCHANGED <<SentTasks, Answers, EndedCalls, answer>>
  BY DEF SameCalls, SentTasks, Answers, EndedCalls

\* Tasks are open as long as their live entries are.
LEMMA OpenFrame ==
  ASSUME \A r \in Requests : LiveEntries(r)' # {} <=> LiveEntries(r) # {}
  PROVE  UNCHANGED OpenTasks
  BY DEF OpenTasks

\* Only the live entries of task r change.
LEMMA OpenChange ==
  ASSUME NEW r \in Requests,
         \A q \in Requests \ {r} : LiveEntries(q)' # {} <=> LiveEntries(q) # {}
  PROVE  /\ LiveEntries(r)' # {} => OpenTasks' = OpenTasks \cup {r}
         /\ LiveEntries(r)' = {} => OpenTasks' = OpenTasks \ {r}
  BY DEF OpenTasks

\* The set of answers of a task.
LEMMA AnswersFacts ==
  ASSUME TypeOK, NEW r \in Requests
  PROVE  /\ Answers[r] = ToSet(inbox[r])
         /\ inbox[r] # <<>> => Head(inbox[r]) \in Answers[r] /\ Answers[r] # {}
<1>1. inbox[r] \in Seq(Outputs)
  BY DEF TypeOK
<1>2. inbox[r] # <<>> => Head(inbox[r]) = inbox[r][1] /\ 1 \in DOMAIN inbox[r]
  BY <1>1, LenProperties, EmptySeq
<1> QED  BY <1>2 DEF Answers, ToSet

\* The steps of a caller are steps of the channel.
LEMMA CallerChannel ==
  ASSUME IInv, NEW r \in Requests, CallerStep(r)
  PROVE  Channel!ChannelNext
<1>0. TypeOK /\ SentInv
  BY DEF IInv
<1> USE DEF streamVars, replyVars, workerVars, boundVars
<1>1. CASE PublishRequest(r)
  <2> DEFINE e == [req |-> r, attempt |-> 1]
  <2>1. log' = Append(log, e) /\ e \in Entry /\ e.req = r /\ UNCHANGED <<read, pel>>
    BY <1>1, LimitsAssumption DEF PublishRequest, Entry
  <2> HIDE DEF e
  <2>2. /\ Len(log') = Len(log) + 1 /\ \A i \in 1..Len(log) : log'[i] = log[i]
        /\ log'[Len(log) + 1] = e
    BY <1>0, <2>1, AppendFacts
  <2>3. Len(log) \in Nat /\ read \in Nat /\ read <= Len(log) /\ DOMAIN pel \subseteq 1..read
    BY <1>0, StreamFacts
  <2>4. \A q \in Requests \ {r} : LiveEntries(q)' = LiveEntries(q)
    BY <2>1, <2>2, <2>3 DEF LiveEntries
  <2>5. Len(log) + 1 \in LiveEntries(r)'
    BY <2>1, <2>2, <2>3 DEF LiveEntries
  <2>6. OpenTasks' = OpenTasks \cup {r}
    BY <2>4, <2>5, OpenChange
  <2>7. /\ r \notin SentTasks /\ SentTasks' = SentTasks \cup {r}
        /\ UNCHANGED <<Answers, dead, answer, EndedCalls>>
    BY <1>0, <1>1 DEF PublishRequest, SentTasks, EndedCalls, Answers, TypeOK
  <2> QED  BY <2>6, <2>7 DEF Channel!ChannelNext, Channel!Send
<1>2. CASE TakeReply(r)
  <2>1. UNCHANGED <<Answers, OpenTasks, dead>>
    BY <1>2 DEF TakeReply, Answers, OpenTasks, LiveEntries
  <2>2. r \in SentTasks \ EndedCalls /\ UNCHANGED <<SentTasks, EndedCalls>>
    BY <1>0, <1>2 DEF TakeReply, SentTasks, EndedCalls, TypeOK
  <2>3. answer[r] = NoOutput
    BY <1>0, <1>2 DEF TakeReply, SentInv
  <2>4. Head(inbox[r]) \in Answers[r] /\ answer' = [answer EXCEPT ![r] = Head(inbox[r])]
    BY <1>0, <1>2, AnswersFacts DEF TakeReply
  <2> QED  BY <2>1, <2>2, <2>3, <2>4 DEF Channel!ChannelNext, Channel!Take
<1>3. CASE AckReply(r) \/ AckReplyFails(r) \/ Deadline(r)
  <2> USE DEF AckReply, AckReplyFails, Deadline
  <2>1. UNCHANGED <<Answers, OpenTasks, dead, answer>>
    BY <1>3 DEF Answers, OpenTasks, LiveEntries
  <2>2. r \in SentTasks \ EndedCalls /\ UNCHANGED SentTasks /\ EndedCalls' = EndedCalls \cup {r}
    BY <1>0, <1>3 DEF SentTasks, EndedCalls, TypeOK
  <2> QED  BY <2>1, <2>2 DEF Channel!ChannelNext, Channel!End
<1> QED  BY <1>1, <1>2, <1>3 DEF CallerStep

\* The steps of workers are steps of the channel or leave it alone.
LEMMA WorkerChannel ==
  ASSUME IInv, NEW w \in Consumers, WorkerStep(w) \/ Crash(w) \/ Restart(w)
  PROVE  Channel!ChannelNext \/ UNCHANGED <<SentTasks, OpenTasks, Answers, dead, answer, EndedCalls>>
<1>0. TypeOK /\ HeldInv /\ KeysInv /\ SentInv
  BY DEF IInv
<1>1. /\ Len(log) \in Nat /\ read \in Nat /\ read <= Len(log) /\ DOMAIN pel \subseteq 1..read
      /\ pel \in [DOMAIN pel -> PelEntry]
  BY <1>0, StreamFacts
<1>2. pc[w] \in Working =>
        /\ held[w].receipt \in 1..read /\ held[w].req = log[held[w].receipt].req
        /\ held[w].req \in Requests /\ held[w].req \in SentTasks
  <2> SUFFICES ASSUME pc[w] \in Working
               PROVE  /\ held[w].receipt \in 1..read /\ held[w].req = log[held[w].receipt].req
                      /\ held[w].req \in Requests /\ held[w].req \in SentTasks
    OBVIOUS
  <2>1. held[w].receipt \in 1..read /\ held[w].req = log[held[w].receipt].req
    BY <1>0 DEF HeldInv
  <2>2. held[w].receipt \in 1..Len(log)
    BY <1>1, <2>1
  <2> QED  BY <1>0, <2>1, <2>2, StreamFacts DEF SentInv, SentTasks
<1> USE DEF streamVars, replyVars, callerVars, workerVars, boundVars
<1>3. CASE Reclaim(w) \/ Receive(w)
  <2>1. DOMAIN pel' \cup (read' + 1)..Len(log) = DOMAIN pel \cup (read + 1)..Len(log)
    <3>1. CASE Reclaim(w)
      <4>1. OldestIdle \in DOMAIN pel
        BY <1>0, <3>1, OldestIdleFacts DEF Reclaim
      <4> QED  BY <3>1, <4>1 DEF Reclaim, Claim
    <3>2. CASE Receive(w)
      <4>1. DOMAIN pel' = DOMAIN pel \cup {read + 1} /\ read' = read + 1 /\ read < Len(log)
        BY <3>2 DEF Receive, Claim
      <4> QED  BY <1>1, <4>1
    <3> QED  BY <1>3, <3>1, <3>2
  <2>2. \A r : LiveEntries(r)' = LiveEntries(r)
    BY <1>3, <2>1 DEF LiveEntries, Reclaim, Receive
  <2>3. SameCalls /\ UNCHANGED dead
    BY <1>3 DEF SameCalls, Reclaim, Receive
  <2> QED  BY <2>2, <2>3, CallsFrame, OpenFrame
<1>4. CASE ReadDeliveryCount(w) \/ RunHandler(w) \/ AcknowledgeFails(w) \/ Crash(w) \/ Restart(w)
  <2> USE DEF ReadDeliveryCount, RunHandler, AcknowledgeFails, Crash, Restart
  <2>1. SameCalls /\ UNCHANGED <<log, read, pel, dead>>
    BY <1>4 DEF SameCalls
  <2>2. \A r : LiveEntries(r)' = LiveEntries(r)
    BY <2>1 DEF LiveEntries
  <2> QED  BY <2>1, <2>2, CallsFrame, OpenFrame
<1>5. CASE PublishReply(w)
  <2>1. /\ pc[w] = "publish" /\ pc[w] \in Working /\ made[w] \in Outputs
        /\ UNCHANGED <<log, read, pel, dead, caller, answer>>
    BY <1>0, <1>5 DEF PublishReply, HeldInv, Working
  <2>2. UNCHANGED <<SentTasks, EndedCalls, OpenTasks>>
    BY <2>1 DEF SentTasks, EndedCalls, OpenTasks, LiveEntries
  <2>3. CASE UNCHANGED inbox
    BY <2>1, <2>2, <2>3 DEF Answers
  <2>4. CASE inbox' = [inbox EXCEPT ![held[w].req] = Append(@, made[w])]
    <3> DEFINE r == held[w].req
               c == made[w]
    <3>1. inbox \in [Requests -> Seq(Outputs)] /\ inbox[r] \in Seq(Outputs) /\ r \in Requests
      BY <1>0, <1>2, <2>1 DEF TypeOK
    <3>2. ToSet(Append(inbox[r], c)) = ToSet(inbox[r]) \cup {c}
      <4> DEFINE s == inbox[r]
      <4>1. /\ Len(Append(s, c)) = Len(s) + 1 /\ \A i \in 1..Len(s) : Append(s, c)[i] = s[i]
            /\ Append(s, c)[Len(s) + 1] = c /\ Append(s, c) \in Seq(Outputs)
        BY <2>1, <3>1, AppendProperties
      <4>2. DOMAIN s = 1..Len(s) /\ DOMAIN Append(s, c) = 1..(Len(s) + 1) /\ Len(s) \in Nat
        BY <3>1, <4>1, LenProperties
      <4> HIDE DEF s
      <4>3. ToSet(Append(s, c)) = ToSet(s) \cup {c}
        BY <4>1, <4>2 DEF ToSet
      <4> QED  BY <4>3 DEF s
    <3>3. Answers' = [Answers EXCEPT ![r] = @ \cup {c}]
      BY <2>4, <3>1, <3>2 DEF Answers
    <3> QED  BY <1>2, <2>1, <2>2, <3>1, <3>3 DEF Channel!ChannelNext, Channel!Answer
  <2> QED  BY <1>5, <2>3, <2>4 DEF PublishReply
<1>6. CASE Acknowledge(w)
  <2>1. /\ pc[w] = "ack" /\ pc[w] \in Working /\ pel' = Unclaim(held[w].receipt)
        /\ UNCHANGED <<log, read, dead>> /\ SameCalls
    BY <1>6 DEF Acknowledge, SameCalls, Working
  <2>2. DOMAIN pel' = DOMAIN pel \ {held[w].receipt}
    BY <2>1 DEF Unclaim
  <2>3. \A q \in Requests \ {held[w].req} : LiveEntries(q)' = LiveEntries(q)
    BY <1>1, <1>2, <2>1, <2>2 DEF LiveEntries
  <2>4. \A q \in Requests : LiveEntries(q)' \subseteq LiveEntries(q)
    BY <2>1, <2>2 DEF LiveEntries
  <2> DEFINE r == held[w].req
  <2>5. Answers[r] # {} /\ r \in Requests
    BY <1>0, <1>2, <2>1, AnswersFacts DEF HeldInv
  <2>6. OpenTasks' = OpenTasks \/ (OpenTasks' = OpenTasks \ {r} /\ r \in OpenTasks)
    <3> HIDE DEF r
    <3> QED  BY <2>3, <2>4, <2>5 DEF OpenTasks, r
  <2> QED  BY <2>1, <2>5, <2>6, CallsFrame DEF Channel!ChannelNext, Channel!Settle
<1>7. CASE Retry(w)
  <2>0. pc[w] \in Working /\ SameCalls
    BY <1>7 DEF Retry, SameCalls, Working
  <2>1. CASE UNCHANGED <<pel, log, dead>>
    <3>1. \A r : LiveEntries(r)' = LiveEntries(r)
      BY <1>7, <2>1 DEF LiveEntries, Retry
    <3> QED  BY <2>0, <2>1, <3>1, CallsFrame, OpenFrame
  <2>2. CASE pel' = Unclaim(held[w].receipt) /\ Requeue(held[w])
    <3>1. UNCHANGED read /\ DOMAIN pel' = DOMAIN pel \ {held[w].receipt}
      BY <1>7, <2>2 DEF Retry, Unclaim
    <3>2. CASE dead' = dead \cup {held[w].req} /\ UNCHANGED log
      <4>1. \A q \in Requests \ {held[w].req} : LiveEntries(q)' = LiveEntries(q)
        BY <1>1, <1>2, <2>0, <3>1, <3>2 DEF LiveEntries
      <4>2. \A q \in Requests : LiveEntries(q)' \subseteq LiveEntries(q)
        BY <3>1, <3>2 DEF LiveEntries
      <4> DEFINE r == held[w].req
      <4>3. r \in SentTasks /\ r \in Requests
        BY <1>2, <2>0
      <4>4. OpenTasks' \in {OpenTasks, OpenTasks \ {r}}
        <5> HIDE DEF r
        <5> QED  BY <4>1, <4>2, <4>3 DEF OpenTasks, r
      <4> QED  BY <2>0, <3>2, <4>3, <4>4, CallsFrame DEF Channel!ChannelNext, Channel!Bury
    <3>3. CASE /\ ~(held[w].attempt >= MaxAttempts \/ held[w].count >= MaxAttempts)
               /\ log' = Append(log, [req |-> held[w].req, attempt |-> held[w].attempt + 1])
               /\ UNCHANGED dead
      <4> DEFINE e == [req |-> held[w].req, attempt |-> held[w].attempt + 1]
      <4>1. e \in Entry /\ e.req = held[w].req
        <5>1. held[w].req \in Requests /\ held[w].attempt \in 1..MaxAttempts /\ MaxAttempts \in Nat
          BY <1>0, <2>0, LimitsAssumption DEF TypeOK, Delivery
        <5> QED  BY <3>3, <5>1 DEF Entry
      <4> HIDE DEF e
      <4>2. log' = Append(log, e)
        BY <3>3 DEF e
      <4>3. /\ Len(log') = Len(log) + 1 /\ \A i \in 1..Len(log) : log'[i] = log[i]
            /\ log'[Len(log) + 1] = e
        BY <1>0, <4>1, <4>2, AppendFacts
      <4>4. \A q \in Requests \ {held[w].req} : LiveEntries(q)' = LiveEntries(q)
        BY <1>1, <1>2, <2>0, <3>1, <4>1, <4>3 DEF LiveEntries
      <4>5. Len(log) + 1 \in DOMAIN pel' \cup (read' + 1)..Len(log') /\ log'[Len(log) + 1].req = held[w].req
        BY <1>1, <3>1, <4>1, <4>3
      <4>6. \A q \in Requests : q = held[w].req => Len(log) + 1 \in LiveEntries(q)'
        BY <4>5 DEF LiveEntries
      <4> DEFINE r == held[w].req
      <4>7. r \in SentTasks /\ r \in Requests
        BY <1>2, <2>0
      <4>8. OpenTasks' = OpenTasks \cup {r}
        <5> HIDE DEF r
        <5> QED  BY <4>4, <4>6, <4>7 DEF OpenTasks, r
      <4> QED  BY <2>0, <3>3, <4>7, <4>8, CallsFrame DEF Channel!ChannelNext, Channel!Return
    <3> QED  BY <2>2, <3>2, <3>3 DEF Requeue
  <2> QED  BY <1>7, <2>1, <2>2 DEF Retry
<1> QED  BY <1>3, <1>4, <1>5, <1>6, <1>7 DEF WorkerStep

\* Every step is a step of the channel or leaves it alone.
LEMMA ChannelStep == IInv /\ [Next]_vars => [Channel!ChannelNext]_(Channel!channelVars)
<1> SUFFICES ASSUME IInv, [Next]_vars
             PROVE  Channel!ChannelNext
                      \/ UNCHANGED <<SentTasks, OpenTasks, Answers, dead, answer, EndedCalls>>
  BY DEF Channel!channelVars
<1>1. ASSUME NEW r \in Requests, CallerStep(r) PROVE Channel!ChannelNext
  BY <1>1, CallerChannel
<1>2. ASSUME NEW w \in Consumers, WorkerStep(w) \/ Crash(w) \/ Restart(w)
      PROVE  Channel!ChannelNext
               \/ UNCHANGED <<SentTasks, OpenTasks, Answers, dead, answer, EndedCalls>>
  BY <1>2, WorkerChannel
<1>3. ASSUME NEW i \in DOMAIN pel, GrowIdle(i)
      PROVE  UNCHANGED <<SentTasks, OpenTasks, Answers, dead, answer, EndedCalls>>
  <2>1. DOMAIN pel' = DOMAIN pel /\ UNCHANGED <<log, read, dead>> /\ SameCalls
    BY <1>3 DEF GrowIdle, SameCalls, replyVars, callerVars
  <2>2. \A r : LiveEntries(r)' = LiveEntries(r)
    BY <2>1 DEF LiveEntries
  <2> QED  BY <2>1, <2>2, CallsFrame, OpenFrame
<1>4. CASE UNCHANGED vars
  <2>1. SameCalls /\ UNCHANGED <<log, read, pel, dead>>
    BY <1>4 DEF vars, streamVars, replyVars, callerVars, SameCalls
  <2>2. \A r : LiveEntries(r)' = LiveEntries(r)
    BY <2>1 DEF LiveEntries
  <2> QED  BY <2>1, <2>2, CallsFrame, OpenFrame
<1> QED  BY <1>1, <1>2, <1>3, <1>4 DEF Next

\* The transport implements RequestChannel, with any number of crashes, stalls and
\* failed acknowledgements: at-least-once handling, answers to one's own task,
\* and no task that leaves the channel unanswered and unburied.
THEOREM ChannelImplemented == Spec => ImplementsChannel
<1>1. Init => Channel!ChannelInit
  <2> SUFFICES ASSUME Init PROVE Channel!ChannelInit
    OBVIOUS
  <2>1. SentTasks = {} /\ EndedCalls = {} /\ dead = {} /\ answer = [r \in Requests |-> NoOutput]
    BY DEF Init, SentTasks, EndedCalls
  <2>2. OpenTasks = {}
    BY DEF Init, OpenTasks, LiveEntries
  <2>3. Answers = [r \in Requests |-> {}]
    BY DEF Init, Answers, ToSet
  <2> QED  BY <2>1, <2>2, <2>3 DEF Channel!ChannelInit
<1> QED  BY <1>1, Invariance, ChannelStep, PTL DEF Spec, ImplementsChannel, Channel!ChannelSpec

=============================================================================
