----------------------- MODULE AgentSharedStateProofs -----------------------
(***************************************************************************)
(* Proofs about AgentSharedState for any number of overlapping runs, plan  *)
(* versions and erasures, and any length of the history.  The argument is  *)
(* that of optimistic concurrency: between two erasures the revision of    *)
(* the state only grows, so that a state that still has the revision a run *)
(* has read is the state it has read.                                      *)
(***************************************************************************)
EXTENDS AgentSharedState, SequenceTheorems, TLAPS

-----------------------------------------------------------------------------
(* The inductive invariant *)

\* Nothing has erased the key since run r began.
Undisturbed(r) == since[r] = erasures

\* State s is the present one or an older revision of it.
StillThere(s) ==
  /\ Present
  /\ s.revision <= value.revision
  /\ s.revision = value.revision => s = value

\* A run that is about to write holds a state of the revision it expects.
SeenInv(r) ==
  pc[r] \in {"sync_write", "write"} =>
    /\ seen[r] \in State /\ seen[r].revision = expected[r] /\ Contiguous(seen[r])
    /\ Undisturbed(r) => StillThere(seen[r])

\* The revision a run expects is not ahead of the state.
ExpectedInv(r) ==
  pc[r] \in {"sync_read", "sync_write", "view", "decide", "read", "write"} /\ Undisturbed(r) =>
    Present /\ expected[r] <= value.revision

\* The view of a run was read after the revision the run expects.
ViewInv(r) ==
  pc[r] \in {"decide", "read", "write"} /\ Undisturbed(r) =>
    view[r] \in State /\ expected[r] <= view[r].revision /\ StillThere(view[r])

RunInv(r) == SeenInv(r) /\ ExpectedInv(r) /\ ViewInv(r) /\ since[r] <= erasures

IInv == TypeOK /\ HistoryContiguous /\ \A r \in Runs : RunInv(r)

-----------------------------------------------------------------------------
(* States and their revisions *)

\* A state is present exactly when its revision is a natural number.
LEMMA PresentIsState ==
  ASSUME TypeOK
  PROVE  /\ Present <=> value \in State
         /\ Present => value.revision \in Nat
         /\ ~Present => value = NoValue /\ value.revision = -1
<1>1. NoValue.revision = -1 /\ \A s \in State : s.revision \in Nat
  BY DEF NoValue, State
<1> QED  BY <1>1 DEF TypeOK, Present

\* The slice that Appended takes ends with the new entry and drops at most the
\* oldest ones.
LEMMA AppendedTail ==
  ASSUME NEW h \in Seq(Entry), NEW e \in Entry
  PROVE  LET n == Len(h) + 1
             k == IF n > MaxHistory THEN MaxHistory ELSE n
         IN  /\ Appended(h, e) \in Seq(Entry)
             /\ Len(Appended(h, e)) = k
             /\ \A i \in 1..k : Appended(h, e)[i] = IF i = k THEN e ELSE h[n - k + i]
<1> DEFINE n == Len(h) + 1
           k == IF n > MaxHistory THEN MaxHistory ELSE n
           all == Append(h, e)
           m == IF n > MaxHistory THEN n - MaxHistory + 1 ELSE 1
<1>1. /\ all \in Seq(Entry) /\ Len(all) = n
      /\ \A i \in 1..Len(h) : all[i] = h[i]
      /\ all[n] = e
  BY AppendProperties
<1>2. Len(h) \in Nat /\ n \in Nat /\ n > 0 /\ MaxHistory \in Nat /\ MaxHistory > 0
  BY HistoryAssumption, LenProperties
<1>3. m \in Int /\ n \in Int /\ m >= 1 /\ m <= n /\ n - m + 1 = k /\ k \in Nat
  BY <1>2
<1>4. \A i \in m..n : all[i] \in Entry
  BY <1>1, <1>2, <1>3, ElementOfSeq
<1>5. Appended(h, e) = SubSeq(all, m, n)
  BY <1>1 DEF Appended
<1> HIDE DEF m, k, all, n
<1>6. /\ SubSeq(all, m, n) \in Seq(Entry)
      /\ Len(SubSeq(all, m, n)) = IF m <= n THEN n - m + 1 ELSE 0
      /\ \A i \in 1..(n - m + 1) : SubSeq(all, m, n)[i] = all[m + i - 1]
  BY <1>3, <1>4, SubSeqProperties
<1>7. \A i \in 1..k : m + i - 1 = n - k + i /\ (i # k => n - k + i \in 1..(n - 1))
                       /\ (i = k => n - k + i = n)
  BY <1>2, <1>3
<1>8. n - 1 = Len(h)
  BY <1>2 DEF n
<1>9. \A i \in 1..k : Appended(h, e)[i] = IF i = k THEN e ELSE h[n - k + i]
  <2> SUFFICES ASSUME NEW i \in 1..k
               PROVE  Appended(h, e)[i] = IF i = k THEN e ELSE h[n - k + i]
    OBVIOUS
  <2>1. Appended(h, e)[i] = all[n - k + i]
    BY <1>3, <1>5, <1>6, <1>7
  <2>2. i = k => n - k + i = n
    BY <1>7
  <2>3. i # k => n - k + i \in 1..Len(h)
    BY <1>7, <1>8
  <2> QED  BY <1>1, <2>1, <2>2, <2>3
<1> QED  BY <1>3, <1>5, <1>6, <1>9 DEF n, k

\* The next revision of a state is a state with an unbroken history.
LEMMA NextRevisionState ==
  ASSUME NEW s \in State, Contiguous(s), NEW r \in Runs,
         NEW what \in Actions \cup {"state_initialized", "formal_plan_refreshed"}
  PROVE  LET t == NextRevision(s, r, what)
         IN  t \in State /\ t.revision = s.revision + 1 /\ Contiguous(t)
<1> DEFINE e == [revision |-> s.revision + 1, by |-> r, action |-> what]
           n == Len(s.history) + 1
           k == IF n > MaxHistory THEN MaxHistory ELSE n
           t == NextRevision(s, r, what)
<1>1. s.revision \in Nat /\ s.history \in Seq(Entry) /\ e \in Entry /\ e.revision = s.revision + 1
  BY DEF State, Entry
<1>2. /\ Appended(s.history, e) \in Seq(Entry) /\ Len(Appended(s.history, e)) = k
      /\ \A i \in 1..k : Appended(s.history, e)[i] = IF i = k THEN e ELSE s.history[n - k + i]
  BY <1>1, AppendedTail
<1>3. t \in State /\ t.revision = s.revision + 1 /\ t.history = Appended(s.history, e)
  <2> DEFINE h == Appended(s.history, e)
             w == [s EXCEPT !.revision = @ + 1]
  <2>1. t = [w EXCEPT !.history = h]
    BY DEF NextRevision
  <2>2. h \in Seq(Entry)
    BY <1>2
  <2>3. w \in State /\ w.revision = s.revision + 1
    BY <1>1 DEF State
  <2> HIDE DEF h, w, t
  <2>4. t \in State /\ t.revision = w.revision /\ t.history = h
    BY <2>1, <2>2, <2>3 DEF State
  <2> QED  BY <2>3, <2>4 DEF h
<1>4. /\ n \in Nat /\ n - 1 \in Nat /\ n - 1 > 0 /\ n - 1 <= MaxHistory /\ n - 1 <= s.revision + 1
      /\ n - 1 < MaxHistory => n - 1 = s.revision + 1
      /\ \A i \in 1..(n - 1) : s.history[i].revision + (n - 1 - i) = s.revision
      /\ MaxHistory \in Nat /\ MaxHistory > 0
  BY <1>1, LenProperties, HistoryAssumption DEF Contiguous
<1>5. \A i \in 1..(n - 1) : s.history[i].revision \in Nat
  <2>1. \A i \in 1..Len(s.history) : s.history[i] \in Entry
    BY <1>1, ElementOfSeq
  <2>2. n - 1 = Len(s.history)
    BY <1>1, LenProperties
  <2> QED  BY <2>1, <2>2 DEF Entry
<1>6. k \in Nat /\ k > 0 /\ k <= n /\ k <= MaxHistory /\ (k < MaxHistory => k = n)
      /\ (k # n => k = MaxHistory)
  BY <1>4
<1> HIDE DEF e, n, t, k
<1>7. \A i \in 1..k : t.history[i].revision + (k - i) = t.revision
  <2> TAKE i \in 1..k
  <2>1. CASE i = k
    BY <1>1, <1>2, <1>3, <1>4, <1>6, <2>1
  <2>2. CASE i # k
    <3>1. n - k + i \in 1..(n - 1)
      BY <1>4, <1>6, <2>2
    <3>2. s.history[n - k + i].revision + (n - 1 - (n - k + i)) = s.revision
      BY <1>4, <3>1
    <3>3. s.history[n - k + i].revision \in Nat
      BY <1>5, <3>1
    <3>4. t.history[i] = s.history[n - k + i]
      BY <1>2, <1>3, <2>2
    <3> QED  BY <1>1, <1>3, <1>4, <1>6, <3>2, <3>3, <3>4
  <2> QED  BY <2>1, <2>2
<1>8. Len(t.history) = k
  BY <1>2, <1>3
<1>9. k > 0 /\ k <= MaxHistory /\ k <= t.revision + 1 /\ (k < MaxHistory => k = t.revision + 1)
  BY <1>1, <1>3, <1>4, <1>6
<1>10. Contiguous(t)
  BY <1>7, <1>8, <1>9 DEF Contiguous
<1> QED  BY <1>3, <1>10 DEF t

\* What a refresh writes.
LEMMA RefreshedState ==
  ASSUME NEW s \in State, Contiguous(s), NEW r \in Runs, NEW v \in 1..MaxVersion
  PROVE  LET t == [NextRevision(s, r, "formal_plan_refreshed") EXCEPT !.version = v]
         IN  t \in State /\ t.revision = s.revision + 1 /\ Contiguous(t)
<1> DEFINE u == NextRevision(s, r, "formal_plan_refreshed")
<1>1. u \in State /\ u.revision = s.revision + 1 /\ Contiguous(u)
  BY NextRevisionState
<1> HIDE DEF u
<1> DEFINE t == [u EXCEPT !.version = v]
<1>2. t \in State /\ t.revision = u.revision /\ t.history = u.history
  BY <1>1 DEF State
<1> QED  BY <1>1, <1>2 DEF Contiguous, u

\* What an update writes.
LEMMA UpdatedState ==
  ASSUME NEW s \in State, Contiguous(s), NEW r \in Runs, NEW a \in Actions
  PROVE  LET t == [NextRevision(s, r, a) EXCEPT !.phase = ActionPhase[a]]
         IN  t \in State /\ t.revision = s.revision + 1 /\ Contiguous(t)
<1> DEFINE u == NextRevision(s, r, a)
<1>1. u \in State /\ u.revision = s.revision + 1 /\ Contiguous(u)
  BY NextRevisionState
<1>2. ActionPhase[a] \in Phases
  BY DEF ActionPhase, Actions, Phases
<1> HIDE DEF u
<1> DEFINE t == [u EXCEPT !.phase = ActionPhase[a]]
<1>3. t \in State /\ t.revision = u.revision /\ t.history = u.history
  BY <1>1, <1>2 DEF State
<1> QED  BY <1>1, <1>3 DEF Contiguous, u

\* The state that initialize creates.
LEMMA FreshState ==
  ASSUME TypeOK, NEW r \in Runs
  PROVE  /\ Fresh(r) \in State /\ Fresh(r).revision = 0 /\ Fresh(r).created = erasures
         /\ Contiguous(Fresh(r))
<1> DEFINE e == [revision |-> 0, by |-> r, action |-> "state_initialized"]
<1>1. e \in Entry /\ e.revision = 0
  BY DEF Entry
<1> HIDE DEF e
<1>2. <<e>> \in Seq(Entry) /\ Len(<<e>>) = 1 /\ <<e>>[1] = e
  BY <1>1
<1>3. /\ Fresh(r) \in State /\ Fresh(r).revision = 0 /\ Fresh(r).created = erasures
      /\ Fresh(r).history = <<e>>
  BY <1>2 DEF Fresh, State, TypeOK, Phases, e
<1>4. Contiguous(Fresh(r))
  BY <1>1, <1>2, <1>3, HistoryAssumption DEF Contiguous
<1> QED  BY <1>3, <1>4

-----------------------------------------------------------------------------
(* How the key changes, and what a run can rely on meanwhile *)

\* The four things that can happen to the key: nothing, its erasure, its
\* creation, its next revision.
KeyStep ==
  \/ UNCHANGED <<value, erasures>>
  \/ value' = NoValue /\ erasures' = erasures + 1
  \/ ~Present /\ value' \in State /\ Contiguous(value') /\ erasures' = erasures
  \/ /\ Present /\ value' \in State /\ Contiguous(value')
     /\ value'.revision = value.revision + 1 /\ erasures' = erasures

\* A present key that is not erased moves on to a later revision or stays.
LEMMA KeyGrows ==
  ASSUME TypeOK, KeyStep, Present, erasures' = erasures
  PROVE  /\ Present' /\ value'.revision \in Nat
         /\ value' = value \/ value.revision < value'.revision
<1>1. value \in State /\ value.revision \in Nat /\ erasures \in Nat
  BY PresentIsState DEF TypeOK
<1>2. CASE UNCHANGED <<value, erasures>>
  BY <1>1, <1>2 DEF Present
<1>3. CASE /\ Present /\ value' \in State /\ Contiguous(value')
           /\ value'.revision = value.revision + 1 /\ erasures' = erasures
  BY <1>1, <1>3 DEF Present, NoValue
<1> QED  BY <1>1, <1>2, <1>3 DEF KeyStep

\* A state that was still there is still there, if the key was not erased.
LEMMA StaysThere ==
  ASSUME TypeOK, KeyStep, NEW s \in State, StillThere(s), erasures' = erasures
  PROVE  /\ Present' /\ s.revision <= value'.revision
         /\ s.revision = value'.revision => s = value'
<1>1. /\ Present /\ s.revision <= value.revision /\ (s.revision = value.revision => s = value)
      /\ s.revision \in Nat /\ value.revision \in Nat
  BY PresentIsState DEF StillThere, State
<1> QED  BY <1>1, KeyGrows

\* A run keeps what it relies on while others move.
LEMMA BystanderInv ==
  ASSUME TypeOK, KeyStep, NEW q \in Runs, RunInv(q),
         pc'[q] = pc[q], expected'[q] = expected[q], view'[q] = view[q],
         seen'[q] = seen[q], since'[q] = since[q]
  PROVE  RunInv(q)'
<1>1. since[q] <= erasures /\ since[q] \in Nat /\ erasures \in Nat /\ expected[q] \in Nat
  BY DEF RunInv, TypeOK
<1>2. /\ erasures' \in Nat /\ erasures <= erasures'
      /\ Undisturbed(q)' => Undisturbed(q) /\ erasures' = erasures
  BY <1>1 DEF KeyStep, Undisturbed
<1>3. SeenInv(q)'
  <2>1. CASE pc[q] \in {"sync_write", "write"}
    <3>1. /\ seen[q] \in State /\ seen[q].revision = expected[q] /\ Contiguous(seen[q])
          /\ Undisturbed(q) => StillThere(seen[q])
      BY <2>1 DEF RunInv, SeenInv
    <3>2. Undisturbed(q)' => StillThere(seen[q])'
      BY <1>2, <3>1, StaysThere DEF StillThere
    <3>3. Contiguous(seen[q])'
      BY <3>1 DEF Contiguous
    <3> QED  BY <3>1, <3>2, <3>3 DEF SeenInv
  <2>2. CASE pc[q] \notin {"sync_write", "write"}
    BY <2>2 DEF SeenInv
  <2> QED  BY <2>1, <2>2
<1>4. ExpectedInv(q)'
  <2> SUFFICES ASSUME pc[q] \in {"sync_read", "sync_write", "view", "decide", "read", "write"},
                      Undisturbed(q)'
               PROVE  Present' /\ expected[q] <= value'.revision
    BY DEF ExpectedInv
  <2>1. Present /\ expected[q] <= value.revision /\ erasures' = erasures
    BY <1>2 DEF RunInv, ExpectedInv
  <2>2. value.revision \in Nat
    BY <2>1, PresentIsState
  <2> QED  BY <1>1, <2>1, <2>2, KeyGrows
<1>5. ViewInv(q)'
  <2>1. CASE pc[q] \in {"decide", "read", "write"} /\ Undisturbed(q)'
    <3>1. /\ view[q] \in State /\ expected[q] <= view[q].revision /\ StillThere(view[q])
          /\ erasures' = erasures
      BY <1>2, <2>1 DEF RunInv, ViewInv
    <3>2. StillThere(view[q])'
      BY <3>1, StaysThere DEF StillThere
    <3> QED  BY <3>1, <3>2 DEF ViewInv
  <2>2. CASE ~(pc[q] \in {"decide", "read", "write"} /\ Undisturbed(q)')
    BY <2>2 DEF ViewInv
  <2> QED  BY <2>1, <2>2
<1>6. since'[q] <= erasures'
  BY <1>1, <1>2
<1> QED  BY <1>3, <1>4, <1>5, <1>6 DEF RunInv

-----------------------------------------------------------------------------
(* The steps *)

\* Of a step of run r the key step and the moving run remain to be shown.
LEMMA RunStepInv ==
  ASSUME IInv, NEW r \in Runs, TypeOK', KeyStep, RunInv(r)',
         \A q \in Runs \ {r} :
           /\ pc'[q] = pc[q] /\ expected'[q] = expected[q] /\ view'[q] = view[q]
           /\ seen'[q] = seen[q] /\ since'[q] = since[q]
  PROVE  IInv'
<1>1. HistoryContiguous'
  <2>1. CASE UNCHANGED <<value, erasures>>
    BY <2>1 DEF IInv, HistoryContiguous, Present, Contiguous
  <2>2. CASE value' = NoValue
    BY <2>2 DEF HistoryContiguous, Present
  <2>3. CASE Contiguous(value')
    BY <2>3 DEF HistoryContiguous, Contiguous
  <2> QED  BY <2>1, <2>2, <2>3 DEF KeyStep
<1>2. \A q \in Runs : RunInv(q)'
  BY BystanderInv DEF IInv
<1> QED  BY <1>1, <1>2 DEF IInv

\* The initial state: no key, no run.
LEMMA InitIInv == Init => IInv
<1> SUFFICES ASSUME Init PROVE IInv
  OBVIOUS
<1>1. TypeOK
  <2>1. 1 \in 1..MaxVersion /\ 0 \in 0..MaxErasures
    BY VersionAssumption, ErasureAssumption
  <2>2. "idle" \in RunPc /\ "trip_started" \in Actions
    BY DEF RunPc, Actions
  <2> QED  BY <2>1, <2>2 DEF Init, TypeOK
<1>2. HistoryContiguous
  BY DEF Init, HistoryContiguous, Present
<1>3. \A r \in Runs : RunInv(r)
  BY DEF Init, RunInv, SeenInv, ExpectedInv, ViewInv
<1> QED  BY <1>1, <1>2, <1>3 DEF IInv

\* A refresh or an update puts the next revision of the state the run holds.
LEMMA WriteStep ==
  ASSUME IInv, NEW r \in Runs, pc[r] \in {"sync_write", "write"}, Matches(expected[r]),
         NEW t \in State, t.revision = seen[r].revision + 1, Contiguous(t), value' = t,
         erasures' = erasures
  PROVE  KeyStep /\ Present /\ value'.revision = expected[r] + 1
<1>1. expected[r] \in Nat /\ value.revision = expected[r] /\ seen[r].revision = expected[r]
  BY DEF IInv, TypeOK, Matches, RunInv, SeenInv
<1>2. Present
  BY <1>1, PresentIsState DEF IInv
<1> QED  BY <1>1, <1>2 DEF KeyStep

\* initialize and sync_formal_route_plan keep the invariant.
LEMMA InitializeIInv ==
  ASSUME IInv, NEW r \in Runs,
         \/ Begin(r) \/ InitializeGet(r) \/ InitializeCreate(r) \/ InitializeReread(r)
         \/ SyncRead(r) \/ SyncWrite(r)
  PROVE  IInv'
<1>0. TypeOK /\ HistoryContiguous /\ RunInv(r) /\ erasures \in Nat /\ expected[r] \in Nat
      /\ since[r] \in Nat /\ (Present <=> value \in State) /\ (Present => value.revision \in Nat)
      /\ (~Present => value.revision = -1)
  BY PresentIsState DEF IInv, TypeOK
<1> USE DEF Goto, Ends
<1>1. CASE Begin(r)
  <2>1. TypeOK'
    BY <1>0, <1>1 DEF Begin, TypeOK, RunPc
  <2>2. KeyStep
    BY <1>1 DEF Begin, KeyStep
  <2>3. RunInv(r)'
    BY <1>0, <1>1 DEF Begin, TypeOK, RunInv, SeenInv, ExpectedInv, ViewInv
  <2> QED  BY <1>0, <1>1, <2>1, <2>2, <2>3, RunStepInv DEF Begin, TypeOK
<1>2. CASE InitializeGet(r)
  <2>1. TypeOK'
    BY <1>0, <1>2 DEF InitializeGet, TypeOK, RunPc
  <2>2. KeyStep
    BY <1>2 DEF InitializeGet, KeyStep
  <2>3. RunInv(r)'
    BY <1>0, <1>2 DEF InitializeGet, TypeOK, RunInv, SeenInv, ExpectedInv, ViewInv, Present
  <2> QED  BY <1>0, <1>2, <2>1, <2>2, <2>3, RunStepInv DEF InitializeGet, TypeOK
<1>3. CASE InitializeCreate(r)
  <2>1. Fresh(r) \in State /\ Fresh(r).revision = 0 /\ Contiguous(Fresh(r))
    BY <1>0, FreshState
  <2>2. TypeOK'
    BY <1>0, <1>3, <2>1 DEF InitializeCreate, TypeOK, RunPc
  <2>3. KeyStep
    BY <1>3, <2>1 DEF InitializeCreate, KeyStep
  <2>4. RunInv(r)'
    <3>1. (value' = Fresh(r) /\ expected'[r] = 0 /\ Present') \/ pc'[r] = "reread"
      BY <1>0, <1>3, <2>1 DEF InitializeCreate, TypeOK, Present, NoValue
    <3> QED  BY <1>0, <1>3, <2>1, <3>1
               DEF InitializeCreate, TypeOK, RunInv, SeenInv, ExpectedInv, ViewInv
  <2> QED  BY <1>0, <1>3, <2>2, <2>3, <2>4, RunStepInv DEF InitializeCreate, TypeOK
<1>4. CASE InitializeReread(r)
  <2>1. TypeOK'
    BY <1>0, <1>4 DEF InitializeReread, TypeOK, RunPc
  <2>2. KeyStep
    BY <1>4 DEF InitializeReread, KeyStep
  <2>3. RunInv(r)'
    BY <1>0, <1>4 DEF InitializeReread, TypeOK, RunInv, SeenInv, ExpectedInv, ViewInv, Present
  <2> QED  BY <1>0, <1>4, <2>1, <2>2, <2>3, RunStepInv DEF InitializeReread, TypeOK
<1>5. CASE SyncRead(r)
  <2>1. TypeOK'
    BY <1>0, <1>5 DEF SyncRead, TypeOK, RunPc
  <2>2. KeyStep
    BY <1>5 DEF SyncRead, KeyStep
  <2>3. RunInv(r)'
    <3>1. CASE ~RefreshAllowed(r)
      BY <1>0, <1>5, <3>1 DEF SyncRead, TypeOK, RunInv, SeenInv, ExpectedInv, ViewInv
    <3>2. CASE RefreshAllowed(r)
      <4>1. /\ Present /\ value.revision = expected[r] /\ seen'[r] = value
            /\ Contiguous(value) /\ pc'[r] \in {"view", "sync_write"} /\ Present'
        BY <1>0, <1>5, <3>2 DEF SyncRead, RefreshAllowed, TypeOK, HistoryContiguous, Present
      <4>2. SeenInv(r)'
        BY <1>0, <1>5, <4>1 DEF SyncRead, SeenInv, StillThere, Contiguous
      <4> QED  BY <1>0, <1>5, <4>1, <4>2 DEF SyncRead, RunInv, ExpectedInv, ViewInv
    <3> QED  BY <3>1, <3>2
  <2> QED  BY <1>0, <1>5, <2>1, <2>2, <2>3, RunStepInv DEF SyncRead, TypeOK
<1>6. CASE SyncWrite(r)
  <2>1. CASE ~Matches(expected[r]) /\ UNCHANGED <<value, expected>>
    <3>1. TypeOK'
      BY <1>0, <1>6, <2>1 DEF SyncWrite, TypeOK, RunPc
    <3>2. KeyStep
      BY <1>6, <2>1 DEF SyncWrite, KeyStep
    <3>3. RunInv(r)'
      BY <1>0, <1>6, <2>1 DEF SyncWrite, TypeOK, RunInv, SeenInv, ExpectedInv, ViewInv
    <3> QED  BY <1>0, <1>6, <2>1, <3>1, <3>2, <3>3, RunStepInv DEF SyncWrite, TypeOK
  <2>2. CASE Matches(expected[r])
    <3> DEFINE t == [NextRevision(seen[r], r, "formal_plan_refreshed") EXCEPT !.version = plan[r]]
    <3>1. /\ pc[r] = "sync_write" /\ pc' = [pc EXCEPT ![r] = "view"] /\ value' = t
          /\ expected' = [expected EXCEPT ![r] = @ + 1] /\ erasures' = erasures
      BY <1>6, <2>2 DEF SyncWrite
    <3>2. seen[r] \in State /\ Contiguous(seen[r]) /\ plan[r] \in 1..MaxVersion
      BY <1>0, <3>1 DEF RunInv, SeenInv, TypeOK
    <3>3. t \in State /\ t.revision = seen[r].revision + 1 /\ Contiguous(t)
      BY <3>2, RefreshedState
    <3> HIDE DEF t
    <3>4. KeyStep /\ Present /\ value'.revision = expected[r] + 1
      BY <2>2, <3>1, <3>3, WriteStep
    <3>5. TypeOK'
      BY <1>0, <1>6, <3>1, <3>3 DEF SyncWrite, TypeOK, RunPc
    <3>6. RunInv(r)'
      <4>1. Present' /\ expected'[r] = value'.revision /\ pc'[r] = "view"
        BY <1>0, <3>1, <3>3, <3>4 DEF Present, NoValue, State, TypeOK
      <4> QED  BY <1>0, <1>6, <3>1, <3>3, <4>1
                 DEF SyncWrite, State, RunInv, SeenInv, ExpectedInv, ViewInv
    <3> QED  BY <1>0, <1>6, <3>1, <3>4, <3>5, <3>6, RunStepInv DEF SyncWrite, TypeOK
  <2> QED  BY <1>6, <2>1, <2>2 DEF SyncWrite
<1> QED  BY <1>1, <1>2, <1>3, <1>4, <1>5, <1>6

\* The run and its update keep the invariant.
LEMMA UpdateIInv ==
  ASSUME IInv, NEW r \in Runs,
         ReadView(r) \/ DecideAction(r) \/ UpdateRead(r) \/ UpdateWrite(r) \/ Audit(r) \/ Delete(r)
  PROVE  IInv'
<1>0. TypeOK /\ HistoryContiguous /\ RunInv(r) /\ erasures \in Nat /\ expected[r] \in Nat
      /\ since[r] \in Nat /\ (Present <=> value \in State) /\ (Present => value.revision \in Nat)
      /\ (~Present => value.revision = -1)
  BY PresentIsState DEF IInv, TypeOK
<1> USE DEF Goto, Ends
<1>1. CASE ReadView(r)
  <2>1. TypeOK'
    BY <1>0, <1>1 DEF ReadView, TypeOK, RunPc
  <2>2. KeyStep
    BY <1>1 DEF ReadView, KeyStep
  <2>3. RunInv(r)'
    <3>1. CASE ~Present
      BY <1>0, <1>1, <3>1 DEF ReadView, TypeOK, RunInv, SeenInv, ExpectedInv, ViewInv
    <3>2. CASE Present
      <4>1. pc[r] = "view" /\ pc'[r] = "decide" /\ view'[r] = value /\ Present'
        BY <1>0, <1>1, <3>2 DEF ReadView, TypeOK, Present
      <4>2. Undisturbed(r)' => Undisturbed(r)
        BY <1>1 DEF ReadView, Undisturbed
      <4>3. Undisturbed(r) => expected[r] <= value.revision
        BY <1>0, <4>1 DEF RunInv, ExpectedInv
      <4>4. ViewInv(r)'
        BY <1>0, <1>1, <3>2, <4>1, <4>2, <4>3 DEF ReadView, ViewInv, StillThere
      <4> QED  BY <1>0, <1>1, <4>1, <4>2, <4>3, <4>4 DEF ReadView, RunInv, SeenInv, ExpectedInv
    <3> QED  BY <3>1, <3>2
  <2> QED  BY <1>0, <1>1, <2>1, <2>2, <2>3, RunStepInv DEF ReadView, TypeOK
<1>2. CASE DecideAction(r)
  <2>1. TypeOK'
    BY <1>0, <1>2 DEF DecideAction, TypeOK, RunPc, Actions
  <2>2. KeyStep
    BY <1>2 DEF DecideAction, KeyStep
  <2>3. RunInv(r)'
    <3>1. CASE pc'[r] = "done"
      BY <1>0, <1>2, <3>1 DEF DecideAction, RunInv, SeenInv, ExpectedInv, ViewInv
    <3>2. CASE pc[r] = "decide" /\ pc'[r] = "read"
      BY <1>0, <1>2, <3>2
        DEF DecideAction, RunInv, SeenInv, ExpectedInv, ViewInv, Undisturbed, StillThere, Present
    <3> QED  BY <1>0, <1>2, <3>1, <3>2 DEF DecideAction, TypeOK
  <2> QED  BY <1>0, <1>2, <2>1, <2>2, <2>3, RunStepInv DEF DecideAction, TypeOK
<1>3. CASE UpdateRead(r)
  <2>1. TypeOK'
    BY <1>0, <1>3 DEF UpdateRead, TypeOK, RunPc
  <2>2. KeyStep
    BY <1>3 DEF UpdateRead, KeyStep
  <2>3. RunInv(r)'
    <3>1. CASE ~UpdateAllowed(r)
      BY <1>0, <1>3, <3>1 DEF UpdateRead, TypeOK, RunInv, SeenInv, ExpectedInv, ViewInv
    <3>2. CASE UpdateAllowed(r)
      <4>1. /\ Present /\ value.revision = expected[r] /\ seen'[r] = value /\ Present'
            /\ Contiguous(value) /\ pc[r] = "read" /\ pc'[r] = "write"
        BY <1>0, <1>3, <3>2 DEF UpdateRead, UpdateAllowed, TypeOK, HistoryContiguous, Present
      <4>2. SeenInv(r)'
        BY <1>0, <1>3, <4>1 DEF UpdateRead, SeenInv, StillThere, Contiguous
      <4>3. ExpectedInv(r)' /\ ViewInv(r)'
        BY <1>0, <1>3, <4>1
          DEF UpdateRead, RunInv, ExpectedInv, ViewInv, Undisturbed, StillThere
      <4> QED  BY <1>0, <1>3, <4>2, <4>3 DEF UpdateRead, RunInv
    <3> QED  BY <3>1, <3>2
  <2> QED  BY <1>0, <1>3, <2>1, <2>2, <2>3, RunStepInv DEF UpdateRead, TypeOK
<1>4. CASE UpdateWrite(r)
  <2>1. CASE ~Matches(expected[r]) /\ UNCHANGED <<value, expected>>
    <3>1. TypeOK'
      BY <1>0, <1>4, <2>1 DEF UpdateWrite, TypeOK, RunPc
    <3>2. KeyStep
      BY <1>4, <2>1 DEF UpdateWrite, KeyStep
    <3>3. RunInv(r)'
      BY <1>0, <1>4, <2>1 DEF UpdateWrite, TypeOK, RunInv, SeenInv, ExpectedInv, ViewInv
    <3> QED  BY <1>0, <1>4, <2>1, <3>1, <3>2, <3>3, RunStepInv DEF UpdateWrite, TypeOK
  <2>2. CASE Matches(expected[r])
    <3> DEFINE t == [NextRevision(seen[r], r, action[r]) EXCEPT !.phase = ActionPhase[action[r]]]
    <3>1. /\ pc[r] = "write" /\ pc' = [pc EXCEPT ![r] = "audit"] /\ value' = t
          /\ expected' = [expected EXCEPT ![r] = @ + 1] /\ erasures' = erasures
      BY <1>4, <2>2 DEF UpdateWrite
    <3>2. seen[r] \in State /\ Contiguous(seen[r]) /\ action[r] \in Actions
      BY <1>0, <3>1 DEF RunInv, SeenInv, TypeOK
    <3>3. t \in State /\ t.revision = seen[r].revision + 1 /\ Contiguous(t)
      BY <3>2, UpdatedState
    <3> HIDE DEF t
    <3>4. KeyStep
      BY <2>2, <3>1, <3>3, WriteStep
    <3>5. TypeOK'
      BY <1>0, <1>4, <3>1, <3>3 DEF UpdateWrite, TypeOK, RunPc
    <3>6. RunInv(r)'
      <4>1. pc'[r] = "audit"
        BY <1>0, <3>1 DEF TypeOK
      <4> QED  BY <1>0, <1>4, <4>1 DEF UpdateWrite, RunInv, SeenInv, ExpectedInv, ViewInv
    <3> QED  BY <1>0, <1>4, <3>1, <3>4, <3>5, <3>6, RunStepInv DEF UpdateWrite, TypeOK
  <2> QED  BY <1>4, <2>1, <2>2 DEF UpdateWrite
<1>5. CASE Audit(r)
  <2>1. TypeOK'
    BY <1>0, <1>5 DEF Audit, TypeOK, RunPc
  <2>2. KeyStep
    BY <1>5 DEF Audit, KeyStep
  <2>3. RunInv(r)'
    BY <1>0, <1>5 DEF Audit, TypeOK, RunInv, SeenInv, ExpectedInv, ViewInv
  <2> QED  BY <1>0, <1>5, <2>1, <2>2, <2>3, RunStepInv DEF Audit, TypeOK
<1>6. CASE Delete(r)
  <2>1. erasures' \in 0..MaxErasures /\ erasures <= erasures'
    BY <1>0, <1>6, ErasureAssumption DEF Delete, TypeOK
  <2>2. TypeOK'
    BY <1>0, <1>6, <2>1 DEF Delete, TypeOK, RunPc
  <2>3. KeyStep
    BY <1>0, <1>6 DEF Delete, KeyStep, Present
  <2>4. RunInv(r)'
    BY <1>0, <1>6, <2>1 DEF Delete, TypeOK, RunInv, SeenInv, ExpectedInv, ViewInv
  <2> QED  BY <1>0, <1>6, <2>2, <2>3, <2>4, RunStepInv DEF Delete, TypeOK
<1> QED  BY <1>1, <1>2, <1>3, <1>4, <1>5, <1>6

\* Every step keeps the invariant.
LEMMA NextIInv == IInv /\ [Next]_vars => IInv'
<1> SUFFICES ASSUME IInv, [Next]_vars PROVE IInv'
  OBVIOUS
<1>0. TypeOK /\ \A q \in Runs : RunInv(q)
  BY DEF IInv
<1>1. CASE PublishPlan \/ CompleteTrip
  <2>1. TypeOK'
    <3>1. formal' \in 1..MaxVersion
      BY <1>0, <1>1, VersionAssumption DEF PublishPlan, CompleteTrip, TypeOK
    <3>2. tripDone' \in BOOLEAN
      BY <1>0, <1>1, Zenon DEF PublishPlan, CompleteTrip, TypeOK
    <3>3. UNCHANGED <<value, erasures, runVars>>
      BY <1>1 DEF PublishPlan, CompleteTrip
    <3> QED  BY <1>0, <3>1, <3>2, <3>3 DEF runVars, TypeOK
  <2>2. UNCHANGED <<value, erasures, runVars>>
    BY <1>1 DEF PublishPlan, CompleteTrip
  <2>3. \A q \in Runs : RunInv(q)'
    BY <1>0, <2>2, BystanderInv DEF KeyStep, runVars
  <2>4. HistoryContiguous'
    BY <2>2 DEF IInv, HistoryContiguous, Present, Contiguous
  <2> QED  BY <2>1, <2>3, <2>4 DEF IInv
<1>2. CASE Erase
  <2>1. TypeOK'
    BY <1>0, <1>2, ErasureAssumption DEF Erase, runVars, TypeOK
  <2>2. KeyStep /\ UNCHANGED runVars
    BY <1>2 DEF Erase, KeyStep
  <2>3. \A q \in Runs : RunInv(q)'
    BY <1>0, <2>2, BystanderInv DEF runVars
  <2>4. HistoryContiguous'
    BY <1>2 DEF Erase, HistoryContiguous, Present
  <2> QED  BY <2>1, <2>3, <2>4 DEF IInv
<1>3. ASSUME NEW r \in Runs, RunStep(r) PROVE IInv'
  BY <1>3, InitializeIInv, UpdateIInv DEF RunStep
<1>4. CASE UNCHANGED vars
  <2>1. TypeOK'
    BY <1>0, <1>4 DEF vars, runVars, TypeOK
  <2>2. \A q \in Runs : RunInv(q)'
    BY <1>0, <1>4, BystanderInv DEF KeyStep, vars, runVars
  <2>3. HistoryContiguous'
    BY <1>4 DEF vars, IInv, HistoryContiguous, Present, Contiguous
  <2> QED  BY <2>1, <2>2, <2>3 DEF IInv
<1> QED  BY <1>1, <1>2, <1>3, <1>4 DEF Next

\* The inductive invariant holds in every behaviour.
LEMMA Invariance == Spec => []IInv
  BY InitIInv, NextIInv, PTL DEF Spec

-----------------------------------------------------------------------------
(* Theorems *)

\* Type correctness: a run never stores anything but a state, and never expects
\* a revision that compare_set_json could take for a missing key.
THEOREM TypeCorrect == Spec => []TypeOK
<1>1. IInv => TypeOK
  BY DEF IInv
<1> QED  BY <1>1, Invariance, PTL

\* The history of the stored state is always the unbroken tail of its revisions.
THEOREM HistoryUnbroken == Spec => []HistoryContiguous
<1>1. IInv => HistoryContiguous
  BY DEF IInv
<1> QED  BY <1>1, Invariance, PTL

\* Only the two compare-and-sets with a revision write what a run holds.
LEMMA WriterMatches ==
  ASSUME IInv, Next, NEW r \in Runs, WritesOver(r)
  PROVE  Matches(expected[r]) /\ (pc[r] = "write" => UpdateWrite(r))
<1> USE DEF Goto, Ends
<1>1. TypeOK /\ pc[r] \in {"sync_write", "write"} /\ pc'[r] # pc[r] /\ value' # value
  BY DEF IInv, WritesOver
<1>2. PICK q \in Runs : RunStep(q)
  BY <1>1 DEF Next, PublishPlan, CompleteTrip, Erase, runVars
<1>3. q = r
  BY <1>1, <1>2 DEF TypeOK, RunStep, Begin, InitializeGet, InitializeCreate, InitializeReread,
    SyncRead, SyncWrite, ReadView, DecideAction, UpdateRead, UpdateWrite, Audit, Delete
<1>4. SyncWrite(r) \/ UpdateWrite(r)
  BY <1>1, <1>2, <1>3 DEF TypeOK, RunStep, Begin, InitializeGet, InitializeCreate,
    InitializeReread, SyncRead, ReadView, DecideAction, UpdateRead, Audit, Delete
<1> QED  BY <1>1, <1>4 DEF SyncWrite, UpdateWrite

\* A run that writes replaces exactly the state it has read, unless the key was
\* erased during the run: compare_set_json loses no update.
THEOREM LostUpdateFree == Spec => NoLostUpdate
<1>1. ASSUME IInv, [Next]_vars
      PROVE  [\A r \in Runs : WritesOver(r) /\ since[r] = erasures => value = seen[r]]_vars
  <2> SUFFICES ASSUME Next, NEW r \in Runs, WritesOver(r), since[r] = erasures
               PROVE  value = seen[r]
    BY <1>1
  <2>1. pc[r] \in {"sync_write", "write"} /\ value.revision = expected[r]
    BY <1>1, WriterMatches DEF WritesOver, Matches
  <2>2. seen[r].revision = expected[r] /\ StillThere(seen[r])
    BY <1>1, <2>1 DEF IInv, RunInv, SeenInv, Undisturbed
  <2> QED  BY <2>1, <2>2 DEF StillThere
<1> QED  BY <1>1, Invariance, PTL DEF Spec, NoLostUpdate

\* The update of a run goes through only on the state its decisions were based
\* on: the revision it expects is older than its view, and no older revision
\* can be the present one.
THEOREM DecisionsCurrent == Spec => DecidedOnPresentState
<1>1. ASSUME IInv, [Next]_vars
      PROVE  [\A r \in Runs : pc[r] = "write" /\ pc'[r] = "audit" /\ since[r] = erasures
                => value = view[r]]_vars
  <2> SUFFICES ASSUME Next, NEW r \in Runs, pc[r] = "write", pc'[r] = "audit",
                      since[r] = erasures
               PROVE  value = view[r]
    BY <1>1
  <2>1. TypeOK /\ expected[r] \in Nat
    BY <1>1 DEF IInv, TypeOK
  <2>2. PICK q \in Runs : RunStep(q)
    BY DEF Next, PublishPlan, CompleteTrip, Erase, runVars
  <2>3. Matches(expected[r])
    BY <2>1, <2>2 DEF TypeOK, Goto, Ends, RunStep, Begin, InitializeGet, InitializeCreate,
      InitializeReread, SyncRead, SyncWrite, ReadView, DecideAction, UpdateRead, UpdateWrite,
      Audit, Delete
  <2>4. /\ view[r] \in State /\ expected[r] <= view[r].revision
        /\ Present /\ view[r].revision <= value.revision
        /\ view[r].revision = value.revision => view[r] = value
    BY <1>1 DEF IInv, RunInv, ViewInv, Undisturbed, StillThere
  <2>5. view[r].revision \in Nat /\ value.revision = expected[r]
    BY <2>3, <2>4 DEF State, Matches
  <2> QED  BY <2>1, <2>4, <2>5
<1> QED  BY <1>1, Invariance, PTL DEF Spec, DecidedOnPresentState

\* What was purged or has expired comes back only as a fresh state: no write of a
\* run that still holds an old one matches the missing key.
THEOREM ErasedStaysErased == Spec => NoResurrection
<1>1. ASSUME IInv, [Next]_vars
      PROVE  [~Present /\ value' # NoValue
                => value'.revision = 0 /\ value'.created = erasures]_value
  <2> SUFFICES ASSUME Next, ~Present, value' # NoValue
               PROVE  value'.revision = 0 /\ value'.created = erasures
    BY <1>1 DEF vars
  <2>1. TypeOK /\ value = NoValue /\ value.revision = -1
    BY <1>1, PresentIsState DEF IInv
  <2>2. PICK r \in Runs : RunStep(r)
    BY <2>1 DEF Next, PublishPlan, CompleteTrip, Erase
  <2>3. ~Matches(expected[r])
    BY <2>1 DEF Matches, TypeOK
  <2>4. value' = Fresh(r)
    BY <2>1, <2>2, <2>3 DEF RunStep, Begin, InitializeGet, InitializeCreate,
      InitializeReread, SyncRead, SyncWrite, ReadView, DecideAction, UpdateRead, UpdateWrite,
      Audit, Delete
  <2> QED  BY <2>1, <2>4, FreshState
<1> QED  BY <1>1, Invariance, PTL DEF Spec, NoResurrection

=============================================================================
