------------------------ MODULE PlanVersioningProofs ------------------------
(***************************************************************************)
(* Proofs about PlanVersioning for any number of patches, requests, events *)
(* and replans: the versions form the chain of PlanChain.  The argument is *)
(* that of the unique constraint: since all versions up to the newest have *)
(* been made, a version that is free and follows an existing one can only  *)
(* follow the newest, whatever its writer had read before; and once it is  *)
(* inserted nobody else inserts one before the commit or the rollback.  The *)
(* trip, the decisions of the user and the patches of an event have an     *)
(* invariant of their own each, on top of that of the chain.               *)
(***************************************************************************)
EXTENDS PlanVersioning, TLAPS

-----------------------------------------------------------------------------
(* Inserts and applications *)

\* A new patch against an existing version extends no version and is a proposal
\* of the chain.
LEMMA InsertStep ==
  ASSUME TypeOK, VersionsMade, NEW p \in Patches, NEW v \in 1..latest,
         NEW e \in Events \cup {NoEvent}, NEW k \in Risk, Insert(p, v, e, k),
         UNCHANGED <<latest, madeBy>>
  PROVE  /\ base' \in [Patches -> Nat] /\ status' \in [Patches -> Status]
         /\ source' \in [Patches -> Events \cup {NoEvent}] /\ risk' \in [Patches -> Risk]
         /\ VersionsMade'
         /\ \A q \in Patches : base[q] # 0 => base'[q] # 0
         /\ Chain!Propose(p)
<1>1. latest \in Nat /\ v \in Nat /\ v # 0 /\ v <= latest
  BY DEF TypeOK
<1>2. /\ base[p] = 0 /\ base' = [base EXCEPT ![p] = v]
      /\ status' = [status EXCEPT ![p] = "pending"]
      /\ source' = [source EXCEPT ![p] = e] /\ risk' = [risk EXCEPT ![p] = k]
  BY DEF Insert
<1>3. base' \in [Patches -> Nat] /\ base'[p] = v
  BY <1>1, <1>2 DEF TypeOK
<1>4. VersionsMade'
  BY <1>1, <1>2, <1>3 DEF TypeOK, VersionsMade
<1>5. Chain!Propose(p)
  BY <1>1, <1>2, <1>3 DEF Chain!Propose
<1> QED  BY <1>2, <1>3, <1>4, <1>5 DEF TypeOK, Status

\* A version that is free and follows an existing one follows the newest.
LEMMA FreeFollowsNewest ==
  ASSUME TypeOK, VersionsMade, NEW p \in Patches, VersionFree(base[p] + 1)
  PROVE  base[p] = latest /\ madeBy[p] = 0
<1>1. latest \in Nat /\ base[p] \in Nat /\ base[p] <= latest /\ base[p] + 1 > 1
  BY DEF TypeOK, VersionsMade, VersionFree
<1>2. base[p] + 1 \notin 2..latest
  BY DEF VersionsMade, VersionFree
<1> QED  BY <1>1, <1>2 DEF VersionsMade, VersionFree

\* The commit of the version that was inserted after the newest makes the next
\* version of the chain, a rollback none; no trip goes beyond the newest one.
LEMMA ApplyStep ==
  ASSUME TypeOK, VersionsMade, trip <= latest, NEW p \in Patches, base[p] = latest,
         Apply(p), UNCHANGED base
  PROVE  /\ latest' \in Nat /\ madeBy' \in [Patches -> Nat]
         /\ status' \in [Patches -> Status] /\ trip' \in Nat
         /\ VersionsMade' /\ trip' <= latest' /\ latest <= latest'
         /\ Chain!Publish(p) \/ UNCHANGED <<latest, madeBy, base>>
<1>1. CASE Advance(p)
  <2>1. base[p] = latest /\ madeBy[p] = 0 /\ latest \in Nat /\ latest >= 1
    BY DEF TypeOK, VersionsMade
  <2>2. /\ latest' = latest + 1 /\ madeBy' = [madeBy EXCEPT ![p] = latest + 1]
        /\ status' = [status EXCEPT ![p] = "accepted"]
        /\ trip' = IF p \in selected THEN latest + 1 ELSE trip
    BY <1>1, <2>1 DEF Advance
  <2>3. madeBy' \in [Patches -> Nat] /\ madeBy'[p] = latest + 1
    BY <2>1, <2>2 DEF TypeOK
  <2>4. \A q \in Patches : q # p => madeBy'[q] = madeBy[q]
    BY <2>2 DEF TypeOK
  <2>5. \A v \in 2..latest' : \E q \in Patches : madeBy'[q] = v
    <3> TAKE v \in 2..latest'
    <3>1. CASE v = latest + 1
      BY <2>3, <3>1
    <3>2. CASE v # latest + 1
      <4>1. v \in 2..latest
        BY <2>1, <2>2, <3>2
      <4>2. PICK q \in Patches : madeBy[q] = v
        BY <4>1 DEF VersionsMade
      <4> QED  BY <2>1, <2>4, <4>1, <4>2
    <3> QED  BY <3>1, <3>2
  <2>6. \A q \in Patches :
          /\ base'[q] <= latest' /\ madeBy'[q] <= latest'
          /\ madeBy'[q] # 0 => base'[q] # 0 /\ madeBy'[q] = base'[q] + 1
    BY <2>1, <2>2, <2>3, <2>4 DEF TypeOK, VersionsMade
  <2>7. VersionsMade'
    BY <2>1, <2>2, <2>5, <2>6 DEF VersionsMade
  <2>8. Chain!Publish(p)
    BY <2>1, <2>2 DEF Chain!Publish
  <2> QED  BY <2>1, <2>2, <2>3, <2>7, <2>8 DEF TypeOK, Status
<1>2. CASE UNCHANGED <<latest, madeBy, status, trip>>
  <2>1. VersionsMade'
    BY <1>2 DEF VersionsMade
  <2> QED  BY <1>2, <2>1 DEF TypeOK, Status
<1> QED  BY <1>1, <1>2 DEF Apply

-----------------------------------------------------------------------------
(* The invariant *)

IInv == TypeOK /\ ChainInv

\* The part of it that does not depend on the other transactions.
Basics == TypeOK /\ VersionsMade /\ ReadsExist /\ PatchesExist /\ BudgetLeft

\* The initial state has one version and nothing else.
LEMMA InitIInv == Init => IInv
<1> SUFFICES ASSUME Init PROVE IInv
  OBVIOUS
<1>1. Unseen \in Risk
  BY DEF Unseen, Risk
<1>2. TypeOK
  <2>1. /\ optIn \in BOOLEAN /\ openedLate \in BOOLEAN
        /\ automatic \subseteq Patches /\ selected \subseteq Patches
    BY DEF Init
  <2>2. /\ latest \in Nat /\ madeBy \in [Patches -> Nat] /\ base \in [Patches -> Nat]
        /\ status \in [Patches -> Status] /\ source \in [Patches -> Events \cup {NoEvent}]
        /\ risk \in [Patches -> Risk] /\ trip \in Nat /\ count \in 0..MaxReplans
    BY <1>1, ReplanAssumption DEF Init, Status
  <2> QED  BY <1>1, <2>1, <2>2, ReplanAssumption DEF Init, TypeOK, Status
<1>3. ChainInv
  BY DEF Init, ChainInv, VersionsMade, ReadsExist, PatchesExist, BudgetLeft, InsertAlone,
         InFlight, At
<1> QED  BY <1>2, <1>3 DEF IInv

\* Every request of the user keeps this part.
LEMMA UserStepBasics ==
  ASSUME IInv, NEW u \in Users, UserStep(u)
  PROVE  Basics'
<1> USE DEF planVars, patchVars, tripVars, userVars, runVars
<1>0. TypeOK /\ VersionsMade /\ ReadsExist /\ PatchesExist /\ BudgetLeft
      /\ trip <= latest /\ latest \in Nat /\ latest >= 1
  BY DEF IInv, ChainInv, TypeOK, VersionsMade, ReadsExist, InsertAlone
<1>1. CASE WriteRead(u) \/ OpenRead(u)
  <2>1. TypeOK'
    BY <1>0, <1>1 DEF WriteRead, OpenRead, UserGoto, TypeOK
  <2>2. VersionsMade' /\ BudgetLeft'
    BY <1>0, <1>1 DEF WriteRead, OpenRead, VersionsMade, BudgetLeft
  <2>3. ReadsExist'
    BY <1>0, <1>1 DEF WriteRead, OpenRead, UserGoto, ReadsExist, TypeOK
  <2>4. PatchesExist'
    BY <1>0, <1>1 DEF WriteRead, OpenRead, UserGoto, PatchesExist, TypeOK
  <2> QED  BY <2>1, <2>2, <2>3, <2>4 DEF Basics
<1>2. ASSUME NEW p \in Patches, WriteInsert(u, p) PROVE Basics'
  <2>1. userPc[u] = "write" /\ userBase[u] \in 1..latest
    BY <1>0, <1>2 DEF WriteInsert, UserGoto, ReadsExist
  <2>2. Unseen \in Risk /\ Insert(p, userBase[u], NoEvent, Unseen)
    BY <1>2 DEF Unseen, Risk, WriteInsert
  <2>3. /\ base' \in [Patches -> Nat] /\ status' \in [Patches -> Status]
        /\ source' \in [Patches -> Events \cup {NoEvent}] /\ risk' \in [Patches -> Risk]
        /\ VersionsMade' /\ \A q \in Patches : base[q] # 0 => base'[q] # 0
    BY <1>0, <1>2, <2>1, <2>2, InsertStep DEF WriteInsert
  <2>4. TypeOK'
    BY <1>0, <1>2, <2>3 DEF WriteInsert, UserGoto, TypeOK
  <2>5. ReadsExist' /\ BudgetLeft'
    BY <1>0, <1>2 DEF WriteInsert, UserGoto, ReadsExist, BudgetLeft, TypeOK
  <2>6. PatchesExist'
    BY <1>0, <1>2, <2>3 DEF WriteInsert, UserGoto, PatchesExist, TypeOK
  <2> QED  BY <2>3, <2>4, <2>5, <2>6 DEF Basics
<1>3. ASSUME NEW p \in Patches, Reject(u, p) PROVE Basics'
  <2>1. TypeOK'
    BY <1>0, <1>3 DEF Reject, UserGoto, TypeOK, Status
  <2>2. VersionsMade' /\ BudgetLeft' /\ ReadsExist'
    BY <1>0, <1>3 DEF Reject, UserGoto, VersionsMade, BudgetLeft, ReadsExist, TypeOK
  <2>3. PatchesExist'
    BY <1>0, <1>3 DEF Reject, UserGoto, PatchesExist, TypeOK
  <2> QED  BY <2>1, <2>2, <2>3 DEF Basics
<1>6. ASSUME NEW p \in Patches, AcceptRead(u, p) PROVE Basics'
  <2>1. userPc'[u] = "validate" => base[p] = latest
    BY <1>0, <1>6 DEF AcceptRead, UserGoto, TypeOK
  <2>2. TypeOK'
    BY <1>0, <1>6 DEF AcceptRead, UserGoto, TypeOK
  <2>3. VersionsMade' /\ BudgetLeft' /\ ReadsExist'
    BY <1>0, <1>6 DEF AcceptRead, UserGoto, VersionsMade, BudgetLeft, ReadsExist, TypeOK
  <2>4. PatchesExist'
    BY <1>0, <1>6, <2>1 DEF AcceptRead, UserGoto, PatchesExist, TypeOK
  <2> QED  BY <2>2, <2>3, <2>4 DEF Basics
<1>4. CASE AcceptCommit(u)
  <2>1. userPatch[u] \in Patches /\ Apply(userPatch[u])
    BY <1>0, <1>4 DEF AcceptCommit, UserGoto, PatchesExist
  <2>0. base[userPatch[u]] = latest
    BY <1>4, <2>1 DEF AcceptCommit, UserGoto, IInv, ChainInv, InsertAlone, InFlight, At
  <2>2. /\ latest' \in Nat /\ madeBy' \in [Patches -> Nat]
        /\ status' \in [Patches -> Status] /\ trip' \in Nat
        /\ VersionsMade' /\ trip' <= latest' /\ latest <= latest'
    BY <1>0, <1>4, <2>0, <2>1, ApplyStep DEF AcceptCommit
  <2>3. TypeOK'
    BY <1>0, <1>4, <2>2 DEF AcceptCommit, UserGoto, TypeOK
  <2>4. ReadsExist'
    BY <1>0, <1>4, <2>2 DEF AcceptCommit, UserGoto, ReadsExist, TypeOK
  <2>5. PatchesExist' /\ BudgetLeft'
    BY <1>0, <1>4 DEF AcceptCommit, UserGoto, PatchesExist, BudgetLeft, TypeOK
  <2> QED  BY <2>2, <2>3, <2>4, <2>5 DEF Basics
<1>7. CASE AcceptSelect(u)
  <2>1. /\ userPatch[u] \in Patches /\ userPc[u] = "validate"
        /\ \/ userPc' = [userPc EXCEPT ![u] = "commit"]
           \/ userPc' = [userPc EXCEPT ![u] = "done"]
        /\ UNCHANGED <<latest, madeBy, automatic, base, source, risk, tripVars, userPatch,
                       userBase, runVars>>
    BY <1>0, <1>7 DEF AcceptSelect, UserGoto, PatchesExist
  <2>2. status' \in [Patches -> Status] /\ selected' \subseteq Patches
    BY <1>0, <1>7, <2>1 DEF AcceptSelect, SelectTrips, Refuse, TypeOK, Status
  <2>3. TypeOK'
    BY <1>0, <2>1, <2>2 DEF TypeOK
  <2>4. VersionsMade' /\ ReadsExist' /\ PatchesExist' /\ BudgetLeft'
    BY <1>0, <2>1 DEF VersionsMade, ReadsExist, PatchesExist, BudgetLeft, TypeOK
  <2> QED  BY <2>3, <2>4 DEF Basics
<1>5. CASE OpenInsert(u)
  <2>1. userPc[u] = "open" /\ userBase[u] \in 1..latest /\ trip' = userBase[u]
    BY <1>0, <1>5 DEF OpenInsert, UserGoto, ReadsExist
  <2>2. TypeOK'
    BY <1>0, <1>5, <2>1 DEF OpenInsert, UserGoto, TypeOK
  <2>3. VersionsMade' /\ BudgetLeft'
    BY <1>0, <1>5 DEF OpenInsert, VersionsMade, BudgetLeft
  <2>4. ReadsExist'
    BY <1>0, <1>5, <2>1 DEF OpenInsert, UserGoto, ReadsExist, TypeOK
  <2>5. PatchesExist'
    BY <1>0, <1>5 DEF OpenInsert, UserGoto, PatchesExist, TypeOK
  <2> QED  BY <2>2, <2>3, <2>4, <2>5 DEF Basics
<1> QED  BY <1>1, <1>2, <1>3, <1>4, <1>5, <1>6, <1>7 DEF UserStep

\* Every step of a replan keeps this part.
LEMMA RunStepBasics ==
  ASSUME IInv, NEW r \in Runs, RunStep(r)
  PROVE  Basics'
<1> USE DEF planVars, patchVars, tripVars, userVars
<1>0. TypeOK /\ VersionsMade /\ ReadsExist /\ PatchesExist /\ BudgetLeft
      /\ trip <= latest /\ latest \in Nat /\ latest >= 1 /\ trip \in Nat
  BY DEF IInv, ChainInv, TypeOK, VersionsMade, ReadsExist, InsertAlone
<1>1. CASE Load(r)
  <2>1. TypeOK'
    BY <1>0, <1>1 DEF Load, RunGoto, TypeOK
  <2>2. ReadsExist'
    BY <1>0, <1>1 DEF Load, RunGoto, ReadsExist, TypeOK
  <2>3. VersionsMade' /\ PatchesExist' /\ BudgetLeft'
    BY <1>0, <1>1 DEF Load, RunGoto, VersionsMade, PatchesExist, BudgetLeft, TypeOK
  <2> QED  BY <2>1, <2>2, <2>3 DEF Basics
<1>2. CASE Propose(r)
  <2>1. \A p \in Earlier(r) : p \in Patches /\ (runTrip[r] # 0 => base[p] # 0)
    BY DEF Earlier
  <2>2. runPc[r] = "propose" /\ runTrip[r] # 0
    BY <1>0, <1>2 DEF Propose, RunGoto, ReadsExist
  <2>3. TypeOK'
    <3>1. UNCHANGED <<planVars, patchVars, tripVars, userVars, runTrip, runCount, copy,
                      redeliveries>>
      BY <1>2 DEF Propose
    <3>2. \/ runPc' = [runPc EXCEPT ![r] = "done"]
          \/ runPc' = [runPc EXCEPT ![r] = "solve"]
          \/ runPc' = [runPc EXCEPT ![r] = "review"]
      BY <1>2 DEF Propose, RunGoto
    <3>3. \/ UNCHANGED <<runPatch, found>>
          \/ /\ found' = [found EXCEPT ![r] = TRUE]
             /\ \E p \in Patches : runPatch' = [runPatch EXCEPT ![r] = p]
      BY <1>2, <2>1 DEF Propose
    <3>4. runPatch' \in [Runs -> Patches \cup {NoPatch}] /\ found' \in [Runs -> BOOLEAN]
      BY <1>0, <3>3 DEF TypeOK
    <3> QED  BY <1>0, <3>1, <3>2, <3>4 DEF TypeOK
  <2>4. VersionsMade' /\ ReadsExist'
    BY <1>0, <1>2 DEF Propose, RunGoto, VersionsMade, ReadsExist, TypeOK
  <2>5. PatchesExist'
    BY <1>0, <1>2, <2>1, <2>2 DEF Propose, RunGoto, PatchesExist, TypeOK
  <2>6. BudgetLeft'
    BY <1>0, <1>2, ReplanAssumption DEF Propose, RunGoto, BudgetLeft, TypeOK
  <2> QED  BY <2>3, <2>4, <2>5, <2>6 DEF Basics
<1>3. CASE SolveNothing(r)
  <2>1. TypeOK'
    BY <1>0, <1>3 DEF SolveNothing, RunGoto, TypeOK
  <2>2. VersionsMade' /\ ReadsExist' /\ PatchesExist' /\ BudgetLeft'
    BY <1>0, <1>3
    DEF SolveNothing, RunGoto, VersionsMade, ReadsExist, PatchesExist, BudgetLeft, TypeOK
  <2> QED  BY <2>1, <2>2 DEF Basics
<1>4. ASSUME NEW p \in Patches, SolvePatch(r, p) PROVE Basics'
  <2> DEFINE e == IF r \in Events THEN r ELSE NoEvent
  <2>1. runPc[r] = "solve" /\ runTrip[r] \in 1..latest /\ runCount[r] < MaxReplans
    BY <1>0, <1>4 DEF SolvePatch, RunGoto, ReadsExist, BudgetLeft
  <2>2. PICK k \in Risk : Insert(p, runTrip[r], e, k)
    BY <1>4, RiskAssumption DEF SolvePatch
  <2>3. UNCHANGED <<latest, madeBy, automatic, trip, optIn, userVars>>
    BY <1>4 DEF SolvePatch
  <2>4. /\ base' \in [Patches -> Nat] /\ status' \in [Patches -> Status]
        /\ source' \in [Patches -> Events \cup {NoEvent}] /\ risk' \in [Patches -> Risk]
        /\ VersionsMade' /\ \A q \in Patches : base[q] # 0 => base'[q] # 0
    BY <1>0, <2>1, <2>2, <2>3, InsertStep
  <2>5. base'[p] # 0
    BY <1>0, <2>1, <2>2 DEF Insert, TypeOK
  <2>6. count' \in 0..MaxReplans /\ runCount' \in [Runs -> 0..MaxReplans]
    BY <1>0, <1>4, <2>1, ReplanAssumption DEF SolvePatch, TypeOK
  <2>7. TypeOK'
    BY <1>0, <1>4, <2>3, <2>4, <2>6 DEF SolvePatch, RunGoto, TypeOK
  <2>8. ReadsExist'
    BY <1>0, <1>4, <2>3 DEF SolvePatch, RunGoto, ReadsExist, TypeOK
  <2>9. PatchesExist'
    BY <1>0, <1>4, <2>3, <2>4, <2>5 DEF SolvePatch, RunGoto, PatchesExist, TypeOK
  <2>10. BudgetLeft'
    BY <1>0, <1>4 DEF SolvePatch, RunGoto, BudgetLeft, TypeOK
  <2> QED  BY <2>4, <2>7, <2>8, <2>9, <2>10 DEF Basics
<1>5. CASE ReviewLoad(r)
  <2>1. runPc[r] = "review" /\ runPatch[r] \in Patches
    BY <1>0, <1>5 DEF ReviewLoad, RunGoto, PatchesExist
  <2>2. TypeOK'
    BY <1>0, <1>5, <2>1 DEF ReviewLoad, RunGoto, TypeOK
  <2>3. VersionsMade' /\ ReadsExist' /\ PatchesExist' /\ BudgetLeft'
    BY <1>0, <1>5
    DEF ReviewLoad, RunGoto, VersionsMade, ReadsExist, PatchesExist, BudgetLeft, TypeOK
  <2> QED  BY <2>2, <2>3 DEF Basics
<1>6. CASE ReviewCommit(r)
  <2>1. /\ UNCHANGED <<planVars, base, source, risk, tripVars, userVars, runTrip, runCount,
                       runPatch, found, redeliveries>>
        /\ runPc[r] = "reviewed"
        /\ \/ runPc' = [runPc EXCEPT ![r] = "apply"]
           \/ runPc' = [runPc EXCEPT ![r] = "done"]
        /\ \/ UNCHANGED <<status, copy>>
           \/ /\ status' = [status EXCEPT ![runPatch[r]] = "blocked"]
              /\ copy' = [copy EXCEPT ![r] = "blocked"]
    BY <1>6 DEF ReviewCommit, RunGoto
  <2>2. TypeOK'
    BY <1>0, <2>1 DEF TypeOK, Status
  <2>3. VersionsMade' /\ ReadsExist' /\ PatchesExist' /\ BudgetLeft'
    BY <1>0, <2>1 DEF VersionsMade, ReadsExist, PatchesExist, BudgetLeft, TypeOK
  <2> QED  BY <2>2, <2>3 DEF Basics
<1>7. CASE ApplyRead(r)
  <2>1. /\ UNCHANGED <<planVars, patchVars, tripVars, userVars, runTrip, runCount, runPatch,
                       found, copy, redeliveries>>
        /\ runPc[r] = "apply"
        /\ \/ runPc' = [runPc EXCEPT ![r] = "validate"]
           \/ runPc' = [runPc EXCEPT ![r] = "done"]
    BY <1>7 DEF ApplyRead, RunGoto
  <2>2. TypeOK'
    BY <1>0, <2>1 DEF TypeOK
  <2>3. VersionsMade' /\ ReadsExist' /\ PatchesExist' /\ BudgetLeft'
    BY <1>0, <2>1 DEF VersionsMade, ReadsExist, PatchesExist, BudgetLeft, TypeOK
  <2> QED  BY <2>2, <2>3 DEF Basics
<1>10. CASE ApplySelect(r)
  <2>1. /\ runPatch[r] \in Patches /\ runPc[r] = "validate"
        /\ \/ runPc' = [runPc EXCEPT ![r] = "commit"]
           \/ runPc' = [runPc EXCEPT ![r] = "done"]
        /\ UNCHANGED <<latest, madeBy, automatic, base, source, risk, tripVars, userVars,
                       runTrip, runCount, runPatch, found, copy, redeliveries>>
    BY <1>0, <1>10 DEF ApplySelect, RunGoto, PatchesExist
  <2>2. status' \in [Patches -> Status] /\ selected' \subseteq Patches
    BY <1>0, <1>10, <2>1 DEF ApplySelect, SelectTrips, Refuse, TypeOK, Status
  <2>3. TypeOK'
    BY <1>0, <2>1, <2>2 DEF TypeOK
  <2>4. VersionsMade' /\ ReadsExist' /\ PatchesExist' /\ BudgetLeft'
    BY <1>0, <2>1 DEF VersionsMade, ReadsExist, PatchesExist, BudgetLeft, TypeOK
  <2> QED  BY <2>3, <2>4 DEF Basics
<1>8. CASE ApplyCommit(r)
  <2>1. /\ runPc[r] = "commit" /\ runPc' = [runPc EXCEPT ![r] = "done"]
        /\ runPatch[r] \in Patches /\ Apply(runPatch[r])
        /\ UNCHANGED <<selected, base, source, risk, optIn, count, openedLate, userVars,
                       runTrip, runCount, runPatch, found, copy, redeliveries>>
        /\ automatic' = automatic \/ automatic' = automatic \cup {runPatch[r]}
    BY <1>0, <1>8 DEF ApplyCommit, RunGoto, PatchesExist
  <2>0. base[runPatch[r]] = latest
    BY <2>1 DEF IInv, ChainInv, InsertAlone, InFlight, At
  <2>2. /\ latest' \in Nat /\ madeBy' \in [Patches -> Nat]
        /\ status' \in [Patches -> Status] /\ trip' \in Nat
        /\ VersionsMade' /\ trip' <= latest' /\ latest <= latest'
    BY <1>0, <2>0, <2>1, ApplyStep
  <2>3. TypeOK'
    BY <1>0, <2>1, <2>2 DEF TypeOK
  <2>4. ReadsExist'
    BY <1>0, <2>1, <2>2 DEF ReadsExist, TypeOK
  <2>5. PatchesExist' /\ BudgetLeft'
    BY <1>0, <2>1 DEF PatchesExist, BudgetLeft, TypeOK
  <2> QED  BY <2>2, <2>3, <2>4, <2>5 DEF Basics
<1>9. CASE Redeliver(r)
  <2>1. TypeOK'
    BY <1>0, <1>9, ReplanAssumption DEF Redeliver, TypeOK, Status
  <2>2. VersionsMade' /\ ReadsExist' /\ PatchesExist' /\ BudgetLeft'
    BY <1>0, <1>9
    DEF Redeliver, VersionsMade, ReadsExist, PatchesExist, BudgetLeft, TypeOK
  <2> QED  BY <2>1, <2>2 DEF Basics
<1> QED
  BY <1>1, <1>2, <1>3, <1>4, <1>5, <1>6, <1>7, <1>8, <1>9, <1>10 DEF RunStep

\* A step that begins no insert and leaves the versions alone.
NoInsert ==
  /\ UNCHANGED latest
  /\ \A q \in Patches : base[q] # 0 => base'[q] = base[q]
  /\ \A v \in Users :
       userPc'[v] = "commit" => userPc[v] = "commit" /\ userPatch'[v] = userPatch[v]
  /\ \A t \in Runs :
       runPc'[t] = "commit" => runPc[t] = "commit" /\ runPatch'[t] = runPatch[t]

LEMMA NoInsertAlone ==
  ASSUME IInv, NoInsert
  PROVE  InsertAlone'
<1>0. PatchesExist /\ InsertAlone
  BY DEF IInv, ChainInv
<1>1. \A p \in Patches : InFlight(p)' => InFlight(p)
  BY DEF InFlight, At, NoInsert
<1>2. \A p \in Patches : InFlight(p) => base[p] # 0
  BY <1>0 DEF InFlight, At, PatchesExist
<1>3. \A p \in Patches : InFlight(p)' => base'[p] = latest'
  BY <1>0, <1>1, <1>2 DEF InsertAlone, NoInsert
<1> QED  BY <1>0, <1>3 DEF InsertAlone, NoInsert

\* A version that goes in while nothing else is being inserted.
LEMMA FreeIsAlone ==
  ASSUME IInv, NEW p \in Patches, VersionFree(base[p] + 1)
  PROVE  /\ base[p] = latest
         /\ \A v \in Users : userPc[v] # "commit"
         /\ \A t \in Runs : runPc[t] # "commit"
<1>0. TypeOK /\ VersionsMade /\ PatchesExist /\ InsertAlone
  BY DEF IInv, ChainInv
<1>1. base[p] = latest
  BY <1>0, FreeFollowsNewest
<1>2. \A q \in Patches : ~InFlight(q)
  BY <1>0, <1>1 DEF InsertAlone, VersionFree
<1>3. \A v \in Users : userPc[v] # "commit"
  BY <1>0, <1>2 DEF InFlight, At, PatchesExist
<1>4. \A t \in Runs : runPc[t] # "commit"
  BY <1>0, <1>2 DEF InFlight, At, PatchesExist
<1> QED  BY <1>1, <1>3, <1>4

LEMMA UserStepAlone ==
  ASSUME IInv, NEW u \in Users, UserStep(u)
  PROVE  InsertAlone'
<1>0. TypeOK /\ PatchesExist /\ InsertAlone
  BY DEF IInv, ChainInv
<1>1. CASE UserGoto(u, "validate", "commit") /\ AcceptSelect(u)
  <2>1. /\ userPatch[u] \in Patches /\ VersionFree(base[userPatch[u]] + 1)
        /\ userPc' = [userPc EXCEPT ![u] = "commit"]
        /\ UNCHANGED <<latest, base, userPatch, runPc, runPatch>>
    BY <1>0, <1>1 DEF AcceptSelect, SelectTrips, UserGoto, PatchesExist, runVars, TypeOK
  <2>2. /\ base[userPatch[u]] = latest
        /\ \A v \in Users : userPc[v] # "commit"
        /\ \A t \in Runs : runPc[t] # "commit"
    BY <2>1, FreeIsAlone
  <2>3. \A v \in Users : userPc'[v] = "commit" => v = u
    BY <1>0, <2>1, <2>2 DEF TypeOK
  <2>4. \A p \in Patches : InFlight(p)' => p = userPatch[u]
    BY <2>1, <2>2, <2>3 DEF InFlight, At
  <2> QED  BY <2>1, <2>2, <2>3, <2>4 DEF InsertAlone
<1>2. CASE AcceptCommit(u)
  <2>1. /\ userPc[u] = "commit" /\ userPc' = [userPc EXCEPT ![u] = "done"]
        /\ UNCHANGED <<runPc, runPatch, userPatch>>
    BY <1>2 DEF AcceptCommit, UserGoto, runVars
  <2>2. (\A v \in Users : userPc'[v] # "commit") /\ (\A t \in Runs : runPc'[t] # "commit")
    BY <1>0, <2>1 DEF InsertAlone, TypeOK
  <2>3. \A p \in Patches : ~InFlight(p)'
    BY <2>2 DEF InFlight, At
  <2> QED  BY <2>2, <2>3 DEF InsertAlone
<1>3. CASE ~AcceptCommit(u) /\ ~(UserGoto(u, "validate", "commit") /\ AcceptSelect(u))
  <2>1. UNCHANGED <<latest, runPc, runPatch>>
    BY <1>3
    DEF UserStep, WriteRead, WriteInsert, Reject, AcceptRead, AcceptSelect, OpenRead, OpenInsert,
        planVars, runVars
  <2>2. \A q \in Patches : base[q] # 0 => base'[q] = base[q]
    BY <1>0, <1>3
    DEF UserStep, WriteRead, WriteInsert, Reject, AcceptRead, AcceptSelect, OpenRead, OpenInsert,
        patchVars, Insert, TypeOK
  <2>3. \A v \in Users : v # u => userPc'[v] = userPc[v] /\ userPatch'[v] = userPatch[v]
    BY <1>0, <1>3
    DEF UserStep, WriteRead, WriteInsert, Reject, AcceptRead, AcceptSelect, OpenRead, OpenInsert,
        UserGoto, TypeOK
  <2>4. userPc'[u] # "commit"
    BY <1>0, <1>3
    DEF UserStep, WriteRead, WriteInsert, Reject, AcceptRead, AcceptSelect, OpenRead, OpenInsert,
        UserGoto, TypeOK
  <2> QED  BY <2>1, <2>2, <2>3, <2>4, NoInsertAlone DEF NoInsert
<1> QED  BY <1>1, <1>2, <1>3

LEMMA RunStepAlone ==
  ASSUME IInv, NEW r \in Runs, RunStep(r)
  PROVE  InsertAlone'
<1>0. TypeOK /\ PatchesExist /\ InsertAlone
  BY DEF IInv, ChainInv
<1>1. CASE RunGoto(r, "validate", "commit") /\ ApplySelect(r)
  <2>1. /\ runPatch[r] \in Patches /\ VersionFree(base[runPatch[r]] + 1)
        /\ runPc' = [runPc EXCEPT ![r] = "commit"]
        /\ UNCHANGED <<latest, base, runPatch, userPc, userPatch>>
    BY <1>0, <1>1 DEF ApplySelect, SelectTrips, RunGoto, PatchesExist, userVars, TypeOK
  <2>2. /\ base[runPatch[r]] = latest
        /\ \A v \in Users : userPc[v] # "commit"
        /\ \A t \in Runs : runPc[t] # "commit"
    BY <2>1, FreeIsAlone
  <2>3. \A t \in Runs : runPc'[t] = "commit" => t = r
    BY <1>0, <2>1, <2>2 DEF TypeOK
  <2>4. \A p \in Patches : InFlight(p)' => p = runPatch[r]
    BY <2>1, <2>2, <2>3 DEF InFlight, At
  <2> QED  BY <2>1, <2>2, <2>3, <2>4 DEF InsertAlone
<1>2. CASE ApplyCommit(r)
  <2>1. /\ runPc[r] = "commit" /\ runPc' = [runPc EXCEPT ![r] = "done"]
        /\ UNCHANGED <<userPc, runPatch, userPatch>>
    BY <1>2 DEF ApplyCommit, RunGoto, userVars
  <2>2. (\A v \in Users : userPc'[v] # "commit") /\ (\A t \in Runs : runPc'[t] # "commit")
    BY <1>0, <2>1 DEF InsertAlone, TypeOK
  <2>3. \A p \in Patches : ~InFlight(p)'
    BY <2>2 DEF InFlight, At
  <2> QED  BY <2>2, <2>3 DEF InsertAlone
<1>3. CASE ~ApplyCommit(r) /\ ~(RunGoto(r, "validate", "commit") /\ ApplySelect(r))
  <2>1. UNCHANGED <<latest, userPc, userPatch>>
    BY <1>3
    DEF RunStep, Load, Propose, SolveNothing, SolvePatch, ReviewLoad, ReviewCommit, ApplyRead,
        ApplySelect, Redeliver, planVars, userVars
  <2>2. \A q \in Patches : base[q] # 0 => base'[q] = base[q]
    BY <1>0, <1>3
    DEF RunStep, Load, Propose, SolveNothing, SolvePatch, ReviewLoad, ReviewCommit, ApplyRead,
        ApplySelect, Redeliver, patchVars, Insert, TypeOK
  <2>3. \A t \in Runs : t # r => runPc'[t] = runPc[t] /\ runPatch'[t] = runPatch[t]
    BY <1>0, <1>3
    DEF RunStep, Load, Propose, SolveNothing, SolvePatch, ReviewLoad, ReviewCommit, ApplyRead,
        ApplySelect, Redeliver, RunGoto, TypeOK
  <2>4. runPc'[r] # "commit"
    BY <1>0, <1>3
    DEF RunStep, Load, Propose, SolveNothing, SolvePatch, ReviewLoad, ReviewCommit, ApplyRead,
        ApplySelect, Redeliver, RunGoto, TypeOK
  <2> QED  BY <2>1, <2>2, <2>3, <2>4, NoInsertAlone DEF NoInsert
<1> QED  BY <1>1, <1>2, <1>3

\* Every step keeps the invariant.
LEMMA NextIInv == IInv /\ [Next]_vars => IInv'
<1> SUFFICES ASSUME IInv, [Next]_vars PROVE IInv'
  OBVIOUS
<1>1. CASE UNCHANGED vars
  BY <1>1
  DEF vars, planVars, patchVars, tripVars, userVars, runVars, IInv, TypeOK, ChainInv,
      VersionsMade, ReadsExist, PatchesExist, BudgetLeft, InsertAlone, InFlight, At
<1>2. CASE Next
  BY <1>2, UserStepBasics, RunStepBasics, UserStepAlone, RunStepAlone
  DEF Next, IInv, ChainInv, Basics
<1> QED  BY <1>1, <1>2

\* The state stays well typed, and the replan count within its budget.
THEOREM TypeCorrect == Spec => []TypeOK
<1>1. Spec => []IInv
  BY InitIInv, NextIInv, PTL DEF Spec
<1>2. IInv => TypeOK
  BY DEF IInv
<1> QED  BY <1>1, <1>2, PTL

-----------------------------------------------------------------------------
(* The status of a patch *)

\* However an application ends, the status it leaves matches the versions.
LEMMA ApplyStatus ==
  ASSUME TypeOK, VersionsMade, StatusMatchesVersions, NEW p \in Patches, Apply(p),
         UNCHANGED base
  PROVE  StatusMatchesVersions'
<1>1. CASE Advance(p)
  <2>1. base[p] \in Nat
    BY DEF TypeOK
  <2> QED  BY <1>1, <2>1 DEF Advance, StatusMatchesVersions, TypeOK
<1>2. CASE UNCHANGED <<madeBy, status>>
  BY <1>2 DEF StatusMatchesVersions
<1> QED  BY <1>1, <1>2 DEF Apply

\* Before the commit it can only have blocked the patch.
LEMMA SelectStatus ==
  ASSUME TypeOK, StatusMatchesVersions, NEW p \in Patches, SelectTrips(p) \/ Refuse(p),
         UNCHANGED <<madeBy, base>>
  PROVE  StatusMatchesVersions'
<1>1. UNCHANGED status \/ status' = [status EXCEPT ![p] = "blocked"]
  BY DEF SelectTrips, Refuse
<1> QED  BY <1>1 DEF StatusMatchesVersions, TypeOK

\* A new patch has made no version.
LEMMA InsertStatus ==
  ASSUME TypeOK, VersionsMade, StatusMatchesVersions, NEW p \in Patches, NEW v,
         NEW e, NEW k, Insert(p, v, e, k), UNCHANGED madeBy
  PROVE  StatusMatchesVersions'
<1>1. madeBy[p] = 0 /\ base[p] = 0
  BY DEF Insert, VersionsMade
<1> QED  BY <1>1 DEF Insert, StatusMatchesVersions, TypeOK

\* Every step keeps statuses and versions in agreement.
LEMMA NextStatus == IInv /\ StatusMatchesVersions /\ [Next]_vars => StatusMatchesVersions'
<1> SUFFICES ASSUME IInv, StatusMatchesVersions, [Next]_vars PROVE StatusMatchesVersions'
  OBVIOUS
<1> USE DEF planVars, patchVars
<1>0. TypeOK /\ VersionsMade /\ PatchesExist
  BY DEF IInv, ChainInv
<1>1. ASSUME NEW u \in Users, UserStep(u) PROVE StatusMatchesVersions'
  <2>1. ASSUME NEW p \in Patches, WriteInsert(u, p) PROVE StatusMatchesVersions'
    BY <1>0, <2>1, InsertStatus DEF WriteInsert
  <2>2. ASSUME NEW p \in Patches, Reject(u, p) PROVE StatusMatchesVersions'
    BY <1>0, <2>2 DEF Reject, StatusMatchesVersions, TypeOK
  <2>3. CASE AcceptCommit(u)
    BY <1>0, <2>3, ApplyStatus DEF AcceptCommit, UserGoto, PatchesExist
  <2>5. CASE AcceptSelect(u)
    BY <1>0, <2>5, SelectStatus DEF AcceptSelect, UserGoto, PatchesExist
  <2>4. CASE \/ WriteRead(u) \/ OpenRead(u) \/ OpenInsert(u)
             \/ \E p \in Patches : AcceptRead(u, p)
    BY <2>4 DEF WriteRead, OpenRead, OpenInsert, AcceptRead, StatusMatchesVersions
  <2> QED  BY <1>1, <2>1, <2>2, <2>3, <2>4, <2>5 DEF UserStep
<1>2. ASSUME NEW r \in Runs, RunStep(r) PROVE StatusMatchesVersions'
  <2>1. ASSUME NEW p \in Patches, SolvePatch(r, p) PROVE StatusMatchesVersions'
    BY <1>0, <2>1, InsertStatus DEF SolvePatch
  <2>2. CASE ApplyCommit(r)
    BY <1>0, <2>2, ApplyStatus DEF ApplyCommit, RunGoto, PatchesExist
  <2>5. CASE ApplySelect(r)
    BY <1>0, <2>5, SelectStatus DEF ApplySelect, RunGoto, PatchesExist
  <2>3. CASE ReviewCommit(r)
    <3>1. UNCHANGED <<madeBy, base>>
          /\ (UNCHANGED status \/ status' = [status EXCEPT ![runPatch[r]] = "blocked"])
      BY <2>3 DEF ReviewCommit
    <3> QED  BY <1>0, <3>1 DEF StatusMatchesVersions, TypeOK
  <2>4. CASE \/ Load(r) \/ Propose(r) \/ SolveNothing(r) \/ ReviewLoad(r)
             \/ ApplyRead(r) \/ Redeliver(r)
    BY <2>4
    DEF Load, Propose, SolveNothing, ReviewLoad, ApplyRead, Redeliver,
        StatusMatchesVersions
  <2> QED  BY <1>2, <2>1, <2>2, <2>3, <2>4, <2>5 DEF RunStep
<1>3. CASE UNCHANGED vars
  BY <1>3 DEF vars, StatusMatchesVersions
<1> QED  BY <1>1, <1>2, <1>3 DEF Next

\* A patch is accepted exactly if it has made the version after its base; only a
\* late review may mark it as blocked afterwards.
THEOREM StatusCorrect == Spec => []StatusMatchesVersions
<1>1. Init => StatusMatchesVersions
  BY DEF Init, StatusMatchesVersions
<1> QED  BY <1>1, InitIInv, NextIInv, NextStatus, PTL DEF Spec

-----------------------------------------------------------------------------
(* Refinement of the chain *)

\* Every step makes the next version of the chain, adds a proposal to it or
\* leaves it alone.
LEMMA ChainStep == IInv /\ [Next]_vars => [Chain!ChainNext]_(Chain!chainVars)
<1> SUFFICES ASSUME IInv, [Next]_vars
             PROVE  Chain!ChainNext \/ UNCHANGED <<latest, base, madeBy>>
  BY DEF Chain!chainVars
<1> USE DEF planVars, patchVars
<1>0. TypeOK /\ VersionsMade /\ ReadsExist /\ PatchesExist /\ InsertAlone /\ trip <= latest
  BY DEF IInv, ChainInv, ReadsExist
<1>1. ASSUME NEW u \in Users, UserStep(u)
      PROVE  Chain!ChainNext \/ UNCHANGED <<latest, base, madeBy>>
  <2>1. ASSUME NEW p \in Patches, WriteInsert(u, p) PROVE Chain!ChainNext
    <3>1. userBase[u] \in 1..latest /\ Insert(p, userBase[u], NoEvent, Unseen)
      BY <1>0, <2>1 DEF WriteInsert, UserGoto, ReadsExist
    <3>2. Unseen \in Risk /\ UNCHANGED <<latest, madeBy>>
      BY <2>1 DEF Unseen, Risk, WriteInsert
    <3> QED  BY <1>0, <3>1, <3>2, InsertStep DEF Chain!ChainNext
  <2>2. CASE AcceptCommit(u)
    <3>1. userPatch[u] \in Patches /\ Apply(userPatch[u]) /\ UNCHANGED base
          /\ base[userPatch[u]] = latest
      BY <1>0, <2>2 DEF AcceptCommit, UserGoto, PatchesExist, InsertAlone, InFlight, At
    <3> QED  BY <1>0, <3>1, ApplyStep DEF Chain!ChainNext
  <2>3. ASSUME NEW p \in Patches, Reject(u, p) \/ AcceptRead(u, p)
        PROVE  UNCHANGED <<latest, base, madeBy>>
    BY <2>3 DEF Reject, AcceptRead
  <2>4. CASE WriteRead(u) \/ OpenRead(u) \/ OpenInsert(u) \/ AcceptSelect(u)
    BY <2>4 DEF WriteRead, OpenRead, OpenInsert, AcceptSelect
  <2> QED  BY <1>1, <2>1, <2>2, <2>3, <2>4 DEF UserStep
<1>2. ASSUME NEW r \in Runs, RunStep(r)
      PROVE  Chain!ChainNext \/ UNCHANGED <<latest, base, madeBy>>
  <2>1. ASSUME NEW p \in Patches, SolvePatch(r, p) PROVE Chain!ChainNext
    <3> DEFINE e == IF r \in Events THEN r ELSE NoEvent
    <3>1. PICK k \in Risk : Insert(p, runTrip[r], e, k)
      BY <2>1, RiskAssumption DEF SolvePatch
    <3>2. runTrip[r] \in 1..latest /\ UNCHANGED <<latest, madeBy>>
      BY <1>0, <2>1 DEF SolvePatch, RunGoto, ReadsExist
    <3> QED  BY <1>0, <3>1, <3>2, InsertStep DEF Chain!ChainNext
  <2>2. CASE ApplyCommit(r)
    <3>1. runPatch[r] \in Patches /\ Apply(runPatch[r]) /\ UNCHANGED base
          /\ base[runPatch[r]] = latest
      BY <1>0, <2>2 DEF ApplyCommit, RunGoto, PatchesExist, InsertAlone, InFlight, At
    <3> QED  BY <1>0, <3>1, ApplyStep DEF Chain!ChainNext
  <2>3. CASE \/ Load(r) \/ Propose(r) \/ SolveNothing(r) \/ ReviewLoad(r)
             \/ ReviewCommit(r) \/ ApplyRead(r) \/ ApplySelect(r) \/ Redeliver(r)
    BY <2>3
    DEF Load, Propose, SolveNothing, ReviewLoad, ReviewCommit, ApplyRead, ApplySelect,
        Redeliver
  <2> QED  BY <1>2, <2>1, <2>2, <2>3 DEF RunStep
<1>3. CASE UNCHANGED vars
  BY <1>3 DEF vars
<1> QED  BY <1>1, <1>2, <1>3 DEF Next

\* The plan versions of a run form the immutable chain of PlanChain, whoever
\* writes, accepts and applies patches at the same time.
THEOREM ChainImplemented == Spec => ImplementsChain
<1>1. Init => IInv /\ Chain!ChainInit
  BY InitIInv DEF Init, Chain!ChainInit
<1>2. IInv /\ [Next]_vars => [Chain!ChainNext]_(Chain!chainVars)
  BY ChainStep
<1> QED  BY <1>1, <1>2, NextIInv, PTL DEF Spec, ImplementsChain, Chain!ChainSpec

-----------------------------------------------------------------------------
(* What the steps do to the patches and the trip *)

\* No patch starts to wait.
Settled(q) == status'[q] = "pending" => status[q] = "pending"

NothingNew == UNCHANGED <<base, source>> /\ \A q \in Patches : Settled(q)

\* An application changes the status of its patch alone.
LEMMA ApplySettles ==
  ASSUME TypeOK, NEW p \in Patches, Apply(p)
  PROVE  /\ \A q \in Patches : q # p => status'[q] = status[q]
         /\ status'[p] \in {status[p], "accepted", "blocked"}
  BY DEF Apply, Advance, TypeOK

LEMMA SelectSettles ==
  ASSUME TypeOK, NEW p \in Patches, SelectTrips(p) \/ Refuse(p)
  PROVE  /\ \A q \in Patches : q # p => status'[q] = status[q]
         /\ status'[p] \in {status[p], "blocked"}
         /\ SelectTrips(p) => UNCHANGED status
<1>1. UNCHANGED status \/ status' = [status EXCEPT ![p] = "blocked"]
  BY DEF SelectTrips, Refuse
<1> QED  BY <1>1 DEF TypeOK, SelectTrips

\* A new patch waits for an event only if that event's run wrote it.
LEMMA UserPatches ==
  ASSUME IInv, NEW u \in Users, UserStep(u)
  PROVE  NothingNew \/ \E p \in Patches, v \in 1..latest : Insert(p, v, NoEvent, Unseen)
<1>0. TypeOK /\ PatchesExist /\ ReadsExist
  BY DEF IInv, ChainInv
<1>1. ASSUME NEW p \in Patches, WriteInsert(u, p)
      PROVE  \E v \in 1..latest : Insert(p, v, NoEvent, Unseen)
  BY <1>0, <1>1 DEF WriteInsert, UserGoto, ReadsExist
<1>2. ASSUME NEW p \in Patches, Reject(u, p) PROVE NothingNew
  BY <1>0, <1>2 DEF Reject, NothingNew, Settled, TypeOK
<1>3. CASE AcceptCommit(u)
  <2>1. userPatch[u] \in Patches /\ Apply(userPatch[u]) /\ UNCHANGED <<base, source>>
    BY <1>0, <1>3 DEF AcceptCommit, UserGoto, PatchesExist
  <2> QED  BY <1>0, <2>1, ApplySettles DEF NothingNew, Settled
<1>5. CASE AcceptSelect(u)
  <2>1. /\ userPatch[u] \in Patches /\ UNCHANGED <<base, source>>
        /\ (SelectTrips(userPatch[u]) \/ Refuse(userPatch[u]))
    BY <1>0, <1>5 DEF AcceptSelect, UserGoto, PatchesExist
  <2> QED  BY <1>0, <2>1, SelectSettles DEF NothingNew, Settled
<1>4. CASE \/ WriteRead(u) \/ OpenRead(u) \/ OpenInsert(u)
           \/ \E p \in Patches : AcceptRead(u, p)
  BY <1>4 DEF WriteRead, OpenRead, OpenInsert, AcceptRead, patchVars, NothingNew, Settled
<1> QED  BY <1>1, <1>2, <1>3, <1>4, <1>5 DEF UserStep

LEMMA RunPatches ==
  ASSUME IInv, NEW r \in Runs, RunStep(r)
  PROVE  \/ NothingNew /\ \A p \in Patches : ~SolvePatch(r, p)
         \/ \E p \in Patches, k \in Risk :
              SolvePatch(r, p) /\ Insert(p, runTrip[r], IF r \in Events THEN r ELSE NoEvent, k)
<1>0. TypeOK /\ PatchesExist
  BY DEF IInv, ChainInv
<1>1. ASSUME NEW p \in Patches, SolvePatch(r, p)
      PROVE  \E k \in Risk : Insert(p, runTrip[r], IF r \in Events THEN r ELSE NoEvent, k)
  BY <1>1, RiskAssumption DEF SolvePatch
<1>2. CASE ApplyCommit(r)
  <2>1. runPatch[r] \in Patches /\ Apply(runPatch[r]) /\ UNCHANGED <<base, source>>
    BY <1>0, <1>2 DEF ApplyCommit, RunGoto, PatchesExist
  <2> QED  BY <1>0, <1>1, <2>1, ApplySettles DEF NothingNew, Settled
<1>5. CASE ApplySelect(r)
  <2>1. /\ runPatch[r] \in Patches /\ UNCHANGED <<base, source>>
        /\ (SelectTrips(runPatch[r]) \/ Refuse(runPatch[r]))
    BY <1>0, <1>5 DEF ApplySelect, RunGoto, PatchesExist
  <2> QED  BY <1>0, <1>1, <2>1, SelectSettles DEF NothingNew, Settled
<1>3. CASE ReviewCommit(r)
  <2>1. UNCHANGED <<base, source>>
        /\ (UNCHANGED status \/ status' = [status EXCEPT ![runPatch[r]] = "blocked"])
    BY <1>3 DEF ReviewCommit
  <2> QED  BY <1>0, <1>1, <2>1 DEF NothingNew, Settled, TypeOK
<1>4. CASE \/ Load(r) \/ Propose(r) \/ SolveNothing(r) \/ ReviewLoad(r)
           \/ ApplyRead(r) \/ Redeliver(r)
  BY <1>1, <1>4
  DEF Load, Propose, SolveNothing, ReviewLoad, ApplyRead, Redeliver, patchVars, NothingNew,
      Settled
<1> QED  BY <1>1, <1>2, <1>3, <1>4, <1>5 DEF RunStep

-----------------------------------------------------------------------------
(* One waiting patch for each event and version *)

\* The run of an event that solves has found no patch of its event waiting
\* against the version it works on, and nobody else writes one meanwhile.
Solving == \A r \in Events : runPc[r] = "solve" => Earlier(r) = {}

DedupInv == OnePendingPerEvent /\ Solving

\* As long as no patch starts to wait, the two facts can only be used up.
LEMMA NothingNewDedup ==
  ASSUME DedupInv, NothingNew,
         \A r \in Events : runPc'[r] = "solve" =>
           Earlier(r) = {} /\ runTrip'[r] = runTrip[r]
  PROVE  DedupInv'
  BY DEF DedupInv, OnePendingPerEvent, Solving, Earlier, NothingNew, Settled

LEMMA NextDedup == IInv /\ DedupInv /\ [Next]_vars => DedupInv'
<1> SUFFICES ASSUME IInv, DedupInv, [Next]_vars PROVE DedupInv'
  OBVIOUS
<1>0. TypeOK /\ Events \subseteq Runs
  BY DEF IInv, Runs
<1>1. ASSUME NEW u \in Users, UserStep(u) PROVE DedupInv'
  <2>1. UNCHANGED <<runPc, runTrip>>
    BY <1>1
    DEF UserStep, WriteRead, WriteInsert, Reject, AcceptRead, AcceptSelect, AcceptCommit,
        OpenRead, OpenInsert, runVars
  <2>2. CASE NothingNew
    BY <2>1, <2>2, NothingNewDedup DEF DedupInv, Solving
  <2>3. ASSUME NEW p \in Patches, NEW v \in 1..latest, Insert(p, v, NoEvent, Unseen)
        PROVE  DedupInv'
    <3>1. /\ source'[p] = NoEvent
          /\ \A q \in Patches : q # p => /\ base'[q] = base[q] /\ source'[q] = source[q]
                                         /\ status'[q] = status[q]
      BY <1>0, <2>3 DEF Insert, TypeOK
    <3>2. OnePendingPerEvent'
      BY <3>1 DEF DedupInv, OnePendingPerEvent
    <3>3. Solving'
      BY <2>1, <3>1, NoneAssumption DEF DedupInv, Solving, Earlier
    <3> QED  BY <3>2, <3>3 DEF DedupInv
  <2> QED  BY <1>1, <2>2, <2>3, UserPatches
<1>2. ASSUME NEW r \in Runs, RunStep(r) PROVE DedupInv'
  <2>1. \A t \in Runs : t # r => runPc'[t] = runPc[t] /\ runTrip'[t] = runTrip[t]
    BY <1>0, <1>2
    DEF RunStep, Load, Propose, SolveNothing, SolvePatch, ReviewLoad, ReviewCommit, ApplyRead,
        ApplySelect, ApplyCommit, Redeliver, RunGoto, TypeOK
  <2>2. CASE NothingNew /\ \A p \in Patches : ~SolvePatch(r, p)
    <3>1. CASE Propose(r)
      <4>1. runPc'[r] = "solve" => Earlier(r) = {}
        BY <1>0, <3>1 DEF Propose, RunGoto, TypeOK
      <4>2. UNCHANGED runTrip
        BY <3>1 DEF Propose
      <4> QED  BY <1>0, <2>1, <2>2, <4>1, <4>2, NothingNewDedup DEF DedupInv, Solving
    <3>2. CASE ~Propose(r)
      <4>1. runPc'[r] # "solve"
        BY <1>0, <1>2, <2>2, <3>2
        DEF RunStep, Load, SolveNothing, ReviewLoad, ReviewCommit, ApplyRead, ApplySelect,
            ApplyCommit, Redeliver, RunGoto, TypeOK
      <4> QED  BY <1>0, <2>1, <2>2, <4>1, NothingNewDedup DEF DedupInv, Solving
    <3> QED  BY <3>1, <3>2
  <2>3. ASSUME NEW p \in Patches, NEW k \in Risk, SolvePatch(r, p),
               Insert(p, runTrip[r], IF r \in Events THEN r ELSE NoEvent, k)
        PROVE  DedupInv'
    <3>1. /\ source'[p] = (IF r \in Events THEN r ELSE NoEvent) /\ base'[p] = runTrip[r]
          /\ \A q \in Patches : q # p => /\ base'[q] = base[q] /\ source'[q] = source[q]
                                         /\ status'[q] = status[q]
      BY <1>0, <2>3 DEF Insert, TypeOK
    <3>2. runPc[r] = "solve" /\ runPc'[r] = "review"
      BY <1>0, <2>3 DEF SolvePatch, RunGoto, TypeOK
    <3>3. Solving'
      BY <2>1, <3>1, <3>2, <1>0, NoneAssumption DEF DedupInv, Solving, Earlier
    <3>4. ASSUME NEW q \in Patches, q # p, source'[q] # NoEvent, source'[q] = source'[p],
                 base'[q] = base'[p], status'[q] = "pending"
          PROVE  FALSE
      <4>1. r \in Events /\ q \in Earlier(r)
        BY <3>1, <3>4 DEF Earlier
      <4> QED  BY <3>2, <4>1 DEF DedupInv, Solving
    <3>5. ASSUME NEW q \in Patches, NEW t \in Patches, q # p, t # p,
                 source'[q] # NoEvent, source'[q] = source'[t], base'[q] = base'[t],
                 status'[q] = "pending", status'[t] = "pending"
          PROVE  q = t
      BY <3>1, <3>5 DEF DedupInv, OnePendingPerEvent
    <3>6. OnePendingPerEvent'
      BY <3>4, <3>5 DEF OnePendingPerEvent
    <3> QED  BY <3>3, <3>6 DEF DedupInv
  <2> QED  BY <1>2, <2>2, <2>3, RunPatches
<1>3. CASE UNCHANGED vars
  BY <1>3
  DEF vars, patchVars, runVars, DedupInv, OnePendingPerEvent, Solving, Earlier
<1> QED  BY <1>1, <1>2, <1>3 DEF Next

\* The search for an earlier patch of the event comes before the calls of the
\* provider and the insert long after it; still no event ever leaves two patches
\* waiting against one version, since no other run writes for the event.
THEOREM EventsDeduplicated == Spec => []OnePendingPerEvent
<1>1. Init => DedupInv
  BY DEF Init, DedupInv, OnePendingPerEvent, Solving, Runs
<1>2. DedupInv => OnePendingPerEvent
  BY DEF DedupInv
<1> QED  BY <1>1, <1>2, InitIInv, NextIInv, NextDedup, PTL DEF Spec

-----------------------------------------------------------------------------
(* The trip *)

\* What an application that has looked for trips misses was inserted after that,
\* and a trip that was not is on the newest version.
TripInv ==
  ~openedLate =>
    /\ trip \in {0, latest}
    /\ \A p \in Patches : InFlight(p) /\ trip = base[p] => p \in selected

\* A step that leaves the trip and the versions alone and inserts none.
LEMMA NoInsertTrip ==
  ASSUME IInv, TripInv, NoInsert, UNCHANGED <<trip, openedLate, selected>>
  PROVE  TripInv'
<1>1. \A p \in Patches : InFlight(p)' => InFlight(p)
  BY DEF InFlight, At, NoInsert
<1>2. \A p \in Patches : InFlight(p) => base[p] # 0
  BY DEF InFlight, At, IInv, ChainInv, PatchesExist
<1> QED  BY <1>1, <1>2 DEF TripInv, NoInsert

LEMMA SelectTrip ==
  ASSUME IInv, TripInv, NEW p \in Patches, SelectTrips(p),
         UNCHANGED <<latest, base, trip, openedLate>>,
         \A q \in Patches : InFlight(q)' => q = p
  PROVE  TripInv'
BY DEF TripInv, SelectTrips

\* The commit moves the trip, unless it was inserted in the meantime.
LEMMA ApplyTrip ==
  ASSUME IInv, TripInv, NEW p \in Patches, InFlight(p), Apply(p),
         UNCHANGED openedLate, \A q \in Patches : ~InFlight(q)'
  PROVE  TripInv'
<1>1. base[p] = latest /\ latest \in Nat /\ latest # 0
  BY DEF IInv, ChainInv, InsertAlone, VersionsMade, TypeOK
<1>2. CASE Advance(p)
  <2>1. latest' = latest + 1 /\ trip' = IF p \in selected THEN latest + 1 ELSE trip
    BY <1>1, <1>2 DEF Advance
  <2> QED  BY <1>1, <2>1 DEF TripInv
<1>3. CASE UNCHANGED <<latest, trip>>
  BY <1>3 DEF TripInv
<1> QED  BY <1>2, <1>3 DEF Apply

LEMMA NextTrip == IInv /\ TripInv /\ [Next]_vars => TripInv'
<1> SUFFICES ASSUME IInv, TripInv, [Next]_vars PROVE TripInv'
  OBVIOUS
<1>0. TypeOK /\ VersionsMade /\ PatchesExist /\ InsertAlone
  BY DEF IInv, ChainInv
<1>1. ASSUME NEW u \in Users, UserStep(u) PROVE TripInv'
  <2>1. CASE AcceptCommit(u)
    <3>1. /\ userPatch[u] \in Patches /\ InFlight(userPatch[u]) /\ Apply(userPatch[u])
          /\ UNCHANGED <<openedLate, runPc>>
          /\ userPc[u] = "commit" /\ userPc' = [userPc EXCEPT ![u] = "done"]
      BY <1>0, <2>1 DEF AcceptCommit, UserGoto, PatchesExist, InFlight, At, runVars
    <3>2. \A q \in Patches : ~InFlight(q)'
      BY <1>0, <3>1 DEF InFlight, At, InsertAlone, TypeOK
    <3> QED  BY <3>1, <3>2, ApplyTrip
  <2>2. CASE AcceptSelect(u) /\ UserGoto(u, "validate", "commit")
    <3>1. /\ userPatch[u] \in Patches /\ SelectTrips(userPatch[u])
          /\ UNCHANGED <<latest, base, trip, openedLate, userPatch, runPc>>
          /\ userPc' = [userPc EXCEPT ![u] = "commit"]
      BY <1>0, <2>2 DEF AcceptSelect, UserGoto, PatchesExist, tripVars, runVars, TypeOK
    <3>2. /\ \A v \in Users : userPc[v] # "commit"
          /\ \A t \in Runs : runPc[t] # "commit"
      BY <3>1, FreeIsAlone DEF SelectTrips
    <3>3. \A v \in Users : userPc'[v] = "commit" => v = u
      BY <1>0, <3>1, <3>2 DEF TypeOK
    <3>4. \A q \in Patches : InFlight(q)' => q = userPatch[u]
      BY <3>1, <3>2, <3>3 DEF InFlight, At
    <3> QED  BY <3>1, <3>4, SelectTrip
  <2>3. CASE OpenInsert(u)
    <3>1. /\ UNCHANGED <<latest, base, selected, userPatch, runPc, runPatch>>
          /\ trip' = userBase[u]
          /\ openedLate' = (\/ userBase[u] # latest
                            \/ \E p \in Patches : InFlight(p) /\ base[p] = userBase[u])
      BY <2>3 DEF OpenInsert, planVars, patchVars, runVars
    <3>2. \A p \in Patches : InFlight(p)' => InFlight(p)
      BY <1>0, <2>3, <3>1 DEF InFlight, At, OpenInsert, UserGoto, TypeOK
    <3> QED  BY <3>1, <3>2 DEF TripInv
  <2>4. CASE ~AcceptCommit(u) /\ ~(AcceptSelect(u) /\ UserGoto(u, "validate", "commit"))
             /\ ~OpenInsert(u)
    <3>1. UNCHANGED <<latest, runPc, runPatch, trip, openedLate>>
      BY <1>1, <2>4
      DEF UserStep, WriteRead, WriteInsert, Reject, AcceptRead, AcceptSelect, OpenRead,
          planVars, tripVars, runVars
    <3>2. UNCHANGED selected
      BY <1>1, <2>4
      DEF UserStep, WriteRead, WriteInsert, Reject, AcceptRead, AcceptSelect, OpenRead,
          planVars, Refuse
    <3>3. \A q \in Patches : base[q] # 0 => base'[q] = base[q]
      BY <1>0, <1>1, <2>4
      DEF UserStep, WriteRead, WriteInsert, Reject, AcceptRead, AcceptSelect, OpenRead,
          patchVars, Insert, TypeOK
    <3>4. \A v \in Users : v # u => userPc'[v] = userPc[v] /\ userPatch'[v] = userPatch[v]
      BY <1>0, <1>1, <2>4
      DEF UserStep, WriteRead, WriteInsert, Reject, AcceptRead, AcceptSelect, OpenRead,
          UserGoto, TypeOK
    <3>5. userPc'[u] # "commit"
      BY <1>0, <1>1, <2>4
      DEF UserStep, WriteRead, WriteInsert, Reject, AcceptRead, AcceptSelect, OpenRead,
          UserGoto, TypeOK
    <3> QED  BY <3>1, <3>2, <3>3, <3>4, <3>5, NoInsertTrip DEF NoInsert
  <2> QED  BY <2>1, <2>2, <2>3, <2>4
<1>2. ASSUME NEW r \in Runs, RunStep(r) PROVE TripInv'
  <2>1. CASE ApplyCommit(r)
    <3>1. /\ runPatch[r] \in Patches /\ InFlight(runPatch[r]) /\ Apply(runPatch[r])
          /\ UNCHANGED <<openedLate, userPc>>
          /\ runPc[r] = "commit" /\ runPc' = [runPc EXCEPT ![r] = "done"]
      BY <1>0, <2>1 DEF ApplyCommit, RunGoto, PatchesExist, InFlight, At, userVars
    <3>2. \A q \in Patches : ~InFlight(q)'
      BY <1>0, <3>1 DEF InFlight, At, InsertAlone, TypeOK
    <3> QED  BY <3>1, <3>2, ApplyTrip
  <2>2. CASE ApplySelect(r) /\ RunGoto(r, "validate", "commit")
    <3>1. /\ runPatch[r] \in Patches /\ SelectTrips(runPatch[r])
          /\ UNCHANGED <<latest, base, trip, openedLate, runPatch, userPc>>
          /\ runPc' = [runPc EXCEPT ![r] = "commit"]
      BY <1>0, <2>2 DEF ApplySelect, RunGoto, PatchesExist, tripVars, userVars, TypeOK
    <3>2. /\ \A v \in Users : userPc[v] # "commit"
          /\ \A t \in Runs : runPc[t] # "commit"
      BY <3>1, FreeIsAlone DEF SelectTrips
    <3>3. \A t \in Runs : runPc'[t] = "commit" => t = r
      BY <1>0, <3>1, <3>2 DEF TypeOK
    <3>4. \A q \in Patches : InFlight(q)' => q = runPatch[r]
      BY <3>1, <3>2, <3>3 DEF InFlight, At
    <3> QED  BY <3>1, <3>4, SelectTrip
  <2>3. CASE ~ApplyCommit(r) /\ ~(ApplySelect(r) /\ RunGoto(r, "validate", "commit"))
    <3>1. UNCHANGED <<latest, userPc, userPatch, trip, openedLate>>
      BY <1>2, <2>3
      DEF RunStep, Load, Propose, SolveNothing, SolvePatch, ReviewLoad, ReviewCommit, ApplyRead,
          ApplySelect, Redeliver, planVars, tripVars, userVars
    <3>2. UNCHANGED selected
      BY <1>2, <2>3
      DEF RunStep, Load, Propose, SolveNothing, SolvePatch, ReviewLoad, ReviewCommit, ApplyRead,
          ApplySelect, Redeliver, planVars, Refuse
    <3>3. \A q \in Patches : base[q] # 0 => base'[q] = base[q]
      BY <1>0, <1>2, <2>3
      DEF RunStep, Load, Propose, SolveNothing, SolvePatch, ReviewLoad, ReviewCommit, ApplyRead,
          ApplySelect, Redeliver, patchVars, Insert, TypeOK
    <3>4. \A t \in Runs : t # r => runPc'[t] = runPc[t] /\ runPatch'[t] = runPatch[t]
      BY <1>0, <1>2, <2>3
      DEF RunStep, Load, Propose, SolveNothing, SolvePatch, ReviewLoad, ReviewCommit, ApplyRead,
          ApplySelect, Redeliver, RunGoto, TypeOK
    <3>5. runPc'[r] # "commit"
      BY <1>0, <1>2, <2>3
      DEF RunStep, Load, Propose, SolveNothing, SolvePatch, ReviewLoad, ReviewCommit, ApplyRead,
          ApplySelect, Redeliver, RunGoto, TypeOK
    <3> QED  BY <3>1, <3>2, <3>3, <3>4, <3>5, NoInsertTrip DEF NoInsert
  <2> QED  BY <2>1, <2>2, <2>3
<1>3. CASE UNCHANGED vars
  BY <1>3 DEF vars, planVars, patchVars, tripVars, userVars, runVars, TripInv, InFlight, At
<1> QED  BY <1>1, <1>2, <1>3 DEF Next

\* A trip follows the plan although an application looks for trips before it
\* commits: it is left behind only if it was opened from a version replaced before
\* the insert, or after the replacement had looked, whichever request or replan
\* that was; and it is never on a version that does not exist.
THEOREM TripFollowsPlan == Spec => []TripMovesWithPlan
<1>1. Init => TripInv
  BY DEF Init, TripInv, InFlight, At
<1>2. IInv /\ TripInv => TripMovesWithPlan
  BY DEF IInv, ChainInv, ReadsExist, TripInv, TripMovesWithPlan
<1> QED  BY <1>1, <1>2, InitIInv, NextIInv, NextTrip, PTL DEF Spec

-----------------------------------------------------------------------------
(* The decision of the user *)

\* Request u holds the row of the patch it accepts.
Accepting(u) == userPc[u] \in {"validate", "commit"}

\* What stands between a decision and a second one, on a trip that has not opted
\* in: no replan applies anything, and a patch that is being accepted is still
\* pending and locked by one request.
Undecided ==
  /\ \A r \in Runs : runPc[r] \notin {"apply", "validate", "commit"}
  /\ \A u \in Users : Accepting(u) => status[userPatch[u]] = "pending"
  /\ \A u, v \in Users : u # v /\ Accepting(u) /\ Accepting(v) => userPatch[u] # userPatch[v]

DecideInv ==
  /\ \A p \in Patches : base[p] = 0 => status[p] = "absent"
  /\ ~optIn => Undecided

\* The decision of every patch stands in this step.
Stands(p) == status[p] \in {"accepted", "rejected"} => status'[p] \in {status[p], "blocked"}

LEMMA InsertDecide ==
  ASSUME TypeOK, DecideInv, NEW p \in Patches, NEW v \in 1..latest, NEW e, NEW k,
         Insert(p, v, e, k)
  PROVE  /\ \A q \in Patches : base'[q] = 0 => status'[q] = "absent"
         /\ \A q \in Patches : status[q] = "pending" => status'[q] = "pending"
         /\ \A q \in Patches : Stands(q)
<1>1. /\ base[p] = 0 /\ status[p] = "absent" /\ base'[p] = v /\ v # 0
      /\ status'[p] = "pending"
      /\ \A q \in Patches : q # p => base'[q] = base[q] /\ status'[q] = status[q]
  BY DEF Insert, DecideInv, TypeOK
<1> QED  BY <1>1 DEF DecideInv, Stands

LEMMA UserDecides ==
  ASSUME IInv, DecideInv, NEW u \in Users, UserStep(u)
  PROVE  DecideInv' /\ \A p \in Patches : ~optIn => Stands(p)
<1>0. TypeOK /\ PatchesExist /\ ReadsExist
  BY DEF IInv, ChainInv
<1>1. UNCHANGED <<runPc, optIn>> /\ \A v \in Users : v # u =>
        userPc'[v] = userPc[v] /\ userPatch'[v] = userPatch[v]
  BY <1>0
  DEF UserStep, WriteRead, WriteInsert, Reject, AcceptRead, AcceptSelect, AcceptCommit,
      OpenRead, OpenInsert, UserGoto, runVars, tripVars, TypeOK
<1>2. ASSUME NEW p \in Patches, WriteInsert(u, p)
      PROVE  DecideInv' /\ \A q \in Patches : Stands(q)
  <2>1. userBase[u] \in 1..latest /\ Insert(p, userBase[u], NoEvent, Unseen)
    BY <1>0, <1>2 DEF WriteInsert, UserGoto, ReadsExist
  <2>2. userPc'[u] = "done" /\ UNCHANGED userPatch
    BY <1>0, <1>2 DEF WriteInsert, UserGoto, TypeOK
  <2>3. \A v \in Users : Accepting(v) => userPatch[v] \in Patches
    BY <1>0 DEF PatchesExist, Accepting
  <2>4. /\ \A q \in Patches : base'[q] = 0 => status'[q] = "absent"
        /\ \A q \in Patches : status[q] = "pending" => status'[q] = "pending"
        /\ \A q \in Patches : Stands(q)
    BY <1>0, <2>1, InsertDecide
  <2>5. ~optIn => Undecided'
    BY <1>1, <2>2, <2>3, <2>4 DEF DecideInv, Undecided, Accepting
  <2> QED  BY <1>1, <2>4, <2>5 DEF DecideInv
<1>3. ASSUME NEW p \in Patches, Reject(u, p)
      PROVE  DecideInv' /\ \A q \in Patches : Stands(q)
  <2>1. /\ status[p] = "pending" /\ ~Locked(p) /\ UNCHANGED <<base, userPatch>>
        /\ userPc'[u] = "done" /\ \A q \in Patches : q # p => status'[q] = status[q]
    BY <1>0, <1>3 DEF Reject, UserGoto, TypeOK
  <2>2. base[p] # 0
    BY <2>1 DEF DecideInv
  <2>3. \A v \in Users : Accepting(v) => userPatch[v] # p /\ userPatch[v] \in Patches
    BY <1>0, <2>1 DEF Locked, At, PatchesExist, Accepting
  <2>4. ~optIn => Undecided'
    BY <1>1, <2>1, <2>3 DEF DecideInv, Undecided, Accepting
  <2> QED  BY <1>1, <2>1, <2>2, <2>4 DEF DecideInv, Stands
<1>4. ASSUME NEW p \in Patches, AcceptRead(u, p)
      PROVE  DecideInv' /\ \A q \in Patches : Stands(q)
  <2>1. /\ status[p] = "pending" /\ ~Locked(p) /\ UNCHANGED <<base, status>>
        /\ userPatch'[u] = p
    BY <1>0, <1>4 DEF AcceptRead, patchVars, TypeOK
  <2>2. \A v \in Users : Accepting(v) => userPatch[v] # p
    BY <2>1 DEF Locked, At, Accepting
  <2>3. ~optIn => Undecided'
    BY <1>1, <2>1, <2>2 DEF DecideInv, Undecided, Accepting
  <2> QED  BY <1>1, <2>1, <2>3 DEF DecideInv, Stands
<1>5. CASE AcceptCommit(u)
  <2>1. /\ userPatch[u] \in Patches /\ base[userPatch[u]] # 0 /\ Accepting(u)
        /\ Apply(userPatch[u]) /\ UNCHANGED <<base, userPatch>> /\ userPc'[u] = "done"
    BY <1>0, <1>5 DEF AcceptCommit, UserGoto, PatchesExist, Accepting, TypeOK
  <2>2. \A q \in Patches : q # userPatch[u] => status'[q] = status[q]
    BY <1>0, <2>1, ApplySettles
  <2>3. ~optIn => \A v \in Users : v # u /\ Accepting(v) =>
          userPatch[v] # userPatch[u] /\ userPatch[v] \in Patches
    BY <1>0, <2>1 DEF DecideInv, Undecided, Accepting, PatchesExist
  <2>4. ~optIn => Undecided'
    BY <1>1, <2>1, <2>2, <2>3 DEF DecideInv, Undecided, Accepting
  <2>5. ~optIn => status[userPatch[u]] = "pending"
    BY <2>1 DEF DecideInv, Undecided, Accepting
  <2> QED  BY <1>1, <2>1, <2>2, <2>4, <2>5 DEF DecideInv, Stands
<1>7. CASE AcceptSelect(u)
  <2>1. /\ userPatch[u] \in Patches /\ base[userPatch[u]] # 0 /\ Accepting(u)
        /\ UNCHANGED <<base, userPatch>>
        /\ \/ userPc'[u] = "done" /\ Refuse(userPatch[u])
           \/ userPc'[u] = "commit" /\ SelectTrips(userPatch[u])
    BY <1>0, <1>7 DEF AcceptSelect, UserGoto, PatchesExist, Accepting, TypeOK
  <2>2. /\ \A q \in Patches : q # userPatch[u] => status'[q] = status[q]
        /\ status'[userPatch[u]] \in {status[userPatch[u]], "blocked"}
        /\ userPc'[u] # "done" => UNCHANGED status
    BY <1>0, <2>1, SelectSettles
  <2>3. ~optIn => \A v \in Users : v # u /\ Accepting(v) =>
          userPatch[v] # userPatch[u] /\ userPatch[v] \in Patches
    BY <1>0, <2>1 DEF DecideInv, Undecided, Accepting, PatchesExist
  <2>4. ~optIn => Undecided'
    BY <1>1, <2>1, <2>2, <2>3 DEF DecideInv, Undecided, Accepting
  <2> QED  BY <1>1, <2>1, <2>2, <2>4 DEF DecideInv, Stands
<1>6. CASE WriteRead(u) \/ OpenRead(u) \/ OpenInsert(u)
  <2>1. UNCHANGED <<patchVars, userPatch>> /\ ~Accepting(u)'
    BY <1>0, <1>6 DEF WriteRead, OpenRead, OpenInsert, UserGoto, Accepting, TypeOK
  <2>2. ~optIn => Undecided'
    BY <1>1, <2>1 DEF DecideInv, Undecided, Accepting, patchVars
  <2> QED  BY <1>1, <2>1, <2>2 DEF DecideInv, Stands, patchVars
<1> QED  BY <1>2, <1>3, <1>4, <1>5, <1>6, <1>7 DEF UserStep

LEMMA RunDecides ==
  ASSUME IInv, DecideInv, NEW r \in Runs, RunStep(r)
  PROVE  DecideInv' /\ \A p \in Patches : ~optIn => Stands(p)
<1>0. TypeOK /\ PatchesExist /\ ReadsExist
  BY DEF IInv, ChainInv
<1>1. /\ UNCHANGED <<userPc, userPatch, optIn>>
      /\ \A v \in Users : Accepting(v) => userPatch[v] \in Patches
  BY <1>0
  DEF RunStep, Load, Propose, SolveNothing, SolvePatch, ReviewLoad, ReviewCommit, ApplyRead,
      ApplySelect, ApplyCommit, Redeliver, userVars, tripVars, PatchesExist, Accepting
<1>2. ~optIn => \A t \in Runs : runPc'[t] \notin {"apply", "validate", "commit"}
  <2>1. \A t \in Runs : t # r => runPc'[t] = runPc[t]
    BY <1>0
    DEF RunStep, Load, Propose, SolveNothing, SolvePatch, ReviewLoad, ReviewCommit, ApplyRead,
        ApplySelect, ApplyCommit, Redeliver, RunGoto, TypeOK
  <2>2. ~optIn => /\ runPc[r] \notin {"apply", "validate"}
                 /\ runPc'[r] \notin {"apply", "validate", "commit"}
    BY <1>0
    DEF DecideInv, Undecided, RunStep, Load, Propose, SolveNothing, SolvePatch, ReviewLoad,
        ReviewCommit, ApplyRead, ApplySelect, ApplyCommit, Redeliver, RunGoto, TypeOK
  <2> QED  BY <2>1, <2>2 DEF DecideInv, Undecided, Accepting
<1>3. ASSUME NEW p \in Patches, SolvePatch(r, p)
      PROVE  DecideInv' /\ \A q \in Patches : Stands(q)
  <2>1. runTrip[r] \in 1..latest
        /\ \E k \in Risks : Insert(p, runTrip[r], IF r \in Events THEN r ELSE NoEvent, k)
    BY <1>0, <1>3 DEF SolvePatch, RunGoto, ReadsExist
  <2>2. /\ \A q \in Patches : base'[q] = 0 => status'[q] = "absent"
        /\ \A q \in Patches : status[q] = "pending" => status'[q] = "pending"
        /\ \A q \in Patches : Stands(q)
    BY <1>0, <2>1, InsertDecide
  <2> QED  BY <1>1, <1>2, <2>2 DEF DecideInv, Undecided, Accepting
<1>4. CASE ReviewCommit(r)
  <2>1. /\ ~Locked(runPatch[r]) /\ UNCHANGED base /\ runPatch[r] \in Patches
        /\ base[runPatch[r]] # 0
        /\ UNCHANGED status \/ status' = [status EXCEPT ![runPatch[r]] = "blocked"]
    BY <1>0, <1>4 DEF ReviewCommit, RunGoto, PatchesExist
  <2>2. \A v \in Users : Accepting(v) => userPatch[v] # runPatch[r]
    BY <2>1 DEF Locked, At, Accepting
  <2>3. /\ \A q \in Patches : q # runPatch[r] => status'[q] = status[q]
        /\ status'[runPatch[r]] \in {status[runPatch[r]], "blocked"}
    BY <1>0, <2>1 DEF TypeOK
  <2>4. ~optIn => Undecided'
    BY <1>1, <1>2, <2>2, <2>3 DEF DecideInv, Undecided, Accepting
  <2> QED  BY <1>1, <2>1, <2>3, <2>4 DEF DecideInv, Stands
<1>5. CASE ApplyCommit(r)
  <2>1. /\ runPatch[r] \in Patches /\ base[runPatch[r]] # 0 /\ Apply(runPatch[r])
        /\ UNCHANGED base /\ runPc[r] = "commit"
    BY <1>0, <1>5 DEF ApplyCommit, RunGoto, PatchesExist
  <2>2. \A q \in Patches : q # runPatch[r] => status'[q] = status[q]
    BY <1>0, <2>1, ApplySettles
  <2>3. optIn
    BY <2>1 DEF DecideInv, Undecided, Accepting
  <2> QED  BY <1>1, <2>1, <2>2, <2>3 DEF DecideInv
<1>7. CASE ApplySelect(r)
  <2>1. /\ runPatch[r] \in Patches /\ base[runPatch[r]] # 0 /\ UNCHANGED base
        /\ runPc[r] = "validate"
        /\ (SelectTrips(runPatch[r]) \/ Refuse(runPatch[r]))
    BY <1>0, <1>7 DEF ApplySelect, RunGoto, PatchesExist
  <2>2. \A q \in Patches : q # runPatch[r] => status'[q] = status[q]
    BY <1>0, <2>1, SelectSettles
  <2>3. optIn
    BY <2>1 DEF DecideInv, Undecided
  <2> QED  BY <1>1, <2>1, <2>2, <2>3 DEF DecideInv
<1>6. CASE \/ Load(r) \/ Propose(r) \/ SolveNothing(r) \/ ReviewLoad(r)
           \/ ApplyRead(r) \/ Redeliver(r)
  <2>1. UNCHANGED patchVars
    BY <1>6 DEF Load, Propose, SolveNothing, ReviewLoad, ApplyRead, Redeliver
  <2> QED  BY <1>1, <1>2, <2>1 DEF DecideInv, Undecided, Accepting, Stands, patchVars
<1> QED  BY <1>3, <1>4, <1>5, <1>6, <1>7 DEF RunStep

LEMMA NextDecides ==
  IInv /\ DecideInv /\ [Next]_vars => DecideInv' /\ \A p \in Patches : ~optIn => Stands(p)
<1> SUFFICES ASSUME IInv, DecideInv, [Next]_vars
             PROVE  DecideInv' /\ \A p \in Patches : ~optIn => Stands(p)
  OBVIOUS
<1>1. CASE UNCHANGED vars
  BY <1>1 DEF vars, patchVars, tripVars, userVars, runVars, DecideInv, Undecided, Accepting, Stands
<1> QED  BY <1>1, UserDecides, RunDecides DEF Next

\* The row lock and the check of the status under it make a decision final: on a
\* trip that has not opted in, an accepted or rejected patch is never decided
\* again, though a blocking review may still mark it.
THEOREM DecisionsFinal == Spec => DecisionStands
<1>1. Init => DecideInv
  BY DEF Init, DecideInv, Undecided, Accepting
<1>2. IInv /\ DecideInv /\ [Next]_vars
        => [\A p \in Patches :
              ~optIn /\ status[p] \in {"accepted", "rejected"}
                => status'[p] \in {status[p], "blocked"}]_status
  BY NextDecides DEF Stands
<1> QED  BY <1>1, <1>2, InitIInv, NextIInv, NextDecides, PTL DEF Spec, DecisionStands

=============================================================================
