----------------------------- MODULE PlanChain -----------------------------
(***************************************************************************)
(* What the versioning of formal plans promises: plan versions are numbered *)
(* consecutively and immutable, every version after the first comes from   *)
(* one patch that was proposed against the version just before it, and no  *)
(* patch makes two versions.  PlanVersioning is shown to implement it.     *)
(***************************************************************************)
EXTENDS Naturals

CONSTANT Patches    \* plan_patches rows

VARIABLES
  latest,           \* the newest version of the plan
  base,             \* PlanPatch.base_version, 0 before the patch exists
  madeBy            \* the version a patch has made, 0 if none

chainVars == <<latest, base, madeBy>>

ChainInit ==
  /\ latest = 1
  /\ base = [p \in Patches |-> 0]
  /\ madeBy = [p \in Patches |-> 0]

\* A patch is written against a version that exists.
Propose(p) ==
  /\ base[p] = 0
  /\ base'[p] \in 1..latest
  /\ base' = [base EXCEPT ![p] = base'[p]]
  /\ UNCHANGED <<latest, madeBy>>

\* It makes the next version only from the one it was written against.
Publish(p) ==
  /\ base[p] = latest /\ madeBy[p] = 0
  /\ latest' = latest + 1
  /\ madeBy' = [madeBy EXCEPT ![p] = latest + 1]
  /\ UNCHANGED base

ChainNext == \E p \in Patches : Propose(p) \/ Publish(p)

ChainSpec == ChainInit /\ [][ChainNext]_chainVars

=============================================================================
