-------------------------- MODULE MCPlanVersioning --------------------------
(***************************************************************************)
(* Small instances of PlanVersioning: one trip event, one replan through   *)
(* the API and the requests of the user compete for three patches.         *)
(***************************************************************************)
EXTENDS PlanVersioning, TLC

\* The reviews that differ in their consequence: all low, a risk that only
\* the operations show, a blocking operation.
SomeRisks ==
  { [operations |-> "low",     impact |-> "low"],
    [operations |-> "confirm", impact |-> "low"],
    [operations |-> "blocked", impact |-> "low"] }

PatchUserSymmetry == Permutations(Patches) \cup Permutations(Users)

=============================================================================
