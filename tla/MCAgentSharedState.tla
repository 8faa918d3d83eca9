------------------------ MODULE MCAgentSharedState ------------------------
(***************************************************************************)
(* Small instances of AgentSharedState.  Runs are interchangeable.         *)
(***************************************************************************)
EXTENDS AgentSharedState

RunSymmetry == Permutations(Runs)

=============================================================================
