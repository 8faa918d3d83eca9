------------------------- MODULE MCPlanningRequests -------------------------
(* A small instance of PlanningRequests: two handlers and one key, a body  *)
(* that leaves everything to long-term memory and one that says what it    *)
(* wants, and three requests in all.                                       *)
EXTENDS PlanningRequests, TLC

CONSTANTS s1, s2, k1, said, remembered, preference, unset

MCFields == {preference, "origin"}
MCBodies == {[said |-> [f \in MCFields |-> unset], memory |-> TRUE, cue |-> FALSE],
             [said |-> [f \in MCFields |-> IF f = preference THEN said ELSE unset],
              memory |-> TRUE, cue |-> FALSE]}
MCAnswers == {<<"origin", said>>, <<preference, said>>, <<"human_confirmation", said>>}

Symmetry == Permutations({s1, s2})
=============================================================================
