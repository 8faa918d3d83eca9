-------------------------- MODULE MCAgentTransport --------------------------
(* Instances of AgentTransport for TLC. *)
EXTENDS AgentTransport

=============================================================================
