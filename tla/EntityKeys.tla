----------------------------- MODULE EntityKeys -----------------------------
(* The entities the agent reports for: its own and those of integrations. *)

CONSTANTS
  Agent,        \* the entity of the agent
  Remotes       \* other entities

ASSUME AgentAssumption == Agent \notin Remotes

Entities == {Agent} \cup Remotes
=============================================================================
