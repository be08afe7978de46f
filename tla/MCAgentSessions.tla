--------------------------- MODULE MCAgentSessions ---------------------------
(***************************************************************************)
(* An instance of AgentSessions for TLC: an old version that offers less,  *)
(* a new one, and deployments that are lenient, strict, and on the old     *)
(* version alone.                                                          *)
(***************************************************************************)
EXTENDS AgentSessions, TLC

CONSTANTS old, new

Deployments ==
    {[current |-> new, enabled |-> {old, new}, negotiation |-> "lenient"],
     [current |-> new, enabled |-> {old, new}, negotiation |-> "strict"],
     [current |-> old, enabled |-> {old},      negotiation |-> "lenient"]}

Symmetric == Permutations(Slots) \cup Permutations(Sessions) \cup Permutations(ApiKeys)
=============================================================================
