------------------------ MODULE MCAgentProfileFetcher ------------------------
(***************************************************************************)
(* An instance of AgentProfileFetcher for TLC.                             *)
(***************************************************************************)
EXTENDS AgentProfileFetcher, TLC

CONSTANTS u1, u2, h1, h2

\* One url of each host.
HostOfTwo == u1 :> h1 @@ u2 :> h2
=============================================================================
