------------------------- MODULE MCIdempotencyCache -------------------------
(***************************************************************************)
(* An instance of IdempotencyCache for TLC: three requests, an agent with  *)
(* and without an API key, answered in one UCP version or by ACP.          *)
(***************************************************************************)
EXTENDS IdempotencyCache, TLC

Symmetric == Permutations(Requests) \cup Permutations(Bodies)
=============================================================================
