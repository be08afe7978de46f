--------------------------- MODULE MCAgentWebhooks ---------------------------
EXTENDS AgentWebhooks, TLC

Symmetric == Permutations(Handlers) \cup Permutations(Statuses)
=============================================================================
