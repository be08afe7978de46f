-------------------------- MODULE MCQuotedPayment --------------------------
(***************************************************************************)
(* An instance of QuotedPayment for TLC: two calls, two totals, two keys.  *)
(***************************************************************************)
EXTENDS QuotedPayment, TLC

Symmetric == Permutations(Calls) \cup Permutations(Totals) \cup Permutations(SigningKeys)

\* A bound.  Calls do not know of the payment, of the agent's protocol or of
\* autoCapture: two of them are at work together only before the first attempt to
\* pay, and in one of the four settings.
AtWork == { c \in Calls : ~At(c, "idle") }

CallsMeetEarly ==
    \A c, d \in AtWork : c = d \/ (Paying("open") /\ wire = "ucp" /\ autoCapture)
=============================================================================
