------------------------ MODULE AuthorizationRegistry ------------------------
(***************************************************************************)
(* What the payment ledger promises its callers: an authorization is taken *)
(* for one cart, for ever, and every answer agrees with who has it.  This  *)
(* is the ledger as CheckoutSettlement uses it, in one step.               *)
(***************************************************************************)
CONSTANTS Callers, Carts, Authorizations, None

VARIABLES holder,   \* the cart that holds each authorization
          answer    \* what each caller has been told, until it asks again

vars == <<holder, answer>>

Verdicts == {"granted", "refused", "failed"}
NoAnswer == [verdict |-> "none", cart |-> None, auth |-> None]

Init == /\ holder = [a \in Authorizations |-> None]
        /\ answer = [w \in Callers |-> NoAnswer]

Ask(w) == /\ answer' = [answer EXCEPT ![w] = NoAnswer]
          /\ UNCHANGED holder

Take(c, a) == /\ holder[a] = None
              /\ holder' = [holder EXCEPT ![a] = c]
              /\ UNCHANGED answer

\* A call may fail without a verdict, whether or not its cart has the
\* authorization by then.
Reply(w, c, a, verdict) ==
    /\ answer[w] = NoAnswer
    /\ verdict = "granted" => holder[a] = c
    /\ verdict = "refused" => holder[a] \notin {None, c}
    /\ answer' = [answer EXCEPT ![w] = [verdict |-> verdict, cart |-> c, auth |-> a]]
    /\ UNCHANGED holder

Next ==
    \/ \E w \in Callers : Ask(w)
    \/ \E c \in Carts, a \in Authorizations : Take(c, a)
    \/ \E w \in Callers, c \in Carts, a \in Authorizations, v \in Verdicts : Reply(w, c, a, v)

Spec == Init /\ [][Next]_vars
=============================================================================
