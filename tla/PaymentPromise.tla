---------------------------- MODULE PaymentPromise ----------------------------
(***************************************************************************)
(* What checkout completion promises a buyer, without carts' locks,        *)
(* markers or sessions: a cart is never exposed to two signed payment      *)
(* authorizations, an authorization is never exposed for two carts, and an *)
(* exposure ends only when the gateway refused it before any money moved.  *)
(*                                                                         *)
(* An authorization is exposed for a cart from the moment a settle call    *)
(* for it is handed to the gateway: from then on its money may move.       *)
(***************************************************************************)
CONSTANTS Carts, Authorizations

VARIABLES exposed,   \* the pairs <<cart, authorization>> whose money may move
          charged    \* the authorizations whose money has moved

vars == <<exposed, charged>>

Init == exposed = {} /\ charged = {}

\* A cart puts an authorization at stake; no other cart and no other
\* authorization of this cart is at stake then.
Expose(c, a) ==
    /\ \A p \in exposed : p = <<c, a>> \/ (p[1] # c /\ p[2] # a)
    /\ exposed' = exposed \cup {<<c, a>>}
    /\ UNCHANGED charged

\* The gateway refuses: the authorization is as good as never handed over.
Refuse(c, a) ==
    /\ a \notin charged
    /\ exposed' = exposed \ {<<c, a>>}
    /\ UNCHANGED charged

\* The money moves, once: an on-chain authorization has one nonce.
Charge(c, a) ==
    /\ <<c, a>> \in exposed
    /\ a \notin charged
    /\ charged' = charged \cup {a}
    /\ UNCHANGED exposed

Next == \E c \in Carts, a \in Authorizations : Expose(c, a) \/ Refuse(c, a) \/ Charge(c, a)

Spec == Init /\ [][Next]_vars
=============================================================================
