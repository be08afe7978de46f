-------------------------- MODULE OverdueCompletion --------------------------
(***************************************************************************)
(* What CheckoutSettlement leaves out of completion: a lock that expires   *)
(* while its holder still waits for the payment gateway, and Medusa's own  *)
(* completion of an agent's cart (/store/carts/:id/complete).              *)
(*                                                                         *)
(* The verify call has no timeout and nobody renews the lock, so that an   *)
(* attempt may outlive its lock and share the cart with the next request.  *)
(* Medusa's completion takes the same lock, and is let through by the      *)
(* validate hook while the settling marker is at most as old as a lock may *)
(* get.  The marker is begun after the lock was taken: it is still fresh   *)
(* for a while when the lock is gone.                                      *)
(***************************************************************************)
EXTENDS CheckoutSettlement

VARIABLES
    aged,        \* the settling marker of a cart is older than the TTL
    overlapped,  \* history: carts changed by two requests at a time
    orphaned     \* history: carts whose order lost the attempt that made it

overdueVars == <<aged, overlapped, orphaned>>
allVars == <<vars, overdueVars>>

OverdueInit ==
    /\ Init
    /\ aged = [c \in Carts |-> FALSE]
    /\ overlapped = {} /\ orphaned = {}

-----------------------------------------------------------------------------
(* Requests that share a cart.                                             *)

\* The steps of a request between its admission and its compensation.
Inside == {"update", "cancel", "reserve", "setup", "begin", "complete", "hook",
           "authorize", "settling", "capture", "clear", "undo", "compensate"}

IsInside(v, c) == CartOf(v) = c /\ pc[v] \in Inside

\* Admission checks the session under the lock, which an earlier request may
\* have lost.  What two admitted requests do to each other is not modelled: a
\* cart that has them is where the model ends.
Overlap(w) ==
    LET c == CartOf(w) IN
    overlapped' = IF pc'[w] \in Inside /\ \E v \in Workers \ {w} : IsInside(v, c)
                  THEN overlapped \cup {c} ELSE overlapped

Admit(w) ==
    /\ GuardPendingSettlement(w) \/ AssertSessionMutable(w)
    /\ Overlap(w)
    /\ UNCHANGED <<aged, orphaned>>

\* The same for a shipping method that changes the total beside an attempt whose
\* lock has expired.
AddMethod(w) ==
    LET c == CartOf(w) IN
    /\ AddShippingMethod(w)
    /\ overlapped' = IF total'[c] # total[c] /\ \E v \in Workers : IsInside(v, c)
                     THEN overlapped \cup {c} ELSE overlapped
    /\ UNCHANGED <<aged, orphaned>>

-----------------------------------------------------------------------------
(* Medusa's own completion of the cart.                                    *)

IsNative(w) == req[w].op = "native"

RequestNative(w, c) ==
    /\ RequestChange(w, c, "native")
    /\ UNCHANGED overdueVars

NativeAcquire(w) ==
    LET c == CartOf(w) IN
    /\ pc[w] = "wait" /\ IsNative(w)
    /\ lock[c] = None
    /\ lock' = [lock EXCEPT ![c] = w]
    /\ Goto(w, "validate")
    /\ UNCHANGED <<req, sessionVars, cartVars, ledger, gatewayVars, mishaps, overdueVars>>

IsFreshSettlingMarker(c) == marker[c].state = "settling" /\ ~aged[c]

\* A faulty form of NativeAllowed: the validate hook is not registered.
NativeAlwaysAllowed(c) == TRUE

NativeAllowed(c) == ~canceled[c] /\ IsFreshSettlingMarker(c)

\* It authorizes the payment session it finds.
NativeComplete(w) ==
    LET c == CartOf(w) IN
    /\ pc[w] = "validate" /\ IsNative(w)
    /\ \/ /\ NativeAllowed(c)
          /\ ~ordered[c]
          /\ psession[c].status \in {"pending", "authorized"}
          /\ MakeOrder(c)
          /\ req' = [req EXCEPT ![w].made = TRUE, ![w].cred = psession[c].cred]
          /\ Goto(w, "hook")
       \/ LeaveTo(w, "idle") /\ UNCHANGED <<ordered, due>> \* has its order, or refused
    /\ Overlap(w)
    /\ UNCHANGED <<lock, sessionVars, total, shipped, psession, ledger, gatewayVars, mishaps, aged, orphaned>>

\* Neither capture nor the marker of the agent's attempt is its business.
NativeEnds(w) ==
    /\ pc[w] \in {"capture", "compensate"} /\ IsNative(w)
    /\ LeaveTo(w, "idle")
    /\ UNCHANGED <<lock, sessionVars, cartVars, ledger, gatewayVars, mishaps, overdueVars>>

-----------------------------------------------------------------------------
(* Time.                                                                   *)

\* The lock's TTL ends while its holder waits for the gateway.
ExpireLock(c) ==
    /\ \E w \in Workers :
          lock[c] = w /\ CartOf(w) = c /\ pc[w] \in {"authorize", "settling"}
    /\ Mishap
    /\ lock' = [lock EXCEPT ![c] = None]
    /\ UNCHANGED <<pc, req, sessionVars, cartVars, ledger, gatewayVars, overdueVars>>

\* An attempt takes its lock before it begins its marker: while it has the lock,
\* the marker is fresh.
AgeMarker(c) ==
    /\ marker[c].state = "settling" /\ ~aged[c]
    /\ \A w \in Workers : lock[c] = w => ~IsInside(w, c)
    /\ aged' = [aged EXCEPT ![c] = TRUE]
    /\ UNCHANGED <<vars, overlapped, orphaned>>

BeginAttempt(w) ==
    /\ BeginSettlementAttempt(w)
    /\ aged' = [aged EXCEPT ![CartOf(w)] = FALSE]
    /\ UNCHANGED <<overlapped, orphaned>>

\* The process of an attempt that has made an order dies: nobody undoes it.
Die(w) ==
    /\ Crash(w)
    /\ orphaned' = IF req[w].made THEN orphaned \cup {CartOf(w)} ELSE orphaned
    /\ UNCHANGED <<aged, overlapped>>

-----------------------------------------------------------------------------
\* Steps as in CheckoutSettlement.
AgentsOnly(w) ==
    /\ ~IsNative(w)
    /\ \/ EnsureShippingMethod(w) \/ AcquireLock(w) \/ UpdateCart(w) \/ CancelSession(w)
       \/ FetchUpdatedCart(w) \/ PrepareCheckoutPayment(w)
       \/ ReservePaymentAuthorization(w) \/ SetupPayment(w) \/ CompleteCart(w)
       \/ CapturePayment(w) \/ ClearSettlementAttempt(w) \/ CompensateSettlementAttempt(w)

AsBefore(w) ==
    /\ \/ AgentsOnly(w)
       \/ LockTimeout(w) \/ ReleaseLock(w)
       \/ MarkProviderCalled(w) \/ UndoCompleteCart(w)
       \/ AuthorizeSettledSession(w) \/ DeclineLocally(w) \/ CallSettle(w) \/ SettleReply(w)
    /\ UNCHANGED overdueVars

OverdueStep(w) ==
    \/ AsBefore(w) \/ Admit(w) \/ AddMethod(w) \/ BeginAttempt(w) \/ Die(w)
    \/ NativeAcquire(w) \/ NativeComplete(w) \/ NativeEnds(w)

OverdueNext ==
    /\ overlapped = {}
    /\ \/ \E w \in Workers : OverdueStep(w)
       \/ \E w \in Workers, c \in Carts :
             \/ RequestNative(w, c)
             \/ \E k \in Credentials : ValidatePrerequisites(w, c, k) /\ UNCHANGED overdueVars
             \/ \E op \in {"update", "cancel"} : RequestChange(w, c, op) /\ UNCHANGED overdueVars
       \/ \E c \in Carts : ExpireLock(c) \/ AgeMarker(c)
       \/ \E a \in Authorizations : MoneyMoves(a) /\ UNCHANGED overdueVars

OverdueSpec == OverdueInit /\ [][OverdueNext]_allVars

-----------------------------------------------------------------------------
\* Neither a lock lost under its holder nor Medusa's own completion puts a second
\* authorization of a cart at stake: the marker holds what the lock no longer
\* does.  It takes a request that is admitted while an attempt is under way, which
\* is a retry with the same credential (or follows one whose lock was released
\* by an overdue request).
SecondNeedsOverlap ==
    \A c \in Carts \ overlapped, a, b \in Authorizations :
        <<c, a>> \in exposed /\ <<c, b>> \in exposed => a = b

\* An order that nobody is working on has been paid in full, whoever completed
\* the cart, unless its attempt died or shared the cart.
OrderIsPaidUnlessOrphaned ==
    \A c \in Carts \ (overlapped \cup orphaned) :
        ordered[c] /\ (\A w \in Workers : ~IsInside(w, c)) =>
            \E k \in Credentials : /\ <<c, AuthOf[k]>> \in exposed
                                  /\ AuthOf[k] \in charged
                                  /\ AmountOf[k] = due[c]
=============================================================================
