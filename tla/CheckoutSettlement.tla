-------------------------- MODULE CheckoutSettlement --------------------------
(***************************************************************************)
(* Completing, updating and canceling an agent checkout session while its  *)
(* payment settles.                                                        *)
(*                                                                         *)
(* Workers are concurrent HTTP requests of the server.  Each runs one      *)
(* workflow step at a time; steps of different workers interleave.  The    *)
(* cart lock, the agent session row (canceled_at, pending_settlement,      *)
(* handler_data), the payment session, the order and the payment ledger    *)
(* are shared.  The payment gateway moves money on its own, possibly after *)
(* the call that asked for it has timed out.                               *)
(*                                                                         *)
(* Mishaps are the failures that lose state: the process of a worker dies  *)
(* (its lock expires by TTL), an answer of the provider is not saved, or a *)
(* write of the settlement marker fails.  MaxMishaps bounds them.          *)
(***************************************************************************)
EXTENDS SettlementRules, Naturals

CONSTANTS
    Carts, Workers,
    Credentials,      \* the payment credentials agents send, by their digest
    Authorizations,   \* the signed authorizations they carry: asset, payer, nonce
    AuthOf,           \* the authorization in a credential
    Amounts,          \* totals a cart can have
    AmountOf,         \* the amount a credential signs
    MaxMishaps

ASSUME ConstantsAssumption ==
    /\ AuthOf \in [Credentials -> Authorizations]
    /\ AmountOf \in [Credentials -> Amounts]
    /\ MaxMishaps \in Nat
    /\ None \notin Carts \cup Workers \cup Credentials \cup Authorizations \cup Amounts

VARIABLES
    pc,        \* the next step of each worker
    req,       \* its request: what it does, and what its attempt remembers
    lock,      \* the worker holding the lock of each cart
    canceled,  \* agent session: canceled_at
    marker,    \* agent session: pending_settlement
    quote,     \* agent session: the amount of the quote in handler_data
    total,     \* the cart's total (and the amount of its payment collection)
    shipped,   \* the cart has a shipping method
    ordered,   \* the cart's order exists and its completed_at is set
    due,       \* history: the total the order was made for
    psession,  \* the payment session of the cart
    ledger,    \* payment ledger: the cart that holds each authorization
    exposed,   \* gateway: the pairs <<cart, authorization>> it may move money for
    charged,   \* gateway: the authorizations whose money has moved
    mishaps

sessionVars == <<canceled, marker, quote>>
cartVars    == <<total, shipped, ordered, due, psession>>
gatewayVars == <<exposed, charged>>
vars == <<pc, req, lock, sessionVars, cartVars, ledger, gatewayVars, mishaps>>

-----------------------------------------------------------------------------
NoRequest == [op |-> "none", cart |-> None, cred |-> None, resumed |-> FALSE,
              made |-> FALSE, first |-> FALSE, snapshot |-> None, next |-> "idle"]

Request(o, c, k) == [NoRequest EXCEPT !.op = o, !.cart = c, !.cred = k]

CartOf(w) == req[w].cart
Auth(w)   == AuthOf[req[w].cred]

Goto(w, label) == pc' = [pc EXCEPT ![w] = label]

Answer(w) == /\ Goto(w, "idle")
             /\ req' = [req EXCEPT ![w] = NoRequest]

\* Leave the critical section; `label` is what the worker does afterwards.
LeaveTo(w, label) == /\ Goto(w, "unlock")
                     /\ req' = [req EXCEPT ![w].next = label]

SetMarker(c, m) == marker' = [marker EXCEPT ![c] = m]

Mishap == mishaps < MaxMishaps /\ mishaps' = mishaps + 1

Init ==
    /\ pc = [w \in Workers |-> "idle"]
    /\ req = [w \in Workers |-> NoRequest]
    /\ lock = [c \in Carts |-> None]
    /\ canceled = [c \in Carts |-> FALSE]
    /\ marker = [c \in Carts |-> NoMarker]
    /\ total \in [Carts -> Amounts]
    /\ quote = total
    /\ shipped \in [Carts -> BOOLEAN]
    /\ ordered = [c \in Carts |-> FALSE]
    /\ due = [c \in Carts |-> None]
    /\ psession = [c \in Carts |-> NoSession]
    /\ ledger = [a \in Authorizations |-> None]
    /\ exposed = {} /\ charged = {} /\ mishaps = 0

-----------------------------------------------------------------------------
(* Requests arrive.  A completion is validated, and the missing shipping   *)
(* method of its cart added, before it has the lock.                       *)

\* The credential signs the amount the stored quote asks for.
SignsTheQuote(c, k) == quote[c] = AmountOf[k]

ValidatePrerequisites(w, c, k) ==
    /\ pc[w] = "idle"
    /\ SignsTheQuote(c, k)
    /\ ~canceled[c]
    /\ ~ordered[c]
    /\ Goto(w, "shipping")
    /\ req' = [req EXCEPT ![w] = Request("complete", c, k)]
    /\ UNCHANGED <<lock, sessionVars, cartVars, ledger, gatewayVars, mishaps>>

\* The cart has a shipping method, or none is offered; else the cheapest one is
\* added; or the reads fail.
EnsureShippingMethod(w) ==
    /\ pc[w] = "shipping"
    /\ \/ Goto(w, "wait") /\ UNCHANGED req
       \/ ~shipped[CartOf(w)] /\ Goto(w, "add") /\ UNCHANGED req
       \/ Answer(w)
    /\ UNCHANGED <<lock, sessionVars, cartVars, ledger, gatewayVars, mishaps>>

\* A payment session for another amount than the cart's total is deleted.
ChangeTotal(c, amount) ==
    /\ total' = [total EXCEPT ![c] = amount]
    /\ psession' = IF amount = total[c] THEN psession
                   ELSE [psession EXCEPT ![c] = NoSession]

\* A faulty form of AddShippingMethod: the lock is not waited for.
AddWithoutLock(w) ==
    LET c == CartOf(w) IN
    /\ pc[w] = "add"
    /\ \E amount \in Amounts : ChangeTotal(c, amount)
    /\ shipped' = [shipped EXCEPT ![c] = TRUE]
    /\ Goto(w, "wait")
    /\ UNCHANGED <<req, lock, sessionVars, ordered, due, ledger, gatewayVars, mishaps>>

\* Medusa's workflow takes the cart lock for itself and gives it back: one step
\* for the requests here.  Neither the settlement marker nor the status of the
\* session is looked at, and nothing takes the method back.
AddShippingMethod(w) ==
    LET c == CartOf(w) IN
    /\ pc[w] = "add"
    /\ \/ /\ lock[c] = None
          /\ \E amount \in Amounts : ChangeTotal(c, amount)
          /\ shipped' = [shipped EXCEPT ![c] = TRUE]
          /\ Goto(w, "wait")
          /\ UNCHANGED req
       \/ Answer(w) /\ UNCHANGED <<total, shipped, psession>>     \* it fails
    /\ UNCHANGED <<lock, sessionVars, ordered, due, ledger, gatewayVars, mishaps>>

RequestChange(w, c, op) ==
    /\ pc[w] = "idle"
    /\ Goto(w, "wait")
    /\ req' = [req EXCEPT ![w] = Request(op, c, None)]
    /\ UNCHANGED <<lock, sessionVars, cartVars, ledger, gatewayVars, mishaps>>

AcquireLock(w) ==
    /\ pc[w] = "wait"
    /\ lock[CartOf(w)] = None
    /\ lock' = [lock EXCEPT ![CartOf(w)] = w]
    /\ Goto(w, IF req[w].op = "complete" THEN "guard" ELSE "mutable")
    /\ UNCHANGED <<req, sessionVars, cartVars, ledger, gatewayVars, mishaps>>

\* A faulty form of LockTimeout: the wait never ends by itself.
WaitForever(w) ==
    /\ pc[w] = "wait" /\ FALSE
    /\ UNCHANGED vars

\* The lock was not obtained in time, or, before the wait began, no payment
\* collection could be created for the cart of a completion.
LockTimeout(w) ==
    /\ pc[w] = "wait"
    /\ Answer(w)
    /\ UNCHANGED <<lock, sessionVars, cartVars, ledger, gatewayVars, mishaps>>

ReleaseLock(w) ==
    /\ pc[w] = "unlock"
    /\ lock' = [lock EXCEPT ![CartOf(w)] = None]
    /\ IF req[w].next = "idle" THEN Answer(w)
                               ELSE Goto(w, req[w].next) /\ UNCHANGED req
    /\ UNCHANGED <<sessionVars, cartVars, ledger, gatewayVars, mishaps>>

-----------------------------------------------------------------------------
(* Update and cancel.                                                      *)

\* A faulty form of AssertSessionMutable: the refusal is answered at once, and
\* the lock stays taken.
RefuseWithoutUnlock(w) ==
    LET c == CartOf(w) IN
    /\ pc[w] = "mutable"
    /\ IF UcpStatus(canceled[c], ordered[c], marker[c]) \in LockedStatuses
       THEN Answer(w)
       ELSE Goto(w, req[w].op) /\ UNCHANGED req
    /\ UNCHANGED <<lock, sessionVars, cartVars, ledger, gatewayVars, mishaps>>

\* Refused for its status, or because the status cannot be read.
AssertSessionMutable(w) ==
    LET c == CartOf(w) IN
    /\ pc[w] = "mutable"
    /\ \/ /\ UcpStatus(canceled[c], ordered[c], marker[c]) \notin LockedStatuses
          /\ Goto(w, req[w].op)
          /\ UNCHANGED req
       \/ LeaveTo(w, "idle")
    /\ UNCHANGED <<lock, sessionVars, cartVars, ledger, gatewayVars, mishaps>>

\* The cart workflows change the total, and may add a shipping method or drop
\* the one that no longer fits.  A failing one is compensated and changes nothing.
UpdateCart(w) ==
    LET c == CartOf(w) IN
    /\ pc[w] = "update"
    /\ \/ /\ \E amount \in Amounts : ChangeTotal(c, amount)
          /\ \E s \in BOOLEAN : shipped' = [shipped EXCEPT ![c] = s]
          /\ LeaveTo(w, "fetch")
       \/ /\ UNCHANGED <<total, shipped, psession>>
          /\ LeaveTo(w, "idle")
    /\ UNCHANGED <<lock, sessionVars, ordered, due, ledger, gatewayVars, mishaps>>

\* After the lock is released the route reads the cart again ...
FetchUpdatedCart(w) ==
    /\ pc[w] = "fetch"
    /\ \/ /\ req' = [req EXCEPT ![w].snapshot = total[CartOf(w)]]
          /\ Goto(w, "prepare")
       \/ Answer(w)                        \* the read failed
    /\ UNCHANGED <<lock, sessionVars, cartVars, ledger, gatewayVars, mishaps>>

\* ... and stores the quote the gateway prepares for what it read, or no quote
\* when the adapter fails; the quote stays when storing it fails.
PrepareCheckoutPayment(w) ==
    /\ pc[w] = "prepare"
    /\ \E prepared \in {req[w].snapshot, None, quote[CartOf(w)]} :
          quote' = [quote EXCEPT ![CartOf(w)] = prepared]
    /\ Answer(w)
    /\ UNCHANGED <<lock, canceled, marker, cartVars, ledger, gatewayVars, mishaps>>

CancelSession(w) ==
    /\ pc[w] = "cancel"
    /\ \/ canceled' = [canceled EXCEPT ![CartOf(w)] = TRUE]
       \/ UNCHANGED canceled               \* the write failed
    /\ LeaveTo(w, "idle")
    /\ UNCHANGED <<lock, marker, quote, cartVars, ledger, gatewayVars, mishaps>>

-----------------------------------------------------------------------------
(* Completion, under the lock.                                             *)

GuardPendingSettlement(w) ==
    LET verdict == GuardVerdict(marker[CartOf(w)], req[w].cred) IN
    /\ pc[w] = "guard"
    /\ \/ /\ verdict # "refused"
          /\ Goto(w, "reserve")
          /\ req' = [req EXCEPT ![w].resumed = (verdict = "resumed")]
       \/ LeaveTo(w, "idle")               \* refused, or the marker was not read
    /\ UNCHANGED <<lock, sessionVars, cartVars, ledger, gatewayVars, mishaps>>

\* The ledger row is created by the first cart that presents the
\* authorization, and is never deleted (module PaymentLedger).
ReservePaymentAuthorization(w) ==
    LET c == CartOf(w) IN
    /\ pc[w] = "reserve"
    /\ \/ /\ MayReserve(ledger[Auth(w)], c)
          /\ ledger' = [ledger EXCEPT ![Auth(w)] = c]
          /\ \/ Goto(w, "setup") /\ UNCHANGED req
             \/ LeaveTo(w, "idle")         \* taken, but the answer was lost
       \/ /\ LeaveTo(w, "idle")            \* refused, or failed
          /\ UNCHANGED ledger
    /\ UNCHANGED <<lock, sessionVars, cartVars, gatewayVars, mishaps>>

IsSettledWithSameCredential(s, k) ==
    s.status = "authorized" /\ s.cred = k /\ s.tx # None

\* The stored quote was prepared for the total the cart has now.
QuoteCoversTotal(c) == quote[c] = total[c]

SetupPayment(w) ==
    LET c       == CartOf(w)
        k       == req[w].cred
        payable == ~canceled[c] /\ QuoteCoversTotal(c)
        settled == IsSettledWithSameCredential(psession[c], k)
        fresh   == [NoSession EXCEPT !.status = "pending", !.cred = k,
                                     !.amount = total[c], !.resume = req[w].resumed]
    IN
    /\ pc[w] = "setup"
    /\ \/ /\ payable
          /\ psession' = IF settled THEN psession ELSE [psession EXCEPT ![c] = fresh]
          /\ Goto(w, "begin")
          /\ UNCHANGED req
       \/ /\ payable /\ ~settled           \* deleted the old one, created none
          /\ psession' = [psession EXCEPT ![c] = NoSession]
          /\ LeaveTo(w, "idle")
       \/ /\ UNCHANGED psession             \* not payable, or failed to read
          /\ LeaveTo(w, "idle")
    /\ UNCHANGED <<lock, sessionVars, total, shipped, ordered, due, ledger, gatewayVars, mishaps>>

BeginSettlementAttempt(w) ==
    LET c == CartOf(w) IN
    /\ pc[w] = "begin"
    /\ \/ /\ SetMarker(c, MergedPendingSettlement(marker[c],
                 [NoMarker EXCEPT !.state = "settling", !.cred = req[w].cred]))
          /\ Goto(w, "complete")
          /\ UNCHANGED req
       \/ /\ LeaveTo(w, "idle")            \* the write failed
          /\ UNCHANGED marker
    /\ UNCHANGED <<lock, canceled, quote, cartVars, ledger, gatewayVars, mishaps>>

-----------------------------------------------------------------------------
(* completeCartWorkflow and the provider, inside the completion.           *)

AgentCompletionAllowed(c) == ~canceled[c] /\ marker[c].state = "settling"

MakeOrder(c) == /\ ordered' = [ordered EXCEPT ![c] = TRUE]
                /\ due' = [due EXCEPT ![c] = total[c]]

\* A cart that has an order keeps it and is not paid again.
CompleteCart(w) ==
    LET c == CartOf(w) IN
    /\ pc[w] = "complete"
    /\ \/ /\ AgentCompletionAllowed(c)
          /\ ordered[c]
          /\ Goto(w, "capture")
          /\ UNCHANGED <<req, ordered, due>>
       \/ /\ AgentCompletionAllowed(c)
          /\ ~ordered[c]
          /\ MakeOrder(c)
          /\ req' = [req EXCEPT ![w].made = TRUE]
          /\ Goto(w, "hook")
       \/ /\ Goto(w, "undo")               \* refused, or out of stock
          /\ UNCHANGED <<req, ordered, due>>
    /\ UNCHANGED <<lock, sessionVars, total, shipped, psession, ledger, gatewayVars, mishaps>>

MarkProviderCalled(w) ==
    LET c == CartOf(w) IN
    /\ pc[w] = "hook"
    /\ \/ /\ SetMarker(c, IF marker[c].state = "none" THEN marker[c]
                          ELSE [marker[c] EXCEPT !.called = TRUE])
          /\ Goto(w, "authorize")
       \/ /\ Goto(w, "undo")               \* the write failed
          /\ UNCHANGED marker
    /\ UNCHANGED <<req, lock, canceled, quote, cartVars, ledger, gatewayVars, mishaps>>

\* Save the provider's answer on the payment session.  An unsaved one leaves
\* the session as it was and fails the step.
SaveAnswer(w, outcome, tx) ==
    LET c == CartOf(w) IN
    \/ /\ psession' = [psession EXCEPT ![c].outcome = outcome, ![c].tx = tx,
                         ![c].status = IF outcome = "settled" THEN "authorized" ELSE "error"]
       /\ Goto(w, IF outcome = "settled" THEN "capture" ELSE "undo")
       /\ UNCHANGED mishaps
    \/ /\ Mishap
       /\ Goto(w, "undo")
       /\ UNCHANGED psession

\* A settled session is not settled again: it is confirmed, or held when its
\* quote no longer validates.
AuthorizeSettledSession(w) ==
    LET s == psession[CartOf(w)] IN
    /\ pc[w] = "authorize"
    /\ s.tx # None
    /\ \E outcome \in {"settled", "review"} : SaveAnswer(w, outcome, s.tx)
    /\ UNCHANGED <<req, lock, sessionVars, total, shipped, ordered, due, ledger, gatewayVars>>

\* The credential does not bind to the quote, is expired, or Prism's verify
\* call rejects it: the gateway is never asked to settle.
DeclineLocally(w) ==
    /\ pc[w] = "authorize"
    /\ psession[CartOf(w)].tx = None
    /\ SaveAnswer(w, "declined", None)
    /\ UNCHANGED <<req, lock, sessionVars, total, shipped, ordered, due, ledger, gatewayVars>>

\* A faulty form of BindsToQuote: the signed amount is not compared.
BindsToAnyQuote(k, amount) == TRUE

\* The credential signs the amount the session is for.
BindsToQuote(k, amount) == AmountOf[k] = amount

\* The settle call leaves.  `first` is the gateway's view: it has not been
\* handed this authorization before.
CallSettle(w) ==
    LET c == CartOf(w)
        s == psession[c]
    IN
    /\ pc[w] = "authorize"
    /\ s.tx = None
    /\ BindsToQuote(s.cred, s.amount)
    /\ exposed' = exposed \cup {<<c, Auth(w)>>}
    /\ req' = [req EXCEPT ![w].first = \A d \in Carts : <<d, Auth(w)>> \notin exposed]
    /\ Goto(w, "settling")
    /\ UNCHANGED <<lock, sessionVars, cartVars, ledger, charged, mishaps>>

\* Replies the gateway may give.  It reports success only for money that has
\* moved, and its refusal of a first call is final.
PossibleReply(w, reply) ==
    /\ reply \in {"success_tx", "success_no_tx"} => Auth(w) \in charged
    /\ (reply \in Refusals /\ req[w].first) => Auth(w) \notin charged

\* The reply, or the 60 s timeout of the call.  A settlement whose reported
\* network or amount differs from the quote is held for review; a reply that
\* settles nothing may still name a transaction, which is kept.
SettleReply(w) ==
    LET c == CartOf(w) IN
    /\ pc[w] = "settling"
    /\ \E reply \in Replies, tx \in {None, Auth(w)} :
          LET state == ClassifySettleReply(reply, psession[c].resume) IN
          /\ PossibleReply(w, reply)
          /\ \/ (state = "settled" => tx # None) /\ SaveAnswer(w, state, tx)
             \/ state = "settled" /\ tx # None /\ SaveAnswer(w, "review", tx)
          /\ exposed' = IF reply \in Refusals /\ req[w].first
                        THEN exposed \ {<<c, Auth(w)>>} ELSE exposed
    /\ UNCHANGED <<req, lock, sessionVars, total, shipped, ordered, due, ledger, charged>>

\* The gateway moves the money when it gets to it; an authorization's nonce is
\* spent on chain once.
MoneyMoves(a) ==
    /\ a \notin charged
    /\ \E c \in Carts : <<c, a>> \in exposed
    /\ charged' = charged \cup {a}
    /\ UNCHANGED <<pc, req, lock, sessionVars, cartVars, ledger, exposed, mishaps>>

-----------------------------------------------------------------------------
(* After completeCartWorkflow: capture and clear, or compensation.         *)

CapturePayment(w) ==
    /\ pc[w] = "capture"
    /\ Goto(w, "clear") \/ Goto(w, "undo")
    /\ UNCHANGED <<req, lock, sessionVars, cartVars, ledger, gatewayVars, mishaps>>

ClearSettlementAttempt(w) ==
    /\ pc[w] = "clear"
    /\ \/ SetMarker(CartOf(w), NoMarker) /\ UNCHANGED mishaps
       \/ Mishap /\ UNCHANGED marker        \* the error is only logged
    /\ LeaveTo(w, "idle")
    /\ UNCHANGED <<lock, canceled, quote, cartVars, ledger, gatewayVars>>

\* Faulty forms of UndoCompleteCart: every failed attempt takes the order back,
\* or none does.
UndoEveryOrder(w) ==
    /\ pc[w] = "undo"
    /\ ordered' = [ordered EXCEPT ![CartOf(w)] = FALSE]
    /\ due' = [due EXCEPT ![CartOf(w)] = None]
    /\ Goto(w, "compensate")
    /\ UNCHANGED <<req, lock, sessionVars, total, shipped, psession, ledger, gatewayVars, mishaps>>

UndoNoOrder(w) ==
    /\ pc[w] = "undo"
    /\ Goto(w, "compensate")
    /\ UNCHANGED <<req, lock, sessionVars, cartVars, ledger, gatewayVars, mishaps>>

\* The order and completed_at are undone by the attempt that made them.
UndoCompleteCart(w) ==
    LET c == CartOf(w) IN
    /\ pc[w] = "undo"
    /\ ordered' = [ordered EXCEPT ![c] = @ /\ ~req[w].made]
    /\ due' = [due EXCEPT ![c] = IF req[w].made THEN None ELSE @]
    /\ Goto(w, "compensate")
    /\ UNCHANGED <<req, lock, sessionVars, total, shipped, psession, ledger, gatewayVars, mishaps>>

\* The marker after a failed attempt of worker w, given the payment session
\* it could read.
MarkerAfterFailure(w, session) ==
    LET m       == marker[CartOf(w)]
        k       == req[w].cred
        mine    == IF session.cred = k THEN session ELSE NoSession
        outcome == SettlementAfterFailure(mine, [m EXCEPT !.cred = k], req[w].resumed)
    IN  IF outcome.kind = "clear" THEN NoMarker
        ELSE MergedPendingSettlement(m, [state |-> outcome.kind, cred |-> k,
                                         called |-> m.called, tx |-> outcome.tx])

\* Faulty forms of CompensateSettlementAttempt: an attempt that did not reach
\* the provider leaves its marker; a failed attempt gives its authorization back.
CompensateAfterCallOnly(w) ==
    LET c == CartOf(w) IN
    /\ pc[w] = "compensate"
    /\ SetMarker(c, IF marker[c].called THEN MarkerAfterFailure(w, psession[c]) ELSE marker[c])
    /\ LeaveTo(w, "idle")
    /\ UNCHANGED <<lock, canceled, quote, cartVars, ledger, gatewayVars, mishaps>>

CompensateAndGiveBack(w) ==
    LET c == CartOf(w) IN
    /\ pc[w] = "compensate"
    /\ SetMarker(c, MarkerAfterFailure(w, psession[c]))
    /\ ledger' = [ledger EXCEPT ![Auth(w)] = None]
    /\ LeaveTo(w, "idle")
    /\ UNCHANGED <<lock, canceled, quote, cartVars, gatewayVars, mishaps>>

CompensateSettlementAttempt(w) ==
    LET c == CartOf(w) IN
    /\ pc[w] = "compensate"
    /\ \/ SetMarker(c, MarkerAfterFailure(w, psession[c])) /\ UNCHANGED mishaps
       \/ SetMarker(c, MarkerAfterFailure(w, NoSession)) /\ Mishap  \* query failed
       \/ UNCHANGED marker /\ Mishap                                \* write failed
    /\ LeaveTo(w, "idle")
    /\ UNCHANGED <<lock, canceled, quote, cartVars, ledger, gatewayVars>>

-----------------------------------------------------------------------------
(* The process of a worker dies; nobody else gets the lock before its TTL  *)
(* frees it, so both are one step.                                         *)
Crash(w) ==
    /\ pc[w] # "idle"
    /\ Mishap
    /\ Answer(w)
    /\ lock' = [c \in Carts |-> IF lock[c] = w THEN None ELSE lock[c]]
    /\ UNCHANGED <<sessionVars, cartVars, ledger, gatewayVars>>

Step(w) ==
    \/ EnsureShippingMethod(w) \/ AddShippingMethod(w)
    \/ AcquireLock(w) \/ LockTimeout(w) \/ ReleaseLock(w)
    \/ AssertSessionMutable(w) \/ UpdateCart(w) \/ CancelSession(w)
    \/ FetchUpdatedCart(w) \/ PrepareCheckoutPayment(w)
    \/ GuardPendingSettlement(w) \/ ReservePaymentAuthorization(w)
    \/ SetupPayment(w) \/ BeginSettlementAttempt(w)
    \/ CompleteCart(w) \/ MarkProviderCalled(w)
    \/ AuthorizeSettledSession(w) \/ DeclineLocally(w) \/ CallSettle(w) \/ SettleReply(w)
    \/ CapturePayment(w) \/ ClearSettlementAttempt(w)
    \/ UndoCompleteCart(w) \/ CompensateSettlementAttempt(w)

Next ==
    \/ \E w \in Workers : Step(w) \/ Crash(w)
    \/ \E w \in Workers, c \in Carts, k \in Credentials : ValidatePrerequisites(w, c, k)
    \/ \E w \in Workers, c \in Carts, op \in {"update", "cancel"} : RequestChange(w, c, op)
    \/ \E a \in Authorizations : MoneyMoves(a)

Spec == Init /\ [][Next]_vars

\* Every started request keeps running: the event loop schedules its steps,
\* the wait for the lock ends after 30 s and the settle call after 60 s.
FairSpec == Spec /\ \A w \in Workers : WF_vars(Step(w))

-----------------------------------------------------------------------------
(* Types.                                                                  *)

Labels == {"idle", "shipping", "add", "wait", "unlock", "mutable", "update", "cancel", "fetch", "prepare",
           "guard", "reserve", "setup", "begin", "complete", "hook", "authorize",
           "settling", "capture", "clear", "undo", "compensate"}

Requests == [op : {"none", "complete", "update", "cancel"}, cart : Carts \cup {None},
             cred : Credentials \cup {None}, resumed : BOOLEAN, made : BOOLEAN,
             first : BOOLEAN, snapshot : Amounts \cup {None}, next : {"idle", "fetch"}]

Markers == [state : {"none", "settling", "pending", "review"}, cred : Credentials \cup {None},
            called : BOOLEAN, tx : Authorizations \cup {None}]

PaymentSessions ==
    [status : {"none", "pending", "authorized", "error"}, cred : Credentials \cup {None},
     amount : Amounts \cup {None}, resume : BOOLEAN,
     outcome : SettlementStates \cup {"undefined"}, tx : Authorizations \cup {None}]

\* The type invariant.
TypeOK ==
    /\ pc \in [Workers -> Labels]
    /\ req \in [Workers -> Requests]
    /\ lock \in [Carts -> Workers \cup {None}]
    /\ canceled \in [Carts -> BOOLEAN]
    /\ marker \in [Carts -> Markers]
    /\ quote \in [Carts -> Amounts \cup {None}]
    /\ total \in [Carts -> Amounts]
    /\ shipped \in [Carts -> BOOLEAN]
    /\ ordered \in [Carts -> BOOLEAN]
    /\ due \in [Carts -> Amounts \cup {None}]
    /\ psession \in [Carts -> PaymentSessions]
    /\ ledger \in [Authorizations -> Carts \cup {None}]
    /\ exposed \subseteq Carts \X Authorizations
    /\ charged \subseteq Authorizations
    /\ mishaps \in Nat

-----------------------------------------------------------------------------
(* Safety.                                                                 *)

\* A cart is never exposed to two authorizations: whatever the replies, losses
\* and crashes, no second credential can be charged for a cart whose first one
\* may still be charged (guard-pending-settlement, settlement-after-failure).
OneAuthorizationPerCart ==
    \A c \in Carts, a, b \in Authorizations :
        <<c, a>> \in exposed /\ <<c, b>> \in exposed => a = b

\* An authorization is never at stake for two carts (payment ledger).
OneCartPerAuthorization ==
    \A a \in Authorizations, c, d \in Carts :
        <<c, a>> \in exposed /\ <<d, a>> \in exposed => c = d

\* A payment that may still move, or has moved, is never forgotten: the cart
\* has its order, or its session holds the settlement of that authorization
\* open (compensateSettlementAttempt clears the marker only for a payment that
\* cannot move).
ExposureIsHeld ==
    \A c \in Carts, a \in Authorizations :
        <<c, a>> \in exposed =>
            ordered[c] \/ (marker[c].state # "none" /\ AuthOf[marker[c].cred] = a)

\* A settle call the code treats as a first attempt really is one: the gateway
\* has not been handed that authorization before, so its refusal is final.
FreshCallIsFirst ==
    \A w \in Workers :
        pc[w] = "settling" /\ ~psession[CartOf(w)].resume => req[w].first

\* Without mishaps, an order nobody is working on has been paid in full: what was
\* charged is the total the order was made for, although a completion may change
\* the total of the cart on its way to the lock.
OrderIsPaidInFull ==
    \A c \in Carts :
        mishaps = 0 /\ ordered[c] /\ lock[c] = None =>
            \E k \in Credentials : /\ <<c, AuthOf[k]>> \in exposed
                                  /\ AuthOf[k] \in charged
                                  /\ AmountOf[k] = due[c]

\* Without mishaps, the session shows a settling payment only while a request
\* is working on the cart: no failure path leaves the marker behind.
SettlingHasAWorker ==
    \A c \in Carts :
        mishaps = 0 /\ marker[c].state = "settling" => lock[c] # None

-----------------------------------------------------------------------------
(* What a step may never do.                                               *)

AtStake(c) == marker[c].state # "none" \/ \E a \in Authorizations : <<c, a>> \in exposed

\* A completion, which may be a retry of the pending payment, adds the missing
\* shipping method while no attempt has the lock.
ShippingIsAdded(c) ==
    /\ lock[c] = None
    /\ \E w \in Workers : pc[w] = "add" /\ CartOf(w) = c /\ pc'[w] = "wait"

\* While a payment of a cart may move, it is not canceled and its total stays
\* (update and cancel refuse a session whose payment is settling or held), except
\* for the shipping method that a completion adds before it has the lock: that
\* one may change the total of a payment that is pending or held for review, and
\* never that of a payment an attempt is working on.
FrozenWhileAtStake ==
    [][\A c \in Carts : AtStake(c) =>
          /\ canceled'[c] = canceled[c]
          /\ total'[c] = total[c] \/ ShippingIsAdded(c)]_vars

\* A settlement held for review stays held: no retry and no failure path of a
\* request that was already under way takes it back to pending or clears it.
ReviewIsFinal ==
    [][\A c \in Carts : marker[c].state = "review" => marker'[c].state = "review"]_vars

\* An order that a finished request has reported is never taken back by the
\* compensation of a later one.
OrderIsNotTakenBack ==
    [][\A c \in Carts : ordered[c] /\ (\A w \in Workers : lock[c] = w => ~req[w].made)
                            => ordered'[c]]_vars

\* What completion promises a buyer (PaymentPromise).
Promise == INSTANCE PaymentPromise
KeepsPaymentPromise == Promise!Spec

-----------------------------------------------------------------------------
(* Liveness, under FairSpec.                                               *)

\* Every request is answered, whatever its path through guard, provider and
\* compensation, and whoever held the lock before it.
RequestsAreAnswered == \A w \in Workers : pc[w] # "idle" ~> pc[w] = "idle"

\* The lock of a cart is always given back.
LockIsReleased == \A c \in Carts : lock[c] # None ~> lock[c] = None

-----------------------------------------------------------------------------
(* What the documentation says of the program, and the code does not do.   *)

\* "Completing a UCP checkout session that is already completed now returns
\* 409 already_completed": a completion that reaches its successful end has
\* made the order itself (packages/core/CHANGELOG.md).
AlreadyCompletedIsRefused == \A w \in Workers : pc[w] = "clear" => req[w].made

\* "a retry with the same credential resumes": while the total is the one that
\* was signed, the setup of a retry finds a quote for it, the one the pending
\* payment was made for (packages/core/CHANGELOG.md).
RetryResumes ==
    \A w \in Workers :
        pc[w] = "setup" /\ req[w].resumed /\ total[CartOf(w)] = AmountOf[req[w].cred]
        => QuoteCoversTotal(CartOf(w))
=============================================================================
