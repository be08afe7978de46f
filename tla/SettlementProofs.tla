---------------------------- MODULE SettlementProofs ----------------------------
(***************************************************************************)
(* Proofs about CheckoutSettlement, for any carts, workers, credentials    *)
(* and authorizations, and any number of mishaps: its types, the inductive *)
(* invariant of checkout completion and what it implies; what no step does, *)
(* and that every step is a step of PaymentPromise or changes nothing of it; *)
(* and what has been paid.                                                 *)
(***************************************************************************)
EXTENDS SettlementInvariant, TLAPS

Control ==
    /\ pc \in [Workers -> Labels]
    /\ req \in [Workers -> Requests]
    /\ \A w \in Workers : RequestOK(w)

Data ==
    /\ lock \in [Carts -> Workers \cup {None}]
    /\ canceled \in [Carts -> BOOLEAN]
    /\ marker \in [Carts -> Markers]
    /\ quote \in [Carts -> Amounts \cup {None}]
    /\ total \in [Carts -> Amounts]
    /\ shipped \in [Carts -> BOOLEAN]
    /\ ordered \in [Carts -> BOOLEAN]
    /\ due \in [Carts -> Amounts \cup {None}]
    /\ psession \in [Carts -> PaymentSessions]
    /\ ledger \in [Authorizations -> Carts \cup {None}]
    /\ exposed \subseteq Carts \X Authorizations
    /\ charged \subseteq Authorizations
    /\ mishaps \in Nat

Typed == Control /\ Data

-----------------------------------------------------------------------------
(* Typing: the control state of the workers.                               *)

\* A worker that moves to a step its request fits keeps the control state typed.
LEMMA MoveControl ==
    ASSUME Control, NEW w \in Workers, NEW l \in Labels, NEW r \in Requests,
           RequestFits(l, r),
           pc' = [pc EXCEPT ![w] = l], req' = [req EXCEPT ![w] = r]
    PROVE  Control'
  BY DEF Control, RequestOK, RequestFits, Admitted, Attempting, Paying

\* A new request is typed, and remembers nothing yet.
LEMMA RequestTyped ==
    ASSUME NEW o \in {"complete", "update", "cancel"}, NEW c \in Carts,
           NEW k \in Credentials \cup {None}
    PROVE  /\ Request(o, c, k) \in Requests
           /\ Request(o, c, k).op = o
           /\ Request(o, c, k).cart = c
           /\ Request(o, c, k).cred = k
           /\ ~Request(o, c, k).made
           /\ ~Request(o, c, k).resumed
  BY DEF Request, NoRequest, Requests

\* An answered worker is idle.
LEMMA AnswerControl ==
    ASSUME Control, NEW w \in Workers, Answer(w)
    PROVE  Control'
  <1>1. NoRequest \in Requests /\ RequestFits("idle", NoRequest)
    BY DEF NoRequest, Requests, RequestFits, Admitted, Attempting, Paying
  <1>2. "idle" \in Labels
    BY DEF Labels
  <1>. QED  BY <1>1, <1>2, MoveControl DEF Answer, Goto

\* A worker with a request may always go on to release the lock.
LEMMA LeaveControl ==
    ASSUME Control, NEW w \in Workers, pc[w] # "idle",
           NEW label \in {"idle", "fetch"}, LeaveTo(w, label)
    PROVE  Control'
  <1> DEFINE r == [req[w] EXCEPT !.next = label]
  <1>1. req[w] \in Requests /\ RequestFits(pc[w], req[w])
    BY DEF Control, RequestOK
  <1>2. r \in Requests /\ r.op = req[w].op /\ r.cart = req[w].cart /\ r.cred = req[w].cred
    BY <1>1 DEF Requests
  <1>3. RequestFits("unlock", r)
    BY <1>1, <1>2 DEF RequestFits, Admitted, Attempting, Paying
  <1>4. "unlock" \in Labels
    BY DEF Labels
  <1>5. pc' = [pc EXCEPT ![w] = "unlock"] /\ req' = [req EXCEPT ![w] = r]
    BY DEF LeaveTo, Goto
  <1>. QED  BY <1>2, <1>3, <1>4, <1>5, MoveControl

\* A worker goes to another step and keeps its request.
LEMMA GotoControl ==
    ASSUME Control, NEW w \in Workers, NEW l \in Labels, RequestFits(l, req[w]),
           Goto(w, l), UNCHANGED req
    PROVE  Control'
  <1>1. req[w] \in Requests /\ req' = [req EXCEPT ![w] = req[w]]
    BY DEF Control
  <1>. QED  BY <1>1, MoveControl DEF Goto

\* What a typed state says of a worker that has a request.
LEMMA WorkerTyped ==
    ASSUME Control, NEW w \in Workers, pc[w] # "idle"
    PROVE  /\ CartOf(w) \in Carts
           /\ req[w] \in Requests
           /\ RequestFits(pc[w], req[w])
           /\ req[w].op = "complete" => req[w].cred \in Credentials /\ Auth(w) \in Authorizations
  BY ConstantsAssumption DEF Control, RequestOK, RequestFits, CartOf, Auth, Requests

LEMMA InitTyped == Init => Typed
  <1> SUFFICES ASSUME Init PROVE Typed
    OBVIOUS
  <1>1. Control
    BY DEF Init, Control, RequestOK, RequestFits, NoRequest, Requests, Labels, Admitted,
           Attempting, Paying
  <1>2. Data
    BY ConstantsAssumption
       DEF Init, Data, NoMarker, Markers, NoSession, PaymentSessions, SettlementStates
  <1>. QED  BY <1>1, <1>2 DEF Typed

-----------------------------------------------------------------------------
(* Typing: requests, the lock, update and cancel.                          *)

LEMMA ArrivalTyped ==
    ASSUME NEW w \in Workers, NEW c \in Carts, Typed,
           \/ \E k \in Credentials : ValidatePrerequisites(w, c, k)
           \/ \E op \in {"update", "cancel"} : RequestChange(w, c, op)
    PROVE  Typed'
  <1>1. PICK o \in {"complete", "update", "cancel"}, k \in Credentials \cup {None} :
           /\ o = "complete" => k \in Credentials
           /\ pc' = [pc EXCEPT ![w] = IF o = "complete" THEN "shipping" ELSE "wait"]
           /\ req' = [req EXCEPT ![w] = Request(o, c, k)]
           /\ UNCHANGED <<lock, canceled, marker, quote, total, shipped, ordered, due, psession, ledger,
                          exposed, charged, mishaps>>
    BY DEF ValidatePrerequisites, RequestChange, Goto, sessionVars, cartVars, gatewayVars
  <1> DEFINE l == IF o = "complete" THEN "shipping" ELSE "wait"
  <1>2. l \in Labels /\ RequestFits(l, Request(o, c, k))
    BY <1>1, RequestTyped DEF Labels, RequestFits, Admitted, Attempting, Paying
  <1>3. Control'
    BY <1>1, <1>2, RequestTyped, MoveControl DEF Typed
  <1>4. Data'
    BY <1>1 DEF Typed, Data
  <1>. QED  BY <1>3, <1>4 DEF Typed

\* A payment session for another amount goes with the change of the total.
LEMMA TotalChangeTyped ==
    ASSUME NEW c \in Carts, NEW amount \in Amounts, Data, ChangeTotal(c, amount)
    PROVE  total' \in [Carts -> Amounts] /\ psession' \in [Carts -> PaymentSessions]
  <1>1. NoSession \in PaymentSessions
    BY DEF NoSession, PaymentSessions, SettlementStates
  <1>. QED  BY <1>1 DEF ChangeTotal, Data

LEMMA ShippingTyped ==
    ASSUME NEW w \in Workers, Typed, EnsureShippingMethod(w) \/ AddShippingMethod(w)
    PROVE  Typed'
  <1> DEFINE c == CartOf(w)
  <1>0. /\ pc[w] \in {"shipping", "add"} /\ c \in Carts /\ req[w] \in Requests
        /\ RequestFits(pc[w], req[w])
    <2>1. pc[w] \in {"shipping", "add"}
      BY DEF EnsureShippingMethod, AddShippingMethod
    <2>. QED  BY <2>1, WorkerTyped DEF Typed
  <1>1. \A l \in {"add", "wait"} : l \in Labels /\ RequestFits(l, req[w])
    BY <1>0 DEF Labels, RequestFits, Admitted, Attempting, Paying
  <1>2. ASSUME EnsureShippingMethod(w) PROVE Control' /\ Data'
    <2>1. Control'
      BY <1>1, <1>2, AnswerControl, GotoControl DEF EnsureShippingMethod, Typed
    <2>. QED  BY <1>2, <2>1 DEF EnsureShippingMethod, Typed, Data, sessionVars, cartVars,
                                gatewayVars
  <1>3. ASSUME AddShippingMethod(w) PROVE Control' /\ Data'
    <2>1. Control'
      BY <1>1, <1>3, AnswerControl, GotoControl DEF AddShippingMethod, Typed
    <2>2. total' \in [Carts -> Amounts] /\ psession' \in [Carts -> PaymentSessions]
      BY <1>0, <1>3, TotalChangeTyped DEF AddShippingMethod, Typed, Data
    <2>3. shipped' \in [Carts -> BOOLEAN]
      BY <1>0, <1>3 DEF AddShippingMethod, Typed, Data
    <2>. QED  BY <1>3, <2>1, <2>2, <2>3 DEF AddShippingMethod, Typed, Data, sessionVars,
                                            gatewayVars
  <1>. QED  BY <1>2, <1>3 DEF Typed

LEMMA LockTyped ==
    ASSUME NEW w \in Workers, Typed, AcquireLock(w) \/ LockTimeout(w) \/ ReleaseLock(w)
    PROVE  Typed'
  <1>1. ASSUME AcquireLock(w) PROVE Control'
    <2>1. PICK l \in {"guard", "mutable"} :
             Goto(w, l) /\ (l = "guard" <=> req[w].op = "complete") /\ UNCHANGED req
      BY <1>1 DEF AcquireLock
    <2>2. l \in Labels /\ RequestFits(l, req[w])
      BY <1>1, <2>1, WorkerTyped
         DEF Typed, AcquireLock, Labels, RequestFits, Admitted, Attempting, Paying
    <2>. QED  BY <2>1, <2>2, GotoControl DEF Typed
  <1>2. ASSUME LockTimeout(w) PROVE Control'
    BY <1>2, AnswerControl DEF LockTimeout, Typed
  <1>3. ASSUME ReleaseLock(w) PROVE Control'
    <2>1. CASE req[w].next = "idle"
      BY <1>3, <2>1, AnswerControl DEF ReleaseLock, Typed
    <2>2. CASE req[w].next # "idle"
      <3>1. req[w].next = "fetch" /\ "fetch" \in Labels /\ RequestFits("fetch", req[w])
        BY <1>3, <2>2, WorkerTyped
           DEF ReleaseLock, Typed, Requests, Labels, RequestFits, Admitted, Attempting, Paying
      <3>. QED  BY <1>3, <2>2, <3>1, GotoControl DEF ReleaseLock, Typed
    <2>. QED  BY <2>1, <2>2
  <1>4. Data'
    <2>1. lock' \in [Carts -> Workers \cup {None}]
      BY DEF Typed, Data, AcquireLock, LockTimeout, ReleaseLock
    <2>. QED  BY <2>1 DEF Typed, Data, AcquireLock, LockTimeout, ReleaseLock,
                          sessionVars, cartVars, gatewayVars
  <1>. QED  BY <1>1, <1>2, <1>3, <1>4 DEF Typed

LEMMA ChangeTyped ==
    ASSUME NEW w \in Workers, Typed,
           \/ AssertSessionMutable(w) \/ UpdateCart(w) \/ CancelSession(w)
           \/ FetchUpdatedCart(w) \/ PrepareCheckoutPayment(w)
    PROVE  Typed'
  <1> DEFINE c == CartOf(w)
  <1>0. pc[w] # "idle" /\ c \in Carts /\ req[w] \in Requests /\ RequestFits(pc[w], req[w])
    <2>1. pc[w] # "idle"
      BY DEF AssertSessionMutable, UpdateCart, CancelSession, FetchUpdatedCart,
             PrepareCheckoutPayment
    <2>. QED  BY <2>1, WorkerTyped DEF Typed
  <1>1. ASSUME AssertSessionMutable(w) PROVE Control' /\ Data'
    <2>1. ASSUME LeaveTo(w, "idle") PROVE Control'
      BY <1>0, <2>1, LeaveControl DEF Typed
    <2>2. ASSUME Goto(w, req[w].op), UNCHANGED req PROVE Control'
      <3>1. req[w].op \in Labels /\ RequestFits(req[w].op, req[w])
        BY <1>0, <1>1 DEF AssertSessionMutable, Requests, Labels, RequestFits, Admitted,
                          Attempting, Paying
      <3>. QED  BY <2>2, <3>1, GotoControl DEF Typed
    <2>3. Data'
      BY <1>1 DEF AssertSessionMutable, Typed, Data, sessionVars, cartVars, gatewayVars
    <2>. QED  BY <1>1, <2>1, <2>2, <2>3 DEF AssertSessionMutable
  <1>2. ASSUME UpdateCart(w) PROVE Control' /\ Data'
    <2>1. Control'
      BY <1>0, <1>2, LeaveControl DEF UpdateCart, Typed
    <2>2. total' \in [Carts -> Amounts] /\ psession' \in [Carts -> PaymentSessions]
      BY <1>0, <1>2, TotalChangeTyped DEF UpdateCart, Typed, Data
    <2>3. shipped' \in [Carts -> BOOLEAN]
      BY <1>0, <1>2 DEF UpdateCart, Typed, Data
    <2>. QED  BY <1>2, <2>1, <2>2, <2>3 DEF UpdateCart, Typed, Data, sessionVars, gatewayVars
  <1>3. ASSUME CancelSession(w) PROVE Control' /\ Data'
    BY <1>0, <1>3, LeaveControl DEF CancelSession, Typed, Data, cartVars, gatewayVars
  <1>4. ASSUME FetchUpdatedCart(w) PROVE Control' /\ Data'
    <2> DEFINE r == [req[w] EXCEPT !.snapshot = total[c]]
    <2>1. r \in Requests /\ r.op = req[w].op /\ r.cart = req[w].cart /\ r.cred = req[w].cred
      BY <1>0 DEF Requests, Typed, Data
    <2>2. "prepare" \in Labels /\ RequestFits("prepare", r)
      BY <1>0, <1>4, <2>1 DEF FetchUpdatedCart, Labels, RequestFits, Admitted, Attempting, Paying
    <2>3. ASSUME req' = [req EXCEPT ![w] = r] /\ Goto(w, "prepare") PROVE Control'
      BY <1>4, <2>1, <2>2, <2>3, MoveControl DEF FetchUpdatedCart, Goto, Typed
    <2>4. ASSUME Answer(w) PROVE Control'
      BY <1>4, <2>4, AnswerControl DEF FetchUpdatedCart, Typed
    <2>5. Control'
      <3>1. req' = [req EXCEPT ![w].snapshot = total[CartOf(w)]] => req' = [req EXCEPT ![w] = r]
        BY <1>0 DEF Typed, Data
      <3>. QED  BY <1>4, <2>3, <2>4, <3>1 DEF FetchUpdatedCart
    <2>. QED  BY <1>4, <2>5 DEF FetchUpdatedCart, Typed, Data, sessionVars, cartVars, gatewayVars
  <1>5. ASSUME PrepareCheckoutPayment(w) PROVE Control' /\ Data'
    <2>1. Control'
      BY <1>5, AnswerControl DEF PrepareCheckoutPayment, Typed
    <2>2. quote' \in [Carts -> Amounts \cup {None}]
      BY <1>0, <1>5 DEF PrepareCheckoutPayment, Typed, Data, Requests
    <2>. QED  BY <1>5, <2>1, <2>2 DEF PrepareCheckoutPayment, Typed, Data, cartVars, gatewayVars
  <1>. QED  BY <1>1, <1>2, <1>3, <1>4, <1>5 DEF Typed

-----------------------------------------------------------------------------
(* Typing: completion up to the provider.                                  *)

\* The marker written by beginSettlementAttempt: settling, for the credential
\* of the attempt, with the provider not called.
LEMMA SettlingMarker ==
    ASSUME NEW m \in Markers, NEW k \in Credentials
    PROVE  LET n == MergedPendingSettlement(m, [NoMarker EXCEPT !.state = "settling", !.cred = k])
           IN  n \in Markers /\ n.state = "settling" /\ n.cred = k
  BY DEF MergedPendingSettlement, NoMarker, FirstPresent, Markers

LEMMA AdmissionTyped ==
    ASSUME NEW w \in Workers, Typed,
           GuardPendingSettlement(w) \/ ReservePaymentAuthorization(w)
    PROVE  Typed'
  <1> DEFINE c == CartOf(w)
  <1>0. /\ pc[w] \in {"guard", "reserve"} /\ c \in Carts /\ req[w] \in Requests
        /\ RequestFits(pc[w], req[w]) /\ req[w].op = "complete"
        /\ req[w].cred \in Credentials /\ Auth(w) \in Authorizations
    <2>1. pc[w] \in {"guard", "reserve"}
      BY DEF GuardPendingSettlement, ReservePaymentAuthorization
    <2>. QED  BY <2>1, WorkerTyped DEF Typed, RequestFits, Admitted, Attempting, Paying
  <1>1. ASSUME GuardPendingSettlement(w) PROVE Control' /\ Data'
    <2>1. ASSUME NEW b \in BOOLEAN, Goto(w, "reserve"), req' = [req EXCEPT ![w].resumed = b]
          PROVE  Control'
      <3> DEFINE r == [req[w] EXCEPT !.resumed = b]
      <3>1. r \in Requests /\ r.op = "complete" /\ r.cart = c /\ r.cred = req[w].cred
        BY <1>0 DEF Requests, CartOf
      <3>2. "reserve" \in Labels /\ RequestFits("reserve", r)
        BY <1>0, <3>1 DEF Labels, RequestFits, Admitted, Attempting, Paying
      <3>. QED  BY <2>1, <3>1, <3>2, MoveControl DEF Goto, Typed
    <2>2. Control'
      BY <1>0, <1>1, <2>1, LeaveControl DEF GuardPendingSettlement, Typed
    <2>. QED  BY <1>1, <2>2 DEF GuardPendingSettlement, Typed, Data, sessionVars, cartVars,
                                gatewayVars
  <1>2. ASSUME ReservePaymentAuthorization(w) PROVE Control' /\ Data'
    <2>1. "setup" \in Labels /\ RequestFits("setup", req[w])
      BY <1>0 DEF Labels, RequestFits, Admitted, Attempting, Paying
    <2>2. Control'
      BY <1>0, <1>2, <2>1, LeaveControl, GotoControl DEF ReservePaymentAuthorization, Typed
    <2>3. ledger' \in [Authorizations -> Carts \cup {None}]
      BY <1>0, <1>2 DEF ReservePaymentAuthorization, Typed, Data
    <2>. QED  BY <1>2, <2>2, <2>3 DEF ReservePaymentAuthorization, Typed, Data, sessionVars,
                                      cartVars, gatewayVars
  <1>. QED  BY <1>1, <1>2 DEF Typed

LEMMA PreparationTyped ==
    ASSUME NEW w \in Workers, Typed, SetupPayment(w) \/ BeginSettlementAttempt(w)
    PROVE  Typed'
  <1> DEFINE c == CartOf(w)
  <1>0. /\ pc[w] \in {"setup", "begin"} /\ c \in Carts /\ req[w] \in Requests
        /\ RequestFits(pc[w], req[w]) /\ req[w].op = "complete"
        /\ req[w].cred \in Credentials
    <2>1. pc[w] \in {"setup", "begin"}
      BY DEF SetupPayment, BeginSettlementAttempt
    <2>. QED  BY <2>1, WorkerTyped DEF Typed, RequestFits, Admitted, Attempting, Paying
  <1>1. ASSUME SetupPayment(w) PROVE Control' /\ Data'
    <2>1. "begin" \in Labels /\ RequestFits("begin", req[w])
      BY <1>0 DEF Labels, RequestFits, Admitted, Attempting, Paying
    <2>2. Control'
      BY <1>0, <1>1, <2>1, LeaveControl, GotoControl DEF SetupPayment, Typed
    <2>3. /\ NoSession \in PaymentSessions
          /\ [NoSession EXCEPT !.status = "pending", !.cred = req[w].cred, !.amount = total[c],
                               !.resume = req[w].resumed] \in PaymentSessions
      BY <1>0 DEF NoSession, PaymentSessions, SettlementStates, Requests, Typed, Data
    <2>4. psession' \in [Carts -> PaymentSessions]
      BY <1>0, <1>1, <2>3 DEF SetupPayment, Typed, Data
    <2>. QED  BY <1>1, <2>2, <2>4 DEF SetupPayment, Typed, Data, sessionVars, gatewayVars
  <1>2. ASSUME BeginSettlementAttempt(w) PROVE Control' /\ Data'
    <2>1. "complete" \in Labels /\ RequestFits("complete", req[w])
      BY <1>0 DEF Labels, RequestFits, Admitted, Attempting, Paying
    <2>2. Control'
      BY <1>0, <1>2, <2>1, LeaveControl, GotoControl DEF BeginSettlementAttempt, Typed
    <2>. DEFINE m == MergedPendingSettlement(marker[c],
                       [NoMarker EXCEPT !.state = "settling", !.cred = req[w].cred])
    <2>. marker[c] \in Markers
      BY <1>0 DEF Typed, Data
    <2>. m \in Markers
      BY <1>0, SettlingMarker
    <2>3. marker' \in [Carts -> Markers]
      BY <1>0, <1>2 DEF BeginSettlementAttempt, SetMarker, Typed, Data
    <2>. QED  BY <1>2, <2>2, <2>3 DEF BeginSettlementAttempt, Typed, Data, cartVars, gatewayVars
  <1>. QED  BY <1>1, <1>2 DEF Typed

LEMMA CompleteCartTyped ==
    ASSUME NEW w \in Workers, Typed, CompleteCart(w) \/ MarkProviderCalled(w)
    PROVE  Typed'
  <1> DEFINE c == CartOf(w)
  <1>0. /\ pc[w] \in {"complete", "hook"} /\ c \in Carts /\ req[w] \in Requests
        /\ RequestFits(pc[w], req[w]) /\ req[w].op = "complete"
        /\ req[w].cred \in Credentials
    <2>1. pc[w] \in {"complete", "hook"}
      BY DEF CompleteCart, MakeOrder, MarkProviderCalled
    <2>. QED  BY <2>1, WorkerTyped DEF Typed, RequestFits, Admitted, Attempting, Paying
  <1>1. \A l \in {"capture", "hook", "undo", "authorize"} : l \in Labels /\ RequestFits(l, req[w])
    BY <1>0 DEF Labels, RequestFits, Admitted, Attempting, Paying
  <1>2. ASSUME CompleteCart(w) PROVE Control' /\ Data'
    <2> DEFINE r == [req[w] EXCEPT !.made = TRUE]
    <2>1. r \in Requests /\ r.op = "complete" /\ r.cart = c /\ r.cred = req[w].cred
      BY <1>0 DEF Requests, CartOf
    <2>2. RequestFits("hook", r)
      BY <1>0, <2>1 DEF RequestFits, Admitted, Attempting, Paying
    <2>3. ASSUME Goto(w, "hook"), req' = [req EXCEPT ![w].made = TRUE] PROVE Control'
      BY <1>1, <2>1, <2>2, <2>3, MoveControl DEF Goto, Typed
    <2>4. Control'
      BY <1>1, <1>2, <2>3, GotoControl DEF CompleteCart, Typed
    <2>5. ordered' \in [Carts -> BOOLEAN] /\ due' \in [Carts -> Amounts \cup {None}]
      BY <1>0, <1>2 DEF CompleteCart, MakeOrder, Typed, Data
    <2>. QED  BY <1>2, <2>4, <2>5 DEF CompleteCart, Typed, Data, sessionVars, gatewayVars
  <1>3. ASSUME MarkProviderCalled(w) PROVE Control' /\ Data'
    <2>1. Control'
      BY <1>1, <1>3, GotoControl DEF MarkProviderCalled, Typed
    <2>. marker[c] \in Markers
      BY <1>0 DEF Typed, Data
    <2>2. [marker[c] EXCEPT !.called = TRUE] \in Markers
      BY DEF Markers
    <2>3. marker' \in [Carts -> Markers]
      BY <1>0, <1>3, <2>2 DEF MarkProviderCalled, SetMarker, Typed, Data
    <2>. QED  BY <1>3, <2>1, <2>3 DEF MarkProviderCalled, Typed, Data, cartVars, gatewayVars
  <1>. QED  BY <1>2, <1>3 DEF Typed

-----------------------------------------------------------------------------
(* Typing: the provider.                                                   *)

\* The classification is total, and what it declines was refused for a first
\* attempt.
LEMMA Classified ==
    ASSUME NEW reply \in Replies, NEW resumed \in BOOLEAN
    PROVE  /\ ClassifySettleReply(reply, resumed) \in SettlementStates
           /\ ClassifySettleReply(reply, resumed) = "declined" => reply \in Refusals /\ ~resumed
  BY DEF Replies, Refusals, ClassifySettleReply, SettlementStates

LEMMA SaveAnswerEffect ==
    ASSUME NEW w \in Workers, Data, CartOf(w) \in Carts,
           NEW outcome \in SettlementStates, NEW tx \in Authorizations \cup {None},
           SaveAnswer(w, outcome, tx)
    PROVE  /\ psession' \in [Carts -> PaymentSessions]
           /\ mishaps' \in Nat
           /\ \A d \in Carts : d # CartOf(w) => psession'[d] = psession[d]
           /\ \/ /\ Goto(w, IF outcome = "settled" THEN "capture" ELSE "undo")
                 /\ psession'[CartOf(w)].outcome = outcome
                 /\ psession'[CartOf(w)].cred = psession[CartOf(w)].cred
                 /\ psession'[CartOf(w)].status = IF outcome = "settled" THEN "authorized" ELSE "error"
              \/ Goto(w, "undo") /\ UNCHANGED psession
  <1> DEFINE c == CartOf(w)
             s == [psession[c] EXCEPT !.outcome = outcome, !.tx = tx,
                     !.status = IF outcome = "settled" THEN "authorized" ELSE "error"]
  <1>1. psession[c] \in PaymentSessions /\ psession \in [Carts -> PaymentSessions]
    BY DEF Data
  <1>2. /\ s \in PaymentSessions /\ s.outcome = outcome /\ s.cred = psession[c].cred
        /\ s.status = IF outcome = "settled" THEN "authorized" ELSE "error"
    BY <1>1 DEF PaymentSessions
  <1>3. mishaps' \in Nat
    BY DEF SaveAnswer, Mishap, Data
  <1>4. CASE psession' = [psession EXCEPT ![c].outcome = outcome, ![c].tx = tx,
                  ![c].status = IF outcome = "settled" THEN "authorized" ELSE "error"]
             /\ Goto(w, IF outcome = "settled" THEN "capture" ELSE "undo")
    <2>1. psession' = [psession EXCEPT ![c] = s]
      BY <1>1, <1>4 DEF PaymentSessions
    <2>. HIDE DEF s
    <2>. QED  BY <1>1, <1>2, <1>3, <1>4, <2>1
  <1>5. CASE Goto(w, "undo") /\ UNCHANGED psession
    BY <1>1, <1>3, <1>5
  <1>. QED  BY <1>4, <1>5 DEF SaveAnswer

\* The provider's actions: where the worker goes, and what each may change.
LEMMA ProviderTyped ==
    ASSUME NEW w \in Workers, Typed,
           AuthorizeSettledSession(w) \/ DeclineLocally(w) \/ CallSettle(w) \/ SettleReply(w)
    PROVE  Typed'
  <1> DEFINE c == CartOf(w)
  <1>0. /\ pc[w] \in {"authorize", "settling"} /\ c \in Carts /\ req[w] \in Requests
        /\ RequestFits(pc[w], req[w]) /\ req[w].op = "complete"
        /\ req[w].cred \in Credentials /\ Auth(w) \in Authorizations
    <2>1. pc[w] \in {"authorize", "settling"}
      BY DEF AuthorizeSettledSession, DeclineLocally, CallSettle, SettleReply
    <2>. QED  BY <2>1, WorkerTyped DEF Typed, RequestFits, Admitted, Attempting, Paying
  <1>1. \A l \in {"capture", "undo", "settling"} : l \in Labels /\ RequestFits(l, req[w])
    BY <1>0 DEF Labels, RequestFits, Admitted, Attempting, Paying
  <1>2. psession[c] \in PaymentSessions /\ psession[c].tx \in Authorizations \cup {None}
        /\ psession[c].resume \in BOOLEAN
    <2>1. psession[c] \in PaymentSessions
      BY <1>0 DEF Typed, Data
    <2>. QED  BY <2>1 DEF PaymentSessions
  <1>3. ASSUME NEW outcome \in SettlementStates, NEW tx \in Authorizations \cup {None},
               SaveAnswer(w, outcome, tx), UNCHANGED req
        PROVE  Control' /\ psession' \in [Carts -> PaymentSessions] /\ mishaps' \in Nat
    <2>1. Goto(w, "capture") \/ Goto(w, "undo")
      BY <1>3 DEF SaveAnswer
    <2>2. Control'
      BY <1>1, <1>3, <2>1, GotoControl DEF Typed
    <2>. QED  BY <1>0, <1>3, <2>2, SaveAnswerEffect DEF Typed
  <1>4. ASSUME AuthorizeSettledSession(w) \/ DeclineLocally(w) PROVE Control' /\ Data'
    <2>1. PICK outcome \in SettlementStates, tx \in Authorizations \cup {None} :
             SaveAnswer(w, outcome, tx)
      BY <1>2, <1>4 DEF AuthorizeSettledSession, DeclineLocally, SettlementStates
    <2>2. UNCHANGED <<req, lock, canceled, marker, quote, total, shipped, ordered, due, ledger, exposed,
                     charged>>
      BY <1>4 DEF AuthorizeSettledSession, DeclineLocally, sessionVars, gatewayVars
    <2>. QED  BY <1>3, <2>1, <2>2 DEF Typed, Data
  <1>5. ASSUME CallSettle(w) PROVE Control' /\ Data'
    <2> DEFINE b == \A d \in Carts : <<d, Auth(w)>> \notin exposed
               r == [req[w] EXCEPT !.first = b]
    <2>1. r \in Requests /\ r.op = "complete" /\ r.cart = c /\ r.cred = req[w].cred
      <3>1. b \in BOOLEAN
        OBVIOUS
      <3>. HIDE DEF b
      <3>. QED  BY <1>0, <3>1 DEF Requests, CartOf
    <2>2. RequestFits("settling", r)
      <3>. HIDE DEF r
      <3>. QED  BY <1>0, <2>1 DEF RequestFits, Admitted, Attempting, Paying, CartOf
    <2>3. pc' = [pc EXCEPT ![w] = "settling"] /\ req' = [req EXCEPT ![w] = r]
      BY <1>5 DEF CallSettle, Goto
    <2>4. Control'
      <3>. HIDE DEF r
      <3>. QED  BY <1>1, <2>1, <2>2, <2>3, MoveControl DEF Typed
    <2>5. exposed' \subseteq Carts \X Authorizations
      BY <1>0, <1>5 DEF CallSettle, Typed, Data
    <2>. QED  BY <1>5, <2>4, <2>5 DEF CallSettle, Typed, Data, sessionVars, cartVars
  <1>6. ASSUME SettleReply(w) PROVE Control' /\ Data'
    <2>1. PICK reply \in Replies, tx \in {None, Auth(w)} :
             \/ SaveAnswer(w, ClassifySettleReply(reply, psession[c].resume), tx)
             \/ SaveAnswer(w, "review", tx)
      BY <1>6 DEF SettleReply
    <2>2. "review" \in SettlementStates
          /\ ClassifySettleReply(reply, psession[c].resume) \in SettlementStates
      BY <1>2, Classified DEF SettlementStates
    <2>3. Control' /\ psession' \in [Carts -> PaymentSessions] /\ mishaps' \in Nat
      BY <1>0, <1>3, <1>6, <2>1, <2>2 DEF SettleReply
    <2>4. exposed' \subseteq exposed
      BY <1>6 DEF SettleReply
    <2>. QED  BY <1>6, <2>3, <2>4 DEF SettleReply, Typed, Data, sessionVars
  <1>. QED  BY <1>4, <1>5, <1>6 DEF Typed

-----------------------------------------------------------------------------
(* Typing: capture, clearing, undoing and compensation.                    *)

\* The marker a failed attempt leaves: none, or a held settlement of the
\* credential of the attempt.  It is cleared only when the session is clearable.
LEMMA FailureMarker ==
    ASSUME NEW w \in Workers, marker[CartOf(w)] \in Markers, req[w].cred \in Credentials,
           NEW session \in PaymentSessions
    PROVE  LET n == MarkerAfterFailure(w, session) IN
           /\ n \in Markers
           /\ \/ n.state \in {"pending", "review"} /\ n.cred = req[w].cred
              \/ /\ n = NoMarker
                 /\ ~req[w].resumed
                 /\ session.cred = req[w].cred
                 /\ \/ session.outcome = "declined"
                    \/ /\ session.outcome = "undefined" /\ session.status = "pending"
                       /\ ~marker[CartOf(w)].called
  <1> DEFINE m    == marker[CartOf(w)]
             k    == req[w].cred
             mine == IF session.cred = k THEN session ELSE NoSession
             out  == SettlementAfterFailure(mine, [m EXCEPT !.cred = k], req[w].resumed)
             new  == [state |-> out.kind, cred |-> k, called |-> m.called, tx |-> out.tx]
  <1>1. k # None
    BY ConstantsAssumption
  <1>2. NoSession \in PaymentSessions /\ NoSession.outcome = "undefined"
        /\ NoSession.status = "none" /\ NoSession.tx = None
    BY DEF NoSession, PaymentSessions, SettlementStates
  <1>3. mine \in PaymentSessions
    BY <1>2
  <1>4. mine.tx \in Authorizations \cup {None} /\ m.tx \in Authorizations \cup {None}
        /\ m.called \in BOOLEAN
    BY <1>3 DEF PaymentSessions, Markers
  <1>5. [m EXCEPT !.cred = k].cred = k /\ [m EXCEPT !.cred = k].tx = m.tx
        /\ [m EXCEPT !.cred = k].called = m.called
    BY DEF Markers
  <1>6. out.kind \in {"clear", "pending", "review"} /\ out.tx \in Authorizations \cup {None}
    <2>. HIDE DEF mine, m, k
    <2>. QED  BY <1>4, <1>5 DEF SettlementAfterFailure, FirstPresent
  <1>7. out.kind = "clear" =>
           /\ ~req[w].resumed
           /\ \/ mine.outcome = "declined"
              \/ mine.outcome = "undefined" /\ mine.status = "pending" /\ ~m.called
    <2>. HIDE DEF mine, m, k
    <2>. QED  BY <1>1, <1>5 DEF SettlementAfterFailure
  <1>8. out.kind = "clear" => mine = session /\ session.cred = k
    BY <1>2, <1>7
  <1>9. NoMarker \in Markers
    BY DEF NoMarker, Markers
  <1>10. out.kind # "clear" =>
           LET n == MergedPendingSettlement(m, new) IN
           n \in Markers /\ n.state = out.kind /\ n.cred = k
    <2>. HIDE DEF out, m, k
    <2>. SUFFICES ASSUME out.kind # "clear"
                  PROVE  LET n == MergedPendingSettlement(m, new) IN
                         n \in Markers /\ n.state = out.kind /\ n.cred = k
      OBVIOUS
    <2>1. new.tx = out.tx /\ FirstPresent(out.tx, m.tx) \in Authorizations \cup {None}
      BY <1>4, <1>6 DEF FirstPresent
    <2>2. k \in Credentials
      BY DEF k
    <2>. QED  BY <1>4, <1>6, <2>1, <2>2 DEF MergedPendingSettlement, Markers
  <1>11. MarkerAfterFailure(w, session) =
           IF out.kind = "clear" THEN NoMarker ELSE MergedPendingSettlement(m, new)
    BY DEF MarkerAfterFailure
  <1>. HIDE DEF out, new
  <1>. QED  BY <1>6, <1>7, <1>8, <1>9, <1>10, <1>11

LEMMA EndingTyped ==
    ASSUME NEW w \in Workers, Typed,
           \/ CapturePayment(w) \/ ClearSettlementAttempt(w)
           \/ UndoCompleteCart(w) \/ CompensateSettlementAttempt(w)
    PROVE  Typed'
  <1> DEFINE c == CartOf(w)
  <1>0. /\ pc[w] \in {"capture", "clear", "undo", "compensate"}
        /\ c \in Carts /\ req[w].cred \in Credentials /\ RequestFits(pc[w], req[w])
    <2>1. pc[w] \in {"capture", "clear", "undo", "compensate"}
      BY DEF CapturePayment, ClearSettlementAttempt, UndoCompleteCart, CompensateSettlementAttempt
    <2>. QED  BY <2>1, WorkerTyped DEF Typed, RequestFits, Admitted, Attempting, Paying
  <1>1. \A l \in {"clear", "undo", "compensate"} : l \in Labels /\ RequestFits(l, req[w])
    BY <1>0 DEF Labels, RequestFits, Admitted, Attempting, Paying
  <1>2. NoMarker \in Markers
    BY DEF NoMarker, Markers
  <1>3. ASSUME CapturePayment(w) PROVE Control' /\ Data'
    <2>1. Control'
      BY <1>1, <1>3, GotoControl DEF CapturePayment, Typed
    <2>. QED  BY <1>3, <2>1 DEF CapturePayment, Typed, Data, sessionVars, cartVars, gatewayVars
  <1>4. ASSUME ClearSettlementAttempt(w) PROVE Control' /\ Data'
    <2>1. Control'
      BY <1>0, <1>4, LeaveControl DEF ClearSettlementAttempt, Typed
    <2>2. marker' \in [Carts -> Markers]
      BY <1>0, <1>2, <1>4 DEF ClearSettlementAttempt, SetMarker, Typed, Data
    <2>3. mishaps' \in Nat
      BY <1>4 DEF ClearSettlementAttempt, Mishap, Typed, Data
    <2>. QED  BY <1>4, <2>1, <2>2, <2>3 DEF ClearSettlementAttempt, Typed, Data, cartVars, gatewayVars
  <1>5. ASSUME UndoCompleteCart(w) PROVE Control' /\ Data'
    <2>1. Control'
      BY <1>1, <1>5, GotoControl DEF UndoCompleteCart, Typed
    <2>2. ordered' \in [Carts -> BOOLEAN] /\ due' \in [Carts -> Amounts \cup {None}]
      BY <1>0, <1>5 DEF UndoCompleteCart, Typed, Data
    <2>. QED  BY <1>5, <2>1, <2>2 DEF UndoCompleteCart, Typed, Data, sessionVars, gatewayVars
  <1>6. ASSUME CompensateSettlementAttempt(w) PROVE Control' /\ Data'
    <2>1. Control'
      BY <1>0, <1>6, LeaveControl DEF CompensateSettlementAttempt, Typed
    <2>2. marker[c] \in Markers /\ psession[c] \in PaymentSessions
      BY <1>0 DEF Typed, Data
    <2>3. NoSession \in PaymentSessions
      BY DEF NoSession, PaymentSessions, SettlementStates
    <2>4. MarkerAfterFailure(w, psession[c]) \in Markers /\ MarkerAfterFailure(w, NoSession) \in Markers
      BY <1>0, <2>2, <2>3, FailureMarker
    <2>5. marker' \in [Carts -> Markers]
      BY <1>0, <1>6, <2>4 DEF CompensateSettlementAttempt, SetMarker, Typed, Data
    <2>6. mishaps' \in Nat
      BY <1>6 DEF CompensateSettlementAttempt, Mishap, Typed, Data
    <2>. QED  BY <1>6, <2>1, <2>5, <2>6 DEF CompensateSettlementAttempt, Typed, Data, cartVars, gatewayVars
  <1>. QED  BY <1>3, <1>4, <1>5, <1>6 DEF Typed

LEMMA CrashTyped ==
    ASSUME NEW w \in Workers, Typed, Crash(w)
    PROVE  Typed'
  <1>1. Control'
    BY AnswerControl DEF Crash, Typed
  <1>2. lock' \in [Carts -> Workers \cup {None}] /\ mishaps' \in Nat
    BY DEF Crash, Mishap, Typed, Data
  <1>. QED  BY <1>1, <1>2 DEF Crash, Typed, Data, sessionVars, cartVars, gatewayVars

LEMMA MoneyMovesTyped ==
    ASSUME NEW a \in Authorizations, Typed, MoneyMoves(a)
    PROVE  Typed'
  BY DEF MoneyMoves, Typed, Control, Data, RequestOK, sessionVars, cartVars

LEMMA StutterTyped ==
    ASSUME Typed, UNCHANGED vars
    PROVE  Typed'
  BY DEF vars, Typed, Control, Data, RequestOK, sessionVars, cartVars, gatewayVars

LEMMA StepTyped ==
    ASSUME Typed, [Next]_vars
    PROVE  Typed'
  <1>1. ASSUME NEW w \in Workers, Step(w) PROVE Typed'
    BY <1>1, ShippingTyped, LockTyped, ChangeTyped, AdmissionTyped, PreparationTyped, CompleteCartTyped,
       ProviderTyped, EndingTyped DEF Step
  <1>. QED  BY <1>1, ArrivalTyped, CrashTyped, MoneyMovesTyped, StutterTyped DEF Next

\* Every state the checkout can reach is typed: whatever fails, no worker loses
\* the cart or the credential of its request, and no marker or payment session
\* ever holds a state outside those the code knows.
THEOREM TypeCorrect == Spec => []TypeOK
  <1>1. Init => Typed
    BY InitTyped
  <1>2. Typed /\ [Next]_vars => Typed'
    BY StepTyped
  <1>3. Typed => TypeOK
    BY DEF Typed, Control, Data, TypeOK
  <1>. QED  BY <1>1, <1>2, <1>3, PTL DEF Spec

-----------------------------------------------------------------------------
(* The inductive invariant, but for what has been paid.                    *)

Others == \A v \in Workers : WorkerOK(v)
Sessions == \A c \in Carts : AuthorizedOK(c)
Exposures == \A c \in Carts, a \in Authorizations : ExposureOK(c, a)

Safe == Typed /\ Others /\ Sessions /\ Exposures

\* A step of worker w that leaves alone what the other workers rely on: their
\* requests, the carts they have locked, and the ledger rows that exist.
Frame(w) ==
    /\ \A v \in Workers \ {w} : pc'[v] = pc[v] /\ req'[v] = req[v]
    /\ \A d \in Carts : lock[d] \in Workers \ {w} =>
          /\ lock'[d] = lock[d] /\ marker'[d] = marker[d] /\ ordered'[d] = ordered[d]
          /\ psession'[d] = psession[d]
          /\ \A a \in Authorizations : Exposed(d, a)' <=> Exposed(d, a)
    /\ \A a \in Authorizations : ledger[a] \in Carts => ledger'[a] = ledger[a]

\* What nobody but the worker that moves can break holds after its step.
LEMMA FrameOthers ==
    ASSUME Safe, Typed', NEW w \in Workers, Frame(w), NEW v \in Workers \ {w}
    PROVE  WorkerOK(v)'
  <1>1. pc'[v] = pc[v] /\ req'[v] = req[v] /\ CartOf(v)' = CartOf(v)
    BY DEF Frame, CartOf
  <1>2. RequestOK(v)'
    BY DEF Typed, Control
  <1>3. WorkerOK(v)
    BY DEF Safe, Others
  <1>4. CASE pc[v] \in UnderLock
    <2>1. PICK d \in Carts : d = CartOf(v) /\ lock[d] = v
      <3>1. pc[v] # "idle"
        BY <1>4 DEF UnderLock
      <3>2. CartOf(v) \in Carts
        BY <3>1, WorkerTyped DEF Safe, Typed
      <3>. QED  BY <1>3, <1>4, <3>2 DEF WorkerOK, LockOK
    <2>2. /\ lock'[d] = v /\ marker'[d] = marker[d] /\ ordered'[d] = ordered[d]
          /\ psession'[d] = psession[d]
          /\ \A a \in Authorizations : Exposed(d, a)' <=> Exposed(d, a)
      BY <2>1 DEF Frame
    <2>3. LockOK(v)' /\ MarkerOK(v)' /\ OrderOK(v)' /\ SessionOK(v)'
      BY <1>1, <1>3, <2>1, <2>2 DEF WorkerOK, LockOK, MarkerOK, OrderOK, SessionOK, Unanswered, CartOf
    <2>4. ReservedOK(v)'
      <3>1. SUFFICES ASSUME pc[v] \in {"setup", "begin"} \cup Attempting
                     PROVE  ledger'[Auth(v)] = d /\ Auth(v)' = Auth(v)
        BY <1>1, <2>1 DEF ReservedOK, CartOf
      <3>2. ledger[Auth(v)] = d
        BY <1>3, <2>1, <3>1 DEF WorkerOK, ReservedOK
      <3>3. Auth(v) \in Authorizations /\ Auth(v)' = Auth(v)
        <4>1. req[v].op = "complete" /\ pc[v] # "idle"
          BY <1>3, <3>1 DEF WorkerOK, RequestOK, RequestFits, Attempting, Paying, Admitted
        <4>. QED  BY <1>1, <4>1, WorkerTyped DEF Safe, Typed, Auth
      <3>. QED  BY <2>1, <3>2, <3>3 DEF Frame
    <2>5. Clearable(v)' <=> Clearable(v)
      BY <1>1, <2>1, <2>2 DEF Clearable, CartOf
    <2>6. FreshOK(v)'
      BY <1>1, <1>3, <2>1, <2>2, <2>5 DEF WorkerOK, FreshOK, CartOf
    <2>. QED  BY <1>2, <2>3, <2>4, <2>6 DEF WorkerOK
  <1>5. CASE pc[v] \notin UnderLock
    <2>1. pc[v] \in {"idle", "shipping", "add", "wait", "fetch", "prepare"}
      BY <1>5 DEF Safe, Typed, Control, UnderLock
    <2>. QED  BY <1>1, <1>2, <1>3, <2>1
              DEF WorkerOK, LockOK, MarkerOK, ReservedOK, OrderOK, SessionOK, FreshOK,
                  UnderLock, Admitted, Attempting, Paying
  <1>. QED  BY <1>4, <1>5

LEMMA FrameStep ==
    ASSUME Safe, Typed', NEW w \in Workers, Frame(w), WorkerOK(w)', Sessions', Exposures'
    PROVE  Safe'
  BY FrameOthers DEF Safe, Others

\* An exposed payment stays held when its marker and order stay, and w does not
\* start to make an order of the cart.
LEMMA ExposureKept ==
    ASSUME Safe, NEW w \in Workers, Frame(w), NEW d \in Carts,
           NEW a \in Authorizations,
           Exposed(d, a)' => Exposed(d, a),
           ordered[d] => ordered'[d],
           HeldByMarker(d, a) => HeldByMarker(d, a)',
           pc'[w] \in Undoable /\ req'[w].cart = d /\ req'[w].made =>
              pc[w] \in Undoable /\ req[w].cart = d /\ req[w].made
    PROVE  ExposureOK(d, a)'
  <1>1. ExposureOK(d, a)
    BY DEF Safe, Exposures
  <1>2. SUFFICES ASSUME Exposed(d, a)'
                 PROVE  ledger'[a] = d /\ (Kept(d)' \/ HeldByMarker(d, a)')
    BY DEF ExposureOK
  <1>3. ledger[a] = d /\ (Kept(d) \/ HeldByMarker(d, a))
    BY <1>1, <1>2 DEF ExposureOK
  <1>4. ledger'[a] = d
    BY <1>3 DEF Frame
  <1>5. Kept(d) => Kept(d)'
    BY DEF Frame, Kept, CartOf
  <1>. QED  BY <1>3, <1>4, <1>5

-----------------------------------------------------------------------------
(* Steps outside the attempt: requests, the lock, update, cancel, refusals. *)

Outside == {"idle", "shipping", "add", "wait", "unlock", "mutable", "update", "cancel", "fetch",
            "prepare", "guard"}

\* A step that takes its worker out of an attempt, or leaves it outside one, and
\* that touches no marker, order or exposure.
LEMMA QuietStep ==
    ASSUME Safe, Typed', NEW w \in Workers, Frame(w),
           pc'[w] \in Outside,
           pc'[w] \in UnderLock => lock'[req'[w].cart] = w,
           pc'[w] \in {"shipping", "add", "wait", "guard"} => ~req'[w].made,
           pc'[w] \in {"update", "cancel"} =>
              marker[req'[w].cart].state = "none" /\ ~ordered[req'[w].cart],
           marker' = marker, ordered' = ordered, exposed' = exposed, Sessions'
    PROVE  Safe'
  <1>1. RequestOK(w)'
    BY DEF Typed, Control
  <1>2. WorkerOK(w)'
    BY <1>1 DEF WorkerOK, LockOK, MarkerOK, ReservedOK, OrderOK, SessionOK, FreshOK, CartOf,
                Outside, Admitted, Attempting, Paying
  <1>3. ASSUME NEW d \in Carts, NEW a \in Authorizations PROVE ExposureOK(d, a)'
    BY <1>3, ExposureKept DEF Exposed, HeldByMarker, Outside, Undoable, Paying
  <1>4. Exposures'
    BY <1>3 DEF Exposures
  <1>. QED  BY <1>2, <1>4, FrameStep

LEMMA ArrivalSafe ==
    ASSUME NEW w \in Workers, NEW c \in Carts, Safe,
           \/ \E k \in Credentials : ValidatePrerequisites(w, c, k)
           \/ \E op \in {"update", "cancel"} : RequestChange(w, c, op)
    PROVE  Safe'
  <1>0. Typed'
    BY ArrivalTyped DEF Safe
  <1>1. PICK o \in {"complete", "update", "cancel"}, k \in Credentials \cup {None} :
           /\ pc' = [pc EXCEPT ![w] = IF o = "complete" THEN "shipping" ELSE "wait"]
           /\ req' = [req EXCEPT ![w] = Request(o, c, k)]
           /\ UNCHANGED <<lock, marker, ordered, psession, ledger, exposed>>
    BY DEF ValidatePrerequisites, RequestChange, Goto, sessionVars, cartVars, gatewayVars
  <1>2. pc'[w] \in {"shipping", "wait"} /\ ~req'[w].made
    BY <1>1, RequestTyped DEF Safe, Typed, Control
  <1>3. Frame(w)
    BY <1>1 DEF Frame, Exposed, Safe, Typed, Control
  <1>4. Sessions'
    BY <1>1 DEF Safe, Sessions, AuthorizedOK
  <1>. QED  BY <1>0, <1>1, <1>2, <1>3, <1>4, QuietStep DEF Outside, UnderLock

LEMMA ShippingSafe ==
    ASSUME NEW w \in Workers, Safe, EnsureShippingMethod(w) \/ AddShippingMethod(w)
    PROVE  Safe'
  <1>0. Typed'
    BY ShippingTyped DEF Safe
  <1>1. /\ UNCHANGED <<lock, marker, ordered, ledger, exposed>>
        /\ pc[w] \in {"shipping", "add"}
    BY DEF EnsureShippingMethod, AddShippingMethod, sessionVars, cartVars, gatewayVars
  <1>2. PICK c \in Carts : c = CartOf(w)
    BY <1>1, WorkerTyped DEF Safe, Typed
  <1>3. \A v \in Workers \ {w} : pc'[v] = pc[v] /\ req'[v] = req[v]
    BY DEF EnsureShippingMethod, AddShippingMethod, Answer, Goto, Safe, Typed, Control
  <1>4. /\ psession' = psession \/ lock[c] = None
        /\ \A d \in Carts : psession'[d] \in {psession[d], NoSession}
        /\ \A d \in Carts : d # c => psession'[d] = psession[d]
    BY <1>2 DEF EnsureShippingMethod, AddShippingMethod, ChangeTotal, cartVars, Safe, Typed, Data
  <1>5. Frame(w)
    BY <1>1, <1>3, <1>4, ConstantsAssumption DEF Frame, Exposed
  <1>6. Sessions'
    BY <1>4 DEF Safe, Sessions, AuthorizedOK, NoSession
  <1>7. pc'[w] \in {"add", "wait", "idle"} /\ (pc'[w] # "idle" => ~req'[w].made)
    <2>1. ~req[w].made
      BY <1>1 DEF Safe, Others, WorkerOK, OrderOK
    <2>. QED  BY <2>1 DEF EnsureShippingMethod, AddShippingMethod, Answer, Goto, Safe, Typed,
                          Control
  <1>. QED  BY <1>0, <1>1, <1>5, <1>6, <1>7, QuietStep DEF Outside, UnderLock

LEMMA LockSafe ==
    ASSUME NEW w \in Workers, Safe, AcquireLock(w) \/ LockTimeout(w) \/ ReleaseLock(w)
    PROVE  Safe'
  <1>0. Typed'
    BY LockTyped DEF Safe
  <1>1. /\ UNCHANGED <<marker, ordered, psession, ledger, exposed>>
        /\ pc[w] \in {"wait", "unlock"}
    BY DEF AcquireLock, LockTimeout, ReleaseLock, sessionVars, cartVars, gatewayVars
  <1>2. Sessions'
    BY <1>1 DEF Safe, Sessions, AuthorizedOK
  <1>3. PICK c \in Carts : c = req[w].cart
    BY <1>1, WorkerTyped DEF Safe, Typed, CartOf
  <1>4. \A v \in Workers \ {w} : pc'[v] = pc[v] /\ req'[v] = req[v]
    BY DEF AcquireLock, LockTimeout, ReleaseLock, Answer, Goto, Safe, Typed, Control
  <1>5. \A d \in Carts : lock[d] \in Workers \ {w} => lock'[d] = lock[d]
    <2>1. lock[c] \in {None, w} \/ lock' = lock
      <3>1. CASE ReleaseLock(w)
        <4>1. pc[w] \in UnderLock
          BY <3>1 DEF ReleaseLock, UnderLock, Labels
        <4>. QED  BY <1>3, <4>1 DEF Safe, Others, WorkerOK, LockOK, CartOf
      <3>. QED  BY <1>3, <3>1 DEF AcquireLock, LockTimeout, CartOf
    <2>2. \A d \in Carts : d # c => lock'[d] = lock[d]
      BY <1>3 DEF AcquireLock, LockTimeout, ReleaseLock, CartOf, Safe, Typed, Data
    <2>. QED  BY <2>1, <2>2, ConstantsAssumption
  <1>6. Frame(w)
    BY <1>1, <1>4, <1>5 DEF Frame, Exposed
  <1>7. /\ pc'[w] \in Outside
        /\ pc'[w] \in UnderLock => lock'[req'[w].cart] = w
        /\ pc'[w] \in {"shipping", "add", "wait", "guard"} => ~req'[w].made
        /\ pc'[w] \notin {"update", "cancel"}
    <2>1. CASE AcquireLock(w)
      <3>1. pc'[w] \in {"guard", "mutable"} /\ req' = req /\ lock'[c] = w
        BY <1>3, <2>1 DEF AcquireLock, Goto, CartOf, Safe, Typed, Control, Data
      <3>2. ~req[w].made
        BY <2>1 DEF AcquireLock, Safe, Others, WorkerOK, OrderOK
      <3>. QED  BY <1>3, <3>1, <3>2 DEF Outside
    <2>2. CASE LockTimeout(w) \/ ReleaseLock(w)
      <3>1. pc'[w] = "idle" \/ (ReleaseLock(w) /\ pc'[w] = req[w].next)
        BY <2>2 DEF LockTimeout, ReleaseLock, Answer, Goto, Safe, Typed, Control
      <3>2. req[w].next \in {"idle", "fetch"}
        BY <1>1, WorkerTyped DEF Safe, Typed, Requests
      <3>. QED  BY <3>1, <3>2 DEF Outside, UnderLock
    <2>. QED  BY <2>1, <2>2
  <1>. QED  BY <1>0, <1>1, <1>2, <1>6, <1>7, QuietStep

\* A worker under the lock of its cart holds it.
LEMMA Holder ==
    ASSUME Safe, NEW w \in Workers, pc[w] \in UnderLock
    PROVE  \E c \in Carts : c = CartOf(w) /\ lock[c] = w
  <1>1. pc[w] # "idle"
    BY DEF UnderLock
  <1>2. CartOf(w) \in Carts
    BY <1>1, WorkerTyped DEF Safe, Typed
  <1>. QED  BY <1>2 DEF Safe, Others, WorkerOK, LockOK

\* A worker that holds the lock of its cart may change all of that cart.
LEMMA HolderFrame ==
    ASSUME Safe, NEW w \in Workers, NEW c \in Carts, lock[c] = w,
           \A v \in Workers \ {w} : pc'[v] = pc[v] /\ req'[v] = req[v],
           \A d \in Carts \ {c} :
              /\ lock'[d] = lock[d] /\ marker'[d] = marker[d] /\ ordered'[d] = ordered[d]
              /\ psession'[d] = psession[d]
              /\ \A a \in Authorizations : Exposed(d, a)' <=> Exposed(d, a),
           \A a \in Authorizations : ledger[a] \in Carts => ledger'[a] = ledger[a]
    PROVE  Frame(w)
  BY DEF Frame

LEMMA ChangeSafe ==
    ASSUME NEW w \in Workers, Safe,
           AssertSessionMutable(w) \/ UpdateCart(w) \/ CancelSession(w)
    PROVE  Safe'
  <1>0. Typed'
    BY ChangeTyped DEF Safe
  <1>1. /\ UNCHANGED <<lock, marker, ordered, ledger, exposed>>
        /\ pc[w] \in UnderLock
    BY DEF AssertSessionMutable, UpdateCart, CancelSession, sessionVars, cartVars, gatewayVars,
           UnderLock, Labels
  <1>2. PICK c \in Carts : c = CartOf(w) /\ lock[c] = w
    BY <1>1, Holder
  <1>3. \A d \in Carts : psession'[d] = psession[d] \/ (d = c /\ psession'[d] = NoSession)
    BY <1>2 DEF AssertSessionMutable, UpdateCart, ChangeTotal, CancelSession, cartVars,
               Safe, Typed, Data
  <1>4. Sessions'
    BY <1>3 DEF Safe, Sessions, AuthorizedOK, NoSession
  <1>5. LeaveTo(w, "idle") \/ LeaveTo(w, "fetch") \/ (Goto(w, req[w].op) /\ UNCHANGED req)
    BY DEF AssertSessionMutable, UpdateCart, CancelSession
  <1>6. \A v \in Workers \ {w} : pc'[v] = pc[v] /\ req'[v] = req[v]
    BY <1>5 DEF LeaveTo, Goto, Safe, Typed, Control
  <1>7. Frame(w)
    BY <1>1, <1>2, <1>3, <1>6, HolderFrame DEF Exposed
  <1>8. pc'[w] \in {"unlock", "update", "cancel"} /\ req'[w].cart = c
    <2>1. req[w] \in Requests /\ RequestFits(pc[w], req[w])
      <3>1. pc[w] # "idle"
        BY <1>1 DEF UnderLock
      <3>. QED  BY <3>1, WorkerTyped DEF Safe, Typed
    <2>2. CASE LeaveTo(w, "idle") \/ LeaveTo(w, "fetch")
      BY <1>2, <2>1, <2>2 DEF LeaveTo, Goto, Safe, Typed, Control, Requests, CartOf
    <2>3. CASE Goto(w, req[w].op) /\ UNCHANGED req /\ AssertSessionMutable(w)
      <3>1. req[w].op \in {"update", "cancel"}
        BY <2>1, <2>3 DEF AssertSessionMutable, RequestFits, Requests
      <3>. QED  BY <1>2, <2>3, <3>1 DEF Goto, Safe, Typed, Control, CartOf
    <2>. QED  BY <2>2, <2>3 DEF AssertSessionMutable, UpdateCart, CancelSession
  <1>9. pc'[w] \in Outside /\ lock'[req'[w].cart] = w /\ pc'[w] \notin {"wait", "guard"}
    BY <1>1, <1>2, <1>8 DEF Outside
  <1>10. pc'[w] \in {"update", "cancel"} => marker[c].state = "none" /\ ~ordered[c]
    <2>1. SUFFICES ASSUME pc'[w] \in {"update", "cancel"}
                   PROVE  marker[c].state = "none" /\ ~ordered[c]
      OBVIOUS
    <2>2. ~LeaveTo(w, "idle") /\ ~LeaveTo(w, "fetch")
      BY <2>1 DEF LeaveTo, Goto, Safe, Typed, Control
    <2>3. AssertSessionMutable(w)
      BY <2>2 DEF UpdateCart, CancelSession
    <2>4. UcpStatus(canceled[c], ordered[c], marker[c]) = "open"
      BY <1>2, <2>2, <2>3 DEF AssertSessionMutable, UcpStatus, LockedStatuses
    <2>5. marker[c] \in Markers
      BY DEF Safe, Typed, Data
    <2>. QED  BY <2>4, <2>5 DEF UcpStatus, Markers
  <1>. QED  BY <1>0, <1>1, <1>4, <1>7, <1>8, <1>9, <1>10, QuietStep

LEMMA QuoteSafe ==
    ASSUME NEW w \in Workers, Safe, FetchUpdatedCart(w) \/ PrepareCheckoutPayment(w)
    PROVE  Safe'
  <1>0. Typed'
    BY ChangeTyped DEF Safe
  <1>1. /\ UNCHANGED <<lock, marker, ordered, psession, ledger, exposed>>
        /\ pc'[w] \in {"idle", "prepare"}
        /\ \A v \in Workers \ {w} : pc'[v] = pc[v] /\ req'[v] = req[v]
    BY DEF FetchUpdatedCart, PrepareCheckoutPayment, Answer, Goto, sessionVars, cartVars,
           gatewayVars, Safe, Typed, Control
  <1>2. Frame(w)
    BY <1>1 DEF Frame, Exposed
  <1>3. Sessions'
    BY <1>1 DEF Safe, Sessions, AuthorizedOK
  <1>. QED  BY <1>0, <1>1, <1>2, <1>3, QuietStep DEF Outside, UnderLock

LEMMA CrashSafe ==
    ASSUME NEW w \in Workers, Safe, Crash(w)
    PROVE  Safe'
  <1>0. Typed'
    BY CrashTyped DEF Safe
  <1>1. /\ UNCHANGED <<marker, ordered, psession, ledger, exposed>>
        /\ pc'[w] = "idle"
        /\ \A v \in Workers \ {w} : pc'[v] = pc[v] /\ req'[v] = req[v]
        /\ \A d \in Carts : lock[d] \in Workers \ {w} => lock'[d] = lock[d]
    BY DEF Crash, Answer, Goto, sessionVars, cartVars, gatewayVars, Safe, Typed, Control
  <1>2. Frame(w)
    BY <1>1 DEF Frame, Exposed
  <1>3. Sessions'
    BY <1>1 DEF Safe, Sessions, AuthorizedOK
  <1>. QED  BY <1>0, <1>1, <1>2, <1>3, QuietStep DEF Outside, UnderLock

\* The invariant does not mention the money that has moved.
LEMMA SameSafe ==
    ASSUME Safe, Typed',
           UNCHANGED <<pc, req, lock, marker, ordered, psession, ledger, exposed>>
    PROVE  Safe'
  <1>1. ASSUME NEW w \in Workers PROVE WorkerOK(w)'
    <2>1. WorkerOK(w) /\ (Clearable(w)' <=> Clearable(w))
      BY DEF Safe, Others, Clearable, CartOf
    <2>2. RequestOK(w)' /\ LockOK(w)' /\ MarkerOK(w)' /\ ReservedOK(w)'
      BY <2>1 DEF WorkerOK, RequestOK, LockOK, MarkerOK, ReservedOK, CartOf, Auth
    <2>3. OrderOK(w)' /\ SessionOK(w)' /\ FreshOK(w)'
      BY <2>1 DEF WorkerOK, OrderOK, SessionOK, FreshOK, Unanswered, CartOf, Exposed
    <2>. QED  BY <2>2, <2>3 DEF WorkerOK
  <1>2. Sessions' /\ Exposures'
    BY DEF Safe, Sessions, AuthorizedOK, Exposures, ExposureOK, Exposed, Kept, HeldByMarker, CartOf
  <1>. QED  BY <1>1, <1>2 DEF Safe, Others

LEMMA EnvironmentSafe ==
    ASSUME Safe, (\E a \in Authorizations : MoneyMoves(a)) \/ UNCHANGED vars
    PROVE  Safe'
  <1>1. Typed'
    BY MoneyMovesTyped, StutterTyped DEF Safe
  <1>2. UNCHANGED <<pc, req, lock, marker, ordered, psession, ledger, exposed>>
    BY DEF MoneyMoves, vars, sessionVars, cartVars, gatewayVars
  <1>. QED  BY <1>1, <1>2, SameSafe

\* A completion that is refused, or that fails before it has a marker, leaves its
\* cart as it was, but for a payment session it deleted.
LEMMA RefusalSafe ==
    ASSUME NEW w \in Workers, Safe, Typed', pc[w] \in UnderLock, LeaveTo(w, "idle"),
           UNCHANGED <<lock, marker, ordered, ledger, exposed>>,
           \/ UNCHANGED psession
           \/ psession' = [psession EXCEPT ![CartOf(w)] = NoSession]
    PROVE  Safe'
  <1>1. PICK c \in Carts : c = CartOf(w) /\ lock[c] = w
    BY Holder
  <1>2. \A d \in Carts : psession'[d] = psession[d] \/ (d = c /\ psession'[d] = NoSession)
    BY <1>1 DEF Safe, Typed, Data
  <1>3. Sessions'
    BY <1>2 DEF Safe, Sessions, AuthorizedOK, NoSession
  <1>4. \A v \in Workers \ {w} : pc'[v] = pc[v] /\ req'[v] = req[v]
    BY DEF LeaveTo, Goto, Safe, Typed, Control
  <1>5. Frame(w)
    BY <1>1, <1>2, <1>4, HolderFrame DEF Exposed
  <1>6. pc'[w] = "unlock" /\ req'[w].cart = c
    BY <1>1 DEF LeaveTo, Goto, Safe, Typed, Control, Requests, CartOf
  <1>. QED  BY <1>1, <1>3, <1>5, <1>6, QuietStep DEF Outside

-----------------------------------------------------------------------------
(* Admission: the guard, the ledger, the payment session and the marker.   *)

LEMMA GuardSafe ==
    ASSUME NEW w \in Workers, Safe, GuardPendingSettlement(w)
    PROVE  Safe'
  <1>0. Typed'
    BY AdmissionTyped DEF Safe
  <1>1. /\ UNCHANGED <<lock, marker, ordered, psession, ledger, exposed>>
        /\ pc[w] = "guard" /\ pc[w] \in UnderLock
    BY DEF GuardPendingSettlement, sessionVars, cartVars, gatewayVars, UnderLock, Labels
  <1>2. PICK c \in Carts : c = CartOf(w) /\ lock[c] = w
    BY <1>1, Holder
  <1>3. CASE LeaveTo(w, "idle")
    BY <1>0, <1>1, <1>3, RefusalSafe
  <1>4. CASE /\ GuardVerdict(marker[c], req[w].cred) # "refused"
             /\ Goto(w, "reserve")
             /\ req' = [req EXCEPT ![w].resumed =
                           (GuardVerdict(marker[c], req[w].cred) = "resumed")]
    <2>1. /\ pc'[w] = "reserve" /\ req'[w].cart = c /\ req'[w].cred = req[w].cred
          /\ req'[w].made = req[w].made
          /\ req'[w].resumed = (GuardVerdict(marker[c], req[w].cred) = "resumed")
          /\ \A v \in Workers \ {w} : pc'[v] = pc[v] /\ req'[v] = req[v]
      BY <1>2, <1>4 DEF Goto, CartOf, Safe, Typed, Control, Requests
    <2>2. Frame(w)
      BY <1>1, <1>2, <2>1, HolderFrame DEF Exposed
    <2>3. ~req[w].made
      BY <1>1 DEF Safe, Others, WorkerOK, OrderOK
    <2>4. ASSUME marker[c].state = "none", NEW a \in Authorizations, Exposed(c, a)
          PROVE  ordered[c]
      BY <2>4 DEF Safe, Exposures, ExposureOK, Kept, HeldByMarker
    <2>5. MarkerOK(w)'
      <3>1. marker[c].state \in {"none", "settling", "pending", "review"}
        BY DEF Safe, Typed, Data, Markers
      <3>. QED  BY <1>1, <1>4, <2>1, <3>1 DEF MarkerOK, CartOf, GuardVerdict, Admitted, Attempting,
                                              Paying
    <2>6. FreshOK(w)'
      <3>1. ~req'[w].resumed => marker[c].state = "none"
        BY <1>4, <2>1 DEF GuardVerdict
      <3>. QED  BY <1>1, <2>1, <2>4, <3>1 DEF FreshOK, CartOf, Exposed
    <2>7. LockOK(w)' /\ OrderOK(w)' /\ ReservedOK(w)' /\ SessionOK(w)'
      BY <1>1, <1>2, <2>1, <2>3 DEF LockOK, OrderOK, ReservedOK, SessionOK, CartOf, Attempting,
                                    Paying, Admitted
    <2>8. WorkerOK(w)'
      BY <1>0, <2>5, <2>6, <2>7 DEF WorkerOK, Typed, Control
    <2>9. Sessions'
      BY <1>1 DEF Safe, Sessions, AuthorizedOK
    <2>10. ASSUME NEW d \in Carts, NEW a \in Authorizations PROVE ExposureOK(d, a)'
      BY <1>1, <2>1, <2>2, ExposureKept DEF Exposed, HeldByMarker, Undoable, Paying
    <2>11. Exposures'
      BY <2>10 DEF Exposures
    <2>. QED  BY <1>0, <2>2, <2>8, <2>9, <2>11, FrameStep
  <1>. QED  BY <1>2, <1>3, <1>4 DEF GuardPendingSettlement

LEMMA ReserveSafe ==
    ASSUME NEW w \in Workers, Safe, ReservePaymentAuthorization(w)
    PROVE  Safe'
  <1>0. Typed'
    BY AdmissionTyped DEF Safe
  <1>1. /\ UNCHANGED <<lock, marker, ordered, psession, exposed>>
        /\ pc[w] = "reserve" /\ pc[w] \in UnderLock
    BY DEF ReservePaymentAuthorization, sessionVars, cartVars, gatewayVars, UnderLock, Labels
  <1>2. PICK c \in Carts : c = CartOf(w) /\ lock[c] = w
    BY <1>1, Holder
  <1>3. CASE LeaveTo(w, "idle") /\ UNCHANGED ledger
    BY <1>0, <1>1, <1>3, RefusalSafe
  <1>4. CASE /\ MayReserve(ledger[Auth(w)], c)
             /\ ledger' = [ledger EXCEPT ![Auth(w)] = c]
             /\ Goto(w, "setup") /\ UNCHANGED req
    <2>1. /\ pc'[w] = "setup" /\ req' = req
          /\ \A v \in Workers \ {w} : pc'[v] = pc[v] /\ req'[v] = req[v]
      BY <1>4 DEF Goto, Safe, Typed, Control
    <2>2. Auth(w) \in Authorizations
      BY <1>1, WorkerTyped DEF Safe, Typed, RequestFits, Admitted
    <2>3. /\ ledger'[Auth(w)] = c
          /\ \A a \in Authorizations : ledger[a] \in Carts => ledger'[a] = ledger[a]
      BY <1>4, <2>2, ConstantsAssumption DEF MayReserve, Safe, Typed, Data
    <2>4. Frame(w)
      BY <1>1, <1>2, <2>1, <2>3, HolderFrame DEF Exposed
    <2>5. WorkerOK(w)
      BY DEF Safe, Others
    <2>6. WorkerOK(w)'
      <3>1. RequestOK(w)'
        BY <1>0 DEF Typed, Control
      <3>2. ReservedOK(w)'
        BY <1>2, <2>1, <2>3 DEF ReservedOK, CartOf, Auth
      <3>3. LockOK(w)' /\ OrderOK(w)' /\ MarkerOK(w)' /\ FreshOK(w)' /\ SessionOK(w)'
        BY <1>1, <1>2, <2>1, <2>5 DEF WorkerOK, LockOK, OrderOK, MarkerOK, FreshOK, SessionOK,
              CartOf, Exposed, Attempting, Paying, Admitted
      <3>. QED  BY <3>1, <3>2, <3>3 DEF WorkerOK
    <2>7. Sessions'
      BY <1>1 DEF Safe, Sessions, AuthorizedOK
    <2>8. ASSUME NEW d \in Carts, NEW a \in Authorizations PROVE ExposureOK(d, a)'
      BY <1>1, <2>1, <2>4, ExposureKept DEF Exposed, HeldByMarker, Undoable, Paying
    <2>9. Exposures'
      BY <2>8 DEF Exposures
    <2>. QED  BY <1>0, <2>4, <2>6, <2>7, <2>9, FrameStep
  <1>5. CASE /\ MayReserve(ledger[Auth(w)], c)
             /\ ledger' = [ledger EXCEPT ![Auth(w)] = c]
             /\ LeaveTo(w, "idle")
    <2>1. /\ pc'[w] = "unlock" /\ req'[w].cart = c
          /\ \A v \in Workers \ {w} : pc'[v] = pc[v] /\ req'[v] = req[v]
      BY <1>2, <1>5 DEF LeaveTo, Goto, Safe, Typed, Control, Requests, CartOf
    <2>2. \A a \in Authorizations : ledger[a] \in Carts => ledger'[a] = ledger[a]
      BY <1>5, ConstantsAssumption DEF MayReserve, Safe, Typed, Data
    <2>3. Frame(w)
      BY <1>1, <1>2, <2>1, <2>2, HolderFrame DEF Exposed
    <2>4. Sessions'
      BY <1>1 DEF Safe, Sessions, AuthorizedOK
    <2>. QED  BY <1>0, <1>1, <1>2, <2>1, <2>3, <2>4, QuietStep DEF Outside
  <1>. QED  BY <1>2, <1>3, <1>4, <1>5 DEF ReservePaymentAuthorization

\* The payment session the attempt will be authorized on: the settled one of the
\* same credential, or a new one.
LEMMA SetupSafe ==
    ASSUME NEW w \in Workers, Safe, SetupPayment(w)
    PROVE  Safe'
  <1>0. Typed'
    BY PreparationTyped DEF Safe
  <1>1. /\ UNCHANGED <<lock, marker, ordered, ledger, exposed>>
        /\ pc[w] = "setup" /\ pc[w] \in UnderLock
    BY DEF SetupPayment, sessionVars, gatewayVars, UnderLock, Labels
  <1>2. PICK c \in Carts : c = CartOf(w) /\ lock[c] = w
    BY <1>1, Holder
  <1> DEFINE settled == IsSettledWithSameCredential(psession[c], req[w].cred)
             fresh   == [NoSession EXCEPT !.status = "pending", !.cred = req[w].cred,
                                          !.amount = total[c], !.resume = req[w].resumed]
  <1>3. CASE LeaveTo(w, "idle") /\ psession' \in {psession, [psession EXCEPT ![c] = NoSession]}
    BY <1>0, <1>1, <1>2, <1>3, RefusalSafe
  <1>4. CASE /\ Goto(w, "begin") /\ UNCHANGED req
             /\ psession' = IF settled THEN psession ELSE [psession EXCEPT ![c] = fresh]
    <2>1. /\ pc'[w] = "begin" /\ req' = req
          /\ \A v \in Workers \ {w} : pc'[v] = pc[v] /\ req'[v] = req[v]
      BY <1>4 DEF Goto, Safe, Typed, Control
    <2>2. /\ \A d \in Carts \ {c} : psession'[d] = psession[d]
          /\ psession'[c] = IF settled THEN psession[c] ELSE fresh
      BY <1>4 DEF Safe, Typed, Data
    <2>3. /\ fresh.status = "pending" /\ fresh.cred = req[w].cred /\ fresh.resume = req[w].resumed
          /\ fresh.outcome = "undefined" /\ fresh.tx = None
      BY DEF NoSession
    <2>4. Frame(w)
      BY <1>1, <1>2, <2>1, <2>2, HolderFrame DEF Exposed
    <2>5. Sessions'
      <3>. HIDE DEF fresh
      <3>. QED  BY <2>2, <2>3 DEF Safe, Sessions, AuthorizedOK
    <2>6. SessionOK(w)'
      <3>1. settled => psession[c].cred = req[w].cred /\ psession[c].tx # None
                       /\ psession[c].outcome = "settled"
        BY DEF IsSettledWithSameCredential, Safe, Sessions, AuthorizedOK
      <3>. HIDE DEF fresh, settled
      <3>. QED  BY <1>2, <2>1, <2>2, <2>3, <3>1 DEF SessionOK, Unanswered, CartOf
    <2>7. WorkerOK(w)
      BY DEF Safe, Others
    <2>8. LockOK(w)' /\ OrderOK(w)' /\ MarkerOK(w)' /\ FreshOK(w)' /\ ReservedOK(w)'
      BY <1>1, <1>2, <2>1, <2>7 DEF WorkerOK, LockOK, OrderOK, MarkerOK, FreshOK, ReservedOK,
            CartOf, Auth, Exposed, Attempting, Paying, Admitted
    <2>9. WorkerOK(w)'
      BY <1>0, <2>6, <2>8 DEF WorkerOK, Typed, Control
    <2>10. ASSUME NEW d \in Carts, NEW a \in Authorizations PROVE ExposureOK(d, a)'
      BY <1>1, <2>1, <2>4, ExposureKept DEF Exposed, HeldByMarker, Undoable, Paying
    <2>11. Exposures'
      BY <2>10 DEF Exposures
    <2>. QED  BY <1>0, <2>4, <2>5, <2>9, <2>11, FrameStep
  <1>. QED  BY <1>2, <1>3, <1>4 DEF SetupPayment

\* The settling marker replaces none, or the marker of the same credential.
LEMMA BeginSafe ==
    ASSUME NEW w \in Workers, Safe, BeginSettlementAttempt(w)
    PROVE  Safe'
  <1>0. Typed'
    BY PreparationTyped DEF Safe
  <1>1. /\ UNCHANGED <<lock, ordered, psession, ledger, exposed>>
        /\ pc[w] = "begin" /\ pc[w] \in UnderLock
    BY DEF BeginSettlementAttempt, cartVars, gatewayVars, UnderLock, Labels
  <1>2. PICK c \in Carts : c = CartOf(w) /\ lock[c] = w
    BY <1>1, Holder
  <1>3. CASE LeaveTo(w, "idle") /\ UNCHANGED marker
    BY <1>0, <1>1, <1>3, RefusalSafe
  <1> DEFINE k == req[w].cred
             m == MergedPendingSettlement(marker[c],
                     [NoMarker EXCEPT !.state = "settling", !.cred = k])
  <1>4. CASE SetMarker(c, m) /\ Goto(w, "complete") /\ UNCHANGED req
    <2>1. /\ pc'[w] = "complete" /\ req' = req
          /\ \A v \in Workers \ {w} : pc'[v] = pc[v] /\ req'[v] = req[v]
      BY <1>4 DEF Goto, Safe, Typed, Control
    <2>2. k \in Credentials
      BY <1>1, WorkerTyped DEF Safe, Typed, RequestFits, Admitted
    <2>3. m.state = "settling" /\ m.cred = k
      <3>1. marker[c] \in Markers
        BY DEF Safe, Typed, Data
      <3>. QED  BY <2>2, <3>1, SettlingMarker
    <2> HIDE DEF m
    <2>4. marker'[c] = m /\ \A d \in Carts \ {c} : marker'[d] = marker[d]
      BY <1>4 DEF SetMarker, Safe, Typed, Data
    <2>5. Frame(w)
      BY <1>1, <1>2, <2>1, <2>4, HolderFrame DEF Exposed
    <2>6. WorkerOK(w)
      BY DEF Safe, Others
    <2>7. MarkerOK(w)'
      BY <1>2, <2>1, <2>3, <2>4 DEF MarkerOK, CartOf, Admitted
    <2>8. LockOK(w)' /\ OrderOK(w)' /\ SessionOK(w)' /\ FreshOK(w)' /\ ReservedOK(w)'
      BY <1>1, <1>2, <2>1, <2>6 DEF WorkerOK, LockOK, OrderOK, SessionOK, FreshOK, ReservedOK,
            Unanswered, CartOf, Auth, Exposed, Attempting, Paying, Admitted
    <2>9. WorkerOK(w)'
      BY <1>0, <2>7, <2>8 DEF WorkerOK, Typed, Control
    <2>10. Sessions'
      BY <1>1 DEF Safe, Sessions, AuthorizedOK
    <2>11. ASSUME NEW d \in Carts, NEW a \in Authorizations PROVE ExposureOK(d, a)'
      <3>1. HeldByMarker(d, a) => HeldByMarker(d, a)'
        <4>1. CASE d = c
          <5>1. marker[c].state # "none" => marker[c].cred = k
            BY <1>1, <1>2, <2>6 DEF WorkerOK, MarkerOK, Admitted, CartOf
          <5>. QED  BY <2>3, <2>4, <4>1, <5>1 DEF HeldByMarker
        <4>2. CASE d # c
          BY <2>4, <4>2 DEF HeldByMarker
        <4>. QED  BY <4>1, <4>2
      <3>. QED  BY <1>1, <2>1, <2>5, <3>1, ExposureKept DEF Exposed, Undoable, Paying
    <2>12. Exposures'
      BY <2>11 DEF Exposures
    <2>. QED  BY <1>0, <2>5, <2>9, <2>10, <2>12, FrameStep
  <1>. QED  BY <1>2, <1>3, <1>4 DEF BeginSettlementAttempt

-----------------------------------------------------------------------------
(* The attempt: completeCartWorkflow and the provider.                     *)

\* A worker of an attempt that goes on within it, and changes neither the lock,
\* the ledger nor the credential, cart and resume flag of its request, may change
\* its cart as long as its own promises and the exposures of the cart hold.
LEMMA AttemptStep ==
    ASSUME Safe, Typed', NEW w \in Workers, NEW c \in Carts, c = CartOf(w),
           pc[w] \in Attempting, pc'[w] \in Attempting,
           \A v \in Workers \ {w} : pc'[v] = pc[v] /\ req'[v] = req[v],
           req'[w].cart = c, req'[w].cred = req[w].cred,
           UNCHANGED <<lock, ledger>>,
           \A d \in Carts \ {c} :
              /\ marker'[d] = marker[d] /\ ordered'[d] = ordered[d]
              /\ psession'[d] = psession[d]
              /\ \A a \in Authorizations : Exposed(d, a)' <=> Exposed(d, a),
           MarkerOK(w)', OrderOK(w)', SessionOK(w)', FreshOK(w)', AuthorizedOK(c)',
           \A a \in Authorizations : ExposureOK(c, a)'
    PROVE  Safe'
  <1>1. lock[c] = w
    <2>1. pc[w] \in UnderLock
      BY DEF Attempting, Paying, UnderLock, Labels
    <2>. QED  BY <2>1, Holder
  <1>2. Frame(w)
    BY <1>1, HolderFrame
  <1>3. WorkerOK(w)
    BY DEF Safe, Others
  <1>4. ReservedOK(w)' /\ LockOK(w)'
    BY <1>1, <1>3 DEF WorkerOK, ReservedOK, LockOK, CartOf, Auth
  <1>5. WorkerOK(w)'
    BY <1>4 DEF WorkerOK, Typed, Control
  <1>6. Sessions'
    BY DEF Safe, Sessions, AuthorizedOK
  <1>7. ASSUME NEW d \in Carts, NEW a \in Authorizations PROVE ExposureOK(d, a)'
    <2>1. CASE d # c
      BY <1>2, <2>1, ExposureKept DEF HeldByMarker
    <2>. QED  BY <2>1
  <1>8. Exposures'
    BY <1>7 DEF Exposures
  <1>. QED  BY <1>2, <1>5, <1>6, <1>8, FrameStep

\* At the cart of an attempt that has made its order, every exposure is that of
\* its own authorization.
LEMMA OwnExposure ==
    ASSUME Safe, NEW w \in Workers, pc[w] \in Paying,
           NEW a \in Authorizations, Exposed(CartOf(w), a)
    PROVE  a = Auth(w)
  <1>1. PICK c \in Carts : c = CartOf(w) /\ lock[c] = w
    BY Holder DEF Paying, UnderLock, Labels
  <1>2. WorkerOK(w)
    BY DEF Safe, Others
  <1>3. ~Kept(c)
    BY <1>1, <1>2 DEF WorkerOK, OrderOK, Kept, Undoable
  <1>4. HeldByMarker(c, a)
    BY <1>1, <1>3 DEF Safe, Exposures, ExposureOK
  <1>5. marker[c].cred = req[w].cred
    BY <1>1, <1>2 DEF WorkerOK, MarkerOK, Attempting
  <1>. QED  BY <1>4, <1>5 DEF HeldByMarker, Auth

LEMMA CompleteCartSafe ==
    ASSUME NEW w \in Workers, Safe, CompleteCart(w)
    PROVE  Safe'
  <1>0. Typed'
    BY CompleteCartTyped DEF Safe
  <1>1. /\ UNCHANGED <<lock, marker, psession, ledger, exposed>>
        /\ pc[w] = "complete" /\ pc[w] \in Attempting /\ pc[w] \in UnderLock
    BY DEF CompleteCart, MakeOrder, sessionVars, gatewayVars, UnderLock, Labels, Attempting
  <1>2. PICK c \in Carts : c = CartOf(w) /\ lock[c] = w
    BY <1>1, Holder
  <1>3. WorkerOK(w) /\ ~req[w].made
    BY <1>1 DEF Safe, Others, WorkerOK, OrderOK
  <1>4. \/ /\ pc'[w] = "capture" /\ ordered[c] /\ UNCHANGED <<req, ordered>>
        \/ /\ pc'[w] = "hook" /\ ~ordered[c]
           /\ ordered' = [ordered EXCEPT ![c] = TRUE]
           /\ req' = [req EXCEPT ![w].made = TRUE]
        \/ /\ pc'[w] = "undo" /\ UNCHANGED <<req, ordered>>
    BY <1>2 DEF CompleteCart, MakeOrder, Goto, Safe, Typed, Control
  <1>5. /\ req'[w].cart = c /\ req'[w].cred = req[w].cred /\ req'[w].resumed = req[w].resumed
        /\ \A v \in Workers \ {w} : req'[v] = req[v]
        /\ req'[w].made <=> pc'[w] = "hook"
    BY <1>2, <1>3, <1>4 DEF CartOf, Safe, Typed, Control, Requests
  <1>6. \A v \in Workers \ {w} : pc'[v] = pc[v]
    BY DEF CompleteCart, MakeOrder, Goto, Safe, Typed, Control
  <1>7. /\ \A d \in Carts \ {c} : ordered'[d] = ordered[d]
        /\ pc'[w] \in {"capture", "hook"} => ordered'[c]
        /\ pc'[w] # "hook" => ordered' = ordered
    BY <1>4 DEF Safe, Typed, Data
  <1>8. MarkerOK(w)' /\ OrderOK(w)' /\ SessionOK(w)'
    BY <1>1, <1>2, <1>3, <1>4, <1>5, <1>7
       DEF WorkerOK, MarkerOK, OrderOK, SessionOK, Unanswered, CartOf, Attempting, Paying, Admitted
  <1>9. FreshOK(w)'
    BY <1>1, <1>2, <1>3, <1>4, <1>5, <1>7 DEF WorkerOK, FreshOK, CartOf, Exposed, Admitted
  <1>10. ASSUME NEW a \in Authorizations PROVE ExposureOK(c, a)'
    <2>1. ExposureOK(c, a) /\ (Exposed(c, a)' <=> Exposed(c, a))
      BY <1>1 DEF Safe, Exposures, Exposed
    <2>2. HeldByMarker(c, a)' <=> HeldByMarker(c, a)
      BY <1>1 DEF HeldByMarker
    <2>3. CASE pc'[w] = "hook"
      <3>1. ~Kept(c)
        BY <1>4, <2>3 DEF Kept
      <3>. QED  BY <1>1, <2>1, <2>2, <3>1 DEF ExposureOK
    <2>4. CASE pc'[w] # "hook"
      <3>1. Kept(c) => Kept(c)'
        BY <1>5, <1>6, <1>7, <2>4 DEF Kept, CartOf
      <3>. QED  BY <1>1, <2>1, <2>2, <3>1 DEF ExposureOK
    <2>. QED  BY <2>3, <2>4
  <1>11. AuthorizedOK(c)'
    BY <1>1 DEF Safe, Sessions, AuthorizedOK
  <1>12. pc'[w] \in Attempting
    BY <1>4 DEF Attempting, Paying
  <1>. QED  BY <1>0, <1>1, <1>2, <1>5, <1>6, <1>7, <1>8, <1>9, <1>10, <1>11, <1>12, AttemptStep
            DEF Exposed

LEMMA HookSafe ==
    ASSUME NEW w \in Workers, Safe, MarkProviderCalled(w)
    PROVE  Safe'
  <1>0. Typed'
    BY CompleteCartTyped DEF Safe
  <1>1. /\ UNCHANGED <<req, lock, ordered, psession, ledger, exposed>>
        /\ pc[w] = "hook" /\ pc[w] \in Attempting /\ pc[w] \in UnderLock
    BY DEF MarkProviderCalled, cartVars, gatewayVars, UnderLock, Labels, Attempting, Paying
  <1>2. PICK c \in Carts : c = CartOf(w) /\ lock[c] = w
    BY <1>1, Holder
  <1>3. WorkerOK(w)
    BY DEF Safe, Others
  <1>4. marker[c].state = "settling" /\ marker[c] \in Markers
    BY <1>1, <1>2, <1>3 DEF WorkerOK, MarkerOK, Safe, Typed, Data
  <1>5. /\ \A d \in Carts \ {c} : marker'[d] = marker[d]
        /\ marker'[c].state = marker[c].state /\ marker'[c].cred = marker[c].cred
        /\ pc'[w] \in {"authorize", "undo"}
        /\ pc'[w] = "authorize" => marker'[c].called
        /\ \A v \in Workers \ {w} : pc'[v] = pc[v]
    BY <1>2, <1>4 DEF MarkProviderCalled, SetMarker, Goto, Safe, Typed, Control, Data, Markers
  <1>6. MarkerOK(w)' /\ OrderOK(w)' /\ SessionOK(w)'
    BY <1>1, <1>2, <1>3, <1>5
       DEF WorkerOK, MarkerOK, OrderOK, SessionOK, Unanswered, CartOf, Attempting, Paying, Admitted
  <1>7. FreshOK(w)'
    BY <1>1, <1>2, <1>3, <1>5 DEF WorkerOK, FreshOK, CartOf, Exposed, Admitted
  <1>8. ASSUME NEW a \in Authorizations PROVE ExposureOK(c, a)'
    <2>1. ExposureOK(c, a)
      BY DEF Safe, Exposures
    <2>2. HeldByMarker(c, a)' <=> HeldByMarker(c, a)
      BY <1>5 DEF HeldByMarker
    <2>3. Kept(c) => Kept(c)'
      BY <1>1, <1>5 DEF Kept, CartOf, Undoable, Paying
    <2>. QED  BY <1>1, <2>1, <2>2, <2>3 DEF ExposureOK, Exposed
  <1>9. AuthorizedOK(c)'
    BY <1>1 DEF Safe, Sessions, AuthorizedOK
  <1>10. pc'[w] \in Attempting
    BY <1>5 DEF Attempting, Paying
  <1>. QED  BY <1>0, <1>1, <1>2, <1>5, <1>6, <1>7, <1>8, <1>9, <1>10, AttemptStep DEF Exposed, CartOf

\* The provider's answer, saved or not: a first attempt that is declined leaves
\* nothing of its cart exposed.
LEMMA AnswerSafe ==
    ASSUME NEW w \in Workers, Safe, Typed', pc[w] \in {"authorize", "settling"},
           NEW outcome \in SettlementStates, NEW tx \in Authorizations \cup {None},
           SaveAnswer(w, outcome, tx),
           UNCHANGED <<req, lock, marker, ordered, ledger>>,
           exposed' \in {exposed, exposed \ {<<CartOf(w), Auth(w)>>}},
           outcome = "declined" /\ ~req[w].resumed =>
              \A a \in Authorizations : <<CartOf(w), a>> \notin exposed'
    PROVE  Safe'
  <1>1. pc[w] \in Attempting /\ pc[w] \in Paying /\ pc[w] \in UnderLock
    BY DEF UnderLock, Labels, Attempting, Paying
  <1>2. PICK c \in Carts : c = CartOf(w) /\ lock[c] = w
    BY <1>1, Holder
  <1>3. WorkerOK(w)
    BY DEF Safe, Others
  <1>4. /\ \A d \in Carts : d # c => psession'[d] = psession[d]
        /\ \/ /\ Goto(w, IF outcome = "settled" THEN "capture" ELSE "undo")
              /\ psession'[c].outcome = outcome
              /\ psession'[c].cred = psession[c].cred
              /\ psession'[c].status = IF outcome = "settled" THEN "authorized" ELSE "error"
           \/ Goto(w, "undo") /\ UNCHANGED psession
    BY <1>2, SaveAnswerEffect DEF Safe, Typed
  <1>5. /\ \/ pc'[w] = "capture" /\ outcome = "settled" /\ psession'[c].outcome = "settled"
              /\ psession'[c].cred = psession[c].cred
           \/ pc'[w] = "undo" /\ (psession'[c].outcome = outcome \/ UNCHANGED psession)
        /\ \A v \in Workers \ {w} : pc'[v] = pc[v]
    BY <1>4 DEF Goto, Safe, Typed, Control
  <1>6. MarkerOK(w)' /\ OrderOK(w)' /\ SessionOK(w)'
    BY <1>1, <1>2, <1>3, <1>5
       DEF WorkerOK, MarkerOK, OrderOK, SessionOK, Unanswered, CartOf, Attempting, Paying, Admitted
  <1>7. FreshOK(w)'
    <2>1. marker[c].called /\ psession[c].outcome \in {"undefined", "settled"}
      BY <1>2, <1>3 DEF WorkerOK, MarkerOK, SessionOK, Unanswered
    <2>2. Clearable(w)' => outcome = "declined"
      BY <1>2, <1>5, <2>1 DEF Clearable, CartOf
    <2>. QED  BY <1>2, <1>5, <2>2 DEF FreshOK, CartOf, Exposed, Admitted
  <1>8. ASSUME NEW a \in Authorizations PROVE ExposureOK(c, a)'
    <2>1. ExposureOK(c, a) /\ (Exposed(c, a)' => Exposed(c, a))
      BY DEF Safe, Exposures, Exposed
    <2>2. HeldByMarker(c, a)' <=> HeldByMarker(c, a)
      BY DEF HeldByMarker
    <2>3. Kept(c) => Kept(c)'
      BY <1>1, <1>5 DEF Kept, CartOf, Undoable, Paying
    <2>. QED  BY <2>1, <2>2, <2>3 DEF ExposureOK
  <1>9. AuthorizedOK(c)'
    <2>1. AuthorizedOK(c)
      BY DEF Safe, Sessions
    <2>. QED  BY <1>4, <2>1 DEF AuthorizedOK
  <1>10. pc'[w] \in Attempting
    BY <1>5 DEF Attempting, Paying
  <1>11. \A d \in Carts \ {c}, a \in Authorizations : Exposed(d, a)' <=> Exposed(d, a)
    BY <1>2 DEF Exposed
  <1>. QED  BY <1>1, <1>2, <1>4, <1>5, <1>6, <1>7, <1>8, <1>9, <1>10, <1>11, AttemptStep DEF CartOf

LEMMA AuthorizeSafe ==
    ASSUME NEW w \in Workers, Safe, AuthorizeSettledSession(w) \/ DeclineLocally(w)
    PROVE  Safe'
  <1>0. Typed'
    BY ProviderTyped DEF Safe
  <1>1. /\ UNCHANGED <<req, lock, marker, ordered, ledger, exposed>>
        /\ pc[w] = "authorize" /\ pc[w] \in UnderLock
    BY DEF AuthorizeSettledSession, DeclineLocally, sessionVars, gatewayVars, UnderLock, Labels
  <1>2. PICK c \in Carts : c = CartOf(w)
    BY <1>1, Holder
  <1>3. psession[c].tx \in Authorizations \cup {None}
    <2>1. psession[c] \in PaymentSessions
      BY DEF Safe, Typed, Data
    <2>. QED  BY <2>1 DEF PaymentSessions
  <1>4. PICK outcome \in SettlementStates, tx \in Authorizations \cup {None} :
           SaveAnswer(w, outcome, tx)
    BY <1>2, <1>3 DEF AuthorizeSettledSession, DeclineLocally, SettlementStates
  <1>5. ~req[w].resumed => \A a \in Authorizations : <<c, a>> \notin exposed'
    BY <1>1, <1>2 DEF Safe, Others, WorkerOK, FreshOK, Exposed
  <1>. QED  BY <1>0, <1>1, <1>2, <1>4, <1>5, AnswerSafe

LEMMA SettleReplySafe ==
    ASSUME NEW w \in Workers, Safe, SettleReply(w)
    PROVE  Safe'
  <1>0. Typed'
    BY ProviderTyped DEF Safe
  <1>1. /\ UNCHANGED <<req, lock, marker, ordered, ledger>>
        /\ pc[w] = "settling" /\ pc[w] \in UnderLock /\ pc[w] \in Paying
    BY DEF SettleReply, sessionVars, UnderLock, Labels, Paying
  <1>2. PICK c \in Carts : c = CartOf(w)
    BY <1>1, Holder
  <1>3. WorkerOK(w)
    BY DEF Safe, Others
  <1>4. Auth(w) \in Authorizations
    BY <1>1, WorkerTyped DEF Safe, Typed, RequestFits, Attempting, Paying
  <1>5. psession[c].resume = req[w].resumed
    BY <1>1, <1>2, <1>3 DEF WorkerOK, SessionOK, Unanswered
  <1>6. psession[c].resume \in BOOLEAN
    <2>1. psession[c] \in PaymentSessions
      BY DEF Safe, Typed, Data
    <2>. QED  BY <2>1 DEF PaymentSessions
  <1>7. PICK reply \in Replies, tx \in {None, Auth(w)} :
           /\ \/ SaveAnswer(w, ClassifySettleReply(reply, psession[c].resume), tx)
              \/ SaveAnswer(w, "review", tx)
           /\ exposed' = IF reply \in Refusals /\ req[w].first
                         THEN exposed \ {<<c, Auth(w)>>} ELSE exposed
    BY <1>2 DEF SettleReply
  <1>8. PICK outcome \in SettlementStates :
           /\ SaveAnswer(w, outcome, tx)
           /\ outcome = "declined" => reply \in Refusals /\ ~req[w].resumed
    BY <1>5, <1>6, <1>7, Classified DEF SettlementStates
  <1>9. ASSUME outcome = "declined", NEW a \in Authorizations
        PROVE  <<c, a>> \notin exposed'
    <2>1. req[w].first
      BY <1>1, <1>3, <1>8, <1>9 DEF WorkerOK, FreshOK
    <2>2. exposed' = exposed \ {<<c, Auth(w)>>}
      BY <1>7, <1>8, <1>9, <2>1
    <2>3. <<c, a>> \in exposed => a = Auth(w)
      BY <1>1, <1>2, <1>9, OwnExposure DEF Exposed
    <2>. QED  BY <2>2, <2>3
  <1>10. tx \in Authorizations \cup {None} /\ exposed' \in {exposed, exposed \ {<<c, Auth(w)>>}}
    BY <1>4, <1>7
  <1>. QED  BY <1>0, <1>1, <1>2, <1>8, <1>9, <1>10, AnswerSafe

\* The settle call leaves: the new exposure is held by the attempt's own marker,
\* and a first attempt is the first to hand over its authorization anywhere.
LEMMA CallSettleSafe ==
    ASSUME NEW w \in Workers, Safe, CallSettle(w)
    PROVE  Safe'
  <1>0. Typed'
    BY ProviderTyped DEF Safe
  <1>1. /\ UNCHANGED <<lock, marker, ordered, psession, ledger>>
        /\ pc[w] = "authorize" /\ pc[w] \in Attempting /\ pc[w] \in UnderLock
    BY DEF CallSettle, sessionVars, cartVars, UnderLock, Labels, Attempting, Paying
  <1>2. PICK c \in Carts : c = CartOf(w) /\ lock[c] = w
    BY <1>1, Holder
  <1>3. WorkerOK(w)
    BY DEF Safe, Others
  <1> DEFINE first == \A d \in Carts : <<d, Auth(w)>> \notin exposed
  <1>4. /\ pc'[w] = "settling" /\ \A v \in Workers \ {w} : pc'[v] = pc[v] /\ req'[v] = req[v]
        /\ req'[w].cart = c /\ req'[w].cred = req[w].cred /\ req'[w].resumed = req[w].resumed
        /\ req'[w].made = req[w].made /\ req'[w].first = first
    <2>1. first \in BOOLEAN /\ req' = [req EXCEPT ![w].first = first]
      BY Zenon DEF CallSettle
    <2>2. PICK b \in BOOLEAN : b = first /\ req' = [req EXCEPT ![w].first = b]
      BY Zenon, <2>1
    <2>3. req'[w].first = b /\ req'[w].first = first
      BY <2>2 DEF Safe, Typed, Control, Requests
    <2>4. pc' = [pc EXCEPT ![w] = "settling"]
      BY DEF CallSettle, Goto
    <2>5. /\ \A v \in Workers \ {w} : pc'[v] = pc[v] /\ req'[v] = req[v]
          /\ pc'[w] = "settling" /\ req'[w].cart = req[w].cart /\ req'[w].cred = req[w].cred
          /\ req'[w].resumed = req[w].resumed /\ req'[w].made = req[w].made
      BY <2>2, <2>4 DEF Safe, Typed, Control, Requests
    <2>. QED  BY <1>2, <2>3, <2>5 DEF CartOf
  <1>5. Auth(w) \in Authorizations
    BY <1>1, WorkerTyped DEF Safe, Typed, RequestFits, Attempting, Paying
  <1>6. exposed' = exposed \cup {<<c, Auth(w)>>}
    BY <1>2 DEF CallSettle
  <1>7. psession[c].tx = None
    BY <1>2 DEF CallSettle
  <1>8. MarkerOK(w)' /\ OrderOK(w)' /\ SessionOK(w)'
    BY <1>1, <1>2, <1>3, <1>4, <1>7
       DEF WorkerOK, MarkerOK, OrderOK, SessionOK, Unanswered, CartOf, Attempting, Paying, Admitted
  <1>9. ~req[w].resumed => first
    <2>1. SUFFICES ASSUME ~req[w].resumed, NEW d \in Carts, <<d, Auth(w)>> \in exposed
                   PROVE  FALSE
      OBVIOUS
    <2>2. ledger[Auth(w)] = d
      BY <1>5, <2>1 DEF Safe, Exposures, ExposureOK, Exposed
    <2>3. ledger[Auth(w)] = c
      BY <1>1, <1>2, <1>3 DEF WorkerOK, ReservedOK
    <2>4. <<c, Auth(w)>> \notin exposed
      BY <1>1, <1>2, <1>3, <1>5, <2>1 DEF WorkerOK, FreshOK, Exposed
    <2>. QED  BY <2>1, <2>2, <2>3, <2>4
  <1>10. FreshOK(w)'
    <2>. HIDE DEF first
    <2>. QED  BY <1>4, <1>9 DEF FreshOK, Admitted
  <1>11. ASSUME NEW a \in Authorizations PROVE ExposureOK(c, a)'
    <2>1. marker[c].state = "settling" /\ marker[c].cred = req[w].cred /\ ledger[Auth(w)] = c
      BY <1>1, <1>2, <1>3 DEF WorkerOK, MarkerOK, ReservedOK
    <2>2. CASE a = Auth(w)
      BY <1>1, <2>1, <2>2 DEF ExposureOK, HeldByMarker, Auth
    <2>3. CASE a # Auth(w)
      <3>1. ExposureOK(c, a) /\ (Exposed(c, a)' <=> Exposed(c, a))
        BY <1>6, <2>3 DEF Safe, Exposures, Exposed
      <3>2. Kept(c) => Kept(c)'
        BY <1>1, <1>2, <1>4 DEF Kept, CartOf, Undoable, Paying
      <3>3. HeldByMarker(c, a)' <=> HeldByMarker(c, a)
        BY <1>1 DEF HeldByMarker
      <3>. QED  BY <1>1, <3>1, <3>2, <3>3 DEF ExposureOK
    <2>. QED  BY <2>2, <2>3
  <1>12. AuthorizedOK(c)'
    BY <1>1 DEF Safe, Sessions, AuthorizedOK
  <1>13. pc'[w] \in Attempting
    BY <1>4 DEF Attempting, Paying
  <1>14. \A d \in Carts \ {c}, a \in Authorizations : Exposed(d, a)' <=> Exposed(d, a)
    BY <1>6 DEF Exposed
  <1>. QED  BY <1>0, <1>1, <1>2, <1>4, <1>8, <1>10, <1>11, <1>12, <1>13, <1>14, AttemptStep

-----------------------------------------------------------------------------
(* The end of an attempt: capture and clear, or undo and compensate.       *)

\* Nobody else is inside an attempt at the cart of a worker that has its lock.
LEMMA Alone ==
    ASSUME Safe, NEW w \in Workers, NEW c \in Carts, lock[c] = w,
           NEW v \in Workers \ {w}, pc[v] \in Undoable
    PROVE  CartOf(v) # c
  <1>1. pc[v] \in UnderLock
    BY DEF Undoable, Paying, UnderLock, Labels
  <1>2. PICK d \in Carts : d = CartOf(v) /\ lock[d] = v
    BY <1>1, Holder
  <1>. QED  BY <1>2

LEMMA CaptureSafe ==
    ASSUME NEW w \in Workers, Safe, CapturePayment(w)
    PROVE  Safe'
  <1>0. Typed'
    BY EndingTyped DEF Safe
  <1>1. /\ UNCHANGED <<req, lock, marker, ordered, psession, ledger, exposed>>
        /\ pc[w] = "capture" /\ pc[w] \in Attempting /\ pc[w] \in UnderLock
        /\ pc'[w] \in {"clear", "undo"} /\ pc'[w] \in Attempting
        /\ \A v \in Workers \ {w} : pc'[v] = pc[v]
    BY DEF CapturePayment, Goto, sessionVars, cartVars, gatewayVars, UnderLock, Labels,
           Attempting, Paying, Safe, Typed, Control
  <1>2. PICK c \in Carts : c = CartOf(w)
    BY <1>1, Holder
  <1>3. WorkerOK(w)
    BY DEF Safe, Others
  <1>4. MarkerOK(w)' /\ OrderOK(w)' /\ SessionOK(w)'
    BY <1>1, <1>2, <1>3
       DEF WorkerOK, MarkerOK, OrderOK, SessionOK, Unanswered, CartOf, Attempting, Paying, Admitted
  <1>5. FreshOK(w)'
    <2>1. ordered[c] /\ (Clearable(w)' => ~req[w].made)
      BY <1>1, <1>2, <1>3 DEF WorkerOK, OrderOK, SessionOK, Clearable, CartOf
    <2>. QED  BY <1>1, <1>2, <2>1 DEF FreshOK, CartOf, Exposed, Admitted
  <1>6. ASSUME NEW a \in Authorizations PROVE ExposureOK(c, a)'
    <2>1. Kept(c) => Kept(c)'
      BY <1>1 DEF Kept, CartOf, Undoable, Paying
    <2>. QED  BY <1>1, <2>1 DEF Safe, Exposures, ExposureOK, Exposed, HeldByMarker
  <1>7. AuthorizedOK(c)'
    BY <1>1 DEF Safe, Sessions, AuthorizedOK
  <1>. QED  BY <1>0, <1>1, <1>2, <1>4, <1>5, <1>6, <1>7, AttemptStep DEF Exposed, CartOf

LEMMA UndoSafe ==
    ASSUME NEW w \in Workers, Safe, UndoCompleteCart(w)
    PROVE  Safe'
  <1>0. Typed'
    BY EndingTyped DEF Safe
  <1>1. /\ UNCHANGED <<req, lock, marker, psession, ledger, exposed>>
        /\ pc[w] = "undo" /\ pc[w] \in Attempting /\ pc[w] \in UnderLock
        /\ pc'[w] = "compensate" /\ pc'[w] \in Attempting
        /\ \A v \in Workers \ {w} : pc'[v] = pc[v]
    BY DEF UndoCompleteCart, Goto, sessionVars, gatewayVars, UnderLock, Labels,
           Attempting, Paying, Safe, Typed, Control
  <1>2. PICK c \in Carts : c = CartOf(w)
    BY <1>1, Holder
  <1>3. /\ \A d \in Carts \ {c} : ordered'[d] = ordered[d]
        /\ ordered[c] /\ ~req[w].made => ordered'[c]
    BY <1>2 DEF UndoCompleteCart, Safe, Typed, Data
  <1>4. WorkerOK(w)
    BY DEF Safe, Others
  <1>5. MarkerOK(w)' /\ OrderOK(w)' /\ SessionOK(w)'
    BY <1>1, <1>2, <1>4
       DEF WorkerOK, MarkerOK, OrderOK, SessionOK, CartOf, Attempting, Paying, Admitted
  <1>6. FreshOK(w)'
    <2>1. Clearable(w)' <=> Clearable(w)
      BY <1>1 DEF Clearable, CartOf
    <2>. QED  BY <1>1, <1>2, <1>3, <1>4, <2>1 DEF WorkerOK, FreshOK, CartOf, Exposed, Admitted
  <1>7. ASSUME NEW a \in Authorizations PROVE ExposureOK(c, a)'
    <2>1. Kept(c) => Kept(c)'
      BY <1>1, <1>2, <1>3 DEF Kept, CartOf, Undoable, Paying
    <2>. QED  BY <1>1, <2>1 DEF Safe, Exposures, ExposureOK, Exposed, HeldByMarker
  <1>8. AuthorizedOK(c)'
    BY <1>1 DEF Safe, Sessions, AuthorizedOK
  <1>. QED  BY <1>0, <1>1, <1>2, <1>3, <1>5, <1>6, <1>7, <1>8, AttemptStep DEF Exposed, CartOf

\* A worker ends its attempt: the exposures of its cart must stay held.
LEMMA LastStep ==
    ASSUME Safe, Typed', NEW w \in Workers, NEW c \in Carts, c = CartOf(w), lock[c] = w,
           LeaveTo(w, "idle"),
           UNCHANGED <<lock, ordered, psession, ledger, exposed>>,
           \A d \in Carts \ {c} : marker'[d] = marker[d],
           \A a \in Authorizations : Exposed(c, a) => ordered[c] \/ HeldByMarker(c, a)'
    PROVE  Safe'
  <1>1. /\ pc'[w] = "unlock" /\ req'[w].cart = c
        /\ \A v \in Workers \ {w} : pc'[v] = pc[v] /\ req'[v] = req[v]
    BY DEF LeaveTo, Goto, CartOf, Safe, Typed, Control, Requests
  <1>2. Frame(w)
    BY <1>1, HolderFrame DEF Exposed
  <1>3. LockOK(w)' /\ MarkerOK(w)' /\ ReservedOK(w)' /\ OrderOK(w)' /\ SessionOK(w)' /\ FreshOK(w)'
    BY <1>1 DEF LockOK, MarkerOK, ReservedOK, OrderOK, SessionOK, FreshOK, CartOf,
                Attempting, Paying, Admitted
  <1>4. WorkerOK(w)'
    BY <1>3 DEF WorkerOK, Typed, Control
  <1>5. Sessions'
    BY DEF Safe, Sessions, AuthorizedOK
  <1>6. ordered[c] => Kept(c)'
    <2>1. ASSUME NEW v \in Workers \ {w}, pc'[v] \in Undoable PROVE CartOf(v)' # c
      BY <1>1, <2>1, Alone DEF CartOf
    <2>2. pc'[w] \notin Undoable
      BY <1>1 DEF Undoable, Paying
    <2>. QED  BY <2>1, <2>2 DEF Kept
  <1>7. ASSUME NEW d \in Carts, NEW a \in Authorizations PROVE ExposureOK(d, a)'
    <2>1. CASE d = c
      <3>1. ExposureOK(c, a)
        BY DEF Safe, Exposures
      <3>2. Exposed(c, a)' <=> Exposed(c, a)
        BY DEF Exposed
      <3>3. ExposureOK(c, a)'
        BY <1>6, <3>1, <3>2 DEF ExposureOK
      <3>. QED  BY <2>1, <3>3
    <2>2. CASE d # c
      <3>1. HeldByMarker(d, a)' <=> HeldByMarker(d, a)
        BY <2>2 DEF HeldByMarker
      <3>2. Exposed(d, a)' <=> Exposed(d, a)
        BY DEF Exposed
      <3>3. pc'[w] \notin Undoable
        BY <1>1 DEF Undoable, Paying
      <3>. QED  BY <1>2, <3>1, <3>2, <3>3, ExposureKept
    <2>. QED  BY <2>1, <2>2
  <1>8. Exposures'
    BY <1>7 DEF Exposures
  <1>. QED  BY <1>2, <1>4, <1>5, <1>8, FrameStep

LEMMA ClearSafe ==
    ASSUME NEW w \in Workers, Safe, ClearSettlementAttempt(w)
    PROVE  Safe'
  <1>0. Typed'
    BY EndingTyped DEF Safe
  <1>1. /\ UNCHANGED <<lock, ordered, psession, ledger, exposed>>
        /\ pc[w] = "clear" /\ pc[w] \in UnderLock /\ LeaveTo(w, "idle")
    BY DEF ClearSettlementAttempt, cartVars, gatewayVars, UnderLock, Labels
  <1>2. PICK c \in Carts : c = CartOf(w) /\ lock[c] = w
    BY <1>1, Holder
  <1>3. ordered[c]
    BY <1>1, <1>2 DEF Safe, Others, WorkerOK, OrderOK
  <1>4. \A d \in Carts \ {c} : marker'[d] = marker[d]
    BY <1>2 DEF ClearSettlementAttempt, SetMarker, Safe, Typed, Data
  <1>. QED  BY <1>0, <1>1, <1>2, <1>3, <1>4, LastStep

LEMMA CompensateSafe ==
    ASSUME NEW w \in Workers, Safe, CompensateSettlementAttempt(w)
    PROVE  Safe'
  <1>0. Typed'
    BY EndingTyped DEF Safe
  <1>1. /\ UNCHANGED <<lock, ordered, psession, ledger, exposed>>
        /\ pc[w] = "compensate" /\ pc[w] \in UnderLock /\ LeaveTo(w, "idle")
    BY DEF CompensateSettlementAttempt, cartVars, gatewayVars, UnderLock, Labels
  <1>2. PICK c \in Carts : c = CartOf(w) /\ lock[c] = w
    BY <1>1, Holder
  <1>3. WorkerOK(w)
    BY DEF Safe, Others
  <1>4. req[w].cred \in Credentials
    BY <1>1, WorkerTyped DEF Safe, Typed, RequestFits, Attempting
  <1>5. marker[c] \in Markers /\ psession[c] \in PaymentSessions
    BY DEF Safe, Typed, Data
  <1>6. NoSession \in PaymentSessions /\ NoSession.cred = None
    BY DEF NoSession, PaymentSessions, SettlementStates
  <1>7. /\ \A d \in Carts \ {c} : marker'[d] = marker[d]
        /\ \/ marker'[c] = MarkerAfterFailure(w, psession[c])
           \/ marker'[c] = MarkerAfterFailure(w, NoSession)
           \/ marker' = marker
    BY <1>2 DEF CompensateSettlementAttempt, SetMarker, Safe, Typed, Data
  <1>8. \/ marker'[c].state # "none" /\ marker'[c].cred = req[w].cred
        \/ ~req[w].resumed /\ Clearable(w)
        \/ marker' = marker
    <2>1. CASE marker'[c] = MarkerAfterFailure(w, psession[c])
      BY <1>2, <1>4, <1>5, <2>1, FailureMarker DEF Clearable, CartOf
    <2>2. CASE marker'[c] = MarkerAfterFailure(w, NoSession)
      BY <1>2, <1>4, <1>5, <1>6, <2>2, FailureMarker, ConstantsAssumption DEF CartOf
    <2>. QED  BY <1>7, <2>1, <2>2
  <1>9. ASSUME NEW a \in Authorizations, Exposed(c, a)
        PROVE  ordered[c] \/ HeldByMarker(c, a)'
    <2>1. ordered[c] \/ HeldByMarker(c, a)
      BY <1>9 DEF Safe, Exposures, ExposureOK, Kept
    <2>2. marker[c].cred = req[w].cred
      BY <1>1, <1>2, <1>3 DEF WorkerOK, MarkerOK, Attempting
    <2>3. CASE ~req[w].resumed /\ Clearable(w)
      BY <1>1, <1>2, <1>3, <1>9, <2>3 DEF WorkerOK, FreshOK
    <2>. QED  BY <1>8, <2>1, <2>2, <2>3 DEF HeldByMarker
  <1>. QED  BY <1>0, <1>1, <1>2, <1>7, <1>9, LastStep

-----------------------------------------------------------------------------
(* The theorems.                                                           *)

LEMMA InitSafe == Init => Safe
  <1> SUFFICES ASSUME Init PROVE Safe
    OBVIOUS
  <1>1. Typed
    BY InitTyped
  <1>2. Others
    BY <1>1 DEF Init, Others, WorkerOK, LockOK, MarkerOK, ReservedOK, OrderOK, SessionOK, FreshOK,
                Typed, Control, UnderLock, Labels, Admitted, Attempting, Paying
  <1>3. Sessions /\ Exposures
    BY DEF Init, Sessions, AuthorizedOK, Exposures, ExposureOK, Exposed, NoSession
  <1>. QED  BY <1>1, <1>2, <1>3 DEF Safe

LEMMA StepSafe == Safe /\ [Next]_vars => Safe'
  <1> SUFFICES ASSUME Safe, [Next]_vars PROVE Safe'
    OBVIOUS
  <1>1. ASSUME NEW w \in Workers, Step(w) PROVE Safe'
    BY <1>1, ShippingSafe, LockSafe, ChangeSafe, QuoteSafe, GuardSafe, ReserveSafe, SetupSafe, BeginSafe,
       CompleteCartSafe, HookSafe, AuthorizeSafe, CallSettleSafe, SettleReplySafe, CaptureSafe,
       ClearSafe, UndoSafe, CompensateSafe DEF Step
  <1>. QED  BY <1>1, ArrivalSafe, CrashSafe, EnvironmentSafe DEF Next

\* A payment that may still move, or has moved, is never forgotten: the cart has
\* its order or its session holds that very settlement open.
THEOREM ExposureHeld == Spec => []ExposureIsHeld
  <1>1. Safe => ExposureIsHeld
    BY DEF Safe, Exposures, ExposureOK, Exposed, Kept, HeldByMarker, ExposureIsHeld
  <1>. QED  BY <1>1, InitSafe, StepSafe, PTL DEF Spec

\* A cart is never exposed to two authorizations: the settle call is the only
\* step that adds an exposure, and whatever its cart is exposed to already is the
\* authorization it carries.
LEMMA StepOneAuthorization ==
    ASSUME Safe, OneAuthorizationPerCart, [Next]_vars
    PROVE  OneAuthorizationPerCart'
  <1>1. CASE exposed' \subseteq exposed
    BY <1>1 DEF OneAuthorizationPerCart
  <1>2. ASSUME NEW w \in Workers, CallSettle(w) PROVE OneAuthorizationPerCart'
    <2>1. pc[w] \in Paying /\ exposed' = exposed \cup {<<CartOf(w), Auth(w)>>}
      BY <1>2 DEF CallSettle, Paying
    <2>2. \A a \in Authorizations : <<CartOf(w), a>> \in exposed => a = Auth(w)
      BY <2>1, OwnExposure DEF Exposed
    <2>. QED  BY <2>1, <2>2 DEF OneAuthorizationPerCart
  <1>3. ASSUME NEW w \in Workers, Step(w), ~CallSettle(w) PROVE exposed' \subseteq exposed
    BY <1>3 DEF Step, EnsureShippingMethod, AddShippingMethod,
       AcquireLock, LockTimeout, ReleaseLock, AssertSessionMutable, UpdateCart,
       CancelSession, FetchUpdatedCart, PrepareCheckoutPayment, GuardPendingSettlement,
       ReservePaymentAuthorization, SetupPayment, BeginSettlementAttempt, CompleteCart,
       MarkProviderCalled, AuthorizeSettledSession, DeclineLocally, SettleReply,
       CapturePayment, ClearSettlementAttempt, UndoCompleteCart, CompensateSettlementAttempt,
       gatewayVars
  <1>4. exposed' \subseteq exposed \/ \E w \in Workers : CallSettle(w)
    BY <1>3 DEF Next, Crash, ValidatePrerequisites, RequestChange, MoneyMoves, vars, gatewayVars
  <1>. QED  BY <1>1, <1>2, <1>4

\* No second credential can be charged for a cart whose first one may still be.
THEOREM OneAuthorization == Spec => []OneAuthorizationPerCart
  <1>1. Init => OneAuthorizationPerCart
    BY DEF Init, OneAuthorizationPerCart
  <1>. QED  BY <1>1, InitSafe, StepSafe, StepOneAuthorization, PTL DEF Spec

\* An authorization is never at stake for two carts.
THEOREM AuthorizationServesOneCart == Spec => []OneCartPerAuthorization
  <1>1. Safe => OneCartPerAuthorization
    BY DEF Safe, Exposures, ExposureOK, Exposed, OneCartPerAuthorization
  <1>. QED  BY <1>1, InitSafe, StepSafe, PTL DEF Spec

\* A settle call made without the resume flag is the first one that hands its
\* authorization to the gateway.
THEOREM FreshCallsAreFirst == Spec => []FreshCallIsFirst
  <1>1. Safe => FreshCallIsFirst
    BY DEF Safe, Others, WorkerOK, SessionOK, FreshOK, Unanswered, FreshCallIsFirst
  <1>. QED  BY <1>1, InitSafe, StepSafe, PTL DEF Spec

-----------------------------------------------------------------------------
(* Who writes what.                                                        *)

\* Only an update and an added shipping method change a total, and only a cancel
\* cancels.
LEMMA FreezableWriters ==
    ASSUME [Next]_vars
    PROVE  \/ UNCHANGED <<total, canceled>>
           \/ \E w \in Workers : UpdateCart(w) \/ CancelSession(w) \/ AddShippingMethod(w)
  <1>1. ASSUME NEW w \in Workers, Step(w),
               ~UpdateCart(w), ~CancelSession(w), ~AddShippingMethod(w)
        PROVE  UNCHANGED <<total, canceled>>
    BY <1>1 DEF Step, EnsureShippingMethod, AcquireLock, LockTimeout, ReleaseLock, AssertSessionMutable,
       FetchUpdatedCart, PrepareCheckoutPayment, GuardPendingSettlement,
       ReservePaymentAuthorization, SetupPayment, BeginSettlementAttempt, CompleteCart,
       MarkProviderCalled, AuthorizeSettledSession, DeclineLocally, CallSettle, SettleReply,
       CapturePayment, ClearSettlementAttempt, UndoCompleteCart, CompensateSettlementAttempt,
       sessionVars, cartVars
  <1>. QED
    BY <1>1 DEF Next, Crash, ValidatePrerequisites, RequestChange, MoneyMoves, vars,
       sessionVars, cartVars

\* Only a completion that passed the guard writes the settlement marker.
LEMMA MarkerWriters ==
    ASSUME [Next]_vars
    PROVE  \/ UNCHANGED marker
           \/ \E w \in Workers :
                 \/ BeginSettlementAttempt(w) \/ MarkProviderCalled(w)
                 \/ ClearSettlementAttempt(w) \/ CompensateSettlementAttempt(w)
  <1>1. ASSUME NEW w \in Workers, Step(w),
               ~(\/ BeginSettlementAttempt(w) \/ MarkProviderCalled(w)
                 \/ ClearSettlementAttempt(w) \/ CompensateSettlementAttempt(w))
        PROVE  UNCHANGED marker
    BY <1>1 DEF Step, EnsureShippingMethod, AddShippingMethod,
       AcquireLock, LockTimeout, ReleaseLock, AssertSessionMutable, UpdateCart,
       CancelSession, FetchUpdatedCart, PrepareCheckoutPayment, GuardPendingSettlement,
       ReservePaymentAuthorization, SetupPayment, CompleteCart, AuthorizeSettledSession,
       DeclineLocally, CallSettle, SettleReply, CapturePayment, UndoCompleteCart, sessionVars
  <1>. QED
    BY <1>1 DEF Next, Crash, ValidatePrerequisites, RequestChange, MoneyMoves, vars, sessionVars

\* Only completeCartWorkflow and its compensation write the order.
LEMMA OrderWriters ==
    ASSUME [Next]_vars
    PROVE  \/ UNCHANGED <<ordered, due>>
           \/ \E w \in Workers : CompleteCart(w) \/ UndoCompleteCart(w)
  <1>1. ASSUME NEW w \in Workers, Step(w), ~CompleteCart(w), ~UndoCompleteCart(w)
        PROVE  UNCHANGED <<ordered, due>>
    BY <1>1 DEF Step, EnsureShippingMethod, AddShippingMethod,
       AcquireLock, LockTimeout, ReleaseLock, AssertSessionMutable, UpdateCart,
       CancelSession, FetchUpdatedCart, PrepareCheckoutPayment, GuardPendingSettlement,
       ReservePaymentAuthorization, SetupPayment, BeginSettlementAttempt, MarkProviderCalled,
       AuthorizeSettledSession, DeclineLocally, CallSettle, SettleReply, CapturePayment,
       ClearSettlementAttempt, CompensateSettlementAttempt, cartVars
  <1>. QED
    BY <1>1 DEF Next, Crash, ValidatePrerequisites, RequestChange, MoneyMoves, vars, cartVars

\* Only the settle call, its reply and the chain itself change the gateway.
LEMMA GatewayWriters ==
    ASSUME [Next]_vars
    PROVE  \/ UNCHANGED <<exposed, charged>>
           \/ \E w \in Workers : CallSettle(w) \/ SettleReply(w)
           \/ \E a \in Authorizations : MoneyMoves(a)
  <1>1. ASSUME NEW w \in Workers, Step(w), ~CallSettle(w), ~SettleReply(w)
        PROVE  UNCHANGED <<exposed, charged>>
    BY <1>1 DEF Step, EnsureShippingMethod, AddShippingMethod,
       AcquireLock, LockTimeout, ReleaseLock, AssertSessionMutable, UpdateCart,
       CancelSession, FetchUpdatedCart, PrepareCheckoutPayment, GuardPendingSettlement,
       ReservePaymentAuthorization, SetupPayment, BeginSettlementAttempt, CompleteCart,
       MarkProviderCalled, AuthorizeSettledSession, DeclineLocally,
       CapturePayment, ClearSettlementAttempt, UndoCompleteCart, CompensateSettlementAttempt,
       gatewayVars
  <1>. QED
    BY <1>1 DEF Next, Crash, ValidatePrerequisites, RequestChange, vars, gatewayVars

-----------------------------------------------------------------------------
(* The action properties.                                                  *)

Frozen ==
    \A c \in Carts : AtStake(c) =>
        /\ canceled'[c] = canceled[c]
        /\ total'[c] = total[c] \/ ShippingIsAdded(c)

\* An admitted update or cancel has nothing at stake: no marker, and no order
\* that could hold an exposure.
LEMMA NothingAtStake ==
    ASSUME Safe, NEW w \in Workers, pc[w] \in {"update", "cancel"}
    PROVE  \E c \in Carts : c = CartOf(w) /\ ~AtStake(c)
  <1>1. PICK c \in Carts : c = CartOf(w) /\ lock[c] = w
    BY Holder DEF UnderLock, Labels
  <1>2. marker[c].state = "none" /\ ~ordered[c]
    BY <1>1 DEF Safe, Others, WorkerOK, MarkerOK, OrderOK
  <1>3. ASSUME NEW a \in Authorizations PROVE <<c, a>> \notin exposed
    BY <1>2 DEF Safe, Exposures, ExposureOK, Exposed, Kept, HeldByMarker
  <1>. QED  BY <1>1, <1>2, <1>3 DEF AtStake

LEMMA StepFrozen ==
    ASSUME Safe, [Next]_vars
    PROVE  Frozen
  <1>1. CASE UNCHANGED <<total, canceled>>
    BY <1>1 DEF Frozen
  <1>2. ASSUME NEW w \in Workers, UpdateCart(w) \/ CancelSession(w) PROVE Frozen
    <2>1. pc[w] \in {"update", "cancel"}
      BY <1>2 DEF UpdateCart, CancelSession
    <2>2. PICK c \in Carts : c = CartOf(w) /\ ~AtStake(c)
      BY <2>1, NothingAtStake
    <2>3. \A d \in Carts \ {c} : total'[d] = total[d] /\ canceled'[d] = canceled[d]
      BY <1>2, <2>2 DEF UpdateCart, ChangeTotal, CancelSession, sessionVars, cartVars,
                        Safe, Typed, Data
    <2>. QED  BY <2>2, <2>3 DEF Frozen
  <1>3. ASSUME NEW w \in Workers, AddShippingMethod(w) PROVE Frozen
    <2>1. PICK c \in Carts : c = CartOf(w)
      BY <1>3, WorkerTyped DEF AddShippingMethod, Safe, Typed
    <2>2. canceled' = canceled /\ pc[w] = "add"
      BY <1>3 DEF AddShippingMethod, sessionVars
    <2>3. total' = total \/ (lock[c] = None /\ pc'[w] = "wait")
      BY <1>3, <2>1 DEF AddShippingMethod, Goto, Safe, Typed, Control
    <2>4. \A d \in Carts \ {c} : total'[d] = total[d]
      BY <1>3, <2>1 DEF AddShippingMethod, ChangeTotal, Safe, Typed, Data
    <2>. QED  BY <2>1, <2>2, <2>3, <2>4 DEF Frozen, ShippingIsAdded
  <1>. QED  BY <1>1, <1>2, <1>3, FreezableWriters

\* While a payment of a cart may move, it is not canceled, and its total changes by
\* nothing but the shipping method that a completion adds to it while no attempt
\* has the lock: neither by an update nor under a running attempt.
THEOREM TotalIsFrozen == Spec => FrozenWhileAtStake
  <1>1. Safe /\ [Next]_vars => [Frozen]_vars
    BY StepFrozen
  <1>. QED  BY <1>1, InitSafe, StepSafe, PTL DEF Spec, FrozenWhileAtStake, Frozen

ReviewKept == \A c \in Carts : marker[c].state = "review" => marker'[c].state = "review"

LEMMA StepReviewKept ==
    ASSUME Safe, [Next]_vars
    PROVE  ReviewKept
  <1>1. CASE UNCHANGED marker
    BY <1>1 DEF ReviewKept
  <1>2. ASSUME NEW w \in Workers,
               \/ BeginSettlementAttempt(w) \/ MarkProviderCalled(w)
               \/ ClearSettlementAttempt(w) \/ CompensateSettlementAttempt(w)
        PROVE  ReviewKept
    <2>1. pc[w] \in Admitted \cup Attempting
      BY <1>2 DEF BeginSettlementAttempt, MarkProviderCalled, ClearSettlementAttempt,
         CompensateSettlementAttempt, Admitted, Attempting, Paying
    <2>2. PICK c \in Carts : c = CartOf(w) /\ lock[c] = w
      BY <2>1, Holder DEF Admitted, Attempting, Paying, UnderLock, Labels
    <2>3. marker[c].state # "review"
      BY <2>1, <2>2 DEF Safe, Others, WorkerOK, MarkerOK
    <2>4. \A d \in Carts \ {c} : marker'[d] = marker[d]
      BY <1>2, <2>2 DEF BeginSettlementAttempt, MarkProviderCalled, ClearSettlementAttempt,
         CompensateSettlementAttempt, SetMarker, Safe, Typed, Data
    <2>. QED  BY <2>3, <2>4 DEF ReviewKept
  <1>. QED  BY <1>1, <1>2, MarkerWriters

\* A settlement held for review stays held for review.
THEOREM ReviewStays == Spec => ReviewIsFinal
  <1>1. Safe /\ [Next]_vars => [ReviewKept]_vars
    BY StepReviewKept
  <1>. QED  BY <1>1, InitSafe, StepSafe, PTL DEF Spec, ReviewIsFinal, ReviewKept

OrderKept ==
    \A c \in Carts : ordered[c] /\ (\A w \in Workers : lock[c] = w => ~req[w].made) => ordered'[c]

LEMMA StepOrderKept ==
    ASSUME Safe, [Next]_vars
    PROVE  OrderKept
  <1>1. CASE UNCHANGED <<ordered, due>>
    BY <1>1 DEF OrderKept
  <1>2. ASSUME NEW w \in Workers, CompleteCart(w) \/ UndoCompleteCart(w) PROVE OrderKept
    <2>1. pc[w] \in UnderLock
      BY <1>2 DEF CompleteCart, UndoCompleteCart, UnderLock, Labels
    <2>2. PICK c \in Carts : c = CartOf(w) /\ lock[c] = w
      BY <2>1, Holder
    <2>3. \A d \in Carts \ {c} : ordered'[d] = ordered[d]
      BY <1>2, <2>2 DEF CompleteCart, MakeOrder, UndoCompleteCart, Safe, Typed, Data
    <2>4. ordered[c] /\ ~req[w].made => ordered'[c]
      BY <1>2, <2>2 DEF CompleteCart, MakeOrder, UndoCompleteCart, Safe, Typed, Data
    <2>. QED  BY <2>2, <2>3, <2>4 DEF OrderKept
  <1>. QED  BY <1>1, <1>2, OrderWriters

\* An order is taken back only by the attempt that made it.
THEOREM OrderStays == Spec => OrderIsNotTakenBack
  <1>1. Safe /\ [Next]_vars => [OrderKept]_vars
    BY StepOrderKept
  <1>. QED  BY <1>1, InitSafe, StepSafe, PTL DEF Spec, OrderIsNotTakenBack, OrderKept

-----------------------------------------------------------------------------
(* CheckoutSettlement implements PaymentPromise.                           *)

\* The settle call exposes: nothing else of its cart is exposed, because the
\* worker's own settling marker names what is, and no other cart is exposed to
\* its authorization, because the ledger gives it to one cart.
LEMMA SettleCallExposes ==
    ASSUME Safe, NEW w \in Workers, CallSettle(w)
    PROVE  Promise!Next
  <1>1. pc[w] = "authorize" /\ pc[w] \in Paying /\ pc[w] \in UnderLock
    BY DEF CallSettle, Paying, UnderLock, Labels
  <1>2. PICK c \in Carts : c = CartOf(w) /\ lock[c] = w
    BY <1>1, Holder
  <1>3. req[w].cred \in Credentials
    BY <1>1, WorkerTyped DEF Safe, Typed, RequestFits, Attempting, Paying
  <1>4. PICK a \in Authorizations : a = Auth(w)
    BY <1>3, ConstantsAssumption DEF Auth
  <1>5. ledger[a] = c
    BY <1>1, <1>2, <1>4 DEF Safe, Others, WorkerOK, ReservedOK, Attempting
  <1>6. ASSUME NEW p \in exposed PROVE p = <<c, a>> \/ (p[1] # c /\ p[2] # a)
    <2>1. PICK d \in Carts, b \in Authorizations : p = <<d, b>>
      BY DEF Safe, Typed, Data
    <2>2. d = c => b = a
      BY <1>1, <1>2, <1>4, <2>1, OwnExposure DEF Exposed
    <2>3. b = a => d = c
      BY <1>5, <2>1 DEF Safe, Exposures, ExposureOK, Exposed
    <2>. QED  BY <2>1, <2>2, <2>3
  <1>7. exposed' = exposed \cup {<<c, a>>} /\ UNCHANGED charged
    BY <1>2, <1>4 DEF CallSettle
  <1>. QED  BY <1>6, <1>7 DEF Promise!Next, Promise!Expose

\* The reply ends the exposure only when the gateway refused a first call.
LEMMA ReplyRefuses ==
    ASSUME Safe, NEW w \in Workers, SettleReply(w)
    PROVE  Promise!Next \/ UNCHANGED <<exposed, charged>>
  <1>1. pc[w] = "settling" /\ pc[w] \in UnderLock
    BY DEF SettleReply, UnderLock, Labels
  <1>2. PICK c \in Carts : c = CartOf(w) /\ lock[c] = w
    BY <1>1, Holder
  <1>3. req[w].cred \in Credentials
    BY <1>1, WorkerTyped DEF Safe, Typed, RequestFits, Attempting, Paying
  <1>4. PICK a \in Authorizations : a = Auth(w)
    BY <1>3, ConstantsAssumption DEF Auth
  <1>5. PICK reply \in Replies :
          /\ PossibleReply(w, reply)
          /\ exposed' = IF reply \in Refusals /\ req[w].first
                        THEN exposed \ {<<c, a>>} ELSE exposed
    BY <1>2, <1>4 DEF SettleReply
  <1>6. UNCHANGED charged
    BY DEF SettleReply
  <1>7. CASE reply \in Refusals /\ req[w].first
    <2>1. a \notin charged
      BY <1>4, <1>5, <1>7 DEF PossibleReply
    <2>. QED  BY <1>5, <1>6, <1>7, <2>1 DEF Promise!Next, Promise!Refuse
  <1>. QED  BY <1>5, <1>6, <1>7

LEMMA StepKeepsPromise ==
    ASSUME Safe, [Next]_vars
    PROVE  [Promise!Next]_Promise!vars
  <1>1. ASSUME NEW a \in Authorizations, MoneyMoves(a) PROVE Promise!Next
    BY <1>1 DEF MoneyMoves, Promise!Next, Promise!Charge
  <1>. QED  BY <1>1, SettleCallExposes, ReplyRefuses, GatewayWriters DEF Promise!vars

\* Completion keeps the promise it makes to the buyer: whatever the interleaving
\* of the requests, the replies, the losses and the crashes, a cart never has two
\* authorizations at stake, and one that is at stake stops to be only by a refusal.
THEOREM PromiseKept == Spec => KeepsPaymentPromise
  <1>1. Init => Promise!Init
    BY DEF Init, Promise!Init
  <1>2. Safe /\ [Next]_vars => [Promise!Next]_Promise!vars
    BY StepKeepsPromise
  <1>. QED
    BY <1>1, <1>2, InitSafe, StepSafe, PTL DEF Spec, KeepsPaymentPromise, Promise!Spec

-----------------------------------------------------------------------------
(* What has been paid.                                                     *)

\* Only a change of the total, the setup of a payment and an answer write a payment
\* session.
LEMMA SessionWriters ==
    ASSUME [Next]_vars
    PROVE  \/ UNCHANGED psession
           \/ \E w \in Workers :
                 \/ UpdateCart(w) \/ AddShippingMethod(w) \/ SetupPayment(w)
                 \/ AuthorizeSettledSession(w) \/ DeclineLocally(w) \/ SettleReply(w)
  <1>1. ASSUME NEW w \in Workers, Step(w),
               ~(\/ UpdateCart(w) \/ AddShippingMethod(w) \/ SetupPayment(w)
                 \/ AuthorizeSettledSession(w) \/ DeclineLocally(w) \/ SettleReply(w))
        PROVE  UNCHANGED psession
    BY <1>1 DEF Step, EnsureShippingMethod, AcquireLock, LockTimeout, ReleaseLock, AssertSessionMutable,
       CancelSession, FetchUpdatedCart, PrepareCheckoutPayment, GuardPendingSettlement,
       ReservePaymentAuthorization, BeginSettlementAttempt, CompleteCart,
       MarkProviderCalled, CallSettle, CapturePayment, ClearSettlementAttempt,
       UndoCompleteCart, CompensateSettlementAttempt, cartVars
  <1>. QED
    BY <1>1 DEF Next, Crash, ValidatePrerequisites, RequestChange, MoneyMoves, vars, cartVars

\* Money that has moved for a total stays moved: the gateway's refusal ends an
\* exposure only when nothing was charged.
LEMMA PaidKept ==
    ASSUME Safe, [Next]_vars, NEW c \in Carts, NEW k \in Credentials,
           NEW n \in Amounts, Paid(c, k, n)
    PROVE  Paid(c, k, n)'
  <1>1. CASE UNCHANGED <<exposed, charged>>
    BY <1>1 DEF Paid, Exposed
  <1>2. ASSUME NEW w \in Workers, CallSettle(w) PROVE Paid(c, k, n)'
    BY <1>2 DEF CallSettle, Paid, Exposed
  <1>3. ASSUME NEW w \in Workers, SettleReply(w) PROVE Paid(c, k, n)'
    <2>1. PICK reply \in Replies :
             /\ PossibleReply(w, reply)
             /\ exposed' = IF reply \in Refusals /\ req[w].first
                           THEN exposed \ {<<CartOf(w), Auth(w)>>} ELSE exposed
      BY <1>3 DEF SettleReply
    <2>2. UNCHANGED charged
      BY <1>3 DEF SettleReply
    <2>3. reply \in Refusals /\ req[w].first => AuthOf[k] # Auth(w)
      BY <2>1 DEF PossibleReply, Paid
    <2>. QED  BY <2>1, <2>2, <2>3 DEF Paid, Exposed
  <1>4. ASSUME NEW a \in Authorizations, MoneyMoves(a) PROVE Paid(c, k, n)'
    BY <1>4 DEF MoneyMoves, Paid, Exposed
  <1>. QED  BY <1>1, <1>2, <1>3, <1>4, GatewayWriters

\* The total of a cart changes only by an update under its lock, or while nobody
\* has the lock; its payment session goes with the old total.
LEMMA TotalKept ==
    ASSUME Safe, [Next]_vars, NEW c \in Carts, total'[c] # total[c]
    PROVE  /\ psession'[c] = NoSession
           /\ lock[c] = None \/ (lock[c] \in Workers /\ pc[lock[c]] = "update")
  <1>1. CASE \E w \in Workers : UpdateCart(w)
    <2>1. PICK w \in Workers : UpdateCart(w)
      BY <1>1
    <2>2. PICK d \in Carts : d = CartOf(w) /\ lock[d] = w
      BY <2>1, Holder DEF UpdateCart, UnderLock, Labels
    <2>3. PICK amount \in Amounts : ChangeTotal(d, amount)
      BY <2>1, <2>2, total'[c] # total[c] DEF UpdateCart
    <2>4. c = d /\ psession'[c] = NoSession
      BY <2>3 DEF ChangeTotal, Safe, Typed, Data
    <2>. QED  BY <2>1, <2>2, <2>4 DEF UpdateCart
  <1>2. CASE \E w \in Workers : AddShippingMethod(w)
    <2>1. PICK w \in Workers : AddShippingMethod(w)
      BY <1>2
    <2>2. PICK d \in Carts : d = CartOf(w)
      BY <2>1, WorkerTyped DEF AddShippingMethod, Safe, Typed
    <2>3. PICK amount \in Amounts : ChangeTotal(d, amount) /\ lock[d] = None
      BY <2>1, <2>2, total'[c] # total[c] DEF AddShippingMethod
    <2>4. c = d /\ psession'[c] = NoSession
      BY <2>3 DEF ChangeTotal, Safe, Typed, Data
    <2>. QED  BY <2>3, <2>4
  <1>3. (\E w \in Workers : UpdateCart(w)) \/ (\E w \in Workers : AddShippingMethod(w))
    BY FreezableWriters, total'[c] # total[c] DEF CancelSession, cartVars
  <1>. QED  BY <1>1, <1>2, <1>3

-----------------------------------------------------------------------------
(* Payment sessions.                                                       *)

\* Whatever is saved, the session keeps its credential and its amount; and what
\* is saved as settled has been paid.
LEMMA AnswerPaid ==
    ASSUME Safe, PaymentSafe, NEW w \in Workers,
           AuthorizeSettledSession(w) \/ DeclineLocally(w) \/ SettleReply(w)
    PROVE  \E c \in Carts :
              /\ c = CartOf(w) /\ lock[c] = w
              /\ \A d \in Carts \ {c} : psession'[d] = psession[d]
              /\ psession'[c].cred = psession[c].cred
              /\ psession'[c].amount = psession[c].amount
              /\ UNCHANGED total
              /\ psession'[c] # psession[c] /\ psession'[c].outcome = "settled" =>
                    psession[c].cred = req[w].cred /\ req[w].cred \in Credentials
                    /\ Paid(c, req[w].cred, total[c])
              /\ pc'[w] = "capture" => req[w].cred \in Credentials /\ Paid(c, req[w].cred, total[c])
  <1>1. pc[w] \in {"authorize", "settling"} /\ pc[w] \in UnderLock /\ UNCHANGED total
    BY DEF AuthorizeSettledSession, DeclineLocally, SettleReply, UnderLock, Labels
  <1>2. PICK c \in Carts : c = CartOf(w) /\ lock[c] = w
    BY <1>1, Holder
  <1>3. PICK outcome \in SettlementStates, tx \in Authorizations \cup {None} :
           /\ SaveAnswer(w, outcome, tx)
           /\ outcome = "settled" => psession[c].outcome = "settled" \/ (SettleReply(w) /\ Auth(w) \in charged)
    <2>1. psession[c] \in PaymentSessions
      BY DEF Safe, Typed, Data
    <2>2. CASE AuthorizeSettledSession(w)
      <3>1. psession[c].outcome = "settled"
        BY <1>2, <2>2 DEF AuthorizeSettledSession, Safe, Others, WorkerOK, SessionOK, Unanswered
      <3>. QED  BY <1>2, <2>1, <2>2, <3>1 DEF AuthorizeSettledSession, SettlementStates, PaymentSessions
    <2>3. CASE DeclineLocally(w)
      BY <2>3 DEF DeclineLocally, SettlementStates
    <2>4. CASE SettleReply(w)
      <3>1. Auth(w) \in Authorizations
        BY <1>1, WorkerTyped DEF Safe, Typed, RequestFits, Attempting, Paying
      <3>2. psession[c].resume \in BOOLEAN
        BY <2>1 DEF PaymentSessions
      <3>3. PICK reply \in Replies, tx \in {None, Auth(w)} :
               /\ PossibleReply(w, reply)
               /\ \/ SaveAnswer(w, ClassifySettleReply(reply, psession[c].resume), tx)
                  \/ SaveAnswer(w, "review", tx)
        BY <1>2, <2>4 DEF SettleReply
      <3>4. ClassifySettleReply(reply, psession[c].resume) \in SettlementStates
        BY <3>2, Classified
      <3>5. ClassifySettleReply(reply, psession[c].resume) = "settled" => reply = "success_tx"
        BY <3>3 DEF ClassifySettleReply, Replies, Refusals
      <3>6. reply = "success_tx" => Auth(w) \in charged
        BY <3>3 DEF PossibleReply
      <3>. QED  BY <2>4, <3>1, <3>3, <3>4, <3>5, <3>6 DEF SettlementStates
    <2>. QED  BY <2>2, <2>3, <2>4
  <1>4. req[w].cred \in Credentials
    BY <1>1, WorkerTyped DEF Safe, Typed, RequestFits, Attempting, Paying
  <1>5. psession[c].cred = req[w].cred
    BY <1>1, <1>2 DEF Safe, Others, WorkerOK, SessionOK, Unanswered
  <1>6. outcome = "settled" => Paid(c, req[w].cred, total[c])
    <2>1. CASE psession[c].outcome = "settled"
      BY <1>5, <2>1 DEF PaymentSafe, SessionPaid
    <2>2. CASE SettleReply(w) /\ Auth(w) \in charged
      <3>1. pc[w] = "settling"
        BY <2>2 DEF SettleReply
      <3>. QED  BY <1>2, <2>2, <3>1 DEF PaymentSafe, CallBound, Paid, Auth
    <2>. QED  BY <1>3, <2>1, <2>2
  <1>7. /\ \A d \in Carts \ {c} : psession'[d] = psession[d]
        /\ psession'[c].cred = psession[c].cred
        /\ psession'[c].amount = psession[c].amount
        /\ psession'[c] = psession[c] \/ psession'[c].outcome = outcome
        /\ pc'[w] = "capture" => outcome = "settled"
    BY <1>2, <1>3 DEF SaveAnswer, Goto, Safe, Typed, Control, Data, PaymentSessions
  <1>. QED  BY <1>1, <1>2, <1>4, <1>5, <1>6, <1>7

LEMMA StepSessionPaid ==
    ASSUME Safe, PaymentSafe, [Next]_vars, NEW c \in Carts
    PROVE  SessionPaid(c)'
  <1>1. SessionPaid(c) /\ psession[c] \in PaymentSessions
    BY DEF PaymentSafe, Safe, Typed, Data
  <1>2. NoSession.cred = None /\ NoSession.outcome = "undefined"
    BY DEF NoSession
  <1>3. CASE total'[c] # total[c]
    BY <1>2, <1>3, TotalKept DEF SessionPaid
  <1>4. CASE total'[c] = total[c] /\ psession'[c] = psession[c]
    BY <1>1, <1>4, PaidKept DEF SessionPaid, Paid, Safe, Typed, Data
  <1>5. ASSUME NEW w \in Workers, UpdateCart(w) \/ AddShippingMethod(w)
        PROVE  psession'[c] = psession[c] \/ psession'[c] = NoSession
    <2>1. UNCHANGED psession \/ \E d \in Carts, amount \in Amounts : ChangeTotal(d, amount)
      BY <1>5, WorkerTyped DEF UpdateCart, AddShippingMethod, Safe, Typed
    <2>. QED  BY <2>1 DEF ChangeTotal, Safe, Typed, Data
  <1>6. ASSUME NEW w \in Workers, SetupPayment(w)
        PROVE  \/ psession'[c] \in {psession[c], NoSession}
               \/ psession'[c].amount = total'[c] /\ psession'[c].outcome = "undefined"
    <2>1. PICK k : k = req[w].cred
      OBVIOUS
    <2>2. PICK d \in Carts : d = CartOf(w)
      BY <1>6, Holder DEF SetupPayment, UnderLock, Labels
    <2> DEFINE fresh == [NoSession EXCEPT !.status = "pending", !.cred = k,
                                          !.amount = total[d], !.resume = req[w].resumed]
    <2>3. fresh.amount = total[d] /\ fresh.outcome = "undefined"
      BY DEF NoSession
    <2>4. UNCHANGED total /\ psession' \in {psession, [psession EXCEPT ![d] = fresh],
                                            [psession EXCEPT ![d] = NoSession]}
      BY <1>6, <2>1, <2>2 DEF SetupPayment
    <2>. HIDE DEF fresh
    <2>. QED  BY <2>3, <2>4 DEF Safe, Typed, Data
  <1>7. ASSUME NEW w \in Workers,
               AuthorizeSettledSession(w) \/ DeclineLocally(w) \/ SettleReply(w),
               psession'[c] # psession[c]
        PROVE  SessionPaid(c)'
    BY <1>1, <1>7, AnswerPaid, PaidKept DEF SessionPaid, Paid, Safe, Typed, Data
  <1>. QED  BY <1>2, <1>3, <1>4, <1>5, <1>6, <1>7, SessionWriters DEF SessionPaid

-----------------------------------------------------------------------------
(* What a worker under the lock may rely on while another one moves.       *)

\* A step of one worker leaves the others at their place.
LEMMA OthersStay ==
    ASSUME Safe, NEW v \in Workers, Step(v) \/ Crash(v), NEW w \in Workers \ {v}
    PROVE  pc'[w] = pc[w] /\ req'[w] = req[w]
  <1>1. pc \in [Workers -> Labels] /\ req \in [Workers -> Requests]
    BY DEF Safe, Typed, Control
  <1>. QED
    BY <1>1 DEF Step, Crash, EnsureShippingMethod, AddShippingMethod,
       AcquireLock, LockTimeout, ReleaseLock, AssertSessionMutable,
       UpdateCart, CancelSession, FetchUpdatedCart, PrepareCheckoutPayment,
       GuardPendingSettlement, ReservePaymentAuthorization, SetupPayment,
       BeginSettlementAttempt, CompleteCart, MarkProviderCalled, AuthorizeSettledSession,
       DeclineLocally, CallSettle, SettleReply, SaveAnswer, CapturePayment,
       ClearSettlementAttempt, UndoCompleteCart, CompensateSettlementAttempt, Answer, LeaveTo, Goto

\* A worker with a request takes a step of its own, dies, or stays where it is.
LEMMA WorkerMoves ==
    ASSUME Safe, [Next]_vars, NEW w \in Workers, pc[w] # "idle", ~Step(w), ~Crash(w)
    PROVE  pc'[w] = pc[w] /\ req'[w] = req[w]
  <1>1. ASSUME NEW v \in Workers, Step(v) \/ Crash(v) PROVE pc'[w] = pc[w] /\ req'[w] = req[w]
    BY <1>1, OthersStay
  <1>2. ASSUME NEW v \in Workers, NEW c \in Carts,
               \/ \E k \in Credentials : ValidatePrerequisites(v, c, k)
               \/ \E op \in {"update", "cancel"} : RequestChange(v, c, op)
        PROVE  pc'[w] = pc[w] /\ req'[w] = req[w]
    BY <1>2 DEF ValidatePrerequisites, RequestChange, Goto, Safe, Typed, Control
  <1>. QED  BY <1>1, <1>2 DEF Next, MoneyMoves, vars

\* The lock of a worker that does not move stays its own.
LEMMA LockStays ==
    ASSUME Safe, [Next]_vars, NEW w \in Workers, NEW c \in Carts,
           c = CartOf(w), lock[c] = w, ~Crash(w), ~ReleaseLock(w)
    PROVE  lock'[c] = w
  <1>1. lock \in [Carts -> Workers \cup {None}] /\ None \notin Workers
    BY ConstantsAssumption DEF Safe, Typed, Data
  <1>2. ASSUME NEW v \in Workers, AcquireLock(v) \/ ReleaseLock(v) \/ Crash(v)
        PROVE  lock'[c] = w
    <2>1. CASE AcquireLock(v)
      BY <1>1, <2>1 DEF AcquireLock
    <2>2. CASE ReleaseLock(v)
      <3>1. pc[v] \in UnderLock
        BY <2>2 DEF ReleaseLock, UnderLock, Labels
      <3>2. PICK d \in Carts : d = CartOf(v) /\ lock[d] = v
        BY <3>1, Holder
      <3>. QED  BY <1>1, <2>2, <3>2 DEF ReleaseLock
    <2>3. CASE Crash(v)
      BY <1>1, <2>3 DEF Crash
    <2>. QED  BY <1>2, <2>1, <2>2, <2>3
  <1>3. ASSUME NEW v \in Workers, Step(v), ~AcquireLock(v), ~ReleaseLock(v) PROVE lock' = lock
    BY <1>3 DEF Step, EnsureShippingMethod, AddShippingMethod, LockTimeout, AssertSessionMutable,
       UpdateCart, CancelSession, FetchUpdatedCart, PrepareCheckoutPayment,
       GuardPendingSettlement, ReservePaymentAuthorization, SetupPayment,
       BeginSettlementAttempt, CompleteCart, MarkProviderCalled, AuthorizeSettledSession,
       DeclineLocally, CallSettle, SettleReply, CapturePayment,
       ClearSettlementAttempt, UndoCompleteCart, CompensateSettlementAttempt
  <1>. QED
    BY <1>2, <1>3 DEF Next, ValidatePrerequisites, RequestChange, MoneyMoves, vars

-----------------------------------------------------------------------------
(* The settle call.                                                        *)

LEMMA StepCallBound ==
    ASSUME Safe, PaymentSafe, [Next]_vars, NEW w \in Workers
    PROVE  CallBound(w)'
  <1> SUFFICES ASSUME pc'[w] = "settling"
               PROVE  /\ Exposed(CartOf(w), Auth(w))'
                      /\ AmountOf[req'[w].cred] = total'[CartOf(w)']
    BY DEF CallBound
  <1>1. CASE pc[w] = "settling" /\ ~Step(w) /\ ~Crash(w)
    <2>1. PICK c \in Carts : c = CartOf(w) /\ lock[c] = w
      BY <1>1, Holder DEF UnderLock, Labels
    <2>2. req'[w] = req[w]
      BY <1>1, WorkerMoves
    <2>3. Exposed(c, Auth(w)) /\ AmountOf[req[w].cred] = total[c]
      BY <1>1, <2>1 DEF PaymentSafe, CallBound
    <2>4. total'[c] = total[c]
      BY <1>1, <2>1, TotalKept, ConstantsAssumption
    <2>5. ASSUME NEW v \in Workers, SettleReply(v) PROVE <<c, Auth(w)>> \in exposed'
      <3>1. pc[v] \in UnderLock /\ v # w
        BY <1>1, <2>5 DEF SettleReply, UnderLock, Labels, Step
      <3>2. CartOf(v) # c
        BY <2>1, <3>1, Holder
      <3>. QED  BY <2>3, <2>5, <3>2 DEF SettleReply, Exposed
    <2>6. <<c, Auth(w)>> \in exposed'
      BY <2>3, <2>5, GatewayWriters DEF CallSettle, MoneyMoves, Exposed
    <2>. QED  BY <2>1, <2>2, <2>3, <2>4, <2>6 DEF Exposed, CartOf, Auth
  <1>2. CASE Step(w) \/ Crash(w)
    <2>1. CallSettle(w)
      <3>1. pc \in [Workers -> Labels] /\ req[w] \in Requests
        BY DEF Safe, Typed, Control
      <3>2. req[w].next \in {"idle", "fetch"} /\ req[w].op # "settling"
        BY <3>1 DEF Requests
      <3>. QED
        BY <1>2, <3>1, <3>2 DEF Step, Crash, EnsureShippingMethod, AddShippingMethod,
       AcquireLock, LockTimeout, ReleaseLock,
           AssertSessionMutable, UpdateCart, CancelSession, FetchUpdatedCart,
           PrepareCheckoutPayment, GuardPendingSettlement, ReservePaymentAuthorization,
           SetupPayment, BeginSettlementAttempt, CompleteCart, MarkProviderCalled,
           AuthorizeSettledSession, DeclineLocally, SettleReply, SaveAnswer, CapturePayment,
           ClearSettlementAttempt, UndoCompleteCart, CompensateSettlementAttempt,
           Answer, LeaveTo, Goto
    <2>2. PICK c \in Carts : c = CartOf(w) /\ lock[c] = w
      BY <2>1, Holder DEF CallSettle, UnderLock, Labels
    <2>3. psession[c].cred = req[w].cred /\ req[w].cred \in Credentials
      BY <2>1, <2>2, WorkerTyped
         DEF CallSettle, Safe, Typed, Others, WorkerOK, SessionOK, Unanswered, RequestFits,
             Attempting, Paying
    <2>4. psession[c].amount = total[c]
      BY <2>3, ConstantsAssumption DEF PaymentSafe, SessionPaid
    <2>5. AmountOf[req[w].cred] = total[c] /\ UNCHANGED total
      BY <2>1, <2>2, <2>3, <2>4 DEF CallSettle, BindsToQuote, cartVars
    <2>6. req'[w].cart = c /\ req'[w].cred = req[w].cred
      BY <2>1, <2>2 DEF CallSettle, Safe, Typed, Control, Requests, CartOf
    <2>. QED  BY <2>1, <2>2, <2>5, <2>6 DEF CallSettle, Exposed, CartOf, Auth
  <1>3. CASE pc[w] # "settling" /\ ~Step(w) /\ ~Crash(w)
    <2>1. pc[w] = "idle"
      BY <1>3, WorkerMoves
    <2>2. ASSUME NEW v \in Workers, Step(v) \/ Crash(v) PROVE FALSE
      BY <1>3, <2>1, <2>2, OthersStay
    <2>3. ASSUME NEW v \in Workers, NEW c \in Carts,
                 \/ \E k \in Credentials : ValidatePrerequisites(v, c, k)
                 \/ \E op \in {"update", "cancel"} : RequestChange(v, c, op)
          PROVE  FALSE
      BY <2>1, <2>3 DEF ValidatePrerequisites, RequestChange, Goto, Safe, Typed, Control
    <2>. QED  BY <2>1, <2>2, <2>3 DEF Next, MoneyMoves, vars
  <1>. QED  BY <1>1, <1>2, <1>3

-----------------------------------------------------------------------------
(* The settling marker and the order, without mishaps.                     *)

\* Mishaps are only counted up.
LEMMA NoMishapBefore ==
    ASSUME Safe, [Next]_vars, mishaps' = 0
    PROVE  mishaps = 0 /\ \A w \in Workers : ~Crash(w)
  <1>1. mishaps \in Nat
    BY DEF Safe, Typed, Data
  <1>2. ASSUME NEW w \in Workers, Step(w) PROVE mishaps' = mishaps \/ mishaps' = mishaps + 1
    BY <1>2 DEF Step, EnsureShippingMethod, AddShippingMethod,
       AcquireLock, LockTimeout, ReleaseLock, AssertSessionMutable,
       UpdateCart, CancelSession, FetchUpdatedCart, PrepareCheckoutPayment,
       GuardPendingSettlement, ReservePaymentAuthorization, SetupPayment,
       BeginSettlementAttempt, CompleteCart, MarkProviderCalled, AuthorizeSettledSession,
       DeclineLocally, CallSettle, SettleReply, SaveAnswer, CapturePayment,
       ClearSettlementAttempt, UndoCompleteCart, CompensateSettlementAttempt, Mishap
  <1>3. ASSUME NEW w \in Workers, Crash(w) PROVE FALSE
    BY <1>1, <1>3 DEF Crash, Mishap
  <1>4. mishaps' = mishaps \/ mishaps' = mishaps + 1
    BY <1>2, <1>3 DEF Next, ValidatePrerequisites, RequestChange, MoneyMoves, vars
  <1>. QED  BY <1>1, <1>3, <1>4

\* An attempt goes on with its marker and its lock; it ends with the marker
\* cleared or held, unless the write of the marker fails.
LEMMA AttemptGoesOn ==
    ASSUME Safe, NEW w \in Workers, Step(w), pc[w] \in Attempting, NEW c \in Carts,
           c = CartOf(w), mishaps = 0, mishaps' = 0
    PROVE  \/ marker'[c].state # "settling"
           \/ pc'[w] \in Attempting /\ req'[w].cart = c /\ lock' = lock
  <1>1. pc \in [Workers -> Labels] /\ req \in [Workers -> Requests]
        /\ marker \in [Carts -> Markers] /\ psession \in [Carts -> PaymentSessions]
    BY DEF Safe, Typed, Control, Data
  <1>2. pc[w] \notin {"shipping", "add", "wait", "unlock", "mutable", "update", "cancel",
                      "fetch", "prepare",
                      "guard", "reserve", "setup", "begin"}
    BY DEF Attempting, Paying
  <1>3. CASE ClearSettlementAttempt(w)
    BY <1>1, <1>3 DEF ClearSettlementAttempt, SetMarker, NoMarker, Mishap
  <1>4. CASE CompensateSettlementAttempt(w)
    <2>1. \E session \in PaymentSessions : marker'[c] = MarkerAfterFailure(w, session)
      <3>1. NoSession \in PaymentSessions
        BY DEF NoSession, PaymentSessions, SettlementStates
      <3>. QED  BY <1>1, <1>4, <3>1 DEF CompensateSettlementAttempt, SetMarker, Mishap
    <2>2. req[w].cred \in Credentials
      BY <1>4, WorkerTyped DEF CompensateSettlementAttempt, Safe, Typed, RequestFits, Attempting
    <2>. QED  BY <1>1, <2>1, <2>2, FailureMarker DEF NoMarker
  <1>5. CASE /\ \/ CompleteCart(w) \/ MarkProviderCalled(w) \/ AuthorizeSettledSession(w)
                \/ DeclineLocally(w) \/ CallSettle(w) \/ SettleReply(w) \/ CapturePayment(w)
                \/ UndoCompleteCart(w)
    <2>1. lock' = lock /\ req'[w].cart = req[w].cart
      BY <1>1, <1>5 DEF CompleteCart, MarkProviderCalled, AuthorizeSettledSession,
         DeclineLocally, CallSettle, SettleReply, CapturePayment, UndoCompleteCart, Requests
    <2>2. pc'[w] \in {"capture", "hook", "undo", "authorize", "settling", "clear", "compensate"}
      BY <1>1, <1>5 DEF CompleteCart, MarkProviderCalled, AuthorizeSettledSession,
         DeclineLocally, CallSettle, SettleReply, SaveAnswer, CapturePayment, UndoCompleteCart, Goto
    <2>. QED  BY <2>1, <2>2 DEF Attempting, Paying, CartOf
  <1>. QED
    BY <1>2, <1>3, <1>4, <1>5 DEF Step, EnsureShippingMethod, AddShippingMethod,
       AcquireLock, LockTimeout, ReleaseLock,
       AssertSessionMutable, UpdateCart, CancelSession, FetchUpdatedCart,
       PrepareCheckoutPayment, GuardPendingSettlement, ReservePaymentAuthorization,
       SetupPayment, BeginSettlementAttempt

LEMMA StepSettlingHeld ==
    ASSUME Safe, PaymentSafe, [Next]_vars, mishaps' = 0, NEW c \in Carts
    PROVE  SettlingHeld(c)'
  <1> SUFFICES ASSUME marker'[c].state = "settling"
               PROVE  HolderIsAt(c, Attempting)'
    BY DEF SettlingHeld
  <1>1. mishaps = 0 /\ \A w \in Workers : ~Crash(w)
    BY NoMishapBefore
  <1>2. CASE marker[c].state = "settling"
    <2>1. PICK w \in Workers : lock[c] = w /\ CartOf(w) = c /\ pc[w] \in Attempting
      BY <1>1, <1>2 DEF PaymentSafe, SettlingHeld, HolderIsAt
    <2>2. pc[w] # "idle" /\ ~ReleaseLock(w)
      BY <2>1 DEF Attempting, Paying, ReleaseLock
    <2>3. lock'[c] = w
      BY <1>1, <2>1, <2>2, LockStays
    <2>4. pc'[w] \in Attempting /\ req'[w].cart = c
      <3>1. CASE Step(w)
        BY <1>1, <2>1, <3>1, AttemptGoesOn
      <3>2. CASE ~Step(w)
        BY <1>1, <2>1, <2>2, <3>2, WorkerMoves DEF CartOf
      <3>. QED  BY <3>1, <3>2
    <2>. QED  BY <2>3, <2>4 DEF HolderIsAt, CartOf
  <1>3. CASE marker[c].state # "settling"
    <2>1. marker' # marker
      BY <1>3
    <2>2. PICK w \in Workers :
             \/ BeginSettlementAttempt(w) \/ MarkProviderCalled(w)
             \/ ClearSettlementAttempt(w) \/ CompensateSettlementAttempt(w)
      BY <2>1, MarkerWriters
    <2>3. PICK d \in Carts : d = CartOf(w) /\ lock[d] = w
      <3>1. pc[w] \in UnderLock
        BY <2>2 DEF BeginSettlementAttempt, MarkProviderCalled, ClearSettlementAttempt,
           CompensateSettlementAttempt, UnderLock, Labels
      <3>. QED  BY <3>1, Holder
    <2>4. c = d
      BY <1>3, <2>2, <2>3 DEF BeginSettlementAttempt, MarkProviderCalled, ClearSettlementAttempt,
         CompensateSettlementAttempt, SetMarker, Safe, Typed, Data
    <2>5. CASE BeginSettlementAttempt(w)
      <3>1. pc'[w] = "complete" /\ req'[w] = req[w] /\ lock'[c] = w
        BY <2>1, <2>3, <2>4, <2>5 DEF BeginSettlementAttempt, Goto, Safe, Typed, Control
      <3>. QED  BY <2>3, <2>4, <3>1 DEF HolderIsAt, CartOf, Attempting
    <2>6. CASE ~BeginSettlementAttempt(w)
      <3>1. pc[w] \in Attempting
        BY <2>2, <2>6 DEF MarkProviderCalled, ClearSettlementAttempt,
           CompensateSettlementAttempt, Attempting, Paying
      <3>. QED  BY <1>3, <2>3, <2>4, <3>1 DEF Safe, Others, WorkerOK, MarkerOK
    <2>. QED  BY <2>5, <2>6
  <1>. QED  BY <1>2, <1>3

\* The attempt that has made the order goes on making it, has been paid, or takes
\* the order back.
LEMMA MakingGoesOn ==
    ASSUME Safe, PaymentSafe, NEW w \in Workers, Step(w), NEW c \in Carts, c = CartOf(w),
           lock[c] = w, req[w].made, pc[w] \in Paying \cup {"undo"}
    PROVE  /\ lock'[c] = w
           /\ \/ ~ordered'[c]
              \/ \E k \in Credentials : Paid(c, k, total[c])
              \/ pc'[w] \in Paying \cup {"undo"} /\ req'[w].cart = c /\ req'[w].made
  <1>1. pc \in [Workers -> Labels] /\ req \in [Workers -> Requests]
        /\ ordered \in [Carts -> BOOLEAN]
    BY DEF Safe, Typed, Control, Data
  <1>2. pc[w] \notin {"shipping", "add", "wait", "unlock", "mutable", "update", "cancel",
                      "fetch", "prepare",
                      "guard", "reserve", "setup", "begin", "complete", "capture", "clear",
                      "compensate"}
    BY DEF Paying
  <1>3. CASE UndoCompleteCart(w)
    BY <1>1, <1>3 DEF UndoCompleteCart
  <1>4. CASE MarkProviderCalled(w) \/ CallSettle(w)
    <2>1. lock' = lock /\ req'[w].cart = req[w].cart /\ req'[w].made
      <3>1. CASE MarkProviderCalled(w)
        BY <3>1 DEF MarkProviderCalled
      <3>2. CASE CallSettle(w)
        <4>1. PICK b \in BOOLEAN : lock' = lock /\ req' = [req EXCEPT ![w].first = b]
          BY <3>2, Zenon DEF CallSettle
        <4>2. req[w] \in Requests /\ req'[w] = [req[w] EXCEPT !.first = b]
          BY <1>1, <4>1
        <4>. QED  BY <4>1, <4>2 DEF Requests
      <3>. QED  BY <1>4, <3>1, <3>2
    <2>2. pc'[w] \in {"undo", "authorize", "settling"}
      BY <1>1, <1>4 DEF MarkProviderCalled, CallSettle, Goto
    <2>. QED  BY <2>1, <2>2 DEF Paying, CartOf
  <1>5. CASE AuthorizeSettledSession(w) \/ DeclineLocally(w) \/ SettleReply(w)
    <2>1. lock' = lock /\ req' = req
      BY <1>5 DEF AuthorizeSettledSession, DeclineLocally, SettleReply
    <2>2. pc'[w] \in {"undo", "capture"}
      BY <1>1, <1>5 DEF AuthorizeSettledSession, DeclineLocally, SettleReply, SaveAnswer, Goto
    <2>. QED  BY <1>5, <2>1, <2>2, AnswerPaid DEF CartOf
  <1>. QED
    BY <1>2, <1>3, <1>4, <1>5 DEF Step, EnsureShippingMethod, AddShippingMethod,
       AcquireLock, LockTimeout, ReleaseLock,
       AssertSessionMutable, UpdateCart, CancelSession, FetchUpdatedCart,
       PrepareCheckoutPayment, GuardPendingSettlement, ReservePaymentAuthorization,
       SetupPayment, BeginSettlementAttempt, CompleteCart, CapturePayment,
       ClearSettlementAttempt, CompensateSettlementAttempt

LEMMA StepOrderPaid ==
    ASSUME Safe, PaymentSafe, [Next]_vars, mishaps' = 0, NEW c \in Carts
    PROVE  OrderPaid(c)'
  <1> SUFFICES ASSUME ordered'[c]
               PROVE  Making(c)' \/ \E k \in Credentials : Paid(c, k, due[c])'
    BY DEF OrderPaid, Paid
  <1>1. mishaps = 0 /\ \A w \in Workers : ~Crash(w)
    BY NoMishapBefore
  <1>2. /\ ordered \in [Carts -> BOOLEAN] /\ due \in [Carts -> Amounts \cup {None}]
        /\ total[c] \in Amounts /\ \A w \in Workers : lock[c] = w => lock[c] # None
    BY ConstantsAssumption DEF Safe, Typed, Data
  <1>3. CASE ~ordered[c]
    <2>1. PICK w \in Workers : CompleteCart(w)
      <3>1. PICK w \in Workers : CompleteCart(w) \/ UndoCompleteCart(w)
        BY <1>3, OrderWriters
      <3>2. ~UndoCompleteCart(w)
        BY <1>2, <1>3 DEF UndoCompleteCart
      <3>. QED  BY <3>1, <3>2
    <2>2. PICK d \in Carts : d = CartOf(w) /\ lock[d] = w
      BY <2>1, Holder DEF CompleteCart, UnderLock, Labels
    <2>3. /\ c = d /\ pc'[w] = "hook" /\ req'[w].made /\ req'[w].cart = c /\ lock' = lock
          /\ due'[c] = total'[c]
      BY <1>2, <1>3, <2>1, <2>2
         DEF CompleteCart, MakeOrder, Goto, Safe, Typed, Control, Requests, CartOf
    <2>. QED  BY <2>2, <2>3 DEF Making, Paying, CartOf
  <1>4. CASE ordered[c]
    <2>1. due'[c] = due[c]
      <3>1. ASSUME NEW w \in Workers, CompleteCart(w) PROVE due'[c] = due[c]
        <4>1. PICK d \in Carts : d = CartOf(w) /\ lock[d] = w
          BY <3>1, Holder DEF CompleteCart, UnderLock, Labels
        <4>. QED  BY <1>2, <1>4, <3>1, <4>1 DEF CompleteCart, MakeOrder
      <3>2. ASSUME NEW w \in Workers, UndoCompleteCart(w) PROVE due'[c] = due[c]
        <4>1. PICK d \in Carts : d = CartOf(w) /\ lock[d] = w
          BY <3>2, Holder DEF UndoCompleteCart, UnderLock, Labels
        <4>. QED  BY <1>2, <3>2, <4>1 DEF UndoCompleteCart
      <3>. QED  BY <3>1, <3>2, OrderWriters
    <2>2. ASSUME NEW k \in Credentials, Paid(c, k, due[c]) PROVE Paid(c, k, due[c])'
      <3>1. due[c] \in Amounts
        BY <2>2, ConstantsAssumption DEF Paid
      <3>. QED  BY <2>1, <2>2, <3>1, PaidKept DEF Paid
    <2>3. CASE Making(c)
      <3>1. PICK w \in Workers : /\ lock[c] = w /\ CartOf(w) = c /\ req[w].made
                                 /\ pc[w] \in Paying \cup {"undo"} /\ due[c] = total[c]
        BY <2>3 DEF Making
      <3>2. total'[c] = total[c]
        BY <1>2, <3>1, TotalKept DEF Paying
      <3>3. CASE Step(w)
        BY <2>1, <2>2, <3>1, <3>2, <3>3, MakingGoesOn DEF Making, CartOf
      <3>4. CASE ~Step(w)
        <4>1. pc[w] # "idle" /\ ~ReleaseLock(w)
          BY <3>1 DEF Paying, ReleaseLock
        <4>2. lock'[c] = w /\ pc'[w] = pc[w] /\ req'[w] = req[w]
          BY <1>1, <3>1, <3>4, <4>1, LockStays, WorkerMoves
        <4>. QED  BY <2>1, <3>1, <3>2, <4>2 DEF Making, CartOf
      <3>. QED  BY <3>3, <3>4
    <2>. QED  BY <1>1, <1>4, <2>2, <2>3 DEF PaymentSafe, OrderPaid
  <1>. QED  BY <1>2, <1>3, <1>4

-----------------------------------------------------------------------------
(* The theorems.                                                           *)

LEMMA InitPaymentSafe == Init => PaymentSafe
  BY DEF Init, PaymentSafe, SessionPaid, CallBound, OrderPaid, SettlingHeld, NoSession, NoMarker

LEMMA StepPaymentSafe == Safe /\ PaymentSafe /\ [Next]_vars => PaymentSafe'
  <1> SUFFICES ASSUME Safe, PaymentSafe, [Next]_vars PROVE PaymentSafe'
    OBVIOUS
  <1>1. \A c \in Carts : SessionPaid(c)'
    BY StepSessionPaid
  <1>2. \A w \in Workers : CallBound(w)'
    BY StepCallBound
  <1>3. mishaps' = 0 => \A c \in Carts : OrderPaid(c)' /\ SettlingHeld(c)'
    BY StepOrderPaid, StepSettlingHeld
  <1>. QED  BY <1>1, <1>2, <1>3 DEF PaymentSafe

LEMMA SettlementAlwaysSafe == Spec => [](Safe /\ PaymentSafe)
  BY InitSafe, InitPaymentSafe, StepSafe, StepPaymentSafe, PTL DEF Spec

\* The inductive invariant: what each request may rely on at each of its steps,
\* that every exposed payment is held by its cart, and that what counts as
\* settled has been paid, in every reachable state.
THEOREM SettlementIsSafe == Spec => []SettlementSafe
  <1>1. Safe /\ PaymentSafe => SettlementSafe
    BY DEF Safe, Typed, Control, Data, TypeOK, Others, Sessions, Exposures, SettlementSafe
  <1>. QED  BY <1>1, SettlementAlwaysSafe, PTL

\* Without crashes and lost answers, an order nobody is working on has been paid
\* in full, whatever the interleaving of updates, cancels, retries and replies.
THEOREM OrderPaidInFull == Spec => []OrderIsPaidInFull
  <1>1. Safe /\ PaymentSafe => OrderIsPaidInFull
    <2>1. ASSUME Safe, PaymentSafe, mishaps = 0, NEW c \in Carts, ordered[c], lock[c] = None
          PROVE  \E k \in Credentials : Paid(c, k, due[c])
      BY <2>1, ConstantsAssumption DEF PaymentSafe, OrderPaid, Making
    <2>. QED  BY <2>1 DEF OrderIsPaidInFull, Paid, Exposed
  <1>. QED  BY <1>1, SettlementAlwaysSafe, PTL

\* Without crashes and lost answers, a session that shows a settling payment has a
\* request at work on it, inside its attempt.
THEOREM SettlingIsWorkedOn == Spec => []SettlingHasAWorker
  <1>1. Safe /\ PaymentSafe => SettlingHasAWorker
    BY ConstantsAssumption DEF PaymentSafe, SettlingHeld, HolderIsAt, SettlingHasAWorker
  <1>. QED  BY <1>1, SettlementAlwaysSafe, PTL
=================================================================================
