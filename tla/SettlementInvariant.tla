-------------------------- MODULE SettlementInvariant --------------------------
(***************************************************************************)
(* The inductive invariant behind the safety of CheckoutSettlement: what   *)
(* each worker may rely on at each step of its request, and how an         *)
(* exposed payment is held by the marker of its cart or by its order.      *)
(***************************************************************************)
EXTENDS CheckoutSettlement

\* Steps taken with the lock of the cart.
UnderLock == Labels \ {"idle", "shipping", "add", "wait", "fetch", "prepare"}

\* A completion that passed guard-pending-settlement and has no marker yet ...
Admitted == {"reserve", "setup", "begin"}

\* ... that is inside completeCartWorkflow, up to the provider's answer ...
Paying == {"hook", "authorize", "settling"}

\* ... and that still has its settling marker.
Attempting == Paying \cup {"complete", "capture", "clear", "undo", "compensate"}

\* Steps from which the order a worker made may still be undone.
Undoable == Paying \cup {"capture", "clear", "undo"}

Exposed(c, a) == <<c, a>> \in exposed

\* The request a worker may have at each step.
RequestFits(label, r) ==
    /\ label # "idle" => r.cart \in Carts /\ r.op # "none"
    /\ r.op = "complete" => r.cred \in Credentials
    /\ label \in {"mutable", "update", "cancel"} => r.op # "complete"
    /\ label \in {"shipping", "add", "guard"} \cup Admitted \cup Attempting => r.op = "complete"

RequestOK(w) == RequestFits(pc[w], req[w])

LockOK(w) == pc[w] \in UnderLock => lock[CartOf(w)] = w

\* Nobody moves the marker under an update, a cancel or an admitted completion:
\* it is still what the check of the session saw; later it is the worker's own
\* settling marker.
MarkerOK(w) ==
    LET m == marker[CartOf(w)] IN
    /\ pc[w] \in {"update", "cancel"} => m.state = "none"
    /\ pc[w] \in Admitted =>
          IF req[w].resumed THEN m.state \in {"settling", "pending"} /\ m.cred = req[w].cred
                            ELSE m.state = "none"
    /\ pc[w] \in Attempting => m.state = "settling" /\ m.cred = req[w].cred
    /\ pc[w] \in {"authorize", "settling"} => m.called

ReservedOK(w) ==
    pc[w] \in {"setup", "begin"} \cup Attempting => ledger[Auth(w)] = CartOf(w)

OrderOK(w) ==
    /\ pc[w] \in {"update", "cancel"} => ~ordered[CartOf(w)]
    /\ pc[w] \in {"shipping", "add", "wait", "guard", "complete"} \cup Admitted => ~req[w].made
    /\ pc[w] \in Paying => req[w].made
    /\ pc[w] \in Paying \cup {"capture", "clear"} => ordered[CartOf(w)]

Unanswered(s, w) ==
    /\ s.cred = req[w].cred /\ s.resume = req[w].resumed
    /\ s.status = "pending" /\ s.outcome = "undefined" /\ s.tx = None

SessionOK(w) ==
    LET s == psession[CartOf(w)] IN
    /\ pc[w] \in {"begin", "complete", "hook", "authorize"} =>
          Unanswered(s, w) \/ (s.cred = req[w].cred /\ s.outcome = "settled" /\ s.tx # None)
    /\ pc[w] = "settling" => Unanswered(s, w)
    /\ pc[w] = "capture" /\ req[w].made =>
          s.cred = req[w].cred /\ s.outcome = "settled"

\* A failure of worker w that clears the marker, given the saved session.
Clearable(w) ==
    LET s == psession[CartOf(w)] IN
    /\ s.cred = req[w].cred
    /\ \/ s.outcome = "declined"
       \/ s.outcome = "undefined" /\ s.status = "pending" /\ ~marker[CartOf(w)].called

\* What a first attempt knows of the exposure of its cart: an earlier exposure
\* has led to an order; from the moment the attempt makes the order itself there
\* is none but its own; and when its failure may be forgotten there is none.
FreshOK(w) ==
    LET c == CartOf(w) IN
    ~req[w].resumed =>
        /\ pc[w] \in Admitted \cup {"complete"} =>
              \A a \in Authorizations : Exposed(c, a) => ordered[c]
        /\ pc[w] \in {"hook", "authorize"} => \A a \in Authorizations : ~Exposed(c, a)
        /\ pc[w] = "settling" => req[w].first
        /\ pc[w] \in {"undo", "compensate"} /\ Clearable(w) =>
              \A a \in Authorizations : Exposed(c, a) => ordered[c] /\ ~req[w].made

WorkerOK(w) ==
    /\ RequestOK(w) /\ LockOK(w) /\ MarkerOK(w) /\ ReservedOK(w)
    /\ OrderOK(w) /\ SessionOK(w) /\ FreshOK(w)

\* The order of a cart cannot be undone any more.
Kept(c) ==
    ordered[c] /\ \A w \in Workers : pc[w] \in Undoable /\ CartOf(w) = c => ~req[w].made

HeldByMarker(c, a) == marker[c].state # "none" /\ AuthOf[marker[c].cred] = a

ExposureOK(c, a) == Exposed(c, a) => ledger[a] = c /\ (Kept(c) \/ HeldByMarker(c, a))

AuthorizedOK(c) == psession[c].status = "authorized" => psession[c].outcome = "settled"

-----------------------------------------------------------------------------
(* What has been paid.                                                     *)

Paid(c, k, amount) ==
    Exposed(c, AuthOf[k]) /\ AuthOf[k] \in charged /\ AmountOf[k] = amount

\* A payment session is for the total its cart has, and a settled one is paid.
SessionPaid(c) ==
    LET s == psession[c] IN
    /\ s.cred # None => s.amount = total[c]
    /\ s.outcome = "settled" => s.cred \in Credentials /\ Paid(c, s.cred, total[c])

\* A settle call under way is for the total of its cart.
CallBound(w) ==
    pc[w] = "settling" =>
        Exposed(CartOf(w), Auth(w)) /\ AmountOf[req[w].cred] = total[CartOf(w)]

\* The holder of the lock is at one of these steps.
HolderIsAt(c, steps) == \E w \in Workers : lock[c] = w /\ CartOf(w) = c /\ pc[w] \in steps

\* The holder of the lock has made the order, for the total the cart still has,
\* and is not certain of the payment: it will undo the order or be told that the
\* payment has settled.
Making(c) ==
    due[c] = total[c] /\ \E w \in Workers : /\ lock[c] = w /\ CartOf(w) = c /\ req[w].made
                        /\ pc[w] \in Paying \cup {"undo"}

OrderPaid(c) == ordered[c] => Making(c) \/ \E k \in Credentials : Paid(c, k, due[c])

SettlingHeld(c) == marker[c].state = "settling" => HolderIsAt(c, Attempting)

PaymentSafe ==
    /\ \A c \in Carts : SessionPaid(c)
    /\ \A w \in Workers : CallBound(w)
    /\ mishaps = 0 => \A c \in Carts : OrderPaid(c) /\ SettlingHeld(c)

\* The inductive invariant.
SettlementSafe ==
    /\ TypeOK
    /\ \A w \in Workers : WorkerOK(w)
    /\ \A c \in Carts : AuthorizedOK(c)
    /\ \A c \in Carts, a \in Authorizations : ExposureOK(c, a)
    /\ PaymentSafe
=============================================================================
