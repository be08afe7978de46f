----------------------------- MODULE OverdueProofs -----------------------------
(***************************************************************************)
(* Proofs about OverdueCompletion, for any carts, workers, credentials and *)
(* authorizations, and any number of mishaps.                              *)
(*                                                                         *)
(* The lock does not protect a cart here: it may expire under its holder.  *)
(* What an attempt relies on is that no second request was admitted to its *)
(* cart (OneInside), until one is; and Medusa's own completion relies on   *)
(* what the attempt that left the settling marker has put into the payment *)
(* session.                                                                *)
(***************************************************************************)
EXTENDS OverdueCompletion, SettlementProofs

OverdueRequests ==
    [op : {"none", "complete", "update", "cancel", "native"}, cart : Carts \cup {None},
     cred : Credentials \cup {None}, resumed : BOOLEAN, made : BOOLEAN,
     first : BOOLEAN, snapshot : Amounts \cup {None}, next : {"idle", "fetch"}]

\* The request a worker may have at each step.
OverdueFits(label, r) ==
    /\ label # "idle" => r.cart \in Carts /\ r.op # "none"
    /\ r.op = "complete" => r.cred \in Credentials
    /\ label \in Attempting => r.op \in {"complete", "native"} /\ r.cred \in Credentials
    /\ label \in {"shipping", "add", "guard", "complete", "clear"} \cup Admitted =>
          r.op = "complete"
    /\ label \in {"mutable", "update", "cancel"} => r.op \in {"update", "cancel"}

OverdueControl ==
    /\ pc \in [Workers -> Labels \cup {"validate"}]
    /\ req \in [Workers -> OverdueRequests]
    /\ \A w \in Workers : OverdueFits(pc[w], req[w])

OverdueData ==
    /\ marker \in [Carts -> Markers]
    /\ total \in [Carts -> Amounts]
    /\ ordered \in [Carts -> BOOLEAN]
    /\ due \in [Carts -> Amounts \cup {None}]
    /\ psession \in [Carts -> PaymentSessions]
    /\ ledger \in [Authorizations -> Carts \cup {None}]

OverdueTyped == OverdueControl /\ OverdueData

\* The payment session an attempt is authorized on has no answer yet, or is
\* settled.  Only an agent's attempt knows whether it was made for a retry.
Waiting(s, w) ==
    /\ s.status = "pending" /\ s.outcome = "undefined" /\ s.tx = None
    /\ ~IsNative(w) => s.resume = req[w].resumed

SessionFits(w) ==
    LET s == psession[CartOf(w)] IN
    /\ pc[w] \in {"begin", "complete", "hook", "authorize"} =>
          s.cred = req[w].cred /\ (Waiting(s, w) \/ (s.outcome = "settled" /\ s.tx # None))
    /\ pc[w] = "settling" => s.cred = req[w].cred /\ Waiting(s, w)
    /\ pc[w] = "capture" /\ req[w].made => s.cred = req[w].cred /\ s.outcome = "settled"

\* What a worker may rely on.
RequestSafe(w) ==
    /\ MarkerOK(w) /\ ReservedOK(w) /\ OrderOK(w) /\ SessionFits(w) /\ CallBound(w)
    /\ ~IsNative(w) => FreshOK(w)

\* The payment session of a cart: an unanswered or a settled one is what its
\* status says, for a credential the cart has reserved, and the one of the
\* settling marker.
SessionSafe(c) ==
    LET s == psession[c] IN
    /\ s.status = "pending" => s.outcome = "undefined" /\ s.tx = None
    /\ s.status = "authorized" => s.outcome = "settled" /\ s.tx # None
    /\ s.status \in {"pending", "authorized"} => s.cred # None
    /\ s.cred # None => ledger[AuthOf[s.cred]] = c
    /\ s.cred # None /\ marker[c].state = "settling" => s.cred = marker[c].cred
    /\ SessionPaid(c)

OneExposure(c) == \A a, b \in Authorizations : Exposed(c, a) /\ Exposed(c, b) => a = b

\* Somebody has made the order, for the total the cart still has, and is not
\* certain of the payment.
InTheMaking(c) ==
    /\ due[c] = total[c]
    /\ \E w \in Workers : CartOf(w) = c /\ req[w].made /\ pc[w] \in Paying \cup {"undo"}

PaidOrMaking(c) ==
    ordered[c] /\ c \notin orphaned =>
        InTheMaking(c) \/ \E k \in Credentials : Paid(c, k, due[c])

CartSafe(c) ==
    /\ SessionSafe(c)
    /\ \A a \in Authorizations : ExposureOK(c, a)
    /\ OneExposure(c)
    /\ PaidOrMaking(c)

OneInside(c) == \A v, w \in Workers : IsInside(v, c) /\ IsInside(w, c) => v = w

OverdueSafe ==
    /\ OverdueTyped
    /\ \A c \in Carts \ overlapped : OneInside(c) /\ CartSafe(c)
    /\ \A w \in Workers : CartOf(w) \in Carts \ overlapped => RequestSafe(w)

-----------------------------------------------------------------------------
(* The control state of the workers.                                       *)

\* The steps of a worker that is not admitted to a cart.
Away == {"idle", "shipping", "add", "wait", "unlock", "validate", "mutable", "guard", "fetch",
         "prepare"}

\* Steps of a request that has not been admitted yet.
Early == {"shipping", "add", "wait", "guard"}

Elsewhere(w) == \A v \in Workers \ {w} : pc'[v] = pc[v] /\ req'[v] = req[v]

LEMMA InsideOrAway ==
    ASSUME OverdueControl, NEW w \in Workers
    PROVE  /\ pc[w] \in Inside \cup Away
           /\ pc[w] \in Away => pc[w] \notin Inside
  BY DEF OverdueControl, Inside, Away, Labels

\* A worker that moves to a step its request fits.
LEMMA Moves ==
    ASSUME OverdueControl, NEW w \in Workers, NEW l \in Labels \cup {"validate"},
           NEW r \in OverdueRequests, OverdueFits(l, r),
           pc' = [pc EXCEPT ![w] = l], req' = [req EXCEPT ![w] = r]
    PROVE  OverdueControl' /\ pc'[w] = l /\ req'[w] = r /\ Elsewhere(w)
<1>1. /\ pc' \in [Workers -> Labels \cup {"validate"}] /\ req' \in [Workers -> OverdueRequests]
      /\ pc'[w] = l /\ req'[w] = r /\ Elsewhere(w)
  BY DEF OverdueControl, Elsewhere
<1>2. \A v \in Workers : OverdueFits(pc'[v], req'[v])
  BY <1>1 DEF OverdueControl, Elsewhere
<1> QED BY <1>1, <1>2 DEF OverdueControl, OverdueFits

\* It goes to another step with the same request.
LEMMA Goes ==
    ASSUME OverdueControl, NEW w \in Workers, NEW l \in Labels \cup {"validate"},
           OverdueFits(l, req[w]), Goto(w, l), UNCHANGED req
    PROVE  OverdueControl' /\ pc'[w] = l /\ Elsewhere(w)
<1>1. req[w] \in OverdueRequests /\ req' = [req EXCEPT ![w] = req[w]]
  BY DEF OverdueControl
<1> QED BY <1>1, Moves DEF Goto

\* It leaves the critical section.
LEMMA Leaves ==
    ASSUME OverdueControl, NEW w \in Workers, pc[w] # "idle",
           NEW label \in {"idle", "fetch"}, LeaveTo(w, label)
    PROVE  /\ OverdueControl' /\ pc'[w] = "unlock" /\ Elsewhere(w)
           /\ req'[w].cart = CartOf(w) /\ req'[w].cred = req[w].cred
<1> DEFINE r == [req[w] EXCEPT !.next = label]
<1>1. req[w] \in OverdueRequests /\ OverdueFits(pc[w], req[w])
  BY DEF OverdueControl
<1>2. r \in OverdueRequests /\ r.op = req[w].op /\ r.cart = req[w].cart /\ r.cred = req[w].cred
  BY <1>1 DEF OverdueRequests
<1>3. pc' = [pc EXCEPT ![w] = "unlock"] /\ req' = [req EXCEPT ![w] = r]
  BY DEF LeaveTo, Goto
<1> HIDE DEF r
<1>4. OverdueFits("unlock", r) /\ "unlock" \in Labels
  BY <1>1, <1>2 DEF OverdueFits, Admitted, Attempting, Paying, Labels
<1> QED BY <1>2, <1>3, <1>4, Moves DEF CartOf

\* It is answered.
LEMMA Answers ==
    ASSUME OverdueControl, NEW w \in Workers, Answer(w)
    PROVE  OverdueControl' /\ pc'[w] = "idle" /\ Elsewhere(w)
<1>1. NoRequest \in OverdueRequests /\ OverdueFits("idle", NoRequest) /\ "idle" \in Labels
  BY DEF NoRequest, OverdueRequests, OverdueFits, Admitted, Attempting, Paying, Labels
<1> QED BY <1>1, Moves DEF Answer, Goto

\* What the control state says of a worker that has a request.
LEMMA WorkerFits ==
    ASSUME OverdueControl, NEW w \in Workers, pc[w] # "idle"
    PROVE  /\ CartOf(w) \in Carts /\ req[w] \in OverdueRequests
           /\ OverdueFits(pc[w], req[w])
           /\ pc[w] \in Attempting \cup Admitted \cup {"guard"} =>
                 req[w].cred \in Credentials /\ Auth(w) \in Authorizations
  BY ConstantsAssumption DEF OverdueControl, OverdueFits, CartOf, Auth

-----------------------------------------------------------------------------
(* What a step leaves alone.                                               *)

Untouched(d) ==
    /\ marker'[d] = marker[d] /\ total'[d] = total[d] /\ ordered'[d] = ordered[d]
    /\ due'[d] = due[d] /\ psession'[d] = psession[d]
    /\ \A a \in Authorizations : Exposed(d, a)' <=> Exposed(d, a)

\* Rows of the ledger, moved money and lost attempts are never taken back.
Grows ==
    /\ \A a \in Authorizations : ledger[a] \in Carts => ledger'[a] = ledger[a]
    /\ charged \subseteq charged'
    /\ overlapped \subseteq overlapped' /\ orphaned \subseteq orphaned'

\* A worker that does not move keeps what it relies on when its cart is untouched.
LEMMA RequestUntouched ==
    ASSUME OverdueSafe, NEW v \in Workers, CartOf(v) \in Carts \ overlapped,
           Untouched(CartOf(v)), Grows, pc'[v] = pc[v], req'[v] = req[v]
    PROVE  RequestSafe(v)'
<1>1. PICK d \in Carts : d = CartOf(v) /\ CartOf(v)' = d
  BY DEF CartOf
<1>2. RequestSafe(v)
  BY DEF OverdueSafe
<1>3. Auth(v)' = Auth(v) /\ (IsNative(v)' <=> IsNative(v))
  BY DEF Auth, IsNative
<1>4. pc[v] \in Attempting \cup Admitted => Auth(v) \in Authorizations
  <2>1. pc[v] \in Attempting \cup Admitted => pc[v] # "idle"
    BY DEF Attempting, Paying, Admitted
  <2> QED BY <2>1, WorkerFits DEF OverdueSafe, OverdueTyped
<1>5. MarkerOK(v)' /\ OrderOK(v)'
  BY <1>1, <1>2 DEF RequestSafe, MarkerOK, OrderOK, Untouched
<1>6. SessionFits(v)'
  BY <1>1, <1>2, <1>3 DEF RequestSafe, SessionFits, Waiting, Untouched
<1>7. ReservedOK(v)'
  <2>1. SUFFICES ASSUME pc[v] \in {"setup", "begin"} \cup Attempting
                 PROVE  ledger'[Auth(v)] = d
    BY <1>1, <1>3 DEF ReservedOK
  <2>2. ledger[Auth(v)] = d /\ Auth(v) \in Authorizations
    BY <1>1, <1>2, <1>4, <2>1 DEF RequestSafe, ReservedOK, Admitted
  <2> QED BY <1>1, <2>2 DEF Grows
<1>8. CallBound(v)'
  BY <1>1, <1>2, <1>3, <1>4 DEF RequestSafe, CallBound, Untouched, Attempting, Paying
<1>9. ~IsNative(v) => FreshOK(v)'
  <2>1. Clearable(v)' <=> Clearable(v)
    BY <1>1 DEF Clearable, Untouched
  <2> QED BY <1>1, <1>2, <2>1 DEF RequestSafe, FreshOK, Untouched
<1> QED BY <1>3, <1>5, <1>6, <1>7, <1>8, <1>9 DEF RequestSafe

\* A worker that is not admitted relies on little.
LEMMA RequestAway ==
    ASSUME NEW v \in Workers, pc'[v] \in Away, pc'[v] \in Early => ~req'[v].made
    PROVE  RequestSafe(v)'
<1>1. /\ pc'[v] \notin {"update", "cancel", "authorize", "settling"}
      /\ pc'[v] \notin Admitted /\ pc'[v] \notin Attempting /\ pc'[v] \notin Paying
  BY DEF Away, Admitted, Attempting, Paying
<1>2. MarkerOK(v)' /\ ReservedOK(v)' /\ OrderOK(v)'
  BY <1>1 DEF MarkerOK, ReservedOK, OrderOK, Away, Early, Admitted
<1>3. SessionFits(v)' /\ CallBound(v)' /\ FreshOK(v)'
  BY DEF SessionFits, CallBound, FreshOK, Away, Admitted
<1> QED BY <1>2, <1>3 DEF RequestSafe

\* An untouched cart stays safe when the worker that moves does not begin to make
\* its order, nor stops to make it without taking it back.
LEMMA CartUntouched ==
    ASSUME OverdueSafe, NEW w \in Workers, NEW d \in Carts \ overlapped,
           Untouched(d), Grows, Elsewhere(w),
           pc'[w] \in Undoable /\ req'[w].cart = d /\ req'[w].made =>
              pc[w] \in Undoable /\ CartOf(w) = d /\ req[w].made,
           CartOf(w) = d /\ req[w].made /\ pc[w] \in Paying \cup {"undo"} =>
              d \in orphaned'
              \/ (pc'[w] \in Paying \cup {"undo"} /\ req'[w].made /\ req'[w].cart = d)
    PROVE  CartSafe(d)'
<1>1. CartSafe(d)
  BY DEF OverdueSafe
<1>2. \A k \in Credentials : AuthOf[k] \in Authorizations
  BY ConstantsAssumption
<1>3. psession[d].cred # None => psession[d].cred \in Credentials
  <2>1. psession[d] \in PaymentSessions
    BY DEF OverdueSafe, OverdueTyped, OverdueData
  <2> QED BY <2>1 DEF PaymentSessions
<1>5. SessionSafe(d)'
  <2>1. SessionPaid(d)'
    BY <1>1, <1>2 DEF CartSafe, SessionSafe, SessionPaid, Paid, Untouched, Grows
  <2>2. psession[d].cred # None => ledger'[AuthOf[psession[d].cred]] = d
    BY <1>1, <1>2, <1>3 DEF CartSafe, SessionSafe, Grows
  <2> QED BY <1>1, <2>1, <2>2 DEF CartSafe, SessionSafe, Untouched
<1>6. ASSUME NEW a \in Authorizations PROVE ExposureOK(d, a)'
  <2>1. ExposureOK(d, a)
    BY <1>1 DEF CartSafe
  <2>2. Kept(d) => Kept(d)'
    BY DEF Kept, Untouched, Elsewhere, CartOf
  <2>3. HeldByMarker(d, a)' <=> HeldByMarker(d, a)
    BY DEF HeldByMarker, Untouched
  <2> QED BY <2>1, <2>2, <2>3 DEF ExposureOK, Untouched, Grows
<1>7. OneExposure(d)'
  BY <1>1 DEF CartSafe, OneExposure, Untouched
<1>8. PaidOrMaking(d)'
  <2>1. SUFFICES ASSUME ordered[d], d \notin orphaned'
                 PROVE  InTheMaking(d)' \/ \E k \in Credentials : Paid(d, k, due[d])'
    BY DEF PaidOrMaking, Untouched
  <2>2. InTheMaking(d) \/ \E k \in Credentials : Paid(d, k, due[d])
    BY <1>1, <2>1 DEF CartSafe, PaidOrMaking, Grows
  <2>3. CASE InTheMaking(d)
    BY <2>1, <2>3 DEF InTheMaking, Untouched, Elsewhere, CartOf
  <2>4. CASE \E k \in Credentials : Paid(d, k, due[d])
    BY <1>2, <2>4 DEF Paid, Untouched, Grows
  <2> QED BY <2>2, <2>3, <2>4
<1> QED BY <1>5, <1>6, <1>7, <1>8 DEF CartSafe

-----------------------------------------------------------------------------
(* The two shapes of a step.                                               *)

NothingDone == UNCHANGED <<marker, total, ordered, due, psession, ledger, exposed>>

LEMMA NothingTouched == NothingDone => \A d \in Carts : Untouched(d)
  BY DEF NothingDone, Untouched, Exposed

\* A worker goes away from a cart, or was never admitted to one, and leaves every
\* cart as it was: if it was making the order, the attempt is known as lost.
LEMMA AwayStep ==
    ASSUME OverdueSafe, NEW w \in Workers, OverdueControl', Elsewhere(w), NothingDone,
           pc'[w] \in Away, pc'[w] \in Early => ~req'[w].made,
           Grows, overlapped' = overlapped,
           req[w].made /\ pc[w] \in Paying \cup {"undo"} => CartOf(w) \in orphaned'
    PROVE  OverdueSafe'
<1>1. \A d \in Carts : Untouched(d)
  BY NothingTouched
<1>2. OverdueTyped'
  BY DEF OverdueTyped, OverdueData, OverdueSafe, NothingDone
<1>3. pc'[w] \notin Inside /\ pc'[w] \notin Undoable
  BY DEF Away, Inside, Undoable, Paying
<1>4. \A d \in Carts \ overlapped : CartSafe(d)'
  BY <1>1, <1>3, CartUntouched
<1>5. \A d \in Carts \ overlapped : OneInside(d)'
  BY <1>3 DEF OverdueSafe, OneInside, IsInside, Elsewhere, CartOf
<1>6. ASSUME NEW v \in Workers, CartOf(v)' \in Carts \ overlapped PROVE RequestSafe(v)'
  <2>1. CASE v = w
    BY <2>1, RequestAway
  <2>2. CASE v # w
    <3>1. pc'[v] = pc[v] /\ req'[v] = req[v] /\ CartOf(v)' = CartOf(v)
      BY <2>2 DEF Elsewhere, CartOf
    <3>2. CartOf(v) \in Carts \ overlapped /\ Untouched(CartOf(v))
      BY <1>1, <1>6, <3>1
    <3> QED BY <3>1, <3>2, RequestUntouched
  <2> QED BY <2>1, <2>2
<1> QED BY <1>2, <1>4, <1>5, <1>6 DEF OverdueSafe

\* Nobody but w is admitted to c.
Only(w, c) == \A v \in Workers \ {w} : ~IsInside(v, c)

\* What holds of the cart of a worker, as far as the worker alone decides it.
HeldBy(w, c, a) ==
    Exposed(c, a) =>
        /\ ledger[a] = c
        /\ \/ ordered[c] /\ (pc[w] \in Undoable => ~req[w].made)
           \/ HeldByMarker(c, a)

PaidBy(w, c) ==
    ordered[c] /\ c \notin orphaned =>
        \/ due[c] = total[c] /\ req[w].made /\ pc[w] \in Paying \cup {"undo"}
        \/ \E k \in Credentials : Paid(c, k, due[c])

SafeFor(w, c) ==
    /\ RequestSafe(w) /\ SessionSafe(c) /\ OneExposure(c) /\ PaidBy(w, c)
    /\ \A a \in Authorizations : HeldBy(w, c, a)

LEMMA UndoableInside == Undoable \cup Paying \cup {"undo"} \subseteq Inside
  BY DEF Undoable, Paying, Inside

LEMMA OnlyKnows ==
    ASSUME OverdueSafe, NEW w \in Workers, NEW c \in Carts \ overlapped, c = CartOf(w),
           Only(w, c)
    PROVE  SafeFor(w, c)
<1>1. RequestSafe(w) /\ CartSafe(c)
  BY DEF OverdueSafe
<1>2. ASSUME NEW a \in Authorizations PROVE HeldBy(w, c, a)
  BY <1>1 DEF CartSafe, ExposureOK, HeldBy, Kept
<1>3. PaidBy(w, c)
  <2>1. \A v \in Workers : CartOf(v) = c /\ pc[v] \in Paying \cup {"undo"} => v = w
    BY UndoableInside DEF Only, IsInside
  <2> QED BY <1>1, <2>1 DEF CartSafe, PaidOrMaking, InTheMaking, PaidBy
<1> QED BY <1>1, <1>2, <1>3 DEF CartSafe, SafeFor

\* A worker that is admitted, with nobody else, knows its cart.
LEMMA InsideKnows ==
    ASSUME OverdueSafe, overlapped = {}, NEW w \in Workers, pc[w] \in Inside
    PROVE  \E c \in Carts : c = CartOf(w) /\ Only(w, c) /\ SafeFor(w, c)
<1>1. CartOf(w) \in Carts \ overlapped
  <2>1. pc[w] # "idle"
    BY DEF Inside
  <2> QED BY <2>1, WorkerFits DEF OverdueSafe, OverdueTyped
<1>2. Only(w, CartOf(w))
  BY <1>1 DEF OverdueSafe, OneInside, Only, IsInside
<1> QED BY <1>1, <1>2, OnlyKnows

\* A step of a worker at its cart, which no other worker is admitted to.
LEMMA CartStep ==
    ASSUME OverdueSafe, overlapped = {}, NEW w \in Workers, NEW c \in Carts, c = CartOf(w),
           OverdueTyped', Elsewhere(w), CartOf(w)' = c, Grows,
           \A d \in Carts \ {c} : Untouched(d),
           c \notin overlapped' => Only(w, c) /\ SafeFor(w, c)'
    PROVE  OverdueSafe'
<1>1. \A d \in Carts : d \notin overlapped
  OBVIOUS
<1>2. \A v \in Workers \ {w} : /\ pc'[v] = pc[v] /\ req'[v] = req[v]
                               /\ CartOf(v)' = CartOf(v)
                               /\ \A d \in Carts : IsInside(v, d)' <=> IsInside(v, d)
  BY DEF Elsewhere, CartOf, IsInside
<1>3. \A d \in Carts \ {c} : ~IsInside(w, d)'
  BY DEF IsInside
<1>4. ASSUME NEW d \in Carts \ overlapped' PROVE OneInside(d)'
  <2>1. OneInside(d)
    BY <1>1 DEF OverdueSafe
  <2>2. CASE d = c
    BY <1>2, <2>2 DEF Only, OneInside
  <2>3. CASE d # c
    BY <1>2, <1>3, <2>1, <2>3 DEF OneInside
  <2> QED BY <2>2, <2>3
<1>5. ASSUME NEW d \in Carts \ overlapped', d # c PROVE CartSafe(d)'
  BY <1>1, <1>5, CartUntouched DEF CartOf
<1>6. ASSUME c \notin overlapped' PROVE CartSafe(c)'
  <2>1. SafeFor(w, c)' /\ Only(w, c)
    BY <1>6
  <2>2. \A v \in Workers \ {w} : CartOf(v)' = c => pc'[v] \notin Undoable
    BY <1>2, <2>1, UndoableInside DEF Only, IsInside
  <2>3. ASSUME NEW a \in Authorizations PROVE ExposureOK(c, a)'
    BY <2>1, <2>2 DEF SafeFor, HeldBy, ExposureOK, Kept
  <2>4. PaidOrMaking(c)'
    BY <2>1 DEF SafeFor, PaidBy, PaidOrMaking, InTheMaking
  <2> QED BY <2>1, <2>3, <2>4 DEF SafeFor, CartSafe
<1>7. ASSUME NEW v \in Workers, CartOf(v)' \in Carts \ overlapped' PROVE RequestSafe(v)'
  <2>1. CASE v = w
    BY <1>7, <2>1 DEF SafeFor
  <2>2. CASE v # w /\ CartOf(v) = c
    <3>1. ~IsInside(v, c)
      BY <1>2, <1>7, <2>2 DEF Only
    <3>2. pc'[v] \in Away /\ pc'[v] = pc[v] /\ req'[v] = req[v]
      BY <1>2, <2>2, <3>1, InsideOrAway DEF IsInside, OverdueSafe, OverdueTyped
    <3>3. RequestSafe(v)
      BY <1>1, <2>2 DEF OverdueSafe
    <3> QED BY <3>2, <3>3, RequestAway DEF RequestSafe, OrderOK, Early
  <2>3. CASE v # w /\ CartOf(v) # c
    <3>1. CartOf(v) \in Carts \ overlapped /\ Untouched(CartOf(v))
      BY <1>1, <1>2, <1>7, <2>3
    <3> QED BY <1>2, <2>3, <3>1, RequestUntouched
  <2> QED BY <2>1, <2>2, <2>3
<1> QED BY <1>4, <1>5, <1>6, <1>7 DEF OverdueSafe

-----------------------------------------------------------------------------
(* Requests, the lock, and what happens by itself.                         *)

\* Nobody moves.
LEMMA StillStep ==
    ASSUME OverdueSafe, UNCHANGED <<pc, req>>, NothingDone, Grows, overlapped' = overlapped
    PROVE  OverdueSafe'
<1>1. \A d \in Carts : Untouched(d)
  BY NothingTouched
<1>2. OverdueTyped'
  BY DEF OverdueTyped, OverdueControl, OverdueData, OverdueSafe, NothingDone
<1>3. \A d \in Carts \ overlapped : OneInside(d)'
  BY DEF OverdueSafe, OneInside, IsInside, CartOf
<1>4. ASSUME NEW v \in Workers, CartOf(v)' \in Carts \ overlapped PROVE RequestSafe(v)'
  BY <1>1, <1>4, RequestUntouched DEF CartOf
<1>5. ASSUME NEW d \in Carts \ overlapped PROVE CartSafe(d)'
  <2>1. CASE Workers = {}
    <3>1. CartSafe(d)
      BY DEF OverdueSafe
    <3>2. Untouched(d) /\ psession[d] \in PaymentSessions
      BY <1>1 DEF OverdueSafe, OverdueTyped, OverdueData
    <3>3. ordered' = ordered /\ exposed' = exposed /\ psession' = psession /\ marker' = marker
          /\ ledger' = ledger /\ total' = total /\ due' = due
      BY DEF NothingDone
    <3>4. SessionSafe(d)'
      BY <3>1, <3>3 DEF CartSafe, SessionSafe, SessionPaid, Paid, Exposed, Grows
    <3>5. \A a \in Authorizations : ExposureOK(d, a)'
      BY <2>1, <3>1, <3>3 DEF CartSafe, ExposureOK, Kept, HeldByMarker, Exposed
    <3>6. OneExposure(d)' /\ PaidOrMaking(d)'
      BY <2>1, <3>1, <3>3 DEF CartSafe, OneExposure, PaidOrMaking, InTheMaking, Paid, Exposed, Grows
    <3> QED BY <3>4, <3>5, <3>6 DEF CartSafe
  <2>2. CASE Workers # {}
    <3>1. PICK w \in Workers : TRUE
      BY <2>2
    <3>2. Untouched(d) /\ Elsewhere(w)
      BY <1>1 DEF Elsewhere
    <3> QED BY <3>2, CartUntouched DEF CartOf
  <2> QED BY <2>1, <2>2
<1> QED BY <1>2, <1>3, <1>4, <1>5 DEF OverdueSafe

LEMMA EnvironmentKeeps ==
    ASSUME OverdueSafe,
           \/ \E a \in Authorizations : MoneyMoves(a) /\ UNCHANGED overdueVars
           \/ \E c \in Carts : ExpireLock(c) \/ AgeMarker(c)
           \/ UNCHANGED allVars
    PROVE  OverdueSafe'
<1>1. /\ UNCHANGED <<pc, req>> /\ NothingDone /\ overlapped' = overlapped
      /\ orphaned' = orphaned /\ charged \subseteq charged'
  BY DEF MoneyMoves, ExpireLock, AgeMarker, NothingDone, overdueVars, allVars, vars, sessionVars,
         cartVars, gatewayVars
<1>2. Grows
  BY <1>1 DEF Grows, NothingDone
<1> QED BY <1>1, <1>2, StillStep

\* A request that arrives has no attempt behind it.
LEMMA ArrivalKeeps ==
    ASSUME OverdueSafe, NEW w \in Workers, NEW c \in Carts,
           \/ RequestNative(w, c)
           \/ \E k \in Credentials : ValidatePrerequisites(w, c, k) /\ UNCHANGED overdueVars
           \/ \E op \in {"update", "cancel"} : RequestChange(w, c, op) /\ UNCHANGED overdueVars
    PROVE  OverdueSafe'
<1>1. PICK o \in {"complete", "update", "cancel", "native"}, k \in Credentials \cup {None},
              l \in {"shipping", "wait"} :
         /\ o = "complete" => k \in Credentials
         /\ l = "shipping" => o = "complete"
         /\ pc[w] = "idle"
         /\ pc' = [pc EXCEPT ![w] = l]
         /\ req' = [req EXCEPT ![w] = Request(o, c, k)]
         /\ NothingDone /\ UNCHANGED <<charged, overdueVars>>
  BY DEF RequestNative, ValidatePrerequisites, RequestChange, Goto, NothingDone, sessionVars,
         cartVars, gatewayVars
<1>2. /\ Request(o, c, k) \in OverdueRequests /\ OverdueFits(l, Request(o, c, k))
      /\ ~Request(o, c, k).made /\ l \in Labels
  BY <1>1 DEF Request, NoRequest, OverdueRequests, OverdueFits, Admitted, Attempting, Paying, Labels
<1>3. OverdueControl' /\ pc'[w] = l /\ ~req'[w].made /\ Elsewhere(w)
  BY <1>1, <1>2, Moves DEF OverdueSafe, OverdueTyped
<1>4. Grows /\ overlapped' = overlapped
  BY <1>1 DEF Grows, NothingDone, overdueVars
<1>5. l \in Away /\ pc[w] \notin Paying \cup {"undo"}
  BY <1>1 DEF Away, Paying
<1> QED BY <1>1, <1>3, <1>4, <1>5, AwayStep

LEMMA LockKeeps ==
    ASSUME OverdueSafe, overlapped = {}, NEW w \in Workers, UNCHANGED overdueVars,
           \/ AcquireLock(w) /\ ~IsNative(w)
           \/ NativeAcquire(w) \/ LockTimeout(w) \/ ReleaseLock(w)
    PROVE  OverdueSafe'
<1>1. OverdueControl /\ pc[w] \in {"wait", "unlock"}
  BY DEF AcquireLock, NativeAcquire, LockTimeout, ReleaseLock, OverdueSafe, OverdueTyped
<1>2. req[w] \in OverdueRequests /\ OverdueFits(pc[w], req[w])
  BY <1>1, WorkerFits
<1>3. OverdueControl' /\ Elsewhere(w) /\ pc'[w] \in Away
      /\ (pc'[w] \in Early => ~req'[w].made)
  <2> USE DEF Early
  <2>1. CASE AcquireLock(w) /\ ~IsNative(w)
    <3>1. PICK l \in {"guard", "mutable"} :
             Goto(w, l) /\ (l = "guard" <=> req[w].op = "complete") /\ UNCHANGED req
      BY <2>1 DEF AcquireLock
    <3>2. l \in Labels /\ OverdueFits(l, req[w]) /\ l \in Away
      BY <1>2, <2>1, <3>1 DEF AcquireLock, IsNative, Labels, Away, OverdueFits, OverdueRequests,
            Admitted, Attempting, Paying
    <3>3. OverdueControl' /\ Elsewhere(w) /\ pc'[w] = l
      BY <1>1, <3>1, <3>2, Goes
    <3>4. ~req[w].made
      <4>1. CartOf(w) \in Carts \ overlapped /\ pc[w] = "wait"
        BY <1>1, <2>1, WorkerFits DEF AcquireLock
      <4> QED BY <4>1 DEF OverdueSafe, RequestSafe, OrderOK
    <3> QED BY <3>1, <3>2, <3>3, <3>4
  <2>2. CASE NativeAcquire(w)
    <3>1. Goto(w, "validate") /\ UNCHANGED req /\ OverdueFits("validate", req[w])
      BY <1>2, <2>2 DEF NativeAcquire, OverdueFits, Admitted, Attempting, Paying
    <3>2. OverdueControl' /\ Elsewhere(w) /\ pc'[w] = "validate"
      BY <1>1, <3>1, Goes
    <3> QED BY <3>2 DEF Away
  <2>3. CASE Answer(w)
    <3>1. OverdueControl' /\ Elsewhere(w) /\ pc'[w] = "idle"
      BY <1>1, <2>3, Answers
    <3> QED BY <3>1 DEF Away
  <2>4. CASE Goto(w, req[w].next) /\ UNCHANGED req /\ req[w].next # "idle" /\ pc[w] = "unlock"
    <3>1. req[w].next = "fetch" /\ "fetch" \in Labels /\ OverdueFits("fetch", req[w])
      BY <1>2, <2>4 DEF OverdueRequests, Labels, OverdueFits, Admitted, Attempting, Paying
    <3>2. OverdueControl' /\ Elsewhere(w) /\ pc'[w] = "fetch"
      BY <1>1, <2>4, <3>1, Goes
    <3> QED BY <3>2 DEF Away
  <2> QED BY <2>1, <2>2, <2>3, <2>4 DEF LockTimeout, ReleaseLock
<1>4. NothingDone /\ UNCHANGED charged
  BY DEF AcquireLock, NativeAcquire, LockTimeout, ReleaseLock, NothingDone, sessionVars, cartVars,
         gatewayVars
<1>5. Grows /\ overlapped' = overlapped
  BY <1>4 DEF Grows, NothingDone, overdueVars
<1>6. pc[w] \notin Paying \cup {"undo"}
  BY <1>1 DEF Paying
<1> QED BY <1>3, <1>4, <1>5, <1>6, AwayStep

LEMMA QuoteKeeps ==
    ASSUME OverdueSafe, NEW w \in Workers, UNCHANGED overdueVars,
           FetchUpdatedCart(w) \/ PrepareCheckoutPayment(w)
    PROVE  OverdueSafe'
<1>1. OverdueControl /\ pc[w] \in {"fetch", "prepare"}
  BY DEF FetchUpdatedCart, PrepareCheckoutPayment, OverdueSafe, OverdueTyped
<1>2. req[w] \in OverdueRequests /\ OverdueFits(pc[w], req[w]) /\ CartOf(w) \in Carts
  BY <1>1, WorkerFits
<1>3. OverdueControl' /\ Elsewhere(w) /\ pc'[w] \in {"idle", "prepare"}
  <2>1. CASE Answer(w)
    BY <1>1, <2>1, Answers
  <2>2. CASE req' = [req EXCEPT ![w].snapshot = total[CartOf(w)]] /\ Goto(w, "prepare")
    <3> DEFINE r == [req[w] EXCEPT !.snapshot = total[CartOf(w)]]
    <3>1. r \in OverdueRequests /\ r.op = req[w].op /\ r.cart = req[w].cart /\ r.cred = req[w].cred
      BY <1>2 DEF OverdueRequests, OverdueSafe, OverdueTyped, OverdueData
    <3>2. pc' = [pc EXCEPT ![w] = "prepare"] /\ req' = [req EXCEPT ![w] = r]
      BY <2>2 DEF Goto
    <3> HIDE DEF r
    <3>3. "prepare" \in Labels /\ OverdueFits("prepare", r)
      BY <1>1, <1>2, <3>1 DEF Labels, OverdueFits, Admitted, Attempting, Paying
    <3> QED BY <1>1, <3>1, <3>2, <3>3, Moves
  <2> QED BY <2>1, <2>2 DEF FetchUpdatedCart, PrepareCheckoutPayment
<1>4. NothingDone /\ UNCHANGED charged
  BY DEF FetchUpdatedCart, PrepareCheckoutPayment, NothingDone, sessionVars, cartVars, gatewayVars
<1>5. Grows /\ overlapped' = overlapped
  BY <1>4 DEF Grows, NothingDone, overdueVars
<1>6. pc[w] \notin Paying \cup {"undo"} /\ pc'[w] \in Away /\ pc'[w] \notin Early
  BY <1>1, <1>3 DEF Paying, Away, Early
<1> QED BY <1>3, <1>4, <1>5, <1>6, AwayStep

\* The process of an attempt dies: an order it was making is known to be orphaned.
LEMMA DeathKeeps ==
    ASSUME OverdueSafe, NEW w \in Workers, Die(w)
    PROVE  OverdueSafe'
<1>1. OverdueControl' /\ pc'[w] = "idle" /\ Elsewhere(w)
  BY Answers DEF Die, Crash, OverdueSafe, OverdueTyped
<1>2. /\ NothingDone /\ charged' = charged /\ overlapped' = overlapped
      /\ orphaned \subseteq orphaned' /\ (req[w].made => CartOf(w) \in orphaned')
  BY DEF Die, Crash, NothingDone, sessionVars, cartVars, gatewayVars
<1>3. Grows
  BY <1>2 DEF Grows, NothingDone
<1> QED BY <1>1, <1>2, <1>3, AwayStep DEF Away, Early

\* A request is refused, or fails, and leaves everything as it was.
LEMMA GivesUp ==
    ASSUME OverdueSafe, NEW w \in Workers, pc[w] \notin Paying \cup {"idle", "undo"},
           NEW label \in {"idle", "fetch"}, LeaveTo(w, label),
           NothingDone, charged' = charged, overlapped' = overlapped, orphaned' = orphaned
    PROVE  OverdueSafe'
<1>1. OverdueControl' /\ pc'[w] = "unlock" /\ Elsewhere(w)
  BY Leaves DEF OverdueSafe, OverdueTyped
<1>2. Grows
  BY DEF Grows, NothingDone
<1> QED BY <1>1, <1>2, AwayStep DEF Away, Early
-----------------------------------------------------------------------------
(* Admission.                                                              *)

\* A request is admitted beside nobody, or its cart is known to be shared.
LEMMA Admits ==
    ASSUME OverdueSafe, overlapped = {}, NEW w \in Workers, NEW c \in Carts, c = CartOf(w),
           OverdueTyped', Elsewhere(w), CartOf(w)' = c, pc'[w] \in Inside,
           UNCHANGED <<marker, total, psession, ledger, exposed, charged, orphaned>>,
           \A d \in Carts \ {c} : ordered'[d] = ordered[d] /\ due'[d] = due[d],
           Overlap(w),
           Only(w, c) /\ SafeFor(w, c) => SafeFor(w, c)'
    PROVE  OverdueSafe'
<1>1. \A d \in Carts \ {c} : Untouched(d)
  BY DEF Untouched, Exposed
<1>2. Grows
  BY DEF Grows, Overlap
<1>3. c \notin overlapped' => Only(w, c)
  BY DEF Overlap, Only
<1>4. Only(w, c) => SafeFor(w, c)
  BY OnlyKnows
<1> QED BY <1>1, <1>2, <1>3, <1>4, CartStep

LEMMA GuardKeeps ==
    ASSUME OverdueSafe, overlapped = {}, NEW w \in Workers, UNCHANGED <<aged, orphaned>>,
           Overlap(w), GuardPendingSettlement(w)
    PROVE  OverdueSafe'
<1>1. /\ UNCHANGED <<marker, total, ordered, due, psession, ledger, exposed, charged>>
      /\ pc[w] = "guard" /\ OverdueControl
  BY DEF GuardPendingSettlement, sessionVars, cartVars, gatewayVars, OverdueSafe, OverdueTyped
<1>2. PICK c \in Carts : c = CartOf(w)
  BY <1>1, WorkerFits
<1>3. req[w] \in OverdueRequests /\ OverdueFits("guard", req[w]) /\ req[w].op = "complete"
  BY <1>1, WorkerFits DEF OverdueFits
<1>4. CASE LeaveTo(w, "idle")
  <2>1. pc'[w] = "unlock"
    BY <1>1, <1>4, Leaves
  <2>2. overlapped' = overlapped
    BY <1>1, <2>1 DEF Overlap, Inside
  <2> QED BY <1>1, <1>4, <2>2, GivesUp DEF NothingDone, Paying
<1>5. CASE /\ GuardVerdict(marker[c], req[w].cred) # "refused"
           /\ Goto(w, "reserve")
           /\ req' = [req EXCEPT ![w].resumed = (GuardVerdict(marker[c], req[w].cred) = "resumed")]
  <2>1. PICK b \in BOOLEAN : /\ b = (GuardVerdict(marker[c], req[w].cred) = "resumed")
                             /\ req' = [req EXCEPT ![w].resumed = b]
    BY Zenon, <1>5
  <2> DEFINE r == [req[w] EXCEPT !.resumed = b]
  <2>2. /\ r \in OverdueRequests /\ r.op = "complete" /\ r.cart = c /\ r.cred = req[w].cred
        /\ r.made = req[w].made /\ r.resumed = b
    BY <1>2, <1>3 DEF OverdueRequests, CartOf
  <2>3. pc' = [pc EXCEPT ![w] = "reserve"] /\ req' = [req EXCEPT ![w] = r]
    BY <1>5, <2>1 DEF Goto
  <2> HIDE DEF r
  <2>4. "reserve" \in Labels /\ OverdueFits("reserve", r)
    BY <1>3, <2>2 DEF OverdueFits, Admitted, Attempting, Paying, Labels
  <2>5. /\ OverdueControl' /\ pc'[w] = "reserve" /\ Elsewhere(w)
        /\ req'[w].cart = c /\ req'[w].cred = req[w].cred /\ req'[w].resumed = b
        /\ req'[w].made = req[w].made
    BY <1>1, <2>2, <2>3, <2>4, Moves
  <2>6. OverdueTyped'
    BY <1>1, <2>5 DEF OverdueSafe, OverdueTyped, OverdueData
  <2>7. ~req[w].made
    BY <1>1, <1>2 DEF OverdueSafe, RequestSafe, OrderOK
  <2>8. ASSUME SafeFor(w, c) PROVE SafeFor(w, c)'
    <3>1. b <=> GuardVerdict(marker[c], req[w].cred) = "resumed"
      BY <2>1, Zenon
    <3>2. marker[c].state \in {"none", "settling", "pending", "review"}
      BY DEF OverdueSafe, OverdueTyped, OverdueData, Markers
    <3>3. MarkerOK(w)'
      BY <1>1, <1>5, <2>5, <3>1, <3>2 DEF MarkerOK, CartOf, GuardVerdict, Admitted, Attempting, Paying
    <3>4. ~b => \A a \in Authorizations : Exposed(c, a) => ordered[c]
      BY <1>5, <2>8, <3>1 DEF GuardVerdict, SafeFor, HeldBy, HeldByMarker
    <3>5. FreshOK(w)'
      BY <1>1, <2>5, <3>4 DEF FreshOK, CartOf, Exposed
    <3>6. ReservedOK(w)' /\ OrderOK(w)' /\ SessionFits(w)' /\ CallBound(w)'
      BY <2>5, <2>7 DEF ReservedOK, OrderOK, SessionFits, CallBound, Attempting, Paying
    <3>7. SessionSafe(c)' /\ OneExposure(c)'
      BY <1>1, <2>8 DEF SafeFor, SessionSafe, SessionPaid, Paid, OneExposure, Exposed
    <3>8. PaidBy(w, c)'
      BY <1>1, <2>5, <2>7, <2>8 DEF SafeFor, PaidBy, Paid, Exposed
    <3>9. \A a \in Authorizations : HeldBy(w, c, a)'
      BY <1>1, <2>5, <2>7, <2>8 DEF SafeFor, HeldBy, HeldByMarker, Exposed
    <3> QED BY <3>3, <3>5, <3>6, <3>7, <3>8, <3>9 DEF SafeFor, RequestSafe
  <2> QED BY <1>1, <1>2, <2>5, <2>6, <2>8, Admits DEF Inside, CartOf
<1> QED BY <1>2, <1>4, <1>5 DEF GuardPendingSettlement

LEMMA MutableKeeps ==
    ASSUME OverdueSafe, overlapped = {}, NEW w \in Workers, UNCHANGED <<aged, orphaned>>,
           Overlap(w), AssertSessionMutable(w)
    PROVE  OverdueSafe'
<1>1. /\ UNCHANGED <<marker, total, ordered, due, psession, ledger, exposed, charged>>
      /\ pc[w] = "mutable" /\ OverdueControl
  BY DEF AssertSessionMutable, sessionVars, cartVars, gatewayVars, OverdueSafe, OverdueTyped
<1>2. PICK c \in Carts : c = CartOf(w)
  BY <1>1, WorkerFits
<1>3. req[w] \in OverdueRequests /\ req[w].op \in {"update", "cancel"}
      /\ OverdueFits("mutable", req[w])
  BY <1>1, WorkerFits DEF OverdueFits
<1>4. CASE LeaveTo(w, "idle")
  <2>1. pc'[w] = "unlock"
    BY <1>1, <1>4, Leaves
  <2>2. overlapped' = overlapped
    BY <1>1, <2>1 DEF Overlap, Inside
  <2> QED BY <1>1, <1>4, <2>2, GivesUp DEF NothingDone, Paying
<1>5. CASE /\ UcpStatus(canceled[c], ordered[c], marker[c]) \notin LockedStatuses
           /\ Goto(w, req[w].op) /\ UNCHANGED req
  <2>1. req[w].op \in Labels /\ OverdueFits(req[w].op, req[w])
    BY <1>3 DEF OverdueFits, Admitted, Attempting, Paying, Labels
  <2>2. OverdueControl' /\ pc'[w] \in {"update", "cancel"} /\ Elsewhere(w) /\ CartOf(w)' = c
    BY <1>1, <1>2, <1>3, <1>5, <2>1, Goes DEF CartOf
  <2>3. OverdueTyped'
    BY <1>1, <2>2 DEF OverdueSafe, OverdueTyped, OverdueData
  <2>4. marker[c].state = "none" /\ ~ordered[c]
    <3>1. marker[c].state \in {"none", "settling", "pending", "review"}
      BY DEF OverdueSafe, OverdueTyped, OverdueData, Markers
    <3> QED BY <1>5, <3>1 DEF UcpStatus, LockedStatuses
  <2>5. ASSUME SafeFor(w, c) PROVE SafeFor(w, c)'
    <3>1. MarkerOK(w)' /\ ReservedOK(w)' /\ OrderOK(w)'
      BY <1>1, <2>2, <2>4 DEF MarkerOK, ReservedOK, OrderOK, Attempting, Paying, Admitted
    <3>2. SessionFits(w)' /\ CallBound(w)' /\ FreshOK(w)'
      BY <2>2 DEF SessionFits, CallBound, FreshOK, Admitted
    <3>3. SessionSafe(c)' /\ OneExposure(c)'
      BY <1>1, <2>5 DEF SafeFor, SessionSafe, SessionPaid, Paid, OneExposure, Exposed
    <3>4. PaidBy(w, c)' /\ \A a \in Authorizations : HeldBy(w, c, a)'
      BY <1>1, <2>2, <2>4, <2>5
         DEF SafeFor, PaidBy, HeldBy, HeldByMarker, Exposed, Undoable, Paying
    <3> QED BY <3>1, <3>2, <3>3, <3>4 DEF SafeFor, RequestSafe
  <2> QED BY <1>1, <1>2, <2>2, <2>3, <2>5, Admits DEF Inside
<1> QED BY <1>2, <1>4, <1>5 DEF AssertSessionMutable

\* Medusa's own completion finds the payment session of the settling marker: it
\* makes the order of the attempt that left the marker.
LEMMA NativeKeeps ==
    ASSUME OverdueSafe, overlapped = {}, NEW w \in Workers, NativeComplete(w)
    PROVE  OverdueSafe'
<1>1. /\ UNCHANGED <<marker, total, psession, ledger, exposed, charged, orphaned>>
      /\ pc[w] = "validate" /\ OverdueControl /\ IsNative(w) /\ Overlap(w)
  BY DEF NativeComplete, sessionVars, gatewayVars, OverdueSafe, OverdueTyped
<1>2. PICK c \in Carts : c = CartOf(w)
  BY <1>1, WorkerFits
<1>3. req[w] \in OverdueRequests /\ OverdueFits("validate", req[w]) /\ req[w].op = "native"
  BY <1>1, WorkerFits DEF IsNative
<1>4. CASE LeaveTo(w, "idle") /\ UNCHANGED <<ordered, due>>
  <2>1. pc'[w] = "unlock"
    BY <1>1, <1>4, Leaves
  <2>2. overlapped' = overlapped
    BY <1>1, <2>1 DEF Overlap, Inside
  <2> QED BY <1>1, <1>4, <2>2, GivesUp DEF NothingDone, Paying
<1>5. CASE /\ NativeAllowed(c) /\ ~ordered[c]
           /\ psession[c].status \in {"pending", "authorized"}
           /\ MakeOrder(c)
           /\ req' = [req EXCEPT ![w].made = TRUE, ![w].cred = psession[c].cred]
           /\ Goto(w, "hook")
  <2>1. /\ SessionSafe(c) /\ psession[c] \in PaymentSessions
        /\ ordered \in [Carts -> BOOLEAN] /\ due \in [Carts -> Amounts \cup {None}]
        /\ total \in [Carts -> Amounts]
    BY DEF OverdueSafe, OverdueTyped, OverdueData, CartSafe
  <2>2. psession[c].cred \in Credentials /\ marker[c].state = "settling"
        /\ psession[c].cred = marker[c].cred
    BY <1>5, <2>1 DEF SessionSafe, PaymentSessions, NativeAllowed, IsFreshSettlingMarker
  <2> DEFINE r == [req[w] EXCEPT !.made = TRUE, !.cred = psession[c].cred]
  <2>3. /\ r \in OverdueRequests /\ r.op = "native" /\ r.cart = c /\ r.cred = psession[c].cred
        /\ r.made
    BY <1>2, <1>3, <2>2 DEF OverdueRequests, CartOf
  <2>4. pc' = [pc EXCEPT ![w] = "hook"] /\ req' = [req EXCEPT ![w] = r]
    BY <1>3, <1>5 DEF Goto, OverdueRequests
  <2> HIDE DEF r
  <2>5. "hook" \in Labels /\ OverdueFits("hook", r)
    BY <1>3, <2>2, <2>3 DEF OverdueFits, Admitted, Attempting, Paying, Labels
  <2>6. /\ OverdueControl' /\ pc'[w] = "hook" /\ Elsewhere(w)
        /\ req'[w].cart = c /\ req'[w].cred = psession[c].cred /\ req'[w].made /\ IsNative(w)'
    BY <1>1, <2>3, <2>4, <2>5, Moves DEF IsNative
  <2>7. /\ ordered' \in [Carts -> BOOLEAN] /\ ordered'[c]
        /\ due' \in [Carts -> Amounts \cup {None}] /\ due'[c] = total[c]
        /\ \A d \in Carts \ {c} : ordered'[d] = ordered[d] /\ due'[d] = due[d]
    BY <1>5, <2>1 DEF MakeOrder
  <2>8. OverdueTyped'
    BY <1>1, <2>6, <2>7 DEF OverdueSafe, OverdueTyped, OverdueData
  <2>9. ASSUME SafeFor(w, c) PROVE SafeFor(w, c)'
    <3>1. MarkerOK(w)' /\ OrderOK(w)'
      BY <1>1, <2>2, <2>6, <2>7 DEF MarkerOK, OrderOK, CartOf, Attempting, Paying, Admitted
    <3>2. ReservedOK(w)'
      BY <1>1, <2>1, <2>2, <2>6, ConstantsAssumption DEF ReservedOK, Auth, CartOf, SessionSafe
    <3>3. SessionFits(w)' /\ CallBound(w)'
      BY <1>1, <1>5, <2>1, <2>6 DEF SessionFits, Waiting, CallBound, CartOf, SessionSafe
    <3>4. SessionSafe(c)' /\ OneExposure(c)'
      BY <1>1, <2>9 DEF SafeFor, SessionSafe, SessionPaid, Paid, OneExposure, Exposed
    <3>5. PaidBy(w, c)'
      BY <1>1, <2>6, <2>7 DEF PaidBy, Paying
    <3>6. \A a \in Authorizations : HeldBy(w, c, a)'
      BY <1>1, <1>5, <2>9 DEF SafeFor, HeldBy, HeldByMarker, Exposed
    <3> QED BY <2>6, <3>1, <3>2, <3>3, <3>4, <3>5, <3>6 DEF SafeFor, RequestSafe
  <2> QED BY <1>1, <1>2, <2>6, <2>7, <2>8, <2>9, Admits DEF Inside, CartOf
<1> QED BY <1>2, <1>4, <1>5 DEF NativeComplete

LEMMA NativeEndKeeps ==
    ASSUME OverdueSafe, NEW w \in Workers, NativeEnds(w)
    PROVE  OverdueSafe'
<1>1. /\ NothingDone /\ UNCHANGED <<charged, overdueVars>> /\ LeaveTo(w, "idle")
      /\ pc[w] \in {"capture", "compensate"}
  BY DEF NativeEnds, NothingDone, sessionVars, cartVars, gatewayVars
<1> QED BY <1>1, GivesUp DEF overdueVars, Paying
-----------------------------------------------------------------------------
(* Update, cancel, and an agent's completion up to its marker.             *)

\* A step of a worker that is admitted, with nobody else, to its cart.
LEMMA InsideStep ==
    ASSUME OverdueSafe, overlapped = {}, NEW w \in Workers, pc[w] \in Inside,
           NEW c \in Carts, c = CartOf(w),
           OverdueTyped', Elsewhere(w), CartOf(w)' = c, UNCHANGED <<charged, overlapped, orphaned>>,
           \A a \in Authorizations : ledger[a] \in Carts => ledger'[a] = ledger[a],
           \A d \in Carts \ {c} : Untouched(d),
           SafeFor(w, c) => SafeFor(w, c)'
    PROVE  OverdueSafe'
<1>1. Grows
  BY DEF Grows
<1> QED BY <1>1, InsideKnows, CartStep

\* What becomes of the payment session when the total changes.
LEMMA TotalChanged ==
    ASSUME OverdueData, NEW c \in Carts, NEW amount \in Amounts, ChangeTotal(c, amount)
    PROVE  /\ total' \in [Carts -> Amounts] /\ psession' \in [Carts -> PaymentSessions]
           /\ \A d \in Carts \ {c} : total'[d] = total[d] /\ psession'[d] = psession[d]
           /\ \/ /\ total'[c] = total[c] /\ psession'[c] = psession[c]
                 /\ total' = total /\ psession' = psession
              \/ psession'[c] = NoSession /\ total'[c] # total[c]
<1>1. /\ total \in [Carts -> Amounts] /\ psession \in [Carts -> PaymentSessions]
      /\ NoSession \in PaymentSessions
  BY DEF OverdueData, NoSession, PaymentSessions, SettlementStates
<1> QED BY <1>1 DEF ChangeTotal

\* What a worker at "unlock" relies on.
LEMMA UnlockSafe ==
    ASSUME NEW w \in Workers, pc'[w] = "unlock"
    PROVE  RequestSafe(w)' /\ pc'[w] \notin Undoable \cup Paying \cup {"undo"}
<1>1. pc'[w] \in Away /\ pc'[w] \notin Early
  BY DEF Away, Early
<1> QED BY <1>1, RequestAway DEF Undoable, Paying

\* A completion looks for the shipping method of its cart.
LEMMA ShippingKeeps ==
    ASSUME OverdueSafe, overlapped = {}, NEW w \in Workers, UNCHANGED overdueVars,
           EnsureShippingMethod(w)
    PROVE  OverdueSafe'
<1>1. /\ NothingDone /\ UNCHANGED <<charged, overlapped, orphaned>> /\ pc[w] = "shipping"
      /\ OverdueControl
  BY DEF EnsureShippingMethod, NothingDone, sessionVars, cartVars, gatewayVars, overdueVars,
         OverdueSafe, OverdueTyped
<1>2. OverdueFits("shipping", req[w]) /\ ~req[w].made
  BY <1>1, WorkerFits DEF OverdueSafe, RequestSafe, OrderOK
<1>3. OverdueControl' /\ Elsewhere(w) /\ pc'[w] \in Away /\ (pc'[w] \in Early => ~req'[w].made)
  <2>1. ASSUME NEW l \in {"wait", "add"}, Goto(w, l), UNCHANGED req
        PROVE  OverdueControl' /\ Elsewhere(w) /\ pc'[w] = l /\ ~req'[w].made
    <3>1. l \in Labels /\ OverdueFits(l, req[w])
      BY <1>2 DEF Labels, OverdueFits, Admitted, Attempting, Paying
    <3> QED BY <1>1, <1>2, <2>1, <3>1, Goes
  <2>2. CASE Answer(w)
    BY <1>1, <2>2, Answers DEF Away, Early
  <2> QED BY <2>1, <2>2 DEF EnsureShippingMethod, Away
<1>4. Grows
  BY <1>1 DEF Grows, NothingDone
<1>5. pc[w] \notin Paying \cup {"undo"}
  BY <1>1 DEF Paying
<1> QED BY <1>1, <1>3, <1>4, <1>5, AwayStep

\* The shipping method it adds may change the total: the payment session for the
\* old one is gone, and an attempt the change falls under shares its cart.
LEMMA AddKeeps ==
    ASSUME OverdueSafe, overlapped = {}, NEW w \in Workers, AddMethod(w)
    PROVE  OverdueSafe'
<1>1. /\ UNCHANGED <<marker, ordered, due, ledger, exposed, charged, orphaned>>
      /\ pc[w] = "add" /\ OverdueControl /\ overlapped \subseteq overlapped'
  BY DEF AddMethod, AddShippingMethod, sessionVars, gatewayVars, OverdueSafe, OverdueTyped
<1>2. PICK c \in Carts : c = CartOf(w)
  BY <1>1, WorkerFits
<1>3. OverdueFits("add", req[w]) /\ ~req[w].made
  BY <1>1, <1>2, WorkerFits DEF OverdueSafe, RequestSafe, OrderOK
<1>4. pc[w] \notin Inside \cup Undoable \cup Paying \cup {"undo"}
  BY <1>1 DEF Inside, Undoable, Paying
<1>5. OverdueControl' /\ Elsewhere(w) /\ pc'[w] \in Away /\ (pc'[w] \in Early => ~req'[w].made)
  <2>1. CASE Goto(w, "wait") /\ UNCHANGED req
    <3>1. "wait" \in Labels /\ OverdueFits("wait", req[w])
      BY <1>3 DEF Labels, OverdueFits, Admitted, Attempting, Paying
    <3>2. OverdueControl' /\ Elsewhere(w) /\ pc'[w] = "wait" /\ req' = req
      BY <1>1, <2>1, <3>1, Goes
    <3> QED BY <1>3, <3>2 DEF Away
  <2>2. CASE Answer(w)
    BY <1>1, <2>2, Answers DEF Away, Early
  <2> QED BY <2>1, <2>2 DEF AddMethod, AddShippingMethod
<1>6. Grows
  BY <1>1 DEF Grows
<1>7. CASE UNCHANGED <<total, psession>>
  <2>1. NothingDone /\ overlapped' = overlapped
    BY <1>1, <1>7 DEF NothingDone, AddMethod
  <2> QED BY <1>1, <1>4, <1>5, <1>6, <2>1, AwayStep
<1>8. CASE ~UNCHANGED <<total, psession>>
  <2>1. PICK amount \in Amounts : ChangeTotal(c, amount) /\ Goto(w, "wait") /\ UNCHANGED req
    BY <1>2, <1>8 DEF AddMethod, AddShippingMethod
  <2>2. /\ total' \in [Carts -> Amounts] /\ psession' \in [Carts -> PaymentSessions]
        /\ \A d \in Carts \ {c} : total'[d] = total[d] /\ psession'[d] = psession[d]
        /\ psession'[c] = NoSession /\ total'[c] # total[c]
    BY <1>8, <2>1, TotalChanged DEF OverdueSafe, OverdueTyped
  <2>3. pc'[w] = "wait" /\ CartOf(w)' = c /\ ~req'[w].made
    BY <1>1, <1>2, <1>3, <2>1 DEF Goto, CartOf, OverdueControl
  <2>4. OverdueTyped'
    BY <1>1, <1>5, <2>2 DEF OverdueSafe, OverdueTyped, OverdueData
  <2>5. ASSUME c \notin overlapped' PROVE Only(w, c) /\ SafeFor(w, c)'
    <3>1. Only(w, c)
      BY <1>2, <2>2, <2>5 DEF AddMethod, Only
    <3>2. SafeFor(w, c)
      BY <1>2, <3>1, OnlyKnows
    <3>3. RequestSafe(w)'
      BY <2>3, RequestAway DEF Away
    <3>4. SessionSafe(c)'
      BY <2>2 DEF SessionSafe, SessionPaid, NoSession
    <3>5. OneExposure(c)' /\ PaidBy(w, c)'
      BY <1>1, <1>3, <3>2 DEF SafeFor, OneExposure, PaidBy, Paid, Exposed
    <3>6. \A a \in Authorizations : HeldBy(w, c, a)'
      BY <1>1, <2>3, <3>2 DEF SafeFor, HeldBy, HeldByMarker, Exposed
    <3> QED BY <3>1, <3>3, <3>4, <3>5, <3>6 DEF SafeFor
  <2>6. \A d \in Carts \ {c} : Untouched(d)
    BY <1>1, <2>2 DEF Untouched, Exposed
  <2> QED BY <1>2, <1>5, <1>6, <2>3, <2>4, <2>5, <2>6, CartStep
<1> QED BY <1>7, <1>8

LEMMA UpdateKeeps ==
    ASSUME OverdueSafe, overlapped = {}, NEW w \in Workers, UNCHANGED overdueVars,
           UpdateCart(w) \/ CancelSession(w)
    PROVE  OverdueSafe'
<1>1. /\ pc[w] \in {"update", "cancel"} /\ OverdueControl /\ pc[w] \in Inside
      /\ UNCHANGED <<marker, ordered, due, ledger, exposed, charged, overlapped, orphaned>>
  BY DEF UpdateCart, CancelSession, sessionVars, cartVars, gatewayVars, overdueVars, OverdueSafe,
         OverdueTyped, Inside
<1>2. PICK c \in Carts : c = CartOf(w) /\ SafeFor(w, c)
  BY <1>1, InsideKnows
<1>3. CASE LeaveTo(w, "idle") /\ UNCHANGED <<total, psession>>
  BY <1>1, <1>3, GivesUp DEF NothingDone, Paying
<1>4. ASSUME LeaveTo(w, "fetch"), NEW amount \in Amounts,
             ChangeTotal(c, amount)
      PROVE  OverdueSafe'
  <2>1. OverdueControl' /\ pc'[w] = "unlock" /\ Elsewhere(w) /\ CartOf(w)' = c
    BY <1>1, <1>2, <1>4, Leaves DEF CartOf
  <2>3. /\ total' \in [Carts -> Amounts] /\ psession' \in [Carts -> PaymentSessions]
        /\ \A d \in Carts \ {c} : total'[d] = total[d] /\ psession'[d] = psession[d]
        /\ (total'[c] = total[c] /\ psession'[c] = psession[c]) \/ psession'[c] = NoSession
    BY <1>4, TotalChanged DEF OverdueSafe, OverdueTyped
  <2>4. OverdueTyped'
    BY <1>1, <2>1, <2>3 DEF OverdueSafe, OverdueTyped, OverdueData
  <2>5. marker[c].state = "none" /\ ~ordered[c]
    BY <1>1, <1>2 DEF SafeFor, RequestSafe, MarkerOK, OrderOK
  <2>6. SessionSafe(c)'
    <3>1. CASE total'[c] = total[c] /\ psession'[c] = psession[c]
      BY <1>1, <1>2, <3>1 DEF SafeFor, SessionSafe, SessionPaid, Paid, Exposed
    <3>2. CASE psession'[c] = NoSession
      BY <3>2 DEF SessionSafe, SessionPaid, NoSession
    <3> QED BY <2>3, <3>1, <3>2
  <2>7. OneExposure(c)' /\ PaidBy(w, c)' /\ \A a \in Authorizations : HeldBy(w, c, a)'
    BY <1>1, <1>2, <2>5 DEF SafeFor, OneExposure, PaidBy, HeldBy, HeldByMarker, Exposed
  <2>8. SafeFor(w, c)'
    BY <2>1, <2>6, <2>7, UnlockSafe DEF SafeFor
  <2>9. \A d \in Carts \ {c} : Untouched(d)
    BY <1>1, <2>3 DEF Untouched, Exposed
  <2> QED BY <1>1, <1>2, <2>1, <2>4, <2>8, <2>9, InsideStep
<1>5. CASE UpdateCart(w)
  <2>1. CASE LeaveTo(w, "idle") /\ UNCHANGED <<total, psession>>
    BY <1>3, <2>1
  <2>2. CASE ~(LeaveTo(w, "idle") /\ UNCHANGED <<total, psession>>)
    <3>1. PICK amount \in Amounts : ChangeTotal(c, amount) /\ LeaveTo(w, "fetch")
      BY <1>2, <1>5, <2>2 DEF UpdateCart
    <3> QED BY <1>4, <3>1
  <2> QED BY <2>1, <2>2
<1> QED BY <1>3, <1>5 DEF CancelSession, cartVars

\* The ledger row is taken for good, also when the answer is lost.
LEMMA ReserveKeeps ==
    ASSUME OverdueSafe, overlapped = {}, NEW w \in Workers, UNCHANGED overdueVars,
           ReservePaymentAuthorization(w)
    PROVE  OverdueSafe'
<1>1. /\ UNCHANGED <<marker, total, ordered, due, psession, exposed, charged, overlapped, orphaned>>
      /\ pc[w] = "reserve" /\ pc[w] \in Inside /\ OverdueControl
  BY DEF ReservePaymentAuthorization, sessionVars, cartVars, gatewayVars, overdueVars, OverdueSafe,
         OverdueTyped, Inside
<1>2. PICK c \in Carts : c = CartOf(w) /\ SafeFor(w, c)
  BY <1>1, InsideKnows
<1>3. /\ OverdueFits("reserve", req[w]) /\ req[w].op = "complete" /\ req[w].cred \in Credentials
      /\ Auth(w) \in Authorizations
  BY <1>1, WorkerFits DEF OverdueFits, Admitted
<1>4. CASE LeaveTo(w, "idle") /\ UNCHANGED ledger
  BY <1>1, <1>4, GivesUp DEF NothingDone, Paying
<1>5. CASE /\ MayReserve(ledger[Auth(w)], c)
           /\ ledger' = [ledger EXCEPT ![Auth(w)] = c]
           /\ (Goto(w, "setup") /\ UNCHANGED req) \/ LeaveTo(w, "idle")
  <2>1. /\ ledger' \in [Authorizations -> Carts \cup {None}] /\ ledger'[Auth(w)] = c
        /\ \A a \in Authorizations : ledger[a] \in Carts => ledger'[a] = ledger[a]
    BY <1>3, <1>5, ConstantsAssumption DEF MayReserve, OverdueSafe, OverdueTyped, OverdueData
  <2>2. "setup" \in Labels /\ OverdueFits("setup", req[w])
    BY <1>3 DEF OverdueFits, Admitted, Attempting, Paying, Labels
  <2>3. /\ OverdueControl' /\ Elsewhere(w) /\ CartOf(w)' = c
        /\ (pc'[w] = "setup" /\ req' = req) \/ pc'[w] = "unlock"
    <3>1. CASE Goto(w, "setup") /\ UNCHANGED req
      BY <1>1, <1>2, <2>2, <3>1, Goes DEF CartOf
    <3>2. CASE LeaveTo(w, "idle")
      BY <1>1, <1>2, <3>2, Leaves DEF CartOf
    <3> QED BY <1>5, <3>1, <3>2
  <2>4. OverdueTyped'
    BY <1>1, <2>1, <2>3 DEF OverdueSafe, OverdueTyped, OverdueData
  <2>5. RequestSafe(w)'
    <3>1. CASE pc'[w] = "setup" /\ req' = req
      <4>1. ReservedOK(w)'
        BY <1>2, <2>1, <3>1 DEF ReservedOK, Auth, CartOf
      <4>2. MarkerOK(w)' /\ OrderOK(w)' /\ FreshOK(w)'
        BY <1>1, <1>2, <1>3, <3>1 DEF SafeFor, RequestSafe, MarkerOK, OrderOK, FreshOK, CartOf,
              Exposed, IsNative, Admitted, Attempting, Paying
      <4>3. SessionFits(w)' /\ CallBound(w)'
        BY <3>1 DEF SessionFits, CallBound
      <4> QED BY <4>1, <4>2, <4>3 DEF RequestSafe
    <3> QED BY <2>3, <3>1, UnlockSafe
  <2>6. psession[c].cred # None => psession[c].cred \in Credentials
    <3>1. psession[c] \in PaymentSessions
      BY DEF OverdueSafe, OverdueTyped, OverdueData
    <3> QED BY <3>1 DEF PaymentSessions
  <2>7. SessionSafe(c)'
    <3>1. psession[c].cred # None => ledger'[AuthOf[psession[c].cred]] = c
      BY <1>2, <2>1, <2>6, ConstantsAssumption DEF SafeFor, SessionSafe
    <3>2. SessionPaid(c)'
      BY <1>1, <1>2 DEF SafeFor, SessionSafe, SessionPaid, Paid, Exposed
    <3> QED BY <1>1, <1>2, <3>1, <3>2 DEF SafeFor, SessionSafe
  <2>8. /\ pc[w] \notin Undoable \cup Paying \cup {"undo"}
        /\ pc'[w] \notin Undoable \cup Paying \cup {"undo"}
    BY <1>1, <2>3 DEF Undoable, Paying
  <2>9. OneExposure(c)' /\ PaidBy(w, c)'
    BY <1>1, <1>2, <2>8 DEF SafeFor, OneExposure, PaidBy, Paid, Exposed
  <2>10. ASSUME NEW a \in Authorizations PROVE HeldBy(w, c, a)'
    BY <1>1, <1>2, <2>1, <2>8 DEF SafeFor, HeldBy, HeldByMarker, Exposed
  <2>11. SafeFor(w, c)'
    BY <2>5, <2>7, <2>9, <2>10 DEF SafeFor
  <2>12. \A d \in Carts \ {c} : Untouched(d)
    BY <1>1 DEF Untouched, Exposed
  <2> QED BY <1>1, <1>2, <2>1, <2>3, <2>4, <2>11, <2>12, InsideStep
<1> QED BY <1>2, <1>4, <1>5 DEF ReservePaymentAuthorization

\* The payment session the attempt will be authorized on: the settled one of the
\* same credential, or a new one for the total the cart has now.
LEMMA SetupKeeps ==
    ASSUME OverdueSafe, overlapped = {}, NEW w \in Workers, UNCHANGED overdueVars, SetupPayment(w)
    PROVE  OverdueSafe'
<1>1. /\ UNCHANGED <<marker, total, ordered, due, ledger, exposed, charged, overlapped, orphaned>>
      /\ pc[w] = "setup" /\ pc[w] \in Inside /\ OverdueControl
  BY DEF SetupPayment, sessionVars, gatewayVars, overdueVars, OverdueSafe, OverdueTyped, Inside
<1>2. PICK c \in Carts : c = CartOf(w) /\ SafeFor(w, c)
  BY <1>1, InsideKnows
<1>3. /\ OverdueFits("setup", req[w]) /\ req[w].op = "complete" /\ req[w].cred \in Credentials
      /\ req[w] \in OverdueRequests
  BY <1>1, WorkerFits DEF OverdueFits, Admitted
<1> DEFINE k       == req[w].cred
           settled == IsSettledWithSameCredential(psession[c], k)
           fresh   == [NoSession EXCEPT !.status = "pending", !.cred = k,
                                        !.amount = total[c], !.resume = req[w].resumed]
<1>4. CASE LeaveTo(w, "idle") /\ UNCHANGED psession
  BY <1>1, <1>4, GivesUp DEF NothingDone, Paying
<1>5. ASSUME NEW s \in PaymentSessions, psession' = [psession EXCEPT ![c] = s],
             \/ Goto(w, "begin") /\ UNCHANGED req
                /\ ((s = psession[c] /\ settled) \/ s = fresh)
             \/ LeaveTo(w, "idle") /\ s = NoSession
      PROVE  OverdueSafe'
  <2>1. "begin" \in Labels /\ OverdueFits("begin", req[w])
    BY <1>3 DEF OverdueFits, Admitted, Attempting, Paying, Labels
  <2>2. /\ OverdueControl' /\ Elsewhere(w) /\ CartOf(w)' = c
        /\ \/ pc'[w] = "begin" /\ req' = req /\ ((s = psession[c] /\ settled) \/ s = fresh)
           \/ pc'[w] = "unlock" /\ s = NoSession
    <3> HIDE DEF fresh, settled
    <3>1. CASE Goto(w, "begin") /\ UNCHANGED req /\ ((s = psession[c] /\ settled) \/ s = fresh)
      <4>1. OverdueControl' /\ pc'[w] = "begin" /\ Elsewhere(w)
        BY <1>1, <2>1, <3>1, Goes
      <4> QED BY <1>2, <3>1, <4>1 DEF CartOf
    <3>2. CASE LeaveTo(w, "idle") /\ s = NoSession
      <4>1. OverdueControl' /\ pc'[w] = "unlock" /\ Elsewhere(w) /\ CartOf(w)' = c
        BY <1>1, <1>2, <3>2, Leaves DEF CartOf
      <4> QED BY <3>2, <4>1
    <3> QED BY <1>5, <3>1, <3>2
  <2>3. /\ psession' \in [Carts -> PaymentSessions] /\ psession'[c] = s
        /\ \A d \in Carts \ {c} : psession'[d] = psession[d]
    BY <1>5 DEF OverdueSafe, OverdueTyped, OverdueData
  <2>4. OverdueTyped'
    BY <1>1, <2>2, <2>3 DEF OverdueSafe, OverdueTyped, OverdueData
  <2>5. /\ fresh.status = "pending" /\ fresh.outcome = "undefined" /\ fresh.tx = None
        /\ fresh.cred = k /\ fresh.amount = total[c] /\ fresh.resume = req[w].resumed
    BY DEF NoSession
  <2>6. k # None /\ ledger[AuthOf[k]] = c /\ (marker[c].state = "settling" => marker[c].cred = k)
    <3>1. k # None
      BY <1>3, ConstantsAssumption
    <3> QED BY <1>1, <1>2, <3>1
            DEF SafeFor, RequestSafe, ReservedOK, MarkerOK, Auth, CartOf, Admitted
  <2>7. settled => /\ psession[c].status = "authorized" /\ psession[c].cred = k
                   /\ psession[c].tx # None /\ psession[c].outcome = "settled"
    BY <1>2 DEF IsSettledWithSameCredential, SafeFor, SessionSafe
  <2> HIDE DEF fresh, settled, k
  <2>8. RequestSafe(w)'
    <3>1. CASE pc'[w] = "begin" /\ req' = req /\ ((s = psession[c] /\ settled) \/ s = fresh)
      <4>1. MarkerOK(w)' /\ OrderOK(w)' /\ FreshOK(w)' /\ ReservedOK(w)'
        BY <1>1, <1>2, <1>3, <3>1 DEF SafeFor, RequestSafe, MarkerOK, OrderOK, FreshOK, ReservedOK,
              Auth, CartOf, Exposed, IsNative, Admitted, Attempting, Paying
      <4>2. SessionFits(w)' /\ CallBound(w)'
        BY <1>2, <2>3, <2>5, <2>7, <3>1 DEF SessionFits, Waiting, CallBound, CartOf, k
      <4> QED BY <4>1, <4>2 DEF RequestSafe
    <3> QED BY <2>2, <3>1, UnlockSafe
  <2>9. SessionSafe(c)'
    <3>1. CASE s = psession[c]
      BY <1>1, <1>2, <2>3, <3>1 DEF SafeFor, SessionSafe, SessionPaid, Paid, Exposed
    <3>2. CASE s = fresh
      BY <1>1, <2>3, <2>5, <2>6, <3>2 DEF SessionSafe, SessionPaid
    <3>3. CASE s = NoSession
      BY <2>3, <3>3 DEF SessionSafe, SessionPaid, NoSession
    <3> QED BY <2>2, <3>1, <3>2, <3>3
  <2>10. /\ pc[w] \notin Undoable \cup Paying \cup {"undo"}
         /\ pc'[w] \notin Undoable \cup Paying \cup {"undo"}
    BY <1>1, <2>2 DEF Undoable, Paying
  <2>11. OneExposure(c)' /\ PaidBy(w, c)' /\ \A a \in Authorizations : HeldBy(w, c, a)'
    BY <1>1, <1>2, <2>10 DEF SafeFor, OneExposure, PaidBy, HeldBy, HeldByMarker, Paid, Exposed
  <2>12. SafeFor(w, c)'
    BY <2>8, <2>9, <2>11 DEF SafeFor
  <2>13. \A d \in Carts \ {c} : Untouched(d)
    BY <1>1, <2>3 DEF Untouched, Exposed
  <2> QED BY <1>1, <1>2, <2>2, <2>4, <2>12, <2>13, InsideStep
<1>6. psession \in [Carts -> PaymentSessions] /\ total[c] \in Amounts
  BY DEF OverdueSafe, OverdueTyped, OverdueData
<1>7. NoSession \in PaymentSessions /\ fresh \in PaymentSessions
  BY <1>3, <1>6 DEF NoSession, PaymentSessions, SettlementStates, OverdueRequests
<1>8. CASE /\ psession' = IF settled THEN psession ELSE [psession EXCEPT ![c] = fresh]
           /\ Goto(w, "begin") /\ UNCHANGED req
  <2>1. psession = [psession EXCEPT ![c] = psession[c]] /\ psession[c] \in PaymentSessions
    BY <1>6
  <2>2. CASE settled
    BY <1>5, <1>8, <2>1, <2>2
  <2>3. CASE ~settled
    BY <1>5, <1>7, <1>8, <2>3
  <2> QED BY <2>2, <2>3
<1>9. CASE psession' = [psession EXCEPT ![c] = NoSession] /\ LeaveTo(w, "idle")
  BY <1>5, <1>7, <1>9
<1> QED BY <1>2, <1>4, <1>8, <1>9 DEF SetupPayment

-----------------------------------------------------------------------------
(* The attempt: completeCartWorkflow and the provider.                     *)

\* The settling marker is for the credential of the payment session.
LEMMA BeginKeeps ==
    ASSUME OverdueSafe, overlapped = {}, NEW w \in Workers, BeginAttempt(w)
    PROVE  OverdueSafe'
<1>1. /\ UNCHANGED <<total, ordered, due, psession, ledger, exposed, charged, overlapped, orphaned>>
      /\ pc[w] = "begin" /\ pc[w] \in Inside /\ OverdueControl
  BY DEF BeginAttempt, BeginSettlementAttempt, cartVars, gatewayVars, OverdueSafe, OverdueTyped,
         Inside
<1>2. PICK c \in Carts : c = CartOf(w) /\ SafeFor(w, c)
  BY <1>1, InsideKnows
<1>3. /\ OverdueFits("begin", req[w]) /\ req[w].op = "complete" /\ req[w].cred \in Credentials
  BY <1>1, WorkerFits DEF OverdueFits, Admitted
<1>4. CASE LeaveTo(w, "idle") /\ UNCHANGED marker
  BY <1>1, <1>4, GivesUp DEF NothingDone, Paying
<1> DEFINE k == req[w].cred
           m == MergedPendingSettlement(marker[c],
                   [NoMarker EXCEPT !.state = "settling", !.cred = k])
<1>5. CASE SetMarker(c, m) /\ Goto(w, "complete") /\ UNCHANGED req
  <2>1. m \in Markers /\ m.state = "settling" /\ m.cred = k
    <3>1. marker[c] \in Markers
      BY DEF OverdueSafe, OverdueTyped, OverdueData
    <3> QED BY <1>3, <3>1, SettlingMarker
  <2> HIDE DEF m
  <2>2. /\ marker' \in [Carts -> Markers] /\ marker'[c] = m
        /\ \A d \in Carts \ {c} : marker'[d] = marker[d]
    BY <1>5, <2>1 DEF SetMarker, OverdueSafe, OverdueTyped, OverdueData
  <2>3. OverdueControl' /\ pc'[w] = "complete" /\ Elsewhere(w)
    <3>1. "complete" \in Labels /\ OverdueFits("complete", req[w])
      BY <1>3 DEF OverdueFits, Admitted, Attempting, Paying, Labels
    <3> QED BY <1>1, <1>5, <3>1, Goes
  <2>4. CartOf(w)' = c /\ req'[w] = req[w] /\ req' = req
    BY <1>2, <1>5 DEF CartOf
  <2>5. OverdueTyped'
    BY <1>1, <2>2, <2>3 DEF OverdueSafe, OverdueTyped, OverdueData
  <2>6. RequestSafe(w)'
    <3>1. MarkerOK(w)' /\ OrderOK(w)'
      BY <1>1, <1>2, <2>1, <2>2, <2>3, <2>4
         DEF SafeFor, RequestSafe, MarkerOK, OrderOK, CartOf, Attempting, Paying, Admitted
    <3>2. ReservedOK(w)' /\ FreshOK(w)'
      BY <1>1, <1>2, <1>3, <2>3, <2>4 DEF SafeFor, RequestSafe, ReservedOK, FreshOK, CartOf, Auth,
            IsNative, Exposed, Attempting, Paying, Admitted
    <3>3. SessionFits(w)' /\ CallBound(w)'
      BY <1>1, <1>2, <2>3, <2>4
         DEF SafeFor, RequestSafe, SessionFits, Waiting, IsNative, CallBound, CartOf
    <3> QED BY <3>1, <3>2, <3>3 DEF RequestSafe
  <2>7. SessionSafe(c)' /\ OneExposure(c)'
    <3>1. psession[c].cred = k
      BY <1>1, <1>2 DEF SafeFor, RequestSafe, SessionFits
    <3> QED BY <1>1, <1>2, <2>1, <2>2, <3>1
            DEF SafeFor, SessionSafe, SessionPaid, Paid, OneExposure, Exposed
  <2>8. PaidBy(w, c)'
    BY <1>1, <1>2, <2>3, <2>4 DEF SafeFor, PaidBy, Paid, Exposed, Paying
  <2>9. ASSUME NEW a \in Authorizations PROVE HeldBy(w, c, a)'
    <3>1. marker[c].state # "none" => marker[c].cred = k
      BY <1>1, <1>2 DEF SafeFor, RequestSafe, MarkerOK, Admitted
    <3>2. HeldByMarker(c, a) => HeldByMarker(c, a)'
      BY <2>1, <2>2, <3>1 DEF HeldByMarker
    <3> QED BY <1>1, <1>2, <2>3, <3>2 DEF SafeFor, HeldBy, Exposed, Undoable, Paying
  <2>10. \A d \in Carts \ {c} : Untouched(d)
    BY <1>1, <2>2 DEF Untouched, Exposed
  <2>11. SafeFor(w, c)'
    BY <2>6, <2>7, <2>8, <2>9 DEF SafeFor
  <2> QED BY <1>1, <1>2, <2>3, <2>4, <2>5, <2>10, <2>11, InsideStep
<1> QED BY <1>2, <1>4, <1>5 DEF BeginAttempt, BeginSettlementAttempt

LEMMA CompleteCartKeeps ==
    ASSUME OverdueSafe, overlapped = {}, NEW w \in Workers, UNCHANGED overdueVars,
           ~IsNative(w), CompleteCart(w)
    PROVE  OverdueSafe'
<1>1. /\ UNCHANGED <<marker, total, psession, ledger, exposed, charged, overlapped, orphaned>>
      /\ pc[w] = "complete" /\ pc[w] \in Inside /\ OverdueControl
  BY DEF CompleteCart, sessionVars, gatewayVars, overdueVars, OverdueSafe, OverdueTyped, Inside
<1>2. PICK c \in Carts : c = CartOf(w) /\ SafeFor(w, c)
  BY <1>1, InsideKnows
<1>3. /\ OverdueFits("complete", req[w]) /\ req[w].op = "complete" /\ req[w].cred \in Credentials
      /\ req[w] \in OverdueRequests /\ ~req[w].made
  <2>1. ~req[w].made
    BY <1>1, <1>2 DEF SafeFor, RequestSafe, OrderOK
  <2> QED BY <1>1, <2>1, WorkerFits DEF OverdueFits, Attempting
<1>4. \A l \in {"capture", "undo"} : l \in Labels /\ OverdueFits(l, req[w])
  BY <1>3 DEF OverdueFits, Admitted, Attempting, Paying, Labels
<1>5. /\ OverdueControl' /\ Elsewhere(w) /\ req'[w].op = "complete"
      /\ req'[w].cart = c /\ req'[w].cred = req[w].cred /\ req'[w].resumed = req[w].resumed
      /\ req'[w].made <=> pc'[w] = "hook"
      /\ \/ pc'[w] = "capture" /\ ordered[c] /\ ordered' = ordered /\ due' = due
         \/ pc'[w] = "hook" /\ ~ordered[c] /\ MakeOrder(c)
         \/ pc'[w] = "undo" /\ ordered' = ordered /\ due' = due
  <2>1. CASE Goto(w, "capture") /\ UNCHANGED <<req, ordered, due>> /\ ordered[c]
    BY <1>1, <1>2, <1>3, <1>4, <2>1, Goes DEF CartOf
  <2>2. CASE Goto(w, "undo") /\ UNCHANGED <<req, ordered, due>>
    BY <1>1, <1>2, <1>3, <1>4, <2>2, Goes DEF CartOf
  <2>3. CASE /\ Goto(w, "hook") /\ ~ordered[c] /\ MakeOrder(c)
             /\ req' = [req EXCEPT ![w].made = TRUE]
    <3> DEFINE r == [req[w] EXCEPT !.made = TRUE]
    <3>1. /\ r \in OverdueRequests /\ r.op = req[w].op /\ r.cart = req[w].cart
          /\ r.cred = req[w].cred /\ r.resumed = req[w].resumed /\ r.made
      BY <1>3 DEF OverdueRequests
    <3>2. pc' = [pc EXCEPT ![w] = "hook"] /\ req' = [req EXCEPT ![w] = r]
      BY <2>3 DEF Goto
    <3> HIDE DEF r
    <3>3. "hook" \in Labels /\ OverdueFits("hook", r)
      BY <1>3, <3>1 DEF OverdueFits, Admitted, Attempting, Paying, Labels
    <3>4. OverdueControl' /\ pc'[w] = "hook" /\ req'[w] = r /\ Elsewhere(w)
      BY <1>1, <3>1, <3>2, <3>3, Moves
    <3> QED BY <1>2, <1>3, <2>3, <3>1, <3>4 DEF CartOf
  <2> QED BY <1>2, <2>1, <2>2, <2>3 DEF CompleteCart
<1>6. /\ ordered' \in [Carts -> BOOLEAN] /\ due' \in [Carts -> Amounts \cup {None}]
      /\ \A d \in Carts \ {c} : ordered'[d] = ordered[d] /\ due'[d] = due[d]
      /\ pc'[w] \in {"capture", "hook"} => ordered'[c]
      /\ pc'[w] = "hook" => ~ordered[c] /\ due'[c] = total[c]
      /\ pc'[w] # "hook" => ordered'[c] = ordered[c] /\ due'[c] = due[c]
  BY <1>5 DEF MakeOrder, OverdueSafe, OverdueTyped, OverdueData
<1>7. OverdueTyped' /\ CartOf(w)' = c
  BY <1>1, <1>5, <1>6 DEF OverdueSafe, OverdueTyped, OverdueData, CartOf
<1>8. RequestSafe(w)'
  <2>1. MarkerOK(w)' /\ OrderOK(w)' /\ ReservedOK(w)'
    BY <1>1, <1>2, <1>5, <1>6 DEF SafeFor, RequestSafe, MarkerOK, OrderOK, ReservedOK, CartOf,
          Auth, Attempting, Paying, Admitted
  <2>2. SessionFits(w)' /\ CallBound(w)'
    BY <1>1, <1>2, <1>3, <1>5
       DEF SafeFor, RequestSafe, SessionFits, Waiting, IsNative, CallBound, CartOf
  <2>3. FreshOK(w)'
    BY <1>1, <1>2, <1>3, <1>5, <1>6
       DEF SafeFor, RequestSafe, IsNative, FreshOK, CartOf, Exposed, Admitted
  <2> QED BY <2>1, <2>2, <2>3 DEF RequestSafe
<1>9. SessionSafe(c)' /\ OneExposure(c)'
  BY <1>1, <1>2 DEF SafeFor, SessionSafe, SessionPaid, Paid, OneExposure, Exposed
<1>10. PaidBy(w, c)'
  BY <1>1, <1>2, <1>3, <1>5, <1>6 DEF SafeFor, PaidBy, Paid, Exposed, Paying
<1>11. ASSUME NEW a \in Authorizations PROVE HeldBy(w, c, a)'
  BY <1>1, <1>2, <1>5, <1>6 DEF SafeFor, HeldBy, HeldByMarker, Exposed
<1>12. SafeFor(w, c)'
  BY <1>8, <1>9, <1>10, <1>11 DEF SafeFor
<1>13. \A d \in Carts \ {c} : Untouched(d)
  BY <1>1, <1>6 DEF Untouched, Exposed
<1> QED BY <1>1, <1>2, <1>5, <1>7, <1>12, <1>13, InsideStep

\* An attempt, of an agent or of Medusa, goes on with its request as it is.
LEMMA AttemptGoes ==
    ASSUME OverdueControl, NEW w \in Workers, pc[w] \in Attempting,
           NEW l \in Paying \cup {"capture", "undo", "compensate"}, Goto(w, l), UNCHANGED req
    PROVE  OverdueControl' /\ pc'[w] = l /\ Elsewhere(w) /\ CartOf(w)' = CartOf(w)
<1>1. pc[w] # "idle"
  BY DEF Attempting, Paying
<1>2. OverdueFits(pc[w], req[w])
  BY <1>1, WorkerFits
<1>3. l \in Labels /\ OverdueFits(l, req[w])
  BY <1>2 DEF OverdueFits, Admitted, Attempting, Paying, Labels
<1> QED BY <1>3, Goes DEF CartOf

LEMMA HookKeeps ==
    ASSUME OverdueSafe, overlapped = {}, NEW w \in Workers, UNCHANGED overdueVars,
           MarkProviderCalled(w)
    PROVE  OverdueSafe'
<1>1. /\ UNCHANGED <<req, total, ordered, due, psession, ledger, exposed, charged>>
      /\ UNCHANGED <<overlapped, orphaned>>
      /\ pc[w] = "hook" /\ pc[w] \in Inside /\ pc[w] \in Attempting /\ OverdueControl
  BY DEF MarkProviderCalled, cartVars, gatewayVars, overdueVars, OverdueSafe, OverdueTyped, Inside,
         Attempting, Paying
<1>2. PICK c \in Carts : c = CartOf(w) /\ SafeFor(w, c)
  BY <1>1, InsideKnows
<1>3. /\ OverdueControl' /\ pc'[w] \in {"authorize", "undo"} /\ Elsewhere(w) /\ CartOf(w)' = c
  BY <1>1, <1>2, AttemptGoes DEF MarkProviderCalled, Paying
<1>4. marker[c].state = "settling" /\ marker[c] \in Markers
  BY <1>1, <1>2 DEF SafeFor, RequestSafe, MarkerOK, OverdueSafe, OverdueTyped, OverdueData
<1>5. /\ marker' \in [Carts -> Markers] /\ \A d \in Carts \ {c} : marker'[d] = marker[d]
      /\ marker'[c].state = marker[c].state /\ marker'[c].cred = marker[c].cred
      /\ pc'[w] = "authorize" => marker'[c].called
  <2> DEFINE m == [marker[c] EXCEPT !.called = TRUE]
  <2>1. m \in Markers /\ m.state = marker[c].state /\ m.cred = marker[c].cred /\ m.called
    BY <1>4 DEF Markers
  <2>2. CASE marker' = [marker EXCEPT ![c] = m]
    <3> HIDE DEF m
    <3> QED BY <2>1, <2>2 DEF OverdueSafe, OverdueTyped, OverdueData
  <2>3. CASE marker' = marker /\ Goto(w, "undo")
    <3>1. pc'[w] = "undo"
      BY <1>1, <2>3 DEF Goto, OverdueControl
    <3> QED BY <2>3, <3>1 DEF OverdueSafe, OverdueTyped, OverdueData
  <2> QED BY <1>2, <1>4, <2>2, <2>3 DEF MarkProviderCalled, SetMarker
<1>6. OverdueTyped'
  BY <1>1, <1>3, <1>5 DEF OverdueSafe, OverdueTyped, OverdueData
<1>7. RequestSafe(w)'
  <2>1. MarkerOK(w)' /\ OrderOK(w)'
    BY <1>1, <1>2, <1>3, <1>5
       DEF SafeFor, RequestSafe, MarkerOK, OrderOK, CartOf, Attempting, Paying, Admitted
  <2>2. ReservedOK(w)' /\ (~IsNative(w)' => FreshOK(w)')
    BY <1>1, <1>2, <1>3 DEF SafeFor, RequestSafe, ReservedOK, FreshOK, Clearable, CartOf, Auth,
          IsNative, Exposed, Attempting, Paying, Admitted
  <2>3. SessionFits(w)' /\ CallBound(w)'
    BY <1>1, <1>2, <1>3 DEF SafeFor, RequestSafe, SessionFits, Waiting, IsNative, CallBound, CartOf
  <2> QED BY <2>1, <2>2, <2>3 DEF RequestSafe
<1>8. SessionSafe(c)' /\ OneExposure(c)'
  BY <1>1, <1>2, <1>5 DEF SafeFor, SessionSafe, SessionPaid, Paid, OneExposure, Exposed
<1>9. PaidBy(w, c)'
  BY <1>1, <1>2, <1>3 DEF SafeFor, PaidBy, Paid, Exposed, Paying
<1>10. ASSUME NEW a \in Authorizations PROVE HeldBy(w, c, a)'
  BY <1>1, <1>2, <1>3, <1>5 DEF SafeFor, HeldBy, HeldByMarker, Exposed, Undoable, Paying
<1>11. SafeFor(w, c)'
  BY <1>7, <1>8, <1>9, <1>10 DEF SafeFor
<1>12. \A d \in Carts \ {c} : Untouched(d)
  BY <1>1, <1>5 DEF Untouched, Exposed
<1> QED BY <1>1, <1>2, <1>3, <1>6, <1>11, <1>12, InsideStep

\* What a saved, or lost, answer of the provider does to the payment session.
LEMMA AnswerSaved ==
    ASSUME NEW w \in Workers, NEW c \in Carts, c = CartOf(w),
           psession \in [Carts -> PaymentSessions],
           NEW outcome \in SettlementStates, NEW tx \in Authorizations \cup {None},
           SaveAnswer(w, outcome, tx)
    PROVE  /\ psession' \in [Carts -> PaymentSessions]
           /\ \A d \in Carts \ {c} : psession'[d] = psession[d]
           /\ \/ /\ Goto(w, IF outcome = "settled" THEN "capture" ELSE "undo")
                 /\ psession'[c].outcome = outcome /\ psession'[c].tx = tx
                 /\ psession'[c].cred = psession[c].cred
                 /\ psession'[c].amount = psession[c].amount
                 /\ psession'[c].status = IF outcome = "settled" THEN "authorized" ELSE "error"
              \/ Goto(w, "undo") /\ psession' = psession
<1> DEFINE s == [psession[c] EXCEPT !.outcome = outcome, !.tx = tx,
                    !.status = IF outcome = "settled" THEN "authorized" ELSE "error"]
<1>1. psession[c] \in PaymentSessions
  OBVIOUS
<1>2. /\ s \in PaymentSessions /\ s.outcome = outcome /\ s.tx = tx /\ s.cred = psession[c].cred
      /\ s.amount = psession[c].amount
      /\ s.status = IF outcome = "settled" THEN "authorized" ELSE "error"
  BY <1>1 DEF PaymentSessions
<1>3. CASE /\ psession' = [psession EXCEPT ![c].outcome = outcome, ![c].tx = tx,
                ![c].status = IF outcome = "settled" THEN "authorized" ELSE "error"]
           /\ Goto(w, IF outcome = "settled" THEN "capture" ELSE "undo")
  <2>1. psession' = [psession EXCEPT ![c] = s]
    BY <1>1, <1>3 DEF PaymentSessions
  <2> HIDE DEF s
  <2>2. /\ psession' \in [Carts -> PaymentSessions] /\ psession'[c] = s
        /\ \A d \in Carts \ {c} : psession'[d] = psession[d]
    BY <1>2, <2>1
  <2> QED BY <1>2, <1>3, <2>2
<1>4. CASE Goto(w, "undo") /\ UNCHANGED psession
  BY <1>4
<1> QED BY <1>3, <1>4 DEF SaveAnswer

\* A settled answer is for a payment that was made; a refusal takes an exposure
\* back only when the money cannot move, and what a first attempt may forget is
\* not exposed any more.
LEMMA AnswerKeeps ==
    ASSUME OverdueSafe, overlapped = {}, NEW w \in Workers, UNCHANGED overdueVars,
           pc[w] \in {"authorize", "settling"},
           NEW outcome \in SettlementStates, NEW tx \in Authorizations \cup {None},
           SaveAnswer(w, outcome, tx),
           UNCHANGED <<req, marker, total, ordered, due, ledger, charged>>,
           \/ exposed' = exposed
           \/ exposed' = exposed \ {<<CartOf(w), Auth(w)>>} /\ Auth(w) \notin charged,
           outcome = "settled" => tx # None /\ Paid(CartOf(w), req[w].cred, total[CartOf(w)])',
           outcome = "declined" /\ ~req[w].resumed /\ ~IsNative(w) =>
              \A a \in Authorizations : ~Exposed(CartOf(w), a)'
    PROVE  OverdueSafe'
<1>1. /\ pc[w] \in Inside /\ pc[w] \in Attempting /\ pc[w] \in Paying /\ OverdueControl
      /\ UNCHANGED <<overlapped, orphaned>> /\ psession \in [Carts -> PaymentSessions]
  BY DEF OverdueSafe, OverdueTyped, OverdueData, Inside, Attempting, Paying, overdueVars
<1>2. PICK c \in Carts : c = CartOf(w) /\ SafeFor(w, c)
  BY <1>1, InsideKnows
<1>3. /\ psession' \in [Carts -> PaymentSessions]
      /\ \A d \in Carts \ {c} : psession'[d] = psession[d]
      /\ \/ /\ Goto(w, IF outcome = "settled" THEN "capture" ELSE "undo")
            /\ psession'[c].outcome = outcome /\ psession'[c].tx = tx
            /\ psession'[c].cred = psession[c].cred
            /\ psession'[c].amount = psession[c].amount
            /\ psession'[c].status = IF outcome = "settled" THEN "authorized" ELSE "error"
         \/ Goto(w, "undo") /\ psession' = psession
  BY <1>1, <1>2, AnswerSaved
<1>4. /\ OverdueControl' /\ Elsewhere(w) /\ CartOf(w)' = c
      /\ \/ pc'[w] = "capture" /\ outcome = "settled" /\ psession'[c].outcome = "settled"
         \/ pc'[w] = "undo" /\ (psession'[c].outcome = outcome \/ psession' = psession)
  <2>1. CASE Goto(w, "capture") /\ outcome = "settled" /\ psession'[c].outcome = outcome
    BY <1>1, <1>2, <2>1, AttemptGoes
  <2>2. CASE Goto(w, "undo") /\ (psession'[c].outcome = outcome \/ psession' = psession)
    BY <1>1, <1>2, <2>2, AttemptGoes
  <2> QED BY <1>3, <2>1, <2>2
<1>5. OverdueTyped'
  BY <1>1, <1>3, <1>4 DEF OverdueSafe, OverdueTyped, OverdueData
<1>6. /\ psession[c].cred = req[w].cred /\ psession'[c].cred = req[w].cred
      /\ psession[c].outcome \in {"undefined", "settled"} /\ marker[c].called
      /\ ordered[c] /\ req[w].made
  BY <1>1, <1>2, <1>3 DEF SafeFor, RequestSafe, SessionFits, Waiting, MarkerOK, OrderOK
<1>7. RequestSafe(w)'
  <2>1. MarkerOK(w)' /\ OrderOK(w)' /\ ReservedOK(w)'
    BY <1>1, <1>2, <1>4, <1>6 DEF SafeFor, RequestSafe, MarkerOK, OrderOK, ReservedOK, CartOf,
          Auth, Attempting, Paying, Admitted
  <2>2. SessionFits(w)' /\ CallBound(w)'
    BY <1>2, <1>4, <1>6 DEF SessionFits, CallBound, CartOf
  <2>3. ~IsNative(w) => FreshOK(w)'
    <3>1. Clearable(w)' => outcome = "declined"
      BY <1>2, <1>4, <1>6 DEF Clearable, CartOf, SettlementStates
    <3> QED BY <1>2, <1>4, <3>1 DEF FreshOK, CartOf, Admitted
  <2>4. IsNative(w)' <=> IsNative(w)
    BY DEF IsNative
  <2> QED BY <2>1, <2>2, <2>3, <2>4 DEF RequestSafe
<1>8. \A a \in Authorizations : Exposed(c, a)' => Exposed(c, a)
  BY DEF Exposed
<1>9. Paid(c, req[w].cred, total[c]) => Paid(c, req[w].cred, total[c])'
  BY <1>2 DEF Paid, Exposed, Auth
<1>10. SessionSafe(c)'
  <2>1. CASE psession'[c] = psession[c]
    BY <1>2, <1>6, <1>9, <2>1 DEF SafeFor, SessionSafe, SessionPaid, Paid
  <2>2. CASE /\ psession'[c].outcome = outcome /\ psession'[c].tx = tx
             /\ psession'[c].cred = psession[c].cred
             /\ psession'[c].amount = psession[c].amount
             /\ psession'[c].status = IF outcome = "settled" THEN "authorized" ELSE "error"
    <3>1. req[w].cred \in Credentials /\ req[w].cred # None
      <4>1. pc[w] # "idle"
        BY <1>1 DEF Paying
      <4>2. req[w].cred \in Credentials
        BY <1>1, <4>1, WorkerFits
      <4> QED BY <4>2, ConstantsAssumption
    <3>2. SessionPaid(c)'
      BY <1>2, <1>4, <1>6, <2>2, <3>1 DEF SafeFor, SessionSafe, SessionPaid
    <3>3. /\ psession'[c].status # "pending" /\ (psession'[c].status = "authorized" => outcome = "settled")
          /\ psession'[c].cred = psession[c].cred
      BY <2>2
    <3>4. /\ psession[c].cred # None => ledger[AuthOf[psession[c].cred]] = c
          /\ psession[c].cred # None /\ marker[c].state = "settling" =>
                psession[c].cred = marker[c].cred
      BY <1>2 DEF SafeFor, SessionSafe
    <3> QED BY <1>6, <2>2, <3>1, <3>2, <3>3, <3>4 DEF SessionSafe
  <2> QED BY <1>3, <2>1, <2>2
<1>11. OneExposure(c)'
  BY <1>2, <1>8 DEF SafeFor, OneExposure
<1>12. PaidBy(w, c)'
  <2>1. CASE \E k \in Credentials : Paid(c, k, due[c])
    BY <1>2, <2>1 DEF PaidBy, Paid, Exposed
  <2>2. CASE due[c] = total[c] /\ pc'[w] = "undo"
    BY <1>6, <2>2 DEF PaidBy
  <2>3. CASE due[c] = total[c] /\ outcome = "settled"
    <3>1. req[w].cred \in Credentials
      <4>1. pc[w] # "idle"
        BY <1>1 DEF Paying
      <4> QED BY <1>1, <4>1, WorkerFits
    <3>2. Paid(c, req[w].cred, due[c])'
      BY <1>2, <2>3 DEF Paid, CartOf
    <3> QED BY <3>1, <3>2 DEF PaidBy
  <2>4. CASE c \in orphaned
    BY <1>1, <2>4 DEF PaidBy
  <2> QED BY <1>2, <1>4, <1>6, <2>1, <2>2, <2>3, <2>4 DEF SafeFor, PaidBy
<1>13. ASSUME NEW a \in Authorizations PROVE HeldBy(w, c, a)'
  BY <1>1, <1>2, <1>4, <1>8 DEF SafeFor, HeldBy, HeldByMarker, Undoable
<1>14. SafeFor(w, c)'
  BY <1>7, <1>10, <1>11, <1>12, <1>13 DEF SafeFor
<1>15. \A d \in Carts \ {c} : Untouched(d)
  BY <1>2, <1>3 DEF Untouched, Exposed
<1> QED BY <1>1, <1>2, <1>4, <1>5, <1>14, <1>15, InsideStep

\* A settled session is paid already; a payment that is declined before the
\* gateway was asked is, for a first attempt, the only one.
LEMMA AuthorizeKeeps ==
    ASSUME OverdueSafe, overlapped = {}, NEW w \in Workers, UNCHANGED overdueVars,
           AuthorizeSettledSession(w) \/ DeclineLocally(w)
    PROVE  OverdueSafe'
<1>1. /\ UNCHANGED <<req, marker, total, ordered, due, ledger, exposed, charged>>
      /\ pc[w] = "authorize" /\ pc[w] \in Inside
  BY DEF AuthorizeSettledSession, DeclineLocally, sessionVars, gatewayVars, Inside
<1>2. PICK c \in Carts : c = CartOf(w) /\ SafeFor(w, c)
  BY <1>1, InsideKnows
<1>3. psession[c].tx \in Authorizations \cup {None}
  <2>1. psession[c] \in PaymentSessions
    BY DEF OverdueSafe, OverdueTyped, OverdueData
  <2> QED BY <2>1 DEF PaymentSessions
<1>4. PICK outcome \in SettlementStates, tx \in Authorizations \cup {None} :
         SaveAnswer(w, outcome, tx) /\ (outcome = "settled" => tx # None /\ psession[c].tx # None)
  BY <1>2, <1>3 DEF AuthorizeSettledSession, DeclineLocally, SettlementStates
<1>5. outcome = "settled" => Paid(c, req[w].cred, total[c])
  <2>1. SUFFICES ASSUME psession[c].tx # None PROVE Paid(c, req[w].cred, total[c])
    BY <1>4
  <2>2. psession[c].outcome = "settled" /\ psession[c].cred = req[w].cred
    BY <1>1, <1>2, <2>1 DEF SafeFor, RequestSafe, SessionFits, Waiting
  <2> QED BY <1>2, <2>2 DEF SafeFor, SessionSafe, SessionPaid
<1>6. outcome = "settled" => Paid(CartOf(w), req[w].cred, total[CartOf(w)])'
  BY <1>1, <1>2, <1>5 DEF Paid, Exposed, CartOf
<1>7. ~req[w].resumed /\ ~IsNative(w) => \A a \in Authorizations : ~Exposed(CartOf(w), a)'
  BY <1>1, <1>2 DEF SafeFor, RequestSafe, FreshOK, Exposed, CartOf
<1> QED BY <1>1, <1>4, <1>6, <1>7, AnswerKeeps

\* The gateway reports success for money it has moved; its refusal of a first
\* call is final, and takes the only exposure of the cart back.
LEMMA ReplyKeeps ==
    ASSUME OverdueSafe, overlapped = {}, NEW w \in Workers, UNCHANGED overdueVars, SettleReply(w)
    PROVE  OverdueSafe'
<1>1. /\ UNCHANGED <<req, marker, total, ordered, due, ledger, charged>>
      /\ pc[w] = "settling" /\ pc[w] \in Inside /\ pc[w] \in Attempting /\ pc[w] # "idle"
  BY DEF SettleReply, sessionVars, Inside, Attempting, Paying
<1>2. PICK c \in Carts : c = CartOf(w) /\ SafeFor(w, c)
  BY <1>1, InsideKnows
<1>3. /\ Auth(w) \in Authorizations /\ psession[c].resume \in BOOLEAN
      /\ ~IsNative(w) => psession[c].resume = req[w].resumed
  <2>1. psession[c] \in PaymentSessions
    BY DEF OverdueSafe, OverdueTyped, OverdueData
  <2>2. Auth(w) \in Authorizations
    BY <1>1, WorkerFits DEF OverdueSafe, OverdueTyped
  <2>3. ~IsNative(w) => psession[c].resume = req[w].resumed
    BY <1>1, <1>2 DEF SafeFor, RequestSafe, SessionFits, Waiting
  <2> QED BY <2>1, <2>2, <2>3 DEF PaymentSessions
<1>4. PICK reply \in Replies, tx \in {None, Auth(w)} :
         /\ PossibleReply(w, reply)
         /\ \/ /\ ClassifySettleReply(reply, psession[c].resume) = "settled" => tx # None
               /\ SaveAnswer(w, ClassifySettleReply(reply, psession[c].resume), tx)
            \/ SaveAnswer(w, "review", tx)
         /\ exposed' = IF reply \in Refusals /\ req[w].first
                       THEN exposed \ {<<c, Auth(w)>>} ELSE exposed
  BY <1>2 DEF SettleReply
<1>5. PICK outcome \in SettlementStates :
         /\ SaveAnswer(w, outcome, tx)
         /\ outcome = "declined" => reply \in Refusals /\ ~psession[c].resume
         /\ outcome = "settled" => reply = "success_tx" /\ tx # None
  <2>1. ClassifySettleReply(reply, psession[c].resume) = "settled" => reply = "success_tx"
    BY DEF ClassifySettleReply, Replies
  <2> QED BY <1>3, <1>4, <2>1, Classified DEF SettlementStates
<1>6. \/ exposed' = exposed
      \/ exposed' = exposed \ {<<CartOf(w), Auth(w)>>} /\ Auth(w) \notin charged
  BY <1>2, <1>4 DEF PossibleReply
<1>7. CallBound(w)
  BY <1>2 DEF SafeFor, RequestSafe
<1>8. outcome = "settled" => Paid(CartOf(w), req[w].cred, total[CartOf(w)])'
  <2>1. SUFFICES ASSUME reply = "success_tx" PROVE Paid(CartOf(w), req[w].cred, total[CartOf(w)])'
    BY <1>5
  <2>2. Auth(w) \in charged /\ exposed' = exposed
    BY <1>4, <2>1 DEF PossibleReply, Refusals
  <2> QED BY <1>1, <1>7, <2>2 DEF CallBound, Paid, Exposed, CartOf, Auth
<1>9. ASSUME outcome = "declined", ~req[w].resumed, ~IsNative(w), NEW a \in Authorizations
      PROVE  ~Exposed(CartOf(w), a)'
  <2>1. req[w].first
    BY <1>1, <1>2, <1>9 DEF SafeFor, RequestSafe, FreshOK
  <2>2. exposed' = exposed \ {<<c, Auth(w)>>}
    BY <1>4, <1>5, <1>9, <2>1
  <2>3. Exposed(c, a) => a = Auth(w)
    BY <1>1, <1>2, <1>3, <1>7 DEF SafeFor, OneExposure, CallBound
  <2> QED BY <1>1, <1>2, <2>2, <2>3 DEF Exposed, CartOf
<1>10. tx \in Authorizations \cup {None}
  BY <1>3, <1>4
<1>11. \A a \in Authorizations :
          outcome = "declined" /\ ~req[w].resumed /\ ~IsNative(w) => ~Exposed(CartOf(w), a)'
  BY <1>9
<1> QED BY <1>1, <1>5, <1>6, <1>8, <1>10, <1>11, AnswerKeeps

\* The settle call puts the authorization of the settling marker at stake, which
\* is the one that may be exposed already.
LEMMA CallKeeps ==
    ASSUME OverdueSafe, overlapped = {}, NEW w \in Workers, UNCHANGED overdueVars, CallSettle(w)
    PROVE  OverdueSafe'
<1>1. /\ UNCHANGED <<marker, total, ordered, due, psession, ledger, charged, overlapped, orphaned>>
      /\ pc[w] = "authorize" /\ pc[w] \in Inside /\ pc[w] \in Attempting /\ pc[w] # "idle"
      /\ OverdueControl
  BY DEF CallSettle, sessionVars, cartVars, overdueVars, OverdueSafe, OverdueTyped, Inside,
         Attempting, Paying
<1>2. PICK c \in Carts : c = CartOf(w) /\ SafeFor(w, c)
  BY <1>1, InsideKnows
<1>3. /\ req[w] \in OverdueRequests /\ OverdueFits("authorize", req[w])
      /\ req[w].cred \in Credentials /\ Auth(w) \in Authorizations
  BY <1>1, WorkerFits
<1> DEFINE first == \A d \in Carts : <<d, Auth(w)>> \notin exposed
<1>4. PICK b \in BOOLEAN : b = first /\ req' = [req EXCEPT ![w].first = b]
  BY Zenon DEF CallSettle
<1>5. /\ OverdueControl' /\ pc'[w] = "settling" /\ Elsewhere(w)
      /\ req'[w].cart = c /\ req'[w].op = req[w].op /\ req'[w].cred = req[w].cred
      /\ req'[w].resumed = req[w].resumed /\ req'[w].made = req[w].made /\ req'[w].first = b
  <2> DEFINE r == [req[w] EXCEPT !.first = b]
  <2>1. /\ r \in OverdueRequests /\ r.op = req[w].op /\ r.cart = req[w].cart
        /\ r.cred = req[w].cred /\ r.resumed = req[w].resumed /\ r.made = req[w].made
        /\ r.first = b
    BY <1>3 DEF OverdueRequests
  <2>2. pc' = [pc EXCEPT ![w] = "settling"] /\ req' = [req EXCEPT ![w] = r]
    BY <1>4 DEF CallSettle, Goto
  <2> HIDE DEF r
  <2>3. "settling" \in Labels /\ OverdueFits("settling", r)
    BY <1>3, <2>1 DEF OverdueFits, Admitted, Attempting, Paying, Labels
  <2>4. OverdueControl' /\ pc'[w] = "settling" /\ req'[w] = r /\ Elsewhere(w)
    BY <1>1, <2>1, <2>2, <2>3, Moves
  <2> QED BY <1>2, <2>1, <2>4 DEF CartOf
<1>6. OverdueTyped' /\ CartOf(w)' = c /\ Auth(w)' = Auth(w)
  BY <1>1, <1>5 DEF OverdueSafe, OverdueTyped, OverdueData, CartOf, Auth
<1>7. exposed' = exposed \cup {<<c, Auth(w)>>} /\ psession[c].tx = None
      /\ BindsToQuote(psession[c].cred, psession[c].amount)
  BY <1>2 DEF CallSettle
<1>8. /\ psession[c].cred = req[w].cred /\ req[w].cred # None /\ Waiting(psession[c], w)
      /\ psession[c].amount = total[c] /\ AmountOf[req[w].cred] = total[c]
  <2>1. psession[c].cred = req[w].cred /\ Waiting(psession[c], w)
    BY <1>1, <1>2, <1>7 DEF SafeFor, RequestSafe, SessionFits
  <2>2. req[w].cred # None
    BY <1>3, ConstantsAssumption
  <2> QED BY <1>2, <1>7, <2>1, <2>2 DEF SafeFor, SessionSafe, SessionPaid, BindsToQuote
<1>9. ASSUME NEW a \in Authorizations, Exposed(c, a) PROVE a = Auth(w)
  <2>1. req[w].made /\ marker[c].cred = req[w].cred
    BY <1>1, <1>2 DEF SafeFor, RequestSafe, OrderOK, MarkerOK, Paying
  <2> QED BY <1>1, <1>2, <1>9, <2>1 DEF SafeFor, HeldBy, HeldByMarker, Undoable, Paying, Auth
<1>10. ASSUME ~IsNative(w), ~req[w].resumed PROVE b
  <2>1. ASSUME NEW d \in Carts, <<d, Auth(w)>> \in exposed PROVE FALSE
    <3>1. ledger[Auth(w)] = d
      BY <1>3, <2>1 DEF OverdueSafe, CartSafe, ExposureOK, Exposed
    <3>2. ledger[Auth(w)] = c
      BY <1>1, <1>2 DEF SafeFor, RequestSafe, ReservedOK
    <3>3. <<c, Auth(w)>> \notin exposed
      BY <1>1, <1>2, <1>3, <1>10 DEF SafeFor, RequestSafe, FreshOK, Exposed
    <3> QED BY <2>1, <3>1, <3>2, <3>3
  <2>2. first
    BY <2>1
  <2> QED BY <1>4, <2>2, Zenon
<1> HIDE DEF first
<1>11. RequestSafe(w)'
  <2>1. MarkerOK(w)' /\ OrderOK(w)' /\ ReservedOK(w)'
    BY <1>1, <1>2, <1>5, <1>6 DEF SafeFor, RequestSafe, MarkerOK, OrderOK, ReservedOK, Attempting,
          Paying, Admitted
  <2>2. SessionFits(w)'
    BY <1>1, <1>5, <1>6, <1>8 DEF SessionFits, Waiting, IsNative
  <2>3. CallBound(w)'
    BY <1>1, <1>5, <1>6, <1>7, <1>8 DEF CallBound, Exposed
  <2>4. ~IsNative(w)' => FreshOK(w)'
    BY <1>5, <1>10 DEF FreshOK, IsNative, Admitted
  <2> QED BY <2>1, <2>2, <2>3, <2>4 DEF RequestSafe
<1>12. SessionSafe(c)' /\ PaidBy(w, c)'
  <2>1. SessionSafe(c)'
    BY <1>1, <1>2, <1>7 DEF SafeFor, SessionSafe, SessionPaid, Paid, Exposed
  <2>2. PaidBy(w, c)'
    BY <1>1, <1>2, <1>5, <1>7 DEF SafeFor, PaidBy, Paid, Exposed, Paying
  <2> QED BY <2>1, <2>2
<1>13. ASSUME NEW a \in Authorizations, Exposed(c, a)' PROVE a = Auth(w)
  BY <1>7, <1>9, <1>13 DEF Exposed
<1>14. OneExposure(c)'
  BY <1>13 DEF OneExposure
<1>15. ASSUME NEW a \in Authorizations PROVE HeldBy(w, c, a)'
  <2>1. marker[c].state = "settling" /\ marker[c].cred = req[w].cred /\ ledger[Auth(w)] = c
    BY <1>1, <1>2 DEF SafeFor, RequestSafe, MarkerOK, ReservedOK
  <2> QED BY <1>1, <1>13, <2>1 DEF HeldBy, HeldByMarker, Auth
<1>16. SafeFor(w, c)'
  BY <1>11, <1>12, <1>14, <1>15 DEF SafeFor
<1>17. \A d \in Carts \ {c} : Untouched(d)
  BY <1>1, <1>7 DEF Untouched, Exposed
<1> QED BY <1>1, <1>2, <1>5, <1>6, <1>16, <1>17, InsideStep

-----------------------------------------------------------------------------
(* The end of an attempt.                                                  *)

\* Capture fails for an order that is paid: its payment session is settled, and
\* compensation cannot clear the marker of the order the attempt takes back.
LEMMA CaptureKeeps ==
    ASSUME OverdueSafe, overlapped = {}, NEW w \in Workers, UNCHANGED overdueVars,
           ~IsNative(w), CapturePayment(w)
    PROVE  OverdueSafe'
<1>1. /\ UNCHANGED <<req, marker, total, ordered, due, psession, ledger, exposed, charged>>
      /\ UNCHANGED <<overlapped, orphaned>>
      /\ pc[w] = "capture" /\ pc[w] \in Inside /\ pc[w] \in Attempting /\ pc[w] # "idle"
      /\ OverdueControl
  BY DEF CapturePayment, sessionVars, cartVars, gatewayVars, overdueVars, OverdueSafe,
         OverdueTyped, Inside, Attempting, Paying
<1>2. PICK c \in Carts : c = CartOf(w) /\ SafeFor(w, c)
  BY <1>1, InsideKnows
<1>3. req[w].op = "complete" /\ req[w].cred \in Credentials
  <2>1. OverdueFits("capture", req[w])
    BY <1>1, WorkerFits
  <2> QED BY <2>1 DEF OverdueFits, Attempting, IsNative
<1>4. OverdueControl' /\ pc'[w] \in {"clear", "undo"} /\ Elsewhere(w) /\ CartOf(w)' = c
  <2>1. \A l \in {"clear", "undo"} : l \in Labels /\ OverdueFits(l, req[w])
    <3>1. OverdueFits("capture", req[w])
      BY <1>1, WorkerFits
    <3> QED BY <1>3, <3>1 DEF OverdueFits, Admitted, Attempting, Paying, Labels
  <2> QED BY <1>1, <1>2, <2>1, Goes DEF CapturePayment, CartOf
<1>5. OverdueTyped'
  BY <1>1, <1>4 DEF OverdueSafe, OverdueTyped, OverdueData
<1>6. RequestSafe(w)'
  <2>1. MarkerOK(w)' /\ OrderOK(w)' /\ ReservedOK(w)'
    BY <1>1, <1>2, <1>4 DEF SafeFor, RequestSafe, MarkerOK, OrderOK, ReservedOK, CartOf, Auth,
          Attempting, Paying, Admitted
  <2>2. SessionFits(w)' /\ CallBound(w)'
    BY <1>4 DEF SessionFits, CallBound
  <2>3. FreshOK(w)'
    <3>1. ordered[c] /\ (Clearable(w)' => ~req[w].made)
      BY <1>1, <1>2 DEF SafeFor, RequestSafe, OrderOK, SessionFits, Clearable, CartOf
    <3> QED BY <1>1, <1>2, <1>4, <3>1 DEF FreshOK, CartOf, Exposed, Admitted
  <2> QED BY <2>1, <2>2, <2>3 DEF RequestSafe
<1>7. SessionSafe(c)' /\ OneExposure(c)' /\ PaidBy(w, c)'
  BY <1>1, <1>2, <1>4
     DEF SafeFor, SessionSafe, SessionPaid, Paid, OneExposure, PaidBy, Exposed, Paying
<1>8. ASSUME NEW a \in Authorizations PROVE HeldBy(w, c, a)'
  BY <1>1, <1>2, <1>4 DEF SafeFor, HeldBy, HeldByMarker, Exposed, Undoable, Paying
<1>9. SafeFor(w, c)'
  BY <1>6, <1>7, <1>8 DEF SafeFor
<1>10. \A d \in Carts \ {c} : Untouched(d)
  BY <1>1 DEF Untouched, Exposed
<1> QED BY <1>1, <1>2, <1>4, <1>5, <1>9, <1>10, InsideStep

LEMMA UndoKeeps ==
    ASSUME OverdueSafe, overlapped = {}, NEW w \in Workers, UNCHANGED overdueVars,
           UndoCompleteCart(w)
    PROVE  OverdueSafe'
<1>1. /\ UNCHANGED <<req, marker, total, psession, ledger, exposed, charged>>
      /\ UNCHANGED <<overlapped, orphaned>>
      /\ pc[w] = "undo" /\ pc[w] \in Inside /\ pc[w] \in Attempting /\ OverdueControl
  BY DEF UndoCompleteCart, sessionVars, gatewayVars, overdueVars, OverdueSafe, OverdueTyped,
         Inside, Attempting
<1>2. PICK c \in Carts : c = CartOf(w) /\ SafeFor(w, c)
  BY <1>1, InsideKnows
<1>3. OverdueControl' /\ pc'[w] = "compensate" /\ Elsewhere(w) /\ CartOf(w)' = c
  BY <1>1, <1>2, AttemptGoes DEF UndoCompleteCart
<1>4. /\ ordered' \in [Carts -> BOOLEAN] /\ due' \in [Carts -> Amounts \cup {None}]
      /\ \A d \in Carts \ {c} : ordered'[d] = ordered[d] /\ due'[d] = due[d]
      /\ ordered'[c] <=> ordered[c] /\ ~req[w].made
      /\ ~req[w].made => due'[c] = due[c]
  <2>1. PICK b \in BOOLEAN :
           b = (ordered[c] /\ ~req[w].made) /\ ordered' = [ordered EXCEPT ![c] = b]
    BY <1>2, Zenon DEF UndoCompleteCart
  <2>2. b <=> ordered[c] /\ ~req[w].made
    BY <2>1, Zenon
  <2>3. due' = [due EXCEPT ![c] = IF req[w].made THEN None ELSE due[c]]
    BY <1>2 DEF UndoCompleteCart
  <2> QED BY <2>1, <2>2, <2>3 DEF OverdueSafe, OverdueTyped, OverdueData
<1>5. OverdueTyped'
  BY <1>1, <1>3, <1>4 DEF OverdueSafe, OverdueTyped, OverdueData
<1>6. RequestSafe(w)'
  <2>1. MarkerOK(w)' /\ OrderOK(w)' /\ ReservedOK(w)'
    BY <1>1, <1>2, <1>3 DEF SafeFor, RequestSafe, MarkerOK, OrderOK, ReservedOK, CartOf, Auth,
          Attempting, Paying, Admitted
  <2>2. SessionFits(w)' /\ CallBound(w)'
    BY <1>3 DEF SessionFits, CallBound
  <2>3. ~IsNative(w)' => FreshOK(w)'
    <3>1. (Clearable(w)' <=> Clearable(w)) /\ (IsNative(w)' <=> IsNative(w))
      BY <1>1 DEF Clearable, CartOf, IsNative
    <3> QED BY <1>1, <1>2, <1>3, <1>4, <3>1
            DEF SafeFor, RequestSafe, FreshOK, CartOf, Exposed, Admitted
  <2> QED BY <2>1, <2>2, <2>3 DEF RequestSafe
<1>7. SessionSafe(c)' /\ OneExposure(c)'
  BY <1>1, <1>2 DEF SafeFor, SessionSafe, SessionPaid, Paid, OneExposure, Exposed
<1>8. PaidBy(w, c)'
  BY <1>1, <1>2, <1>4 DEF SafeFor, PaidBy, Paid, Exposed
<1>9. ASSUME NEW a \in Authorizations PROVE HeldBy(w, c, a)'
  BY <1>1, <1>2, <1>3, <1>4 DEF SafeFor, HeldBy, HeldByMarker, Exposed, Undoable, Paying
<1>10. SafeFor(w, c)'
  BY <1>6, <1>7, <1>8, <1>9 DEF SafeFor
<1>11. \A d \in Carts \ {c} : Untouched(d)
  BY <1>1, <1>4 DEF Untouched, Exposed
<1> QED BY <1>1, <1>2, <1>3, <1>5, <1>10, <1>11, InsideStep

\* A worker ends its attempt with a new marker, which is not settling, or none.
LEMMA LastMarker ==
    ASSUME OverdueSafe, overlapped = {}, NEW w \in Workers, pc[w] \in {"clear", "compensate"},
           LeaveTo(w, "idle"), NEW c \in Carts, c = CartOf(w), SafeFor(w, c),
           UNCHANGED <<total, ordered, due, psession, ledger, exposed, charged>>,
           UNCHANGED <<overlapped, orphaned>>,
           marker' \in [Carts -> Markers], \A d \in Carts \ {c} : marker'[d] = marker[d],
           marker'[c] = marker[c] \/ marker'[c].state # "settling",
           \A a \in Authorizations : Exposed(c, a) => ordered[c] \/ HeldByMarker(c, a)'
    PROVE  OverdueSafe'
<1>1. pc[w] \in Inside /\ pc[w] # "idle" /\ OverdueControl
  BY DEF Inside, OverdueSafe, OverdueTyped
<1>2. OverdueControl' /\ pc'[w] = "unlock" /\ Elsewhere(w) /\ req'[w].cart = c
  BY <1>1, Leaves
<1>3. OverdueTyped' /\ CartOf(w)' = c
  BY <1>2 DEF OverdueSafe, OverdueTyped, OverdueData, CartOf
<1>4. RequestSafe(w)' /\ pc'[w] \notin Undoable \cup Paying \cup {"undo"}
  BY <1>2, UnlockSafe
<1>5. SessionSafe(c)' /\ OneExposure(c)'
  BY DEF SafeFor, SessionSafe, SessionPaid, Paid, OneExposure, Exposed
<1>6. PaidBy(w, c)'
  <2>1. pc[w] \notin Paying \cup {"undo"}
    BY DEF Paying
  <2> QED BY <2>1 DEF SafeFor, PaidBy, Paid, Exposed
<1>7. ASSUME NEW a \in Authorizations PROVE HeldBy(w, c, a)'
  BY <1>4 DEF SafeFor, HeldBy, Exposed
<1>8. SafeFor(w, c)'
  BY <1>4, <1>5, <1>6, <1>7 DEF SafeFor
<1>9. \A d \in Carts \ {c} : Untouched(d)
  BY DEF Untouched, Exposed
<1> QED BY <1>1, <1>2, <1>3, <1>8, <1>9, InsideStep

LEMMA ClearKeeps ==
    ASSUME OverdueSafe, overlapped = {}, NEW w \in Workers, UNCHANGED overdueVars,
           ClearSettlementAttempt(w)
    PROVE  OverdueSafe'
<1>1. /\ UNCHANGED <<total, ordered, due, psession, ledger, exposed, charged, overlapped, orphaned>>
      /\ pc[w] = "clear" /\ pc[w] \in Inside /\ LeaveTo(w, "idle")
  BY DEF ClearSettlementAttempt, cartVars, gatewayVars, overdueVars, Inside
<1>2. PICK c \in Carts : c = CartOf(w) /\ SafeFor(w, c)
  BY <1>1, InsideKnows
<1>3. /\ marker' \in [Carts -> Markers] /\ \A d \in Carts \ {c} : marker'[d] = marker[d]
      /\ marker'[c] = marker[c] \/ marker'[c].state # "settling"
  <2>1. NoMarker \in Markers /\ NoMarker.state # "settling"
    BY DEF NoMarker, Markers
  <2>2. marker \in [Carts -> Markers] /\ (marker' = marker \/ marker' = [marker EXCEPT ![c] = NoMarker])
    BY <1>2 DEF ClearSettlementAttempt, SetMarker, OverdueSafe, OverdueTyped, OverdueData
  <2> QED BY <2>1, <2>2
<1>4. ordered[c]
  BY <1>1, <1>2 DEF SafeFor, RequestSafe, OrderOK
<1> QED BY <1>1, <1>2, <1>3, <1>4, LastMarker

\* A failed attempt clears its marker only when nothing of its cart is exposed
\* that its order does not hold.
LEMMA CompensateKeeps ==
    ASSUME OverdueSafe, overlapped = {}, NEW w \in Workers, UNCHANGED overdueVars,
           ~IsNative(w), CompensateSettlementAttempt(w)
    PROVE  OverdueSafe'
<1>1. /\ UNCHANGED <<total, ordered, due, psession, ledger, exposed, charged, overlapped, orphaned>>
      /\ pc[w] = "compensate" /\ pc[w] \in Inside /\ pc[w] \in Attempting /\ pc[w] # "idle"
      /\ LeaveTo(w, "idle")
  BY DEF CompensateSettlementAttempt, cartVars, gatewayVars, overdueVars, Inside, Attempting
<1>2. PICK c \in Carts : c = CartOf(w) /\ SafeFor(w, c)
  BY <1>1, InsideKnows
<1>3. /\ req[w].cred \in Credentials /\ marker \in [Carts -> Markers]
      /\ psession[c] \in PaymentSessions /\ NoSession \in PaymentSessions /\ NoSession.cred = None
  BY <1>1, WorkerFits
     DEF OverdueSafe, OverdueTyped, OverdueData, NoSession, PaymentSessions, SettlementStates
<1>4. \/ marker' = [marker EXCEPT ![c] = MarkerAfterFailure(w, psession[c])]
      \/ marker' = [marker EXCEPT ![c] = MarkerAfterFailure(w, NoSession)]
      \/ marker' = marker
  BY <1>2 DEF CompensateSettlementAttempt, SetMarker
<1>5. /\ marker' \in [Carts -> Markers] /\ \A d \in Carts \ {c} : marker'[d] = marker[d]
      /\ \/ marker'[c].state \in {"pending", "review"} /\ marker'[c].cred = req[w].cred
         \/ marker'[c].state = "none" /\ ~req[w].resumed /\ Clearable(w)
         \/ marker'[c] = marker[c]
  <2>1. ASSUME NEW n \in Markers, marker' = [marker EXCEPT ![c] = n]
        PROVE  /\ marker' \in [Carts -> Markers] /\ marker'[c] = n
               /\ \A d \in Carts \ {c} : marker'[d] = marker[d]
    BY <1>3, <2>1
  <2>2. NoMarker.state = "none"
    BY DEF NoMarker
  <2>3. CASE marker' = [marker EXCEPT ![c] = MarkerAfterFailure(w, psession[c])]
    BY <1>2, <1>3, <2>1, <2>2, <2>3, FailureMarker DEF Clearable
  <2>4. CASE marker' = [marker EXCEPT ![c] = MarkerAfterFailure(w, NoSession)]
    BY <1>2, <1>3, <2>1, <2>2, <2>4, FailureMarker, ConstantsAssumption
  <2> QED BY <1>3, <1>4, <2>3, <2>4
<1>6. ASSUME NEW a \in Authorizations, Exposed(c, a)
      PROVE  ordered[c] \/ HeldByMarker(c, a)'
  <2>1. ordered[c] \/ HeldByMarker(c, a)
    BY <1>2, <1>6 DEF SafeFor, HeldBy
  <2>2. marker[c].cred = req[w].cred
    BY <1>1, <1>2 DEF SafeFor, RequestSafe, MarkerOK
  <2>3. ~req[w].resumed /\ Clearable(w) => ordered[c]
    BY <1>1, <1>2, <1>6 DEF SafeFor, RequestSafe, FreshOK
  <2> QED BY <1>5, <2>1, <2>2, <2>3 DEF HeldByMarker
<1>7. marker'[c] = marker[c] \/ marker'[c].state # "settling"
  BY <1>5
<1> QED BY <1>1, <1>2, <1>5, <1>6, <1>7, LastMarker

-----------------------------------------------------------------------------
(* The theorems.                                                           *)

LEMMA InitOverdue == OverdueInit => OverdueSafe
<1> SUFFICES ASSUME OverdueInit PROVE OverdueSafe
  OBVIOUS
<1>1. Init => Typed
  BY InitTyped
<1>2. OverdueTyped
  <2>1. OverdueControl
    BY DEF OverdueInit, Init, OverdueControl, OverdueFits, OverdueRequests, NoRequest, Labels,
           Admitted, Attempting, Paying
  <2>2. OverdueData
    BY <1>1 DEF OverdueInit, Typed, Data, OverdueData
  <2> QED BY <2>1, <2>2 DEF OverdueTyped
<1>3. \A w \in Workers : pc[w] = "idle" /\ req[w] = NoRequest
  BY DEF OverdueInit, Init
<1>4. \A c \in Carts : OneInside(c) /\ CartSafe(c)
  <2> TAKE c \in Carts
  <2>1. OneInside(c)
    BY <1>3 DEF OneInside, IsInside, Inside
  <2>2. ~ordered[c] /\ psession[c] = NoSession /\ \A a \in Authorizations : ~Exposed(c, a)
    BY DEF OverdueInit, Init, Exposed
  <2>3. SessionSafe(c)
    BY <2>2 DEF SessionSafe, SessionPaid, NoSession
  <2>4. PaidOrMaking(c) /\ OneExposure(c) /\ \A a \in Authorizations : ExposureOK(c, a)
    BY <2>2 DEF PaidOrMaking, OneExposure, ExposureOK
  <2> QED BY <2>1, <2>3, <2>4 DEF CartSafe
<1>5. ASSUME NEW w \in Workers PROVE CartOf(w) \notin Carts
  BY <1>3, ConstantsAssumption DEF CartOf, NoRequest
<1> QED BY <1>2, <1>4, <1>5 DEF OverdueSafe

LEMMA StepOverdue == OverdueSafe /\ [OverdueNext]_allVars => OverdueSafe'
<1> SUFFICES ASSUME OverdueSafe, [OverdueNext]_allVars PROVE OverdueSafe'
  OBVIOUS
<1>1. CASE UNCHANGED allVars
  BY <1>1, EnvironmentKeeps
<1>2. CASE OverdueNext
  <2>1. overlapped = {}
    BY <1>2 DEF OverdueNext
  <2>2. ASSUME NEW w \in Workers, AgentsOnly(w), UNCHANGED overdueVars PROVE OverdueSafe'
    BY <2>1, <2>2, ShippingKeeps, LockKeeps, UpdateKeeps, QuoteKeeps, ReserveKeeps, SetupKeeps,
       CompleteCartKeeps, CaptureKeeps, ClearKeeps, CompensateKeeps DEF AgentsOnly
  <2>3. ASSUME NEW w \in Workers, AsBefore(w) PROVE OverdueSafe'
    BY <2>1, <2>2, <2>3, LockKeeps, HookKeeps, UndoKeeps, AuthorizeKeeps, CallKeeps, ReplyKeeps
       DEF AsBefore
  <2>4. ASSUME NEW w \in Workers, Admit(w) PROVE OverdueSafe'
    BY <2>1, <2>4, GuardKeeps, MutableKeeps DEF Admit
  <2>5. ASSUME NEW w \in Workers, OverdueStep(w) PROVE OverdueSafe'
    <3>1. NativeAcquire(w) => UNCHANGED overdueVars
      BY DEF NativeAcquire
    <3> QED BY <2>1, <2>3, <2>4, <2>5, <3>1, AddKeeps, BeginKeeps, DeathKeeps, LockKeeps,
               NativeKeeps, NativeEndKeeps DEF OverdueStep
  <2>6. ASSUME NEW w \in Workers, NEW c \in Carts,
               \/ RequestNative(w, c)
               \/ \E k \in Credentials : ValidatePrerequisites(w, c, k) /\ UNCHANGED overdueVars
               \/ \E op \in {"update", "cancel"} : RequestChange(w, c, op) /\ UNCHANGED overdueVars
        PROVE  OverdueSafe'
    BY <2>6, ArrivalKeeps
  <2> QED BY <1>2, <2>5, <2>6, EnvironmentKeeps DEF OverdueNext
<1> QED BY <1>1, <1>2

\* In every state that Medusa's own completion, expired locks and dying attempts
\* can lead to, each cart that no two admitted requests have shared is safe, and
\* each worker may rely on what its step needs.
THEOREM OverdueIsSafe == OverdueSpec => []OverdueSafe
  BY InitOverdue, StepOverdue, PTL DEF OverdueSpec

\* A lock that expires under its holder, or Medusa's own completion of the cart,
\* never puts a second authorization of the cart at stake: that takes two requests
\* admitted to the cart at a time (guard-pending-settlement, validate hook).
THEOREM SecondTakesOverlap == OverdueSpec => []SecondNeedsOverlap
<1>1. OverdueSafe => SecondNeedsOverlap
  BY DEF OverdueSafe, CartSafe, OneExposure, SecondNeedsOverlap, Exposed
<1> QED BY <1>1, OverdueIsSafe, PTL

\* An order nobody is working on has been paid in full, whoever completed the cart,
\* unless its attempt died or shared the cart with another request.
THEOREM OrderPaidUnlessOrphaned == OverdueSpec => []OrderIsPaidUnlessOrphaned
<1>1. ASSUME OverdueSafe, NEW c \in Carts \ (overlapped \cup orphaned), ordered[c],
             \A w \in Workers : ~IsInside(w, c)
      PROVE  \E k \in Credentials : /\ <<c, AuthOf[k]>> \in exposed
                                    /\ AuthOf[k] \in charged
                                    /\ AmountOf[k] = due[c]
  <2>1. PaidOrMaking(c)
    BY <1>1 DEF OverdueSafe, CartSafe
  <2>2. ~InTheMaking(c)
    BY <1>1, UndoableInside DEF InTheMaking, IsInside
  <2> QED BY <1>1, <2>1, <2>2 DEF PaidOrMaking, Paid, Exposed
<1>2. OverdueSafe => OrderIsPaidUnlessOrphaned
  BY <1>1 DEF OrderIsPaidUnlessOrphaned
<1> QED BY <1>2, OverdueIsSafe, PTL
=============================================================================
