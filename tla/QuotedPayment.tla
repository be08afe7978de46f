---------------------------- MODULE QuotedPayment ----------------------------
(***************************************************************************)
(* Paying a quote.  The completion of the session checks the credential    *)
(* against the stored quote, takes the cart lock, copies the quote into    *)
(* the payment session, and lets the Prism provider bind the credential to *)
(* that copy, verify it, and settle it, at once or when it is captured.    *)
(* Calls of module PaymentQuotes replace the stored quote meanwhile.       *)
(*                                                                         *)
(* The settlement of several credentials and carts, with its marker and    *)
(* its recovery, is module CheckoutSettlement; here the agent has signed   *)
(* one credential, and of a failed attempt is kept whether it is final.    *)
(* The order is one that stays: an attempt that fails takes its order back,*)
(* one that dies is in CheckoutSettlement.                                 *)
(***************************************************************************)
EXTENDS PaymentQuotes

VARIABLES
    wire,         \* the protocol of the agent
    autoCapture,  \* payments are settled when they are authorized
    pay,          \* the payment session and the attempt to complete it
    moved         \* the amount that the gateway has moved, or None

payVars == <<wire, autoCapture, pay, moved>>
vars    == <<quoteVars, payVars>>

\* The step of the attempt ("open": none was made, or it was declined); the
\* signed value, the amount and the quote of the payment session, whether the
\* attempt is resumed; whether the gateway was asked to settle, whether the
\* session has a transaction and whether the payment is captured; the total of
\* the order.
NoPayment ==
    [pc |-> "open", signed |-> None, amount |-> None, quote |-> None,
     resume |-> FALSE, asked |-> FALSE, tx |-> FALSE, captured |-> FALSE, due |-> None]

Init ==
    /\ QuotesInit
    /\ wire \in Protocols
    /\ autoCapture \in BOOLEAN
    /\ pay = NoPayment
    /\ moved = None

Paying(step) == pay.pc = step
Proceed(step) == pay' = [pay EXCEPT !.pc = step]

\* The session can be updated: nobody has its lock, and no payment is pending.
Mutable == Paying("open") \/ (Paying("checked") /\ ~pay.resume)

\* A completion that is given up before it has begun its attempt leaves the
\* session as it was.
GiveUp == IF pay.resume THEN Proceed("pending") ELSE pay' = NoPayment

\* Held for review: the order of the attempt is taken back.
Hold == pay' = [pay EXCEPT !.pc = "review", !.due = None]

\* A failed attempt leaves the session open, if it was the first one; when an
\* earlier attempt may have paid, it is held for review.
Decline == IF pay.resume THEN Proceed("review") ELSE pay' = NoPayment

-----------------------------------------------------------------------------
(* Completion.                                                             *)

\* The route reads the quote that is stored for the handler and compares the
\* signed value with the amount of its part for the protocol.
QuoteCovers(quote, signed) ==
    quote # None /\ wire \in quote.parts /\ quote.total = signed

CheckQuoteBinding ==
    /\ \/ Paying("open") /\ \E signed \in Totals :
            /\ QuoteCovers(stored, signed)
            /\ pay' = [NoPayment EXCEPT !.pc = "checked", !.signed = signed]
       \/ /\ Paying("pending")                \* the same credential again
          /\ QuoteCovers(stored, pay.signed)
          /\ pay' = [pay EXCEPT !.pc = "checked", !.resume = TRUE]
    /\ UNCHANGED <<quoteVars, wire, autoCapture, moved>>

\* After the shipping method was looked for (AddShippingMethod); the lock may
\* not be obtained.
AcquireLock ==
    /\ Paying("checked")
    /\ Proceed("setup") \/ GiveUp
    /\ UNCHANGED <<quoteVars, wire, autoCapture, moved>>

\* The quote is read again, and must be for the total that the cart has now.
\* A session of an earlier attempt is replaced: it has no transaction.
SetupPayment ==
    /\ Paying("setup")
    /\ IF stored # None /\ stored.total = total
       THEN pay' = [pay EXCEPT !.pc = "authorize", !.amount = total, !.quote = stored]
       ELSE GiveUp
    /\ UNCHANGED <<quoteVars, wire, autoCapture, moved>>

-----------------------------------------------------------------------------
(* The provider.                                                           *)

\* The terms of the payment session are as quoted, by this deployment.
QuoteForSession(p) == HasValidQuoteSignature(p.quote) /\ p.quote.total = p.amount

\* A faulty form of BindsToQuote: the signed value is not compared.
BindsAnyValue(p) == QuoteForSession(p) /\ (p.resume \/ IsQuoteFresh(p.quote, clock))

\* The lifetime of the quote does not count for a payment that is resumed.
BindsToQuote(p) ==
    /\ QuoteForSession(p)
    /\ p.resume \/ IsQuoteFresh(p.quote, clock)
    /\ p.quote.total = p.signed

\* Bound to its quote, the payment is verified with the gateway, unless it is
\* resumed.  Without automatic capture the order is placed now.
AuthorizePayment ==
    /\ Paying("authorize")
    /\ \/ /\ BindsToQuote(pay)
          /\ pay' = IF autoCapture THEN [pay EXCEPT !.pc = "settle", !.asked = TRUE]
                                   ELSE [pay EXCEPT !.pc = "authorized", !.due = total]
       \/ (~BindsToQuote(pay) \/ ~pay.resume) /\ Decline
    /\ UNCHANGED <<quoteVars, wire, autoCapture, moved>>

\* The gateway moves what was signed, once, however late after it was asked to.
MoneyMoves ==
    /\ pay.asked
    /\ moved = None
    /\ moved' = pay.signed
    /\ UNCHANGED <<quoteVars, wire, autoCapture, pay>>

\* The reply says settled, or pending, or that a person must look; or there is
\* none, which counts as pending.  A refusal is the gateway's word that it has
\* not moved the money of a first call.
Reconciled == moved # None /\ moved = pay.quote.total

SettleWithPrism ==
    /\ Paying("settle")
    /\ \/ /\ Reconciled
          /\ pay' = [pay EXCEPT !.pc = "authorized", !.tx = TRUE, !.resume = FALSE, !.due = total]
       \/ Proceed("pending")
       \/ Hold
       \/ (moved = None \/ pay.resume) /\ Decline
    /\ UNCHANGED <<quoteVars, wire, autoCapture, moved>>

\* A faulty form of CapturePayment: an authorized payment counts as paid.
CaptureWithoutSettling ==
    /\ Paying("authorized") /\ ~pay.captured
    /\ QuoteForSession(pay)
    /\ pay' = [pay EXCEPT !.captured = TRUE]
    /\ UNCHANGED <<quoteVars, wire, autoCapture, moved>>

\* The order has been placed.  A settled payment is only confirmed; another one
\* is bound to its quote again, and settled now.
CapturePayment ==
    /\ Paying("authorized") /\ ~pay.captured
    /\ \/ pay.tx /\ QuoteForSession(pay) /\ pay' = [pay EXCEPT !.captured = TRUE]
       \/ /\ ~pay.tx /\ BindsToQuote(pay)
          /\ pay' = [pay EXCEPT !.pc = "settle_captured", !.asked = TRUE]
       \/ Hold                                   \* refused, within the completion
    /\ UNCHANGED <<quoteVars, wire, autoCapture, moved>>

\* Anything but a settled reply fails the capture: within the completion the
\* attempt is held for review, later the capture may be tried again.
SettleCaptured ==
    /\ Paying("settle_captured")
    /\ \/ Reconciled /\ pay' = [pay EXCEPT !.pc = "authorized", !.tx = TRUE, !.captured = TRUE]
       \/ Proceed("authorized") \/ Hold
    /\ UNCHANGED <<quoteVars, wire, autoCapture, moved>>

-----------------------------------------------------------------------------
(* The session meanwhile.                                                  *)

Change ==
    /\ Mutable
    /\ UpdateCartOnly \/ \E c \in Calls : UpdateCheckout(c)
    /\ UNCHANGED payVars

\* A faulty form of AddShippingMethod: the lock is not waited for.
AddWithoutLock == UpdateCartOnly /\ UNCHANGED payVars

\* A completion, of whatever credential, adds a shipping method before it waits
\* for the lock, also while a payment is pending or held: only who has the lock
\* keeps the total.  A capture may be made by hand, without the lock.
AddShippingMethod ==
    /\ pay.pc \notin {"setup", "authorize", "settle"}
    /\ UpdateCartOnly
    /\ UNCHANGED payVars

\* An attempt that had begun has left its marker, and can be resumed; one that
\* had not is as good as never made.
Restart ==
    /\ RestartQuotes
    /\ pay' = CASE pay.pc \in {"authorize", "settle"} -> [pay EXCEPT !.pc = "pending"]
                [] pay.pc \in {"checked", "setup"} /\ pay.resume -> [pay EXCEPT !.pc = "pending"]
                [] pay.pc \in {"checked", "setup"} /\ ~pay.resume -> NoPayment
                [] pay.pc = "settle_captured" -> [pay EXCEPT !.pc = "authorized"]
                [] OTHER -> pay
    /\ UNCHANGED <<wire, autoCapture, moved>>

Next ==
    \/ Change \/ AddShippingMethod
    \/ (\E c \in Calls : PrepareStep(c)) /\ UNCHANGED payVars
    \/ Tick /\ UNCHANGED payVars
    \/ CheckQuoteBinding \/ AcquireLock \/ SetupPayment \/ AuthorizePayment
    \/ MoneyMoves \/ SettleWithPrism \/ CapturePayment \/ SettleCaptured
    \/ Restart

Spec == Init /\ [][Next]_vars

-----------------------------------------------------------------------------
(* Properties.                                                             *)

\* Types; what is bound to a quote signs its total, for the amount of the
\* payment session.
TypeOK ==
    /\ QuotesTypeOK
    /\ wire \in Protocols /\ autoCapture \in BOOLEAN
    /\ pay \in [pc : {"open", "checked", "setup", "authorize", "settle", "pending", "review",
                      "authorized", "settle_captured"},
                signed : Totals \cup {None}, amount : Totals \cup {None},
                quote : Quotes \cup {None}, resume : BOOLEAN, asked : BOOLEAN,
                tx : BOOLEAN, captured : BOOLEAN, due : Totals \cup {None}]
    /\ moved \in Totals \cup {None}
    /\ pay.pc \in {"settle", "authorized", "settle_captured"} =>
           pay.quote.total = pay.amount /\ pay.signed = pay.amount

\* The money that moves is what was signed: the total of the order that was
\* placed, or of an attempt that is still known, as pending, held for review or
\* under way; and a payment is captured only when the total of its order has
\* moved.  Although the quote is read three times (by the route, by the workflow,
\* and from the payment session), stale quotes are stored meanwhile, and the
\* total may change until the cart is locked, and again while the payment is
\* pending.
PaidIsDue ==
    /\ pay.due # None => pay.due = pay.signed
    /\ moved # None => /\ moved = pay.signed
                       /\ \/ pay.due # None
                          \/ pay.pc \in {"settle", "pending", "review"}
                          \/ pay.resume
    /\ pay.captured => moved # None /\ moved = pay.due
=============================================================================
