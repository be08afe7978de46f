--------------------------- MODULE SettlementRules ---------------------------
(***************************************************************************)
(* The pure decisions of the settlement code: how a reply of the payment   *)
(* gateway is classified, what a failed attempt leaves on the agent        *)
(* session, which stored fields survive an overwrite, and which status the *)
(* session shows.  Nothing here has state, and nothing is recursive, so    *)
(* every module may use it and theorems may be stated about it.            *)
(*                                                                         *)
(* A transaction hash is abstracted to the authorization it settles.       *)
(***************************************************************************)

CONSTANT None      \* an absent value: null, undefined or the empty string

SettlementStates == {"settled", "pending", "review", "declined"}

(***************************************************************************)
(* The replies a settle call can end with, as far as the code tells them   *)
(* apart.  "no_answer" is a timeout or a network error (status 0).         *)
(***************************************************************************)
Replies == {"no_answer", "http_refused", "http_busy", "http_broken", "empty",
            "success_tx", "success_no_tx",
            "reason_pending", "reason_review", "reason_declined", "reason_unknown"}

\* Replies that refuse the payment for good when the call is the first one.
Refusals == {"http_refused", "reason_declined"}

ClassifySettleReply(reply, resumed) ==
    CASE reply \in Refusals         -> IF resumed THEN "review" ELSE "declined"
      [] reply = "success_tx"       -> "settled"
      [] reply = "reason_review"    -> "review"
      [] reply = "reason_unknown"   -> IF resumed THEN "review" ELSE "pending"
      [] OTHER                      -> "pending"

(***************************************************************************)
(* The agent session's pending_settlement record.                          *)
(***************************************************************************)
NoMarker == [state |-> "none", cred |-> None, called |-> FALSE, tx |-> None]

FirstPresent(a, b) == IF a # None THEN a ELSE b

\* A new record keeps the stored transaction when it brings none of its own.
MergedPendingSettlement(stored, value) ==
    [value EXCEPT !.tx = FirstPresent(value.tx, stored.tx)]

(***************************************************************************)
(* The payment session of the cart, as the provider left it: its status,   *)
(* and of its data the credential, the quoted amount, the resume flag, the *)
(* settlement_state ("undefined" until the provider's answer is saved) and *)
(* the transaction the gateway reported.                                   *)
(***************************************************************************)
NoSession == [status |-> "none", cred |-> None, amount |-> None, resume |-> FALSE,
              outcome |-> "undefined", tx |-> None]

\* Faulty forms of SettlementAfterFailure.  The first trusts the saved state of
\* the payment session alone, and takes a provider call whose answer was lost for
\* one that never happened; the second forgets a declined payment even when the
\* attempt was a retry; the third records the provider's own word as the state.
ForgetUnsavedAnswer(session, marker, resumed) ==
    [kind |-> IF session.outcome \in {"undefined", "declined"} /\ ~resumed THEN "clear"
              ELSE IF session.outcome \in {"undefined", "pending"} THEN "pending"
              ELSE "review",
     tx |-> FirstPresent(session.tx, marker.tx)]

ForgetResumedDecline(session, marker, resumed) ==
    [kind |-> IF session.outcome = "declined" \/ (session.outcome = "undefined"
                  /\ ~marker.called /\ session.status = "pending" /\ ~resumed)
              THEN "clear"
              ELSE IF session.outcome = "pending" \/ ~marker.called THEN "pending"
              ELSE "review",
     tx |-> FirstPresent(session.tx, marker.tx)]

RecordProviderState(session, marker, resumed) ==
    [kind |-> IF session.outcome = "declined" /\ ~resumed THEN "clear" ELSE session.outcome,
     tx |-> FirstPresent(session.tx, marker.tx)]

\* What a failed attempt leaves: the marker is cleared, or kept as pending or
\* review together with the transaction known so far.  An attempt that was not
\* resumed (fresh) may be forgotten when the provider was never called or
\* refused; once an answer may be missing the payment is held.
SettlementAfterFailure(session, marker, resumed) ==
    LET unknown   == session.outcome = "undefined"
        untouched == unknown /\ session.status = "pending"
        fresh     == ~resumed
        kind == IF marker.cred = None                                  THEN "clear"
                ELSE IF unknown /\ marker.called                       THEN "review"
                ELSE IF fresh /\ (untouched \/ session.outcome = "declined") THEN "clear"
                ELSE IF untouched \/ session.outcome = "pending" \/ (unknown /\ fresh)
                     THEN "pending"
                ELSE "review"
    IN  [kind |-> kind, tx |-> FirstPresent(session.tx, marker.tx)]

\* Faulty forms of GuardVerdict: any credential resumes a held settlement; a
\* retry is taken for a first attempt; a settlement under review is resumed.
GuardAnyCredential(m, k) ==
    IF m.state = "none" THEN "first" ELSE IF m.state = "review" THEN "refused" ELSE "resumed"

GuardWithoutResume(m, k) ==
    IF m.state = "none" \/ (m.state # "review" /\ m.cred = k) THEN "first" ELSE "refused"

GuardWithoutReview(m, k) ==
    IF m.state = "none" THEN "first" ELSE IF m.cred = k THEN "resumed" ELSE "refused"

\* A completion with credential k meets the marker m: it is a first attempt,
\* resumes the settlement the marker holds, or is refused.
GuardVerdict(m, k) ==
    IF m.state = "none" THEN "first"
    ELSE IF m.state # "review" /\ m.cred = k THEN "resumed" ELSE "refused"

\* A faulty form of MayReserve, which lets every cart use an authorization.
ReserveForEveryCart(holder, c) == TRUE

\* The ledger lets a cart use an authorization nobody holds, or that it holds.
MayReserve(holder, c) == holder \in {None, c}

(***************************************************************************)
(* The status an agent sees, as far as it decides whether the session may  *)
(* still be changed.                                                       *)
(***************************************************************************)
UcpStatus(canceled, completed, marker) ==
    IF canceled                                       THEN "canceled"
    ELSE IF completed                                 THEN "completed"
    ELSE IF marker.state \in {"settling", "pending"} THEN "complete_in_progress"
    ELSE IF marker.state = "review"                   THEN "requires_escalation"
    ELSE "open"

\* A faulty form of LockedStatuses, without the status of a payment under review.
LockedWithoutReview == {"complete_in_progress", "completed", "canceled"}

LockedStatuses == {"complete_in_progress", "requires_escalation", "completed", "canceled"}
=============================================================================
