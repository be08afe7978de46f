---------------------------- MODULE AgentWebhooks ----------------------------
(***************************************************************************)
(* What subscribers of order events and the completed route do to one      *)
(* order: they post the event to the agent's webhook and write what they   *)
(* did into the metadata of the cart and of the order.  A write puts back  *)
(* the whole metadata that was read before, up to three posts earlier.     *)
(*                                                                         *)
(* The event bus and the metadata are Medusa's: an update of the order     *)
(* emits order.updated, and a metadata write replaces the object or, in    *)
(* later versions, its top-level keys.                                     *)
(***************************************************************************)
EXTENDS Naturals, Sequences, FiniteSets

CONSTANTS
    Handlers,      \* invocations under way at a time, subscribers and routes
    Statuses,      \* what an update may make of the order
    MaxAttempts,   \* posts of an event
    LogLimit,      \* entries that the webhook log keeps
    Window,        \* time in which a second update is not sent
    MaxTime,       \* bound on the clock
    MaxEvents,     \* bound on invocations
    None           \* nothing was sent

ASSUME WebhooksAssumption ==
    /\ {MaxAttempts, LogLimit, Window, MaxTime, MaxEvents} \subseteq Nat
    /\ LogLimit > 0
    /\ None \notin Statuses \cup Nat \cup [record : BOOLEAN, log : Seq(Nat)]

VARIABLES
    clock,
    replaces,   \* a metadata write replaces the whole object
    order,      \* the order: its status, and last_webhook_sent_at
    cart,       \* the cart's metadata: its payment record and agent_webhook_log
    updates,    \* order.updated events that no subscriber took yet
    handlers,   \* what is under way
    events,     \* invocations so far; each is known by its number
    \* What the properties remember:
    told,       \* the status that the agent heard of last
    unsaid,     \* an update was dropped, failed or overtaken since it was told one
    written     \* the writes to the cart, and which of them overlapped no other

vars == <<clock, replaces, order, cart, updates, handlers, events, told, unsaid, written>>

-----------------------------------------------------------------------------

\* An invocation: an update, another event, or the recording of the payment;
\* what it read of the order and of the cart; the posts it made.
Idle ==
    [pc |-> "idle", kind |-> "none", number |-> 0, status |-> None, cart |-> None,
     posts |-> 0, alone |-> TRUE]

Init ==
    /\ clock = 0
    /\ replaces \in BOOLEAN
    /\ \E s \in Statuses : order = [status |-> s, lastSent |-> None] /\ told = s
    /\ cart = [record |-> FALSE, log |-> <<>>]
    /\ updates = 0
    /\ handlers = [h \in Handlers |-> Idle]
    /\ events = 0
    /\ unsaid = FALSE
    /\ written = <<>>

At(h, step)   == handlers[h].pc = step
GoTo(h, step) == handlers' = [handlers EXCEPT ![h].pc = step]
Leave(h)      == handlers' = [handlers EXCEPT ![h] = Idle]

Begin(h, new) ==
    /\ At(h, "idle") /\ events < MaxEvents
    /\ events' = events + 1
    /\ handlers' = [handlers EXCEPT ![h] = new]

Updating(h) == handlers[h].kind = "update"

-----------------------------------------------------------------------------
(* Events.                                                                 *)

UpdateOrder ==
    /\ events + updates < MaxEvents
    /\ \E s \in Statuses \ {order.status} : order' = [order EXCEPT !.status = s]
    /\ updates' = updates + 1
    /\ UNCHANGED <<clock, replaces, cart, handlers, events, told, unsaid, written>>

Debounced == order.lastSent # None /\ clock < order.lastSent + Window

\* Other updates that are under way.
Overtaken == [o \in Handlers |-> [handlers[o] EXCEPT !.alone = @ /\ ~Updating(o)]]

\* The order is read once, for the debounce and for the payload.  Updates that
\* are under way at the same time may be posted in either order.
OrderUpdated(h) ==
    /\ updates > 0 /\ updates' = updates - 1
    /\ At(h, "idle") /\ events < MaxEvents /\ events' = events + 1
    /\ \/ /\ ~Debounced
          /\ handlers' = [Overtaken EXCEPT ![h] =
                 [Idle EXCEPT !.pc = "find", !.kind = "update", !.number = events + 1,
                              !.status = order.status,
                              !.alone = \A o \in Handlers : ~Updating(o)]]
          /\ UNCHANGED unsaid
       \/ /\ handlers' = Overtaken         \* debounced, or the read failed
          /\ unsaid' = TRUE
    /\ UNCHANGED <<clock, replaces, order, cart, told, written>>

\* order.placed, order.canceled and order.fulfillment_created are not debounced.
OtherEvent(h) ==
    /\ Begin(h, [Idle EXCEPT !.pc = "find", !.kind = "other", !.number = events + 1])
    /\ UNCHANGED <<clock, replaces, order, cart, updates, told, unsaid, written>>

\* After a completion the route reads the cart to record its payment.
ReadCompletedCart(h) ==
    /\ Begin(h, [Idle EXCEPT !.pc = "record", !.kind = "record", !.number = events + 1,
                             !.cart = cart])
    /\ UNCHANGED <<clock, replaces, order, cart, updates, told, unsaid, written>>

-----------------------------------------------------------------------------
(* sendAgentWebhook.                                                       *)

\* The caller marks an update as sent however the sending ended.
Sent(h) == IF Updating(h) THEN GoTo(h, "mark") ELSE Leave(h)

\* Unless the agent was told by this update, with no other one under way.
Unsaid(h, success) ==
    unsaid' = IF Updating(h) THEN ~(success /\ handlers[h].alone) ELSE unsaid

\* The order, the cart and the session are found, and the session names a URL.
FindCart(h) ==
    /\ At(h, "find")
    /\ \/ /\ handlers' = [handlers EXCEPT ![h].cart = cart, ![h].pc = "post"]
          /\ UNCHANGED unsaid
       \/ Sent(h) /\ Unsaid(h, FALSE)
    /\ UNCHANGED <<clock, replaces, order, cart, updates, events, told, written>>

\* A status that was posted: 2xx, 3xx or 4xx, and none or 5xx.
Replies == {"accepted", "refused", "failed"}

\* A faulty form of Verdict: whatever was answered counts.
AnyAnswerIsSuccess(reply, posts) ==
    CASE reply \in {"accepted", "refused"} -> "success"
      [] posts < MaxAttempts -> "retry"
      [] OTHER -> "failure"

\* A failed post is repeated, a refused one is not.
Verdict(reply, posts) ==
    CASE reply = "accepted" -> "success"
      [] reply = "failed" /\ posts < MaxAttempts -> "retry"
      [] OTHER -> "failure"

\* The agent may have heard of the event although its answer was lost.
Heard(h, reply) ==
    \/ UNCHANGED told /\ (reply = "accepted" => ~Updating(h))
    \/ reply # "refused" /\ Updating(h) /\ told' = handlers[h].status

Post(h) ==
    /\ At(h, "post")
    /\ \E reply \in Replies :
        LET posts   == handlers[h].posts + 1
            verdict == Verdict(reply, posts)
        IN  /\ Heard(h, reply)
            /\ handlers' = [handlers EXCEPT ![h].posts = posts,
                                ![h].pc = IF verdict = "retry" THEN "post" ELSE "log"]
            /\ IF verdict = "retry" THEN UNCHANGED unsaid ELSE Unsaid(h, verdict = "success")
    /\ UNCHANGED <<clock, replaces, order, cart, updates, events, written>>

\* The URL is resolved first, once; without a signature key or a public address
\* nothing is posted.
Block(h) ==
    /\ At(h, "post") /\ handlers[h].posts = 0
    /\ GoTo(h, "log") /\ Unsaid(h, FALSE)
    /\ UNCHANGED <<clock, replaces, order, cart, updates, events, told, written>>

-----------------------------------------------------------------------------
(* Metadata.                                                               *)

\* Log entries have the number of their invocation.
Record == 0

\* Somebody else has read the cart and will write it.
OtherSpans(h) == \E o \in Handlers \ {h} : handlers[o].cart # None

Write(h, fact) ==
    written' = Append(written, [fact |-> fact, alone |-> ~OtherSpans(h)])

\* A faulty form of KeptEntries: the first ones are kept, not the last ones.
FirstEntries(log) == IF Len(log) < LogLimit THEN log ELSE SubSeq(log, 1, LogLimit - 1)

KeptEntries(log) ==
    IF Len(log) < LogLimit THEN log ELSE SubSeq(log, Len(log) - LogLimit + 2, Len(log))

\* The log that was read, with the new entry; and the record as it was read.
LogDelivery(h) ==
    LET seen == handlers[h].cart IN
    /\ At(h, "log")
    /\ \/ /\ cart' = [record |-> IF replaces THEN seen.record ELSE cart.record \/ seen.record,
                      log    |-> Append(KeptEntries(seen.log), handlers[h].number)]
          /\ Write(h, handlers[h].number)
       \/ UNCHANGED <<cart, written>>         \* the write failed
    /\ handlers' = [handlers EXCEPT ![h] =
           IF Updating(h) THEN [@ EXCEPT !.cart = None, !.pc = "mark"] ELSE Idle]
    /\ UNCHANGED <<clock, replaces, order, updates, events, told, unsaid>>

\* Whoever has read no log writes none back: it stays, if keys are merged.
RecordSettledPayment(h) ==
    LET seen == handlers[h].cart IN
    /\ At(h, "record")
    /\ \/ /\ cart' = [record |-> TRUE,
                      log    |-> IF replaces \/ seen.log # <<>> THEN seen.log ELSE cart.log]
          /\ Write(h, Record)
       \/ UNCHANGED <<cart, written>>         \* the write failed
    /\ Leave(h)
    /\ UNCHANGED <<clock, replaces, order, updates, events, told, unsaid>>

\* The debounce starts when the sending has ended.  (The rest of the order's
\* metadata is written back as it was read; nothing else here writes it.)
MarkSent(h) ==
    /\ At(h, "mark")
    /\ \/ order' = [order EXCEPT !.lastSent = clock]
       \/ UNCHANGED order                     \* the write failed
    /\ Leave(h)
    /\ UNCHANGED <<clock, replaces, cart, updates, events, told, unsaid, written>>

-----------------------------------------------------------------------------

Tick ==
    /\ clock < MaxTime
    /\ clock' = clock + 1
    /\ UNCHANGED <<replaces, order, cart, updates, handlers, events, told, unsaid, written>>

\* The process dies with what is under way; events in memory die with it.
Restart ==
    /\ handlers' = [h \in Handlers |-> Idle]
    /\ updates' = 0
    /\ unsaid' = TRUE
    /\ UNCHANGED <<clock, replaces, order, cart, events, told, written>>

Next ==
    \/ \E h \in Handlers :
         \/ OrderUpdated(h) \/ OtherEvent(h) \/ ReadCompletedCart(h)
         \/ FindCart(h) \/ Post(h) \/ Block(h) \/ LogDelivery(h) \/ RecordSettledPayment(h) \/ MarkSent(h)
    \/ UpdateOrder \/ Tick \/ Restart

Spec == Init /\ [][Next]_vars

-----------------------------------------------------------------------------
(* Properties.                                                             *)

\* The agent knows the status of the order once everything has settled, unless
\* the last update was dropped by the debounce, could not be delivered, or was
\* on its way together with another one: a status that was passed over stays
\* unknown only in these cases.
AgentIsTold ==
    updates = 0 /\ (\A h \in Handlers : ~Updating(h)) /\ ~unsaid => told = order.status

\* A payment record or a log entry that was written is there for good (the
\* entry until the log is full of later ones), unless somebody else had read
\* the cart before and wrote it after.
OnlyOverlapsLoseFacts ==
    \A i \in DOMAIN written :
        LET fact  == written[i].fact
            later == { j \in DOMAIN written : j > i /\ written[j].fact # Record }
        IN  written[i].alone =>
                IF fact = Record THEN cart.record
                ELSE Cardinality(later) < LogLimit =>
                         \E k \in DOMAIN cart.log : cart.log[k] = fact
=============================================================================
