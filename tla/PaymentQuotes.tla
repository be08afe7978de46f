---------------------------- MODULE PaymentQuotes ----------------------------
(***************************************************************************)
(* Preparing the payment of a checkout session: the Prism adapter offers a *)
(* signed quote for the cart's total, which the plugin stores in the agent *)
(* session, presents to the agent and hands back to the adapter the next   *)
(* time.  Calls that prepare a quote run after the cart lock was released: *)
(* they interleave with each other, and with changes of the cart.          *)
(*                                                                         *)
(* One cart; one agent, which uses one protocol and, with UCP, one version *)
(* of it, so that each protocol has one entry in the discovery caches.  A  *)
(* quote stands for its terms: the total, the time of preparation and the  *)
(* key they are signed with; what the gateway adds to them (networks,      *)
(* assets, recipient) follows from the total.                              *)
(***************************************************************************)
EXTENDS Naturals

CONSTANTS
    Calls,         \* calls that may prepare a quote at a time
    Totals,        \* totals the cart may have
    SigningKeys,   \* API keys the store may be configured with
    DiscoveryTtl,  \* how long a discovery is kept,
    FailureTtl,    \* how long a failed one is,
    QuoteTtl,      \* how long a quote is good for
    MaxTime,       \* bound on the clock
    MaxChanges,    \* bound on updates of the session and the cart and on restarts
    None

ASSUME QuotesAssumption ==
    /\ {DiscoveryTtl, FailureTtl, QuoteTtl, MaxTime, MaxChanges} \subseteq Nat
    /\ DiscoveryTtl > 0 /\ FailureTtl > 0
    /\ None \notin Totals \cup SigningKeys \cup Nat

VARIABLES
    clock,
    key,         \* the API key of the running deployment
    total,       \* the total of the cart
    stored,      \* the adapter's entry of handler_data
    discovery,   \* the discovery cache of each protocol
    calls,       \* the calls under way
    missed,      \* history: when a discovery of each protocol last ended without a handler
    changes

quoteVars == <<clock, key, total, stored, discovery, calls, missed, changes>>

-----------------------------------------------------------------------------

Protocols == {"ucp", "acp"}

\* A quote is presented in each protocol that declares the handler; one without
\* a key could not be signed.
Quotes ==
    [total : Totals, key : SigningKeys \cup {None}, at : 0..MaxTime,
     parts : (SUBSET Protocols) \ {{}}]

\* `now < expiry` never holds of it.
NoEntry == [declared |-> FALSE, expiry |-> 0]

\* `found` is what each discovery has answered, `kept` what the cache of ACP
\* held when it was asked, `outdated` whether the cart changed since it was read.
NoCall ==
    [pc |-> "idle", now |-> 0, seen |-> None, held |-> None,
     found |-> [p \in Protocols |-> "asked"], kept |-> FALSE, quote |-> None, outdated |-> FALSE]

QuotesInit ==
    /\ clock = 0
    /\ key \in SigningKeys
    /\ total \in Totals
    /\ stored = None
    /\ discovery = [p \in Protocols |-> NoEntry]
    /\ calls = [c \in Calls |-> NoCall]
    /\ missed = [p \in Protocols |-> None]
    /\ changes = 0

Count == changes < MaxChanges /\ changes' = changes + 1

At(c, step)   == calls[c].pc = step
GoTo(c, step) == calls' = [calls EXCEPT ![c].pc = step]

\* Who has read the cart has read an older one.
Outdate(cs) ==
    [c \in Calls |-> [cs[c] EXCEPT !.outdated = @ \/ cs[c].pc \notin {"idle", "cart"}]]

-----------------------------------------------------------------------------
(* The routes.                                                             *)

\* The session is created or updated through the checkout routes.
UpdateCheckout(c) ==
    /\ At(c, "idle")
    /\ \E t \in Totals :
        /\ total' = t
        /\ calls' = [IF t = total THEN calls ELSE Outdate(calls) EXCEPT ![c].pc = "cart"]
    /\ Count
    /\ UNCHANGED <<clock, key, stored, discovery, missed>>

\* The cart routes change the cart and prepare nothing.
UpdateCartOnly ==
    /\ total' \in Totals \ {total}
    /\ calls' = Outdate(calls)
    /\ Count
    /\ UNCHANGED <<clock, key, stored, discovery, missed>>

\* fetchSessionCart reads the cart, then its session.
ReadCart(c) ==
    /\ At(c, "cart")
    /\ calls' = [calls EXCEPT ![c].seen = total, ![c].pc = "session"]
    /\ UNCHANGED <<clock, key, total, stored, discovery, missed, changes>>

ReadSession(c) ==
    /\ At(c, "session")
    /\ calls' = [calls EXCEPT ![c].held = stored, ![c].pc = "prepare"]
    /\ UNCHANGED <<clock, key, total, stored, discovery, missed, changes>>

-----------------------------------------------------------------------------
(* The adapter.                                                            *)

HasValidQuoteSignature(quote) == quote.key = key

IsQuoteFresh(quote, now) == now <= quote.at + QuoteTtl

\* A faulty form of Reusable: whose signature it bears is not looked at.
ReusableUnderAnyKey(quote, amount, now) ==
    /\ quote # None
    /\ quote.total = amount
    /\ IsQuoteFresh(quote, now)

\* The quote of an earlier call is given out again, whatever it has parts for.
Reusable(quote, amount, now) ==
    /\ quote # None
    /\ quote.total = amount
    /\ HasValidQuoteSignature(quote)
    /\ IsQuoteFresh(quote, now)

FromCache(p) ==
    IF clock < discovery[p].expiry
    THEN IF discovery[p].declared THEN "yes" ELSE "no"
    ELSE "asked"

\* Either the quote that was stored is good, or both discoveries are asked; a
\* call goes by the time it started at.
Prepare(c) ==
    /\ At(c, "prepare")
    /\ IF Reusable(calls[c].held, calls[c].seen, clock)
       THEN calls' = [calls EXCEPT ![c].quote = calls[c].held, ![c].held = None,
                                   ![c].now = clock, ![c].pc = "store"]
       ELSE calls' = [calls EXCEPT ![c].found = [p \in Protocols |-> FromCache(p)],
                                   ![c].kept = discovery["acp"].declared, ![c].held = None,
                                   ![c].now = clock, ![c].pc = "discover"]
    /\ UNCHANGED <<clock, key, total, stored, discovery, missed, changes>>

Found(c, p, declared) ==
    /\ calls' = [calls EXCEPT ![c].found[p] = IF declared THEN "yes" ELSE "no"]
    /\ missed' = IF declared THEN missed ELSE [missed EXCEPT ![p] = clock]

Keep(c, p, declared, ttl) ==
    discovery' = [discovery EXCEPT ![p] = [declared |-> declared, expiry |-> calls[c].now + ttl]]

\* What asking the gateway for its handlers may end in, after however long.  Any
\* status but a good one is a failure.
Answers == {"declared", "undeclared", "failed"}

\* A faulty form of FetchUcpDiscovery: a failure is kept as long as an answer.
KeepFailure(c) ==
    /\ At(c, "discover")
    /\ calls[c].found["ucp"] = "asked"
    /\ \E answer \in Answers :
        /\ Found(c, "ucp", answer = "declared")
        /\ Keep(c, "ucp", answer = "declared", DiscoveryTtl)
    /\ UNCHANGED <<clock, key, total, stored, changes>>

\* A failure, or an answer without a usable handler, replaces the entry for a
\* shorter time.
FetchUcpDiscovery(c) ==
    /\ At(c, "discover")
    /\ calls[c].found["ucp"] = "asked"
    /\ \E answer \in Answers :
        /\ Found(c, "ucp", answer = "declared")
        /\ Keep(c, "ucp", answer = "declared",
                IF answer = "declared" THEN DiscoveryTtl ELSE FailureTtl)
    /\ UNCHANGED <<clock, key, total, stored, changes>>

\* After a failure, what the cache held is used, and nothing is kept.
FetchAcpDiscovery(c) ==
    /\ At(c, "discover")
    /\ calls[c].found["acp"] = "asked"
    /\ \E answer \in Answers :
        IF answer = "failed"
        THEN Found(c, "acp", calls[c].kept) /\ UNCHANGED discovery
        ELSE /\ Found(c, "acp", answer = "declared")
             /\ Keep(c, "acp", answer = "declared", DiscoveryTtl)
    /\ UNCHANGED <<clock, key, total, stored, changes>>

\* The gateway quotes what it is asked for, or fails.
Quoted(quote) == {None, quote}

\* The total that was read is quoted, unless nothing is declared; terms that
\* cannot be signed are stored without a signature.
PreparePayment(c) ==
    LET declared  == { p \in Protocols : calls[c].found[p] = "yes" }
        quote(by) == [total |-> calls[c].seen, key |-> by, at |-> calls[c].now,
                      parts |-> declared]
    IN  /\ At(c, "discover")
        /\ \A p \in Protocols : calls[c].found[p] # "asked"
        /\ \E by \in {key, None} :
           \E prepared \in IF declared = {} THEN {None} ELSE Quoted(quote(by)) :
               calls' = [calls EXCEPT ![c] = [NoCall EXCEPT !.pc = "store", !.now = calls[c].now,
                             !.quote = prepared, !.outdated = calls[c].outdated]]
        /\ UNCHANGED <<clock, key, total, stored, discovery, missed, changes>>

\* The entry is replaced, by null too; the route then presents what is stored.
StoreHandlerData(c) ==
    /\ At(c, "store")
    /\ stored' \in {calls[c].quote, stored}        \* the write may fail
    /\ calls' = [calls EXCEPT ![c] = NoCall]
    /\ UNCHANGED <<clock, key, total, discovery, missed, changes>>

-----------------------------------------------------------------------------

Tick ==
    /\ clock < MaxTime
    /\ clock' = clock + 1
    /\ UNCHANGED <<key, total, stored, discovery, calls, missed, changes>>

\* The store is restarted, perhaps with another API key.
RestartQuotes ==
    /\ key' \in SigningKeys
    /\ discovery' = [p \in Protocols |-> NoEntry]
    /\ calls' = [c \in Calls |-> NoCall]
    /\ Count
    /\ UNCHANGED <<clock, total, stored, missed>>

PrepareStep(c) ==
    \/ ReadCart(c) \/ ReadSession(c) \/ Prepare(c) \/ FetchUcpDiscovery(c)
    \/ FetchAcpDiscovery(c) \/ PreparePayment(c) \/ StoreHandlerData(c)

QuotesNext ==
    \/ \E c \in Calls : UpdateCheckout(c) \/ PrepareStep(c)
    \/ UpdateCartOnly \/ Tick \/ RestartQuotes

QuotesSpec == QuotesInit /\ [][QuotesNext]_quoteVars

-----------------------------------------------------------------------------
(* Properties.                                                             *)

\* Types.
QuotesTypeOK ==
    /\ clock \in 0..MaxTime /\ key \in SigningKeys /\ total \in Totals
    /\ stored \in Quotes \cup {None}
    /\ discovery \in [Protocols -> [declared : BOOLEAN,
                                    expiry : 0..(MaxTime + DiscoveryTtl + FailureTtl)]]
    /\ calls \in [Calls ->
           [pc : {"idle", "cart", "session", "prepare", "discover", "store"}, now : 0..MaxTime,
            seen : Totals \cup {None}, held : Quotes \cup {None},
            found : [Protocols -> {"asked", "yes", "no"}], kept : BOOLEAN,
            quote : Quotes \cup {None}, outdated : BOOLEAN]]
    /\ missed \in [Protocols -> 0..MaxTime \cup {None}]
    /\ changes \in 0..MaxChanges

\* A call that stores a quote, new or used again, for a cart that was not
\* changed since the call read it, stores one for the total of the cart that is
\* not expired when the call looked at it; under the key of the deployment, unless
\* this call itself could not sign it: an unsigned one, which no payment is bound
\* to, is not given out again.  Whatever discoveries, restarts and other calls
\* came between.
PayableUnlessUnsigned ==
    [][\A c \in Calls :
          At(c, "store") /\ calls'[c].pc = "idle" /\ ~calls[c].outdated
          /\ stored' = calls[c].quote /\ stored' # None /\ key' = key
          => /\ stored'.total = total
             /\ stored'.key = key \/ (stored'.key = None /\ stored'.at = calls[c].now)
             /\ calls[c].now <= stored'.at + QuoteTtl]_quoteVars

\* How long a discovery without a handler is kept.
MissTtl(p) == IF p = "ucp" THEN FailureTtl ELSE DiscoveryTtl

\* A quote that the agent's protocol has no part in, which the agent cannot pay,
\* is given out only for so long after a discovery of that protocol has ended
\* without a handler: as long as that outcome and then the quote are kept.  One
\* failed discovery beside a good one does not keep the part away for longer,
\* through quotes that are used again, caches of two lifetimes and restarts.
PartsAreMissedBriefly ==
    \A c \in Calls, p \in Protocols :
        At(c, "store") /\ calls[c].quote # None /\ p \notin calls[c].quote.parts
        => missed[p] # None /\ calls[c].now < missed[p] + MissTtl(p) + QuoteTtl
=============================================================================
