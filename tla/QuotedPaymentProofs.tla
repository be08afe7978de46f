-------------------------- MODULE QuotedPaymentProofs --------------------------
(***************************************************************************)
(* A quote that is stored can be paid, unless it could not be signed, and  *)
(* lacks a part only for so long; what is paid is what the order is for.   *)
(* For any number of calls, totals, keys, restarts and lifetimes.          *)
(***************************************************************************)
EXTENDS QuotedPayment, TLAPS

Discoveries ==
    [Protocols -> [declared : BOOLEAN, expiry : 0..(MaxTime + DiscoveryTtl + FailureTtl)]]

CallRecords ==
    [pc : {"idle", "cart", "session", "prepare", "discover", "store"}, now : 0..MaxTime,
     seen : Totals \cup {None}, held : Quotes \cup {None},
     found : [Protocols -> {"asked", "yes", "no"}], kept : BOOLEAN,
     quote : Quotes \cup {None}, outdated : BOOLEAN]

MissTimes == [Protocols -> 0..MaxTime \cup {None}]

PayRecords ==
    [pc : {"open", "checked", "setup", "authorize", "settle", "pending", "review",
           "authorized", "settle_captured"},
     signed : Totals \cup {None}, amount : Totals \cup {None},
     quote : Quotes \cup {None}, resume : BOOLEAN, asked : BOOLEAN,
     tx : BOOLEAN, captured : BOOLEAN, due : Totals \cup {None}]

\* What a call has read is the total of the cart, unless the cart was changed
\* since; what it is about to store bears the key of the deployment, or no
\* signature when it has just been made.
CallSafe(call) ==
    /\ call.pc \in {"session", "prepare", "discover"} =>
           /\ call.seen \in Totals
           /\ ~call.outdated => call.seen = total
    /\ call.pc = "store" /\ call.quote # None =>
           /\ call.quote.key = key \/ (call.quote.key = None /\ call.quote.at = call.now)
           /\ call.now <= call.quote.at + QuoteTtl
           /\ ~call.outdated => call.quote.total = total

QuotesSafe == QuotesTypeOK /\ \A c \in Calls : CallSafe(calls[c])

\* While the attempt has the lock, the payment session is for the total of the cart.
AmountIsTotal(p) ==
    p.pc \in {"authorize", "settle"} => p.quote \in Quotes /\ p.amount = total

Bound(p) ==
    p.pc \in {"settle", "authorized", "settle_captured"} =>
        p.quote.total = p.amount /\ p.signed = p.amount

\* There is an order as long as the payment is authorized, for what was signed.
DueIsSigned(p) ==
    /\ p.pc \in {"authorized", "settle_captured"} => p.due = p.signed
    /\ p.due # None => p.pc \in {"authorized", "settle_captured"}

\* An attempt that was preceded by a call to settle is known as a resumed one.
AskedIsKnown(p) ==
    p.asked => /\ p.pc # "open"
               /\ p.pc \in {"checked", "setup", "authorize"} => p.resume

\* Money moves only for a payment that is still known, and nothing counts as
\* settled that has not moved.
MoneyIsKnown(p) ==
    /\ moved # None => p.asked /\ moved = p.signed
    /\ p.tx \/ p.captured => moved # None
    /\ p.captured => p.pc = "authorized"

PaymentSafe(p) ==
    /\ p \in PayRecords
    /\ p.pc # "open" => p.signed \in Totals
    /\ AmountIsTotal(p) /\ Bound(p) /\ DueIsSigned(p) /\ AskedIsKnown(p) /\ MoneyIsKnown(p)

\* The inductive invariant.
QuotedInv ==
    /\ QuotesSafe
    /\ wire \in Protocols /\ autoCapture \in BOOLEAN /\ moved \in Totals \cup {None}
    /\ PaymentSafe(pay)

-----------------------------------------------------------------------------
(* Calls.                                                                  *)

LEMMA CallParts ==
    ASSUME QuotesSafe
    PROVE  /\ clock \in 0..MaxTime /\ key \in SigningKeys /\ total \in Totals
           /\ stored \in Quotes \cup {None} /\ discovery \in Discoveries
           /\ calls \in [Calls -> CallRecords] /\ changes \in 0..MaxChanges
           /\ missed \in MissTimes /\ \A c \in Calls : CallSafe(calls[c])
  BY DEF QuotesSafe, QuotesTypeOK, Discoveries, CallRecords, MissTimes

LEMMA CallJoin ==
    ASSUME clock \in 0..MaxTime, key \in SigningKeys, total \in Totals,
           stored \in Quotes \cup {None}, discovery \in Discoveries,
           calls \in [Calls -> CallRecords], changes \in 0..MaxChanges,
           missed \in MissTimes, \A c \in Calls : CallSafe(calls[c])
    PROVE  QuotesSafe
  BY DEF QuotesSafe, QuotesTypeOK, Discoveries, CallRecords, MissTimes

LEMMA NoCallSafe ==
    NoCall \in CallRecords /\ NoCall.pc = "idle"
  BY QuotesAssumption DEF NoCall, CallRecords

LEMMA NoEntries == [p \in Protocols |-> NoEntry] \in Discoveries
  BY QuotesAssumption DEF NoEntry, Discoveries

\* A call goes on while the cart and the key stay.
LEMMA CallStep ==
    ASSUME QuotesSafe, NEW c \in Calls, NEW rec \in CallRecords,
           calls' = [calls EXCEPT ![c] = rec],
           UNCHANGED <<clock, key, total, changes>>,
           stored' \in Quotes \cup {None}, discovery' \in Discoveries,
           missed' \in MissTimes, CallSafe(rec)
    PROVE  QuotesSafe'
<1>1. calls' \in [Calls -> CallRecords]
  BY CallParts
<1>2. ASSUME NEW d \in Calls PROVE CallSafe(calls[d])'
  <2>1. calls'[d] = IF d = c THEN rec ELSE calls[d]
    BY CallParts
  <2>2. CallSafe(calls[d])
    BY CallParts
  <2> QED BY <2>1, <2>2 DEF CallSafe
<1> QED BY <1>1, <1>2, CallParts
           DEF QuotesSafe, QuotesTypeOK, Discoveries, CallRecords, MissTimes

LEMMA ReadCartSafe ==
    ASSUME QuotesSafe, NEW c \in Calls, ReadCart(c) PROVE QuotesSafe'
<1> DEFINE rec == [calls[c] EXCEPT !.seen = total, !.pc = "session"]
<1>1. calls[c] \in CallRecords /\ total \in Totals
  BY CallParts
<1>2. rec \in CallRecords /\ rec.pc = "session" /\ rec.seen = total
  BY <1>1 DEF CallRecords
<1>3. calls' = [calls EXCEPT ![c] = rec]
  BY CallParts DEF ReadCart
<1> HIDE DEF rec
<1>4. CallSafe(rec)
  BY <1>1, <1>2 DEF CallSafe
<1> QED BY <1>2, <1>3, <1>4, CallParts, CallStep DEF ReadCart

LEMMA ReadSessionSafe ==
    ASSUME QuotesSafe, NEW c \in Calls, ReadSession(c) PROVE QuotesSafe'
<1> DEFINE rec == [calls[c] EXCEPT !.held = stored, !.pc = "prepare"]
<1>1. calls[c] \in CallRecords /\ CallSafe(calls[c]) /\ calls[c].pc = "session"
      /\ stored \in Quotes \cup {None}
  BY CallParts DEF ReadSession, At
<1>2. rec \in CallRecords /\ rec.pc = "prepare" /\ rec.seen = calls[c].seen
      /\ rec.outdated = calls[c].outdated
  BY <1>1 DEF CallRecords
<1>3. calls' = [calls EXCEPT ![c] = rec]
  BY CallParts DEF ReadSession
<1> HIDE DEF rec
<1>4. CallSafe(rec)
  BY <1>1, <1>2 DEF CallSafe
<1> QED BY <1>2, <1>3, <1>4, CallParts, CallStep DEF ReadSession

LEMMA PrepareSafe ==
    ASSUME QuotesSafe, NEW c \in Calls, Prepare(c) PROVE QuotesSafe'
<1>1. calls[c] \in CallRecords /\ CallSafe(calls[c]) /\ calls[c].pc = "prepare"
      /\ clock \in 0..MaxTime /\ discovery \in Discoveries /\ total \in Totals
      /\ UNCHANGED <<clock, key, total, stored, discovery, missed, changes>>
  BY CallParts DEF Prepare, At
<1>2. CASE Reusable(calls[c].held, calls[c].seen, clock)
  <2> DEFINE rec == [calls[c] EXCEPT !.quote = calls[c].held, !.held = None, !.now = clock,
                                     !.pc = "store"]
  <2>1. rec \in CallRecords /\ rec.pc = "store" /\ rec.quote = calls[c].held
        /\ rec.now = clock /\ rec.outdated = calls[c].outdated
    BY <1>1 DEF CallRecords
  <2>2. calls' = [calls EXCEPT ![c] = rec]
    BY <1>2, CallParts DEF Prepare
  <2> HIDE DEF rec
  <2>3. CallSafe(rec)
    BY <1>1, <1>2, <2>1 DEF CallSafe, Reusable, HasValidQuoteSignature, IsQuoteFresh
  <2> QED BY <1>1, <2>1, <2>2, <2>3, CallParts, CallStep
<1>3. CASE ~Reusable(calls[c].held, calls[c].seen, clock)
  <2> DEFINE found == [p \in Protocols |-> FromCache(p)]
             kept  == discovery["acp"].declared
             rec   == [calls[c] EXCEPT !.found = found, !.kept = kept, !.held = None,
                                       !.now = clock, !.pc = "discover"]
  <2>1. found \in [Protocols -> {"asked", "yes", "no"}] /\ kept \in BOOLEAN
    BY <1>1 DEF FromCache, Discoveries, Protocols
  <2>2. calls' = [calls EXCEPT ![c] = rec]
    BY <1>3, CallParts DEF Prepare
  <2> HIDE DEF found, kept
  <2>3. rec \in CallRecords /\ rec.pc = "discover" /\ rec.seen = calls[c].seen
        /\ rec.outdated = calls[c].outdated
    BY <1>1, <2>1 DEF CallRecords
  <2> HIDE DEF rec
  <2>4. CallSafe(rec)
    BY <1>1, <2>3 DEF CallSafe
  <2> QED BY <1>1, <2>2, <2>3, <2>4, CallParts, CallStep
<1> QED BY <1>2, <1>3

\* What a discovery found is noted, and perhaps kept.
LEMMA FoundSafe ==
    ASSUME QuotesSafe, NEW c \in Calls, At(c, "discover"), NEW p \in Protocols,
           NEW declared \in BOOLEAN, Found(c, p, declared),
           UNCHANGED <<clock, key, total, stored, changes>>, discovery' \in Discoveries
    PROVE  QuotesSafe'
<1> DEFINE found == [calls[c].found EXCEPT ![p] = IF declared THEN "yes" ELSE "no"]
           rec   == [calls[c] EXCEPT !.found = found]
<1>1. calls[c] \in CallRecords /\ CallSafe(calls[c]) /\ calls[c].pc = "discover"
  BY CallParts DEF At
<1>2. found \in [Protocols -> {"asked", "yes", "no"}]
  BY <1>1 DEF CallRecords
<1>3. calls' = [calls EXCEPT ![c] = rec]
  BY CallParts DEF Found
<1> HIDE DEF found
<1>4. rec \in CallRecords /\ rec.pc = "discover" /\ rec.seen = calls[c].seen
      /\ rec.outdated = calls[c].outdated
  BY <1>1, <1>2 DEF CallRecords
<1> HIDE DEF rec
<1>5. CallSafe(rec)
  BY <1>1, <1>4 DEF CallSafe
<1>6. missed' \in MissTimes
  BY CallParts DEF Found, MissTimes
<1> QED BY <1>3, <1>4, <1>5, <1>6, CallParts, CallStep

LEMMA KeepTyped ==
    ASSUME QuotesSafe, NEW c \in Calls, NEW p \in Protocols, NEW declared \in BOOLEAN,
           NEW ttl \in {DiscoveryTtl, FailureTtl}, Keep(c, p, declared, ttl)
    PROVE  discovery' \in Discoveries
<1>1. calls[c].now \in 0..MaxTime /\ discovery \in Discoveries
  BY CallParts DEF CallRecords
<1>2. calls[c].now + ttl \in 0..(MaxTime + DiscoveryTtl + FailureTtl)
  BY <1>1, QuotesAssumption
<1> QED BY <1>1, <1>2 DEF Keep, Discoveries

LEMMA FetchUcpDiscoverySafe ==
    ASSUME QuotesSafe, NEW c \in Calls, FetchUcpDiscovery(c) PROVE QuotesSafe'
<1>1. PICK answer \in Answers :
        /\ Found(c, "ucp", answer = "declared")
        /\ Keep(c, "ucp", answer = "declared",
                IF answer = "declared" THEN DiscoveryTtl ELSE FailureTtl)
  BY DEF FetchUcpDiscovery
<1>2. "ucp" \in Protocols /\ (answer = "declared") \in BOOLEAN
      /\ (IF answer = "declared" THEN DiscoveryTtl ELSE FailureTtl) \in {DiscoveryTtl, FailureTtl}
  BY DEF Protocols
<1>3. discovery' \in Discoveries
  BY <1>1, <1>2, KeepTyped
<1> QED BY <1>1, <1>2, <1>3, FoundSafe DEF FetchUcpDiscovery

LEMMA FetchAcpDiscoverySafe ==
    ASSUME QuotesSafe, NEW c \in Calls, FetchAcpDiscovery(c) PROVE QuotesSafe'
<1>1. PICK answer \in Answers :
        IF answer = "failed"
        THEN Found(c, "acp", calls[c].kept) /\ UNCHANGED discovery
        ELSE /\ Found(c, "acp", answer = "declared")
             /\ Keep(c, "acp", answer = "declared", DiscoveryTtl)
  BY DEF FetchAcpDiscovery
<1>2. "acp" \in Protocols /\ (answer = "declared") \in BOOLEAN /\ calls[c].kept \in BOOLEAN
      /\ discovery \in Discoveries
  BY CallParts DEF Protocols, CallRecords
<1>3. CASE answer = "failed"
  BY <1>1, <1>2, <1>3, FoundSafe DEF FetchAcpDiscovery
<1>4. CASE answer # "failed"
  <2>1. discovery' \in Discoveries
    BY <1>1, <1>2, <1>4, KeepTyped
  <2> QED BY <1>1, <1>2, <1>4, <2>1, FoundSafe DEF FetchAcpDiscovery
<1> QED BY <1>3, <1>4

LEMMA PreparePaymentSafe ==
    ASSUME QuotesSafe, NEW c \in Calls, PreparePayment(c) PROVE QuotesSafe'
<1> DEFINE declared  == { p \in Protocols : calls[c].found[p] = "yes" }
           quote(by) == [total |-> calls[c].seen, key |-> by, at |-> calls[c].now,
                         parts |-> declared]
<1>1. calls[c] \in CallRecords /\ CallSafe(calls[c]) /\ calls[c].pc = "discover"
      /\ key \in SigningKeys
      /\ UNCHANGED <<clock, key, total, stored, discovery, missed, changes>>
  BY CallParts DEF PreparePayment, At
<1>2. PICK by \in {key, None} :
        \E prepared \in IF declared = {} THEN {None} ELSE Quoted(quote(by)) :
            calls' = [calls EXCEPT ![c] = [NoCall EXCEPT !.pc = "store", !.now = calls[c].now,
                             !.quote = prepared, !.outdated = calls[c].outdated]]
  BY DEF PreparePayment
<1>3. PICK prepared \in IF declared = {} THEN {None} ELSE Quoted(quote(by)) :
        calls' = [calls EXCEPT ![c] = [NoCall EXCEPT !.pc = "store", !.now = calls[c].now,
                             !.quote = prepared, !.outdated = calls[c].outdated]]
  BY <1>2
<1> DEFINE made == quote(by)
<1>4. declared # {} => made \in Quotes
  BY <1>1 DEF Quotes, CallRecords, CallSafe
<1>5. prepared # None => prepared = made /\ made \in Quotes
  BY <1>3, <1>4 DEF Quoted
<1>6. made.total = calls[c].seen /\ made.key \in {key, None} /\ made.at = calls[c].now
  OBVIOUS
<1> HIDE DEF declared, quote, made
<1> DEFINE rec == [NoCall EXCEPT !.pc = "store", !.now = calls[c].now,
                             !.quote = prepared, !.outdated = calls[c].outdated]
<1>7. /\ rec \in CallRecords /\ rec.pc = "store" /\ rec.quote = prepared
      /\ rec.now = calls[c].now /\ rec.outdated = calls[c].outdated /\ rec.now \in 0..MaxTime
  BY <1>1, <1>5, NoCallSafe DEF CallRecords
<1>8. calls' = [calls EXCEPT ![c] = rec]
  BY <1>3
<1> HIDE DEF rec
<1>9. CallSafe(rec)
  BY <1>1, <1>5, <1>6, <1>7, QuotesAssumption DEF CallSafe
<1> QED BY <1>1, <1>7, <1>8, <1>9, CallParts, CallStep

LEMMA StoreHandlerDataSafe ==
    ASSUME QuotesSafe, NEW c \in Calls, StoreHandlerData(c) PROVE QuotesSafe'
<1>1. calls' = [calls EXCEPT ![c] = NoCall] /\ stored' \in {calls[c].quote, stored}
      /\ UNCHANGED <<clock, key, total, discovery, missed, changes>>
  BY DEF StoreHandlerData
<1>2. calls[c].quote \in Quotes \cup {None} /\ stored \in Quotes \cup {None}
  BY CallParts DEF CallRecords
<1>3. CallSafe(NoCall)
  BY NoCallSafe DEF CallSafe
<1> QED BY <1>1, <1>2, <1>3, NoCallSafe, CallParts, CallStep

LEMMA PrepareStepSafe ==
    ASSUME QuotesSafe, NEW c \in Calls, PrepareStep(c) PROVE QuotesSafe' /\ total' = total
<1>1. QuotesSafe'
  BY ReadCartSafe, ReadSessionSafe, PrepareSafe, FetchUcpDiscoverySafe, FetchAcpDiscoverySafe,
     PreparePaymentSafe, StoreHandlerDataSafe DEF PrepareStep
<1>2. total' = total
  BY DEF PrepareStep, ReadCart, ReadSession, Prepare, FetchUcpDiscovery, FetchAcpDiscovery,
         PreparePayment, StoreHandlerData
<1> QED BY <1>1, <1>2

LEMMA TickSafe ==
    ASSUME QuotesSafe, Tick PROVE QuotesSafe' /\ total' = total
<1>1. clock' \in 0..MaxTime /\ UNCHANGED <<key, total, stored, discovery, calls, missed, changes>>
  BY CallParts, QuotesAssumption DEF Tick
<1>2. \A c \in Calls : CallSafe(calls[c])'
  BY <1>1, CallParts DEF CallSafe
<1> QED BY <1>1, <1>2 DEF QuotesSafe, QuotesTypeOK

-----------------------------------------------------------------------------
(* Changes of the cart.                                                    *)

\* Who has read the cart no longer claims to have its total.
LEMMA OutdateSafe ==
    ASSUME QuotesSafe, NEW t, key' = key, total' = t
    PROVE  /\ Outdate(calls) \in [Calls -> CallRecords]
           /\ \A c \in Calls :
                /\ Outdate(calls)[c].pc = calls[c].pc
                /\ \A call : call = Outdate(calls)[c] => CallSafe(call)'
<1>1. ASSUME NEW c \in Calls
      PROVE  /\ Outdate(calls)[c] \in CallRecords
             /\ Outdate(calls)[c].pc = calls[c].pc
             /\ \A call : call = Outdate(calls)[c] => CallSafe(call)'
  <2> DEFINE out == calls[c].outdated \/ calls[c].pc \notin {"idle", "cart"}
             rec == [calls[c] EXCEPT !.outdated = out]
  <2>1. Outdate(calls)[c] = rec
    BY DEF Outdate
  <2>2. calls[c] \in CallRecords /\ CallSafe(calls[c])
    BY CallParts
  <2>3. out \in BOOLEAN /\ (calls[c].pc \in {"session", "prepare", "discover", "store"} => out)
    BY <2>2 DEF CallRecords
  <2> HIDE DEF out
  <2>4. /\ rec \in CallRecords /\ rec.pc = calls[c].pc /\ rec.outdated = out
        /\ rec.seen = calls[c].seen /\ rec.quote = calls[c].quote /\ rec.now = calls[c].now
    BY <2>2, <2>3 DEF CallRecords
  <2> HIDE DEF rec
  <2>5. ASSUME NEW call, call = rec PROVE CallSafe(call)'
    BY <2>2, <2>3, <2>4, <2>5 DEF CallSafe
  <2> QED BY <2>1, <2>4, <2>5
<1>2. Outdate(calls) \in [Calls -> CallRecords]
  <2>1. Outdate(calls) = [c \in Calls |-> Outdate(calls)[c]]
    BY DEF Outdate
  <2> QED BY <1>1, <2>1
<1> QED BY <1>1, <1>2

LEMMA UpdateCartOnlySafe ==
    ASSUME QuotesSafe, UpdateCartOnly PROVE QuotesSafe'
<1>1. /\ total' \in Totals /\ calls' = Outdate(calls) /\ changes' \in 0..MaxChanges
      /\ UNCHANGED <<clock, key, stored, discovery, missed>>
  BY CallParts, QuotesAssumption DEF UpdateCartOnly, Count
<1>2. /\ calls' \in [Calls -> CallRecords]
      /\ \A c \in Calls : \A call : call = calls'[c] => CallSafe(call)'
  BY <1>1, OutdateSafe
<1>3. \A c \in Calls : CallSafe(calls[c])'
  BY <1>2 DEF CallSafe
<1> QED BY <1>1, <1>2, <1>3, CallParts
           DEF QuotesSafe, QuotesTypeOK, Discoveries, CallRecords, MissTimes

LEMMA UpdateCheckoutSafe ==
    ASSUME QuotesSafe, NEW c \in Calls, UpdateCheckout(c) PROVE QuotesSafe'
<1>1. PICK t \in Totals :
        /\ total' = t
        /\ calls' = [IF t = total THEN calls ELSE Outdate(calls) EXCEPT ![c].pc = "cart"]
  BY DEF UpdateCheckout
<1>2. /\ changes' \in 0..MaxChanges /\ UNCHANGED <<clock, key, stored, discovery, missed>>
  BY CallParts, QuotesAssumption DEF UpdateCheckout, Count
<1> DEFINE before == IF t = total THEN calls ELSE Outdate(calls)
           rec    == [before[c] EXCEPT !.pc = "cart"]
<1>3. /\ before \in [Calls -> CallRecords]
      /\ \A d \in Calls : \A call : call = before[d] => CallSafe(call)'
  <2>1. CASE t = total
    <3>1. before = calls /\ total' = total /\ key' = key
      BY <1>1, <1>2, <2>1
    <3> QED BY <3>1, CallParts DEF CallSafe
  <2>2. CASE t # total
    <3>1. before = Outdate(calls)
      BY <2>2
    <3> QED BY <1>1, <1>2, <3>1, OutdateSafe
  <2> QED BY <2>1, <2>2
<1>4. calls' = [before EXCEPT ![c] = rec]
  BY <1>1, <1>3
<1> HIDE DEF before
<1>5. rec \in CallRecords /\ rec.pc = "cart"
  BY <1>3 DEF CallRecords
<1> HIDE DEF rec
<1>6. /\ calls' \in [Calls -> CallRecords]
      /\ \A d \in Calls : calls'[d] = IF d = c THEN rec ELSE before[d]
  BY <1>3, <1>4, <1>5
<1>7. ASSUME NEW d \in Calls PROVE CallSafe(calls[d])'
  <2>1. CASE d = c
    BY <1>5, <1>6, <2>1 DEF CallSafe
  <2>2. CASE d # c
    <3>1. \A call : call = before[d] => CallSafe(call)'
      BY <1>3
    <3> QED BY <1>6, <2>2, <3>1 DEF CallSafe
  <2> QED BY <2>1, <2>2
<1> QED BY <1>1, <1>2, <1>6, <1>7, CallParts
           DEF QuotesSafe, QuotesTypeOK, Discoveries, CallRecords, MissTimes

LEMMA RestartQuotesSafe ==
    ASSUME QuotesSafe, RestartQuotes PROVE QuotesSafe' /\ total' = total
<1>1. /\ key' \in SigningKeys /\ discovery' = [p \in Protocols |-> NoEntry]
      /\ calls' = [c \in Calls |-> NoCall] /\ changes' \in 0..MaxChanges
      /\ UNCHANGED <<clock, total, stored, missed>>
  BY CallParts, QuotesAssumption DEF RestartQuotes, Count
<1>2. discovery' \in Discoveries /\ calls' \in [Calls -> CallRecords]
  BY <1>1, NoEntries, NoCallSafe
<1>3. ASSUME NEW c \in Calls PROVE CallSafe(calls[c])'
  <2>1. calls'[c] = NoCall
    BY <1>1
  <2> QED BY <2>1, NoCallSafe DEF CallSafe
<1> QED BY <1>1, <1>2, <1>3, CallParts
           DEF QuotesSafe, QuotesTypeOK, Discoveries, CallRecords, MissTimes

LEMMA QuotesStay ==
    ASSUME QuotesSafe, UNCHANGED quoteVars PROVE QuotesSafe' /\ total' = total
<1>1. UNCHANGED <<clock, key, total, stored, discovery, calls, missed, changes>>
  BY DEF quoteVars
<1> QED BY <1>1 DEF QuotesSafe, QuotesTypeOK, CallSafe

-----------------------------------------------------------------------------
(* The parts that quotes lack.                                             *)

\* At the time, a discovery of the protocol had ended without a handler no
\* longer ago than such an outcome is kept.
MissedBefore(m, p, time) == m[p] # None /\ time < m[p] + MissTtl(p)

LacksBriefly(quote, m) ==
    quote # None => \A p \in Protocols \ quote.parts : MissedBefore(m, p, quote.at)

CallMisses(call, m, time) ==
    /\ call.now <= time
    /\ call.pc = "discover" =>
           \A p \in Protocols : call.found[p] = "no" => MissedBefore(m, p, call.now)
    /\ LacksBriefly(call.held, m) /\ LacksBriefly(call.quote, m)

\* An entry without a handler expires that long after the discovery at the latest.
CacheMisses(cache, m, time) ==
    \A p \in Protocols :
        ~cache[p].declared /\ time < cache[p].expiry
        => m[p] # None /\ cache[p].expiry <= m[p] + MissTtl(p)

MissesSafe ==
    /\ \A p \in Protocols : missed[p] # None => missed[p] <= clock
    /\ CacheMisses(discovery, missed, clock)
    /\ LacksBriefly(stored, missed)
    /\ \A c \in Calls : CallMisses(calls[c], missed, clock)

LEMMA MissTtlType ==
    \A p \in Protocols : MissTtl(p) \in Nat /\ MissTtl(p) > 0
  BY QuotesAssumption DEF MissTtl

LEMMA MissTimesType ==
    ASSUME NEW m \in MissTimes, NEW p \in Protocols, m[p] # None
    PROVE  m[p] \in 0..MaxTime
  BY DEF MissTimes

Later(m, n) == \A p \in Protocols : m[p] # None => n[p] # None /\ m[p] <= n[p]

\* Discoveries that end later take nothing back.
LEMMA LaterMiss ==
    ASSUME NEW m \in MissTimes, NEW n \in MissTimes, Later(m, n)
    PROVE  /\ \A p \in Protocols, time \in Nat :
                  MissedBefore(m, p, time) => MissedBefore(n, p, time)
           /\ \A quote \in Quotes \cup {None} : LacksBriefly(quote, m) => LacksBriefly(quote, n)
           /\ \A call \in CallRecords, time, after \in Nat :
                  CallMisses(call, m, time) /\ time <= after => CallMisses(call, n, after)
<1>1. ASSUME NEW p \in Protocols, NEW time \in Nat, MissedBefore(m, p, time)
      PROVE  MissedBefore(n, p, time)
  <2>1. m[p] # None /\ n[p] # None /\ m[p] <= n[p] /\ time < m[p] + MissTtl(p)
    BY <1>1 DEF MissedBefore, Later
  <2>2. m[p] \in Nat /\ n[p] \in Nat /\ MissTtl(p) \in Nat
    BY <2>1, MissTimesType, MissTtlType, QuotesAssumption
  <2> QED BY <2>1, <2>2 DEF MissedBefore
<1>2. ASSUME NEW quote \in Quotes \cup {None}, LacksBriefly(quote, m)
      PROVE  LacksBriefly(quote, n)
  <2>1. quote # None => quote.at \in Nat
    BY QuotesAssumption DEF Quotes
  <2> QED BY <1>1, <1>2, <2>1 DEF LacksBriefly
<1>3. ASSUME NEW call \in CallRecords, NEW time \in Nat, NEW after \in Nat,
             CallMisses(call, m, time), time <= after
      PROVE  CallMisses(call, n, after)
  <2>1. call.now \in Nat /\ call.held \in Quotes \cup {None} /\ call.quote \in Quotes \cup {None}
    BY QuotesAssumption DEF CallRecords
  <2>2. call.now <= after
    BY <1>3, <2>1 DEF CallMisses
  <2>3. ASSUME call.pc = "discover", NEW p \in Protocols, call.found[p] = "no"
        PROVE  MissedBefore(n, p, call.now)
    BY <1>1, <1>3, <2>1, <2>3 DEF CallMisses
  <2>4. LacksBriefly(call.held, n) /\ LacksBriefly(call.quote, n)
    BY <1>2, <1>3, <2>1 DEF CallMisses
  <2> QED BY <2>2, <2>3, <2>4 DEF CallMisses
<1> QED BY <1>1, <1>2, <1>3

LEMMA NoCallMisses ==
    ASSUME NEW m, NEW time \in Nat PROVE CallMisses(NoCall, m, time)
  BY DEF NoCall, CallMisses, LacksBriefly, Protocols

LEMMA MissParts ==
    ASSUME QuotesSafe, MissesSafe
    PROVE  /\ clock \in 0..MaxTime /\ clock \in Nat /\ missed \in MissTimes
           /\ discovery \in Discoveries /\ stored \in Quotes \cup {None}
           /\ \A c \in Calls : calls[c] \in CallRecords /\ CallMisses(calls[c], missed, clock)
           /\ \A p \in Protocols : missed[p] # None => missed[p] <= clock
           /\ CacheMisses(discovery, missed, clock) /\ LacksBriefly(stored, missed)
           /\ Later(missed, missed)
<1>1. clock \in 0..MaxTime /\ clock \in Nat /\ missed \in MissTimes
  BY CallParts, QuotesAssumption
<1>2. Later(missed, missed)
  <2>1. \A p \in Protocols : missed[p] # None => missed[p] \in Nat
    BY <1>1, MissTimesType, QuotesAssumption
  <2> QED BY <2>1 DEF Later
<1> QED BY <1>1, <1>2, CallParts DEF MissesSafe

\* A call goes on, and what is missed and kept is as before.
LEMMA CallMissStep ==
    ASSUME QuotesSafe, MissesSafe, NEW c \in Calls, NEW rec,
           calls' = [calls EXCEPT ![c] = rec], UNCHANGED <<clock, discovery, missed>>,
           CallMisses(rec, missed, clock), LacksBriefly(stored', missed)
    PROVE  MissesSafe'
<1>1. ASSUME NEW d \in Calls PROVE CallMisses(calls'[d], missed, clock)
  <2>1. calls'[d] = IF d = c THEN rec ELSE calls[d]
    BY CallParts
  <2> QED BY <2>1, MissParts
<1> QED BY <1>1 DEF MissesSafe

LEMMA ReadSessionMisses ==
    ASSUME QuotesSafe, MissesSafe, NEW c \in Calls, ReadSession(c) PROVE MissesSafe'
<1> DEFINE rec == [calls[c] EXCEPT !.held = stored, !.pc = "prepare"]
<1>1. calls' = [calls EXCEPT ![c] = rec] /\ UNCHANGED <<clock, discovery, stored, missed>>
  BY CallParts DEF ReadSession
<1>2. /\ rec.now = calls[c].now /\ rec.pc = "prepare" /\ rec.held = stored
      /\ rec.quote = calls[c].quote
  BY MissParts DEF CallRecords
<1> HIDE DEF rec
<1>3. CallMisses(rec, missed, clock)
  BY <1>2, MissParts DEF CallMisses
<1> QED BY <1>1, <1>3, MissParts, CallMissStep

LEMMA ReadCartMisses ==
    ASSUME QuotesSafe, MissesSafe, NEW c \in Calls, ReadCart(c) PROVE MissesSafe'
<1> DEFINE rec == [calls[c] EXCEPT !.seen = total, !.pc = "session"]
<1>1. calls' = [calls EXCEPT ![c] = rec] /\ UNCHANGED <<clock, discovery, stored, missed>>
  BY CallParts DEF ReadCart
<1>2. /\ rec.now = calls[c].now /\ rec.pc = "session" /\ rec.held = calls[c].held
      /\ rec.quote = calls[c].quote
  BY MissParts DEF CallRecords
<1> HIDE DEF rec
<1>3. CallMisses(rec, missed, clock)
  BY <1>2, MissParts DEF CallMisses
<1> QED BY <1>1, <1>3, MissParts, CallMissStep

\* What the caches answer "no" to was missed no longer ago than they keep it.
LEMMA PrepareMisses ==
    ASSUME QuotesSafe, MissesSafe, NEW c \in Calls, Prepare(c) PROVE MissesSafe'
<1>1. UNCHANGED <<clock, discovery, stored, missed>> /\ LacksBriefly(None, missed)
  BY DEF Prepare, LacksBriefly
<1>2. CASE Reusable(calls[c].held, calls[c].seen, clock)
  <2> DEFINE rec == [calls[c] EXCEPT !.quote = calls[c].held, !.held = None, !.now = clock,
                                     !.pc = "store"]
  <2>1. calls' = [calls EXCEPT ![c] = rec]
    BY <1>2, CallParts DEF Prepare
  <2>2. /\ rec.now = clock /\ rec.pc = "store" /\ rec.held = None
        /\ rec.quote = calls[c].held
    BY MissParts DEF CallRecords
  <2> HIDE DEF rec
  <2>3. CallMisses(rec, missed, clock)
    BY <1>1, <2>2, MissParts DEF CallMisses
  <2> QED BY <1>1, <2>1, <2>3, MissParts, CallMissStep
<1>3. CASE ~Reusable(calls[c].held, calls[c].seen, clock)
  <2> DEFINE found == [p \in Protocols |-> FromCache(p)]
             rec   == [calls[c] EXCEPT !.found = found, !.kept = discovery["acp"].declared,
                                       !.held = None, !.now = clock, !.pc = "discover"]
  <2>1. calls' = [calls EXCEPT ![c] = rec]
    BY <1>3, CallParts DEF Prepare
  <2>2. ASSUME NEW p \in Protocols, found[p] = "no" PROVE MissedBefore(missed, p, clock)
    <3>1. ~discovery[p].declared /\ clock < discovery[p].expiry
      BY <2>2 DEF FromCache
    <3>2. missed[p] # None /\ discovery[p].expiry <= missed[p] + MissTtl(p)
      BY <3>1, MissParts DEF CacheMisses
    <3>3. missed[p] \in Nat /\ MissTtl(p) \in Nat /\ discovery[p].expiry \in Nat /\ clock \in Nat
      BY <3>2, MissParts, MissTimesType, MissTtlType, QuotesAssumption DEF Discoveries
    <3> QED BY <3>1, <3>2, <3>3 DEF MissedBefore
  <2> HIDE DEF found
  <2>3. rec.now = clock /\ rec.found = found /\ rec.held = None /\ rec.quote = calls[c].quote
    BY MissParts DEF CallRecords
  <2> HIDE DEF rec
  <2>4. CallMisses(rec, missed, clock)
    BY <1>1, <2>2, <2>3, MissParts DEF CallMisses
  <2> QED BY <1>1, <2>1, <2>4, MissParts, CallMissStep
<1> QED BY <1>2, <1>3

\* What a discovery ends without is missed from then on.
LEMMA FoundMisses ==
    ASSUME QuotesSafe, MissesSafe, NEW c \in Calls, At(c, "discover"), NEW p \in Protocols,
           NEW declared \in BOOLEAN, Found(c, p, declared), UNCHANGED <<clock, stored>>,
           discovery' = discovery \/ Keep(c, p, declared, IF declared THEN DiscoveryTtl
                                                                     ELSE MissTtl(p))
    PROVE  MissesSafe'
<1>1. /\ missed' = IF declared THEN missed ELSE [missed EXCEPT ![p] = clock]
      /\ clock \in 0..MaxTime /\ missed \in MissTimes /\ discovery \in Discoveries
  BY MissParts DEF Found
<1>2. /\ missed' \in MissTimes /\ Later(missed, missed')
      /\ \A q \in Protocols : missed'[q] # None => missed'[q] <= clock
      /\ ~declared => missed'[p] = clock
  <2>1. missed' \in MissTimes /\ (~declared => missed'[p] = clock)
    BY <1>1 DEF MissTimes
  <2>2. ASSUME NEW q \in Protocols
        PROVE  /\ missed[q] # None => missed'[q] # None /\ missed[q] <= missed'[q]
               /\ missed'[q] # None => missed'[q] <= clock
    <3>1. missed'[q] = IF ~declared /\ q = p THEN clock ELSE missed[q]
      BY <1>1 DEF MissTimes
    <3>2. clock # None /\ clock <= clock
      BY MissParts, QuotesAssumption
    <3>3. missed[q] # None => missed[q] <= clock /\ missed[q] <= missed[q]
      BY MissParts DEF Later
    <3> QED BY <3>1, <3>2, <3>3
  <2> QED BY <2>1, <2>2 DEF Later
<1>3. clock # None /\ clock \in Nat
  BY MissParts, QuotesAssumption
<1>4. CacheMisses(discovery', missed', clock)
  <2> SUFFICES ASSUME NEW q \in Protocols, ~discovery'[q].declared, clock < discovery'[q].expiry
               PROVE  missed'[q] # None /\ discovery'[q].expiry <= missed'[q] + MissTtl(q)
    BY DEF CacheMisses
  <2>1. CASE discovery'[q] = discovery[q]
    <3>1. missed[q] # None /\ discovery[q].expiry <= missed[q] + MissTtl(q)
      BY <2>1, MissParts DEF CacheMisses
    <3>2. missed'[q] # None /\ missed[q] <= missed'[q]
      BY <1>2, <3>1 DEF Later
    <3>3. missed[q] \in Nat /\ missed'[q] \in Nat /\ MissTtl(q) \in Nat
          /\ discovery[q].expiry \in Nat
      BY <1>1, <1>2, <3>1, <3>2, MissTimesType, MissTtlType, QuotesAssumption DEF Discoveries
    <3> QED BY <2>1, <3>1, <3>2, <3>3
  <2>2. CASE discovery'[q] # discovery[q]
    <3>1. /\ q = p /\ ~declared
          /\ discovery'[q].expiry = calls[c].now + MissTtl(p)
      BY <1>1, <2>2 DEF Keep, Discoveries
    <3>2. calls[c].now \in Nat /\ calls[c].now <= clock /\ MissTtl(p) \in Nat
      BY MissParts, MissTtlType, QuotesAssumption DEF CallMisses, CallRecords
    <3> QED BY <1>2, <1>3, <3>1, <3>2
  <2> QED BY <2>1, <2>2
<1>5. LacksBriefly(stored, missed')
  BY <1>1, <1>2, MissParts, LaterMiss
<1>6. ASSUME NEW d \in Calls PROVE CallMisses(calls'[d], missed', clock)
  <2>1. calls[d] \in CallRecords /\ CallMisses(calls[d], missed', clock)
    BY <1>1, <1>2, <1>3, MissParts, LaterMiss
  <2>2. CASE d # c
    <3>1. calls'[d] = calls[d]
      BY <2>2, CallParts DEF Found
    <3> QED BY <2>1, <3>1
  <2>3. CASE d = c
    <3> DEFINE found == [calls[c].found EXCEPT ![p] = IF declared THEN "yes" ELSE "no"]
               rec   == [calls[c] EXCEPT !.found = found]
    <3>1. calls'[c] = rec
      BY CallParts DEF Found
    <3>2. /\ rec.now = calls[c].now /\ rec.pc = "discover" /\ rec.held = calls[c].held
          /\ rec.quote = calls[c].quote /\ rec.found = found
      BY MissParts DEF CallRecords, At
    <3>3. \A q \in Protocols :
            found[q] = IF q = p THEN (IF declared THEN "yes" ELSE "no") ELSE calls[c].found[q]
      BY MissParts DEF CallRecords
    <3> HIDE DEF found, rec
    <3>4. ~declared => MissedBefore(missed', p, calls[c].now)
      <4>1. calls[c].now \in Nat /\ calls[c].now <= clock /\ MissTtl(p) \in Nat /\ MissTtl(p) > 0
        BY MissParts, MissTtlType, QuotesAssumption DEF CallMisses, CallRecords
      <4> QED BY <1>2, <1>3, <4>1 DEF MissedBefore
    <3>5. CallMisses(rec, missed', clock)
      BY <2>1, <2>3, <3>2, <3>3, <3>4 DEF CallMisses, At
    <3> QED BY <2>3, <3>1, <3>5
  <2> QED BY <2>2, <2>3
<1> QED BY <1>2, <1>4, <1>5, <1>6 DEF MissesSafe

LEMMA FetchUcpDiscoveryMisses ==
    ASSUME QuotesSafe, MissesSafe, NEW c \in Calls, FetchUcpDiscovery(c) PROVE MissesSafe'
<1>1. PICK answer \in Answers :
        /\ Found(c, "ucp", answer = "declared")
        /\ Keep(c, "ucp", answer = "declared",
                IF answer = "declared" THEN DiscoveryTtl ELSE FailureTtl)
  BY DEF FetchUcpDiscovery
<1>2. "ucp" \in Protocols /\ (answer = "declared") \in BOOLEAN /\ MissTtl("ucp") = FailureTtl
  BY DEF Protocols, MissTtl
<1> QED BY <1>1, <1>2, FoundMisses DEF FetchUcpDiscovery

LEMMA FetchAcpDiscoveryMisses ==
    ASSUME QuotesSafe, MissesSafe, NEW c \in Calls, FetchAcpDiscovery(c) PROVE MissesSafe'
<1>1. PICK answer \in Answers :
        IF answer = "failed"
        THEN Found(c, "acp", calls[c].kept) /\ UNCHANGED discovery
        ELSE /\ Found(c, "acp", answer = "declared")
             /\ Keep(c, "acp", answer = "declared", DiscoveryTtl)
  BY DEF FetchAcpDiscovery
<1>2. "acp" \in Protocols /\ (answer = "declared") \in BOOLEAN /\ calls[c].kept \in BOOLEAN
      /\ MissTtl("acp") = DiscoveryTtl
  BY CallParts DEF Protocols, MissTtl, CallRecords
<1>3. CASE answer = "failed"
  BY <1>1, <1>2, <1>3, FoundMisses DEF FetchAcpDiscovery
<1>4. CASE answer # "failed"
  BY <1>1, <1>2, <1>4, FoundMisses DEF FetchAcpDiscovery
<1> QED BY <1>3, <1>4

\* A quote lacks the parts whose discovery had no handler for the call.
LEMMA PreparePaymentMisses ==
    ASSUME QuotesSafe, MissesSafe, NEW c \in Calls, PreparePayment(c) PROVE MissesSafe'
<1> DEFINE declared  == { p \in Protocols : calls[c].found[p] = "yes" }
           quote(by) == [total |-> calls[c].seen, key |-> by, at |-> calls[c].now,
                         parts |-> declared]
<1>1. /\ UNCHANGED <<clock, discovery, stored, missed>> /\ calls[c].pc = "discover"
      /\ \A p \in Protocols : calls[c].found[p] # "asked"
  BY DEF PreparePayment, At
<1> DEFINE GoesOnWith(prepared) ==
             calls' = [calls EXCEPT ![c] = [NoCall EXCEPT !.pc = "store", !.now = calls[c].now,
                             !.quote = prepared, !.outdated = calls[c].outdated]]
<1>2. PICK by \in {key, None} : \E prepared \in {None, quote(by)} : GoesOnWith(prepared)
  BY DEF PreparePayment, Quoted
<1>3. PICK prepared \in {None, quote(by)} : GoesOnWith(prepared)
  BY <1>2
<1>4. ASSUME NEW p \in Protocols \ declared PROVE MissedBefore(missed, p, calls[c].now)
  <2>1. calls[c].found[p] = "no"
    BY <1>1, MissParts DEF CallRecords
  <2> QED BY <1>1, <2>1, MissParts DEF CallMisses
<1>5. LacksBriefly(prepared, missed)
  BY <1>3, <1>4 DEF LacksBriefly
<1> HIDE DEF declared, quote
<1> DEFINE rec == [NoCall EXCEPT !.pc = "store", !.now = calls[c].now,
                             !.quote = prepared, !.outdated = calls[c].outdated]
<1>6. rec.now = calls[c].now /\ rec.pc = "store" /\ rec.held = None /\ rec.quote = prepared
  BY DEF NoCall
<1>7. calls' = [calls EXCEPT ![c] = rec]
  BY <1>3
<1> HIDE DEF rec
<1>8. CallMisses(rec, missed, clock)
  BY <1>5, <1>6, MissParts DEF CallMisses, LacksBriefly
<1> QED BY <1>1, <1>7, <1>8, MissParts, CallMissStep

LEMMA StoreHandlerDataMisses ==
    ASSUME QuotesSafe, MissesSafe, NEW c \in Calls, StoreHandlerData(c) PROVE MissesSafe'
<1>1. /\ calls' = [calls EXCEPT ![c] = NoCall] /\ UNCHANGED <<clock, discovery, missed>>
      /\ stored' \in {calls[c].quote, stored}
  BY DEF StoreHandlerData
<1>2. CallMisses(NoCall, missed, clock) /\ LacksBriefly(calls[c].quote, missed)
  BY MissParts, NoCallMisses DEF CallMisses
<1> QED BY <1>1, <1>2, MissParts, CallMissStep

\* What the calls are changed in has nothing to do with what they found.
LEMMA CallsMiss ==
    ASSUME QuotesSafe, MissesSafe, UNCHANGED <<clock, discovery, stored, missed>>,
           \A c \in Calls :
               \/ calls'[c] = NoCall
               \/ /\ calls'[c].now = calls[c].now /\ calls'[c].held = calls[c].held
                  /\ calls'[c].quote = calls[c].quote /\ calls'[c].found = calls[c].found
                  /\ calls'[c].pc \in {calls[c].pc, "cart"}
    PROVE  MissesSafe'
<1>1. ASSUME NEW c \in Calls PROVE CallMisses(calls'[c], missed, clock)
  <2>1. CallMisses(calls[c], missed, clock) /\ CallMisses(NoCall, missed, clock)
    BY MissParts, NoCallMisses
  <2> QED BY <2>1 DEF CallMisses
<1> QED BY <1>1 DEF MissesSafe

LEMMA OutdateMisses ==
    ASSUME QuotesSafe, NEW c \in Calls
    PROVE  \A rec : rec = Outdate(calls)[c] =>
             /\ rec.now = calls[c].now /\ rec.held = calls[c].held /\ rec.quote = calls[c].quote
             /\ rec.found = calls[c].found /\ rec.pc = calls[c].pc /\ rec \in CallRecords
<1> DEFINE out == calls[c].outdated \/ calls[c].pc \notin {"idle", "cart"}
<1>1. Outdate(calls)[c] = [calls[c] EXCEPT !.outdated = out] /\ calls[c] \in CallRecords
  BY CallParts DEF Outdate
<1>2. out \in BOOLEAN
  BY <1>1 DEF CallRecords
<1> HIDE DEF out
<1> QED BY <1>1, <1>2 DEF CallRecords

LEMMA UpdateCartOnlyMisses ==
    ASSUME QuotesSafe, MissesSafe, UpdateCartOnly PROVE MissesSafe'
<1>1. calls' = Outdate(calls) /\ UNCHANGED <<clock, discovery, stored, missed>>
  BY DEF UpdateCartOnly
<1> QED BY <1>1, OutdateMisses, CallsMiss

LEMMA UpdateCheckoutMisses ==
    ASSUME QuotesSafe, MissesSafe, NEW c \in Calls, UpdateCheckout(c) PROVE MissesSafe'
<1>1. PICK t \in Totals :
        calls' = [IF t = total THEN calls ELSE Outdate(calls) EXCEPT ![c].pc = "cart"]
  BY DEF UpdateCheckout
<1> DEFINE before == IF t = total THEN calls ELSE Outdate(calls)
<1>2. ASSUME NEW d \in Calls
      PROVE  /\ calls'[d].now = calls[d].now /\ calls'[d].held = calls[d].held
             /\ calls'[d].quote = calls[d].quote /\ calls'[d].found = calls[d].found
             /\ calls'[d].pc \in {calls[d].pc, "cart"}
  <2>1. calls[d] \in CallRecords
    BY MissParts
  <2>2. /\ before[d].now = calls[d].now /\ before[d].held = calls[d].held
        /\ before[d].quote = calls[d].quote /\ before[d].found = calls[d].found
        /\ before[d].pc = calls[d].pc /\ before[d] \in CallRecords
    BY <2>1, OutdateMisses
  <2>3. DOMAIN before = Calls
    BY CallParts, OutdateSafe DEF Outdate
  <2>4. calls'[d] = IF d = c THEN [before[d] EXCEPT !.pc = "cart"] ELSE before[d]
    BY <1>1, <2>3
  <2> HIDE DEF before
  <2> QED BY <2>2, <2>4 DEF CallRecords
<1>3. UNCHANGED <<clock, discovery, stored, missed>>
  BY DEF UpdateCheckout
<1> QED BY <1>2, <1>3, CallsMiss

LEMMA TickMisses ==
    ASSUME QuotesSafe, MissesSafe, Tick PROVE MissesSafe'
<1>1. clock' = clock + 1 /\ UNCHANGED <<discovery, stored, calls, missed>>
  BY DEF Tick
<1>2. clock' \in Nat /\ clock <= clock' /\ clock \in Nat
  BY <1>1, MissParts
<1>3. \A p \in Protocols : missed[p] # None => missed[p] <= clock'
  BY <1>2, MissParts, MissTimesType, QuotesAssumption
<1>4. CacheMisses(discovery, missed, clock')
  <2>1. \A p \in Protocols : discovery[p].expiry \in Nat
    BY MissParts, QuotesAssumption DEF Discoveries
  <2> QED BY <1>2, <2>1, MissParts DEF CacheMisses
<1>5. \A c \in Calls : CallMisses(calls[c], missed, clock')
  BY <1>2, MissParts, LaterMiss
<1> QED BY <1>1, <1>3, <1>4, <1>5, MissParts DEF MissesSafe

LEMMA RestartQuotesMisses ==
    ASSUME QuotesSafe, MissesSafe, RestartQuotes PROVE MissesSafe'
<1>1. /\ discovery' = [p \in Protocols |-> NoEntry] /\ calls' = [c \in Calls |-> NoCall]
      /\ UNCHANGED <<clock, stored, missed>>
  BY DEF RestartQuotes
<1>2. CacheMisses(discovery', missed, clock)
  BY <1>1, MissParts DEF CacheMisses, NoEntry
<1>3. \A c \in Calls : CallMisses(calls'[c], missed, clock)
  BY <1>1, MissParts, NoCallMisses
<1> QED BY <1>1, <1>2, <1>3, MissParts DEF MissesSafe

-----------------------------------------------------------------------------
(* The quotes by themselves.                                               *)

LEMMA InitQuotes == QuotesInit => QuotesSafe /\ MissesSafe
<1> SUFFICES ASSUME QuotesInit PROVE QuotesSafe /\ MissesSafe
  OBVIOUS
<1>1. /\ clock = 0 /\ key \in SigningKeys /\ total \in Totals /\ stored = None
      /\ discovery = [p \in Protocols |-> NoEntry] /\ calls = [c \in Calls |-> NoCall]
      /\ missed = [p \in Protocols |-> None] /\ changes = 0
  BY DEF QuotesInit
<1>2. QuotesSafe
  <2>1. \A c \in Calls : CallSafe(calls[c])
    BY <1>1, NoCallSafe DEF CallSafe
  <2>2. discovery \in Discoveries /\ calls \in [Calls -> CallRecords] /\ missed \in MissTimes
    BY <1>1, NoEntries, NoCallSafe DEF MissTimes
  <2> QED BY <1>1, <2>1, <2>2, QuotesAssumption, CallJoin
<1>3. MissesSafe
  <2>1. \A c \in Calls : CallMisses(calls[c], missed, clock)
    BY <1>1, NoCallMisses
  <2> QED BY <1>1, <2>1 DEF MissesSafe, CacheMisses, NoEntry, LacksBriefly
<1> QED BY <1>2, <1>3

LEMMA PrepareStepMisses ==
    ASSUME QuotesSafe, MissesSafe, NEW c \in Calls, PrepareStep(c) PROVE MissesSafe'
  BY ReadCartMisses, ReadSessionMisses, PrepareMisses, FetchUcpDiscoveryMisses,
     FetchAcpDiscoveryMisses, PreparePaymentMisses, StoreHandlerDataMisses DEF PrepareStep

LEMMA StepQuotes ==
    ASSUME QuotesSafe, MissesSafe, [QuotesNext]_quoteVars PROVE QuotesSafe' /\ MissesSafe'
<1>1. CASE QuotesNext
  <2>1. QuotesSafe'
    BY <1>1, UpdateCheckoutSafe, PrepareStepSafe, UpdateCartOnlySafe, TickSafe, RestartQuotesSafe
       DEF QuotesNext
  <2>2. MissesSafe'
    BY <1>1, UpdateCheckoutMisses, PrepareStepMisses, UpdateCartOnlyMisses, TickMisses,
       RestartQuotesMisses DEF QuotesNext
  <2> QED BY <2>1, <2>2
<1>2. CASE UNCHANGED quoteVars
  BY <1>2, QuotesStay DEF quoteVars, MissesSafe
<1> QED BY <1>1, <1>2

-----------------------------------------------------------------------------
(* The payment.                                                            *)

LEMMA PayParts ==
    ASSUME QuotedInv
    PROVE  /\ QuotesSafe /\ total \in Totals /\ stored \in Quotes \cup {None}
           /\ pay \in PayRecords /\ PaymentSafe(pay) /\ total # None
           /\ \A quote \in Quotes : quote # None => quote.total \in Totals
  BY CallParts, QuotesAssumption DEF QuotedInv, PaymentSafe, Quotes

\* The quotes are as before, and so is what has moved.
LEMMA PayStep ==
    ASSUME QuotedInv, NEW p, pay' = p, UNCHANGED <<wire, autoCapture, moved>>,
           QuotesSafe', total' = total, PaymentSafe(p)
    PROVE  QuotedInv'
  BY DEF QuotedInv, PaymentSafe, AmountIsTotal, Bound, DueIsSigned, AskedIsKnown, MoneyIsKnown

LEMMA NoPaymentTyped ==
    /\ NoPayment \in PayRecords /\ NoPayment.pc = "open" /\ ~NoPayment.asked
    /\ ~NoPayment.tx /\ ~NoPayment.captured /\ NoPayment.due = None
  BY DEF NoPayment, PayRecords

\* An attempt the gateway was not asked to settle may be forgotten.
LEMMA Forgotten ==
    ASSUME QuotedInv, ~pay.asked PROVE PaymentSafe(NoPayment)
<1>1. moved = None
  BY PayParts DEF PaymentSafe, MoneyIsKnown
<1> QED BY <1>1, NoPaymentTyped
        DEF PaymentSafe, AmountIsTotal, Bound, DueIsSigned, AskedIsKnown, MoneyIsKnown

\* What a payment session is known to be, at whatever step.
LEMMA Known ==
    ASSUME QuotedInv
    PROVE  /\ pay \in PayRecords /\ pay.asked \in BOOLEAN /\ pay.resume \in BOOLEAN
           /\ pay.pc # "open" => pay.signed \in Totals
           /\ AmountIsTotal(pay) /\ Bound(pay) /\ DueIsSigned(pay)
           /\ AskedIsKnown(pay) /\ MoneyIsKnown(pay)
  BY DEF QuotedInv, PaymentSafe, PayRecords

\* The attempt goes on, or back, to a step where nothing is relied on that was not
\* before; its order is taken back when it is no longer authorized.
LEMMA MoveSafe ==
    ASSUME QuotedInv, NEW step \in {"checked", "setup", "pending", "review", "authorized"},
           NEW due \in {pay.due, None},
           pay' = [pay EXCEPT !.pc = step, !.due = due],
           UNCHANGED <<wire, autoCapture, moved>>, QuotesSafe', total' = total,
           pay.pc # "open",
           pay.captured => step = "authorized",
           step = "authorized" => pay.pc \in {"authorized", "settle_captured"} /\ due = pay.due,
           step # "authorized" => due = None,
           step \in {"checked", "setup"} => pay.resume \/ ~pay.asked
    PROVE  QuotedInv'
<1> DEFINE p == [pay EXCEPT !.pc = step, !.due = due]
<1>1. /\ p \in PayRecords /\ p.pc = step /\ p.signed = pay.signed /\ p.amount = pay.amount
      /\ p.quote = pay.quote /\ p.resume = pay.resume /\ p.asked = pay.asked /\ p.tx = pay.tx
      /\ p.captured = pay.captured /\ p.due = due
  BY Known DEF PayRecords
<1>2. pay' = p
  OBVIOUS
<1> HIDE DEF p
<1>3. PaymentSafe(p)
  BY <1>1, Known DEF PaymentSafe, AmountIsTotal, Bound, DueIsSigned, AskedIsKnown, MoneyIsKnown
<1> QED BY <1>2, <1>3, PayParts, PayStep

\* Without an order, only the step changes.
LEMMA ProceedSafe ==
    ASSUME QuotedInv, NEW step \in {"setup", "pending", "review"}, Proceed(step),
           UNCHANGED <<wire, autoCapture, moved>>, QuotesSafe', total' = total,
           pay.pc \notin {"open", "authorized", "settle_captured"},
           step = "setup" => pay.resume \/ ~pay.asked
    PROVE  QuotedInv'
<1>1. pay.due = None /\ ~pay.captured
  BY Known DEF DueIsSigned, MoneyIsKnown
<1>2. pay' = [pay EXCEPT !.pc = step, !.due = None]
  BY <1>1, Known DEF Proceed, PayRecords
<1> QED BY <1>1, <1>2, MoveSafe

LEMMA NoPaymentSafe ==
    ASSUME QuotedInv, pay' = NoPayment, UNCHANGED <<quoteVars, wire, autoCapture, moved>>,
           PaymentSafe(NoPayment)
    PROVE  QuotedInv'
  BY PayParts, QuotesStay, PayStep

LEMMA DeclineSafe ==
    ASSUME QuotedInv, Decline, UNCHANGED <<quoteVars, wire, autoCapture, moved>>,
           pay.pc \notin {"open", "authorized", "settle_captured"},
           pay.resume \/ PaymentSafe(NoPayment)
    PROVE  QuotedInv'
<1>1. CASE pay.resume
  BY <1>1, PayParts, QuotesStay, ProceedSafe DEF Decline
<1>2. CASE ~pay.resume
  BY <1>2, NoPaymentSafe DEF Decline
<1> QED BY <1>1, <1>2

LEMMA GiveUpSafe ==
    ASSUME QuotedInv, GiveUp, UNCHANGED <<quoteVars, wire, autoCapture, moved>>,
           pay.pc \in {"checked", "setup"}
    PROVE  QuotedInv'
<1>1. CASE pay.resume
  BY <1>1, PayParts, QuotesStay, ProceedSafe DEF GiveUp
<1>2. CASE ~pay.resume
  <2>1. ~pay.asked
    BY <1>2, Known DEF AskedIsKnown
  <2> QED BY <1>2, <2>1, Forgotten, NoPaymentSafe DEF GiveUp
<1> QED BY <1>1, <1>2

LEMMA HoldSafe ==
    ASSUME QuotedInv, Hold, UNCHANGED <<quoteVars, wire, autoCapture, moved>>,
           pay.pc # "open", ~pay.captured
    PROVE  QuotedInv'
  BY PayParts, QuotesStay, MoveSafe DEF Hold

LEMMA CheckQuoteBindingSafe ==
    ASSUME QuotedInv, CheckQuoteBinding PROVE QuotedInv'
<1>1. UNCHANGED <<quoteVars, wire, autoCapture, moved>>
  BY DEF CheckQuoteBinding
<1>2. ASSUME Paying("open"), NEW signed \in Totals,
             pay' = [NoPayment EXCEPT !.pc = "checked", !.signed = signed]
      PROVE  QuotedInv'
  <2> DEFINE p == [NoPayment EXCEPT !.pc = "checked", !.signed = signed]
  <2>1. /\ p \in PayRecords /\ p.pc = "checked" /\ p.signed = signed /\ ~p.asked /\ ~p.tx
        /\ ~p.captured /\ p.due = None
    BY NoPaymentTyped DEF PayRecords
  <2>2. pay' = p
    BY <1>2
  <2> HIDE DEF p
  <2>3. moved = None
    BY <1>2, Known DEF Paying, AskedIsKnown, MoneyIsKnown
  <2>4. PaymentSafe(p)
    BY <2>1, <2>3 DEF PaymentSafe, AmountIsTotal, Bound, DueIsSigned, AskedIsKnown, MoneyIsKnown
  <2> QED BY <1>1, <2>2, <2>4, PayParts, QuotesStay, PayStep
<1>3. ASSUME Paying("pending"), pay' = [pay EXCEPT !.pc = "checked", !.resume = TRUE]
      PROVE  QuotedInv'
  <2> DEFINE p == [pay EXCEPT !.pc = "checked", !.resume = TRUE]
  <2>1. /\ p \in PayRecords /\ p.pc = "checked" /\ p.signed = pay.signed /\ p.resume
        /\ p.asked = pay.asked /\ p.tx = pay.tx /\ p.captured = pay.captured /\ p.due = pay.due
    BY Known DEF PayRecords
  <2>2. pay' = p
    BY <1>3
  <2> HIDE DEF p
  <2>3. PaymentSafe(p)
    BY <1>3, <2>1, Known
       DEF Paying, PaymentSafe, AmountIsTotal, Bound, DueIsSigned, AskedIsKnown, MoneyIsKnown
  <2> QED BY <1>1, <2>2, <2>3, PayParts, QuotesStay, PayStep
<1> QED BY <1>2, <1>3 DEF CheckQuoteBinding

LEMMA AcquireLockSafe ==
    ASSUME QuotedInv, AcquireLock PROVE QuotedInv'
<1>1. pay.pc = "checked" /\ (pay.resume \/ ~pay.asked)
  BY Known DEF AcquireLock, Paying, AskedIsKnown
<1> QED BY <1>1, PayParts, QuotesStay, ProceedSafe, GiveUpSafe DEF AcquireLock

LEMMA SetupPaymentSafe ==
    ASSUME QuotedInv, SetupPayment PROVE QuotedInv'
<1>1. pay.pc = "setup" /\ UNCHANGED <<quoteVars, wire, autoCapture, moved>>
  BY DEF SetupPayment, Paying
<1>2. CASE stored # None /\ stored.total = total
  <2> DEFINE p == [pay EXCEPT !.pc = "authorize", !.amount = total, !.quote = stored]
  <2>1. stored \in Quotes /\ total \in Totals
    BY <1>2, PayParts
  <2>2. /\ p \in PayRecords /\ p.pc = "authorize" /\ p.signed = pay.signed /\ p.amount = total
        /\ p.quote = stored /\ p.resume = pay.resume /\ p.asked = pay.asked /\ p.tx = pay.tx
        /\ p.captured = pay.captured /\ p.due = pay.due
    BY <2>1, Known DEF PayRecords
  <2>3. pay' = p
    BY <1>2 DEF SetupPayment
  <2> HIDE DEF p
  <2>4. PaymentSafe(p)
    BY <1>1, <2>1, <2>2, Known
       DEF PaymentSafe, AmountIsTotal, Bound, DueIsSigned, AskedIsKnown, MoneyIsKnown
  <2> QED BY <1>1, <2>3, <2>4, PayParts, QuotesStay, PayStep
<1>3. CASE ~(stored # None /\ stored.total = total)
  BY <1>1, <1>3, GiveUpSafe DEF SetupPayment
<1> QED BY <1>2, <1>3

LEMMA AuthorizePaymentSafe ==
    ASSUME QuotedInv, AuthorizePayment PROVE QuotedInv'
<1>1. pay.pc = "authorize" /\ UNCHANGED <<quoteVars, wire, autoCapture, moved>>
      /\ autoCapture \in BOOLEAN
  BY DEF AuthorizePayment, Paying, QuotedInv
<1>2. ASSUME BindsToQuote(pay)
      PROVE  /\ pay.quote.total = pay.amount /\ pay.signed = pay.amount /\ pay.amount = total
             /\ pay.quote \in Quotes /\ total \in Totals /\ ~pay.captured
  BY <1>1, <1>2, PayParts, Known
     DEF BindsToQuote, QuoteForSession, AmountIsTotal, MoneyIsKnown
<1>3. ASSUME BindsToQuote(pay), pay' = [pay EXCEPT !.pc = "settle", !.asked = TRUE]
      PROVE  QuotedInv'
  <2> DEFINE p == [pay EXCEPT !.pc = "settle", !.asked = TRUE]
  <2>1. /\ p \in PayRecords /\ p.pc = "settle" /\ p.signed = pay.signed /\ p.amount = pay.amount
        /\ p.quote = pay.quote /\ p.asked /\ p.tx = pay.tx /\ p.captured = pay.captured
        /\ p.due = pay.due
    BY Known DEF PayRecords
  <2>2. pay' = p
    BY <1>3
  <2> HIDE DEF p
  <2>3. PaymentSafe(p)
    BY <1>1, <1>2, <1>3, <2>1, Known
       DEF PaymentSafe, AmountIsTotal, Bound, DueIsSigned, AskedIsKnown, MoneyIsKnown
  <2> QED BY <1>1, <2>2, <2>3, PayParts, QuotesStay, PayStep
<1>4. ASSUME BindsToQuote(pay), pay' = [pay EXCEPT !.pc = "authorized", !.due = total]
      PROVE  QuotedInv'
  <2> DEFINE p == [pay EXCEPT !.pc = "authorized", !.due = total]
  <2>1. /\ p \in PayRecords /\ p.pc = "authorized" /\ p.signed = pay.signed
        /\ p.amount = pay.amount /\ p.quote = pay.quote /\ p.asked = pay.asked /\ p.tx = pay.tx
        /\ p.captured = pay.captured /\ p.due = total
    BY <1>2, <1>4, Known DEF PayRecords
  <2>2. pay' = p
    BY <1>4
  <2> HIDE DEF p
  <2>3. PaymentSafe(p)
    BY <1>1, <1>2, <1>4, <2>1, Known
       DEF PaymentSafe, AmountIsTotal, Bound, DueIsSigned, AskedIsKnown, MoneyIsKnown
  <2> QED BY <1>1, <2>2, <2>3, PayParts, QuotesStay, PayStep
<1>5. CASE Decline
  <2>1. pay.resume \/ ~pay.asked
    BY <1>1, Known DEF AskedIsKnown
  <2> QED BY <1>1, <1>5, <2>1, Forgotten, DeclineSafe
<1> QED BY <1>1, <1>3, <1>4, <1>5 DEF AuthorizePayment

LEMMA MoneyMovesSafe ==
    ASSUME QuotedInv, MoneyMoves PROVE QuotedInv'
<1>1. pay.asked /\ moved' = pay.signed /\ pay' = pay /\ UNCHANGED <<quoteVars, wire, autoCapture>>
  BY DEF MoneyMoves
<1>2. pay.signed \in Totals /\ pay.signed # None
  BY <1>1, QuotesAssumption, Known DEF AskedIsKnown
<1>3. QuotesSafe' /\ total' = total
  BY <1>1, PayParts, QuotesStay
<1> QED BY <1>1, <1>2, <1>3, Known
        DEF QuotedInv, PaymentSafe, AmountIsTotal, Bound, DueIsSigned, AskedIsKnown, MoneyIsKnown

\* A reply that reconciles.
LEMMA SettledSafe ==
    ASSUME QuotedInv, NEW p \in PayRecords, pay' = p,
           UNCHANGED <<quoteVars, wire, autoCapture, moved>>,
           pay.pc \in {"settle", "settle_captured"}, Reconciled,
           p.pc = "authorized", p.signed = pay.signed, p.amount = pay.amount,
           p.quote = pay.quote, p.asked = pay.asked,
           p.due = IF pay.pc = "settle" THEN total ELSE pay.due
    PROVE  QuotedInv'
<1>1. pay.signed = p.due
  BY Known DEF AmountIsTotal, Bound, DueIsSigned
<1>2. PaymentSafe(p)
  BY <1>1, Known
     DEF Reconciled, PaymentSafe, AmountIsTotal, Bound, DueIsSigned, AskedIsKnown, MoneyIsKnown
<1> QED BY <1>2, PayParts, QuotesStay, PayStep

LEMMA SettleWithPrismSafe ==
    ASSUME QuotedInv, SettleWithPrism PROVE QuotedInv'
<1>1. pay.pc = "settle" /\ ~pay.captured /\ UNCHANGED <<quoteVars, wire, autoCapture, moved>>
  BY Known DEF SettleWithPrism, Paying, MoneyIsKnown
<1>2. ASSUME Reconciled,
             pay' = [pay EXCEPT !.pc = "authorized", !.tx = TRUE, !.resume = FALSE, !.due = total]
      PROVE  QuotedInv'
  <2> DEFINE p == [pay EXCEPT !.pc = "authorized", !.tx = TRUE, !.resume = FALSE, !.due = total]
  <2>1. /\ p \in PayRecords /\ p.pc = "authorized" /\ p.signed = pay.signed
        /\ p.amount = pay.amount /\ p.quote = pay.quote /\ p.asked = pay.asked /\ p.due = total
    BY PayParts, Known DEF PayRecords
  <2>2. pay' = p
    BY <1>2
  <2> HIDE DEF p
  <2> QED BY <1>1, <1>2, <2>1, <2>2, SettledSafe
<1>3. CASE Proceed("pending")
  BY <1>1, <1>3, PayParts, QuotesStay, ProceedSafe
<1>4. CASE Hold
  BY <1>1, <1>4, HoldSafe
<1>5. CASE (moved = None \/ pay.resume) /\ Decline
  <2>1. moved = None => PaymentSafe(NoPayment)
    BY NoPaymentTyped
       DEF PaymentSafe, AmountIsTotal, Bound, DueIsSigned, AskedIsKnown, MoneyIsKnown
  <2> QED BY <1>1, <1>5, <2>1, DeclineSafe
<1> QED BY <1>2, <1>3, <1>4, <1>5 DEF SettleWithPrism

LEMMA CapturePaymentSafe ==
    ASSUME QuotedInv, CapturePayment PROVE QuotedInv'
<1>1. pay.pc = "authorized" /\ ~pay.captured
      /\ UNCHANGED <<quoteVars, wire, autoCapture, moved>>
  BY DEF CapturePayment, Paying
<1>2. ASSUME pay.tx, pay' = [pay EXCEPT !.captured = TRUE] PROVE QuotedInv'
  <2> DEFINE p == [pay EXCEPT !.captured = TRUE]
  <2>1. /\ p \in PayRecords /\ p.pc = pay.pc /\ p.signed = pay.signed /\ p.amount = pay.amount
        /\ p.quote = pay.quote /\ p.resume = pay.resume /\ p.asked = pay.asked /\ p.tx = pay.tx
        /\ p.due = pay.due
    BY Known DEF PayRecords
  <2>2. pay' = p
    BY <1>2
  <2> HIDE DEF p
  <2>3. PaymentSafe(p)
    BY <1>1, <1>2, <2>1, Known
       DEF PaymentSafe, AmountIsTotal, Bound, DueIsSigned, AskedIsKnown, MoneyIsKnown
  <2> QED BY <1>1, <2>2, <2>3, PayParts, QuotesStay, PayStep
<1>3. ASSUME pay' = [pay EXCEPT !.pc = "settle_captured", !.asked = TRUE] PROVE QuotedInv'
  <2> DEFINE p == [pay EXCEPT !.pc = "settle_captured", !.asked = TRUE]
  <2>1. /\ p \in PayRecords /\ p.pc = "settle_captured" /\ p.signed = pay.signed
        /\ p.amount = pay.amount /\ p.quote = pay.quote /\ p.asked /\ p.tx = pay.tx
        /\ p.captured = pay.captured /\ p.due = pay.due
    BY Known DEF PayRecords
  <2>2. pay' = p
    BY <1>3
  <2> HIDE DEF p
  <2>3. PaymentSafe(p)
    BY <1>1, <2>1, Known
       DEF PaymentSafe, AmountIsTotal, Bound, DueIsSigned, AskedIsKnown, MoneyIsKnown
  <2> QED BY <1>1, <2>2, <2>3, PayParts, QuotesStay, PayStep
<1>4. CASE Hold
  BY <1>1, <1>4, HoldSafe
<1> QED BY <1>2, <1>3, <1>4 DEF CapturePayment

LEMMA SettleCapturedSafe ==
    ASSUME QuotedInv, SettleCaptured PROVE QuotedInv'
<1>1. pay.pc = "settle_captured" /\ ~pay.captured
      /\ UNCHANGED <<quoteVars, wire, autoCapture, moved>>
  BY Known DEF SettleCaptured, Paying, MoneyIsKnown
<1>2. ASSUME Reconciled, pay' = [pay EXCEPT !.pc = "authorized", !.tx = TRUE, !.captured = TRUE]
      PROVE  QuotedInv'
  <2> DEFINE p == [pay EXCEPT !.pc = "authorized", !.tx = TRUE, !.captured = TRUE]
  <2>1. /\ p \in PayRecords /\ p.pc = "authorized" /\ p.signed = pay.signed
        /\ p.amount = pay.amount /\ p.quote = pay.quote /\ p.asked = pay.asked /\ p.due = pay.due
    BY Known DEF PayRecords
  <2>2. pay' = p
    BY <1>2
  <2> HIDE DEF p
  <2> QED BY <1>1, <1>2, <2>1, <2>2, SettledSafe
<1>3. CASE Proceed("authorized")
  <2>1. pay' = [pay EXCEPT !.pc = "authorized", !.due = pay.due]
    BY <1>3, Known DEF Proceed, PayRecords
  <2> QED BY <1>1, <2>1, PayParts, QuotesStay, MoveSafe
<1>4. CASE Hold
  BY <1>1, <1>4, HoldSafe
<1> QED BY <1>2, <1>3, <1>4 DEF SettleCaptured

-----------------------------------------------------------------------------

\* The total changes only while no attempt has the lock.
LEMMA TotalChanges ==
    ASSUME QuotedInv, QuotesSafe', UNCHANGED payVars,
           pay.pc \notin {"setup", "authorize", "settle"}
    PROVE  QuotedInv'
<1>1. UNCHANGED <<wire, autoCapture, pay, moved>>
  BY DEF payVars
<1>2. PaymentSafe(pay)'
  BY <1>1, Known DEF PaymentSafe, AmountIsTotal, Bound, DueIsSigned, AskedIsKnown, MoneyIsKnown
<1> QED BY <1>1, <1>2 DEF QuotedInv

LEMMA ChangeSafe ==
    ASSUME QuotedInv, Change PROVE QuotedInv'
<1>1. pay.pc \in {"open", "checked"} /\ UNCHANGED payVars
  BY DEF Change, Mutable, Paying
<1>2. QuotesSafe'
  BY PayParts, UpdateCartOnlySafe, UpdateCheckoutSafe DEF Change
<1> QED BY <1>1, <1>2, TotalChanges

LEMMA AddShippingMethodSafe ==
    ASSUME QuotedInv, AddShippingMethod PROVE QuotedInv'
  BY PayParts, UpdateCartOnlySafe, TotalChanges DEF AddShippingMethod

\* Whatever happens to quotes while the total stays.
LEMMA PaymentStays ==
    ASSUME QuotedInv, QuotesSafe', total' = total, UNCHANGED payVars PROVE QuotedInv'
<1>1. pay' = pay /\ UNCHANGED <<wire, autoCapture, moved>>
  BY DEF payVars
<1> QED BY <1>1, PayParts, PayStep

LEMMA RestartSafe ==
    ASSUME QuotedInv, Restart PROVE QuotedInv'
<1>1. QuotesSafe' /\ total' = total /\ UNCHANGED <<wire, autoCapture, moved>>
  BY PayParts, RestartQuotesSafe DEF Restart
<1>2. pay' = CASE pay.pc \in {"authorize", "settle"} -> [pay EXCEPT !.pc = "pending"]
               [] pay.pc \in {"checked", "setup"} /\ pay.resume -> [pay EXCEPT !.pc = "pending"]
               [] pay.pc \in {"checked", "setup"} /\ ~pay.resume -> NoPayment
               [] pay.pc = "settle_captured" -> [pay EXCEPT !.pc = "authorized"]
               [] OTHER -> pay
  BY DEF Restart
<1>3. CASE \/ pay.pc \in {"authorize", "settle"}
           \/ pay.pc \in {"checked", "setup"} /\ pay.resume
  <2>1. Proceed("pending")
    BY <1>2, <1>3 DEF Proceed
  <2> QED BY <1>1, <1>3, <2>1, ProceedSafe
<1>4. CASE pay.pc \in {"checked", "setup"} /\ ~pay.resume
  <2>1. pay' = NoPayment
    BY <1>2, <1>4
  <2>2. ~pay.asked
    BY <1>4, Known DEF AskedIsKnown
  <2> QED BY <1>1, <2>1, <2>2, Forgotten, PayStep
<1>5. CASE pay.pc = "settle_captured"
  <2>1. pay' = [pay EXCEPT !.pc = "authorized", !.due = pay.due] /\ ~pay.captured
    BY <1>2, <1>5, Known DEF PayRecords, MoneyIsKnown
  <2> QED BY <1>1, <1>5, <2>1, MoveSafe
<1>6. CASE pay.pc \notin {"authorize", "settle", "setup", "checked", "settle_captured"}
  <2>1. pay' = pay
    BY <1>2, <1>6
  <2> QED BY <1>1, <2>1, PayParts, PayStep
<1> QED BY <1>3, <1>4, <1>5, <1>6, Known

LEMMA InitQuoted == Init => QuotedInv
<1> SUFFICES ASSUME Init PROVE QuotedInv
  OBVIOUS
<1>1. QuotesSafe
  BY InitQuotes DEF Init
<1>2. PaymentSafe(NoPayment)
  BY NoPaymentTyped
     DEF Init, PaymentSafe, AmountIsTotal, Bound, DueIsSigned, AskedIsKnown, MoneyIsKnown
<1> QED BY <1>1, <1>2 DEF Init, QuotedInv

\* Every step keeps the invariant.
LEMMA StepQuoted == ASSUME QuotedInv, [Next]_vars PROVE QuotedInv'
<1>1. CASE Change
  BY <1>1, ChangeSafe
<1>2. CASE (\E c \in Calls : PrepareStep(c)) /\ UNCHANGED payVars
  BY <1>2, PayParts, PrepareStepSafe, PaymentStays
<1>3. CASE Tick /\ UNCHANGED payVars
  BY <1>3, PayParts, TickSafe, PaymentStays
<1>4. CASE UNCHANGED vars
  <2>1. UNCHANGED quoteVars /\ UNCHANGED payVars
    BY <1>4 DEF vars
  <2> QED BY <2>1, PayParts, QuotesStay, PaymentStays
<1> QED BY <1>1, <1>2, <1>3, <1>4, CheckQuoteBindingSafe, AcquireLockSafe, SetupPaymentSafe,
           AddShippingMethodSafe, AuthorizePaymentSafe, MoneyMovesSafe, SettleWithPrismSafe,
           CapturePaymentSafe, SettleCapturedSafe, RestartSafe DEF Next

\* The payment leaves the quotes to the calls that prepare them.
LEMMA QuotesStep == ASSUME [Next]_vars PROVE [QuotesNext]_quoteVars
<1>1. CASE Change
  BY <1>1 DEF Change, QuotesNext
<1>2. CASE AddShippingMethod
  BY <1>2 DEF AddShippingMethod, QuotesNext
<1>3. CASE Restart
  BY <1>3 DEF Restart, QuotesNext
<1>4. CASE CheckQuoteBinding \/ AcquireLock \/ SetupPayment \/ AuthorizePayment
  BY <1>4 DEF CheckQuoteBinding, AcquireLock, SetupPayment, AuthorizePayment
<1>5. CASE MoneyMoves \/ SettleWithPrism \/ CapturePayment \/ SettleCaptured
  BY <1>5 DEF MoneyMoves, SettleWithPrism, CapturePayment, SettleCaptured
<1>6. CASE UNCHANGED vars
  BY <1>6 DEF vars
<1>7. CASE Tick \/ \E c \in Calls : PrepareStep(c)
  BY <1>7 DEF QuotesNext
<1> QED BY <1>1, <1>2, <1>3, <1>4, <1>5, <1>6, <1>7 DEF Next

-----------------------------------------------------------------------------
(* The theorems.                                                           *)

\* What the calls have read, found and are about to store is as the invariants
\* say (the adapter of the Prism payment handler and the routes that prepare).
THEOREM QuotesAreSafe == QuotesSpec => [](QuotesSafe /\ MissesSafe)
<1>1. QuotesInit => QuotesSafe /\ MissesSafe
  BY InitQuotes
<1>2. (QuotesSafe /\ MissesSafe) /\ [QuotesNext]_quoteVars => (QuotesSafe /\ MissesSafe)'
  BY StepQuotes
<1> QED BY <1>1, <1>2, PTL DEF QuotesSpec

\* What preparePaymentHandlers stores for a cart that was not changed since it
\* was read can be paid, unless this very call could not sign it, whatever
\* discoveries, restarts and other calls came between.
THEOREM StoredQuotesArePayable == QuotesSpec => PayableUnlessUnsigned
<1>1. QuotesSafe /\ MissesSafe /\ [QuotesNext]_quoteVars =>
        [\A c \in Calls :
           At(c, "store") /\ calls'[c].pc = "idle" /\ ~calls[c].outdated
           /\ stored' = calls[c].quote /\ stored' # None /\ key' = key
           => /\ stored'.total = total
              /\ stored'.key = key \/ (stored'.key = None /\ stored'.at = calls[c].now)
              /\ calls[c].now <= stored'.at + QuoteTtl]_quoteVars
  <2> SUFFICES ASSUME QuotesSafe, NEW c \in Calls, At(c, "store"), ~calls[c].outdated,
                      stored' = calls[c].quote, stored' # None
               PROVE  /\ stored'.total = total
                      /\ stored'.key = key \/ (stored'.key = None /\ stored'.at = calls[c].now)
                      /\ calls[c].now <= stored'.at + QuoteTtl
    OBVIOUS
  <2>1. CallSafe(calls[c])
    BY CallParts
  <2> QED BY <2>1 DEF CallSafe, At
<1> QED BY <1>1, QuotesAreSafe, PTL DEF QuotesSpec, PayableUnlessUnsigned

\* A quote that lacks a part is given out only for so long after a discovery of
\* that protocol ended without a handler (fetchUcpDiscovery, fetchAcpDiscovery
\* and the quote that is used again).
THEOREM MissesAreBrief == QuotesSpec => []PartsAreMissedBriefly
<1>1. QuotesSafe /\ MissesSafe => PartsAreMissedBriefly
  <2> SUFFICES ASSUME QuotesSafe, MissesSafe, NEW c \in Calls, NEW p \in Protocols,
                      At(c, "store"), calls[c].quote # None, p \notin calls[c].quote.parts
               PROVE  missed[p] # None /\ calls[c].now < missed[p] + MissTtl(p) + QuoteTtl
    BY DEF PartsAreMissedBriefly
  <2>1. MissedBefore(missed, p, calls[c].quote.at)
    BY MissParts DEF CallMisses, LacksBriefly
  <2>2. calls[c].now <= calls[c].quote.at + QuoteTtl
    BY CallParts DEF CallSafe, At
  <2>3. /\ calls[c].now \in Nat /\ calls[c].quote.at \in Nat /\ QuoteTtl \in Nat
        /\ MissTtl(p) \in Nat /\ (missed[p] # None => missed[p] \in Nat)
    BY MissParts, MissTimesType, MissTtlType, QuotesAssumption DEF CallRecords, Quotes
  <2> QED BY <2>1, <2>2, <2>3 DEF MissedBefore
<1> QED BY <1>1, QuotesAreSafe, PTL

\* With payments under way the quotes are prepared as without them, so that the
\* theorems above hold of QuotedPayment.
THEOREM QuotesGoOn == Spec => QuotesSpec
<1>1. Init => QuotesInit
  BY DEF Init
<1>2. [Next]_vars => [QuotesNext]_quoteVars
  BY QuotesStep
<1> QED BY <1>1, <1>2, PTL DEF Spec, QuotesSpec

\* The invariant of the payment holds throughout.
THEOREM QuotedPaymentIsSafe == Spec => []QuotedInv
<1>1. Init => QuotedInv
  BY InitQuoted
<1>2. QuotedInv /\ [Next]_vars => QuotedInv'
  BY StepQuoted
<1> QED BY <1>1, <1>2, PTL DEF Spec

\* Every variable keeps its type, and what is bound to a quote signs its total
\* (authorizePayment and capturePayment of the Prism provider).
THEOREM TypeCorrect == Spec => []TypeOK
<1>1. QuotedInv => TypeOK
  BY DEF QuotedInv, QuotesSafe, PaymentSafe, Bound, PayRecords, TypeOK
<1> QED BY <1>1, QuotedPaymentIsSafe, PTL

\* What moves is what was signed, the total of the order if there is one, and a
\* payment is captured only when the total of its order has moved: through stale
\* quotes, resumed attempts, restarts, and totals that change before the cart is
\* locked or while the payment is pending (SetupPayment, AuthorizePayment).
THEOREM DueIsPaid == Spec => []PaidIsDue
<1>1. QuotedInv => PaidIsDue
  BY QuotesAssumption, Known DEF AskedIsKnown, DueIsSigned, MoneyIsKnown, PayRecords, PaidIsDue
<1> QED BY <1>1, QuotedPaymentIsSafe, PTL
=============================================================================
