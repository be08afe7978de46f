# Verification of medusa-plugin-agentic-commerce

TLA+ models, TLC runs and TLAPS proofs for the agentic-commerce plugin of
Medusa (`src/packages/core`) and its Prism payment provider
(`src/packages/prism-payment`). The plugin lets an AI agent open a checkout
session on a cart, change it, and complete it with a signed payment
authorization (an x402 credential), over two protocols (UCP and ACP) that share
the same workflows. `PROJECT.json` lists components, runs, mutants, the map from
definitions to source lines, hazards, findings and theorems.

## 1. Inventory of the system

Paths are relative to `src/packages/core/src` unless they start with
`prism-payment`. "Hard" names what makes the part difficult to test, "right"
what makes it correct.

### Checkout settlement (modelled)
- **State**: the cart (total, `completed_at`, order), its payment collection and
  payment session, the agent session row, the cart lock, the payment ledger.
- **Operations**: `workflows/complete-checkout-session.ts` (validate,
  ensure-shipping-method, ensure-payment-collection, acquire lock,
  guard-pending-settlement, reserve-payment-authorization, setup-payment,
  begin-settlement-attempt, Medusa's `completeCartWorkflow` with two hooks,
  capture, clear-settlement-attempt, release lock; compensation in reverse
  order), `update-checkout-session.ts`, `cancel-checkout-session.ts`.
- **Interactions**: calls Medusa's workflows, which call back into
  `workflows/hooks/complete-cart-*.ts` and into the payment provider, which
  calls Prism's verify and settle endpoints. Update and cancel share the lock.
- **Hard**: two requests on one cart; a completion that changes the total before it has
  the lock; a settle call that times out while the
  money moves later; an answer that is not saved; a process that dies anywhere;
  compensation that must know what it may forget.
- **Right**: never two authorizations at stake for a cart, never one for two
  carts, a payment that may move is never forgotten, nothing changes the cart under an
  attempt, an order is paid in full, every request ends and gives its lock back.

### Agent session store (modelled)
- **State**: one `agent_session` row per cart: ids, `canceled_at`,
  `pending_settlement` (the *marker*), `handler_data` (the quote), version pin.
- **Operations**: `modules/agent-session/service.ts`, `lib/agent-session.ts`,
  `lib/pending-settlement.ts`: open, discard, cancel, storeHandlerData,
  setPendingSettlement, markProviderCalled, the status derived for the agent.
- **Hard**: read-modify-write of JSON columns by requests that hold no lock.
- **Right**: a marker is only replaced by one that keeps the transaction known so far.

### Payment ledger (modelled)
- **State**: `payment_authorization` rows: asset, payer and nonce in lower case
  (unique, also over deleted rows) to cart.
- **Operations**: reserve: look up, insert, look up again when the insert fails.
- **Hard**: two carts between the look-up and the insert; an insert that fails for
  its caller after it took effect.
- **Right**: an authorization has one cart for ever, and every answer says so.

### Agent profile fetcher (modelled)
- **State**: `lib/agent-profile-fetcher.ts`: a cache of profiles and one of failures
  (1000 entries each, 600 s), a map of fetches under way, counters of fetches in
  flight in total (16), per host (4) and per client (8).
- **Operations**: lookup (a hit, a shared fetch, a busy answer or a new fetch),
  the fetch with at most one redirect within 3 s, its entry in a cache, its end.
- **Interactions**: version negotiation calls it for every request that names a profile.
- **Hard**: counters raised before an await; two caches that must not contradict
  each other; lookups that arrive while a fetch of their url ends.
- **Right**: counters equal the fetches in flight, limits hold, a url is fetched
  once at a time, nobody gets an older result than the latest, everybody is answered.

### Prism payment provider (partly)
- **State**: none of its own; the data of the payment session.
- **Operations**: `prism-payment/src/providers/prism/service.ts`
  (authorizePayment, capturePayment, updatePayment, cancel, refund, status),
  `prism-payment/src/lib/settlement-outcome.ts` (what a reply means).
- **Hard**: timeouts and retries; a refusal of a retry may be about success.
- **Right**: only a first, definite refusal is a decline.

### Payment quotes (modelled)
- **State**: `handler_data` on the session (one signed quote); in the adapter a
  cache of UCP discoveries and one of ACP discoveries.
- **Operations**: `lib/payment-handler-registry.ts` (prepare, store, present),
  `prism-payment/src/modules/prism-payment-handler/service.ts` (use the stored quote
  again or ask both discoveries and have a new one prepared),
  `prism-payment/src/lib/quote-binding.ts` (sign, check, bind).
- **Interactions**: called by the routes that create and update a checkout; read by the
  complete routes, by setup-payment, and by the provider from the payment session.
- **Hard**: prepared and stored after the lock is released, from a cart read earlier;
  quotes expire, keys change, a discovery fails for a while.
- **Right**: what is stored for an unchanged cart can be paid, unless it could not be
  signed; a failed discovery does not keep a protocol out for long; what moves is the
  total of the order.

### Native completion guard (modelled)
- `lib/agent-completion-guard.ts` and the hooks: Medusa's own completion of an
  agent cart is refused unless an agent attempt is under way (marker `settling`,
  at most 120 s old).
- **Hard**: the marker's age and the lock's TTL are measured from different moments; an
  attempt may outlive its lock.
- **Right**: neither puts a second payment of a cart at stake, nor leaves an order unpaid.

### Routes (partly)
- `api/ucp/**`, `api/acp/**`: parse, check, run a workflow, prepare the payment
  again, format. **Hard**: what they do outside the lock, before and after.

### Session creation (modelled)
- **State**: the cart, the agent session row.
- **Operations**: `workflows/create-checkout-session.ts`: check the currency, create the
  cart, open the session, add shipping; the compensations discard the session and
  delete the cart. The route then reads the cart back, prepares the payment and answers.
- **Hard**: a failure half-way, a compensation that fails, a route that fails after
  the workflow has succeeded.
- **Right**: no session without its cart, and an agent was told only of what is there.

### UCP version negotiation, pinning, ownership (modelled)
- **State**: the version registry of the deployment; on the session its version (the
  *pin*) and the fingerprint of its owner (API key or session secret).
- **Operations**: the chain in `api/middlewares.ts`: authenticate or resolve the
  version (`lib/ucp-version-resolver.ts`), compare the capability, verify the owner
  (`lib/session-ownership.ts`), enforce the pin, handle.
- **Interactions**: the profile fetcher in front, session creation behind.
- **Hard**: the version a request is served in changes between its checks; a deployment
  comes back with other versions; a profile cannot be read for a while.
- **Right**: a session stays on its version; a request has the rights of who sent it.

### Idempotency middleware (modelled)
- **State**: cache entries by identity, version, path and key: `processing` (60 s) or
  the answer (24 h).
- **Operations**: `api/middleware/idempotency.ts`: look up, mark, run the handler, store
  the answer or remove the entry.
- **Hard**: read and write of the cache are two steps; an entry may expire under its
  handler; the last write is awaited by nobody.
- **Right**: a replay is the answer that request got; a failure and an open settlement
  are not replayed; a key is handled twice only where the cache cannot prevent it.

### Agent webhooks and the settled payment record (modelled)
- **State**: `last_webhook_sent_at` on the order; on the cart's metadata the delivery log
  and the payment record of the completed route.
- **Operations**: four subscribers (`subscribers/*-webhook.ts`), `sendAgentWebhook`,
  `sendWebhookEvent` with up to three posts, `recordSettledPayment`.
- **Hard**: the debounce is read before a slow delivery and written after it; each
  writer puts back a whole metadata object it read earlier.
- **Right**: the agent knows the order's status unless one of the known gaps was hit;
  a written fact is lost only to a writer that had read before.

### Not modelled
Protocol formatting and request schemas (stateless shaping and validation of JSON),
discovery documents and catalog/orders/feed queries (read-only; the payment handlers in
discovery documents come from the adapter's caches, which are modelled with the checkout
calls as their readers), admin pages and analytics (presentation; that an API key is
saved is an action of `AgentSessions`), database migrations (schema; the unique index of
the ledger is used as a fact). Of the modelled parts: the amount of the payment
collection, which `ensurePaymentCollectionStep` creates before the lock when there is none,
and its refresh after a lock was released; the idempotency middleware of a deployment
without a cache module, which runs every handler unprotected (`idempotency.ts:116-121`);
the provider's cancel, delete, refund,
update and status calls (they keep or copy the session's data), and what makes an address,
a body or a currency acceptable (a free choice in the models).

## 2. Modules

| module | what it is |
|---|---|
| `SettlementRules` | the pure decisions: what a gateway reply means, what a failed attempt leaves, which status a session shows. No state. |
| `CheckoutSettlement` | complete, update and cancel as steps of concurrent requests, with lock, marker, payment session, ledger and gateway. |
| `OverdueCompletion` | extends it with locks that expire under their holder and with Medusa's own completion of the cart. |
| `PaymentPromise` | the abstract specification: `Expose`, `Refuse`, `Charge` on the pairs (cart, authorization). |
| `SettlementInvariant` | the inductive invariant `SettlementSafe`. |
| `SettlementProofs` | types; `SettlementSafe` is inductive; the safety theorems, the action properties, the refinement of `PaymentPromise`, and what has been paid. |
| `OverdueProofs` | `OverdueCompletion` has an inductive invariant of its own (`OverdueSafe`): a second payment and an unpaid order have their known causes only. |
| `AuthorizationRegistry` | the abstract ledger: take an authorization once, answer accordingly. |
| `PaymentLedger` | `reserve` statement by statement, concurrent, with failing statements. |
| `PaymentLedgerProofs` | it grants to one cart only, and implements `AuthorizationRegistry`. |
| `AgentProfileFetcher` | lookups, fetches, caches and slots. |
| `AgentProfileFetcherProofs` | counters, limits and sharing; what the caches hold, and how much. |
| `PaymentQuotes` | calls that prepare quotes: the stored quote, its signature and parts, the discovery caches, keys and expiry. |
| `QuotedPayment` | extends it with one credential that is checked, bound, verified, settled at once or at capture. |
| `QuotedPaymentProofs` | what is stored can be paid, what parts it may lack, what is paid is the total of the order. |
| `VersionNegotiation` | which version a UCP request is served in, and what a pin makes of it. No state. |
| `AgentSessions` | extends it with the middleware chain, ownership, session creation and restarts. |
| `AgentSessionsProofs` | versions and creation, for any deployments and faults. |
| `IdempotencyCache` | the idempotency middleware and its cache. |
| `IdempotencyCacheProofs` | replays and repeated handling. |
| `AgentWebhooks` | order events, deliveries, and the metadata of order and cart. |
| `AgentWebhooksProofs` | what the agent has been told, what the metadata has kept. |
| `MC...` | one instance for TLC of each module that has a specification. |

`CheckoutSettlement` uses the ledger as `AuthorizationRegistry` describes it, in one
step that may also fail before or after it took effect; `PaymentLedger` justifies
that step. The fetcher shares no state with a checkout. `QuotedPayment` composes the
preparation of quotes with their payment; it has one credential and no marker, which is
the part `CheckoutSettlement` has in full. `CheckoutSettlement` in turn has a quote that is
only an amount, which never expires and is always signed; a credential that cannot be
bound is one of the outcomes of its `DeclineLocally`.

### State of CheckoutSettlement and the code
| variable | code |
|---|---|
| `pc`, `req` | one HTTP request: the workflow step it is at; what it carries (operation, cart, credential) and what its steps return to their compensations (`resumed`, `made`) |
| `lock` | Medusa's locking module, key = cart id |
| `canceled`, `marker`, `quote` | `canceled_at`, `pending_settlement`, the amount in `handler_data` of the agent session |
| `total`, `shipped`, `ordered`, `psession` | the cart's total (and its payment collection), whether it has a shipping method, its order with `completed_at`, its payment session |
| `due` | history: the total that the order was made for |
| `ledger` | `payment_ledger`: fingerprint to cart |
| `exposed`, `charged` | the outside world: what the gateway has been handed, and what has moved |
| `mishaps` | how many state-losing failures have happened (bounded by `MaxMishaps`) |

One action is one workflow step (or one route stage outside the workflow) and
includes all its writes. Before a completion waits for the lock it may find that the cart
has no shipping method and add one (`EnsureShippingMethod`, `AddShippingMethod`): Medusa's
workflow takes and gives back the cart lock for that, but looks at no marker and no status,
and the step has no compensation. A cart without a method can be completed, since nothing
is offered for digital goods. Failure of a step is a disjunct of its action: it leads
to the compensations that have been registered by then (`undo`, `compensate`,
`unlock`), in Medusa's reverse order. `MoneyMoves` is the gateway settling on its
own, also after the request that asked for it has ended. `Crash` is the death of
a process: the request is gone, nothing is compensated, and the lock is freed by
its TTL. Operators commented "A faulty form of ..." are not part of the
specification: each is a plausible mistake in one definition, kept to show that a
property notices it (see `mutants` in `PROJECT.json`).

### State of the other modules and the code
`OverdueCompletion` has no clock but the order of events that the clocks give: the lock of
an attempt that waits for the gateway may expire at any time (`ExpireLock`, one of the
mishaps), and a marker may become older than the TTL (`AgeMarker`) only when its attempt
has no lock any more, since it began the marker after it took the lock. In between Medusa's
own completion (`Native...`) passes the validate hook; it takes the cart's lock itself (as
`payment-tamper-workflow.test.ts:34` says), uses the payment session it finds, runs both
hooks, and neither captures nor touches the marker. A lock is released by its key, whoever
has it. `overlapped` and `orphaned` are history variables. The model of a cart ends where a
second request is admitted beside the first, or a completion changes the total beside it.

In `PaymentLedger` a caller's `pc` is the statement of `reserve` it is at (`find`,
`insert`, `inserted`, `recheck`), `rows` the table, `Lowercase` the normalisation of
the key; `answer` records what a call returned or that it threw. In
`AgentProfileFetcher` the variables have the names of the closure's variables;
`stage` and `result` are the local state of a fetch (DNS, first and second download,
found, remembered), `job` what a lookup awaits, `last` a history variable. A fetch
is named by the lookup that started it. What a download may yield (a version, none,
a redirect, a failure) is chosen freely; which addresses, bodies and redirects
are refused is not modelled. An entry may expire at any time after it was written.
A busy answer changes nothing and is no action; `AnswersAreNewest` covers the
profile it may carry.

In `PaymentQuotes` a call is a route that prepares a payment: it reads the cart, then the
session (`seen`, `held`), asks the adapter (`found` per protocol, by way of the caches
`discovery`), and stores what it got: a quote with a part for each protocol that was
declared, signed by the key of the deployment or, when it cannot be signed, by `None`.
`outdated` and `missed` are history variables: the cart changed after the call had read it;
when a discovery of a protocol last ended without a handler. A UCP discovery that fails replaces the entry for 60 s; an ACP
discovery that fails keeps and uses the old one. The agent uses one protocol and one
version, so each cache has one entry. In `QuotedPayment`, `pay` is the payment session and
the attempt to complete it: `checked` is the route's check before the lock, `setup` the
workflow's second reading under it, `authorize` to `settle_captured` the provider; `pending`
stands for a marker that lets the same credential resume; `due` is the total of the order.
`Change` is an update of the session and asks for the lock and for no open settlement,
`AddShippingMethod` is what any completion may do to the total whenever nobody has the lock.

In `AgentSessions`, `req[r].pc` is the middleware or the workflow step a request is at, with
the version resolved so far; a session stands for its cart, row and order. An agent presents
its API key, or the secret of a session it was told of. `PathSeen` says whether the
capability check knows which capability a path belongs to: it compares `req.path`
(`middlewares.ts:241`) in a middleware without method on wildcard matchers (`:500-515`), where
Express takes the matched prefix off if that is how Medusa mounts it. `ResolveUcpVersion` takes what the
look-up of the agent's profile ended in: the fetcher is a module of its own. `Restart` starts
any of the deployments given, and goes back to the configured API key: saved settings are
read when they are saved and at no other time. `SaveSettings` is the admin route, whose
`refreshSettings` does nothing within a minute of the last time.

In `IdempotencyCache` a scope is what the cache key is made of, a body its hash, and an
answer one of five codes: `ok`, a client error, a server error, the two answers of a
completion whose payment is still settling (202, and 409 `settlement_pending`), and whatever
else is refused meanwhile (409 `payment_pending_mismatch`, 409 `payment_requires_review`, 200
`requires_escalation`, an update, a cancellation), which is kept like any other answer. A
request that was answered and is remembered by nothing leaves its name to the next one.
`reopened` is a history variable: scopes with a gap the cache cannot close (two look-ups
before the first write; an entry that expired, was removed by another request, or was lost).

In `AgentWebhooks` a handler is one invocation of a subscriber, or of the completed route
while it records the payment. `cart` is the metadata it read at the beginning, which its
write puts back whole (`replaces`) or key by key: Medusa has done both, and the plugin
supports both. `told`, `unsaid` and `written` are history variables.

### Assumptions
- In `CheckoutSettlement`, `auto_capture` is true (the default): the settle call happens in
  `authorizePayment`. Settling at capture is in `QuotedPayment`.
- Credentials are their digest. A credential carries one authorization (asset,
  payer, nonce) and signs one amount; two credentials may carry the same
  authorization. A transaction hash is abstracted to the authorization it settles.
- The gateway reports success only for money that has moved; it refuses a call
  for an authorization it sees for the first time only when that money will not
  move; a nonce is spent once. Every other answer, and no answer, is possible at
  any time.
- In `CheckoutSettlement` the holder of a lock ends within the TTL of 120 s or has died; the
  proofs rest on it. `OverdueCompletion` is about holders that do not.
- A cart has a payment collection for its total from the moment a completion waits for
  its lock: creating it succeeds or ends the request, and its amount follows the total. The
  refresh that the error path and cancel run after the lock is released is not modelled.
- Medusa's workflows that add a shipping method and create a payment collection take the
  cart lock for themselves, as `payment-tamper-workflow.test.ts:45` says. They are outside
  `src/`. What they do to the total is any change of it, also for a completed cart, which
  Medusa may refuse.
- A step of a workflow that only reads and then fails is answered by the
  compensations registered by then, like a refusal. Releasing the lock does not fail.
- In `QuotedPayment` the payment that the gateway moves is the one it was asked for, and a
  reply says settled only when it has moved. What failed attempts leave is reduced to open,
  pending or in review. An order is not taken back by a crash (`CheckoutSettlement` has that).
- Whether Medusa takes the mount path off `req.path` is not decided: the proofs hold for both
  values of `PathSeen`, `agent_sessions` has the one with more behaviours.
- A quote is its total, its time, its key and the protocols it has parts for; what the
  gateway adds (networks, assets, recipient) follows from the total.
- Random ids, session secrets and signatures are never guessed.
- The unique index of `payment_authorization` is enforced by the database, and an
  insert that meets it is not visible to anyone.

## 3. Runs

| run | instance | question |
|---|---|---|
| `settlement_one_cart` | 1 cart, 2 requests at a time, 4 credentials (two encodings of one authorization; another authorization, signed for either of 2 totals), 2 mishaps | is a second authorization ever at stake, is a payment ever forgotten, is an order paid in full, does one request's failure undo another's work? |
| `settlement_two_carts` | 2 carts, 1 authorization, 1 mishap | does an authorization ever serve two carts? |
| `settlement_liveness` | 1 cart, 2 requests, 1 mishap, no symmetry | does every request end, is every lock given back? |
| `overdue_completion` | 1 cart, 2 requests at a time (agent's or Medusa's own), 2 credentials, 2 totals, 2 mishaps, of which lock expiry is one | what does an attempt that has lost its lock, or a native completion after a crash, put at risk? |
| `profile_fetcher` | 3 lookups at a time, 2 urls of 2 hosts, 1 client and anonymous lookups, caches of 1 entry, at most 1 fetch for the client | do slots leak, are results stale, is everybody answered? |
| `payment_ledger` | 3 calls at a time, 2 carts, 2 authorizations in 3 spellings | does the race between look-up and insert show? |
| `quoted_payment` | 2 calls at a time (1 beside a payment under way), 2 totals, 2 keys, discoveries kept for 2, failures and quotes for 1 of 3 moments, 3 changes or restarts | can a stored quote be paid, how long may a part be missing, does another amount than the total of the order ever move? |
| `agent_sessions` | `PathSeen` false, 2 requests at a time, 2 sessions, 2 API keys, 2 versions, 3 deployments, 2 faults | does a session stay on its version, what is left of a failed creation? |
| `idempotency` | 3 requests, 2 bodies, an agent with and without an API key, UCP and ACP, 1 fault | are replays honest, when does a handler run twice? |
| `agent_webhooks` | 2 invocations at a time of 4, 2 statuses, 2 posts each, a log of 2 entries, a window of 1 in 2 moments | what may an agent not know, what may metadata lose? |
| `already_completed` | 1 cart, 2 credentials, no mishap | finding, below |
| `retry_resumes` | the same | finding, below |

**Why the bounds are enough to be interesting.** Requests are not bounded in
number, only in how many run at once: a request that ends makes its worker free
for the next one, so retries, cancels after completions and third attempts all
occur. Two at a time is what the lock distinguishes (a holder and one who was
validated earlier and waits). Two totals make a stale quote possible. A mishap
is a crash at any step, one lost answer, or one lost marker write, followed by
any further requests; where two are allowed, any two of these. The proofs below drop all
these bounds. Requests that run at once are interchangeable, and so are carts, the two
encodings of one authorization (`settlement_one_cart`) and the two credentials for the same
amount along with their authorizations (`overdue_completion`): the safety runs are checked up
to these symmetries. In `profile_fetcher` two urls allow two fetches (three when fetches are
not shared), so of the limits only the client's binds; the theorem is about all three.
Caches of one entry make every second url an eviction. In `payment_ledger` the
third caller meets whatever the other two have left.

In `quoted_payment` a quote or a discovery is fresh, at its limit and
expired within the three moments, and a failure ends before an answer would; three
changes suffice for a total to change and change back around a restart with another key, or
for a shipping method that is added while the payment is pending. Its constraint
`CallsMeetEarly` bounds the run further: two calls are at work together before the first
attempt to pay, in one setting of protocol and `auto_capture` (calls depend on neither), and
one call at a time beside a payment, which is enough to replace the quote between any two
steps of it. The proofs have no such bound. In `agent_sessions` the old version offers less than the new
one, and the third deployment has the old one only, so that a pin may be served, be
missing, or offer less than what the agent declares; two faults are a failed step and
its failed compensation, or a restart and a failure. In `idempotency` the third request
finds what the race of the first two left. In `agent_webhooks` four invocations fill the
log twice over; in one moment two deliveries overlap, in the next the window has passed.
The clocks, changes, faults and events are bounded by constants in the guards
(`MaxTime`, `MaxChanges`, `MaxFaults`, `MaxEvents`), nothing else is. These four are
safety runs: they may stop at their bounds, so deadlock is not checked; nor is it in
`overdue_completion`, which ends where two admitted requests share a cart. Their modules state
no fairness: a lost webhook is never repeated and a gateway need not answer, so nothing of
what they would have to reach is promised by the code.

**Fairness.** `FairSpec` assumes weak fairness of each worker's `Step`. A started
request keeps being scheduled by the event loop, the wait for the lock ends after
30 s (`timeout: 30`), the settle call is aborted after 60 s, and the verify
call, which sets no timeout itself, ends with fetch's own. Neither new requests
nor crashes nor `MoneyMoves` are fair: the gateway may never answer or settle.
Since `LockTimeout` competes with `AcquireLock`, the run says that a waiting
request is answered, not that it is served. The fetcher's `FairSpec` assumes
weak fairness of each fetch: DNS and the first download run against one deadline of
3 s, and the second download gets what is left of it.

**Properties.** Each is stated with the code it is about in
`CheckoutSettlement`. In short: `OneAuthorizationPerCart`,
`OneCartPerAuthorization`, `ExposureIsHeld`, `FreshCallIsFirst` (what the
settlement marker is for); `OrderIsPaidInFull`, `SettlingHasAWorker` (only
without mishaps: a crash inside `completeCartWorkflow` leaves an order that
nothing in the plugin repairs, and a dead attempt leaves a `settling` marker by
design); `FrozenWhileAtStake`, `ReviewIsFinal`, `OrderIsNotTakenBack` (what no
step may do; of the first the one exception, the shipping method that a completion adds
while nobody has the lock, is part of the statement); `RequestsAreAnswered`, `LockIsReleased` (liveness);
`KeepsPaymentPromise` (refinement). In the other modules:
- `SecondNeedsOverlap`: without its lock an attempt is still protected by its marker: a
  second authorization is at stake only after a request was admitted beside another one.
- `OrderIsPaidUnlessOrphaned`: so is an order left unpaid, or its attempt died.
- `PayableUnlessUnsigned`: a quote that is stored for a cart nobody changed meanwhile is for
  its total, was not expired when it was chosen, and is signed by this deployment unless the
  very call that stores it could not sign it: an unsigned quote is never given out again.
- `PartsAreMissedBriefly`: a quote without a part for a protocol is given out only for as long
  after a failed discovery as that failure and then the quote are kept.
- `PaidIsDue`: although the quote is read three times, by three parties, and the total may
  change while a payment is pending, what moves is the total of the order, or of an attempt
  that is still known, and nothing counts as captured that has not moved.
- `ServedAtPin`: the version a request is handled in is the session's. No property says that
  a capability which a version does not offer is refused (observations, below).
- `SessionsAreWhole`: what an agent was told of is there, and what creation leaves in every
  other case, up to failed compensations and an insert that took effect and failed.
- `ReplayIsHonest`, `RetryableIsNotReplayed`, `HandledTwiceOnlyIfReopened`: what the
  idempotency middleware gives although read, write and last write are apart. The second
  is about failures of the server and the two answers of an open settlement, and no more.
- `AgentIsTold`, `OnlyOverlapsLoseFacts`: the gaps of delivery and of metadata, as the
  complete list of their causes.

`OneAuthorizationPerCart` is checked in `settlement_one_cart`, and implied by the
refinement that `settlement_two_carts` checks.

### Findings
- `already_completed`: the changelog says that completing a completed session is
  answered 409 `already_completed`. `completed_at` is checked once, before the
  lock is taken, so a completion that waits for the lock while another one
  completes the session goes on, finds the existing order and is answered 200. No
  money moves twice (`OneAuthorizationPerCart` holds).
- `retry_resumes`: the changelog says that a retry with the same credential
  resumes a pending settlement. An update prepares and stores its quote after it
  has released the lock; a late quote, or the null of a failed preparation, leaves the
  pending payment without the quote it was made for, the retry is refused by setup-payment,
  which asks for an update, and the update is refused because the payment is settling.

### Observations
Seen while modelling, in the models as the code has them, and no property says otherwise:
- `README.md:152` of the core package says that cart routes answer 404 in `2026-01-23`. The
  capability is compared before the pin is applied (`middlewares.ts:241` against `:252-271`), so
  an agent whose profile cannot be resolved has the cart route of its session handled in that
  version even if the check sees the whole path; if it does not (`PathSeen`), it refuses
  nothing. It also says that a request which declares another version than its session's gets
  422; a request for a cart that declares `2026-01-23` gets 404 if the check sees its path.
- `README.md:154` says that responses under 500 are cached for 24 hours. The two answers of
  an open settlement are not (`idempotency.ts:22-25`), so that a retry with the same key resumes.
- The retry of a pending payment may itself add a shipping method, before the lock and the
  guard (`complete-checkout-session.ts:72`), to a cart of digital goods that was paid without
  one. If that changes the total, setup-payment refuses the retry and asks for an update, which
  is refused because the payment is settling; `FrozenWhileAtStake` names the exception.
- The admin route "forces" a refresh of the settings, which does nothing within a minute of
  the last one; nobody reads the saved settings when the process starts.
- An update, or a completion with another credential, that is refused because a payment is
  settling is an ordinary 4xx for the idempotency middleware: the refusal is replayed for
  24 h, also when the payment has settled since.
- A quote prepared while the UCP discovery was failing has no UCP part and is used again
  for as long as it is fresh (15 min), although the failure is cached for 60 s.
- Terms that cannot be signed are stored without a signature, and the log says that checkout
  will be rejected (`prism-payment-handler/service.ts:129-133`); the agent is shown them.
- A completion that is refused afterwards leaves the shipping method it added, and the total.
- The cart routes change the total and leave the quote of the old one, which the agent
  cannot pay with until a checkout route has prepared another.
- After a change of the Prism key the capture of a settled payment is refused, because its
  quote is signed with the old key.
- Prepare and discovery calls to Prism have no timeout.
- No route sets the webhook address of a session.
- `README.md:335` of the core package says that the validate hook lets Medusa's completion
  through only inside the plugin's. After a crash it is let through from the moment the lock
  is gone until the marker is 120 s old (`overdue_completion` has such states, and shows that
  neither a second payment nor an unpaid order follows).
- A retry with the same credential that is admitted because the first attempt has lost its
  lock finds that attempt's order, answers with it unpaid, and clears the marker; the first
  attempt may then fail, take the order back and leave nothing that holds its payment. The
  step that leads there, `overlapped`, is where the model ends.
- An attempt that has lost its lock releases the lock of the next one.

## 4. Proofs

`tlapm` checks every theorem for any sets of carts, requests, credentials and
authorizations, finite or not, and any `MaxMishaps`; the only assumption on the
settlement is `ConstantsAssumption` (types of `AuthOf` and `AmountOf`, and that `None`
is no value).

1. `TypeCorrect`: one lemma per action, on the whole record types; the proofs
   above it start from typed states.
2. `SettlementIsSafe`: `Spec => []SettlementSafe`. The safety properties are not
   inductive: that a first attempt's refusal may be forgotten depends on what the
   guard saw several steps and possibly several other requests ago. The invariant
   says, for every step a worker can be at, what it may rely on (`WorkerOK`: it
   holds the lock, the marker is what it saw or its own, its authorization is
   reserved, the payment session is its own, and a first attempt meets no exposure
   but its own), and for every exposed pair who holds it (`ExposureOK`: the ledger
   names the cart, and either the marker holds that authorization or the order is
   beyond undoing, `Kept`). The proof is by action; a frame lemma says that a
   worker under one lock does not disturb workers on other carts nor those that
   do not hold the lock, so each action proves its own worker's clauses and the
   exposure clauses of its own cart.
3. `ExposureHeld`, `OneAuthorization`, `AuthorizationServesOneCart`,
   `FreshCallsAreFirst`: consequences of the invariant.
4. `TotalIsFrozen`, `ReviewStays`, `OrderStays`: action properties. For each a
   lemma lists the few actions that write the variable, and the invariant rules
   out the rest. `AddShippingMethod` writes the total, and remains as the exception that
   the property names.
5. `PromiseKept`: `CheckoutSettlement` implements `PaymentPromise`. `CallSettle`
   maps to `Expose` (the invariant gives that nothing else is at stake),
   `SettleReply` to `Refuse` or a stutter, `MoneyMoves` to `Charge`.
6. `OrderPaidInFull`, `SettlingIsWorkedOn`: a layer of the same invariant about
   amounts and about histories without mishaps (`PaymentSafe`). A payment session
   is for the cart's total, a settle call under way carries that total, a session
   that counts as settled was charged it, and so was an order, for the total it was made
   for (`due`), which later changes of the cart leave alone; while nothing went wrong, an order is paid or its
   attempt is still at work on it (`Making`), and a `settling` marker has its holder
   in an attempt. The total may change as soon as no attempt has the lock, and then takes
   a payment session for another amount with it; these clauses are proved again at every
   step that writes the total.
7. `OverdueIsSafe`, `SecondTakesOverlap`, `OrderPaidUnlessOrphaned`: there is no lock
   to rely on, so the frame argument of `SettlementSafe` is not available. In its
   place stands `OneInside`: until `overlapped`, at most one request of a cart is past
   admission. A native completion was admitted by no marker check of its own; what it
   may rely on is what a dead or overdue attempt has left: the marker's
   credential is the one in the payment session, so both ask for the same
   authorization. A shipping method that is added changes the total
   only while nobody is inside, or the cart is `overlapped`. An order whose payment is not settled belongs to a worker that is
   making it, or is `orphaned`. TLC checked `OverdueSafe` on the instance of
   `overdue_completion` (5.4 million states up to symmetry) before it was proved; no run repeats that.
8. `GrantIsExclusive`, `LedgerIsRegistry` (and a `TypeCorrect` here as in the other
   modules): the invariant says that a key has one row,
   that a call whose insert succeeded has its row, and that a granted answer is
   backed by one; the insert is the registry's `Take`, the end of a call its `Reply`.
9. `CountersAlwaysMatch`, `LimitsAlwaysHold`, `FetchIsShared`: one inductive
   invariant (`SlotInv`) over the counted sets; a start adds one fetch to each set it
   belongs to, an end removes it, and every other step leaves them alone. It assumes
   finitely many lookups at a time (`FetcherAssumption`).
10. `NewestAnswers`, `CachesStayBounded`, `FailuresNeverEvict`: each cache is a sequence
   with one entry per url, and an entry is what the latest fetch of its url found
   (`CacheInv`). That rests on `OneFetchPerUrl`: a fetch that was overtaken
   by a newer one of the same url would store the older result last. What removing,
   evicting and touching an entry does to a sequence (`Without`, `Room`, `Touched`,
   `Expired`) are lemmas proved from the indices that the operators select,
   without induction.
11. `ReplaysAreHonest`, `RetriesReachTheHandler`, `HandledOnce`: the invariant says that an answer
   in the cache was given by a handler and may be kept, and that a scope nobody reopened is
   in the hands of one request and has an entry from the moment that request marked it.
12. `StaysOnItsVersion`, `MadeWhole`: the invariant says that a session in
   the making is known to one request alone and told to nobody, and what
   `ApplyUcpSessionPin` makes of a version (`PinApplied`, a lemma about that operator alone).
   A pin does not change once the agent was told of the session, so other requests do not
   disturb this. Nothing here depends on the capability check, so `PathSeen` is free.
13. `StoredQuotesArePayable`, `MissesAreBrief`, `QuotesGoOn`, `DueIsPaid`: of a call, that what
   it read is the cart's total unless it is outdated, that what it will store bears the
   deployment's key, or none if it is its own, and that each missing part, in a quote or in a
   cache, has a recent enough miss behind it. These are theorems of `QuotesSpec`, and
   `QuotedPayment` refines it (`QuotesGoOn`). Of the payment: that its session is for the
   cart's total while the attempt has the lock (and only then), that the order is made for what was
   signed, and that an attempt the gateway was asked for is one that is resumed, held or
   ordered, so that what may have moved stays known when the total changes.
14. `AgentHasBeenTold`: an update that is alone under way carries the newest status, because
   its handler read the order after the last event; so what the agent was told last is
   the newest, or a delivery is undecided, or the history says why it was not sent
   (`TellInv`).
15. `OverlapsLoseFacts`: what a write put down that overlapped with nobody is in the cart and
   in whatever any handler has read since (`FactInv`); of a log of limited length, that an
   entry is no further from the end than the number of entries written after it.

Every safety invariant and every action property of a passing run is proved.
Only model-checked are `LookupsAreAnswered`, `RequestsAreAnswered` and `LockIsReleased`
(liveness under fairness and ENABLED are beyond the prover) and the findings, whose
point is the counterexample.

## 5. Plan

Done: the modules of section 2. Left, most important first:

1. The payment collection's own amount, with the refresh that cancel and the error path
   run after the lock is released.
2. The provider's updatePayment, cancel, delete and refund.

Theorems worth proving next: the invariants of these two additions, and that the
reservation steps of `CheckoutSettlement` are steps of `AuthorizationRegistry`, which
the model states by construction and `PaymentLedger` justifies from below.
