-------------------------- MODULE IdempotencyCache --------------------------
(***************************************************************************)
(* The idempotency middleware of the POST and PUT routes.  The cache is    *)
(* read, then written, then the handler runs, then what it answered is     *)
(* written without anybody waiting for it: between any two of these steps  *)
(* other requests with the same key may come in, entries may expire, the   *)
(* cache may fail and the process may be restarted.                        *)
(***************************************************************************)
EXTENDS Naturals, FiniteSets

CONSTANTS
    Requests,       \* requests with an Idempotency-Key; those without are refused
    ApiKeys,        \* values of Authorization or X-API-Key
    Agents,         \* values of UCP-Agent
    Versions,       \* UCP versions that requests are served in
    Keys,           \* an Idempotency-Key on a path
    Bodies,         \* request bodies, up to their hash
    MaxFaults,      \* bound on restarts, answers that expire and failures of the
                    \* cache, taken together
    None            \* no API key, no version

ASSUME IdempotencyAssumption ==
    /\ None \notin ApiKeys \cup Agents \cup Versions \cup Bodies
    /\ MaxFaults \in Nat

VARIABLES
    cache,      \* the entry of every scope
    req,        \* requests
    faults,
    reopened    \* history: scopes that two requests found empty before either
                \* wrote an entry, or whose entry went before its time

vars == <<cache, req, faults, reopened>>

-----------------------------------------------------------------------------

\* A key identifies its bearer, whichever header it is sent in; without a key
\* the agent is identified by its header.
ExtractIdentity(apiKey, agent) == IF apiKey # None THEN apiKey ELSE agent

\* Answers to a UCP request have the format of a version.
CompatVersions(protocol) == IF protocol = "ucp" THEN Versions ELSE {None}

Scopes == [identity : ApiKeys \cup Agents, version : Versions \cup {None}, key : Keys]

\* What the handler answers.  Only the two answers of a completion whose payment
\* is still settling, status 202 and 409 settlement_pending, are
\* "settlement_open".  Whatever else is refused while it settles is
\* "settlement_refused": a completion with another credential (409
\* payment_pending_mismatch) or under review (409 payment_requires_review, 200
\* requires_escalation), an update, a cancellation.
Codes ==
    {"none", "ok", "client_error", "server_error", "settlement_open", "settlement_refused"}

NoEntry == [status |-> "absent", body |-> None, code |-> "none"]

Entries ==
    {NoEntry} \cup [status : {"processing"}, body : Bodies, code : {"none"}]
              \cup [status : {"completed"}, body : Bodies, code : Codes \ {"none"}]

NewRequest ==
    [pc |-> "new", scope |-> [identity |-> None, version |-> None, key |-> None],
     body |-> None, code |-> "none", replayed |-> FALSE]

Init ==
    /\ cache = [s \in Scopes |-> NoEntry]
    /\ req = [r \in Requests |-> NewRequest]
    /\ faults = 0
    /\ reopened = {}

Fault   == faults < MaxFaults /\ faults' = faults + 1
NoFault == UNCHANGED faults

At(r, step) == req[r].pc = step

\* The request leaves nothing behind, and its name is free for another one.
Leave(r) == req' = [req EXCEPT ![r] = NewRequest]

\* A faulty form of Processing: the entry does not say of which body.
ProcessingOfAny(body) == [status |-> "processing", body |-> None, code |-> "none"]

Processing(body)      == [status |-> "processing", body |-> body, code |-> "none"]
Completed(body, code) == [status |-> "completed", body |-> body, code |-> code]

Write(s, entry) == cache' = [cache EXCEPT ![s] = entry]

-----------------------------------------------------------------------------
(* The middleware.                                                         *)

\* A request is made.
Arrive(r) ==
    /\ At(r, "new")
    /\ \E protocol \in {"acp", "ucp"}, apiKey \in ApiKeys \cup {None}, agent \in Agents,
          key \in Keys, body \in Bodies : \E version \in CompatVersions(protocol) :
        /\ protocol = "acp" => apiKey # None
        /\ req' = [req EXCEPT ![r] = [@ EXCEPT
                      !.pc = "lookup", !.body = body,
                      !.scope = [identity |-> ExtractIdentity(apiKey, agent),
                                 version |-> version, key |-> key]]]
    /\ UNCHANGED <<cache, faults, reopened>>

\* A faulty form of Conflicts: the body is not compared.
NeverConflicts(r, entry) == entry.body = None

\* The key was used with another body.
Conflicts(r, entry) == entry.body # req[r].body

\* The requests that found no entry for the scope and have not written one yet.
AboutToMark(s) == { q \in Requests : At(q, "mark") /\ req[q].scope = s }

\* The entry found decides; a request that finds none goes on to write one.
LookUp(r) ==
    LET s == req[r].scope  entry == cache[s] IN
    /\ At(r, "lookup")
    /\ \/ /\ entry = NoEntry
          /\ req' = [req EXCEPT ![r].pc = "mark"]
          /\ reopened' = IF AboutToMark(s) = {} THEN reopened ELSE reopened \cup {s}
       \/ /\ entry # NoEntry
          /\ Conflicts(r, entry) \/ entry.status = "processing"
          /\ Leave(r) /\ UNCHANGED reopened
       \/ /\ entry.status = "completed" /\ ~Conflicts(r, entry)
          /\ req' = [req EXCEPT ![r].pc = "done", ![r].code = entry.code, ![r].replayed = TRUE]
          /\ UNCHANGED reopened
    /\ UNCHANGED <<cache, faults>>

\* The read or the write that comes before the handler fails: the route fails.
CacheFails(r) ==
    /\ At(r, "lookup") \/ At(r, "mark")
    /\ Fault /\ Leave(r)
    /\ UNCHANGED <<cache, reopened>>

\* A faulty form of MarkProcessing: nothing is written before the handler ends.
MarkNothing(r) ==
    /\ At(r, "mark")
    /\ req' = [req EXCEPT ![r].pc = "handle"]
    /\ UNCHANGED <<cache, faults, reopened>>

MarkProcessing(r) ==
    /\ At(r, "mark")
    /\ Write(req[r].scope, Processing(req[r].body))
    /\ req' = [req EXCEPT ![r].pc = "handle"]
    /\ UNCHANGED <<faults, reopened>>

\* A faulty form of IsCacheable: only answers of a failing server are left out.
IsBelow500(code) == code # "server_error"

\* The answers that are kept: all but those of a failing server and the two
\* that say that the payment is still settling.
IsCacheable(code) == code \notin {"server_error", "settlement_open"}

\* The handler answers.
Handle(r) ==
    /\ At(r, "handle")
    /\ \E code \in Codes \ {"none"} :
        req' = [req EXCEPT ![r].code = code, ![r].pc = IF IsCacheable(code) THEN "store" ELSE "forget"]
    /\ UNCHANGED <<cache, faults, reopened>>

\* The answer takes the place of whatever is there.
StoreAnswer(r) ==
    /\ At(r, "store")
    /\ Write(req[r].scope, Completed(req[r].body, req[r].code))
    /\ req' = [req EXCEPT ![r].pc = "done"]
    /\ UNCHANGED <<faults, reopened>>

\* Whatever is there goes, another request's entry included.
Forget(r) ==
    /\ At(r, "forget")
    /\ Write(req[r].scope, NoEntry)
    /\ Leave(r)
    /\ reopened' = reopened \cup
          (IF cache[req[r].scope] \in {NoEntry, Processing(req[r].body)} THEN {} ELSE {req[r].scope})
    /\ UNCHANGED faults

\* Nobody waits for these writes, and a failure is logged at most.
WriteFails(r) ==
    /\ Fault
    /\ \/ At(r, "store") /\ req' = [req EXCEPT ![r].pc = "done"]
       \/ At(r, "forget") /\ Leave(r)
    /\ UNCHANGED <<cache, reopened>>

-----------------------------------------------------------------------------
(* The cache and the process.                                              *)

\* A processing entry lives 60 s, whether its handler is at work or not.
ExpireProcessing(s) ==
    /\ cache[s].status = "processing"
    /\ Write(s, NoEntry)
    /\ reopened' = reopened \cup {s}
    /\ UNCHANGED <<req, faults>>

\* An answer lives 24 h.
ExpireCompleted(s) ==
    /\ cache[s].status = "completed"
    /\ Fault
    /\ Write(s, NoEntry)
    /\ reopened' = reopened \cup {s}
    /\ UNCHANGED req

\* Requests under way end without an answer, writes not awaited are lost.  The
\* entries survive in Redis and are lost with the memory of the process.
Restart ==
    /\ Fault
    /\ req' = [r \in Requests |->
                 CASE req[r].pc \in {"new", "done"} -> req[r]
                   [] req[r].pc = "store"           -> [req[r] EXCEPT !.pc = "done"]
                   [] OTHER                         -> NewRequest]
    /\ \/ UNCHANGED <<cache, reopened>>
       \/ /\ cache' = [s \in Scopes |-> NoEntry]
          /\ reopened' = reopened \cup { s \in Scopes : cache[s] # NoEntry }

RequestStep(r) ==
    \/ Arrive(r) \/ LookUp(r) \/ MarkProcessing(r) \/ Handle(r) \/ StoreAnswer(r) \/ Forget(r)
    \/ CacheFails(r) \/ WriteFails(r)

Next ==
    \/ \E r \in Requests : RequestStep(r)
    \/ \E s \in Scopes : ExpireProcessing(s) \/ ExpireCompleted(s)
    \/ Restart

Spec == Init /\ [][Next]_vars

-----------------------------------------------------------------------------
(* Properties.                                                             *)

Steps == {"new", "lookup", "mark", "handle", "store", "forget", "done"}

\* Types; what is kept is an answer that may be kept.
TypeOK ==
    /\ cache \in [Scopes -> Entries]
    /\ \A r \in Requests :
        /\ req[r].pc \in Steps /\ req[r].code \in Codes /\ req[r].replayed \in BOOLEAN
        /\ req[r].pc # "new" => req[r].scope \in Scopes /\ req[r].body \in Bodies
    /\ faults \in 0..MaxFaults
    /\ reopened \subseteq Scopes

\* A replay repeats what the handler said to an earlier request of the same
\* agent, version, path, key and body.
ReplayIsHonest ==
    \A r \in Requests : req[r].replayed =>
        \E q \in Requests :
            /\ ~req[q].replayed /\ req[q].pc = "done"
            /\ req[q].scope = req[r].scope /\ req[q].body = req[r].body
            /\ req[q].code = req[r].code

\* A retry under its key reaches the handler again after a failure of the
\* server and after an answer that the payment is still settling.  No more than
\* that: what was refused because a payment was settling is repeated for as long
\* as its entry lives, also when the payment has settled since.
RetryableIsNotReplayed ==
    \A r \in Requests :
        req[r].replayed => req[r].code \notin {"server_error", "settlement_open"}

\* The handler is at work for r, or has given it an answer that is to be kept.
Handled(r) ==
    req[r].pc \in {"handle", "store"} \/ (req[r].pc = "done" /\ ~req[r].replayed)

\* Two requests with the same scope are both handled only if both looked for
\* an entry before either wrote one, or if an entry went before its time.  No
\* failure of the handler and of the cache, and no restart that keeps the
\* cache, is a third way.
HandledTwiceOnlyIfReopened ==
    \A q, r \in Requests :
        q # r /\ Handled(q) /\ Handled(r) /\ req[q].scope = req[r].scope
            => req[r].scope \in reopened
=============================================================================
