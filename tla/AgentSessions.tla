---------------------------- MODULE AgentSessions ----------------------------
(***************************************************************************)
(* From a request to its handler: authentication, the version a request is *)
(* served in, who may see a session, the version the session stays on; and *)
(* the creation of sessions, a workflow that is undone when it fails.      *)
(* Every look-up is an await, so that requests interleave; the store may   *)
(* be restarted with other versions or given another API key meanwhile.    *)
(*                                                                         *)
(* A session stands for its cart, its agent_session row and its order:     *)
(* they share an id.  Ids and secrets are random in the code, so that an   *)
(* agent has those it was told and no others.                              *)
(***************************************************************************)
EXTENDS VersionNegotiation, Naturals

CONSTANTS
    Slots,          \* requests that may be under way at a time
    Sessions,       \* sessions that may be created
    ApiKeys,        \* API keys the store may have
    Configurations, \* the version registries a deployment may start with
    PathSeen,       \* the version middleware sees the whole path of a request:
                    \* it is mounted by Medusa, which may take the prefix off
    MaxFaults,      \* bound on restarts, changes of settings and failures of the
                    \* database, taken together
    None            \* no session, no owner

ASSUME SessionsAssumption ==
    /\ Configurations \subseteq Registries
    /\ None \notin Sessions
    /\ PathSeen \in BOOLEAN
    /\ MaxFaults \in Nat

VARIABLES
    registry,   \* the version registry of the running deployment
    apiKey,     \* the API key that the store accepts
    sessions,   \* carts, agent_session rows and orders
    told,       \* sessions whose creation was answered
    req,        \* the request in each slot
    faults

vars == <<registry, apiKey, sessions, told, req, faults>>

-----------------------------------------------------------------------------

Routes ==
    [op : {"create", "read", "update"}, capability : {"cart", "checkout"}]
        \cup {[op |-> "complete", capability |-> "checkout"],
              [op |-> "cancel", capability |-> "checkout"],
              [op |-> "cancel", capability |-> "cart"],
              [op |-> "order", capability |-> "order"]}

\* ACP has checkout sessions and orders only.
Offered(protocol) == { route \in Routes : protocol = "acp" => route.capability # "cart" }

\* A faulty form of PinEnforced: rejections are put off on every path.
PinEnforcedEverywhere == {"create", "read", "update", "complete", "cancel", "order"}

\* The paths of a session, on which its version is enforced.
PinEnforced == {"read", "update", "complete", "cancel"}

NoSession == [cart |-> FALSE, open |-> FALSE, owner |-> None, pin |-> NoVersion, order |-> FALSE]

NoRequest ==
    [pc |-> "new", protocol |-> "none", op |-> "none", capability |-> "none", session |-> None,
     key |-> None, version |-> NoVersion, outcome |-> "unresolved", rejection |-> "none"]

Init ==
    /\ registry \in Configurations
    /\ apiKey \in ApiKeys
    /\ sessions = [s \in Sessions |-> NoSession]
    /\ told = {}
    /\ req = [r \in Slots |-> NoRequest]
    /\ faults = 0

Fault   == faults < MaxFaults /\ faults' = faults + 1
NoFault == UNCHANGED faults

At(r, step)   == req[r].pc = step
GoTo(r, step) == req' = [req EXCEPT ![r].pc = step]

\* The request is answered and leaves nothing behind.
Leave(r) == req' = [req EXCEPT ![r] = NoRequest]

\* What a request of this route passes next.
AfterVersion(op) ==
    CASE op = "create" -> "create_cart"
      [] op = "order"  -> "order_owner"
      [] OTHER         -> "owner"

\* The session that a route is called for: one the agent was told of.
Target(op) == IF op = "create" THEN {None} ELSE told

-----------------------------------------------------------------------------
(* Authentication and version.  A request that is refused leaves nothing.  *)

ValidateAcpRequest(r) ==
    /\ At(r, "new")
    /\ \E route \in Offered("acp") : \E s \in Target(route.op) :
        req' = [req EXCEPT ![r] = [@ EXCEPT
                   !.protocol = "acp", !.op = route.op, !.capability = route.capability,
                   !.session = s, !.key = apiKey, !.pc = AfterVersion(route.op)]]
    /\ UNCHANGED <<registry, apiKey, sessions, told, faults>>

\* A rejection that the session can make good is put off on the paths of a
\* session.  The capability is the one that the path says, if it is seen, and is
\* compared with the version known so far.
Admits(res, route) ==
    /\ res.rejection = "none" \/ (PinRecoverable(res) /\ route.op \in PinEnforced)
    /\ PathSeen => Supports(res.version, route.capability)

\* A UCP request names its agent, whose profile is looked up.  The look-up may
\* end in any way.
ResolveUcpVersionMiddleware(r) ==
    /\ At(r, "new")
    /\ \E profile \in Profiles, route \in Offered("ucp") : \E s \in Target(route.op) :
        LET res == ResolveUcpVersion(registry, profile) IN
            /\ Admits(res, route)
            /\ req' = [req EXCEPT ![r] = [@ EXCEPT
                   !.protocol = "ucp", !.op = route.op, !.capability = route.capability,
                   !.session = s, !.pc = AfterVersion(route.op),
                   !.version = res.version, !.outcome = res.outcome, !.rejection = res.rejection]]
    /\ UNCHANGED <<registry, apiKey, sessions, told, faults>>

-----------------------------------------------------------------------------
(* Ownership and pin.                                                      *)

\* What a request presents: its API key, or the secret of some session the
\* agent was told of.
Fingerprints(r) ==
    IF req[r].protocol = "acp" THEN {<<"acp", req[r].key>>}
    ELSE { <<"ucp", s>> : s \in { s \in told : sessions[s].owner = <<"ucp", s>> } }

VerifySessionOwnership(s, fingerprint) == sessions[s].open /\ sessions[s].owner = fingerprint

\* The row is read.  Without a row, with another owner, or if the read fails,
\* the request is refused.
VerifySessionOwner(r) ==
    /\ At(r, "owner")
    /\ \/ /\ \E fingerprint \in Fingerprints(r) : VerifySessionOwnership(req[r].session, fingerprint)
          /\ GoTo(r, IF req[r].protocol = "ucp" THEN "pin" ELSE "handle")
       \/ Leave(r)
    /\ UNCHANGED <<registry, apiKey, sessions, told, faults>>

\* An order is found through its cart, whose session says whose it is.
VerifyOrderOwner(r) ==
    /\ At(r, "order_owner")
    /\ \/ /\ sessions[req[r].session].order
          /\ \E fingerprint \in Fingerprints(r) : VerifySessionOwnership(req[r].session, fingerprint)
          /\ GoTo(r, "handle")
       \/ Leave(r)
    /\ UNCHANGED <<registry, apiKey, sessions, told, faults>>

\* The row is read a second time.
EnforceSessionVersionPin(r) ==
    /\ At(r, "pin")
    /\ LET resolution == [version |-> req[r].version, outcome |-> req[r].outcome,
                          rejection |-> req[r].rejection]
           pinned == ApplyUcpSessionPin(registry, resolution, sessions[req[r].session].pin)
       IN  IF pinned.rejection # "none" THEN Leave(r)
           ELSE req' = [req EXCEPT ![r].version = pinned.version, ![r].rejection = "none",
                                   ![r].pc = "handle"]
    /\ UNCHANGED <<registry, apiKey, sessions, told, faults>>

-----------------------------------------------------------------------------
(* Creation.                                                               *)

\* The store has no such currency or region, or Medusa does not accept the cart.
RefuseCreation(r) ==
    /\ At(r, "create_cart")
    /\ Leave(r)
    /\ UNCHANGED <<registry, apiKey, sessions, told, faults>>

CreateCart(r) ==
    /\ At(r, "create_cart")
    /\ \E s \in Sessions :
        /\ sessions[s] = NoSession /\ \A q \in Slots : req[q].session # s
        /\ sessions' = [sessions EXCEPT ![s].cart = TRUE]
        /\ req' = [req EXCEPT ![r].session = s, ![r].pc = "open_session"]
    /\ UNCHANGED <<registry, apiKey, told, faults>>

\* A session belongs to the API key it is created with, or to the secret that
\* is issued for it; its version is the one that the agent named, if any.
NewSession(r) ==
    [sessions[req[r].session] EXCEPT
        !.open = TRUE,
        !.owner = IF req[r].protocol = "acp" THEN <<"acp", req[r].key>>
                  ELSE <<"ucp", req[r].session>>,
        !.pin = IF req[r].protocol = "acp" THEN NoVersion
                ELSE PinOf([version |-> req[r].version, outcome |-> req[r].outcome,
                            rejection |-> req[r].rejection])]

\* A step that fails is not compensated itself: an insert that took effect, but
\* failed for its caller, leaves its row.
OpenAgentSession(r) ==
    LET opened == [sessions EXCEPT ![req[r].session] = NewSession(r)]
    IN  /\ At(r, "open_session")
        /\ \/ NoFault /\ GoTo(r, "add_shipping") /\ sessions' = opened
           \/ Fault /\ GoTo(r, "delete_cart") /\ sessions' \in {sessions, opened}
        /\ UNCHANGED <<registry, apiKey, told>>

\* A faulty form of AddShipping: the cart alone is taken back.
AddShippingOrDeleteCart(r) ==
    /\ At(r, "add_shipping")
    /\ \E step \in {"present", "delete_cart"} : GoTo(r, step)
    /\ UNCHANGED <<registry, apiKey, sessions, told, faults>>

\* With an address, the cheapest shipping option is added, which may fail.
AddShipping(r) ==
    /\ At(r, "add_shipping")
    /\ \E step \in {"present", "discard_session"} : GoTo(r, step)
    /\ UNCHANGED <<registry, apiKey, sessions, told, faults>>

\* The failed workflow is undone, last step first.  A compensation that fails
\* leaves the rest as it is.
DiscardSession(r) ==
    /\ At(r, "discard_session")
    /\ \/ /\ NoFault
          /\ sessions' = [sessions EXCEPT ![req[r].session] = [NoSession EXCEPT !.cart = TRUE]]
          /\ GoTo(r, "delete_cart")
       \/ Fault /\ Leave(r) /\ UNCHANGED sessions
    /\ UNCHANGED <<registry, apiKey, told>>

DeleteCart(r) ==
    /\ At(r, "delete_cart")
    /\ Leave(r)
    /\ \/ NoFault /\ sessions' = [sessions EXCEPT ![req[r].session].cart = FALSE]
       \/ Fault /\ UNCHANGED sessions
    /\ UNCHANGED <<registry, apiKey, told>>

\* The route reads the cart back, prepares its payment and answers.  When that
\* fails the workflow has ended: the session stays, and nobody was told of it.
PresentSession(r) ==
    /\ At(r, "present")
    /\ Leave(r)
    /\ \/ NoFault /\ told' = told \cup {req[r].session}
       \/ Fault /\ UNCHANGED told
    /\ UNCHANGED <<registry, apiKey, sessions>>

\* The handler of a session or of an order shows it, changes what is no
\* concern of this module, or fails.
Handle(r) ==
    /\ At(r, "handle")
    /\ Leave(r)
    /\ UNCHANGED <<registry, apiKey, sessions, told, faults>>

\* A completion succeeds only with an order.
PlaceOrder(r) ==
    /\ At(r, "handle") /\ req[r].op = "complete"
    /\ sessions' = [sessions EXCEPT ![req[r].session].order = TRUE]
    /\ Leave(r)
    /\ UNCHANGED <<registry, apiKey, told, faults>>

-----------------------------------------------------------------------------
(* The deployment.                                                         *)

\* The process is restarted with whatever it is configured for: settings that
\* were saved are not read.  Requests under way are lost.
Restart ==
    /\ Fault
    /\ registry' \in Configurations
    /\ apiKey' \in ApiKeys
    /\ req' = [r \in Slots |-> NoRequest]
    /\ UNCHANGED <<sessions, told>>

\* Less than a minute after the last time, settings are not read back.
RefreshSettings(saved) == apiKey' \in {saved, apiKey}

\* An administrator saves settings, perhaps with another API key.
SaveSettings ==
    /\ Fault
    /\ \E saved \in ApiKeys \ {apiKey} : RefreshSettings(saved)
    /\ UNCHANGED <<registry, sessions, told, req>>

RequestStep(r) ==
    \/ ValidateAcpRequest(r) \/ ResolveUcpVersionMiddleware(r)
    \/ VerifySessionOwner(r) \/ VerifyOrderOwner(r) \/ EnforceSessionVersionPin(r)
    \/ RefuseCreation(r) \/ CreateCart(r) \/ OpenAgentSession(r) \/ AddShipping(r)
    \/ DiscardSession(r) \/ DeleteCart(r) \/ PresentSession(r)
    \/ Handle(r) \/ PlaceOrder(r)

Next == (\E r \in Slots : RequestStep(r)) \/ Restart \/ SaveSettings

Spec == Init /\ [][Next]_vars

-----------------------------------------------------------------------------
(* Properties.                                                             *)

Steps == {"new", "owner", "order_owner", "pin", "handle", "create_cart", "open_session",
          "add_shipping", "present", "discard_session", "delete_cart"}

Owners == {None} \cup ({"acp"} \X ApiKeys) \cup ({"ucp"} \X Sessions)

\* Types; a rejection that was put off is settled before the handler runs.
TypeOK ==
    /\ registry \in Configurations /\ apiKey \in ApiKeys
    /\ sessions \in [Sessions -> [cart : BOOLEAN, open : BOOLEAN, owner : Owners,
                                  pin : Versions \cup {NoVersion}, order : BOOLEAN]]
    /\ told \subseteq Sessions
    /\ req \in [Slots ->
           [pc : Steps, protocol : {"none", "acp", "ucp"}, op : {"none"} \cup { o.op : o \in Routes },
            capability : {"none"} \cup Capabilities, session : Sessions \cup {None},
            key : ApiKeys \cup {None}, version : Versions \cup {NoVersion},
            outcome : Outcomes, rejection : Rejections]]
    /\ \A r \in Slots : req[r].pc \notin {"owner", "pin"} => req[r].rejection = "none"
    /\ faults \in 0..MaxFaults

\* Whatever is read or done on a session that is bound to a version is read or
\* done in that version, through changes of configuration and profiles that
\* cannot be read.
ServedAtPin ==
    \A r \in Slots :
        /\ At(r, "handle") /\ req[r].protocol = "ucp" /\ req[r].op \in PinEnforced
        /\ sessions[req[r].session].pin # NoVersion
        => req[r].version = sessions[req[r].session].pin

\* What an agent was told of is there, with its cart, whatever failed while
\* sessions were created.  Unless something failed, a session has its cart, and a
\* cart without a session is one that is being created or taken back; a failure
\* of the database in between, or a restart, may leave the one or the other behind.
SessionsAreWhole ==
    /\ \A s \in told : sessions[s].open /\ sessions[s].cart
    /\ faults = 0 => \A s \in Sessions :
           /\ sessions[s].open => sessions[s].cart
           /\ sessions[s].cart /\ ~sessions[s].open =>
                  \E r \in Slots : req[r].session = s /\ req[r].pc \in {"open_session", "delete_cart"}
=============================================================================
