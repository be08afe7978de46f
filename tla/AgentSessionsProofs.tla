-------------------------- MODULE AgentSessionsProofs --------------------------
(***************************************************************************)
(* Sessions and the version they are served in, for any versions,          *)
(* deployments, requests and faults: a session stays on its version, and   *)
(* what creation leaves behind is whole.                                   *)
(***************************************************************************)
EXTENDS AgentSessions, TLAPS

SessionRecords == [cart : BOOLEAN, open : BOOLEAN, owner : Owners,
                   pin : Versions \cup {NoVersion}, order : BOOLEAN]

RequestRecords ==
    [pc : Steps, protocol : {"none", "acp", "ucp"}, op : {"none"} \cup { o.op : o \in Routes },
     capability : {"none"} \cup Capabilities, session : Sessions \cup {None},
     key : ApiKeys \cup {None}, version : Versions \cup {NoVersion},
     outcome : Outcomes, rejection : Rejections]

\* A request creates its session, or was called for one.
CreatingSteps == {"open_session", "add_shipping", "present", "discard_session", "delete_cart"}
UsingSteps    == {"owner", "order_owner", "pin", "handle"}

Creating(r) == req[r].pc \in CreatingSteps

\* A session in the making is known to the request that makes it alone; unless
\* something failed, it is opened before its cart is kept and discarded before
\* its cart is deleted.
CreationOK(r) ==
    Creating(r) =>
        /\ req[r].session \in Sessions \ told
        /\ sessions[req[r].session].cart
        /\ req[r].pc \in {"add_shipping", "present", "discard_session"} =>
               sessions[req[r].session].open
        /\ req[r].pc = "open_session" \/ (req[r].pc = "delete_cart" /\ faults = 0) =>
               ~sessions[req[r].session].open

\* The version in which a UCP request is served: that of the session, if it has one.
VersionOK(r) ==
    /\ req[r].protocol = "ucp" /\ req[r].pc = "handle" /\ req[r].op \in PinEnforced
    /\ sessions[req[r].session].pin # NoVersion
    => req[r].version = sessions[req[r].session].pin

RequestOK(r) ==
    /\ req[r].pc \in {"new", "create_cart"} => req[r].session = None
    /\ req[r].pc \in UsingSteps => req[r].session \in told
    /\ req[r].pc = "order_owner" => req[r].op = "order"
    /\ req[r].rejection # "none" => req[r].outcome = "unresolved" /\ req[r].protocol = "ucp"
    /\ req[r].protocol = "acp" => req[r].key \in ApiKeys
    /\ CreationOK(r)
    /\ VersionOK(r)

\* Sessions in the making differ.
MakersDiffer ==
    \A q, r \in Slots : q # r /\ Creating(q) /\ Creating(r) => req[q].session # req[r].session

\* The inductive invariant.
SessionsInv ==
    /\ TypeOK
    /\ \A r \in Slots : RequestOK(r)
    /\ MakersDiffer
    /\ SessionsAreWhole

-----------------------------------------------------------------------------
(* Versions.                                                               *)

LEMMA RegistryTyped == ASSUME TypeOK PROVE registry.current \in Versions /\ registry.enabled \subseteq Versions
  BY SessionsAssumption DEF TypeOK, Registries

LEMMA ResolutionTyped ==
    ASSUME NEW reg, reg.current \in Versions, reg.enabled \subseteq Versions, NEW profile \in Profiles
    PROVE  /\ ResolveUcpVersion(reg, profile) \in Resolutions
           /\ ResolveUcpVersion(reg, profile).rejection # "none" =>
                ResolveUcpVersion(reg, profile).outcome = "unresolved"
  BY DEF ResolveUcpVersion, Served, Rejected, StrictCode, Resolutions, Outcomes, Rejections, Profiles

\* Whoever passes the pin is served in the version of the session, if it has
\* one, and in the version resolved before otherwise.
LEMMA PinApplied ==
    ASSUME NEW reg, NEW res \in [version : Versions \cup {NoVersion}, outcome : Outcomes,
                                 rejection : Rejections],
           NEW pin \in Versions \cup {NoVersion},
           res.rejection # "none" => res.outcome = "unresolved",
           NEW pinned, pinned = ApplyUcpSessionPin(reg, res, pin), pinned.rejection = "none"
    PROVE  /\ pinned.version \in {res.version, pin}
           /\ pin # NoVersion => pinned.version = pin
<1> DEFINE final == res.rejection # "none" /\ ~PinRecoverable(res)
           other == res.outcome = "matched" /\ res.version # pin
<1>1. CASE pin = NoVersion
  <2>1. pinned = res
    BY <1>1 DEF ApplyUcpSessionPin
  <2> QED BY <1>1, <2>1
<1>2. CASE pin # NoVersion /\ final
  <2>1. pinned = res
    BY <1>2 DEF ApplyUcpSessionPin
  <2> QED BY <1>2, <2>1
<1>3. CASE pin # NoVersion /\ ~final /\ other
  <2>1. pinned = Rejected(reg, "version_unsupported")
    BY <1>3 DEF ApplyUcpSessionPin
  <2> QED BY <2>1 DEF Rejected
<1>4. CASE pin # NoVersion /\ ~final /\ ~other
  <2>1. pinned = [res EXCEPT !.version = pin, !.rejection = "none"]
    BY <1>4 DEF ApplyUcpSessionPin
  <2>2. pinned.version = pin
    BY <2>1
  <2> QED BY <1>4, <2>2 DEF Outcomes
<1> QED BY <1>1, <1>2, <1>3, <1>4

-----------------------------------------------------------------------------

LEMMA RecordsTyped ==
    /\ NoRequest \in RequestRecords /\ NoSession \in SessionRecords
    /\ NoRequest.pc = "new" /\ NoRequest.session = None /\ NoRequest.protocol = "none"
    /\ NoRequest.rejection = "none"
    /\ ~NoSession.cart /\ ~NoSession.open
  BY DEF NoRequest, NoSession, RequestRecords, SessionRecords, Steps, Outcomes, Rejections, Owners

LEMMA NewRequestOK ==
    ASSUME NEW r \in Slots, req[r] = NoRequest PROVE RequestOK(r)
  BY RecordsTyped DEF RequestOK, CreationOK, VersionOK, Creating, CreatingSteps, UsingSteps

LEMMA InitSessions == Init => SessionsInv
<1> SUFFICES ASSUME Init PROVE SessionsInv
  OBVIOUS
<1>1. TypeOK
  <2>1. sessions \in [Sessions -> SessionRecords] /\ req \in [Slots -> RequestRecords]
    BY RecordsTyped DEF Init
  <2>2. \A r \in Slots : req[r].rejection = "none"
    BY RecordsTyped DEF Init
  <2> QED BY <2>1, <2>2, SessionsAssumption DEF Init, TypeOK, SessionRecords, RequestRecords
<1>2. \A r \in Slots : req[r] = NoRequest
  BY DEF Init
<1>3. \A r \in Slots : RequestOK(r)
  BY <1>2, NewRequestOK
<1>4. MakersDiffer
  BY <1>2, RecordsTyped DEF MakersDiffer, Creating, CreatingSteps
<1>5. SessionsAreWhole
  BY RecordsTyped DEF Init, SessionsAreWhole
<1> QED BY <1>1, <1>3, <1>4, <1>5 DEF SessionsInv

LEMMA Parts ==
    ASSUME SessionsInv
    PROVE  /\ sessions \in [Sessions -> SessionRecords] /\ req \in [Slots -> RequestRecords]
           /\ told \subseteq Sessions /\ faults \in 0..MaxFaults
           /\ \A r \in Slots : RequestOK(r)
  BY DEF SessionsInv, TypeOK, SessionRecords, RequestRecords

LEMMA FaultTyped ==
    ASSUME SessionsInv PROVE (NoFault => faults' \in 0..MaxFaults) /\ (Fault => faults' \in 1..MaxFaults)
  BY Parts, SessionsAssumption DEF Fault, NoFault

\* A request to which nothing happens, on a session to which nothing happens
\* that it goes by.
LEMMA OthersStay ==
    ASSUME SessionsInv, NEW q \in Slots, req'[q] = req[q], told \subseteq told',
           faults' = 0 => faults = 0,
           Creating(q) => /\ req[q].session \notin told'
                          /\ sessions'[req[q].session] = sessions[req[q].session],
           req[q].session \in told =>
               sessions'[req[q].session].pin = sessions[req[q].session].pin
    PROVE  RequestOK(q)'
<1>1. RequestOK(q)
  BY Parts
<1>2. CreationOK(q)'
  BY <1>1 DEF RequestOK, CreationOK, Creating
<1>3. VersionOK(q)'
  BY <1>1 DEF RequestOK, VersionOK, UsingSteps
<1> QED BY <1>1, <1>2, <1>3 DEF RequestOK

\* A step of one request that changes no session and tells nobody.
LEMMA QuietStep ==
    ASSUME SessionsInv, NEW r \in Slots, NEW rec \in RequestRecords,
           req' = [req EXCEPT ![r] = rec],
           UNCHANGED <<registry, apiKey, sessions, told>>, faults' \in 0..MaxFaults,
           faults' = 0 => faults = 0,
           rec.pc \notin {"owner", "pin"} => rec.rejection = "none",
           rec.pc \in CreatingSteps => Creating(r) /\ rec.session = req[r].session,
           faults' = 0 => req[r].pc \notin {"open_session", "delete_cart"},
           RequestOK(r)'
    PROVE  SessionsInv'
<1>1. \A q \in Slots : req'[q] = IF q = r THEN rec ELSE req[q]
  BY Parts
<1>2. TypeOK'
  <2>1. req' \in [Slots -> RequestRecords]
    BY Parts
  <2>2. \A q \in Slots : req'[q].pc \notin {"owner", "pin"} => req'[q].rejection = "none"
    BY <1>1 DEF SessionsInv, TypeOK
  <2> QED BY <2>1, <2>2 DEF SessionsInv, TypeOK, RequestRecords
<1>3. ASSUME NEW q \in Slots PROVE RequestOK(q)'
  <2>1. CASE q # r
    BY <1>1, <2>1, OthersStay, Parts DEF RequestOK, CreationOK
  <2> QED BY <2>1
<1>4. MakersDiffer'
  BY <1>1 DEF SessionsInv, MakersDiffer, Creating
<1>5. SessionsAreWhole'
  <2>1. ASSUME faults' = 0, NEW s \in Sessions, sessions[s].cart, ~sessions[s].open
        PROVE \E q \in Slots : req'[q].session = s /\ req'[q].pc \in {"open_session", "delete_cart"}
    <3>1. PICK q \in Slots : req[q].session = s /\ req[q].pc \in {"open_session", "delete_cart"}
      BY <2>1 DEF SessionsInv, SessionsAreWhole
    <3>2. q # r
      BY <2>1, <3>1
    <3> QED BY <1>1, <3>1, <3>2
  <2> QED BY <2>1 DEF SessionsInv, SessionsAreWhole
<1> QED BY <1>2, <1>3, <1>4, <1>5 DEF SessionsInv

LEMMA LeaveSafe ==
    ASSUME SessionsInv, NEW r \in Slots, Leave(r),
           UNCHANGED <<registry, apiKey, sessions, told>>, faults' \in 0..MaxFaults,
           faults' = 0 => faults = 0,
           faults' = 0 => req[r].pc \notin {"open_session", "delete_cart"}
    PROVE  SessionsInv'
<1>1. req' = [req EXCEPT ![r] = NoRequest] /\ req'[r] = NoRequest
  BY Parts DEF Leave
<1>2. RequestOK(r)'
  BY <1>1, RecordsTyped DEF RequestOK, CreationOK, VersionOK, Creating, CreatingSteps, UsingSteps
<1> QED BY <1>1, <1>2, RecordsTyped, QuietStep DEF CreatingSteps

\* A request goes to another step, with the same record otherwise.
LEMMA GoToRecord ==
    ASSUME SessionsInv, NEW r \in Slots, NEW step \in Steps, GoTo(r, step)
    PROVE  /\ [req[r] EXCEPT !.pc = step] \in RequestRecords
           /\ req' = [req EXCEPT ![r] = [req[r] EXCEPT !.pc = step]]
           /\ req'[r] = [req[r] EXCEPT !.pc = step] /\ req'[r] \in RequestRecords
           /\ req'[r].pc = step /\ req'[r].session = req[r].session /\ req'[r].op = req[r].op
           /\ req'[r].protocol = req[r].protocol /\ req'[r].capability = req[r].capability
           /\ req'[r].version = req[r].version /\ req'[r].outcome = req[r].outcome
           /\ req'[r].rejection = req[r].rejection
           /\ req'[r].key = req[r].key
<1>1. req \in [Slots -> RequestRecords] /\ req[r] \in RequestRecords
  BY Parts
<1>2. [req[r] EXCEPT !.pc = step] \in RequestRecords
  BY <1>1 DEF RequestRecords
<1>3. req' = [req EXCEPT ![r] = [req[r] EXCEPT !.pc = step]]
  BY DEF GoTo
<1> QED BY <1>1, <1>2, <1>3 DEF RequestRecords

\* A request goes to another step, and that is all.
LEMMA GoToSafe ==
    ASSUME SessionsInv, NEW r \in Slots, NEW step \in Steps, GoTo(r, step),
           UNCHANGED <<registry, apiKey, sessions, told>>, faults' \in 0..MaxFaults,
           faults' = 0 => faults = 0,
           step \notin {"owner", "pin"} => req[r].rejection = "none",
           step \in CreatingSteps => Creating(r),
           faults' = 0 => req[r].pc \notin {"open_session", "delete_cart"},
           RequestOK(r)'
    PROVE  SessionsInv'
<1> DEFINE rec == [req[r] EXCEPT !.pc = step]
<1>1. rec \in RequestRecords /\ req' = [req EXCEPT ![r] = rec]
  BY GoToRecord
<1>2. rec.pc = step /\ rec.rejection = req[r].rejection /\ rec.session = req[r].session
  BY Parts DEF RequestRecords
<1> HIDE DEF rec
<1> QED BY <1>1, <1>2, QuietStep

\* A request that is authenticated, in some version.
LEMMA EntersOK ==
    ASSUME NEW r \in Slots, NEW rec, req'[r] = rec,
           UNCHANGED <<sessions, told>>,
           rec.pc \in {"create_cart", "order_owner", "owner"},
           rec.pc = "create_cart" => rec.session = None,
           rec.pc # "create_cart" => rec.session \in told,
           rec.pc = "order_owner" => rec.op = "order",
           rec.rejection # "none" => rec.outcome = "unresolved" /\ rec.protocol = "ucp",
           rec.protocol = "acp" => rec.key \in ApiKeys
    PROVE  RequestOK(r)'
<1>1. CreationOK(r)'
  BY DEF CreationOK, Creating, CreatingSteps
<1>2. VersionOK(r)'
  BY DEF VersionOK
<1> QED BY <1>1, <1>2 DEF RequestOK, UsingSteps

\* What a request for a route of a protocol is, once it is authenticated.
LEMMA RouteTyped ==
    ASSUME NEW protocol, NEW route \in Offered(protocol)
    PROVE  /\ route.op \in { o.op : o \in Routes } /\ route.capability \in Capabilities
           /\ AfterVersion(route.op) \in {"create_cart", "order_owner", "owner"}
           /\ AfterVersion(route.op) = "create_cart" <=> route.op = "create"
           /\ AfterVersion(route.op) = "order_owner" => route.op = "order"
           /\ route.op \in PinEnforced => AfterVersion(route.op) = "owner"
<1>1. route \in Routes
  BY DEF Offered
<1>2. route.capability \in Capabilities /\ route.op \in {"create", "read", "update", "complete", "cancel", "order"}
  BY <1>1 DEF Routes, Capabilities
<1>3. route.op \in { o.op : o \in Routes }
  BY <1>1
<1> QED BY <1>2, <1>3 DEF AfterVersion, PinEnforced

LEMMA ValidateAcpRequestSafe ==
    ASSUME SessionsInv, NEW r \in Slots, ValidateAcpRequest(r) PROVE SessionsInv'
<1>1. PICK route \in Offered("acp") : \E s \in Target(route.op) :
        req' = [req EXCEPT ![r] = [@ EXCEPT
                   !.protocol = "acp", !.op = route.op, !.capability = route.capability,
                   !.session = s, !.key = apiKey, !.pc = AfterVersion(route.op)]]
  BY DEF ValidateAcpRequest
<1>2. PICK s \in Target(route.op) :
        req' = [req EXCEPT ![r] = [@ EXCEPT
                   !.protocol = "acp", !.op = route.op, !.capability = route.capability,
                   !.session = s, !.key = apiKey, !.pc = AfterVersion(route.op)]]
  BY <1>1
<1> DEFINE rec == [req[r] EXCEPT !.protocol = "acp", !.op = route.op,
                       !.capability = route.capability, !.session = s, !.key = apiKey,
                       !.pc = AfterVersion(route.op)]
<1>3. /\ req[r] \in RequestRecords /\ req[r].pc = "new" /\ req[r].rejection = "none"
      /\ s \in Sessions \cup {None}
      /\ route.op # "create" => s \in told
      /\ route.op = "create" => s = None
      /\ apiKey \in ApiKeys
  BY Parts DEF ValidateAcpRequest, At, Target, SessionsInv, TypeOK
<1>4. /\ rec \in RequestRecords /\ rec.protocol = "acp" /\ rec.op = route.op /\ rec.session = s
      /\ rec.pc = AfterVersion(route.op) /\ rec.rejection = "none" /\ rec.outcome = req[r].outcome
      /\ rec.key = apiKey
  BY <1>3, RouteTyped DEF RequestRecords, Steps
<1>5. req' = [req EXCEPT ![r] = rec]
  BY <1>2
<1> HIDE DEF rec
<1>6. req'[r] = rec
  BY <1>5, Parts
<1>7. RequestOK(r)'
  <2>1. UNCHANGED <<sessions, told>>
    BY DEF ValidateAcpRequest
  <2> QED BY <1>3, <1>4, <1>6, <2>1, RouteTyped, EntersOK
<1>8. rec.pc \notin CreatingSteps
  BY <1>4, RouteTyped DEF CreatingSteps
<1> QED BY <1>3, <1>4, <1>5, <1>7, <1>8, QuietStep, Parts DEF ValidateAcpRequest

LEMMA ResolveUcpVersionMiddlewareSafe ==
    ASSUME SessionsInv, NEW r \in Slots, ResolveUcpVersionMiddleware(r) PROVE SessionsInv'
<1>1. PICK profile \in Profiles, route \in Offered("ucp") : \E s \in Target(route.op) :
        LET res == ResolveUcpVersion(registry, profile) IN
            /\ Admits(res, route)
            /\ req' = [req EXCEPT ![r] = [@ EXCEPT
                   !.protocol = "ucp", !.op = route.op, !.capability = route.capability,
                   !.session = s, !.pc = AfterVersion(route.op),
                   !.version = res.version, !.outcome = res.outcome, !.rejection = res.rejection]]
  BY DEF ResolveUcpVersionMiddleware
<1> DEFINE res == ResolveUcpVersion(registry, profile)
<1>2. PICK s \in Target(route.op) :
            /\ Admits(res, route)
            /\ req' = [req EXCEPT ![r] = [@ EXCEPT
                   !.protocol = "ucp", !.op = route.op, !.capability = route.capability,
                   !.session = s, !.pc = AfterVersion(route.op),
                   !.version = res.version, !.outcome = res.outcome, !.rejection = res.rejection]]
  BY <1>1
<1>3. res \in Resolutions /\ (res.rejection # "none" => res.outcome = "unresolved")
  BY RegistryTyped, ResolutionTyped DEF SessionsInv
<1> HIDE DEF res
<1> DEFINE rec == [req[r] EXCEPT
                   !.protocol = "ucp", !.op = route.op, !.capability = route.capability,
                   !.session = s, !.pc = AfterVersion(route.op),
                   !.version = res.version, !.outcome = res.outcome, !.rejection = res.rejection]
<1>4. /\ req[r] \in RequestRecords /\ req[r].pc = "new"
      /\ s \in Sessions \cup {None}
      /\ route.op # "create" => s \in told
      /\ route.op = "create" => s = None
  BY Parts DEF ResolveUcpVersionMiddleware, At, Target
<1>5. /\ rec \in RequestRecords /\ rec.protocol = "ucp" /\ rec.op = route.op /\ rec.session = s
      /\ rec.capability = route.capability /\ rec.version = res.version
      /\ rec.pc = AfterVersion(route.op) /\ rec.rejection = res.rejection /\ rec.outcome = res.outcome
  BY <1>3, <1>4, RouteTyped DEF RequestRecords, Steps, Resolutions
<1>6. req' = [req EXCEPT ![r] = rec]
  BY <1>2
<1> HIDE DEF rec
<1>7. req'[r] = rec
  BY <1>6, Parts
<1>8. res.rejection # "none" => route.op \in PinEnforced
  BY <1>2 DEF Admits
<1>9. rec.pc \notin {"owner", "pin"} => rec.rejection = "none"
  BY <1>5, <1>8, RouteTyped
<1>10. RequestOK(r)'
  <2>1. UNCHANGED <<sessions, told>>
    BY DEF ResolveUcpVersionMiddleware
  <2> QED BY <1>3, <1>4, <1>5, <1>7, <1>8, <2>1, RouteTyped, EntersOK
<1>11. rec.pc \notin CreatingSteps
  BY <1>5, RouteTyped DEF CreatingSteps
<1> QED BY <1>4, <1>5, <1>6, <1>9, <1>10, <1>11, QuietStep, Parts DEF ResolveUcpVersionMiddleware

LEMMA VerifySessionOwnerSafe ==
    ASSUME SessionsInv, NEW r \in Slots, VerifySessionOwner(r) PROVE SessionsInv'
<1>1. req[r].pc = "owner" /\ UNCHANGED <<registry, apiKey, sessions, told, faults>>
      /\ faults \in 0..MaxFaults
  BY Parts DEF VerifySessionOwner, At
<1>2. CASE Leave(r)
  BY <1>1, <1>2, LeaveSafe
<1>3. CASE GoTo(r, IF req[r].protocol = "ucp" THEN "pin" ELSE "handle")
  <2> DEFINE step == IF req[r].protocol = "ucp" THEN "pin" ELSE "handle"
  <2>1. step \in Steps /\ step \in {"pin", "handle"} /\ (step = "handle" => req[r].protocol # "ucp")
    BY DEF Steps
  <2>2. GoTo(r, step)
    BY <1>3
  <2> HIDE DEF step
  <2>3. RequestOK(r)
    BY Parts
  <2>4. RequestOK(r)'
    BY <1>1, <2>1, <2>2, <2>3, GoToRecord
       DEF RequestOK, CreationOK, VersionOK, Creating, CreatingSteps, UsingSteps
  <2>5. step = "handle" => req[r].rejection = "none"
    BY <2>1, <2>3 DEF RequestOK
  <2> QED BY <1>1, <2>1, <2>2, <2>4, <2>5, GoToSafe DEF CreatingSteps
<1> QED BY <1>2, <1>3 DEF VerifySessionOwner

LEMMA VerifyOrderOwnerSafe ==
    ASSUME SessionsInv, NEW r \in Slots, VerifyOrderOwner(r) PROVE SessionsInv'
<1>1. req[r].pc = "order_owner" /\ UNCHANGED <<registry, apiKey, sessions, told, faults>>
      /\ faults \in 0..MaxFaults
  BY Parts DEF VerifyOrderOwner, At
<1>2. CASE Leave(r)
  BY <1>1, <1>2, LeaveSafe
<1>3. CASE GoTo(r, "handle")
  <2>1. "handle" \in Steps
    BY DEF Steps
  <2>2. RequestOK(r) /\ req[r].rejection = "none"
    BY <1>1, Parts DEF SessionsInv, TypeOK
  <2>3. req[r].op = "order" /\ req[r].op \notin PinEnforced
    BY <1>1, <2>2 DEF RequestOK, PinEnforced
  <2>4. RequestOK(r)'
    BY <1>1, <1>3, <2>1, <2>2, <2>3, GoToRecord
       DEF RequestOK, CreationOK, VersionOK, Creating, CreatingSteps, UsingSteps
  <2> QED BY <1>1, <1>3, <2>1, <2>2, <2>4, GoToSafe DEF CreatingSteps
<1> QED BY <1>2, <1>3 DEF VerifyOrderOwner

LEMMA EnforceSessionVersionPinSafe ==
    ASSUME SessionsInv, NEW r \in Slots, EnforceSessionVersionPin(r) PROVE SessionsInv'
<1> DEFINE resolution == [version |-> req[r].version, outcome |-> req[r].outcome,
                          rejection |-> req[r].rejection]
           pinned == ApplyUcpSessionPin(registry, resolution, sessions[req[r].session].pin)
<1>1. req[r].pc = "pin" /\ UNCHANGED <<registry, apiKey, sessions, told, faults>>
      /\ faults \in 0..MaxFaults
  BY Parts DEF EnforceSessionVersionPin, At
<1>2. IF pinned.rejection # "none" THEN Leave(r)
      ELSE req' = [req EXCEPT ![r].version = pinned.version, ![r].rejection = "none",
                              ![r].pc = "handle"]
  BY DEF EnforceSessionVersionPin
<1>3. CASE pinned.rejection # "none"
  BY <1>1, <1>2, <1>3, LeaveSafe
<1>4. CASE pinned.rejection = "none"
  <2>1. RequestOK(r) /\ req[r] \in RequestRecords /\ req[r].session \in Sessions
        /\ sessions[req[r].session].pin \in Versions \cup {NoVersion}
    BY <1>1, Parts DEF RequestOK, UsingSteps, SessionRecords
  <2>2. /\ pinned.version \in {req[r].version, sessions[req[r].session].pin}
        /\ sessions[req[r].session].pin # NoVersion => pinned.version = sessions[req[r].session].pin
    BY <1>4, <2>1, PinApplied DEF RequestRecords, RequestOK
  <2> DEFINE version == pinned.version
             rec == [req[r] EXCEPT !.version = version, !.rejection = "none", !.pc = "handle"]
  <2>3. req' = [req EXCEPT ![r] = [req[r] EXCEPT !.version = pinned.version, !.rejection = "none",
                                                 !.pc = "handle"]]
    BY <1>2, <1>4, Parts
  <2> HIDE DEF version, pinned
  <2>4. /\ rec \in RequestRecords /\ rec.pc = "handle" /\ rec.rejection = "none"
        /\ rec.session = req[r].session /\ rec.protocol = req[r].protocol /\ rec.op = req[r].op
        /\ rec.capability = req[r].capability /\ rec.outcome = req[r].outcome
        /\ rec.version = version /\ rec.key = req[r].key
    BY <2>1, <2>2 DEF RequestRecords, Steps, Rejections, version
  <2>5. req' = [req EXCEPT ![r] = rec]
    BY <2>3 DEF version
  <2> HIDE DEF rec
  <2>6. req'[r] = rec
    BY <2>5, Parts
  <2>7. RequestOK(r)'
    <3>1. VersionOK(r)'
      BY <1>1, <2>1, <2>2, <2>4, <2>6 DEF RequestOK, VersionOK, version
    <3>2. CreationOK(r)'
      BY <2>4, <2>6 DEF CreationOK, Creating, CreatingSteps
    <3> QED BY <1>1, <2>1, <2>4, <2>6, <3>1, <3>2 DEF RequestOK, UsingSteps
  <2> QED BY <1>1, <2>4, <2>5, <2>7, QuietStep DEF CreatingSteps
<1> QED BY <1>3, <1>4

LEMMA RefuseCreationSafe ==
    ASSUME SessionsInv, NEW r \in Slots, RefuseCreation(r) PROVE SessionsInv'
  BY Parts, LeaveSafe DEF RefuseCreation, At

LEMMA HandleSafe ==
    ASSUME SessionsInv, NEW r \in Slots, Handle(r) PROVE SessionsInv'
  BY Parts, LeaveSafe DEF Handle, At

LEMMA AddShippingSafe ==
    ASSUME SessionsInv, NEW r \in Slots, AddShipping(r) PROVE SessionsInv'
<1>1. req[r].pc = "add_shipping" /\ UNCHANGED <<registry, apiKey, sessions, told, faults>>
      /\ faults \in 0..MaxFaults /\ Creating(r) /\ RequestOK(r) /\ req[r].rejection = "none"
  BY Parts DEF AddShipping, At, Creating, CreatingSteps, SessionsInv, TypeOK
<1>2. PICK step \in {"present", "discard_session"} : GoTo(r, step)
  BY DEF AddShipping
<1>3. step \in Steps
  BY DEF Steps
<1>4. RequestOK(r)'
  BY <1>1, <1>2, <1>3, GoToRecord
     DEF RequestOK, CreationOK, VersionOK, Creating, CreatingSteps, UsingSteps
<1> QED BY <1>1, <1>2, <1>3, <1>4, GoToSafe

-----------------------------------------------------------------------------
(* Creation and its compensation.                                          *)

\* A request changes the session that it is making, and goes on or ends.
LEMMA SessionStep ==
    ASSUME SessionsInv, NEW r \in Slots, NEW rec \in RequestRecords,
           NEW s \in Sessions \ told, NEW made \in SessionRecords,
           req' = [req EXCEPT ![r] = rec], sessions' = [sessions EXCEPT ![s] = made],
           UNCHANGED <<registry, apiKey, told>>, faults' \in 0..MaxFaults,
           faults' = 0 => faults = 0,
           rec.pc \notin {"owner", "pin"} => rec.rejection = "none",
           rec.pc \in CreatingSteps => rec.session = s,
           Creating(r) => req[r].session = s,
           \A q \in Slots : q # r /\ Creating(q) => req[q].session # s,
           faults' = 0 /\ made.open => made.cart,
           faults' = 0 /\ made.cart /\ ~made.open =>
               rec.session = s /\ rec.pc \in {"open_session", "delete_cart"},
           RequestOK(r)'
    PROVE  SessionsInv'
<1>1. \A q \in Slots : req'[q] = IF q = r THEN rec ELSE req[q]
  BY Parts
<1>2. \A t \in Sessions : sessions'[t] = IF t = s THEN made ELSE sessions[t]
  BY Parts
<1>3. TypeOK'
  <2>1. req' \in [Slots -> RequestRecords] /\ sessions' \in [Sessions -> SessionRecords]
    BY Parts
  <2>2. \A q \in Slots : req'[q].pc \notin {"owner", "pin"} => req'[q].rejection = "none"
    BY <1>1 DEF SessionsInv, TypeOK
  <2> QED BY <2>1, <2>2 DEF SessionsInv, TypeOK, RequestRecords, SessionRecords
<1>4. ASSUME NEW q \in Slots PROVE RequestOK(q)'
  <2>1. CASE q # r
    <3>1. RequestOK(q)
      BY Parts
    <3>2. Creating(q) => req[q].session \in Sessions \ told /\ req[q].session # s
      BY <2>1, <3>1 DEF RequestOK, CreationOK
    <3>3. req[q].session \in told => req[q].session \in Sessions /\ req[q].session # s
      BY Parts
    <3> QED BY <1>1, <1>2, <2>1, <3>2, <3>3, OthersStay
  <2> QED BY <2>1
<1>5. MakersDiffer'
  BY <1>1 DEF SessionsInv, MakersDiffer, Creating
<1>6. SessionsAreWhole'
  <2>1. ASSUME faults' = 0, NEW t \in Sessions PROVE sessions'[t].open => sessions'[t].cart
    BY <1>2, <2>1 DEF SessionsInv, SessionsAreWhole
  <2>2. ASSUME NEW t \in told' PROVE sessions'[t].open /\ sessions'[t].cart
    BY <1>2, Parts DEF SessionsInv, SessionsAreWhole
  <2>3. ASSUME faults' = 0, NEW t \in Sessions, sessions'[t].cart, ~sessions'[t].open
        PROVE \E q \in Slots : req'[q].session = t /\ req'[q].pc \in {"open_session", "delete_cart"}
    <3>1. CASE t = s
      BY <1>1, <1>2, <2>3, <3>1
    <3>2. CASE t # s
      <4>1. PICK q \in Slots : req[q].session = t /\ req[q].pc \in {"open_session", "delete_cart"}
        BY <1>2, <2>3, <3>2 DEF SessionsInv, SessionsAreWhole
      <4>2. q # r
        BY <3>2, <4>1 DEF Creating, CreatingSteps
      <4> QED BY <1>1, <4>1, <4>2
    <3> QED BY <3>1, <3>2
  <2> QED BY <2>1, <2>2, <2>3 DEF SessionsAreWhole
<1> QED BY <1>3, <1>4, <1>5, <1>6 DEF SessionsInv

\* What is known of a request that makes a session.
LEMMA Maker ==
    ASSUME SessionsInv, NEW r \in Slots, Creating(r)
    PROVE  /\ req[r] \in RequestRecords /\ RequestOK(r) /\ req[r].rejection = "none"
           /\ req[r].session \in Sessions \ told
           /\ sessions[req[r].session] \in SessionRecords /\ sessions[req[r].session].cart
           /\ \A q \in Slots : q # r /\ Creating(q) => req[q].session # req[r].session
<1>1. RequestOK(r) /\ req[r] \in RequestRecords
  BY Parts
<1>2. req[r].session \in Sessions \ told /\ sessions[req[r].session].cart
  BY <1>1 DEF RequestOK, CreationOK
<1>3. req[r].rejection = "none"
  BY DEF SessionsInv, TypeOK, Creating, CreatingSteps
<1> QED BY <1>1, <1>2, <1>3, Parts DEF SessionsInv, MakersDiffer

LEMMA CreateCartSafe ==
    ASSUME SessionsInv, NEW r \in Slots, CreateCart(r) PROVE SessionsInv'
<1>1. PICK s \in Sessions :
        /\ sessions[s] = NoSession /\ \A q \in Slots : req[q].session # s
        /\ sessions' = [sessions EXCEPT ![s].cart = TRUE]
        /\ req' = [req EXCEPT ![r].session = s, ![r].pc = "open_session"]
  BY DEF CreateCart
<1> DEFINE rec  == [req[r] EXCEPT !.session = s, !.pc = "open_session"]
           made == [NoSession EXCEPT !.cart = TRUE]
<1>2. req[r].pc = "create_cart" /\ UNCHANGED <<registry, apiKey, told, faults>>
      /\ faults \in 0..MaxFaults /\ RequestOK(r) /\ req[r] \in RequestRecords
      /\ req[r].rejection = "none"
  BY Parts DEF CreateCart, At, SessionsInv, TypeOK
<1>3. s \notin told
  BY <1>1, RecordsTyped DEF SessionsInv, SessionsAreWhole
<1>4. /\ rec \in RequestRecords /\ rec.pc = "open_session" /\ rec.session = s
      /\ rec.rejection = "none" /\ rec.protocol = req[r].protocol /\ rec.version = req[r].version
      /\ rec.capability = req[r].capability /\ rec.key = req[r].key /\ rec.op = req[r].op
  BY <1>2 DEF RequestRecords, Steps
<1>5. made \in SessionRecords /\ made.cart /\ ~made.open
  BY DEF NoSession, SessionRecords, Owners
<1>6. req' = [req EXCEPT ![r] = rec] /\ sessions' = [sessions EXCEPT ![s] = made]
  BY <1>1, Parts
<1> HIDE DEF rec, made
<1>7. req'[r] = rec /\ sessions'[s] = made
  BY <1>6, Parts
<1>8. RequestOK(r)'
  BY <1>2, <1>3, <1>4, <1>5, <1>7
     DEF RequestOK, CreationOK, VersionOK, Creating, CreatingSteps, UsingSteps
<1>9. ~Creating(r) /\ \A q \in Slots : req[q].session # s
  BY <1>1, <1>2 DEF Creating, CreatingSteps
<1>10. s \in Sessions \ told /\ faults' = faults
  BY <1>2, <1>3
<1> QED BY <1>2, <1>4, <1>5, <1>6, <1>8, <1>9, <1>10, SessionStep

LEMMA OpenAgentSessionSafe ==
    ASSUME SessionsInv, NEW r \in Slots, OpenAgentSession(r) PROVE SessionsInv'
<1>1. req[r].pc = "open_session" /\ Creating(r) /\ UNCHANGED <<registry, apiKey, told>>
      /\ faults \in 0..MaxFaults
  BY Parts DEF OpenAgentSession, At, Creating, CreatingSteps
<1>2. /\ req[r] \in RequestRecords /\ RequestOK(r) /\ req[r].rejection = "none"
      /\ req[r].session \in Sessions \ told
      /\ sessions[req[r].session] \in SessionRecords /\ sessions[req[r].session].cart
      /\ \A q \in Slots : q # r /\ Creating(q) => req[q].session # req[r].session
      /\ ~sessions[req[r].session].open
  BY <1>1, Maker DEF RequestOK, CreationOK
<1>3. NewSession(r) \in SessionRecords /\ NewSession(r).open /\ NewSession(r).cart
  <2> DEFINE owner == IF req[r].protocol = "acp" THEN <<"acp", req[r].key>>
                      ELSE <<"ucp", req[r].session>>
             pin == IF req[r].protocol = "acp" THEN NoVersion
                    ELSE PinOf([version |-> req[r].version, outcome |-> req[r].outcome,
                                rejection |-> req[r].rejection])
             made == NewSession(r)
  <2>1. owner \in Owners
    BY <1>2 DEF Owners, RequestOK
  <2>2. pin \in Versions \cup {NoVersion}
    BY <1>2 DEF PinOf, RequestRecords
  <2>3. made = [sessions[req[r].session] EXCEPT !.open = TRUE, !.owner = owner, !.pin = pin]
    BY DEF NewSession
  <2> HIDE DEF owner, pin
  <2>4. made \in SessionRecords /\ made.open /\ made.cart
    <3> HIDE DEF made
    <3> QED BY <1>2, <2>1, <2>2, <2>3 DEF SessionRecords
  <2> QED BY <2>4
<1>4. ASSUME NEW step \in {"add_shipping", "delete_cart"}, GoTo(r, step),
             sessions' = [sessions EXCEPT ![req[r].session] = NewSession(r)],
             faults' \in 0..MaxFaults, faults' = 0 => faults = 0 /\ step = "add_shipping"
      PROVE  SessionsInv'
  <2> DEFINE made == NewSession(r)
             rec  == [req[r] EXCEPT !.pc = step]
  <2>1. made \in SessionRecords /\ made.open /\ made.cart
        /\ sessions' = [sessions EXCEPT ![req[r].session] = made]
    BY <1>3, <1>4
  <2> HIDE DEF made
  <2>2. rec \in RequestRecords /\ req' = [req EXCEPT ![r] = rec] /\ req'[r] = rec
        /\ sessions'[req[r].session] = made
    BY <1>2, <1>4, <2>1, Parts DEF GoTo, RequestRecords, Steps
  <2>3. /\ rec.pc = step /\ rec.session = req[r].session /\ rec.rejection = "none"
        /\ rec.protocol = req[r].protocol /\ rec.version = req[r].version
        /\ rec.capability = req[r].capability /\ rec.key = req[r].key
    BY <1>2 DEF RequestRecords
  <2> HIDE DEF rec
  <2>4. RequestOK(r)'
    BY <1>1, <1>2, <1>4, <2>1, <2>2, <2>3
       DEF RequestOK, CreationOK, VersionOK, Creating, CreatingSteps, UsingSteps
  <2>5. UNCHANGED <<registry, apiKey, told>> /\ faults' \in 0..MaxFaults
        /\ (faults' = 0 => faults = 0)
    BY <1>1, <1>4
  <2> HIDE DEF rec
  <2> QED BY <1>2, <2>1, <2>2, <2>3, <2>4, <2>5, SessionStep
<1>5. CASE Fault /\ GoTo(r, "delete_cart") /\ UNCHANGED sessions
  <2>1. "delete_cart" \in Steps
    BY DEF Steps
  <2>2. faults' \in 1..MaxFaults
    BY <1>5, FaultTyped
  <2>3. RequestOK(r)'
    BY <1>1, <1>2, <1>5, <2>1, <2>2, GoToRecord
       DEF RequestOK, CreationOK, VersionOK, Creating, CreatingSteps, UsingSteps
  <2> QED BY <1>1, <1>2, <1>5, <2>1, <2>2, <2>3, GoToSafe, SessionsAssumption
<1>6. NoFault => faults' = faults
  BY DEF NoFault
<1>7. Fault => faults' \in 0..MaxFaults /\ faults' # 0
  BY FaultTyped, SessionsAssumption
<1> QED BY <1>1, <1>4, <1>5, <1>6, <1>7 DEF OpenAgentSession

LEMMA DiscardSessionSafe ==
    ASSUME SessionsInv, NEW r \in Slots, DiscardSession(r) PROVE SessionsInv'
<1>1. req[r].pc = "discard_session" /\ Creating(r) /\ UNCHANGED <<registry, apiKey, told>>
      /\ faults \in 0..MaxFaults
  BY Parts DEF DiscardSession, At, Creating, CreatingSteps
<1>2. CASE /\ NoFault
           /\ sessions' = [sessions EXCEPT ![req[r].session] = [NoSession EXCEPT !.cart = TRUE]]
           /\ GoTo(r, "delete_cart")
  <2> DEFINE made == [NoSession EXCEPT !.cart = TRUE]
             rec  == [req[r] EXCEPT !.pc = "delete_cart"]
  <2>1. made \in SessionRecords /\ made.cart /\ ~made.open
    BY DEF NoSession, SessionRecords, Owners
  <2>2. sessions' = [sessions EXCEPT ![req[r].session] = made] /\ faults' = faults
    BY <1>2 DEF NoFault
  <2> HIDE DEF made
  <2>3. rec \in RequestRecords /\ req' = [req EXCEPT ![r] = rec] /\ req'[r] = rec
        /\ sessions'[req[r].session] = made
    BY <1>1, <1>2, <2>2, Parts, Maker DEF GoTo, RequestRecords, Steps
  <2>4. /\ rec.pc = "delete_cart" /\ rec.session = req[r].session /\ rec.rejection = "none"
        /\ rec.protocol = req[r].protocol /\ rec.version = req[r].version
        /\ rec.capability = req[r].capability /\ rec.key = req[r].key
    BY <1>1, Maker DEF RequestRecords
  <2> HIDE DEF rec
  <2>5. RequestOK(r)'
    BY <1>1, Maker, <2>1, <2>3, <2>4
       DEF RequestOK, CreationOK, VersionOK, Creating, CreatingSteps, UsingSteps
  <2> QED BY <1>1, Maker, <2>1, <2>2, <2>3, <2>4, <2>5, SessionStep
<1>3. CASE Fault /\ Leave(r) /\ UNCHANGED sessions
  BY <1>1, <1>3, FaultTyped, LeaveSafe, SessionsAssumption
<1> QED BY <1>2, <1>3 DEF DiscardSession

LEMMA DeleteCartSafe ==
    ASSUME SessionsInv, NEW r \in Slots, DeleteCart(r) PROVE SessionsInv'
<1>1. req[r].pc = "delete_cart" /\ Creating(r) /\ UNCHANGED <<registry, apiKey, told>>
      /\ faults \in 0..MaxFaults /\ Leave(r)
  BY Parts DEF DeleteCart, At, Creating, CreatingSteps
<1>2. CASE NoFault /\ sessions' = [sessions EXCEPT ![req[r].session].cart = FALSE]
  <2> DEFINE s == req[r].session
             made == [sessions[s] EXCEPT !.cart = FALSE]
  <2>1. made \in SessionRecords /\ ~made.cart /\ (faults = 0 => ~made.open)
    BY <1>1, Maker DEF SessionRecords, RequestOK, CreationOK
  <2>2. sessions' = [sessions EXCEPT ![s] = made] /\ faults' = faults
    BY <1>1, <1>2, Maker, Parts DEF NoFault
  <2> HIDE DEF made
  <2>3. req' = [req EXCEPT ![r] = NoRequest] /\ req'[r] = NoRequest
    BY <1>1, Parts DEF Leave
  <2>4. RequestOK(r)'
    BY <2>3, RecordsTyped DEF RequestOK, CreationOK, VersionOK, Creating, CreatingSteps, UsingSteps
  <2>5. s \in Sessions \ told /\ \A q \in Slots : q # r /\ Creating(q) => req[q].session # s
    BY <1>1, Maker
  <2> QED BY <1>1, <2>1, <2>2, <2>3, <2>4, <2>5, RecordsTyped, SessionStep DEF CreatingSteps
<1>3. CASE Fault /\ UNCHANGED sessions
  BY <1>1, <1>3, FaultTyped, LeaveSafe, SessionsAssumption
<1> QED BY <1>2, <1>3 DEF DeleteCart

LEMMA PresentSessionSafe ==
    ASSUME SessionsInv, NEW r \in Slots, PresentSession(r) PROVE SessionsInv'
<1>1. req[r].pc = "present" /\ Creating(r) /\ UNCHANGED <<registry, apiKey, sessions>>
      /\ faults \in 0..MaxFaults /\ Leave(r)
  BY Parts DEF PresentSession, At, Creating, CreatingSteps
<1>2. CASE NoFault /\ told' = told \cup {req[r].session}
  <2>1. \A q \in Slots : req'[q] = IF q = r THEN NoRequest ELSE req[q]
    BY <1>1, Parts DEF Leave
  <2>2. TypeOK'
    <3>1. req' \in [Slots -> RequestRecords]
      BY <1>1, Parts, RecordsTyped DEF Leave
    <3>2. \A q \in Slots : req'[q].pc \notin {"owner", "pin"} => req'[q].rejection = "none"
      BY <2>1, RecordsTyped DEF SessionsInv, TypeOK
    <3> QED BY <1>1, <1>2, <3>1, <3>2, Maker DEF NoFault, SessionsInv, TypeOK, RequestRecords
  <2>3. ASSUME NEW q \in Slots PROVE RequestOK(q)'
    <3>1. CASE q = r
      <4>1. req'[q] = NoRequest
        BY <2>1, <3>1
      <4> QED BY <4>1, RecordsTyped
              DEF RequestOK, CreationOK, VersionOK, Creating, CreatingSteps, UsingSteps
    <3>2. CASE q # r
      <4>1. Creating(q) => req[q].session \notin told'
        BY <1>1, <1>2, <3>2, Maker, Parts DEF RequestOK, CreationOK
      <4> QED BY <1>1, <1>2, <2>1, <3>2, <4>1, OthersStay DEF NoFault
    <3> QED BY <3>1, <3>2
  <2>4. MakersDiffer'
    BY <2>1, RecordsTyped DEF SessionsInv, MakersDiffer, Creating, CreatingSteps
  <2>5. SessionsAreWhole'
    <3>1. sessions[req[r].session].open /\ sessions[req[r].session].cart
      BY <1>1, Maker DEF RequestOK, CreationOK
    <3>2. faults' = faults
      BY <1>2 DEF NoFault
    <3>3. ASSUME faults = 0, NEW t \in Sessions, sessions[t].cart, ~sessions[t].open
          PROVE \E q \in Slots : req'[q].session = t /\ req'[q].pc \in {"open_session", "delete_cart"}
      <4>1. PICK q \in Slots : req[q].session = t /\ req[q].pc \in {"open_session", "delete_cart"}
        BY <3>3 DEF SessionsInv, SessionsAreWhole
      <4> QED BY <1>1, <2>1, <4>1
    <3> QED BY <1>1, <1>2, <3>1, <3>2, <3>3 DEF SessionsInv, SessionsAreWhole
  <2> QED BY <2>2, <2>3, <2>4, <2>5 DEF SessionsInv
<1>3. CASE Fault /\ UNCHANGED told
  BY <1>1, <1>3, FaultTyped, LeaveSafe, SessionsAssumption
<1> QED BY <1>2, <1>3 DEF PresentSession

\* An order changes neither the version of a session nor what it is made of.
LEMMA PlaceOrderSafe ==
    ASSUME SessionsInv, NEW r \in Slots, PlaceOrder(r) PROVE SessionsInv'
<1> DEFINE s == req[r].session
<1>1. /\ req[r].pc = "handle" /\ Leave(r) /\ UNCHANGED <<registry, apiKey, told, faults>>
      /\ faults \in 0..MaxFaults
      /\ sessions' = [sessions EXCEPT ![s].order = TRUE]
  BY Parts DEF PlaceOrder, At
<1>2. s \in told /\ s \in Sessions
  BY <1>1, Parts DEF RequestOK, UsingSteps
<1>3. \A q \in Slots : req'[q] = IF q = r THEN NoRequest ELSE req[q]
  BY <1>1, Parts DEF Leave
<1>4. \A t \in Sessions :
                         /\ sessions'[t] \in SessionRecords
                         /\ sessions'[t].cart = sessions[t].cart
                         /\ sessions'[t].open = sessions[t].open
                         /\ sessions'[t].pin = sessions[t].pin
                         /\ t # s => sessions'[t] = sessions[t]
  BY <1>1, <1>2, Parts DEF SessionRecords
<1>5. TypeOK'
  <2>1. req' \in [Slots -> RequestRecords]
    BY <1>1, Parts, RecordsTyped DEF Leave
  <2>2. \A q \in Slots : req'[q].pc \notin {"owner", "pin"} => req'[q].rejection = "none"
    BY <1>3, RecordsTyped DEF SessionsInv, TypeOK
  <2>3. sessions' \in [Sessions -> SessionRecords]
    BY <1>1, <1>4, Parts
  <2> QED BY <1>1, <2>1, <2>2, <2>3 DEF SessionsInv, TypeOK, RequestRecords, SessionRecords
<1>6. ASSUME NEW q \in Slots PROVE RequestOK(q)'
  <2>1. CASE q = r
    <3>1. req'[q] = NoRequest
      BY <1>3, <2>1
    <3> QED BY <3>1, RecordsTyped
            DEF RequestOK, CreationOK, VersionOK, Creating, CreatingSteps, UsingSteps
  <2>2. CASE q # r
    <3>1. Creating(q) => req[q].session \in Sessions \ told
      BY Parts DEF RequestOK, CreationOK
    <3>2. req'[q] = req[q] /\ told' = told /\ faults' = faults
      BY <1>1, <1>3, <2>2
    <3>3. Creating(q) => sessions'[req[q].session] = sessions[req[q].session]
      BY <1>2, <1>4, <3>1
    <3>4. req[q].session \in told => sessions'[req[q].session].pin = sessions[req[q].session].pin
      BY <1>4, Parts
    <3> QED BY <3>1, <3>2, <3>3, <3>4, OthersStay
  <2> QED BY <2>1, <2>2
<1>7. MakersDiffer'
  BY <1>3, RecordsTyped DEF SessionsInv, MakersDiffer, Creating, CreatingSteps
<1>8. SessionsAreWhole'
  <2>1. ASSUME faults = 0, NEW t \in Sessions, sessions[t].cart, ~sessions[t].open
        PROVE \E q \in Slots : req'[q].session = t /\ req'[q].pc \in {"open_session", "delete_cart"}
    <3>1. PICK q \in Slots : req[q].session = t /\ req[q].pc \in {"open_session", "delete_cart"}
      BY <2>1 DEF SessionsInv, SessionsAreWhole
    <3> QED BY <1>1, <1>3, <3>1
  <2>2. faults = 0 => \A t \in Sessions : sessions'[t].open => sessions'[t].cart
    BY <1>4 DEF SessionsInv, SessionsAreWhole
  <2>3. \A t \in told : sessions'[t].open /\ sessions'[t].cart
    BY <1>4, Parts DEF SessionsInv, SessionsAreWhole
  <2> QED BY <1>1, <1>4, <2>1, <2>2, <2>3 DEF SessionsAreWhole
<1> QED BY <1>5, <1>6, <1>7, <1>8 DEF SessionsInv

-----------------------------------------------------------------------------
(* The deployment.                                                         *)

LEMMA RestartSafe == ASSUME SessionsInv, Restart PROVE SessionsInv'
<1>1. /\ registry' \in Configurations /\ apiKey' \in ApiKeys /\ UNCHANGED <<sessions, told>>
      /\ req' = [r \in Slots |-> NoRequest] /\ faults' \in 1..MaxFaults
  BY FaultTyped DEF Restart
<1>2. \A r \in Slots : req'[r] = NoRequest
  BY <1>1
<1>3. req' \in [Slots -> RequestRecords]
  BY <1>1, RecordsTyped
<1>4. \A r \in Slots : req'[r].pc \notin {"owner", "pin"} => req'[r].rejection = "none"
  BY <1>2, RecordsTyped
<1>5. TypeOK'
  BY <1>1, <1>3, <1>4, SessionsAssumption DEF SessionsInv, TypeOK, RequestRecords
<1>6. ASSUME NEW r \in Slots PROVE RequestOK(r)'
  BY <1>2, RecordsTyped DEF RequestOK, CreationOK, VersionOK, Creating, CreatingSteps, UsingSteps
<1>7. MakersDiffer'
  BY <1>2, RecordsTyped DEF MakersDiffer, Creating, CreatingSteps
<1>8. SessionsAreWhole'
  <2>1. faults' # 0
    BY <1>1, SessionsAssumption
  <2> QED BY <1>1, <2>1 DEF SessionsInv, SessionsAreWhole
<1> QED BY <1>5, <1>6, <1>7, <1>8 DEF SessionsInv

LEMMA SaveSettingsSafe == ASSUME SessionsInv, SaveSettings PROVE SessionsInv'
<1>1. /\ apiKey' \in ApiKeys /\ UNCHANGED <<registry, sessions, told, req>>
      /\ faults' \in 1..MaxFaults
  BY FaultTyped DEF SaveSettings, RefreshSettings, SessionsInv, TypeOK
<1>2. TypeOK'
  BY <1>1, SessionsAssumption DEF SessionsInv, TypeOK
<1>3. ASSUME NEW r \in Slots PROVE RequestOK(r)'
  <2>1. faults' # 0
    BY <1>1, SessionsAssumption
  <2> QED BY <1>1, <2>1, Parts DEF RequestOK, CreationOK, VersionOK, Creating
<1>4. MakersDiffer'
  BY <1>1 DEF SessionsInv, MakersDiffer, Creating
<1>5. SessionsAreWhole'
  <2>1. faults' # 0
    BY <1>1, SessionsAssumption
  <2> QED BY <1>1, <2>1 DEF SessionsInv, SessionsAreWhole
<1> QED BY <1>2, <1>3, <1>4, <1>5 DEF SessionsInv

LEMMA StutterSafe == ASSUME SessionsInv, UNCHANGED vars PROVE SessionsInv'
<1>1. UNCHANGED <<registry, apiKey, sessions, told, req, faults>>
  BY DEF vars
<1>2. TypeOK' /\ MakersDiffer' /\ SessionsAreWhole'
  BY <1>1 DEF SessionsInv, TypeOK, MakersDiffer, SessionsAreWhole, Creating
<1>3. ASSUME NEW r \in Slots PROVE RequestOK(r)'
  BY <1>1, Parts DEF RequestOK, CreationOK, VersionOK, Creating
<1> QED BY <1>2, <1>3 DEF SessionsInv

\* Every step keeps the invariant.
LEMMA StepSessions == ASSUME SessionsInv, [Next]_vars PROVE SessionsInv'
<1>1. ASSUME NEW r \in Slots, RequestStep(r) PROVE SessionsInv'
  <2>1. CASE ValidateAcpRequest(r)
    BY <2>1, ValidateAcpRequestSafe
  <2>2. CASE ResolveUcpVersionMiddleware(r)
    BY <2>2, ResolveUcpVersionMiddlewareSafe
  <2>3. CASE VerifySessionOwner(r)
    BY <2>3, VerifySessionOwnerSafe
  <2>4. CASE VerifyOrderOwner(r)
    BY <2>4, VerifyOrderOwnerSafe
  <2>5. CASE EnforceSessionVersionPin(r)
    BY <2>5, EnforceSessionVersionPinSafe
  <2>6. CASE RefuseCreation(r)
    BY <2>6, RefuseCreationSafe
  <2>7. CASE CreateCart(r)
    BY <2>7, CreateCartSafe
  <2>8. CASE OpenAgentSession(r)
    BY <2>8, OpenAgentSessionSafe
  <2>9. CASE AddShipping(r)
    BY <2>9, AddShippingSafe
  <2>10. CASE DiscardSession(r)
    BY <2>10, DiscardSessionSafe
  <2>11. CASE DeleteCart(r)
    BY <2>11, DeleteCartSafe
  <2>12. CASE PresentSession(r)
    BY <2>12, PresentSessionSafe
  <2>13. CASE Handle(r)
    BY <2>13, HandleSafe
  <2>14. CASE PlaceOrder(r)
    BY <2>14, PlaceOrderSafe
  <2> QED BY <1>1, <2>1, <2>2, <2>3, <2>4, <2>5, <2>6, <2>7, <2>8, <2>9, <2>10, <2>11, <2>12,
             <2>13, <2>14 DEF RequestStep
<1>2. CASE Restart
  BY <1>2, RestartSafe
<1>3. CASE SaveSettings
  BY <1>3, SaveSettingsSafe
<1>4. CASE UNCHANGED vars
  BY <1>4, StutterSafe
<1> QED BY <1>1, <1>2, <1>3, <1>4 DEF Next

-----------------------------------------------------------------------------
(* The theorems.                                                           *)

\* The invariant holds throughout.
THEOREM SessionsAreSafe == Spec => []SessionsInv
<1>1. Init => SessionsInv
  BY InitSessions
<1>2. SessionsInv /\ [Next]_vars => SessionsInv'
  BY StepSessions
<1> QED BY <1>1, <1>2, PTL DEF Spec

\* Every variable keeps its type, and a rejection that was put off is settled
\* before the handler of a session runs.
THEOREM TypeCorrect == Spec => []TypeOK
<1>1. SessionsInv => TypeOK
  BY DEF SessionsInv
<1> QED BY <1>1, SessionsAreSafe, PTL

\* Whatever is read or done on a session bound to a version is read or done in
\* that version (the pin of api/middlewares.ts): through restarts
\* with another registry and profiles that cannot be read.
THEOREM StaysOnItsVersion == Spec => []ServedAtPin
<1>1. SessionsInv => ServedAtPin
  <2> SUFFICES ASSUME SessionsInv, NEW r \in Slots, At(r, "handle"), req[r].protocol = "ucp",
                      req[r].op \in PinEnforced, sessions[req[r].session].pin # NoVersion
               PROVE req[r].version = sessions[req[r].session].pin
    BY DEF ServedAtPin
  <2>1. VersionOK(r)
    BY DEF SessionsInv, RequestOK
  <2> QED BY <2>1 DEF VersionOK, At
<1> QED BY <1>1, SessionsAreSafe, PTL

\* Sessions are made and taken back whole (create-checkout-session.ts and
\* its compensations), whoever else creates one at the time.
THEOREM MadeWhole == Spec => []SessionsAreWhole
<1>1. SessionsInv => SessionsAreWhole
  BY DEF SessionsInv
<1> QED BY <1>1, SessionsAreSafe, PTL
=============================================================================
