------------------------- MODULE VersionNegotiation -------------------------
(***************************************************************************)
(* The UCP version of a request: what the registry of a deployment and the *)
(* profile that the agent declares make of it, and how the version that a  *)
(* session was created with changes the outcome.  Operators only; the      *)
(* state is that of AgentSessions.                                         *)
(***************************************************************************)

CONSTANTS
    Versions,         \* the UCP versions this build has a wire format for
    LimitedVersions,  \* those that offer checkout and order alone
    NoVersion         \* no version: of a session without a pin, of ACP

ASSUME VersionsAssumption ==
    /\ LimitedVersions \subseteq Versions
    /\ NoVersion \notin Versions

Capabilities == {"cart", "catalog", "checkout", "order"}

\* What a deployment may be configured with: any version as the current one,
\* any set of others beside it.
Registries ==
    { reg \in [current : Versions, enabled : SUBSET Versions, negotiation : {"lenient", "strict"}] :
        reg.current \in reg.enabled }

\* What the look-up of the profile named by UCP-Agent comes to: a known
\* version, or one of these.  "none" is a header that names no profile.
Profiles == Versions \cup {"none", "undeclared", "unreachable", "busy", "unknown", "redirected"}

\* Nothing depends on why a version was not resolved, once it is served.
Outcomes == {"matched", "unresolved"}

Rejections == {"none", "version_unsupported", "profile_redirected",
               "profile_fetch_busy", "profile_unreachable", "profile_malformed"}

Resolutions == [version : Versions, outcome : Outcomes, rejection : Rejections]

-----------------------------------------------------------------------------

Served(version, outcome) == [version |-> version, outcome |-> outcome, rejection |-> "none"]

\* A rejection is worded in the format of the current version.
Rejected(reg, code) == [version |-> reg.current, outcome |-> "unresolved", rejection |-> code]

\* A strict store refuses what a lenient one serves in its current version.
StrictCode(profile) ==
    CASE profile = "busy"        -> "profile_fetch_busy"
      [] profile = "unreachable" -> "profile_unreachable"
      [] OTHER                   -> "profile_malformed"

ResolveUcpVersion(reg, profile) ==
    CASE profile \in reg.enabled              -> Served(profile, "matched")
      [] profile \in Versions \ reg.enabled   -> Rejected(reg, "version_unsupported")
      [] profile = "unknown"                  -> Rejected(reg, "version_unsupported")
      [] profile = "redirected"               -> Rejected(reg, "profile_redirected")
      [] profile \in {"none", "undeclared", "unreachable", "busy"} ->
            IF profile = "none" \/ reg.negotiation = "lenient"
            THEN Served(reg.current, "unresolved") ELSE Rejected(reg, StrictCode(profile))

\* The one rejection that the version of a session can make good.
PinRecoverable(res) == res.rejection = "profile_fetch_busy"

\* A faulty form of ApplyUcpSessionPin: a declared version has precedence.
DeclaredVersionWins(reg, res, pin) ==
    IF pin = NoVersion \/ res.outcome = "matched" THEN res
    ELSE IF res.rejection # "none" /\ ~PinRecoverable(res) THEN res
    ELSE [res EXCEPT !.version = pin, !.rejection = "none"]

\* A session is served in the version it was created with: an agent that now
\* declares another one is refused, one that declares none gets it.
ApplyUcpSessionPin(reg, res, pin) ==
    IF pin = NoVersion \/ (res.rejection # "none" /\ ~PinRecoverable(res)) THEN res
    ELSE IF res.outcome = "matched" /\ res.version # pin
         THEN Rejected(reg, "version_unsupported")
         ELSE [res EXCEPT !.version = pin, !.rejection = "none"]

Supports(version, capability) ==
    version \in LimitedVersions => capability \in {"checkout", "order"}

\* The version that a new session is bound to: only one that the agent named.
PinOf(res) == IF res.outcome = "matched" THEN res.version ELSE NoVersion
=============================================================================
