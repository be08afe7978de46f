-------------------------- MODULE AgentProfileFetcher --------------------------
(***************************************************************************)
(* The fetcher of agent profiles: concurrent lookups share two bounded     *)
(* caches, one fetch per url, and counters that limit the fetches in       *)
(* flight in total, per host and per client.  A lookup runs without        *)
(* interruption up to its await; a fetch goes on by itself, and its        *)
(* network steps, its entry in the cache and its end are separate steps.   *)
(*                                                                         *)
(* A fetch is named by the lookup that started it, which waits for it.     *)
(***************************************************************************)
EXTENDS Naturals, FiniteSets, SequencesExt

CONSTANTS
    Lookups,         \* lookups that can be going on at the same time
    Urls, Hosts,
    HostOf,          \* the host of each url
    Clients,         \* the addresses lookups are counted for
    Versions,        \* what a profile can declare; a profile may declare none
    None,            \* undefined, null
    MaxInFlight, MaxPerHost, MaxPerClient, MaxEntries

ASSUME FetcherAssumption ==
    /\ IsFiniteSet(Lookups)
    /\ HostOf \in [Urls -> Hosts]
    /\ MaxInFlight \in Nat /\ MaxPerHost \in Nat /\ MaxPerClient \in Nat
    /\ MaxEntries \in Nat \ {0}
    /\ None \notin Lookups \cup Urls \cup Hosts \cup Clients \cup Versions

VARIABLES
    job,        \* what each lookup is for, and the fetch it waits for
    stage,      \* how far the fetch has got that a lookup started
    result,     \* what that fetch has found
    pending,    \* the fetch under way for each url
    inFlight, perHost, perClient,
    profiles,   \* the cache of profiles, least recently used first
    misses,     \* the cache of failed and redirected fetches
    last        \* history: what the latest finished fetch of each url found

slotVars  == <<pending, inFlight, perHost, perClient>>
cacheVars == <<profiles, misses, last>>
vars == <<job, stage, result, slotVars, cacheVars>>

Ok(version) == [status |-> "ok", version |-> version]
Failed      == [status |-> "failed", version |-> None]
Redirected  == [status |-> "redirected", version |-> None]
Results     == {Ok(v) : v \in Versions \cup {None}} \cup {Failed, Redirected}
NoResult    == [status |-> "none", version |-> None]

NoJob   == [url |-> None, client |-> None, run |-> None]
UrlOf(w) == job[w].url

Init ==
    /\ job = [w \in Lookups |-> NoJob]
    /\ stage = [w \in Lookups |-> "none"]
    /\ result = [w \in Lookups |-> NoResult]
    /\ pending = [u \in Urls |-> None]
    /\ inFlight = 0
    /\ perHost = [h \in Hosts |-> 0]
    /\ perClient = [c \in Clients |-> 0]
    /\ profiles = <<>> /\ misses = <<>>
    /\ last = [u \in Urls |-> NoResult]

-----------------------------------------------------------------------------
(* The caches.                                                             *)

Holds(cache, u)   == \E i \in DOMAIN cache : cache[i].url = u
PlaceOf(cache, u) == CHOOSE i \in DOMAIN cache : cache[i].url = u
EntryOf(cache, u) == cache[PlaceOf(cache, u)]
Without(cache, u) == IF Holds(cache, u) THEN RemoveAt(cache, PlaceOf(cache, u)) ELSE cache

\* A faulty form of Room: off by one.
RoomForOneMore(cache) == IF Len(cache) > MaxEntries /\ cache # <<>> THEN Tail(cache) ELSE cache

\* Make room for one entry, at the expense of the least recently used.
Room(cache) == IF Len(cache) >= MaxEntries /\ cache # <<>> THEN Tail(cache) ELSE cache

\* A faulty form of IsProfile: failures share the cache of the profiles.
EverythingIsAProfile(r) == TRUE

IsProfile(r) == r.status = "ok"

\* A faulty form of RememberedProfiles: a failed refresh leaves the profile.
KeptProfiles(u, r) ==
    IF IsProfile(r)
    THEN Append(Room(Without(profiles, u)), [url |-> u, result |-> r, fresh |-> TRUE])
    ELSE profiles

\* The caches once the result r of a fetch of u is remembered: it replaces
\* whatever either of them had for u.
RememberedProfiles(u, r) ==
    LET others == Without(profiles, u) IN
    IF IsProfile(r) THEN Append(Room(others), [url |-> u, result |-> r, fresh |-> TRUE])
                    ELSE others

RememberedMisses(u, r) ==
    LET others == Without(misses, u) IN
    IF IsProfile(r) THEN others
                    ELSE Append(Room(others), [url |-> u, result |-> r, fresh |-> TRUE])

Hit(u) ==
    LET store == IF Holds(profiles, u) THEN profiles ELSE misses
    IN  Holds(store, u) /\ EntryOf(store, u).fresh

\* A hit becomes the most recently used entry; its life is not prolonged.
Touched(cache, u) ==
    IF Holds(cache, u) THEN Append(Without(cache, u), EntryOf(cache, u)) ELSE cache

-----------------------------------------------------------------------------
(* The slots.                                                              *)

\* A faulty form of MayAcquire: a client at its limit may start one more.
MayAcquireOneMore(h, c) ==
    /\ inFlight < MaxInFlight
    /\ perHost[h] < MaxPerHost
    /\ c # None => perClient[c] <= MaxPerClient

MayAcquire(h, c) ==
    /\ inFlight < MaxInFlight
    /\ perHost[h] < MaxPerHost
    /\ c # None => perClient[c] < MaxPerClient

Raised(counts, k) == IF k = None THEN counts ELSE [counts EXCEPT ![k] = @ + 1]

\* A counter that reaches zero is deleted, and reads as zero from then on.
Lowered(counts, k) ==
    IF k = None THEN counts ELSE [counts EXCEPT ![k] = IF @ <= 1 THEN 0 ELSE @ - 1]

-----------------------------------------------------------------------------
(* A lookup, up to its await.                                              *)

\* A faulty form of FetchUnderWay: concurrent lookups do not share a fetch.
NothingUnderWay(u) == None

FetchUnderWay(u) == pending[u]

\* The answer is in a cache.
LookupHit(w, u) ==
    /\ job[w] = NoJob
    /\ Hit(u)
    /\ profiles' = Touched(profiles, u)
    /\ misses' = IF Holds(profiles, u) THEN misses ELSE Touched(misses, u)
    /\ UNCHANGED <<job, stage, result, slotVars, last>>

LookupShared(w, u, c) ==
    /\ job[w] = NoJob
    /\ ~Hit(u) /\ FetchUnderWay(u) # None
    /\ job' = [job EXCEPT ![w] = [url |-> u, client |-> c, run |-> FetchUnderWay(u)]]
    /\ UNCHANGED <<stage, result, slotVars, cacheVars>>

\* A lookup that finds no slot is answered at once, with the profile known
\* last or with `busy`, and changes nothing: it needs no action of its own.
LookupStarts(w, u, c) ==
    /\ job[w] = NoJob
    /\ ~Hit(u) /\ FetchUnderWay(u) = None
    /\ MayAcquire(HostOf[u], c)
    /\ inFlight' = inFlight + 1
    /\ perHost' = Raised(perHost, HostOf[u])
    /\ perClient' = Raised(perClient, c)
    /\ pending' = [pending EXCEPT ![u] = w]
    /\ job' = [job EXCEPT ![w] = [url |-> u, client |-> c, run |-> w]]
    /\ stage' = [stage EXCEPT ![w] = "resolve"]
    /\ UNCHANGED <<result, cacheVars>>

-----------------------------------------------------------------------------
(* A fetch.                                                                *)

Found(w, r) == /\ result' = [result EXCEPT ![w] = r]
               /\ stage' = [stage EXCEPT ![w] = "found"]

Proceed(w, s) == /\ stage' = [stage EXCEPT ![w] = s]
                 /\ UNCHANGED result

\* A faulty form of Resolve: nothing ends a DNS query of a host that does not
\* answer it.
ResolveWithoutDeadline(w) ==
    /\ stage[w] = "resolve"
    /\ HostOf[UrlOf(w)] # CHOOSE h \in Hosts : TRUE
    /\ Proceed(w, "first") \/ Found(w, Failed)
    /\ UNCHANGED <<job, slotVars, cacheVars>>

\* The url is refused, the host has no address it may have, or the deadline
\* passes; or the download starts.
Resolve(w) ==
    /\ stage[w] = "resolve"
    /\ Proceed(w, "first") \/ Found(w, Failed)
    /\ UNCHANGED <<job, slotVars, cacheVars>>

\* A faulty form of FirstHop: a body that cannot be parsed ends the fetch
\* without a result.
FirstHopUnparsed(w) ==
    /\ stage[w] = "first"
    /\ Proceed(w, "second") \/ \E r \in Results \cup {NoResult} : Found(w, r)
    /\ UNCHANGED <<job, slotVars, cacheVars>>

\* One redirect within the origin is followed, in the time that is left.
FirstHop(w) ==
    /\ stage[w] = "first"
    /\ Proceed(w, "second") \/ \E r \in Results : Found(w, r)
    /\ UNCHANGED <<job, slotVars, cacheVars>>

SecondHop(w) ==
    /\ stage[w] = "second"
    /\ \E r \in Results : Found(w, r)
    /\ UNCHANGED <<job, slotVars, cacheVars>>

Remember(w) ==
    LET u == UrlOf(w) IN
    /\ stage[w] = "found"
    /\ profiles' = RememberedProfiles(u, result[w])
    /\ misses' = RememberedMisses(u, result[w])
    /\ last' = [last EXCEPT ![u] = result[w]]
    /\ stage' = [stage EXCEPT ![w] = "remembered"]
    /\ UNCHANGED <<job, result, slotVars>>

\* A faulty form of Release: the slot of the client is not given back.
ReleaseHostOnly(h, c) ==
    /\ inFlight' = inFlight - 1
    /\ perHost' = Lowered(perHost, h)
    /\ UNCHANGED perClient

Release(h, c) ==
    /\ inFlight' = inFlight - 1
    /\ perHost' = Lowered(perHost, h)
    /\ perClient' = Lowered(perClient, c)

\* The fetch gives its slots back, and everybody who waits for it is answered.
Finish(w) ==
    /\ stage[w] = "remembered"
    /\ pending' = [pending EXCEPT ![UrlOf(w)] = None]
    /\ Release(HostOf[UrlOf(w)], job[w].client)
    /\ job' = [x \in Lookups |-> IF job[x].run = w THEN NoJob ELSE job[x]]
    /\ stage' = [stage EXCEPT ![w] = "none"]
    /\ result' = [result EXCEPT ![w] = NoResult]
    /\ UNCHANGED cacheVars

\* Ten minutes after it was remembered an entry is no hit any more.
Expired(cache, u) ==
    [i \in DOMAIN cache |-> IF cache[i].url = u THEN [cache[i] EXCEPT !.fresh = FALSE]
                                                ELSE cache[i]]

Expire(u) ==
    /\ profiles' = Expired(profiles, u)
    /\ misses' = Expired(misses, u)
    /\ UNCHANGED <<job, stage, result, slotVars, last>>

FetchStep(w) == Resolve(w) \/ FirstHop(w) \/ SecondHop(w) \/ Remember(w) \/ Finish(w)

Next ==
    \/ \E w \in Lookups, u \in Urls, c \in Clients \cup {None} :
          LookupHit(w, u) \/ LookupShared(w, u, c) \/ LookupStarts(w, u, c)
    \/ \E w \in Lookups : FetchStep(w)
    \/ \E u \in Urls : Expire(u)

Spec == Init /\ [][Next]_vars

\* DNS and both downloads are ended by the fetch's deadline of 3 s.
FairSpec == Spec /\ \A w \in Lookups : WF_vars(FetchStep(w))

-----------------------------------------------------------------------------
Stages  == {"none", "resolve", "first", "second", "found", "remembered"}
Entries == [url : Urls, result : Results, fresh : BOOLEAN]

\* The types of what fetches and their slots are made of.
SlotTypes ==
    /\ job \in [Lookups -> [url : Urls \cup {None}, client : Clients \cup {None},
                            run : Lookups \cup {None}]]
    /\ stage \in [Lookups -> Stages]
    /\ pending \in [Urls -> Lookups \cup {None}]
    /\ inFlight \in Nat
    /\ perHost \in [Hosts -> Nat]
    /\ perClient \in [Clients -> Nat]

\* The type invariant.
TypeOK ==
    /\ SlotTypes
    /\ result \in [Lookups -> Results \cup {NoResult}]
    /\ profiles \in Seq(Entries) /\ misses \in Seq(Entries)
    /\ last \in [Urls -> Results \cup {NoResult}]

Running == {w \in Lookups : stage[w] # "none"}
RunningOn(h)  == {w \in Running : HostOf[UrlOf(w)] = h}
RunningFor(c) == {w \in Running : job[w].client = c}

\* The counters count the fetches in flight: no path of a fetch keeps a slot or
\* gives one back twice, so that a busy answer always has fetches to blame
\* (acquire, release and the finally of lookup).
CountersMatch ==
    /\ inFlight = Cardinality(Running)
    /\ \A h \in Hosts : perHost[h] = Cardinality(RunningOn(h))
    /\ \A c \in Clients : perClient[c] = Cardinality(RunningFor(c))

\* However lookups interleave, no more fetches are in flight than the limits
\* allow, in total, on one host, or for one client.
LimitsHold ==
    /\ Cardinality(Running) <= MaxInFlight
    /\ \A h \in Hosts : Cardinality(RunningOn(h)) <= MaxPerHost
    /\ \A c \in Clients : Cardinality(RunningFor(c)) <= MaxPerClient

\* A url is fetched by one fetch at a time, the one its lookups share.
OneFetchPerUrl ==
    /\ \A w \in Running : pending[UrlOf(w)] = w
    /\ \A u \in Urls : pending[u] # None => pending[u] \in Running /\ UrlOf(pending[u]) = u

\* Whatever a lookup can be answered with, from either cache, as the profile
\* known last, or by the fetch it waits for, is what the latest fetch of that
\* url found: a failed refresh is not answered with the older profile, nor a
\* new profile hidden by an older failure.
AnswersAreNewest ==
    /\ \A u \in Urls : /\ Holds(profiles, u) => EntryOf(profiles, u).result = last[u]
                       /\ Holds(misses, u) => EntryOf(misses, u).result = last[u]
    /\ \A w \in Lookups : stage[w] = "remembered" => result[w] = last[UrlOf(w)]

\* The caches stay within their size, with one entry per url.
CachesBounded ==
    /\ Len(profiles) <= MaxEntries /\ Len(misses) <= MaxEntries
    /\ Cardinality({u \in Urls : Holds(profiles, u) \/ Holds(misses, u)})
         = Len(profiles) + Len(misses)

\* A profile leaves the cache only for a newer result of its own url or for
\* another profile: failures of other urls never push it out.
FailuresEvictNoProfile ==
    [][\A u \in Urls :
         Holds(profiles, u) /\ ~Holds(profiles', u) =>
            \E w \in Lookups : /\ stage[w] = "found" /\ stage'[w] = "remembered"
                              /\ (UrlOf(w) = u \/ result[w].status = "ok")]_vars

\* Every lookup that waits is answered, also one that joined another's fetch.
LookupsAreAnswered == \A w \in Lookups : job[w] # NoJob ~> job[w] = NoJob
=============================================================================
