----------------------- MODULE AgentProfileFetcherProofs -----------------------
(***************************************************************************)
(* The slots of AgentProfileFetcher: the counters count the fetches in     *)
(* flight, the limits hold, and a url has one fetch; the caches play no    *)
(* part in it.  Then the caches: what is in them is what the latest fetch  *)
(* of the url found, which rests on a url having one fetch.                *)
(***************************************************************************)
EXTENDS AgentProfileFetcher, FiniteSetTheorems, FunctionTheorems, SequenceTheorems, TLAPS

\* A running fetch is the one its own lookup waits for.
JobsFit == \A w \in Running : UrlOf(w) \in Urls /\ job[w].run = w

\* The inductive invariant.
SlotInv == SlotTypes /\ JobsFit /\ OneFetchPerUrl /\ CountersMatch /\ LimitsHold

\* The sets that are counted are finite.
LEMMA RunningIsFinite ==
    /\ IsFiniteSet(Running)
    /\ \A h \in Hosts : IsFiniteSet(RunningOn(h))
    /\ \A c \in Clients : IsFiniteSet(RunningFor(c))
  BY FS_Subset, FetcherAssumption DEF Running, RunningOn, RunningFor

\* Initially nothing runs.
LEMMA InitSlots == Init => SlotInv
<1> SUFFICES ASSUME Init PROVE SlotInv
  OBVIOUS
<1>1. SlotTypes
  BY FetcherAssumption DEF Init, SlotTypes, NoJob, Stages
<1>2. /\ Running = {}
      /\ \A h \in Hosts : RunningOn(h) = {}
      /\ \A c \in Clients : RunningFor(c) = {}
  BY DEF Init, Running, RunningOn, RunningFor
<1>3. JobsFit /\ OneFetchPerUrl
  BY <1>2 DEF Init, JobsFit, OneFetchPerUrl
<1>4. CountersMatch /\ LimitsHold
  <2>1. Cardinality({}) = 0
    BY FS_EmptySet
  <2>2. inFlight = 0 /\ Cardinality(Running) = 0
    BY <1>2, <2>1 DEF Init
  <2>3. \A h \in Hosts : perHost[h] = 0 /\ Cardinality(RunningOn(h)) = 0
    BY <1>2, <2>1 DEF Init
  <2>4. \A c \in Clients : perClient[c] = 0 /\ Cardinality(RunningFor(c)) = 0
    BY <1>2, <2>1 DEF Init
  <2> QED BY <2>2, <2>3, <2>4, FetcherAssumption DEF CountersMatch, LimitsHold
<1> QED BY <1>1, <1>3, <1>4 DEF SlotInv

\* A step that changes neither the running fetches, nor what they are for, nor
\* the slots, preserves the invariant.
LEMMA SlotsUntouched ==
    ASSUME SlotInv, SlotTypes', UNCHANGED slotVars, Running' = Running,
           \A w \in Running : job'[w] = job[w]
    PROVE  SlotInv'
<1>1. /\ \A h : RunningOn(h)' = RunningOn(h)
      /\ \A c : RunningFor(c)' = RunningFor(c)
  BY DEF RunningOn, RunningFor, UrlOf
<1>2. JobsFit'
  BY DEF SlotInv, JobsFit, UrlOf
<1>3. OneFetchPerUrl'
  BY DEF SlotInv, OneFetchPerUrl, UrlOf, slotVars
<1>4. CountersMatch' /\ LimitsHold'
  BY <1>1 DEF SlotInv, CountersMatch, LimitsHold, slotVars
<1> QED BY <1>2, <1>3, <1>4 DEF SlotInv

\* A lookup that starts a fetch takes the slots of one more.
LEMMA StartTakesSlots ==
    ASSUME SlotInv, NEW w \in Lookups, NEW u \in Urls, NEW c \in Clients \cup {None},
           LookupStarts(w, u, c)
    PROVE  SlotInv'
<1>1. w \notin Running
  BY FetcherAssumption DEF SlotInv, JobsFit, LookupStarts, NoJob, UrlOf
<1>2. HostOf[u] \in Hosts
  BY FetcherAssumption
<1>3. SlotTypes'
  BY <1>2, FetcherAssumption
  DEF SlotInv, SlotTypes, LookupStarts, Raised, Stages
<1>4. Running' = Running \cup {w}
  BY DEF SlotInv, SlotTypes, LookupStarts, Running
<1>5. /\ \A x \in Running : job'[x] = job[x] /\ x # w
      /\ job'[w] = [url |-> u, client |-> c, run |-> w]
  BY <1>1 DEF SlotInv, SlotTypes, LookupStarts, Running
<1>6. \A h : RunningOn(h)' = IF h = HostOf[u] THEN RunningOn(h) \cup {w} ELSE RunningOn(h)
  BY <1>4, <1>5 DEF RunningOn, UrlOf
<1>7. \A p : RunningFor(p)' = IF p = c THEN RunningFor(p) \cup {w} ELSE RunningFor(p)
  BY <1>4, <1>5 DEF RunningFor
<1>8. JobsFit'
  BY <1>4, <1>5 DEF SlotInv, JobsFit, UrlOf
<1>9. OneFetchPerUrl'
  <2>1. pending' = [pending EXCEPT ![u] = w] /\ pending[u] = None
    BY DEF LookupStarts, FetchUnderWay
  <2>2. ASSUME NEW x \in Running PROVE UrlOf(x) \in Urls /\ UrlOf(x) # u /\ pending[UrlOf(x)] = x
    BY <2>1, FetcherAssumption DEF SlotInv, JobsFit, OneFetchPerUrl, Running
  <2>3. \A x \in Running' : pending'[job'[x].url] = x
    BY <2>1, <2>2, <1>4, <1>5 DEF SlotInv, SlotTypes, UrlOf
  <2>4. \A v \in Urls : pending'[v] # None =>
            pending'[v] \in Running' /\ job'[pending'[v]].url = v
    BY <2>1, <1>4, <1>5 DEF SlotInv, SlotTypes, OneFetchPerUrl, UrlOf
  <2> QED BY <2>3, <2>4 DEF OneFetchPerUrl, UrlOf
<1>10. inFlight' = Cardinality(Running') /\ Cardinality(Running') <= MaxInFlight
  <2>1. Cardinality(Running') = Cardinality(Running) + 1
    BY <1>1, <1>4, RunningIsFinite, FS_AddElement
  <2> QED BY <2>1, FetcherAssumption
          DEF SlotInv, SlotTypes, CountersMatch, LookupStarts, MayAcquire
<1>11. ASSUME NEW h \in Hosts
       PROVE  perHost'[h] = Cardinality(RunningOn(h)') /\ Cardinality(RunningOn(h)') <= MaxPerHost
  <2>1. w \notin RunningOn(h)
    BY <1>1 DEF RunningOn
  <2>2. Cardinality(RunningOn(h) \cup {w}) = Cardinality(RunningOn(h)) + 1
    BY <2>1, RunningIsFinite, FS_AddElement
  <2>3. /\ perHost[h] = Cardinality(RunningOn(h)) /\ perHost[h] \in Nat
        /\ Cardinality(RunningOn(h)) <= MaxPerHost
    BY DEF SlotInv, SlotTypes, CountersMatch, LimitsHold
  <2>4. CASE h = HostOf[u]
    <3>1. perHost'[h] = perHost[h] + 1 /\ perHost[h] < MaxPerHost
      BY <2>4, <1>2, FetcherAssumption DEF SlotInv, SlotTypes, LookupStarts, Raised, MayAcquire, NoJob
    <3>2. RunningOn(h)' = RunningOn(h) \cup {w}
      BY <2>4, <1>6
    <3> QED BY <3>1, <3>2, <2>2, <2>3, FetcherAssumption
  <2>5. CASE h # HostOf[u]
    <3>1. perHost'[h] = perHost[h]
      BY <2>5 DEF SlotInv, SlotTypes, LookupStarts, Raised
    <3> QED BY <3>1, <2>3, <2>5, <1>6
  <2> QED BY <2>4, <2>5
<1>12. ASSUME NEW p \in Clients
       PROVE  perClient'[p] = Cardinality(RunningFor(p)') /\ Cardinality(RunningFor(p)') <= MaxPerClient
  <2>1. w \notin RunningFor(p)
    BY <1>1 DEF RunningFor
  <2>2. Cardinality(RunningFor(p) \cup {w}) = Cardinality(RunningFor(p)) + 1
    BY <2>1, RunningIsFinite, FS_AddElement
  <2>3. /\ perClient[p] = Cardinality(RunningFor(p)) /\ perClient[p] \in Nat
        /\ Cardinality(RunningFor(p)) <= MaxPerClient
    BY DEF SlotInv, SlotTypes, CountersMatch, LimitsHold
  <2>4. CASE p = c
    <3>1. c # None
      BY <2>4, FetcherAssumption
    <3>2. perClient'[p] = perClient[p] + 1 /\ perClient[p] < MaxPerClient
      BY <2>4, <3>1 DEF SlotInv, SlotTypes, LookupStarts, Raised, MayAcquire
    <3>3. RunningFor(p)' = RunningFor(p) \cup {w}
      BY <2>4, <1>7
    <3> QED BY <3>2, <3>3, <2>2, <2>3, FetcherAssumption
  <2>5. CASE p # c
    <3>1. perClient'[p] = perClient[p]
      BY <2>5 DEF SlotInv, SlotTypes, LookupStarts, Raised
    <3> QED BY <3>1, <2>3, <2>5, <1>7
  <2> QED BY <2>4, <2>5
<1>13. CountersMatch' /\ LimitsHold'
  BY <1>10, <1>11, <1>12 DEF CountersMatch, LimitsHold
<1> QED BY <1>3, <1>8, <1>9, <1>13 DEF SlotInv

\* A fetch that ends gives back exactly its own slots.
LEMMA FinishGivesSlotsBack ==
    ASSUME SlotInv, NEW w \in Lookups, Finish(w)
    PROVE  SlotInv'
<1> DEFINE u == UrlOf(w)
           c == job[w].client
<1>1. w \in Running /\ u \in Urls /\ job[w].run = w /\ HostOf[u] \in Hosts
  BY FetcherAssumption DEF SlotInv, JobsFit, Finish, Running
<1>2. c \in Clients \cup {None}
  BY DEF SlotInv, SlotTypes
<1>3. Running' = Running \ {w}
  BY DEF SlotInv, SlotTypes, Finish, Running
<1>4. \A x \in Running \ {w} : job'[x] = job[x]
  BY DEF SlotInv, JobsFit, Finish, Running
<1>5. \A h : RunningOn(h)' = IF h = HostOf[u] THEN RunningOn(h) \ {w} ELSE RunningOn(h)
  BY <1>1, <1>3, <1>4 DEF RunningOn, UrlOf
<1>6. \A p : RunningFor(p)' = IF p = c THEN RunningFor(p) \ {w} ELSE RunningFor(p)
  BY <1>1, <1>3, <1>4 DEF RunningFor
<1>7. JobsFit'
  BY <1>3, <1>4 DEF SlotInv, JobsFit, UrlOf
<1>8. OneFetchPerUrl'
  <2>1. pending' = [pending EXCEPT ![u] = None] /\ pending[u] = w
    BY <1>1 DEF Finish, SlotInv, OneFetchPerUrl
  <2>2. ASSUME NEW x \in Running \ {w}
        PROVE  UrlOf(x) \in Urls /\ UrlOf(x) # u /\ pending[UrlOf(x)] = x
    BY <2>1 DEF SlotInv, JobsFit, OneFetchPerUrl, Running
  <2>3. \A x \in Running' : pending'[job'[x].url] = x
    BY <2>1, <2>2, <1>3, <1>4 DEF SlotInv, SlotTypes, UrlOf
  <2>4. \A v \in Urls : pending'[v] # None =>
            pending'[v] \in Running' /\ job'[pending'[v]].url = v
    BY <2>1, <1>1, <1>3, <1>4 DEF SlotInv, SlotTypes, OneFetchPerUrl, UrlOf
  <2> QED BY <2>3, <2>4 DEF OneFetchPerUrl, UrlOf
<1>9. /\ inFlight' = Cardinality(Running') /\ Cardinality(Running') <= MaxInFlight
      /\ inFlight' \in Nat
  <2>1. Cardinality(Running') = Cardinality(Running) - 1
    BY <1>1, <1>3, RunningIsFinite, FS_RemoveElement
  <2>2. IsFiniteSet(Running')
    BY <1>3, RunningIsFinite, FS_RemoveElement
  <2>3. Cardinality(Running') \in Nat
    BY <2>2, FS_CardinalityType
  <2> QED BY <2>1, <2>3, FetcherAssumption
          DEF SlotInv, SlotTypes, CountersMatch, LimitsHold, Finish, Release
<1>10. ASSUME NEW h \in Hosts
       PROVE  /\ perHost'[h] = Cardinality(RunningOn(h)')
              /\ Cardinality(RunningOn(h)') <= MaxPerHost
  <2>1. /\ perHost[h] = Cardinality(RunningOn(h)) /\ perHost[h] \in Nat
        /\ Cardinality(RunningOn(h)) <= MaxPerHost
    BY DEF SlotInv, SlotTypes, CountersMatch, LimitsHold
  <2>2. CASE h = HostOf[u]
    <3>1. w \in RunningOn(h)
      BY <1>1, <2>2 DEF RunningOn
    <3>2. /\ Cardinality(RunningOn(h) \ {w}) = Cardinality(RunningOn(h)) - 1
          /\ IsFiniteSet(RunningOn(h) \ {w})
      BY <3>1, RunningIsFinite, FS_RemoveElement
    <3>3. Cardinality(RunningOn(h) \ {w}) \in Nat
      BY <3>2, FS_CardinalityType
    <3>4. HostOf[u] # None => perHost'[h] = IF perHost[h] <= 1 THEN 0 ELSE perHost[h] - 1
      BY <2>2, <1>1 DEF SlotInv, SlotTypes, Finish, Release, Lowered
    <3>5. HostOf[u] # None
      BY <1>1, FetcherAssumption
    <3>6. RunningOn(h)' = RunningOn(h) \ {w}
      BY <2>2, <1>5
    <3>7. Cardinality(RunningOn(h)) \in Nat \ {0}
      BY <3>2, <3>3, <2>1
    <3> QED BY <3>2, <3>4, <3>5, <3>6, <3>7, <2>1, FetcherAssumption
  <2>3. CASE h # HostOf[u]
    <3>1. perHost'[h] = perHost[h]
      BY <2>3 DEF SlotInv, SlotTypes, Finish, Release, Lowered
    <3> QED BY <3>1, <2>1, <2>3, <1>5
  <2> QED BY <2>2, <2>3
<1>11. ASSUME NEW p \in Clients
       PROVE  /\ perClient'[p] = Cardinality(RunningFor(p)')
              /\ Cardinality(RunningFor(p)') <= MaxPerClient
  <2>1. /\ perClient[p] = Cardinality(RunningFor(p)) /\ perClient[p] \in Nat
        /\ Cardinality(RunningFor(p)) <= MaxPerClient
    BY DEF SlotInv, SlotTypes, CountersMatch, LimitsHold
  <2>2. CASE p = c
    <3>1. w \in RunningFor(p) /\ p # None
      BY <1>1, <2>2, FetcherAssumption DEF RunningFor
    <3>2. /\ Cardinality(RunningFor(p) \ {w}) = Cardinality(RunningFor(p)) - 1
          /\ IsFiniteSet(RunningFor(p) \ {w})
      BY <3>1, RunningIsFinite, FS_RemoveElement
    <3>3. Cardinality(RunningFor(p) \ {w}) \in Nat
      BY <3>2, FS_CardinalityType
    <3>4. perClient'[p] = IF perClient[p] <= 1 THEN 0 ELSE perClient[p] - 1
      BY <2>2, <3>1 DEF SlotInv, SlotTypes, Finish, Release, Lowered
    <3>5. RunningFor(p)' = RunningFor(p) \ {w}
      BY <2>2, <1>6
    <3>6. Cardinality(RunningFor(p)) \in Nat \ {0}
      BY <3>2, <3>3, <2>1
    <3> QED BY <3>2, <3>4, <3>5, <3>6, <2>1, FetcherAssumption
  <2>3. CASE p # c
    <3>1. perClient'[p] = perClient[p]
      BY <2>3 DEF SlotInv, SlotTypes, Finish, Release, Lowered
    <3> QED BY <3>1, <2>1, <2>3, <1>6
  <2> QED BY <2>2, <2>3
<1>12. SlotTypes'
  <2>1. job' \in [Lookups -> [url : Urls \cup {None}, client : Clients \cup {None},
                              run : Lookups \cup {None}]]
    BY DEF SlotInv, SlotTypes, Finish, NoJob
  <2>2. /\ stage' \in [Lookups -> Stages]
        /\ pending' \in [Urls -> Lookups \cup {None}]
    BY DEF SlotInv, SlotTypes, Finish, Stages
  <2>3. perHost' \in [Hosts -> Nat] /\ perClient' \in [Clients -> Nat]
    <3>1. ASSUME NEW S, NEW f \in [S -> Nat], NEW k PROVE Lowered(f, k) \in [S -> Nat]
      <4>1. ASSUME NEW n \in Nat PROVE (IF n <= 1 THEN 0 ELSE n - 1) \in Nat
        OBVIOUS
      <4>2. k \in S => (IF f[k] <= 1 THEN 0 ELSE f[k] - 1) \in Nat
        BY <4>1
      <4> QED BY <4>2 DEF Lowered
    <3> QED BY <3>1 DEF SlotInv, SlotTypes, Finish, Release
  <2> QED BY <2>1, <2>2, <2>3, <1>9 DEF SlotTypes
<1>13. CountersMatch' /\ LimitsHold'
  BY <1>9, <1>10, <1>11 DEF CountersMatch, LimitsHold
<1> QED BY <1>7, <1>8, <1>12, <1>13 DEF SlotInv

\* Every step preserves the invariant.
LEMMA StepKeepsSlots == SlotInv /\ [Next]_vars => SlotInv'
<1> SUFFICES ASSUME SlotInv, [Next]_vars PROVE SlotInv'
  OBVIOUS
<1>1. ASSUME NEW w \in Lookups, NEW u \in Urls, LookupHit(w, u) PROVE SlotInv'
  <2>1. SlotTypes' /\ UNCHANGED slotVars /\ Running' = Running /\ UNCHANGED job
    BY <1>1 DEF SlotInv, SlotTypes, LookupHit, slotVars, Running
  <2> QED BY <2>1, SlotsUntouched
<1>2. ASSUME NEW w \in Lookups, NEW u \in Urls, NEW c \in Clients \cup {None},
             LookupShared(w, u, c)
      PROVE  SlotInv'
  <2>1. w \notin Running
    BY <1>2, FetcherAssumption DEF SlotInv, JobsFit, LookupShared, NoJob
  <2>2. SlotTypes' /\ UNCHANGED slotVars /\ Running' = Running
    BY <1>2 DEF SlotInv, SlotTypes, LookupShared, slotVars, Running, FetchUnderWay
  <2>3. \A x \in Running : job'[x] = job[x]
    BY <1>2, <2>1 DEF SlotInv, SlotTypes, LookupShared, Running
  <2> QED BY <2>2, <2>3, SlotsUntouched
<1>3. ASSUME NEW w \in Lookups, NEW u \in Urls, NEW c \in Clients \cup {None},
             LookupStarts(w, u, c)
      PROVE  SlotInv'
  BY <1>3, StartTakesSlots
<1>4. ASSUME NEW w \in Lookups, Resolve(w) \/ FirstHop(w) \/ SecondHop(w) \/ Remember(w)
      PROVE  SlotInv'
  <2>1. SlotTypes' /\ UNCHANGED slotVars /\ Running' = Running /\ UNCHANGED job
    BY <1>4 DEF SlotInv, SlotTypes, Resolve, FirstHop, SecondHop, Remember, Proceed, Found,
                slotVars, Running, Stages
  <2> QED BY <2>1, SlotsUntouched
<1>5. ASSUME NEW w \in Lookups, Finish(w) PROVE SlotInv'
  BY <1>5, FinishGivesSlotsBack
<1>6. ASSUME NEW u \in Urls, Expire(u) PROVE SlotInv'
  <2>1. SlotTypes' /\ UNCHANGED slotVars /\ Running' = Running /\ UNCHANGED job
    BY <1>6 DEF SlotInv, SlotTypes, Expire, slotVars, Running
  <2> QED BY <2>1, SlotsUntouched
<1>7. CASE UNCHANGED vars
  <2>1. SlotTypes' /\ UNCHANGED slotVars /\ Running' = Running /\ UNCHANGED job
    BY <1>7 DEF SlotInv, SlotTypes, vars, slotVars, Running
  <2> QED BY <2>1, SlotsUntouched
<1> QED BY <1>1, <1>2, <1>3, <1>4, <1>5, <1>6, <1>7 DEF Next, FetchStep

LEMMA SlotsAlways == Spec => []SlotInv
  BY InitSlots, StepKeepsSlots, PTL DEF Spec

\* The counters count the fetches in flight, for any numbers of lookups, urls,
\* hosts and clients and any limits: no slot leaks, none is given back twice.
THEOREM CountersAlwaysMatch == Spec => []CountersMatch
<1>1. SlotInv => CountersMatch
  BY DEF SlotInv
<1> QED BY <1>1, SlotsAlways, PTL

\* The limits on fetches in flight hold in total, per host and per client.
THEOREM LimitsAlwaysHold == Spec => []LimitsHold
<1>1. SlotInv => LimitsHold
  BY DEF SlotInv
<1> QED BY <1>1, SlotsAlways, PTL

\* Concurrent lookups of a url share its one fetch.
THEOREM FetchIsShared == Spec => []OneFetchPerUrl
<1>1. SlotInv => OneFetchPerUrl
  BY DEF SlotInv
<1> QED BY <1>1, SlotsAlways, PTL

-----------------------------------------------------------------------------
(* The operators on a cache.                                               *)

\* A cache: a sequence of entries, no two of them for one url.
IsCache(cache) ==
    /\ cache \in Seq(Entries)
    /\ \A i, j \in DOMAIN cache : cache[i].url = cache[j].url => i = j

\* In a cache, the entry of a url is the entry with that url.
LEMMA EntryIsTheOne ==
    ASSUME NEW cache, IsCache(cache), NEW i \in DOMAIN cache
    PROVE  /\ Holds(cache, cache[i].url)
           /\ PlaceOf(cache, cache[i].url) = i
           /\ EntryOf(cache, cache[i].url) = cache[i]
  BY DEF IsCache, Holds, PlaceOf, EntryOf

\* The place of a url that is held.
LEMMA PlaceHoldsUrl ==
    ASSUME NEW cache, IsCache(cache), NEW u, Holds(cache, u)
    PROVE  /\ PlaceOf(cache, u) \in 1 .. Len(cache)
           /\ cache[PlaceOf(cache, u)].url = u
           /\ EntryOf(cache, u) \in Entries
           /\ EntryOf(cache, u).url = u
<1>1. PlaceOf(cache, u) \in DOMAIN cache /\ cache[PlaceOf(cache, u)].url = u
  BY DEF Holds, PlaceOf
<1>2. DOMAIN cache = 1 .. Len(cache)
  BY LenProperties DEF IsCache
<1> QED BY <1>1, <1>2, ElementOfSeq DEF IsCache, EntryOf

\* Without removes the entry of the url, and nothing else.
LEMMA WithoutRemoves ==
    ASSUME NEW cache, IsCache(cache), NEW u
    PROVE  /\ IsCache(Without(cache, u))
           /\ Len(Without(cache, u)) = IF Holds(cache, u) THEN Len(cache) - 1 ELSE Len(cache)
           /\ Range(Without(cache, u)) = {e \in Range(cache) : e.url # u}
<1>1. CASE ~Holds(cache, u)
  <2>1. Without(cache, u) = cache
    BY <1>1 DEF Without
  <2>2. \A i \in DOMAIN cache : cache[i].url # u
    BY <1>1 DEF Holds
  <2> QED BY <1>1, <2>1, <2>2 DEF Range
<1>2. CASE Holds(cache, u)
  <2> DEFINE n == Len(cache)
             p == PlaceOf(cache, u)
             rest == Without(cache, u)
             Old(j) == IF j < p THEN j ELSE j + 1
  <2>1. /\ n \in Nat /\ DOMAIN cache = 1 .. n /\ cache \in Seq(Entries)
        /\ \A i \in 1 .. n : cache[i] \in Entries
    BY LenProperties, ElementOfSeq DEF IsCache
  <2>2. p \in 1 .. n /\ cache[p].url = u
    BY <1>2, PlaceHoldsUrl
  <2>3. rest = SubSeq(cache, 1, p - 1) \o SubSeq(cache, p + 1, n)
    BY <1>2 DEF Without, RemoveAt
  <2> HIDE DEF p, n, rest
  <2>4. /\ SubSeq(cache, 1, p - 1) \in Seq(Entries)
        /\ Len(SubSeq(cache, 1, p - 1)) = p - 1
        /\ \A i \in 1 .. p - 1 : SubSeq(cache, 1, p - 1)[i] = cache[i]
    BY <2>1, <2>2, SubSeqProperties
  <2>5. /\ SubSeq(cache, p + 1, n) \in Seq(Entries)
        /\ Len(SubSeq(cache, p + 1, n)) = n - p
        /\ \A i \in 1 .. n - p : SubSeq(cache, p + 1, n)[i] = cache[p + i]
    BY <2>1, <2>2, SubSeqProperties
  <2>6. /\ rest \in Seq(Entries) /\ Len(rest) = n - 1 /\ DOMAIN rest = 1 .. n - 1
    BY <2>1, <2>2, <2>3, <2>4, <2>5, ConcatProperties, LenProperties
  <2>7. ASSUME NEW j \in 1 .. n - 1
        PROVE  rest[j] = cache[Old(j)] /\ Old(j) \in 1 .. n /\ Old(j) # p
    <3>1. rest[j] = IF j <= p - 1 THEN SubSeq(cache, 1, p - 1)[j]
                                  ELSE SubSeq(cache, p + 1, n)[j - (p - 1)]
      <4> DEFINE s1 == SubSeq(cache, 1, p - 1)
                 s2 == SubSeq(cache, p + 1, n)
      <4>1. s1 \in Seq(Entries) /\ s2 \in Seq(Entries)
        BY <2>4, <2>5
      <4>2. Len(s1) = p - 1 /\ Len(s2) = n - p
        BY <2>4, <2>5
      <4>3. rest = s1 \o s2
        BY <2>3
      <4> HIDE DEF s1, s2
      <4>4. j \in 1 .. Len(s1) + Len(s2)
        BY <4>2, <2>1, <2>2
      <4>5. rest[j] = IF j <= Len(s1) THEN s1[j] ELSE s2[j - Len(s1)]
        BY <4>1, <4>3, <4>4, ConcatProperties
      <4> QED BY <4>2, <4>5 DEF s1, s2
    <3>2. CASE j < p
      <4>1. j \in 1 .. p - 1
        BY <3>2, <2>1, <2>2
      <4> QED BY <4>1, <3>1, <3>2, <2>1, <2>2, <2>4
    <3>3. CASE ~(j < p)
      <4>1. j - (p - 1) \in 1 .. n - p /\ p + (j - (p - 1)) = j + 1 /\ ~(j <= p - 1)
        BY <3>3, <2>1, <2>2
      <4>2. rest[j] = cache[j + 1]
        BY <4>1, <3>1, <2>5
      <4> QED BY <4>2, <3>3, <2>1, <2>2
    <3> QED BY <3>2, <3>3
  <2>8. ASSUME NEW i \in 1 .. n, i # p PROVE \E j \in 1 .. n - 1 : Old(j) = i
    <3>1. CASE i < p
      BY <3>1, <2>1, <2>2
    <3>2. CASE i > p
      <4>1. i - 1 \in 1 .. n - 1 /\ Old(i - 1) = i
        BY <3>2, <2>1, <2>2
      <4> QED BY <4>1
    <3> QED BY <3>1, <3>2, <2>1, <2>2, <2>8
  <2>9. \A i \in 1 .. n : cache[i].url = u <=> i = p
    BY <2>1, <2>2 DEF IsCache
  <2>10. IsCache(rest)
    <3>1. \A i, j \in 1 .. n - 1 : Old(i) = Old(j) => i = j
      BY <2>1, <2>2
    <3> HIDE DEF Old
    <3>2. \A i, j \in 1 .. n : cache[i].url = cache[j].url => i = j
      BY <2>1 DEF IsCache
    <3>3. \A i, j \in 1 .. n - 1 : rest[i].url = rest[j].url => i = j
      BY <3>1, <3>2, <2>7
    <3> QED BY <3>3, <2>6 DEF IsCache
  <2>11. Range(rest) = {e \in Range(cache) : e.url # u}
    <3>1. DOMAIN cache = 1 .. n /\ DOMAIN rest = 1 .. n - 1
      BY <2>1, <2>6, <2>10, LenProperties DEF IsCache
    <3> HIDE DEF Old, n, rest
    <3>2. ASSUME NEW j \in 1 .. n - 1
          PROVE  rest[j] \in {e \in Range(cache) : e.url # u}
      <4>1. rest[j] = cache[Old(j)] /\ Old(j) \in 1 .. n /\ Old(j) # p
        BY <2>7
      <4> QED BY <4>1, <2>9, <3>1 DEF Range
    <3>3. ASSUME NEW i \in 1 .. n, cache[i].url # u
          PROVE  cache[i] \in Range(rest)
      <4>1. i # p
        BY <3>3, <2>9
      <4>2. PICK j \in 1 .. n - 1 : Old(j) = i
        BY <4>1, <2>8
      <4> QED BY <4>2, <2>7, <3>1 DEF Range
    <3> QED BY <3>1, <3>2, <3>3 DEF Range
  <2> QED BY <1>2, <2>6, <2>10, <2>11 DEF n, rest
<1> QED BY <1>1, <1>2

\* Room leaves a cache that an entry can be added to.
LEMMA RoomIsMade ==
    ASSUME NEW cache, IsCache(cache), Len(cache) <= MaxEntries
    PROVE  /\ IsCache(Room(cache))
           /\ Len(Room(cache)) < MaxEntries
           /\ Range(Room(cache)) \subseteq Range(cache)
<1>1. /\ cache \in Seq(Entries) /\ Len(cache) \in Nat /\ DOMAIN cache = 1 .. Len(cache)
  BY LenProperties DEF IsCache
<1>2. CASE Len(cache) >= MaxEntries /\ cache # <<>>
  <2>1. Room(cache) = Tail(cache)
    BY <1>2 DEF Room
  <2>2. /\ Tail(cache) \in Seq(Entries) /\ Len(Tail(cache)) = Len(cache) - 1
        /\ \A i \in 1 .. Len(Tail(cache)) : Tail(cache)[i] = cache[i + 1]
    BY <1>1, <1>2, HeadTailProperties
  <2>3. DOMAIN Tail(cache) = 1 .. Len(cache) - 1
    BY <2>2, LenProperties
  <2>4. IsCache(Tail(cache))
    BY <1>1, <2>2, <2>3 DEF IsCache
  <2>5. Range(Tail(cache)) \subseteq Range(cache)
    BY <1>1, <2>2, <2>3 DEF Range
  <2> QED BY <1>1, <2>1, <2>2, <2>4, <2>5, FetcherAssumption
<1>3. CASE ~(Len(cache) >= MaxEntries /\ cache # <<>>)
  <2>1. Room(cache) = cache
    BY <1>3 DEF Room
  <2>2. Len(cache) < MaxEntries
    BY <1>1, <1>3, EmptySeq, FetcherAssumption
  <2> QED BY <2>1, <2>2
<1> QED BY <1>2, <1>3

\* An entry of another url can be added at the end.
LEMMA EntryIsAdded ==
    ASSUME NEW cache, IsCache(cache), NEW e \in Entries, ~Holds(cache, e.url)
    PROVE  /\ IsCache(Append(cache, e))
           /\ Len(Append(cache, e)) = Len(cache) + 1
           /\ Range(Append(cache, e)) = Range(cache) \cup {e}
<1> DEFINE n == Len(cache)
<1>1. cache \in Seq(Entries) /\ n \in Nat /\ DOMAIN cache = 1 .. n
  BY LenProperties DEF IsCache
<1>2. /\ Append(cache, e) \in Seq(Entries)
      /\ Len(Append(cache, e)) = n + 1
      /\ \A i \in 1 .. n : Append(cache, e)[i] = cache[i]
      /\ Append(cache, e)[n + 1] = e
  BY <1>1, AppendProperties
<1>3. DOMAIN Append(cache, e) = 1 .. n + 1
  BY <1>2, LenProperties
<1>4. 1 .. n + 1 = (1 .. n) \cup {n + 1}
  BY <1>1
<1> HIDE DEF n
<1>5. IsCache(Append(cache, e))
  BY <1>1, <1>2, <1>3, <1>4 DEF IsCache, Holds
<1>6. Range(Append(cache, e)) = Range(cache) \cup {e}
  BY <1>1, <1>2, <1>3, <1>4 DEF Range
<1> QED BY <1>2, <1>5, <1>6 DEF n

\* A hit moves an entry to the end, and changes nothing else.
LEMMA TouchedReorders ==
    ASSUME NEW cache, IsCache(cache), NEW u
    PROVE  /\ IsCache(Touched(cache, u))
           /\ Len(Touched(cache, u)) = Len(cache)
           /\ Range(Touched(cache, u)) = Range(cache)
<1>1. CASE ~Holds(cache, u)
  BY <1>1 DEF Touched
<1>2. CASE Holds(cache, u)
  <2> DEFINE others == Without(cache, u)
             e == EntryOf(cache, u)
  <2>1. /\ IsCache(others) /\ Len(others) = Len(cache) - 1
        /\ Range(others) = {f \in Range(cache) : f.url # u}
    BY <1>2, WithoutRemoves
  <2>2. e \in Entries /\ e.url = u /\ PlaceOf(cache, u) \in DOMAIN cache
    BY <1>2, PlaceHoldsUrl, LenProperties DEF IsCache
  <2>3. ~Holds(others, u)
    BY <2>1 DEF Holds, Range
  <2>4. Touched(cache, u) = Append(others, e)
    BY <1>2 DEF Touched
  <2>5. \A f \in Range(cache) : f.url = u => f = e
    BY <2>2, EntryIsTheOne DEF Range
  <2>6. e \in Range(cache)
    BY <2>2 DEF Range, EntryOf
  <2> HIDE DEF others, e
  <2>7. /\ IsCache(Append(others, e)) /\ Len(Append(others, e)) = Len(others) + 1
        /\ Range(Append(others, e)) = Range(others) \cup {e}
    BY <2>1, <2>2, <2>3, EntryIsAdded
  <2>8. Len(cache) \in Nat
    BY LenProperties DEF IsCache
  <2> QED BY <2>1, <2>4, <2>5, <2>6, <2>7, <2>8, <2>2
<1> QED BY <1>1, <1>2

\* An entry that expires is no hit any more, and is still the answer known last.
LEMMA ExpiredKeeps ==
    ASSUME NEW cache, IsCache(cache), NEW u
    PROVE  /\ IsCache(Expired(cache, u))
           /\ Len(Expired(cache, u)) = Len(cache)
           /\ \A v : Holds(Expired(cache, u), v) <=> Holds(cache, v)
           /\ \A e \in Range(Expired(cache, u)) :
                  \E f \in Range(cache) : e.url = f.url /\ e.result = f.result
<1> DEFINE n == Len(cache)
           after == Expired(cache, u)
<1>1. /\ cache \in Seq(Entries) /\ n \in Nat /\ DOMAIN cache = 1 .. n
      /\ \A i \in 1 .. n : cache[i] \in Entries
  BY LenProperties, ElementOfSeq DEF IsCache
<1>2. DOMAIN after = 1 .. n
  BY <1>1 DEF Expired
<1>3. ASSUME NEW i \in 1 .. n
      PROVE  /\ after[i] \in Entries
             /\ after[i].url = cache[i].url /\ after[i].result = cache[i].result
  BY <1>1 DEF Expired, Entries
<1>4. after \in [1 .. n -> Entries]
  BY <1>1, <1>2, <1>3 DEF Expired
<1>5. after \in Seq(Entries) /\ Len(after) = n
  BY <1>1, <1>4, SeqDef, LenProperties
<1> HIDE DEF after
<1>6. IsCache(after)
  BY <1>1, <1>2, <1>3, <1>5 DEF IsCache
<1>7. \A v : Holds(after, v) <=> Holds(cache, v)
  BY <1>1, <1>2, <1>3 DEF Holds
<1>8. \A e \in Range(after) : \E f \in Range(cache) : e.url = f.url /\ e.result = f.result
  BY <1>1, <1>2, <1>3 DEF Range
<1> QED BY <1>5, <1>6, <1>7, <1>8 DEF after

\* A cache has as many entries as it has urls.
LEMMA AsManyUrlsAsEntries ==
    ASSUME NEW cache, IsCache(cache)
    PROVE  /\ IsFiniteSet({u \in Urls : Holds(cache, u)})
           /\ Cardinality({u \in Urls : Holds(cache, u)}) = Len(cache)
<1> DEFINE n == Len(cache)
           held == {u \in Urls : Holds(cache, u)}
           url == [i \in 1 .. n |-> cache[i].url]
<1>1. /\ n \in Nat /\ DOMAIN cache = 1 .. n
      /\ \A i \in 1 .. n : cache[i] \in Entries
  BY LenProperties, ElementOfSeq DEF IsCache
<1>2. url \in [1 .. n -> held]
  BY <1>1 DEF Entries, Holds
<1>3. \A i, j \in 1 .. n : url[i] = url[j] => i = j
  BY <1>1 DEF IsCache
<1>4. \A u \in held : \E i \in 1 .. n : url[i] = u
  BY <1>1 DEF Holds
<1> HIDE DEF held, url
<1>5. url \in Bijection(1 .. n, held)
  BY <1>2, <1>3, <1>4, Fun_IsBij
<1>6. IsFiniteSet(1 .. n) /\ Cardinality(1 .. n) = n
  BY <1>1, FS_Interval
<1>7. ExistsBijection(1 .. n, held)
  BY <1>5 DEF ExistsBijection
<1> QED BY <1>6, <1>7, FS_Bijection DEF held, n

-----------------------------------------------------------------------------
(* What is in the caches.                                                  *)

\* What a fetch has found, and what is remembered of it.
FetchesFit ==
    /\ result \in [Lookups -> Results \cup {NoResult}]
    /\ last \in [Urls -> Results \cup {NoResult}]
    /\ \A w \in Lookups :
         /\ stage[w] = "found" => result[w] \in Results
         /\ stage[w] = "remembered" => result[w] = last[UrlOf(w)]

\* Both caches are within their size, hold the newest results, and have no url
\* in common.
CachesFit ==
    /\ IsCache(profiles) /\ Len(profiles) <= MaxEntries
    /\ IsCache(misses)   /\ Len(misses) <= MaxEntries
    /\ \A e \in Range(profiles) \cup Range(misses) : e.result = last[e.url]
    /\ \A u \in Urls : ~(Holds(profiles, u) /\ Holds(misses, u))

\* The inductive invariant of the caches.
CacheInv == SlotInv /\ FetchesFit /\ CachesFit

\* A url is held if an entry of the cache is for it.
LEMMA HeldInRange ==
    ASSUME NEW cache, NEW u
    PROVE  Holds(cache, u) <=> \E e \in Range(cache) : e.url = u
  BY DEF Holds, Range

\* The entries of a cache are entries.
LEMMA RangeOfCache ==
    ASSUME NEW cache, IsCache(cache)
    PROVE  Range(cache) \subseteq Entries
  BY LenProperties, ElementOfSeq DEF IsCache, Range

\* Initially both caches are empty.
LEMMA InitCaches == Init => CacheInv
<1> SUFFICES ASSUME Init PROVE CacheInv
  OBVIOUS
<1>1. SlotInv
  BY InitSlots
<1>2. FetchesFit
  BY DEF Init, FetchesFit
<1>3. profiles = <<>> /\ misses = <<>>
  BY DEF Init
<1>4. <<>> \in Seq(Entries) /\ Len(<<>>) = 0 /\ DOMAIN <<>> = {}
  BY EmptySeq
<1>5. IsCache(<<>>) /\ Range(<<>>) = {} /\ \A u : ~Holds(<<>>, u)
  BY <1>4 DEF IsCache, Range, Holds
<1>6. CachesFit
  BY <1>3, <1>4, <1>5, FetcherAssumption DEF CachesFit
<1> QED BY <1>1, <1>2, <1>6 DEF CacheInv

\* What a lookup does to the caches when it finds its answer there.
LEMMA HitReorders ==
    ASSUME CachesFit, NEW w \in Lookups, NEW u \in Urls, LookupHit(w, u)
    PROVE  /\ CachesFit'
           /\ Range(profiles') = Range(profiles)
<1>1. /\ profiles' = Touched(profiles, u)
      /\ misses' = misses \/ misses' = Touched(misses, u)
      /\ last' = last
  BY DEF LookupHit
<1>2. /\ IsCache(profiles') /\ Len(profiles') = Len(profiles)
      /\ Range(profiles') = Range(profiles)
  BY <1>1, TouchedReorders DEF CachesFit
<1>3. /\ IsCache(misses') /\ Len(misses') = Len(misses)
      /\ Range(misses') = Range(misses)
  BY <1>1, TouchedReorders DEF CachesFit
<1>4. \A v : /\ Holds(profiles', v) <=> Holds(profiles, v)
             /\ Holds(misses', v) <=> Holds(misses, v)
  BY <1>2, <1>3, HeldInRange
<1> QED BY <1>1, <1>2, <1>3, <1>4 DEF CachesFit

\* Time does not change what the caches hold.
LEMMA ExpiryKeeps ==
    ASSUME CachesFit, NEW u \in Urls, Expire(u)
    PROVE  /\ CachesFit'
           /\ \A v : Holds(profiles', v) <=> Holds(profiles, v)
<1>1. profiles' = Expired(profiles, u) /\ misses' = Expired(misses, u) /\ last' = last
  BY DEF Expire
<1>2. /\ IsCache(profiles') /\ Len(profiles') = Len(profiles)
      /\ \A v : Holds(profiles', v) <=> Holds(profiles, v)
      /\ \A e \in Range(profiles') : e.result = last[e.url]
  BY <1>1, ExpiredKeeps DEF CachesFit
<1>3. /\ IsCache(misses') /\ Len(misses') = Len(misses)
      /\ \A v : Holds(misses', v) <=> Holds(misses, v)
      /\ \A e \in Range(misses') : e.result = last[e.url]
  BY <1>1, ExpiredKeeps DEF CachesFit
<1> QED BY <1>1, <1>2, <1>3 DEF CachesFit

\* What is found replaces what either cache had for the url.
LEMMA RememberReplaces ==
    ASSUME CacheInv, NEW w \in Lookups, Remember(w)
    PROVE  CachesFit' /\ FetchesFit'
<1> DEFINE u == UrlOf(w)
           r == result[w]
           e == [url |-> u, result |-> r, fresh |-> TRUE]
           ps == Without(profiles, u)
           ms == Without(misses, u)
<1>1. /\ stage[w] = "found" /\ w \in Running /\ u \in Urls /\ job' = job
      /\ r \in Results /\ result' = result
      /\ stage' = [stage EXCEPT ![w] = "remembered"]
      /\ last' = [last EXCEPT ![u] = r]
  BY DEF CacheInv, SlotInv, JobsFit, FetchesFit, Remember, Running
<1>2. /\ last' \in [Urls -> Results \cup {NoResult}] /\ last'[u] = r
      /\ \A v \in Urls : v # u => last'[v] = last[v]
  BY <1>1 DEF CacheInv, FetchesFit
<1>3. /\ profiles' = IF IsProfile(r) THEN Append(Room(ps), e) ELSE ps
      /\ misses' = IF IsProfile(r) THEN ms ELSE Append(Room(ms), e)
  BY DEF Remember, RememberedProfiles, RememberedMisses
<1>4. e \in Entries /\ e.url = u /\ e.result = r
  BY <1>1 DEF Entries
<1>5. /\ IsCache(profiles) /\ Len(profiles) \in Nat /\ Len(profiles) <= MaxEntries
      /\ IsCache(misses) /\ Len(misses) \in Nat /\ Len(misses) <= MaxEntries
      /\ \A v \in Urls : ~(Holds(profiles, v) /\ Holds(misses, v))
      /\ \A f \in Range(profiles) \cup Range(misses) : f.result = last[f.url]
  BY LenProperties DEF CacheInv, CachesFit, IsCache
<1> HIDE DEF e, r, u
<1>6. ASSUME NEW cache, IsCache(cache), Len(cache) \in Nat, Len(cache) <= MaxEntries,
             \A f \in Range(cache) : f.result = last[f.url]
      PROVE  LET others == Without(cache, u) IN
             /\ IsCache(others) /\ Len(others) <= MaxEntries
             /\ IsCache(Append(Room(others), e))
             /\ Len(Append(Room(others), e)) <= MaxEntries
             /\ \A f \in Range(others) \cup Range(Append(Room(others), e)) :
                   f.result = last'[f.url]
             /\ ~Holds(others, u)
             /\ \A v : Holds(others, v) => Holds(cache, v)
             /\ \A v : v # u /\ Holds(Append(Room(others), e), v) => Holds(cache, v)
  <2> DEFINE others == Without(cache, u)
  <2>1. /\ IsCache(others) /\ Len(others) <= MaxEntries
        /\ Range(others) = {f \in Range(cache) : f.url # u}
    BY <1>6, WithoutRemoves, FetcherAssumption
  <2>2. ~Holds(others, u) /\ \A v : Holds(others, v) => Holds(cache, v)
    BY <2>1, HeldInRange
  <2>3. \A f \in Range(others) : f.result = last'[f.url]
    <3>1. \A f \in Range(cache) : f.url \in Urls
      BY <1>6, RangeOfCache DEF Entries
    <3> QED BY <3>1, <2>1, <1>2, <1>6
  <2> HIDE DEF others
  <2>4. /\ IsCache(Room(others)) /\ Len(Room(others)) < MaxEntries
        /\ Range(Room(others)) \subseteq Range(others)
    BY <2>1, RoomIsMade
  <2>5. ~Holds(Room(others), u)
    BY <2>2, <2>4, HeldInRange
  <2>6. /\ IsCache(Append(Room(others), e))
        /\ Len(Append(Room(others), e)) = Len(Room(others)) + 1
        /\ Range(Append(Room(others), e)) = Range(Room(others)) \cup {e}
    BY <2>4, <2>5, <1>4, EntryIsAdded
  <2>7. Len(Room(others)) \in Nat
    BY <2>4, LenProperties DEF IsCache
  <2>8. Len(Append(Room(others), e)) <= MaxEntries
    BY <2>4, <2>6, <2>7, FetcherAssumption
  <2>9. \A f \in Range(Append(Room(others), e)) : f.result = last'[f.url]
    <3>1. \A f \in Range(Append(Room(others), e)) : f \in Range(others) \/ f = e
      BY <2>4, <2>6
    <3>2. e.result = last'[e.url]
      BY <1>2, <1>4
    <3> QED BY <3>1, <3>2, <2>3
  <2>10. \A v : v # u /\ Holds(Append(Room(others), e), v) => Holds(cache, v)
    <3>1. \A v : Holds(Room(others), v) => Holds(cache, v)
      BY <2>2, <2>4, HeldInRange
    <3>2. \A v : v # u /\ Holds(Append(Room(others), e), v) => Holds(Room(others), v)
      <4>1. \A f \in Range(Append(Room(others), e)) : f \in Range(Room(others)) \/ f = e
        BY <2>6
      <4>2. \A v : Holds(Append(Room(others), e), v) =>
               \E f \in Range(Append(Room(others), e)) : f.url = v
        BY HeldInRange
      <4>3. \A v : (\E f \in Range(Room(others)) : f.url = v) => Holds(Room(others), v)
        BY HeldInRange
      <4> QED BY <4>1, <4>2, <4>3, <1>4
    <3> QED BY <3>1, <3>2
  <2> QED BY <2>1, <2>2, <2>3, <2>6, <2>8, <2>9, <2>10 DEF others
<1>7. CachesFit'
  <2>1. /\ IsCache(profiles') /\ Len(profiles') <= MaxEntries
        /\ \A f \in Range(profiles') : f.result = last'[f.url]
        /\ \A v : v # u /\ Holds(profiles', v) => Holds(profiles, v)
        /\ ~IsProfile(r) => ~Holds(profiles', u)
    BY <1>3, <1>5, <1>6
  <2>2. /\ IsCache(misses') /\ Len(misses') <= MaxEntries
        /\ \A f \in Range(misses') : f.result = last'[f.url]
        /\ \A v : v # u /\ Holds(misses', v) => Holds(misses, v)
        /\ IsProfile(r) => ~Holds(misses', u)
    BY <1>3, <1>5, <1>6
  <2>3. \A v \in Urls : ~(Holds(profiles', v) /\ Holds(misses', v))
    BY <2>1, <2>2, <1>5
  <2> QED BY <2>1, <2>2, <2>3 DEF CachesFit
<1>8. FetchesFit'
  <2>1. ASSUME NEW x \in Lookups, x # w, stage[x] = "remembered" PROVE UrlOf(x) \in Urls \ {u}
    <3>1. x \in Running /\ UrlOf(x) \in Urls /\ pending[UrlOf(x)] = x
      BY <2>1 DEF CacheInv, SlotInv, JobsFit, OneFetchPerUrl, Running
    <3>2. pending[u] = w
      BY <1>1 DEF CacheInv, SlotInv, OneFetchPerUrl, u
    <3> QED BY <3>1, <3>2, <2>1
  <2>2. \A x \in Lookups : x # w => stage'[x] = stage[x]
    BY <1>1 DEF CacheInv, SlotInv, SlotTypes
  <2>3. stage'[w] = "remembered"
    BY <1>1 DEF CacheInv, SlotInv, SlotTypes
  <2>4. ASSUME NEW x \in Lookups
        PROVE  /\ stage'[x] = "found" => result'[x] \in Results
               /\ stage'[x] = "remembered" => result'[x] = last'[job[x].url]
    <3>1. CASE x = w
      <4>1. result'[w] = r /\ job[w].url = u
        BY <1>1 DEF r, u, UrlOf
      <4> QED BY <4>1, <3>1, <2>3, <1>2
    <3>2. CASE x # w
      <4>1. stage'[x] = stage[x] /\ result'[x] = result[x]
        BY <3>2, <2>2, <1>1
      <4>2. stage[x] = "remembered" => last'[job[x].url] = last[job[x].url]
        BY <3>2, <2>1, <1>2 DEF UrlOf
      <4> QED BY <4>1, <4>2 DEF CacheInv, FetchesFit, UrlOf
    <3> QED BY <3>1, <3>2
  <2>5. result' \in [Lookups -> Results \cup {NoResult}]
    BY <1>1 DEF CacheInv, FetchesFit
  <2> QED BY <2>4, <2>5, <1>1, <1>2 DEF FetchesFit, UrlOf
<1> QED BY <1>7, <1>8

\* A step that leaves the caches alone, and finishes no more than it started,
\* preserves what fetches have found.
LEMMA CachesUntouched ==
    ASSUME CacheInv, SlotInv', UNCHANGED cacheVars, UNCHANGED result,
           \A w \in Lookups : stage'[w] \in {"found", "remembered"} =>
                               stage'[w] = stage[w] /\ job'[w] = job[w]
    PROVE  CacheInv'
<1>1. FetchesFit'
  BY DEF CacheInv, FetchesFit, cacheVars, UrlOf
<1>2. CachesFit'
  BY DEF CacheInv, CachesFit, cacheVars
<1> QED BY <1>1, <1>2 DEF CacheInv

\* Every step preserves the invariant of the caches.
LEMMA StepKeepsCaches == CacheInv /\ [Next]_vars => CacheInv'
<1> SUFFICES ASSUME CacheInv, [Next]_vars PROVE CacheInv'
  OBVIOUS
<1>1. SlotInv'
  BY StepKeepsSlots DEF CacheInv
<1>2. SlotTypes /\ JobsFit
  BY DEF CacheInv, SlotInv
<1>3. ASSUME NEW w \in Lookups, NEW u \in Urls, LookupHit(w, u) PROVE CacheInv'
  <2>1. CachesFit'
    BY <1>3, HitReorders DEF CacheInv
  <2>2. FetchesFit'
    BY <1>3 DEF LookupHit, CacheInv, FetchesFit, UrlOf
  <2> QED BY <1>1, <2>1, <2>2 DEF CacheInv
<1>4. ASSUME NEW w \in Lookups, NEW u \in Urls, NEW c \in Clients \cup {None},
             LookupShared(w, u, c)
      PROVE  CacheInv'
  <2>1. w \notin Running
    BY <1>2, <1>4, FetcherAssumption DEF JobsFit, LookupShared, NoJob
  <2>2. \A x \in Lookups : stage'[x] = stage[x] /\ (x # w => job'[x] = job[x])
    BY <1>2, <1>4 DEF SlotTypes, LookupShared
  <2>3. \A x \in Lookups : stage'[x] \in {"found", "remembered"} =>
            stage'[x] = stage[x] /\ job'[x] = job[x]
    BY <2>1, <2>2 DEF Running
  <2> QED BY <1>1, <1>4, <2>3, CachesUntouched DEF LookupShared
<1>5. ASSUME NEW w \in Lookups, NEW u \in Urls, NEW c \in Clients \cup {None},
             LookupStarts(w, u, c)
      PROVE  CacheInv'
  <2>1. \A x \in Lookups : stage'[x] \in {"found", "remembered"} =>
            stage'[x] = stage[x] /\ job'[x] = job[x]
    BY <1>2, <1>5 DEF SlotTypes, LookupStarts
  <2> QED BY <1>1, <1>5, <2>1, CachesUntouched DEF LookupStarts
<1>6. ASSUME NEW w \in Lookups, Resolve(w) \/ FirstHop(w) \/ SecondHop(w) PROVE CacheInv'
  <2>1. UNCHANGED cacheVars /\ UNCHANGED job
    BY <1>6 DEF Resolve, FirstHop, SecondHop
  <2>2. CachesFit'
    BY <2>1 DEF CacheInv, CachesFit, cacheVars
  <2>3. CASE \E t \in {"first", "second"} : Proceed(w, t)
    <3>1. \A x \in Lookups : stage'[x] \in {"found", "remembered"} => stage'[x] = stage[x]
      BY <1>2, <2>3 DEF SlotTypes, Proceed
    <3> QED BY <1>1, <2>1, <2>3, <3>1, CachesUntouched DEF Proceed
  <2>4. CASE \E r \in Results : Found(w, r)
    <3>1. PICK r \in Results : Found(w, r)
      BY <2>4
    <3>2. /\ result' = [result EXCEPT ![w] = r] /\ stage' = [stage EXCEPT ![w] = "found"]
          /\ job' = job /\ last' = last
      BY <2>1, <3>1 DEF Found, cacheVars
    <3>3. result' \in [Lookups -> Results \cup {NoResult}]
      BY <3>2 DEF CacheInv, FetchesFit
    <3>4. /\ stage'[w] = "found" /\ result'[w] = r
          /\ \A x \in Lookups : x # w => stage'[x] = stage[x] /\ result'[x] = result[x]
      BY <1>2, <3>2 DEF SlotTypes, CacheInv, FetchesFit
    <3>5. FetchesFit'
      BY <3>2, <3>3, <3>4 DEF CacheInv, FetchesFit, UrlOf
    <3> QED BY <1>1, <2>2, <3>5 DEF CacheInv
  <2>5. Failed \in Results
    BY DEF Results
  <2> QED BY <1>6, <2>3, <2>4, <2>5 DEF Resolve, FirstHop, SecondHop
<1>7. ASSUME NEW w \in Lookups, Remember(w) PROVE CacheInv'
  BY <1>1, <1>7, RememberReplaces DEF CacheInv
<1>8. ASSUME NEW w \in Lookups, Finish(w) PROVE CacheInv'
  <2>1. /\ result' = [result EXCEPT ![w] = NoResult] /\ stage' = [stage EXCEPT ![w] = "none"]
        /\ UNCHANGED cacheVars /\ last' = last
    BY <1>8 DEF Finish, cacheVars
  <2>2. ASSUME NEW x \in Lookups, stage'[x] \in {"found", "remembered"}
        PROVE  x # w /\ stage'[x] = stage[x] /\ result'[x] = result[x] /\ job'[x] = job[x]
    <3>1. x # w /\ stage'[x] = stage[x] /\ x \in Running
      BY <1>2, <2>1, <2>2 DEF SlotTypes, Running
    <3>2. job[x].run = x
      BY <1>2, <3>1 DEF JobsFit
    <3> QED BY <1>8, <2>1, <3>1, <3>2 DEF Finish, CacheInv, FetchesFit
  <2>3. result' \in [Lookups -> Results \cup {NoResult}]
    BY <2>1 DEF CacheInv, FetchesFit
  <2>4. FetchesFit'
    BY <2>1, <2>2, <2>3 DEF CacheInv, FetchesFit, UrlOf
  <2>5. CachesFit'
    BY <2>1 DEF CacheInv, CachesFit, cacheVars
  <2> QED BY <1>1, <2>4, <2>5 DEF CacheInv
<1>9. ASSUME NEW u \in Urls, Expire(u) PROVE CacheInv'
  <2>1. CachesFit'
    BY <1>9, ExpiryKeeps DEF CacheInv
  <2>2. FetchesFit'
    BY <1>9 DEF Expire, CacheInv, FetchesFit, UrlOf
  <2> QED BY <1>1, <2>1, <2>2 DEF CacheInv
<1>10. CASE UNCHANGED vars
  BY <1>1, <1>10, CachesUntouched DEF vars, cacheVars
<1> QED BY <1>3, <1>4, <1>5, <1>6, <1>7, <1>8, <1>9, <1>10 DEF Next, FetchStep

LEMMA CachesAlways == Spec => []CacheInv
  BY InitCaches, StepKeepsCaches, PTL DEF Spec

\* Type correctness.  That every entry of a cache is the result of a fetch
\* rests on a fetch being remembered only after it has found one.
THEOREM TypeCorrect == Spec => []TypeOK
<1>1. CacheInv => TypeOK
  BY DEF CacheInv, SlotInv, FetchesFit, CachesFit, IsCache, TypeOK
<1> QED BY <1>1, CachesAlways, PTL

\* Nobody is answered with an older result than the latest fetch of the url
\* found, for any numbers of lookups and urls and caches of any size.
THEOREM NewestAnswers == Spec => []AnswersAreNewest
<1>1. CacheInv => AnswersAreNewest
  <2> SUFFICES ASSUME CacheInv PROVE AnswersAreNewest
    OBVIOUS
  <2>1. ASSUME NEW cache, cache \in {profiles, misses}, NEW u, Holds(cache, u)
        PROVE  EntryOf(cache, u).result = last[u]
    <3>1. IsCache(cache) /\ \A e \in Range(cache) : e.result = last[e.url]
      BY <2>1 DEF CacheInv, CachesFit
    <3>2. PlaceOf(cache, u) \in DOMAIN cache /\ EntryOf(cache, u).url = u
      BY <2>1, <3>1, PlaceHoldsUrl, LenProperties DEF IsCache
    <3>3. EntryOf(cache, u) \in Range(cache)
      BY <3>2 DEF EntryOf, Range
    <3> QED BY <3>1, <3>2, <3>3
  <2> QED BY <2>1 DEF AnswersAreNewest, CacheInv, FetchesFit
<1> QED BY <1>1, CachesAlways, PTL

\* The caches stay within any size, with one entry per url in both together.
THEOREM CachesStayBounded == Spec => []CachesBounded
<1>1. CacheInv => CachesBounded
  <2> SUFFICES ASSUME CacheInv PROVE CachesBounded
    OBVIOUS
  <2> DEFINE inProfiles == {u \in Urls : Holds(profiles, u)}
             inMisses == {u \in Urls : Holds(misses, u)}
  <2>1. /\ IsFiniteSet(inProfiles) /\ Cardinality(inProfiles) = Len(profiles)
        /\ IsFiniteSet(inMisses) /\ Cardinality(inMisses) = Len(misses)
    BY AsManyUrlsAsEntries DEF CacheInv, CachesFit
  <2>2. inProfiles \cap inMisses = {}
    BY DEF CacheInv, CachesFit
  <2>3. {u \in Urls : Holds(profiles, u) \/ Holds(misses, u)} = inProfiles \cup inMisses
    OBVIOUS
  <2> HIDE DEF inProfiles, inMisses
  <2>4. Cardinality(inProfiles \cup inMisses) =
            Cardinality(inProfiles) + Cardinality(inMisses) - Cardinality(inProfiles \cap inMisses)
    BY <2>1, FS_Union
  <2>5. Len(profiles) \in Nat /\ Len(misses) \in Nat
    BY LenProperties DEF CacheInv, CachesFit, IsCache
  <2>6. Cardinality({u \in Urls : Holds(profiles, u) \/ Holds(misses, u)})
            = Len(profiles) + Len(misses)
    <3>1. Cardinality(inProfiles \cup inMisses) = Len(profiles) + Len(misses)
      <4>1. Cardinality(inProfiles \cap inMisses) = 0
        BY <2>2, FS_EmptySet
      <4> QED BY <4>1, <2>1, <2>4, <2>5
    <3> QED BY <2>3, <3>1
  <2> QED BY <2>6 DEF CachesBounded, CacheInv, CachesFit
<1> QED BY <1>1, CachesAlways, PTL

\* A step takes a profile out of the cache only for a newer result of its own
\* url or to make room for another profile: no number of failures, of any
\* urls, evicts one.
THEOREM FailuresNeverEvict == Spec => FailuresEvictNoProfile
<1> DEFINE Kept ==
        \A u \in Urls :
            Holds(profiles, u) /\ ~Holds(profiles', u) =>
               \E w \in Lookups : /\ stage[w] = "found" /\ stage'[w] = "remembered"
                                 /\ (UrlOf(w) = u \/ result[w].status = "ok")
<1>1. ASSUME CacheInv, [Next]_vars PROVE [Kept]_vars
  <2>1. CASE profiles' = profiles
    BY <2>1
  <2>2. ASSUME NEW w \in Lookups, NEW u \in Urls, LookupHit(w, u) PROVE Kept
    <3>1. Range(profiles') = Range(profiles)
      BY <1>1, <2>2, HitReorders DEF CacheInv
    <3> QED BY <3>1, HeldInRange
  <2>3. ASSUME NEW u \in Urls, Expire(u) PROVE Kept
    BY <1>1, <2>3, ExpiryKeeps DEF CacheInv
  <2>4. ASSUME NEW w \in Lookups, Remember(w) PROVE Kept
    <3>1. stage[w] = "found" /\ stage'[w] = "remembered"
      BY <1>1, <2>4 DEF CacheInv, SlotInv, SlotTypes, Remember
    <3>2. CASE result[w].status = "ok"
      BY <3>1, <3>2
    <3>3. CASE result[w].status # "ok"
      <4>1. profiles' = Without(profiles, UrlOf(w))
        BY <2>4, <3>3 DEF Remember, RememberedProfiles, IsProfile
      <4>2. Range(profiles') = {e \in Range(profiles) : e.url # UrlOf(w)}
        BY <1>1, <4>1, WithoutRemoves DEF CacheInv, CachesFit
      <4>3. \A u : u # UrlOf(w) /\ Holds(profiles, u) => Holds(profiles', u)
        BY <4>2, HeldInRange
      <4> QED BY <3>1, <4>3
    <3> QED BY <3>2, <3>3
  <2>5. \/ profiles' = profiles
        \/ \E w \in Lookups, u \in Urls : LookupHit(w, u)
        \/ \E u \in Urls : Expire(u)
        \/ \E w \in Lookups : Remember(w)
    BY <1>1 DEF Next, FetchStep, LookupShared, LookupStarts, Resolve, FirstHop, SecondHop, Finish,
                vars, cacheVars
  <2> QED BY <2>1, <2>2, <2>3, <2>4, <2>5
<1> QED BY <1>1, CachesAlways, PTL DEF Spec, FailuresEvictNoProfile
=============================================================================
