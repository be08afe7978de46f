------------------------ MODULE IdempotencyCacheProofs ------------------------
(***************************************************************************)
(* The idempotency middleware, for any requests, scopes and faults: what   *)
(* is replayed was answered before, and is final; a key is handled twice   *)
(* only in a scope that was reopened.                                      *)
(***************************************************************************)
EXTENDS IdempotencyCache, TLAPS

AnyScope == [identity : ApiKeys \cup Agents \cup {None}, version : Versions \cup {None},
             key : Keys \cup {None}]

RequestRecords ==
    [pc : Steps, scope : AnyScope, body : Bodies \cup {None}, code : Codes, replayed : BOOLEAN]

\* The full types, of which TypeOK is a part.
Typed ==
    /\ cache \in [Scopes -> Entries]
    /\ req \in [Requests -> RequestRecords]
    /\ faults \in 0..MaxFaults
    /\ reopened \subseteq Scopes

\* The handler has given this answer to this request.
Answered(s, b, c) ==
    \E q \in Requests : /\ ~req[q].replayed /\ req[q].pc = "done"
                        /\ req[q].scope = s /\ req[q].body = b /\ req[q].code = c

RequestOK(r) ==
    /\ req[r].pc # "new" => req[r].scope \in Scopes /\ req[r].body \in Bodies
    /\ req[r].pc \in {"store", "done"} => IsCacheable(req[r].code) /\ req[r].code # "none"
    /\ req[r].replayed =>
         req[r].pc = "done" /\ Answered(req[r].scope, req[r].body, req[r].code)

\* What is kept may be kept, and was answered.
EntryOK(s) ==
    cache[s].status = "completed" =>
        /\ IsCacheable(cache[s].code) /\ cache[s].code # "none"
        /\ cache[s].body \in Bodies
        /\ Answered(s, cache[s].body, cache[s].code)

\* Found no entry for the scope, and is not done with the handler and the entry.
Active(r, s) ==
    /\ req[r].scope = s
    /\ req[r].pc \in {"mark", "handle", "store", "forget"} \/ (req[r].pc = "done" /\ ~req[r].replayed)

\* A scope that was not reopened is in the hands of one request, and has an
\* entry as soon as this one has marked it.
ScopeOK(s) ==
    /\ \A q, r \in Requests : Active(q, s) /\ Active(r, s) => q = r
    /\ \A q \in Requests : Active(q, s) /\ req[q].pc # "mark" => cache[s] # NoEntry

\* The inductive invariant.
IdempotencyInv ==
    /\ Typed
    /\ \A r \in Requests : RequestOK(r)
    /\ \A s \in Scopes : EntryOK(s)
    /\ \A s \in Scopes \ reopened : ScopeOK(s)

-----------------------------------------------------------------------------

LEMMA NewRequestTyped == NewRequest \in RequestRecords /\ NewRequest.pc = "new" /\ ~NewRequest.replayed
  BY DEF NewRequest, RequestRecords, AnyScope, Steps, Codes

LEMMA EntriesTyped ==
    /\ NoEntry \in Entries /\ NoEntry.status = "absent"
    /\ \A b \in Bodies : Processing(b) \in Entries /\ Processing(b) # NoEntry
                         /\ Processing(b).status = "processing"
    /\ \A b \in Bodies, c \in Codes \ {"none"} :
         /\ Completed(b, c) \in Entries /\ Completed(b, c) # NoEntry
         /\ Completed(b, c).body = b /\ Completed(b, c).code = c
  BY DEF NoEntry, Entries, Processing, Completed

LEMMA InitIdempotency == Init => IdempotencyInv
<1> SUFFICES ASSUME Init PROVE IdempotencyInv
  OBVIOUS
<1>1. Typed
  BY NewRequestTyped, EntriesTyped, IdempotencyAssumption DEF Init, Typed
<1>2. \A r \in Requests : req[r].pc = "new" /\ ~req[r].replayed
  BY NewRequestTyped DEF Init
<1>3. \A s \in Scopes : cache[s].status = "absent"
  BY EntriesTyped DEF Init
<1> QED BY <1>1, <1>2, <1>3 DEF IdempotencyInv, RequestOK, EntryOK, ScopeOK, Active

\* Nothing happens to a request that was answered, so that what was answered
\* stays answered.
LEMMA AnsweredStays ==
    ASSUME \A q \in Requests : req[q].pc = "done" => req'[q] = req[q],
           NEW s, NEW b, NEW c, Answered(s, b, c)
    PROVE  Answered(s, b, c)'
  BY DEF Answered

\* What a step changes is to be shown; the rest stays as it is.
LEMMA StepSafe ==
    ASSUME IdempotencyInv, Typed',
           \A q \in Requests : req[q].pc = "done" => req'[q] = req[q],
           \A q \in Requests : req'[q] = req[q] \/ RequestOK(q)',
           \A s \in Scopes : cache'[s] = cache[s] \/ EntryOK(s)',
           \A s \in Scopes \ reopened' : ScopeOK(s)'
    PROVE  IdempotencyInv'
<1>1. ASSUME NEW q \in Requests, req'[q] = req[q] PROVE RequestOK(q)'
  <2>1. RequestOK(q)
    BY DEF IdempotencyInv
  <2>2. req[q].replayed => Answered(req[q].scope, req[q].body, req[q].code)'
    BY <2>1, AnsweredStays DEF RequestOK
  <2> QED BY <1>1, <2>1, <2>2 DEF RequestOK
<1>2. ASSUME NEW s \in Scopes, cache'[s] = cache[s] PROVE EntryOK(s)'
  <2>1. EntryOK(s)
    BY DEF IdempotencyInv
  <2>2. cache[s].status = "completed" => Answered(s, cache[s].body, cache[s].code)'
    BY <1>2, <2>1, AnsweredStays DEF EntryOK
  <2> QED BY <1>2, <2>1, <2>2 DEF EntryOK
<1> QED BY <1>1, <1>2 DEF IdempotencyInv

\* A step of one request that keeps the cache and the scopes.
LEMMA RequestSteps ==
    ASSUME IdempotencyInv, NEW r \in Requests, NEW rec \in RequestRecords,
           req[r].pc # "done",
           req' = [req EXCEPT ![r] = rec],
           UNCHANGED cache, faults' \in 0..MaxFaults,
           reopened \subseteq reopened', reopened' \subseteq Scopes,
           rec.pc # "new" => rec.scope \in Scopes /\ rec.body \in Bodies,
           rec.pc \in {"store", "done"} => IsCacheable(rec.code) /\ rec.code # "none",
           rec.replayed => rec.pc = "done" /\ Answered(rec.scope, rec.body, rec.code),
           \A s \in Scopes \ reopened' : ScopeOK(s)'
    PROVE  IdempotencyInv'
<1>1. Typed' /\ \A q \in Requests : req'[q] = IF q = r THEN rec ELSE req[q]
  BY DEF IdempotencyInv, Typed
<1>2. \A q \in Requests : req[q].pc = "done" => req'[q] = req[q]
  BY <1>1
<1>3. RequestOK(r)'
  <2>1. rec.replayed => Answered(rec.scope, rec.body, rec.code)'
    BY <1>2, AnsweredStays
  <2> QED BY <1>1, <2>1 DEF RequestOK
<1> QED BY <1>1, <1>2, <1>3, StepSafe

\* A scope stays as it is when a step makes nobody active in it, takes nobody
\* past the mark, and leaves its entry.
LEMMA ScopeStays ==
    ASSUME NEW s \in Scopes, ScopeOK(s),
           cache[s] # NoEntry => cache'[s] # NoEntry,
           \A q \in Requests : Active(q, s)' =>
               Active(q, s) /\ (req'[q].pc # "mark" => req[q].pc # "mark")
    PROVE  ScopeOK(s)'
  BY DEF ScopeOK


\* The record of a request, changed.
LEMMA RecordsTyped ==
    ASSUME IdempotencyInv, NEW r \in Requests
    PROVE  /\ req[r] \in RequestRecords
           /\ \A pc \in Steps : [req[r] EXCEPT !.pc = pc] \in RequestRecords
           /\ \A pc \in Steps, c \in Codes, b \in BOOLEAN :
                [req[r] EXCEPT !.pc = pc, !.code = c, !.replayed = b] \in RequestRecords
  BY DEF IdempotencyInv, Typed, RequestRecords

\* The request leaves, which makes nobody active.
LEMMA LeaveSafe ==
    ASSUME IdempotencyInv, NEW r \in Requests, req[r].pc # "done", Leave(r),
           UNCHANGED <<cache, reopened>>, faults' \in 0..MaxFaults
    PROVE  IdempotencyInv'
<1>1. \A q \in Requests : req'[q] = IF q = r THEN NewRequest ELSE req[q]
  BY NewRequestTyped DEF Leave, IdempotencyInv, Typed
<1>2. ASSUME NEW s \in Scopes \ reopened' PROVE ScopeOK(s)'
  BY <1>1, <1>2, NewRequestTyped, ScopeStays DEF IdempotencyInv, Active
<1>3. reopened \subseteq reopened' /\ reopened' \subseteq Scopes
  BY DEF IdempotencyInv, Typed
<1>4. /\ NewRequest \in RequestRecords
      /\ NewRequest.pc # "new" => NewRequest.scope \in Scopes /\ NewRequest.body \in Bodies
      /\ NewRequest.pc \in {"store", "done"} =>
            IsCacheable(NewRequest.code) /\ NewRequest.code # "none"
      /\ NewRequest.replayed => NewRequest.pc = "done" /\
            Answered(NewRequest.scope, NewRequest.body, NewRequest.code)
  BY NewRequestTyped
<1> QED BY <1>2, <1>3, <1>4, RequestSteps DEF Leave

LEMMA FaultTyped ==
    ASSUME Typed PROVE (UNCHANGED faults => faults' \in 0..MaxFaults) /\ (Fault => faults' \in 0..MaxFaults)
  BY IdempotencyAssumption DEF Typed, Fault

LEMMA ArriveSafe ==
    ASSUME IdempotencyInv, NEW r \in Requests, Arrive(r) PROVE IdempotencyInv'
<1>1. PICK protocol \in {"acp", "ucp"}, apiKey \in ApiKeys \cup {None}, agent \in Agents,
           key \in Keys, body \in Bodies : \E version \in CompatVersions(protocol) :
        /\ protocol = "acp" => apiKey # None
        /\ req' = [req EXCEPT ![r] = [@ EXCEPT
                      !.pc = "lookup", !.body = body,
                      !.scope = [identity |-> ExtractIdentity(apiKey, agent),
                                 version |-> version, key |-> key]]]
  BY DEF Arrive
<1>2. PICK version \in CompatVersions(protocol) :
        req' = [req EXCEPT ![r] = [@ EXCEPT
                      !.pc = "lookup", !.body = body,
                      !.scope = [identity |-> ExtractIdentity(apiKey, agent),
                                 version |-> version, key |-> key]]]
  BY <1>1
<1> DEFINE scope == [identity |-> ExtractIdentity(apiKey, agent), version |-> version, key |-> key]
           rec   == [req[r] EXCEPT !.pc = "lookup", !.body = body, !.scope = scope]
<1>3. scope \in Scopes /\ scope \in AnyScope
  BY DEF Scopes, AnyScope, ExtractIdentity, CompatVersions
<1>4. req[r] \in RequestRecords /\ req[r].pc = "new"
  BY RecordsTyped DEF Arrive, At
<1>5. rec \in RequestRecords /\ rec.pc = "lookup" /\ rec.scope = scope /\ rec.body = body
      /\ rec.replayed = req[r].replayed
  BY <1>3, <1>4 DEF RequestRecords, Steps
<1>6. ~rec.replayed
  BY <1>4, <1>5 DEF IdempotencyInv, RequestOK, RequestRecords
<1>7. req' = [req EXCEPT ![r] = rec]
  BY <1>2
<1> HIDE DEF rec, scope
<1>8. \A q \in Requests : req'[q] = IF q = r THEN rec ELSE req[q]
  BY <1>7 DEF IdempotencyInv, Typed
<1>9. UNCHANGED <<cache, faults, reopened>> /\ faults' \in 0..MaxFaults
      /\ reopened \subseteq reopened' /\ reopened' \subseteq Scopes
  BY DEF Arrive, IdempotencyInv, Typed
<1>10. ASSUME NEW s \in Scopes \ reopened' PROVE ScopeOK(s)'
  <2>1. \A q \in Requests : Active(q, s)' => Active(q, s) /\ (req'[q].pc # "mark" => req[q].pc # "mark")
    BY <1>5, <1>6, <1>8 DEF Active
  <2> QED BY <1>9, <2>1, ScopeStays DEF IdempotencyInv
<1> QED BY <1>3, <1>4, <1>5, <1>6, <1>7, <1>9, <1>10, RequestSteps

LEMMA LookUpSafe ==
    ASSUME IdempotencyInv, NEW r \in Requests, LookUp(r) PROVE IdempotencyInv'
<1> DEFINE s == req[r].scope
<1>0. /\ req[r].pc = "lookup" /\ UNCHANGED <<cache, faults>>
      /\ s \in Scopes /\ req[r].body \in Bodies /\ ~req[r].replayed
      /\ req[r] \in RequestRecords
      /\ faults' \in 0..MaxFaults /\ reopened \subseteq Scopes
  BY RecordsTyped DEF LookUp, At, IdempotencyInv, RequestOK, Typed, RequestRecords
<1>1. CASE /\ cache[s] = NoEntry
           /\ req' = [req EXCEPT ![r].pc = "mark"]
           /\ reopened' = IF AboutToMark(s) = {} THEN reopened ELSE reopened \cup {s}
  <2> DEFINE rec == [req[r] EXCEPT !.pc = "mark"]
  <2>1. rec \in RequestRecords /\ rec.pc = "mark" /\ rec.scope = s /\ rec.body = req[r].body
        /\ ~rec.replayed
    BY <1>0 DEF Steps, RequestRecords
  <2>2. req' = [req EXCEPT ![r] = rec]
    BY <1>1
  <2> HIDE DEF rec
  <2>3. \A q \in Requests : req'[q] = IF q = r THEN rec ELSE req[q]
    BY <2>2 DEF IdempotencyInv, Typed
  <2>4. ASSUME NEW z \in Scopes \ reopened' PROVE ScopeOK(z)'
    <3>1. z \notin reopened /\ ScopeOK(z)
      BY <1>1 DEF IdempotencyInv
    <3>2. CASE z # s
      BY <1>0, <2>1, <2>3, <3>1, <3>2, ScopeStays DEF Active
    <3>3. CASE z = s
      <4>1. AboutToMark(s) = {}
        BY <1>1, <3>3
      <4>2. \A q \in Requests : ~Active(q, s)
        BY <1>1, <3>1, <3>3, <4>1 DEF ScopeOK, AboutToMark, Active, At
      <4> QED BY <2>1, <2>3, <3>3, <4>2 DEF ScopeOK, Active
    <3> QED BY <3>2, <3>3
  <2>5. reopened \subseteq reopened' /\ reopened' \subseteq Scopes
    BY <1>0, <1>1
  <2> QED BY <1>0, <2>1, <2>2, <2>4, <2>5, RequestSteps
<1>2. CASE Leave(r) /\ UNCHANGED reopened
  BY <1>0, <1>2, LeaveSafe
<1>3. CASE /\ cache[s].status = "completed" /\ ~Conflicts(r, cache[s])
           /\ req' = [req EXCEPT ![r].pc = "done", ![r].code = cache[s].code, ![r].replayed = TRUE]
           /\ UNCHANGED reopened
  <2> DEFINE rec == [req[r] EXCEPT !.pc = "done", !.code = cache[s].code, !.replayed = TRUE]
  <2>1. /\ cache[s].code \in Codes /\ IsCacheable(cache[s].code) /\ cache[s].code # "none"
        /\ Answered(s, req[r].body, cache[s].code)
    <3>1. cache[s] \in Entries /\ EntryOK(s)
      BY <1>0 DEF IdempotencyInv, Typed
    <3>2. cache[s].code \in Codes
      BY <1>3, <3>1 DEF Entries, NoEntry, Codes
    <3> QED BY <1>3, <3>1, <3>2 DEF EntryOK, Conflicts
  <2>2. /\ rec \in RequestRecords /\ rec.pc = "done" /\ rec.scope = s /\ rec.body = req[r].body
        /\ rec.replayed /\ rec.code = cache[s].code
    BY <1>0, <2>1 DEF Steps, RequestRecords
  <2>3. req' = [req EXCEPT ![r] = rec]
    BY <1>3
  <2> HIDE DEF rec
  <2>4. \A q \in Requests : req'[q] = IF q = r THEN rec ELSE req[q]
    BY <2>3 DEF IdempotencyInv, Typed
  <2>5. ASSUME NEW z \in Scopes \ reopened' PROVE ScopeOK(z)'
    <3>1. \A q \in Requests : Active(q, z)' => Active(q, z) /\ (req'[q].pc # "mark" => req[q].pc # "mark")
      BY <2>2, <2>4 DEF Active
    <3> QED BY <1>0, <1>3, <3>1, ScopeStays DEF IdempotencyInv
  <2> QED BY <1>0, <1>3, <2>1, <2>2, <2>3, <2>5, RequestSteps
<1> QED BY <1>1, <1>2, <1>3 DEF LookUp

LEMMA HandleSafe ==
    ASSUME IdempotencyInv, NEW r \in Requests, Handle(r) PROVE IdempotencyInv'
<1>1. PICK code \in Codes \ {"none"} :
        req' = [req EXCEPT ![r].code = code, ![r].pc = IF IsCacheable(code) THEN "store" ELSE "forget"]
  BY DEF Handle
<1> DEFINE rec == [req[r] EXCEPT !.code = code, !.pc = IF IsCacheable(code) THEN "store" ELSE "forget"]
<1>2. /\ req[r].pc = "handle" /\ req[r].scope \in Scopes /\ req[r].body \in Bodies
      /\ ~req[r].replayed /\ req[r] \in RequestRecords
  BY RecordsTyped DEF Handle, At, IdempotencyInv, RequestOK, RequestRecords
<1>3. /\ rec \in RequestRecords /\ rec.pc \in {"store", "forget"} /\ rec.scope = req[r].scope
      /\ rec.body = req[r].body /\ ~rec.replayed /\ rec.code = code
      /\ rec.pc = "store" => IsCacheable(code)
  BY <1>2 DEF RequestRecords, Steps
<1>4. req' = [req EXCEPT ![r] = rec]
  BY <1>1
<1> HIDE DEF rec
<1>5. \A q \in Requests : req'[q] = IF q = r THEN rec ELSE req[q]
  BY <1>4 DEF IdempotencyInv, Typed
<1>6. UNCHANGED <<cache, faults, reopened>> /\ faults' \in 0..MaxFaults
      /\ reopened \subseteq reopened' /\ reopened' \subseteq Scopes
  BY DEF Handle, IdempotencyInv, Typed
<1>7. ASSUME NEW s \in Scopes \ reopened' PROVE ScopeOK(s)'
  <2>1. \A q \in Requests : Active(q, s)' => Active(q, s) /\ (req'[q].pc # "mark" => req[q].pc # "mark")
    BY <1>2, <1>3, <1>5 DEF Active
  <2> QED BY <1>6, <2>1, ScopeStays DEF IdempotencyInv
<1> QED BY <1>2, <1>3, <1>4, <1>6, <1>7, RequestSteps

LEMMA MarkProcessingSafe ==
    ASSUME IdempotencyInv, NEW r \in Requests, MarkProcessing(r) PROVE IdempotencyInv'
<1> DEFINE s == req[r].scope
           entry == Processing(req[r].body)
<1>1. /\ req[r].pc = "mark" /\ s \in Scopes /\ req[r].body \in Bodies /\ ~req[r].replayed
      /\ req[r] \in RequestRecords
      /\ cache' = [cache EXCEPT ![s] = entry]
      /\ req' = [req EXCEPT ![r].pc = "handle"]
      /\ UNCHANGED <<faults, reopened>>
  BY DEF MarkProcessing, At, Write, IdempotencyInv, RequestOK, Typed, RequestRecords
<1>2. entry \in Entries /\ entry # NoEntry /\ entry.status = "processing"
  BY <1>1, EntriesTyped
<1> HIDE DEF entry
<1>3. \A z \in Scopes : cache'[z] = IF z = s THEN entry ELSE cache[z]
  BY <1>1 DEF IdempotencyInv, Typed
<1>4. \A q \in Requests : req'[q] = IF q = r THEN [req[r] EXCEPT !.pc = "handle"] ELSE req[q]
  BY <1>1 DEF IdempotencyInv, Typed
<1>5. req'[r] \in RequestRecords /\ req'[r].pc = "handle" /\ req'[r].scope = s
      /\ req'[r].body = req[r].body /\ ~req'[r].replayed
  BY <1>1, <1>4 DEF RequestRecords, Steps
<1>6. Typed'
  BY <1>1, <1>2, <1>4, <1>5 DEF IdempotencyInv, Typed
<1>7. RequestOK(r)'
  BY <1>1, <1>5 DEF RequestOK
<1>8. \A z \in Scopes : z = s => EntryOK(z)'
  BY <1>1, <1>2, <1>3 DEF EntryOK
<1>9. ASSUME NEW z \in Scopes \ reopened' PROVE ScopeOK(z)'
  <2>1. ScopeOK(z)
    BY <1>1 DEF IdempotencyInv
  <2>2. \A q \in Requests : Active(q, z)' <=> Active(q, z)
    BY <1>1, <1>4, <1>5 DEF Active
  <2>3. CASE z = s
    BY <1>1, <1>2, <1>3, <2>1, <2>2, <2>3 DEF ScopeOK
  <2>4. CASE z # s
    BY <1>1, <1>3, <1>4, <2>1, <2>2, <2>4 DEF ScopeOK, Active
  <2> QED BY <2>3, <2>4
<1> QED BY <1>1, <1>3, <1>4, <1>6, <1>7, <1>8, <1>9, StepSafe

\* The request has its answer and is done.
LEMMA DoneRecord ==
    ASSUME IdempotencyInv, NEW r \in Requests, At(r, "store")
    PROVE  /\ req[r].scope \in Scopes /\ req[r].body \in Bodies /\ ~req[r].replayed
           /\ IsCacheable(req[r].code) /\ req[r].code \in Codes \ {"none"}
           /\ [req[r] EXCEPT !.pc = "done"] \in RequestRecords
           /\ [req[r] EXCEPT !.pc = "done"].pc = "done"
           /\ [req[r] EXCEPT !.pc = "done"].scope = req[r].scope
           /\ [req[r] EXCEPT !.pc = "done"].body = req[r].body
           /\ [req[r] EXCEPT !.pc = "done"].code = req[r].code
           /\ [req[r] EXCEPT !.pc = "done"].replayed = req[r].replayed
<1>1. req[r] \in RequestRecords /\ RequestOK(r) /\ req[r].pc = "store"
  BY DEF IdempotencyInv, Typed, At
<1>2. [req[r] EXCEPT !.pc = "done"] \in RequestRecords
  BY <1>1 DEF RequestRecords, Steps
<1> QED BY <1>1, <1>2 DEF RequestOK, RequestRecords

LEMMA StoreAnswerSafe ==
    ASSUME IdempotencyInv, NEW r \in Requests, StoreAnswer(r) PROVE IdempotencyInv'
<1> DEFINE s == req[r].scope
           entry == Completed(req[r].body, req[r].code)
           rec == [req[r] EXCEPT !.pc = "done"]
<1>1. /\ At(r, "store") /\ req[r].pc = "store"
      /\ cache' = [cache EXCEPT ![s] = entry]
      /\ req' = [req EXCEPT ![r] = rec]
      /\ UNCHANGED <<faults, reopened>>
  BY DEF StoreAnswer, At, Write
<1>2. /\ s \in Scopes /\ req[r].body \in Bodies /\ ~req[r].replayed
      /\ IsCacheable(req[r].code) /\ req[r].code \in Codes \ {"none"}
      /\ rec \in RequestRecords /\ rec.pc = "done" /\ rec.scope = s /\ rec.body = req[r].body
      /\ rec.code = req[r].code /\ ~rec.replayed
  BY <1>1, DoneRecord
<1>3. entry \in Entries /\ entry # NoEntry /\ entry.body = req[r].body /\ entry.code = req[r].code
  BY <1>2, EntriesTyped
<1> HIDE DEF entry, rec
<1>4. \A z \in Scopes : cache'[z] = IF z = s THEN entry ELSE cache[z]
  BY <1>1 DEF IdempotencyInv, Typed
<1>5. \A q \in Requests : req'[q] = IF q = r THEN rec ELSE req[q]
  BY <1>1 DEF IdempotencyInv, Typed
<1>6. Typed'
  BY <1>1, <1>2, <1>3, <1>5 DEF IdempotencyInv, Typed
<1>7. RequestOK(r)'
  BY <1>2, <1>5 DEF RequestOK
<1>8. ASSUME NEW z \in Scopes, z = s PROVE EntryOK(z)'
  <2>1. \A b, c : b = req[r].body /\ c = req[r].code => Answered(z, b, c)'
    BY <1>2, <1>5, <1>8 DEF Answered
  <2> QED BY <1>2, <1>3, <1>4, <1>8, <2>1 DEF EntryOK
<1>9. ASSUME NEW z \in Scopes \ reopened' PROVE ScopeOK(z)'
  <2>1. \A q \in Requests : Active(q, z)' => Active(q, z) /\ (req'[q].pc # "mark" => req[q].pc # "mark")
    BY <1>1, <1>2, <1>5 DEF Active
  <2>2. cache[z] # NoEntry => cache'[z] # NoEntry
    BY <1>3, <1>4
  <2> QED BY <1>1, <2>1, <2>2, ScopeStays DEF IdempotencyInv
<1> QED BY <1>1, <1>4, <1>5, <1>6, <1>7, <1>8, <1>9, StepSafe

LEMMA ForgetSafe ==
    ASSUME IdempotencyInv, NEW r \in Requests, Forget(r) PROVE IdempotencyInv'
<1> DEFINE s == req[r].scope
<1>1. /\ req[r].pc = "forget" /\ s \in Scopes
      /\ cache' = [cache EXCEPT ![s] = NoEntry]
      /\ req' = [req EXCEPT ![r] = NewRequest]
      /\ UNCHANGED faults
      /\ reopened \subseteq reopened' /\ reopened' \subseteq Scopes
  BY DEF Forget, At, Write, Leave, IdempotencyInv, RequestOK, Typed
<1>2. \A z \in Scopes : cache'[z] = IF z = s THEN NoEntry ELSE cache[z]
  BY <1>1 DEF IdempotencyInv, Typed
<1>3. \A q \in Requests : req'[q] = IF q = r THEN NewRequest ELSE req[q]
  BY <1>1 DEF IdempotencyInv, Typed
<1>4. Typed'
  BY <1>1, EntriesTyped, NewRequestTyped DEF IdempotencyInv, Typed
<1>5. RequestOK(r)'
  BY <1>3, NewRequestTyped DEF RequestOK
<1>6. \A z \in Scopes : z = s => EntryOK(z)'
  BY <1>1, <1>2, EntriesTyped DEF EntryOK
<1>7. ASSUME NEW z \in Scopes \ reopened' PROVE ScopeOK(z)'
  <2>1. ScopeOK(z)
    BY <1>1 DEF IdempotencyInv
  <2>2. \A q \in Requests : Active(q, z)' => Active(q, z) /\ q # r /\ req'[q].pc = req[q].pc
    BY <1>3, NewRequestTyped DEF Active
  <2>3. CASE z = s
    <3>1. Active(r, s)
      BY <1>1 DEF Active
    <3> QED BY <2>1, <2>2, <2>3, <3>1 DEF ScopeOK
  <2>4. CASE z # s
    BY <1>2, <2>1, <2>2, <2>4, ScopeStays
  <2> QED BY <2>3, <2>4
<1> QED BY <1>1, <1>2, <1>3, <1>4, <1>5, <1>6, <1>7, StepSafe

LEMMA WriteFailsSafe ==
    ASSUME IdempotencyInv, NEW r \in Requests, WriteFails(r) PROVE IdempotencyInv'
<1>1. UNCHANGED <<cache, reopened>> /\ faults' \in 0..MaxFaults
  BY FaultTyped DEF WriteFails, IdempotencyInv
<1>2. CASE At(r, "forget") /\ Leave(r)
  BY <1>1, <1>2, LeaveSafe DEF At
<1>3. CASE At(r, "store") /\ req' = [req EXCEPT ![r].pc = "done"]
  <2> DEFINE rec == [req[r] EXCEPT !.pc = "done"]
  <2>1. /\ req[r].scope \in Scopes /\ req[r].body \in Bodies /\ ~req[r].replayed
        /\ IsCacheable(req[r].code) /\ req[r].code \in Codes \ {"none"}
        /\ rec \in RequestRecords /\ rec.pc = "done" /\ rec.scope = req[r].scope
        /\ rec.body = req[r].body /\ rec.code = req[r].code /\ ~rec.replayed
    BY <1>3, DoneRecord
  <2>2. req' = [req EXCEPT ![r] = rec] /\ req[r].pc = "store"
    BY <1>3 DEF At
  <2> HIDE DEF rec
  <2>3. \A q \in Requests : req'[q] = IF q = r THEN rec ELSE req[q]
    BY <2>2 DEF IdempotencyInv, Typed
  <2>4. ASSUME NEW z \in Scopes \ reopened' PROVE ScopeOK(z)'
    <3>1. \A q \in Requests : Active(q, z)' => Active(q, z) /\ (req'[q].pc # "mark" => req[q].pc # "mark")
      BY <2>1, <2>2, <2>3 DEF Active
    <3> QED BY <1>1, <3>1, ScopeStays DEF IdempotencyInv
  <2>5. reopened \subseteq reopened' /\ reopened' \subseteq Scopes
    BY <1>1 DEF IdempotencyInv, Typed
  <2> QED BY <1>1, <2>1, <2>2, <2>4, <2>5, RequestSteps
<1> QED BY <1>2, <1>3 DEF WriteFails

\* An entry goes, and its scope is reopened.
LEMMA ExpireSafe ==
    ASSUME IdempotencyInv, NEW s \in Scopes, Write(s, NoEntry),
           reopened' = reopened \cup {s}, UNCHANGED req, faults' \in 0..MaxFaults
    PROVE  IdempotencyInv'
<1>1. \A z \in Scopes : cache'[z] = IF z = s THEN NoEntry ELSE cache[z]
  BY DEF Write, IdempotencyInv, Typed
<1>2. Typed'
  BY EntriesTyped DEF Write, IdempotencyInv, Typed
<1>3. EntryOK(s)'
  BY <1>1, EntriesTyped DEF EntryOK
<1>4. ASSUME NEW z \in Scopes \ reopened' PROVE ScopeOK(z)'
  BY <1>1, ScopeStays DEF IdempotencyInv, Active
<1> QED BY <1>1, <1>2, <1>3, <1>4, StepSafe

LEMMA RestartSafe ==
    ASSUME IdempotencyInv, Restart PROVE IdempotencyInv'
<1>1. ASSUME NEW q \in Requests
      PROVE  /\ req'[q] \in RequestRecords /\ RequestOK(q)'
             /\ req[q].pc = "done" => req'[q] = req[q]
             /\ req'[q].pc \in {"new", "done"}
             /\ req'[q].pc = "done" => /\ req[q].pc \in {"store", "done"}
                                      /\ req'[q].scope = req[q].scope
                                      /\ req'[q].replayed = req[q].replayed
  <2>0. /\ RequestOK(q) /\ req[q] \in RequestRecords
        /\ req'[q] = CASE req[q].pc \in {"new", "done"} -> req[q]
                       [] req[q].pc = "store"           -> [req[q] EXCEPT !.pc = "done"]
                       [] OTHER                         -> NewRequest
    BY DEF Restart, IdempotencyInv, Typed
  <2>1. CASE req[q].pc \in {"new", "done"}
    <3>1. req'[q] = req[q]
      BY <2>0, <2>1
    <3>2. req[q].replayed => Answered(req[q].scope, req[q].body, req[q].code)'
      <4>1. \A p \in Requests : req[p].pc = "done" => req'[p] = req[p]
        BY DEF Restart
      <4> QED BY <2>0, <4>1, AnsweredStays DEF RequestOK
    <3> QED BY <2>0, <2>1, <3>1, <3>2 DEF RequestOK
  <2>2. CASE req[q].pc = "store"
    <3>1. req'[q] = [req[q] EXCEPT !.pc = "done"]
      BY <2>0, <2>2
    <3> QED BY <2>2, <3>1, DoneRecord DEF At, RequestOK
  <2>3. CASE req[q].pc \notin {"new", "done", "store"}
    <3>1. req'[q] = NewRequest
      BY <2>0, <2>3
    <3> QED BY <2>3, <3>1, NewRequestTyped DEF RequestOK
  <2> QED BY <2>1, <2>2, <2>3
<1>2. ASSUME NEW s \in Scopes
      PROVE  /\ cache'[s] = cache[s] \/ cache'[s] = NoEntry
             /\ s \notin reopened' => s \notin reopened /\ cache'[s] = cache[s]
  BY DEF Restart, IdempotencyInv, Typed
<1>3. Typed'
  <2>1. req' \in [Requests -> RequestRecords]
    <3>1. req' = [r \in Requests |-> req'[r]]
      BY DEF Restart
    <3> QED BY <1>1, <3>1
  <2>2. cache' \in [Scopes -> Entries] /\ reopened' \subseteq Scopes
    BY EntriesTyped DEF Restart, IdempotencyInv, Typed
  <2>3. faults' \in 0..MaxFaults
    BY FaultTyped DEF Restart, IdempotencyInv
  <2> QED BY <2>1, <2>2, <2>3 DEF Typed
<1>4. \A s \in Scopes : cache'[s] = cache[s] \/ EntryOK(s)'
  BY <1>2, EntriesTyped DEF EntryOK
<1>5. ASSUME NEW s \in Scopes \ reopened' PROVE ScopeOK(s)'
  <2>1. ScopeOK(s) /\ cache'[s] = cache[s]
    BY <1>2 DEF IdempotencyInv
  <2>2. \A q \in Requests : Active(q, s)' => Active(q, s) /\ req[q].pc # "mark"
    BY <1>1 DEF Active
  <2> QED BY <2>1, <2>2, ScopeStays
<1> QED BY <1>1, <1>3, <1>4, <1>5, StepSafe

LEMMA StepIdempotency == IdempotencyInv /\ [Next]_vars => IdempotencyInv'
<1> SUFFICES ASSUME IdempotencyInv, [Next]_vars PROVE IdempotencyInv'
  OBVIOUS
<1>1. ASSUME NEW r \in Requests, RequestStep(r) PROVE IdempotencyInv'
  <2>1. CASE CacheFails(r)
    BY <2>1, LeaveSafe, FaultTyped DEF CacheFails, At, IdempotencyInv
  <2> QED BY <1>1, <2>1, ArriveSafe, LookUpSafe, MarkProcessingSafe, HandleSafe, StoreAnswerSafe,
             ForgetSafe, WriteFailsSafe DEF RequestStep
<1>2. ASSUME NEW s \in Scopes, ExpireProcessing(s) PROVE IdempotencyInv'
  BY <1>2, ExpireSafe, FaultTyped DEF ExpireProcessing, IdempotencyInv
<1>3. ASSUME NEW s \in Scopes, ExpireCompleted(s) PROVE IdempotencyInv'
  BY <1>3, ExpireSafe, FaultTyped DEF ExpireCompleted, IdempotencyInv
<1>4. CASE UNCHANGED vars
  <2>1. Typed' /\ UNCHANGED <<cache, req, reopened>>
    BY <1>4 DEF vars, IdempotencyInv, Typed
  <2>2. \A s \in Scopes \ reopened' : ScopeOK(s)'
    BY <2>1 DEF IdempotencyInv, ScopeOK, Active
  <2> QED BY <2>1, <2>2, StepSafe
<1> QED BY <1>1, <1>2, <1>3, <1>4, RestartSafe DEF Next

-----------------------------------------------------------------------------

\* The inductive invariant holds, whatever requests and faults there are.
THEOREM CacheIsSafe == Spec => []IdempotencyInv
  BY InitIdempotency, StepIdempotency, PTL DEF Spec

\* The cache and the requests keep their types.
THEOREM TypeCorrect == Spec => []TypeOK
<1>1. IdempotencyInv => TypeOK
  BY DEF IdempotencyInv, Typed, RequestOK, TypeOK, RequestRecords
<1> QED BY <1>1, CacheIsSafe, PTL

\* A replay repeats what the handler answered to the same request.
THEOREM ReplaysAreHonest == Spec => []ReplayIsHonest
<1>1. IdempotencyInv => ReplayIsHonest
  BY DEF IdempotencyInv, RequestOK, Answered, ReplayIsHonest
<1> QED BY <1>1, CacheIsSafe, PTL

\* No failure of the server and neither of the two answers of an open settlement
\* is replayed.  Other answers given while a payment settles are.
THEOREM RetriesReachTheHandler == Spec => []RetryableIsNotReplayed
<1>1. IdempotencyInv => RetryableIsNotReplayed
  <2> SUFFICES ASSUME IdempotencyInv, NEW r \in Requests, req[r].replayed
               PROVE  req[r].code \notin {"server_error", "settlement_open"}
    BY DEF RetryableIsNotReplayed
  <2> QED BY DEF IdempotencyInv, RequestOK, IsCacheable
<1> QED BY <1>1, CacheIsSafe, PTL

\* Two requests with one key are both handled only in a scope whose entry went
\* before its time, or that both looked up before either wrote to it.
THEOREM HandledOnce == Spec => []HandledTwiceOnlyIfReopened
<1>1. IdempotencyInv => HandledTwiceOnlyIfReopened
  <2> SUFFICES ASSUME IdempotencyInv, NEW q \in Requests, NEW r \in Requests, q # r,
                      Handled(q), Handled(r), req[q].scope = req[r].scope,
                      req[r].scope \notin reopened
               PROVE  FALSE
    BY DEF HandledTwiceOnlyIfReopened
  <2>1. req[r].scope \in Scopes /\ Active(q, req[r].scope) /\ Active(r, req[r].scope)
    BY DEF IdempotencyInv, RequestOK, Handled, Active
  <2>2. ScopeOK(req[r].scope)
    BY <2>1 DEF IdempotencyInv
  <2> QED BY <2>1, <2>2 DEF ScopeOK
<1> QED BY <1>1, CacheIsSafe, PTL
=============================================================================
