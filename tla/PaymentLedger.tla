---------------------------- MODULE PaymentLedger ----------------------------
(***************************************************************************)
(* AgentSessionService.reserve: look the authorization up, insert a row    *)
(* for it, and look again when the insert failed.  Calls are concurrent,   *)
(* each statement is a step of its own, and a statement may fail, also     *)
(* after it has taken effect.  Carts have locks, but calls for different   *)
(* carts and the same authorization have nothing in common but the table.  *)
(***************************************************************************)
CONSTANTS
    Callers, Carts, None,
    Spellings,       \* the authorizations as credentials spell them
    Lowercase        \* the spelling in lower case of each

Authorizations == {Lowercase[s] : s \in Spellings}

ASSUME LedgerAssumption ==
    /\ Lowercase \in [Spellings -> Spellings]
    /\ \A s \in Spellings : Lowercase[Lowercase[s]] = Lowercase[s]
    /\ None \notin Carts \cup Spellings

VARIABLES
    rows,      \* the table payment_authorization
    pc,        \* the next statement of each call
    call,      \* the cart and the spelling it was called with
    answer     \* what it answered last

vars == <<rows, pc, call, answer>>

NoCall   == [cart |-> None, auth |-> None]
NoAnswer == [verdict |-> "none", cart |-> None, auth |-> None]

Init ==
    /\ rows = {}
    /\ pc = [w \in Callers |-> "idle"]
    /\ call = [w \in Callers |-> NoCall]
    /\ answer = [w \in Callers |-> NoAnswer]

-----------------------------------------------------------------------------
\* A faulty form of Key: the spelling is stored as it comes.
KeyAsSpelled(w) == call[w].auth

\* The key of the row a call is about.
Key(w) == Lowercase[call[w].auth]

HeldBy(key, c) == [auth |-> key, cart |-> c] \in rows
IsHeld(key)    == \E c \in Carts : HeldBy(key, c)

\* The call ends with a verdict.
Answer(w, verdict) ==
    /\ answer' = [answer EXCEPT ![w] = [verdict |-> verdict, cart |-> call[w].cart,
                                        auth |-> Lowercase[call[w].auth]]]
    /\ pc' = [pc EXCEPT ![w] = "idle"]
    /\ call' = [call EXCEPT ![w] = NoCall]

Goto(w, label) == pc' = [pc EXCEPT ![w] = label] /\ UNCHANGED <<call, answer>>

\* The call ends with what the row it has read says.
AnswerHeld(w) ==
    \E c \in Carts : /\ HeldBy(Key(w), c)
                     /\ Answer(w, IF c = call[w].cart THEN "granted" ELSE "refused")

Reserve(w, c, s) ==
    /\ pc[w] = "idle"
    /\ call' = [call EXCEPT ![w] = [cart |-> c, auth |-> s]]
    /\ answer' = [answer EXCEPT ![w] = NoAnswer]
    /\ pc' = [pc EXCEPT ![w] = "find"]
    /\ UNCHANGED rows

HolderOf(w) ==
    /\ pc[w] = "find"
    /\ \/ AnswerHeld(w)
       \/ ~IsHeld(Key(w)) /\ Goto(w, "insert")
       \/ Answer(w, "failed")
    /\ UNCHANGED rows

\* A faulty form of InsertRow: the table has no unique index.
InsertWithoutIndex(w) ==
    /\ pc[w] = "insert"
    /\ \/ /\ rows' = rows \cup {[auth |-> Key(w), cart |-> call[w].cart]}
          /\ Goto(w, "inserted") \/ Goto(w, "recheck")
       \/ /\ Goto(w, "recheck")
          /\ UNCHANGED rows

\* The unique index admits one row for a key; an insert that took effect may
\* still fail for its caller.
InsertRow(w) ==
    /\ pc[w] = "insert"
    /\ \/ /\ ~IsHeld(Key(w))
          /\ rows' = rows \cup {[auth |-> Key(w), cart |-> call[w].cart]}
          /\ Goto(w, "inserted") \/ Goto(w, "recheck")
       \/ /\ Goto(w, "recheck")
          /\ UNCHANGED rows

Inserted(w) == /\ pc[w] = "inserted"
               /\ Answer(w, "granted")
               /\ UNCHANGED rows

\* A faulty form of HolderAfterRace: whoever lost the race gets it too.
RaceIsWon(w) ==
    /\ pc[w] = "recheck"
    /\ \/ IsHeld(Key(w)) /\ Answer(w, "granted")
       \/ Answer(w, "failed")
    /\ UNCHANGED rows

\* The insert failed: the row of the call that won the race decides.
HolderAfterRace(w) ==
    /\ pc[w] = "recheck"
    /\ \/ AnswerHeld(w)
       \/ Answer(w, "failed")
    /\ UNCHANGED rows

Next ==
    \/ \E w \in Callers, c \in Carts, s \in Spellings : Reserve(w, c, s)
    \/ \E w \in Callers : HolderOf(w) \/ InsertRow(w) \/ Inserted(w) \/ HolderAfterRace(w)

Spec == Init /\ [][Next]_vars

-----------------------------------------------------------------------------
Rows == [auth : Authorizations, cart : Carts]

\* The type invariant.
TypeOK ==
    /\ rows \subseteq Rows
    /\ pc \in [Callers -> {"idle", "find", "insert", "inserted", "recheck"}]
    /\ call \in [Callers -> [cart : Carts, auth : Spellings] \cup {NoCall}]
    /\ answer \in [Callers -> [verdict : {"granted", "refused", "failed"},
                               cart : Carts, auth : Authorizations] \cup {NoAnswer}]

\* An authorization is never granted to two carts, however it is spelled and
\* whatever calls race for it (the unique index and the second look-up).
GrantedToOneCart ==
    \A v, w \in Callers :
        answer[v].verdict = "granted" /\ answer[w].verdict = "granted"
            /\ answer[v].auth = answer[w].auth => answer[v].cart = answer[w].cart

\* The cart that has a row for an authorization.
Holder == [a \in Authorizations |-> IF IsHeld(a) THEN CHOOSE c \in Carts : HeldBy(a, c) ELSE None]

\* The ledger is the registry its callers see: rows are never taken back, and
\* every answer agrees with who holds the authorization at that moment.
Registry == INSTANCE AuthorizationRegistry WITH holder <- Holder
IsRegistry == Registry!Spec
=============================================================================
