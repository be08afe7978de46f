-------------------------- MODULE PaymentLedgerProofs --------------------------
(***************************************************************************)
(* PaymentLedger implements AuthorizationRegistry: its three statements    *)
(* and their failures are, for every caller, one reservation in a registry *)
(* that never gives an authorization to a second cart.                     *)
(***************************************************************************)
EXTENDS PaymentLedger, TLAPS

\* The index: a key has one row.
UniqueRow == \A a \in Authorizations, c, d \in Carts : HeldBy(a, c) /\ HeldBy(a, d) => c = d

\* A call under way knows what it was called with and has not answered; one
\* whose insert succeeded has its row.
CallOK(w) ==
    /\ pc[w] # "idle" => call[w] # NoCall /\ answer[w] = NoAnswer
    /\ pc[w] = "inserted" => HeldBy(Key(w), call[w].cart)

\* A granted answer is backed by a row.
GrantOK(w) == answer[w].verdict = "granted" => HeldBy(answer[w].auth, answer[w].cart)

\* The inductive invariant.
LedgerInv == TypeOK /\ UniqueRow /\ \A w \in Callers : CallOK(w) /\ GrantOK(w)

LEMMA LowercaseIsAuthorization ==
    /\ Authorizations \subseteq Spellings
    /\ \A s \in Spellings : Lowercase[s] \in Authorizations
  BY LedgerAssumption DEF Authorizations

\* What a call under way is about.
LEMMA CallTyped ==
    ASSUME TypeOK, NEW w \in Callers, CallOK(w), pc[w] # "idle"
    PROVE  call[w].cart \in Carts /\ call[w].auth \in Spellings /\ Key(w) \in Authorizations
  BY LowercaseIsAuthorization DEF TypeOK, CallOK, Key

LEMMA InitLedger == Init => LedgerInv
  BY DEF Init, LedgerInv, TypeOK, UniqueRow, CallOK, GrantOK, HeldBy, NoAnswer

\* The end of a call: its verdict is recorded, and it is backed by a row if it
\* grants the authorization.
LEMMA AnswerSafe ==
    ASSUME LedgerInv, NEW w \in Callers, pc[w] # "idle", UNCHANGED rows,
           NEW v \in {"granted", "refused", "failed"}, Answer(w, v),
           v = "granted" => HeldBy(Key(w), call[w].cart)
    PROVE  LedgerInv'
<1>1. call[w].cart \in Carts /\ Key(w) \in Authorizations
  BY CallTyped DEF LedgerInv
<1>2. TypeOK'
  <2>1. answer' \in [Callers -> [verdict : {"granted", "refused", "failed"},
                                 cart : Carts, auth : Authorizations] \cup {NoAnswer}]
    BY <1>1 DEF LedgerInv, TypeOK, Answer, Key
  <2> QED BY <2>1 DEF LedgerInv, TypeOK, Answer
<1>3. UniqueRow'
  BY DEF LedgerInv, UniqueRow, HeldBy
<1>4. ASSUME NEW x \in Callers PROVE CallOK(x)' /\ GrantOK(x)'
  <2>1. CallOK(x) /\ GrantOK(x)
    BY DEF LedgerInv
  <2>2. CASE x = w
    BY <2>2 DEF LedgerInv, TypeOK, Answer, CallOK, GrantOK, HeldBy, Key
  <2>3. CASE x # w
    BY <2>1, <2>3 DEF LedgerInv, TypeOK, Answer, CallOK, GrantOK, HeldBy, Key
  <2> QED BY <2>2, <2>3
<1> QED BY <1>2, <1>3, <1>4 DEF LedgerInv

\* A call that goes on, without a new row.
LEMMA GotoSafe ==
    ASSUME LedgerInv, NEW w \in Callers, pc[w] # "idle", UNCHANGED rows,
           NEW label \in {"insert", "recheck"}, Goto(w, label)
    PROVE  LedgerInv'
<1>1. TypeOK' /\ UniqueRow'
  BY DEF LedgerInv, TypeOK, UniqueRow, HeldBy, Goto
<1>2. ASSUME NEW x \in Callers PROVE CallOK(x)' /\ GrantOK(x)'
  BY DEF LedgerInv, TypeOK, Goto, CallOK, GrantOK, HeldBy, Key
<1> QED BY <1>1, <1>2 DEF LedgerInv

\* A new row, for a key that had none.
LEMMA InsertSafe ==
    ASSUME LedgerInv, NEW w \in Callers, pc[w] = "insert", ~IsHeld(Key(w)),
           rows' = rows \cup {[auth |-> Key(w), cart |-> call[w].cart]},
           NEW label \in {"inserted", "recheck"}, Goto(w, label)
    PROVE  LedgerInv'
<1>1. call[w].cart \in Carts /\ Key(w) \in Authorizations
  BY CallTyped DEF LedgerInv
<1>2. TypeOK'
  BY <1>1 DEF LedgerInv, TypeOK, Goto, Rows
<1>3. \A a, c : HeldBy(a, c)' <=> HeldBy(a, c) \/ (a = Key(w) /\ c = call[w].cart)
  BY DEF HeldBy
<1>4. UniqueRow'
  BY <1>3 DEF LedgerInv, UniqueRow, IsHeld
<1>5. ASSUME NEW x \in Callers PROVE CallOK(x)' /\ GrantOK(x)'
  <2>1. CallOK(x) /\ GrantOK(x)
    BY DEF LedgerInv
  <2>2. Key(x)' = Key(x) /\ call' = call /\ answer' = answer
    BY DEF Goto, Key
  <2>3. pc'[x] = IF x = w THEN label ELSE pc[x]
    BY DEF LedgerInv, TypeOK, Goto
  <2>4. HeldBy(Key(x), call[x].cart)' <=>
          HeldBy(Key(x), call[x].cart) \/ (Key(x) = Key(w) /\ call[x].cart = call[w].cart)
    BY <2>2 DEF HeldBy
  <2>5. HeldBy(answer[x].auth, answer[x].cart) => HeldBy(answer[x].auth, answer[x].cart)'
    BY <2>2 DEF HeldBy
  <2> QED BY <2>1, <2>2, <2>3, <2>4, <2>5 DEF CallOK, GrantOK
<1> QED BY <1>2, <1>4, <1>5 DEF LedgerInv

\* A look-up that finds a row answers with what the row says.
LEMMA AnswerHeldSafe ==
    ASSUME LedgerInv, NEW w \in Callers, pc[w] # "idle", UNCHANGED rows, AnswerHeld(w)
    PROVE  LedgerInv'
<1>1. PICK c \in Carts : /\ HeldBy(Key(w), c)
                        /\ Answer(w, IF c = call[w].cart THEN "granted" ELSE "refused")
  BY DEF AnswerHeld
<1>2. CASE c = call[w].cart
  BY <1>1, <1>2, AnswerSafe
<1>3. CASE c # call[w].cart
  BY <1>1, <1>3, AnswerSafe
<1> QED BY <1>2, <1>3

LEMMA StepLedger == LedgerInv /\ [Next]_vars => LedgerInv'
<1> SUFFICES ASSUME LedgerInv, [Next]_vars PROVE LedgerInv'
  OBVIOUS
<1>1. ASSUME NEW w \in Callers, NEW c \in Carts, NEW s \in Spellings, Reserve(w, c, s)
      PROVE  LedgerInv'
  <2>1. TypeOK' /\ UniqueRow'
    BY <1>1 DEF LedgerInv, TypeOK, UniqueRow, HeldBy, Reserve
  <2>2. ASSUME NEW x \in Callers PROVE CallOK(x)' /\ GrantOK(x)'
    <3>1. CASE x = w
      <4>1. call'[w] = [cart |-> c, auth |-> s] /\ answer'[w] = NoAnswer /\ pc'[w] = "find"
        BY <1>1 DEF LedgerInv, TypeOK, Reserve
      <4>2. call'[w] # NoCall
        BY <4>1, LedgerAssumption DEF NoCall
      <4> QED BY <3>1, <4>1, <4>2 DEF CallOK, GrantOK, NoAnswer
    <3>2. CASE x # w
      BY <1>1, <3>2 DEF LedgerInv, TypeOK, Reserve, CallOK, GrantOK, HeldBy, Key
    <3> QED BY <3>1, <3>2
  <2> QED BY <2>1, <2>2 DEF LedgerInv
<1>2. ASSUME NEW w \in Callers, HolderOf(w) PROVE LedgerInv'
  BY <1>2, AnswerHeldSafe, GotoSafe, AnswerSafe DEF HolderOf
<1>3. ASSUME NEW w \in Callers, InsertRow(w) PROVE LedgerInv'
  BY <1>3, InsertSafe, GotoSafe DEF InsertRow
<1>4. ASSUME NEW w \in Callers, Inserted(w) PROVE LedgerInv'
  <2>1. HeldBy(Key(w), call[w].cart)
    BY <1>4 DEF LedgerInv, CallOK, Inserted
  <2> QED BY <1>4, <2>1, AnswerSafe DEF Inserted
<1>5. ASSUME NEW w \in Callers, HolderAfterRace(w) PROVE LedgerInv'
  BY <1>5, AnswerHeldSafe, AnswerSafe DEF HolderAfterRace
<1>6. CASE UNCHANGED vars
  BY <1>6 DEF LedgerInv, TypeOK, UniqueRow, CallOK, GrantOK, HeldBy, Key, vars
<1> QED BY <1>1, <1>2, <1>3, <1>4, <1>5, <1>6 DEF Next

LEMMA LedgerAlways == Spec => []LedgerInv
  BY InitLedger, StepLedger, PTL DEF Spec

\* The rows and the calls of the ledger keep their types, and a row is kept under
\* the normalised authorization, for any spellings that were presented.
THEOREM TypeCorrect == Spec => []TypeOK
<1>1. LedgerInv => TypeOK
  BY DEF LedgerInv
<1> QED BY <1>1, LedgerAlways, PTL

\* An authorization is never granted to two carts, for any number of carts and
\* concurrent calls, any spellings and any failing statements.
THEOREM GrantIsExclusive == Spec => []GrantedToOneCart
<1>1. LedgerInv => GrantedToOneCart
  <2> SUFFICES ASSUME LedgerInv, NEW v \in Callers, NEW w \in Callers,
                      answer[v].verdict = "granted", answer[w].verdict = "granted",
                      answer[v].auth = answer[w].auth
               PROVE  answer[v].cart = answer[w].cart
    BY DEF GrantedToOneCart
  <2>1. /\ HeldBy(answer[v].auth, answer[v].cart)
        /\ HeldBy(answer[w].auth, answer[w].cart)
    BY DEF LedgerInv, GrantOK
  <2>2. /\ answer[v].auth \in Authorizations
        /\ answer[v].cart \in Carts /\ answer[w].cart \in Carts
    BY <2>1 DEF LedgerInv, TypeOK, HeldBy, Rows
  <2> QED BY <2>1, <2>2 DEF LedgerInv, UniqueRow
<1> QED BY <1>1, LedgerAlways, PTL

-----------------------------------------------------------------------------
(* The refinement.                                                         *)

LEMMA HolderIs ==
    ASSUME LedgerInv, NEW a \in Authorizations, NEW c \in Carts, HeldBy(a, c)
    PROVE  Holder[a] = c
  BY DEF LedgerInv, UniqueRow, Holder, IsHeld

\* The end of a call is a reply of the registry when it agrees with the holder.
LEMMA AnswerIsReply ==
    ASSUME LedgerInv, NEW w \in Callers, pc[w] # "idle", UNCHANGED rows,
           NEW v \in {"granted", "refused", "failed"}, Answer(w, v),
           v = "granted" => Holder[Key(w)] = call[w].cart,
           v = "refused" => Holder[Key(w)] \notin {None, call[w].cart}
    PROVE  Registry!Next
<1>1. call[w].cart \in Carts /\ Key(w) \in Authorizations /\ answer[w] = NoAnswer
  BY CallTyped DEF LedgerInv, CallOK
<1>2. Holder' = Holder
  BY DEF Holder, IsHeld, HeldBy
<1>3. Registry!Reply(w, call[w].cart, Key(w), v)
  BY <1>1, <1>2 DEF Registry!Reply, Answer, Key, Registry!NoAnswer, NoAnswer
<1> QED BY <1>1, <1>3 DEF Registry!Next, Registry!Verdicts

LEMMA AnswerHeldIsReply ==
    ASSUME LedgerInv, NEW w \in Callers, pc[w] # "idle", UNCHANGED rows, AnswerHeld(w)
    PROVE  Registry!Next
<1>1. PICK c \in Carts : /\ HeldBy(Key(w), c)
                        /\ Answer(w, IF c = call[w].cart THEN "granted" ELSE "refused")
  BY DEF AnswerHeld
<1>2. Key(w) \in Authorizations
  BY CallTyped DEF LedgerInv
<1>3. Holder[Key(w)] = c /\ c # None
  BY <1>1, <1>2, HolderIs, LedgerAssumption
<1>4. CASE c = call[w].cart
  BY <1>1, <1>3, <1>4, AnswerIsReply
<1>5. CASE c # call[w].cart
  BY <1>1, <1>3, <1>5, AnswerIsReply
<1> QED BY <1>4, <1>5

\* The insert takes the authorization for the cart.
LEMMA InsertIsTake ==
    ASSUME LedgerInv, NEW w \in Callers, pc[w] = "insert", ~IsHeld(Key(w)),
           rows' = rows \cup {[auth |-> Key(w), cart |-> call[w].cart]},
           answer' = answer, LedgerInv'
    PROVE  Registry!Next
<1>1. call[w].cart \in Carts /\ Key(w) \in Authorizations
  BY CallTyped DEF LedgerInv
<1>2. \A a, c : HeldBy(a, c)' <=> HeldBy(a, c) \/ (a = Key(w) /\ c = call[w].cart)
  BY DEF HeldBy
<1>3. Holder[Key(w)] = None
  BY <1>1 DEF Holder
<1>4. ASSUME NEW a \in Authorizations
      PROVE  Holder'[a] = IF a = Key(w) THEN call[w].cart ELSE Holder[a]
  <2>1. CASE a = Key(w)
    <3>1. [auth |-> a, cart |-> call[w].cart] \in rows' /\ IsHeld(a)'
      BY <1>1, <2>1 DEF IsHeld, HeldBy
    <3>2. \A c \in Carts : HeldBy(a, c)' => c = call[w].cart
      BY <1>1, <2>1 DEF IsHeld, HeldBy
    <3> QED BY <1>1, <2>1, <3>1, <3>2 DEF Holder
  <2>2. CASE a # Key(w)
    <3>1. \A c : HeldBy(a, c)' <=> HeldBy(a, c)
      BY <1>2, <2>2
    <3> QED BY <2>2, <3>1 DEF Holder, IsHeld, HeldBy
  <2> QED BY <2>1, <2>2
<1>5. Holder' = [Holder EXCEPT ![Key(w)] = call[w].cart]
  <2>1. /\ Holder = [a \in Authorizations |-> Holder[a]]
        /\ Holder' = [a \in Authorizations |-> Holder'[a]]
    BY DEF Holder
  <2> QED BY <1>4, <2>1
<1>6. Registry!Take(call[w].cart, Key(w))
  BY <1>3, <1>5 DEF Registry!Take
<1> QED BY <1>1, <1>6 DEF Registry!Next

LEMMA InitIsRegistry == Init => Registry!Init
  BY DEF Init, Registry!Init, Holder, IsHeld, HeldBy, NoAnswer, Registry!NoAnswer

LEMMA StepIsRegistry ==
    LedgerInv /\ LedgerInv' /\ [Next]_vars => [Registry!Next]_(Registry!vars)
<1> SUFFICES ASSUME LedgerInv, LedgerInv', [Next]_vars
             PROVE  Registry!Next \/ (Holder' = Holder /\ answer' = answer)
  BY DEF Registry!vars
<1>0. UNCHANGED rows => Holder' = Holder
  BY DEF Holder, IsHeld, HeldBy
<1>1. ASSUME NEW w \in Callers, NEW c \in Carts, NEW s \in Spellings, Reserve(w, c, s)
      PROVE  Registry!Next
  BY <1>0, <1>1 DEF Reserve, Registry!Next, Registry!Ask, NoAnswer, Registry!NoAnswer
<1>2. ASSUME NEW w \in Callers, HolderOf(w)
      PROVE  Registry!Next \/ (Holder' = Holder /\ answer' = answer)
  <2>1. pc[w] # "idle" /\ UNCHANGED rows
    BY <1>2 DEF HolderOf
  <2>2. CASE AnswerHeld(w)
    BY <2>1, <2>2, AnswerHeldIsReply
  <2>3. CASE Goto(w, "insert")
    BY <1>0, <2>1, <2>3 DEF Goto
  <2>4. CASE Answer(w, "failed")
    BY <2>1, <2>4, AnswerIsReply
  <2> QED BY <1>2, <2>2, <2>3, <2>4 DEF HolderOf
<1>3. ASSUME NEW w \in Callers, InsertRow(w)
      PROVE  Registry!Next \/ (Holder' = Holder /\ answer' = answer)
  <2>1. CASE UNCHANGED rows
    BY <1>0, <1>3, <2>1 DEF InsertRow, Goto
  <2>2. CASE ~UNCHANGED rows
    BY <1>3, <2>2, InsertIsTake DEF InsertRow, Goto
  <2> QED BY <2>1, <2>2
<1>4. ASSUME NEW w \in Callers, Inserted(w) PROVE Registry!Next
  <2>1. HeldBy(Key(w), call[w].cart) /\ call[w].cart \in Carts /\ Key(w) \in Authorizations
    BY <1>4, CallTyped DEF LedgerInv, CallOK, Inserted
  <2>2. Holder[Key(w)] = call[w].cart
    BY <2>1, HolderIs
  <2> QED BY <1>4, <2>2, AnswerIsReply DEF Inserted
<1>5. ASSUME NEW w \in Callers, HolderAfterRace(w) PROVE Registry!Next
  BY <1>5, AnswerHeldIsReply, AnswerIsReply DEF HolderAfterRace
<1>6. CASE UNCHANGED vars
  BY <1>0, <1>6 DEF vars
<1> QED BY <1>1, <1>2, <1>3, <1>4, <1>5, <1>6 DEF Next

\* PaymentLedger implements AuthorizationRegistry: reservations that race, and
\* statements that fail before or after they took effect, are to every caller
\* one step of a registry that never takes an authorization back.
THEOREM LedgerIsRegistry == Spec => IsRegistry
  BY InitIsRegistry, StepIsRegistry, LedgerAlways, PTL DEF Spec, IsRegistry, Registry!Spec
=============================================================================
