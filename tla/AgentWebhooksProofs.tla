------------------------- MODULE AgentWebhooksProofs -------------------------
(***************************************************************************)
(* AgentWebhooks: the agent knows the status of a settled order, and the   *)
(* facts written into the metadata are lost to overlapping writes only.    *)
(***************************************************************************)
EXTENDS AgentWebhooks, FiniteSetTheorems, SequenceTheorems, TLAPS

Steps == {"idle", "find", "post", "log", "record", "mark"}
Kinds == {"none", "update", "other", "record"}
Carts == [record : BOOLEAN, log : Seq(Nat)]

Invocations ==
    [pc : Steps, kind : Kinds, number : Nat, status : Statuses \cup {None},
     cart : Carts \cup {None}, posts : Nat, alone : BOOLEAN]

\* The types.
Types ==
    /\ clock \in Nat /\ replaces \in BOOLEAN
    /\ order \in [status : Statuses, lastSent : Nat \cup {None}]
    /\ cart \in Carts
    /\ updates \in Nat /\ events \in Nat
    /\ handlers \in [Handlers -> Invocations]
    /\ told \in Statuses /\ unsaid \in BOOLEAN
    /\ written \in Seq([fact : Nat, alone : BOOLEAN])

\* Whoever is past the reading of the cart has read it, log entries have the
\* number of an invocation, and an update has the status that it read.
HandlersFit ==
    \A h \in Handlers :
        /\ handlers[h].pc \in {"post", "log", "record"} => handlers[h].cart \in Carts
        /\ handlers[h].pc \in {"find", "post", "log"} => handlers[h].number # Record
        /\ Updating(h) => handlers[h].status \in Statuses

\* An update of which nobody can say yet whether the agent has heard of it.
Undecided(h) == Updating(h) /\ handlers[h].pc \in {"find", "post"}

\* An update that is under way alone carries the newest status, unless there is
\* an event of a newer one that nobody took.
AloneIsNewest ==
    \A h \in Handlers :
        Updating(h) /\ handlers[h].alone /\ updates = 0 => handlers[h].status = order.status

\* The agent has been told the newest status, or will be, or that is unsaid.
ToldOrComing ==
    unsaid = FALSE /\ updates = 0 /\ (\A h \in Handlers : ~Undecided(h)) => told = order.status

\* The inductive invariant of what the agent is told.
TellInv == Types /\ HandlersFit /\ AloneIsNewest /\ ToldOrComing

LEMMA IdleIsInvocation == Idle \in Invocations
  BY DEF Idle, Invocations, Steps, Kinds

\* None is no cart.
LEMMA NoneIsNoCart == None \notin Carts /\ None \notin Statuses
  BY WebhooksAssumption DEF Carts

\* The entries of a log that are kept are a log.
LEMMA KeptIsLog ==
    ASSUME NEW log \in Seq(Nat)
    PROVE  /\ KeptEntries(log) \in Seq(Nat)
           /\ Len(KeptEntries(log)) = IF Len(log) < LogLimit THEN Len(log) ELSE LogLimit - 1
           /\ \A k \in 1 .. Len(KeptEntries(log)) :
                 KeptEntries(log)[k] = log[k + (Len(log) - Len(KeptEntries(log)))]
<1>1. Len(log) \in Nat /\ LogLimit \in Nat /\ LogLimit > 0
  BY LenProperties, WebhooksAssumption
<1>2. CASE Len(log) < LogLimit
  BY <1>1, <1>2 DEF KeptEntries
<1>3. CASE ~(Len(log) < LogLimit)
  <2> DEFINE m == Len(log) - LogLimit + 2
             n == Len(log)
  <2>1. KeptEntries(log) = SubSeq(log, m, n)
    BY <1>3 DEF KeptEntries
  <2>2. m \in Int /\ n \in Int /\ 1 <= m /\ n - m + 1 = LogLimit - 1
    BY <1>1, <1>3
  <2>3. \A i \in m .. n : log[i] \in Nat
    BY <1>1, <2>2, ElementOfSeq
  <2>4. n = Len(log)
    OBVIOUS
  <2> HIDE DEF m, n
  <2>5. /\ SubSeq(log, m, n) \in Seq(Nat)
        /\ Len(SubSeq(log, m, n)) = IF m <= n THEN n - m + 1 ELSE 0
        /\ \A i \in 1 .. n - m + 1 : SubSeq(log, m, n)[i] = log[m + i - 1]
    BY <2>2, <2>3, SubSeqProperties
  <2>6. Len(SubSeq(log, m, n)) = LogLimit - 1
    BY <2>2, <2>5, <1>1
  <2>7. ASSUME NEW k \in 1 .. LogLimit - 1
        PROVE  SubSeq(log, m, n)[k] = log[k + (Len(log) - (LogLimit - 1))]
    <3>1. k \in 1 .. n - m + 1 /\ m + k - 1 = k + (n - (LogLimit - 1))
      BY <2>2, <1>1
    <3> QED BY <3>1, <2>4, <2>5
  <2> QED BY <1>3, <2>1, <2>5, <2>6, <2>7
<1> QED BY <1>2, <1>3

\* Initially everything has its type.
LEMMA InitTells == Init => TellInv
<1> SUFFICES ASSUME Init PROVE TellInv
  OBVIOUS
<1>1. handlers = [h \in Handlers |-> Idle]
  BY DEF Init
<1>2. Types
  <2>1. cart \in Carts /\ written \in Seq([fact : Nat, alone : BOOLEAN])
    BY DEF Init, Carts
  <2>2. handlers \in [Handlers -> Invocations]
    BY <1>1, IdleIsInvocation
  <2>3. order \in [status : Statuses, lastSent : Nat \cup {None}] /\ told \in Statuses
    BY DEF Init
  <2> QED BY <2>1, <2>2, <2>3 DEF Init, Types
<1>3. HandlersFit /\ AloneIsNewest /\ ToldOrComing
  <2>1. \A h \in Handlers : handlers[h].pc = "idle" /\ handlers[h].kind = "none"
    BY <1>1 DEF Idle
  <2>2. told = order.status
    BY DEF Init
  <2> QED BY <2>1, <2>2 DEF HandlersFit, AloneIsNewest, ToldOrComing, Updating
<1> QED BY <1>2, <1>3 DEF TellInv

\* A step of one handler, which starts or ends nothing else.
Moves(h) ==
    /\ handlers' \in [Handlers -> Invocations]
    /\ \A o \in Handlers \ {h} : handlers'[o] = handlers[o]

\* What the steps of one handler make of it.
LEMMA HandlerMoves ==
    ASSUME Types, HandlersFit, NEW h \in Handlers
    PROVE  /\ OtherEvent(h) =>
                /\ Moves(h) /\ handlers[h].pc = "idle" /\ handlers'[h].kind = "other"
                /\ handlers'[h].pc = "find" /\ handlers'[h].number # Record
                /\ handlers'[h].cart = None
           /\ ReadCompletedCart(h) =>
                /\ Moves(h) /\ handlers[h].pc = "idle" /\ handlers'[h].kind = "record"
                /\ handlers'[h].pc = "record" /\ handlers'[h].cart = cart
           /\ \A step \in {"mark", "log"} : GoTo(h, step) =>
                /\ Moves(h) /\ handlers'[h].pc = step
                /\ handlers'[h].kind = handlers[h].kind
                /\ handlers'[h].number = handlers[h].number
                /\ handlers'[h].status = handlers[h].status
                /\ handlers'[h].cart = handlers[h].cart
                /\ handlers'[h].alone => handlers[h].alone
           /\ Leave(h) => Moves(h) /\ handlers'[h] = Idle
<1>1. \A o \in Handlers : handlers[o] \in Invocations
  BY DEF Types
<1>2. ASSUME OtherEvent(h)
      PROVE  /\ Moves(h) /\ handlers[h].pc = "idle" /\ handlers'[h].kind = "other"
             /\ handlers'[h].pc = "find" /\ handlers'[h].number # Record
             /\ handlers'[h].cart = None
  <2> DEFINE new == [Idle EXCEPT !.pc = "find", !.kind = "other", !.number = events + 1]
  <2>1. handlers' = [handlers EXCEPT ![h] = new] /\ handlers[h].pc = "idle"
    BY <1>2 DEF OtherEvent, Begin, At
  <2>2. /\ new \in Invocations /\ new.kind = "other" /\ new.pc = "find" /\ new.number # Record
        /\ new.cart = None
    <3>1. Idle \in Invocations /\ Idle.cart = None
      BY IdleIsInvocation DEF Idle
    <3>2. events + 1 \in Nat /\ events + 1 # 0
      BY DEF Types
    <3> QED BY <3>1, <3>2 DEF Invocations, Steps, Kinds, Record
  <2> HIDE DEF new
  <2> QED BY <2>1, <2>2 DEF Types, Moves
<1>3. ASSUME ReadCompletedCart(h)
      PROVE  /\ Moves(h) /\ handlers[h].pc = "idle" /\ handlers'[h].kind = "record"
             /\ handlers'[h].pc = "record" /\ handlers'[h].cart = cart
  <2> DEFINE new == [Idle EXCEPT !.pc = "record", !.kind = "record", !.number = events + 1,
                                 !.cart = cart]
  <2>1. handlers' = [handlers EXCEPT ![h] = new] /\ handlers[h].pc = "idle"
    BY <1>3 DEF ReadCompletedCart, Begin, At
  <2>2. new \in Invocations /\ new.kind = "record" /\ new.pc = "record" /\ new.cart = cart
    <3>1. Idle \in Invocations
      BY IdleIsInvocation
    <3>2. events + 1 \in Nat /\ cart \in Carts
      BY DEF Types
    <3> QED BY <3>1, <3>2 DEF Invocations, Steps, Kinds
  <2> HIDE DEF new
  <2> QED BY <2>1, <2>2 DEF Types, Moves
<1>4. ASSUME NEW step \in {"mark", "log"}, GoTo(h, step)
      PROVE  /\ Moves(h) /\ handlers'[h].pc = step
             /\ handlers'[h].kind = handlers[h].kind
             /\ handlers'[h].number = handlers[h].number
             /\ handlers'[h].status = handlers[h].status
             /\ handlers'[h].cart = handlers[h].cart
             /\ handlers'[h].alone => handlers[h].alone
  <2> DEFINE new == [handlers[h] EXCEPT !.pc = step]
  <2>1. handlers' = [handlers EXCEPT ![h] = new]
    BY <1>4 DEF GoTo
  <2>2. /\ new \in Invocations /\ new.pc = step /\ new.kind = handlers[h].kind
        /\ new.number = handlers[h].number /\ new.status = handlers[h].status
        /\ new.cart = handlers[h].cart /\ (new.alone => handlers[h].alone)
    BY <1>1 DEF Invocations, Steps
  <2> HIDE DEF new
  <2> QED BY <2>1, <2>2 DEF Types, Moves
<1>5. ASSUME Leave(h) PROVE Moves(h) /\ handlers'[h] = Idle
  BY <1>5, IdleIsInvocation DEF Leave, Types, Moves
<1> QED BY <1>2, <1>3, <1>4, <1>5

\* An invocation that reads the cart, or posts, or has written the log.
LEMMA SendingMoves ==
    ASSUME Types, HandlersFit, NEW h \in Handlers
    PROVE  /\ handlers' = [handlers EXCEPT ![h].cart = cart, ![h].pc = "post"] =>
                /\ Moves(h) /\ handlers'[h].pc = "post" /\ handlers'[h].cart = cart
                /\ handlers'[h].kind = handlers[h].kind
                /\ handlers'[h].number = handlers[h].number
                /\ handlers'[h].status = handlers[h].status
                /\ handlers'[h].alone => handlers[h].alone
           /\ \A posts \in Nat, step \in {"post", "log"} :
                handlers' = [handlers EXCEPT ![h].posts = posts, ![h].pc = step] =>
                /\ Moves(h) /\ handlers'[h].pc = step /\ handlers'[h].cart = handlers[h].cart
                /\ handlers'[h].kind = handlers[h].kind
                /\ handlers'[h].number = handlers[h].number
                /\ handlers'[h].status = handlers[h].status
                /\ handlers'[h].alone => handlers[h].alone
           /\ LogDelivery(h) =>
                /\ Moves(h) /\ handlers'[h].cart = None
                /\ IF Updating(h)
                   THEN /\ handlers'[h].pc = "mark" /\ handlers'[h].kind = "update"
                        /\ handlers'[h].status = handlers[h].status
                        /\ handlers'[h].alone => handlers[h].alone
                   ELSE handlers'[h] = Idle
<1>1. handlers[h] \in Invocations /\ handlers \in [Handlers -> Invocations] /\ cart \in Carts
  BY DEF Types
<1>2. ASSUME handlers' = [handlers EXCEPT ![h].cart = cart, ![h].pc = "post"]
      PROVE  /\ Moves(h) /\ handlers'[h].pc = "post" /\ handlers'[h].cart = cart
             /\ handlers'[h].kind = handlers[h].kind
             /\ handlers'[h].number = handlers[h].number
             /\ handlers'[h].status = handlers[h].status
             /\ handlers'[h].alone => handlers[h].alone
  <2> DEFINE new == [handlers[h] EXCEPT !.cart = cart, !.pc = "post"]
  <2>1. handlers' = [handlers EXCEPT ![h] = new]
    BY <1>1, <1>2
  <2>2. /\ new \in Invocations /\ new.pc = "post" /\ new.kind = handlers[h].kind
        /\ new.number = handlers[h].number /\ new.status = handlers[h].status
        /\ new.cart = cart /\ (new.alone => handlers[h].alone)
    BY <1>1 DEF Invocations, Steps
  <2> HIDE DEF new
  <2> QED BY <1>1, <2>1, <2>2 DEF Moves
<1>3. ASSUME NEW posts \in Nat, NEW step \in {"post", "log"},
             handlers' = [handlers EXCEPT ![h].posts = posts, ![h].pc = step]
      PROVE  /\ Moves(h) /\ handlers'[h].pc = step /\ handlers'[h].cart = handlers[h].cart
             /\ handlers'[h].kind = handlers[h].kind
             /\ handlers'[h].number = handlers[h].number
             /\ handlers'[h].status = handlers[h].status
             /\ handlers'[h].alone => handlers[h].alone
  <2> DEFINE new == [handlers[h] EXCEPT !.posts = posts, !.pc = step]
  <2>1. handlers' = [handlers EXCEPT ![h] = new]
    BY <1>1, <1>3
  <2>2. /\ new \in Invocations /\ new.pc = step /\ new.kind = handlers[h].kind
        /\ new.number = handlers[h].number /\ new.status = handlers[h].status
        /\ new.cart = handlers[h].cart /\ (new.alone => handlers[h].alone)
    BY <1>1 DEF Invocations, Steps
  <2> HIDE DEF new
  <2> QED BY <1>1, <2>1, <2>2 DEF Moves
<1>4. ASSUME LogDelivery(h)
      PROVE  /\ Moves(h) /\ handlers'[h].cart = None
             /\ IF Updating(h)
                THEN /\ handlers'[h].pc = "mark" /\ handlers'[h].kind = "update"
                     /\ handlers'[h].status = handlers[h].status
                     /\ handlers'[h].alone => handlers[h].alone
                ELSE handlers'[h] = Idle
  <2>1. CASE Updating(h)
    <3> DEFINE new == [handlers[h] EXCEPT !.cart = None, !.pc = "mark"]
    <3>1. handlers' = [handlers EXCEPT ![h] = new]
      BY <1>1, <1>4, <2>1 DEF LogDelivery
    <3>2. /\ new \in Invocations /\ new.pc = "mark" /\ new.kind = "update"
          /\ new.status = handlers[h].status
          /\ new.cart = None /\ (new.alone => handlers[h].alone)
      BY <1>1, <2>1 DEF Invocations, Steps, Updating
    <3> HIDE DEF new
    <3> QED BY <1>1, <2>1, <3>1, <3>2 DEF Moves
  <2>2. CASE ~Updating(h)
    <3>1. handlers' = [handlers EXCEPT ![h] = Idle]
      BY <1>4, <2>2 DEF LogDelivery
    <3>2. Idle \in Invocations /\ Idle.cart = None
      BY IdleIsInvocation DEF Idle
    <3> QED BY <1>1, <2>2, <3>1, <3>2 DEF Moves
  <2> QED BY <2>1, <2>2
<1> QED BY <1>2, <1>3, <1>4

\* A subscriber that takes an update marks the others that are under way, and
\* starts with the status of the order, alone if there are none.
LEMMA UpdateMoves ==
    ASSUME Types, HandlersFit, NEW h \in Handlers, OrderUpdated(h)
    PROVE  /\ handlers' \in [Handlers -> Invocations] /\ handlers[h].pc = "idle"
           /\ \A o \in Handlers \ {h} :
                /\ handlers'[o].pc = handlers[o].pc /\ handlers'[o].kind = handlers[o].kind
                /\ handlers'[o].number = handlers[o].number
                /\ handlers'[o].status = handlers[o].status
                /\ handlers'[o].cart = handlers[o].cart
                /\ Updating(o) => ~handlers'[o].alone
           /\ \/ /\ handlers'[h].pc = "find" /\ handlers'[h].kind = "update"
                 /\ handlers'[h].number # Record /\ handlers'[h].cart = None
                 /\ handlers'[h].status = order.status
              \/ /\ unsaid' = TRUE /\ handlers'[h].pc = "idle"
                 /\ handlers'[h].kind = handlers[h].kind
                 /\ handlers'[h].status = handlers[h].status
                 /\ handlers'[h].cart = handlers[h].cart
                 /\ Updating(h) => ~handlers'[h].alone
<1>1. handlers \in [Handlers -> Invocations] /\ order.status \in Statuses /\ events \in Nat
  BY DEF Types
<1>2. /\ Overtaken \in [Handlers -> Invocations]
      /\ \A o \in Handlers :
            /\ Overtaken[o].pc = handlers[o].pc /\ Overtaken[o].kind = handlers[o].kind
            /\ Overtaken[o].number = handlers[o].number
            /\ Overtaken[o].status = handlers[o].status
            /\ Overtaken[o].cart = handlers[o].cart
            /\ Updating(o) => ~Overtaken[o].alone
  <2>1. ASSUME NEW o \in Handlers
        PROVE  /\ Overtaken[o] \in Invocations
               /\ Overtaken[o].pc = handlers[o].pc /\ Overtaken[o].kind = handlers[o].kind
               /\ Overtaken[o].number = handlers[o].number
               /\ Overtaken[o].status = handlers[o].status
               /\ Overtaken[o].cart = handlers[o].cart
               /\ Updating(o) => ~Overtaken[o].alone
    <3>1. handlers[o] \in Invocations
      BY <1>1
    <3>2. PICK b \in BOOLEAN : b = (handlers[o].alone /\ ~Updating(o))
      BY Zenon
    <3>3. Overtaken[o] = [handlers[o] EXCEPT !.alone = b]
      BY <3>2 DEF Overtaken
    <3>4. Updating(o) => ~b
      BY <3>2
    <3> QED BY <3>1, <3>3, <3>4 DEF Invocations
  <2> QED BY <2>1 DEF Overtaken
<1>3. handlers[h].pc = "idle"
  BY DEF OrderUpdated, At
<1>4. CASE handlers' = Overtaken /\ unsaid' = TRUE
  BY <1>2, <1>3, <1>4
<1>5. CASE handlers' = [Overtaken EXCEPT ![h] =
                 [Idle EXCEPT !.pc = "find", !.kind = "update", !.number = events + 1,
                              !.status = order.status,
                              !.alone = \A o \in Handlers : ~Updating(o)]]
  <2>1. PICK b \in BOOLEAN : b = (\A o \in Handlers : ~Updating(o))
    BY Zenon
  <2> DEFINE new == [Idle EXCEPT !.pc = "find", !.kind = "update", !.number = events + 1,
                                 !.status = order.status, !.alone = b]
  <2>2. handlers' = [Overtaken EXCEPT ![h] = new]
    BY <1>5, <2>1
  <2>3. Idle \in Invocations /\ Idle.cart = None /\ events + 1 \in Nat /\ events + 1 # 0
    BY <1>1, IdleIsInvocation DEF Idle
  <2>4. /\ new \in Invocations /\ new.pc = "find" /\ new.kind = "update"
        /\ new.number # Record /\ new.cart = None /\ new.status = order.status
    BY <1>1, <2>3 DEF Invocations, Steps, Kinds, Record
  <2> HIDE DEF new
  <2> QED BY <1>2, <1>3, <2>2, <2>4
<1> QED BY <1>4, <1>5 DEF OrderUpdated

-----------------------------------------------------------------------------
(* What the agent is told.                                                 *)

\* When one handler moves and the order stays, what matters of the handlers is
\* what becomes of that one.
LEMMA OneMoves ==
    ASSUME TellInv, NEW h \in Handlers, Moves(h),
           handlers'[h].pc \in {"post", "log", "record"} => handlers'[h].cart \in Carts,
           handlers'[h].pc \in {"find", "post", "log"} => handlers'[h].number # Record,
           order'.status = order.status, updates' = updates,
           handlers'[h].kind = "update" =>
              /\ Updating(h) /\ handlers'[h].status = handlers[h].status
              /\ handlers'[h].alone => handlers[h].alone
    PROVE  HandlersFit' /\ AloneIsNewest'
<1>1. HandlersFit'
  BY DEF TellInv, HandlersFit, Moves, Updating
<1>2. AloneIsNewest'
  BY DEF TellInv, AloneIsNewest, Moves, Updating
<1> QED BY <1>1, <1>2

\* A handler that moves without anything being told, and stays as undecided as it was,
\* leaves what is told as it was.
LEMMA NothingTold ==
    ASSUME TellInv, NEW h \in Handlers, Moves(h), UNCHANGED <<told, unsaid, updates>>,
           order'.status = order.status,
           Undecided(h) <=> Undecided(h)'
    PROVE  ToldOrComing'
<1>1. \A o \in Handlers : Undecided(o) <=> Undecided(o)'
  BY DEF Moves, Undecided, Updating
<1> QED BY <1>1 DEF TellInv, ToldOrComing

\* What one step of a handler does to the cart is typed.
LEMMA WritesAreTyped ==
    ASSUME Types, HandlersFit, NEW h \in Handlers, LogDelivery(h) \/ RecordSettledPayment(h)
    PROVE  cart' \in Carts /\ written' \in Seq([fact : Nat, alone : BOOLEAN])
<1>1. /\ handlers[h].cart \in Carts /\ handlers[h].number \in Nat /\ cart \in Carts
      /\ written \in Seq([fact : Nat, alone : BOOLEAN])
  BY DEF Types, HandlersFit, LogDelivery, RecordSettledPayment, At, Invocations
<1> DEFINE seen == handlers[h].cart
<1>2. seen.record \in BOOLEAN /\ seen.log \in Seq(Nat) /\ cart.record \in BOOLEAN
      /\ cart.log \in Seq(Nat)
  BY <1>1 DEF Carts
<1>3. ASSUME NEW n \in Nat, Write(h, n) PROVE written' \in Seq([fact : Nat, alone : BOOLEAN])
  <2>1. PICK b \in BOOLEAN : b = ~OtherSpans(h)
    BY Zenon
  <2>2. [fact |-> n, alone |-> b] \in [fact : Nat, alone : BOOLEAN]
    BY <2>1
  <2>3. written' = Append(written, [fact |-> n, alone |-> b])
    BY <1>3, <2>1 DEF Write
  <2> QED BY <1>1, <2>2, <2>3, AppendProperties
<1>4. CASE LogDelivery(h)
  <2>1. CASE UNCHANGED <<cart, written>>
    BY <1>1, <2>1
  <2>2. CASE /\ cart' = [record |-> IF replaces THEN seen.record ELSE cart.record \/ seen.record,
                         log    |-> Append(KeptEntries(seen.log), handlers[h].number)]
             /\ Write(h, handlers[h].number)
    <3>1. PICK b \in BOOLEAN :
              b = (IF replaces THEN seen.record ELSE cart.record \/ seen.record)
      <4>1. (IF replaces THEN seen.record ELSE cart.record \/ seen.record) \in BOOLEAN
        BY <1>2
      <4> QED BY <4>1
    <3>2. Append(KeptEntries(seen.log), handlers[h].number) \in Seq(Nat)
      BY <1>1, <1>2, KeptIsLog, AppendProperties
    <3>3. cart' = [record |-> b, log |-> Append(KeptEntries(seen.log), handlers[h].number)]
      BY <2>2, <3>1
    <3> QED BY <1>1, <1>3, <2>2, <3>2, <3>3 DEF Carts
  <2> QED BY <1>4, <2>1, <2>2 DEF LogDelivery
<1>5. CASE RecordSettledPayment(h)
  <2>1. CASE UNCHANGED <<cart, written>>
    BY <1>1, <2>1
  <2>2. CASE /\ cart' = [record |-> TRUE,
                         log    |-> IF replaces \/ seen.log # <<>> THEN seen.log ELSE cart.log]
             /\ Write(h, Record)
    <3>1. cart' \in Carts
      BY <1>2, <2>2 DEF Carts
    <3> QED BY <1>3, <2>2, <3>1 DEF Record
  <2> QED BY <1>5, <2>1, <2>2 DEF RecordSettledPayment
<1> QED BY <1>4, <1>5

\* Whether an update was heard is a yes or a no; for other events it stays.
LEMMA UnsaidIsKnown ==
    ASSUME Types, NEW h \in Handlers, NEW success \in BOOLEAN, Unsaid(h, success)
    PROVE  /\ unsaid' \in BOOLEAN
           /\ ~Updating(h) => unsaid' = unsaid
           /\ Updating(h) /\ unsaid' = FALSE => success /\ handlers[h].alone
<1>1. CASE Updating(h)
  <2>1. unsaid' = ~(success /\ handlers[h].alone)
    BY <1>1 DEF Unsaid
  <2> QED BY <1>1, <2>1
<1>2. CASE ~Updating(h)
  BY <1>2 DEF Unsaid, Types
<1> QED BY <1>1, <1>2

\* Finding the cart tells the agent nothing.
LEMMA FindTellsNothing ==
    ASSUME TellInv, NEW h \in Handlers, FindCart(h)
    PROVE  TellInv'
<1>1. Types /\ HandlersFit /\ handlers[h] \in Invocations /\ handlers[h].pc = "find"
  BY DEF TellInv, Types, FindCart, At
<1>2. CASE /\ handlers' = [handlers EXCEPT ![h].cart = cart, ![h].pc = "post"]
           /\ unsaid' = unsaid
  <2>1. /\ Moves(h) /\ handlers'[h].pc = "post" /\ handlers'[h].cart = cart
        /\ handlers'[h].kind = handlers[h].kind
        /\ handlers'[h].number = handlers[h].number
        /\ handlers'[h].status = handlers[h].status
        /\ handlers'[h].alone => handlers[h].alone
    BY <1>1, <1>2, SendingMoves
  <2>2. Types'
    BY <1>1, <1>2, <2>1 DEF Types, Moves, FindCart
  <2>3. HandlersFit' /\ AloneIsNewest'
    <3>1. cart \in Carts /\ handlers[h].number # Record
      BY <1>1 DEF Types, HandlersFit
    <3> QED BY <2>1, <3>1, OneMoves DEF FindCart, Updating
  <2>4. ToldOrComing'
    <3>1. Undecided(h) <=> Undecided(h)'
      BY <1>1, <2>1 DEF Undecided, Updating
    <3> QED BY <1>2, <2>1, <3>1, NothingTold DEF FindCart
  <2> QED BY <2>2, <2>3, <2>4 DEF TellInv
<1>3. CASE Sent(h) /\ Unsaid(h, FALSE)
  <2>1. /\ unsaid' \in BOOLEAN /\ (~Updating(h) => unsaid' = unsaid)
        /\ Updating(h) => unsaid' = TRUE
    BY <1>1, <1>3, UnsaidIsKnown
  <2>2. /\ Moves(h) /\ handlers'[h].pc \in {"idle", "mark"}
        /\ handlers'[h].kind = "update" =>
              /\ Updating(h) /\ handlers'[h].status = handlers[h].status
              /\ handlers'[h].alone => handlers[h].alone
        /\ ~Updating(h) => handlers'[h].kind # "update"
    BY <1>1, <1>3, HandlerMoves DEF Sent, Updating, Idle
  <2>3. Types'
    <3>1. handlers' \in [Handlers -> Invocations] /\ unsaid' \in BOOLEAN
      BY <2>1, <2>2 DEF Moves
    <3>2. UNCHANGED <<clock, replaces, order, cart, updates, events, told, written>>
      BY DEF FindCart
    <3> QED BY <1>1, <3>1, <3>2 DEF Types
  <2>4. HandlersFit' /\ AloneIsNewest'
    BY <2>2, OneMoves DEF FindCart
  <2>5. ToldOrComing'
    <3>1. CASE Updating(h)
      <4>1. unsaid' # FALSE
        BY <2>1, <3>1
      <4> QED BY <4>1 DEF ToldOrComing
    <3>2. CASE ~Updating(h)
      <4>1. Undecided(h) <=> Undecided(h)'
        BY <2>2, <3>2 DEF Undecided, Updating
      <4> QED BY <2>1, <2>2, <3>2, <4>1, NothingTold DEF FindCart
    <3> QED BY <3>1, <3>2
  <2> QED BY <2>3, <2>4, <2>5 DEF TellInv
<1> QED BY <1>2, <1>3 DEF FindCart

\* A post tells the agent the newest status if it is a success of an update that was
\* alone; after any other end of an update it is unsaid.
LEMMA PostTells ==
    ASSUME TellInv, NEW h \in Handlers, Post(h)
    PROVE  TellInv'
<1>1. Types /\ HandlersFit /\ handlers[h] \in Invocations /\ handlers[h].pc = "post"
  BY DEF TellInv, Types, Post, At
<1> DEFINE posts == handlers[h].posts + 1
<1>2. PICK reply \in Replies :
        /\ Heard(h, reply)
        /\ handlers' = [handlers EXCEPT ![h].posts = posts,
                             ![h].pc = IF Verdict(reply, posts) = "retry" THEN "post" ELSE "log"]
        /\ IF Verdict(reply, posts) = "retry" THEN UNCHANGED unsaid
                                             ELSE Unsaid(h, Verdict(reply, posts) = "success")
  BY DEF Post
<1> DEFINE verdict == Verdict(reply, posts)
           step == IF verdict = "retry" THEN "post" ELSE "log"
<1>3. posts \in Nat
  BY <1>1 DEF Invocations
<1>4. verdict = "success" <=> reply = "accepted"
  BY DEF Verdict
<1>5. step \in {"post", "log"} /\ (verdict = "retry" <=> step = "post")
  OBVIOUS
<1>6. /\ handlers' = [handlers EXCEPT ![h].posts = posts, ![h].pc = step]
      /\ IF verdict = "retry" THEN UNCHANGED unsaid ELSE Unsaid(h, verdict = "success")
  BY <1>2
<1> HIDE DEF step, verdict, posts
<1>7. /\ Moves(h) /\ handlers'[h].pc = step /\ handlers'[h].cart = handlers[h].cart
      /\ handlers'[h].kind = handlers[h].kind
      /\ handlers'[h].number = handlers[h].number
      /\ handlers'[h].status = handlers[h].status
      /\ handlers'[h].alone => handlers[h].alone
  BY <1>1, <1>3, <1>5, <1>6, SendingMoves
<1>8. /\ unsaid' \in BOOLEAN /\ (~Updating(h) => unsaid' = unsaid)
      /\ Updating(h) /\ verdict # "retry" /\ unsaid' = FALSE => reply = "accepted" /\ handlers[h].alone
  <2>1. CASE verdict = "retry"
    BY <1>1, <1>6, <2>1 DEF Types
  <2>2. CASE verdict # "retry"
    <3>1. PICK b \in BOOLEAN : b = (verdict = "success")
      BY Zenon
    <3>2. Unsaid(h, b)
      BY <1>6, <2>2, <3>1
    <3> QED BY <1>1, <1>4, <2>2, <3>1, <3>2, UnsaidIsKnown
  <2> QED BY <2>1, <2>2
<1>9. /\ ~Updating(h) => told' = told
      /\ reply = "accepted" /\ Updating(h) => told' = handlers[h].status
  BY <1>2 DEF Heard
<1>10. /\ order' = order /\ updates' = updates /\ clock' = clock /\ replaces' = replaces
       /\ cart' = cart /\ events' = events /\ written' = written
  BY DEF Post
<1>11. AloneIsNewest
  BY DEF TellInv
<1>12. HandlersFit' /\ AloneIsNewest'
  <2>1. handlers[h].cart \in Carts /\ handlers[h].number # Record
    BY <1>1 DEF HandlersFit
  <2> QED BY <1>7, <1>10, <2>1, OneMoves DEF Updating
<1>13. ToldOrComing'
  <2>1. CASE ~Updating(h)
    <3>1. Undecided(h) <=> Undecided(h)'
      BY <1>7, <2>1 DEF Undecided, Updating
    <3> QED BY <1>7, <1>8, <1>9, <1>10, <2>1, <3>1, NothingTold
  <2>2. CASE Updating(h) /\ verdict = "retry"
    <3>1. Undecided(h)'
      BY <1>5, <1>7, <2>2 DEF Undecided, Updating
    <3>2. ~(\A o \in Handlers : ~Undecided(o)')
      BY <3>1
    <3> QED BY <3>2 DEF ToldOrComing
  <2>3. CASE Updating(h) /\ verdict # "retry"
    <3> SUFFICES ASSUME unsaid' = FALSE, updates' = 0 PROVE told' = order'.status
      BY DEF ToldOrComing
    <3> QED BY <1>8, <1>9, <1>10, <1>11, <2>3 DEF AloneIsNewest
  <2> QED BY <2>1, <2>2, <2>3
<1>14. Types'
  <2>1. told' \in Statuses
    BY <1>1, <1>2 DEF Heard, Types, HandlersFit
  <2>2. handlers' \in [Handlers -> Invocations] /\ unsaid' \in BOOLEAN
    BY <1>7, <1>8 DEF Moves
  <2> QED BY <1>1, <1>10, <2>1, <2>2 DEF Types
<1> QED BY <1>12, <1>13, <1>14 DEF TellInv

\* What blocks a post leaves an update unsaid.
LEMMA BlockTellsNothing ==
    ASSUME TellInv, NEW h \in Handlers, Block(h)
    PROVE  TellInv'
<1>1. Types /\ HandlersFit /\ handlers[h].pc = "post"
  BY DEF TellInv, Block, At
<1>2. /\ Moves(h) /\ handlers'[h].pc = "log" /\ handlers'[h].kind = handlers[h].kind
      /\ handlers'[h].number = handlers[h].number /\ handlers'[h].cart = handlers[h].cart
      /\ handlers'[h].status = handlers[h].status
      /\ handlers'[h].alone => handlers[h].alone
  BY <1>1, HandlerMoves DEF Block
<1>3. /\ unsaid' \in BOOLEAN /\ (~Updating(h) => unsaid' = unsaid)
      /\ Updating(h) => unsaid' = TRUE
  BY <1>1, UnsaidIsKnown DEF Block
<1>4. Types'
  <2>1. UNCHANGED <<clock, replaces, order, cart, updates, events, told, written>>
    BY DEF Block
  <2> QED BY <1>1, <1>2, <1>3, <2>1 DEF Types, Moves
<1>5. HandlersFit' /\ AloneIsNewest'
  <2>1. handlers[h].cart \in Carts /\ handlers[h].number # Record
    BY <1>1 DEF HandlersFit
  <2> QED BY <1>2, <2>1, OneMoves DEF Block, Updating
<1>6. ToldOrComing'
  <2>1. CASE Updating(h)
    <3>1. unsaid' # FALSE
      BY <1>3, <2>1
    <3> QED BY <3>1 DEF ToldOrComing
  <2>2. CASE ~Updating(h)
    <3>1. Undecided(h) <=> Undecided(h)'
      BY <1>2, <2>2 DEF Undecided, Updating
    <3> QED BY <1>2, <1>3, <2>2, <3>1, NothingTold DEF Block
  <2> QED BY <2>1, <2>2
<1> QED BY <1>4, <1>5, <1>6 DEF TellInv

\* A subscriber that takes an update: from now on only this one can be alone.
LEMMA UpdateIsTaken ==
    ASSUME TellInv, NEW h \in Handlers, OrderUpdated(h)
    PROVE  TellInv'
<1>1. Types /\ HandlersFit
  BY DEF TellInv
<1>2. /\ handlers' \in [Handlers -> Invocations] /\ handlers[h].pc = "idle"
      /\ \A o \in Handlers \ {h} :
           /\ handlers'[o].pc = handlers[o].pc /\ handlers'[o].kind = handlers[o].kind
           /\ handlers'[o].number = handlers[o].number
           /\ handlers'[o].status = handlers[o].status
           /\ handlers'[o].cart = handlers[o].cart
           /\ Updating(o) => ~handlers'[o].alone
      /\ \/ /\ handlers'[h].pc = "find" /\ handlers'[h].kind = "update"
            /\ handlers'[h].number # Record /\ handlers'[h].cart = None
            /\ handlers'[h].status = order.status
         \/ /\ unsaid' = TRUE /\ handlers'[h].pc = "idle"
            /\ handlers'[h].kind = handlers[h].kind
            /\ handlers'[h].status = handlers[h].status
            /\ handlers'[h].cart = handlers[h].cart
            /\ Updating(h) => ~handlers'[h].alone
  BY <1>1, UpdateMoves
<1>3. /\ UNCHANGED <<clock, replaces, order, cart, told, written>>
      /\ updates' = updates - 1 /\ updates > 0 /\ events' = events + 1
      /\ unsaid' = TRUE \/ unsaid' = unsaid
  BY DEF OrderUpdated
<1>4. order.status \in Statuses
  BY <1>1 DEF Types
<1>5. Types'
  <2>1. updates' \in Nat /\ events' \in Nat
    BY <1>1, <1>3 DEF Types
  <2>2. unsaid' \in BOOLEAN
    BY <1>1, <1>3 DEF Types
  <2> QED BY <1>1, <1>2, <1>3, <2>1, <2>2 DEF Types
<1>6. CASE /\ handlers'[h].pc = "find" /\ handlers'[h].kind = "update"
           /\ handlers'[h].number # Record /\ handlers'[h].cart = None
           /\ handlers'[h].status = order.status
  <2>1. HandlersFit'
    BY <1>1, <1>2, <1>4, <1>6 DEF HandlersFit, Updating
  <2>2. AloneIsNewest'
    BY <1>2, <1>3, <1>6 DEF AloneIsNewest, Updating
  <2>3. Undecided(h)'
    BY <1>6 DEF Undecided, Updating
  <2>4. ~(\A o \in Handlers : ~Undecided(o)')
    BY <2>3
  <2>5. ToldOrComing'
    BY <2>4 DEF ToldOrComing
  <2> QED BY <1>5, <2>1, <2>2, <2>5 DEF TellInv
<1>7. CASE /\ unsaid' = TRUE /\ handlers'[h].pc = "idle"
           /\ handlers'[h].kind = handlers[h].kind
           /\ handlers'[h].status = handlers[h].status
           /\ handlers'[h].cart = handlers[h].cart
           /\ Updating(h) => ~handlers'[h].alone
  <2>1. HandlersFit'
    BY <1>1, <1>2, <1>7 DEF HandlersFit, Updating
  <2>2. AloneIsNewest'
    BY <1>2, <1>7 DEF AloneIsNewest, Updating
  <2>3. ToldOrComing'
    BY <1>7 DEF ToldOrComing
  <2> QED BY <1>5, <2>1, <2>2, <2>3 DEF TellInv
<1> QED BY <1>2, <1>6, <1>7

\* Every step preserves the invariant.
LEMMA StepTells == TellInv /\ [Next]_vars => TellInv'
<1> SUFFICES ASSUME TellInv, [Next]_vars PROVE TellInv'
  OBVIOUS
<1>1. Types /\ HandlersFit /\ AloneIsNewest /\ ToldOrComing
  BY DEF TellInv
<1>2. ASSUME NEW h \in Handlers, OtherEvent(h) \/ ReadCompletedCart(h) PROVE TellInv'
  <2>1. /\ Moves(h) /\ handlers[h].pc = "idle" /\ handlers'[h].kind \in {"other", "record"}
        /\ handlers'[h].pc \in {"find", "record"}
        /\ handlers'[h].pc = "find" => handlers'[h].number # Record
        /\ handlers'[h].pc = "record" => handlers'[h].cart = cart
    BY <1>1, <1>2, HandlerMoves
  <2>2. /\ UNCHANGED <<clock, replaces, order, cart, updates, told, unsaid, written>>
        /\ events' = events + 1
    BY <1>2 DEF OtherEvent, ReadCompletedCart, Begin
  <2>3. Types' /\ cart \in Carts
    <3>1. events' \in Nat
      BY <1>1, <2>2 DEF Types
    <3> QED BY <1>1, <2>1, <2>2, <3>1 DEF Types, Moves
  <2>4. HandlersFit' /\ AloneIsNewest'
    BY <2>1, <2>2, <2>3, OneMoves
  <2>5. Undecided(h) <=> Undecided(h)'
    BY <2>1 DEF Undecided, Updating
  <2>6. ToldOrComing'
    BY <2>1, <2>2, <2>5, NothingTold
  <2> QED BY <2>3, <2>4, <2>6 DEF TellInv
<1>3. ASSUME NEW h \in Handlers, LogDelivery(h) \/ RecordSettledPayment(h) PROVE TellInv'
  <2>1. handlers[h].pc \in {"log", "record"}
    BY <1>3 DEF LogDelivery, RecordSettledPayment, At
  <2>2. /\ Moves(h) /\ handlers'[h].pc \in {"idle", "mark"}
        /\ handlers'[h].kind = "update" =>
              /\ Updating(h) /\ handlers'[h].status = handlers[h].status
              /\ handlers'[h].alone => handlers[h].alone
    <3>1. CASE LogDelivery(h)
      <4>1. CASE Updating(h)
        BY <1>1, <3>1, <4>1, SendingMoves
      <4>2. CASE ~Updating(h)
        <5>1. Moves(h) /\ handlers'[h] = Idle
          BY <1>1, <3>1, <4>2, SendingMoves
        <5> QED BY <5>1 DEF Idle
      <4> QED BY <4>1, <4>2
    <3>2. CASE RecordSettledPayment(h)
      BY <1>1, <3>2, HandlerMoves DEF RecordSettledPayment, Idle
    <3> QED BY <1>3, <3>1, <3>2
  <2>3. UNCHANGED <<clock, replaces, order, updates, events, told, unsaid>>
    BY <1>3 DEF LogDelivery, RecordSettledPayment
  <2>4. Types'
    BY <1>1, <1>3, <2>2, <2>3, WritesAreTyped DEF Types, Moves
  <2>5. HandlersFit' /\ AloneIsNewest'
    BY <2>2, <2>3, OneMoves
  <2>6. Undecided(h) <=> Undecided(h)'
    BY <2>1, <2>2 DEF Undecided, Updating
  <2>7. ToldOrComing'
    BY <2>2, <2>3, <2>6, NothingTold
  <2> QED BY <2>4, <2>5, <2>7 DEF TellInv
<1>4. ASSUME NEW h \in Handlers, MarkSent(h) PROVE TellInv'
  <2>1. /\ Moves(h) /\ handlers'[h] = Idle /\ handlers[h].pc = "mark"
    BY <1>1, <1>4, HandlerMoves DEF MarkSent, At
  <2>2. /\ UNCHANGED <<clock, replaces, cart, updates, events, told, unsaid, written>>
        /\ order' = order \/ order' = [order EXCEPT !.lastSent = clock]
    BY <1>4 DEF MarkSent
  <2>3. /\ order' \in [status : Statuses, lastSent : Nat \cup {None}]
        /\ order'.status = order.status
    BY <1>1, <2>2 DEF Types
  <2>4. Types'
    BY <1>1, <2>1, <2>2, <2>3 DEF Types, Moves
  <2>5. HandlersFit' /\ AloneIsNewest'
    BY <2>1, <2>2, <2>3, OneMoves DEF Idle
  <2>6. Undecided(h) <=> Undecided(h)'
    BY <2>1 DEF Undecided, Updating, Idle
  <2>7. ToldOrComing'
    BY <2>1, <2>2, <2>3, <2>6, NothingTold
  <2> QED BY <2>4, <2>5, <2>7 DEF TellInv
<1>5. CASE UpdateOrder
  <2>1. /\ UNCHANGED <<clock, replaces, cart, handlers, events, told, unsaid, written>>
        /\ updates' = updates + 1
    BY <1>5 DEF UpdateOrder
  <2>2. order' \in [status : Statuses, lastSent : Nat \cup {None}]
    BY <1>1, <1>5 DEF UpdateOrder, Types
  <2>3. updates' \in Nat /\ updates' # 0
    BY <1>1, <2>1 DEF Types
  <2>4. Types'
    BY <1>1, <2>1, <2>2, <2>3 DEF Types
  <2>5. HandlersFit' /\ AloneIsNewest' /\ ToldOrComing'
    BY <1>1, <2>1, <2>3 DEF HandlersFit, AloneIsNewest, ToldOrComing, Updating
  <2> QED BY <2>4, <2>5 DEF TellInv
<1>6. CASE Tick
  <2>1. /\ UNCHANGED <<replaces, order, cart, updates, handlers, events, told, unsaid, written>>
        /\ clock' = clock + 1
    BY <1>6 DEF Tick
  <2>2. clock' \in Nat
    BY <1>1, <2>1 DEF Types
  <2> QED BY <1>1, <2>1, <2>2
          DEF TellInv, Types, HandlersFit, AloneIsNewest, ToldOrComing, Undecided, Updating
<1>7. CASE Restart
  <2>1. /\ UNCHANGED <<clock, replaces, order, cart, events, told, written>>
        /\ handlers' = [h \in Handlers |-> Idle] /\ updates' = 0 /\ unsaid' = TRUE
    BY <1>7 DEF Restart
  <2>2. handlers' \in [Handlers -> Invocations]
    BY <2>1, IdleIsInvocation
  <2>3. Types'
    BY <1>1, <2>1, <2>2 DEF Types
  <2>4. \A h \in Handlers : handlers'[h].pc = "idle" /\ handlers'[h].kind = "none"
    BY <2>1 DEF Idle
  <2>5. HandlersFit' /\ AloneIsNewest' /\ ToldOrComing'
    BY <2>1, <2>4 DEF HandlersFit, AloneIsNewest, ToldOrComing, Updating
  <2> QED BY <2>3, <2>5 DEF TellInv
<1>8. CASE UNCHANGED vars
  BY <1>1, <1>8
  DEF TellInv, Types, HandlersFit, AloneIsNewest, ToldOrComing, Undecided, Updating, vars
<1> QED BY <1>2, <1>3, <1>4, <1>5, <1>6, <1>7, <1>8,
           FindTellsNothing, PostTells, BlockTellsNothing, UpdateIsTaken DEF Next

LEMMA TellsAlways == Spec => []TellInv
  BY InitTells, StepTells, PTL DEF Spec

\* For any number of subscribers and of posts: when no update is under way and
\* none was left unsaid, the agent has heard the order's status.
THEOREM AgentHasBeenTold == Spec => []AgentIsTold
<1>1. TellInv => AgentIsTold
  <2> SUFFICES ASSUME TellInv, updates = 0, \A h \in Handlers : ~Updating(h), ~unsaid
               PROVE  told = order.status
    BY DEF AgentIsTold
  <2>1. unsaid = FALSE
    BY DEF TellInv, Types
  <2> QED BY <2>1 DEF TellInv, ToldOrComing, Undecided
<1> QED BY <1>1, TellsAlways, PTL

-----------------------------------------------------------------------------
(* What is written into the cart.                                          *)

\* The writes of log entries after the i-th write.
Later(i) == {j \in DOMAIN written : j > i /\ written[j].fact # Record}

\* A cart, as it is or as it was read, has what the i-th write wrote: a log entry
\* no further from the end than there were entries since.
HasFact(c, i) ==
    IF written[i].fact = Record THEN c.record
    ELSE Cardinality(Later(i)) < LogLimit =>
            \E k \in DOMAIN c.log : /\ c.log[k] = written[i].fact
                                    /\ Len(c.log) - k <= Cardinality(Later(i))

\* What a write that overlapped no other wrote is in the cart, and in what
\* anybody has read of it and will write back.
FactsKept ==
    \A i \in DOMAIN written : written[i].alone =>
        /\ HasFact(cart, i)
        /\ \A h \in Handlers : handlers[h].cart \in Carts => HasFact(handlers[h].cart, i)

\* The inductive invariant of what is written.
FactInv == TellInv /\ FactsKept

\* The writes after one are finitely many.
LEMMA LaterIsFinite ==
    ASSUME Types, NEW i
    PROVE  IsFiniteSet(Later(i)) /\ Cardinality(Later(i)) \in Nat
<1>1. Len(written) \in Nat /\ DOMAIN written = 1 .. Len(written)
  BY LenProperties DEF Types
<1>2. IsFiniteSet(1 .. Len(written))
  BY <1>1, FS_Interval
<1>3. Later(i) \subseteq 1 .. Len(written)
  BY <1>1 DEF Later
<1> QED BY <1>2, <1>3, FS_Subset, FS_CardinalityType

\* One more write: it is after every earlier one, and nothing is after it.
LEMMA WriteIsLater ==
    ASSUME Types, NEW fact \in Nat, NEW alone \in BOOLEAN, NEW n, n = Len(written),
           written' = Append(written, [fact |-> fact, alone |-> alone])
    PROVE  /\ n \in Nat /\ DOMAIN written = 1 .. n /\ DOMAIN written' = 1 .. n + 1
           /\ \A i \in 1 .. n : written'[i] = written[i]
           /\ written'[n + 1].fact = fact /\ written'[n + 1].alone = alone
           /\ \A i \in 1 .. n : Cardinality(Later(i)') =
                 IF fact = Record THEN Cardinality(Later(i)) ELSE Cardinality(Later(i)) + 1
           /\ Cardinality(Later(n + 1)') = 0
<1> DEFINE new == [fact |-> fact, alone |-> alone]
<1>1. n \in Nat /\ DOMAIN written = 1 .. n /\ written \in Seq([fact : Nat, alone : BOOLEAN])
  BY LenProperties DEF Types
<1>2. new \in [fact : Nat, alone : BOOLEAN] /\ new.fact = fact /\ new.alone = alone
  OBVIOUS
<1> HIDE DEF new
<1>3. written' = Append(written, new)
  BY DEF new
<1>4. /\ written' \in Seq([fact : Nat, alone : BOOLEAN]) /\ Len(written') = n + 1
      /\ \A i \in 1 .. n : written'[i] = written[i]
      /\ written'[n + 1] = new
  BY <1>1, <1>2, <1>3, AppendProperties
<1>5. DOMAIN written' = 1 .. n + 1
  BY <1>4, LenProperties
<1>6. ASSUME NEW i \in 1 .. n
      PROVE  Cardinality(Later(i)') =
                 IF fact = Record THEN Cardinality(Later(i)) ELSE Cardinality(Later(i)) + 1
  <2>1. CASE fact = Record
    <3>1. Later(i)' = Later(i)
      BY <1>1, <1>2, <1>4, <1>5, <2>1 DEF Later
    <3> QED BY <2>1, <3>1
  <2>2. CASE fact # Record
    <3>1. Later(i)' = Later(i) \cup {n + 1}
      <4>1. DOMAIN written' = DOMAIN written \cup {n + 1} /\ n + 1 > i
        <5>1. 1 .. n + 1 = (1 .. n) \cup {n + 1}
          BY <1>1
        <5>2. n + 1 > i
          BY <1>1
        <5> QED BY <1>1, <1>5, <5>1, <5>2
      <4>2. \A j \in DOMAIN written : written'[j].fact = written[j].fact
        BY <1>1, <1>4
      <4>3. written'[n + 1].fact # Record
        BY <1>2, <1>4, <2>2
      <4> QED BY <4>1, <4>2, <4>3 DEF Later
    <3>2. n + 1 \notin Later(i)
      BY <1>1 DEF Later
    <3>3. Cardinality(Later(i) \cup {n + 1}) = Cardinality(Later(i)) + 1
      BY <3>2, LaterIsFinite, FS_AddElement
    <3> QED BY <2>2, <3>1, <3>3
  <2> QED BY <2>1, <2>2
<1>7. Cardinality(Later(n + 1)') = 0
  <2>1. \A j \in DOMAIN written' : ~(j > n + 1)
    BY <1>1, <1>5
  <2>2. Later(n + 1)' = {}
    BY <2>1 DEF Later
  <2> QED BY <2>2, FS_EmptySet
<1> QED BY <1>1, <1>2, <1>4, <1>5, <1>6, <1>7

\* An entry that is appended to what is kept of a log pushes the others one
\* further from the end, and drops one only if LogLimit - 1 came after it.
LEMMA AppendToLog ==
    ASSUME NEW log \in Seq(Nat), NEW entry \in Nat
    PROVE  LET after == Append(KeptEntries(log), entry) IN
           /\ after \in Seq(Nat) /\ Len(after) \in DOMAIN after /\ after[Len(after)] = entry
           /\ \A k \in DOMAIN log : Len(log) - k + 1 < LogLimit =>
                 \E m \in DOMAIN after : /\ after[m] = log[k]
                                         /\ Len(after) - m = Len(log) - k + 1
<1> DEFINE kept == KeptEntries(log)
           after == Append(kept, entry)
<1>1. Len(log) \in Nat /\ DOMAIN log = 1 .. Len(log) /\ LogLimit \in Nat /\ LogLimit > 0
  BY LenProperties, WebhooksAssumption
<1>2. /\ kept \in Seq(Nat)
      /\ Len(kept) = IF Len(log) < LogLimit THEN Len(log) ELSE LogLimit - 1
      /\ \A k \in 1 .. Len(kept) : kept[k] = log[k + (Len(log) - Len(kept))]
  BY KeptIsLog
<1> HIDE DEF kept
<1>3. /\ after \in Seq(Nat) /\ Len(after) = Len(kept) + 1
      /\ \A k \in 1 .. Len(kept) : after[k] = kept[k]
      /\ after[Len(kept) + 1] = entry
  BY <1>2, AppendProperties
<1>4. DOMAIN after = 1 .. Len(kept) + 1 /\ Len(kept) \in Nat
  BY <1>2, <1>3, LenProperties
<1> HIDE DEF after
<1>5. ASSUME NEW k \in DOMAIN log, Len(log) - k + 1 < LogLimit
      PROVE  \E m \in DOMAIN after : after[m] = log[k] /\ Len(after) - m = Len(log) - k + 1
  <2> DEFINE m == k - (Len(log) - Len(kept))
  <2>1. m \in 1 .. Len(kept) /\ m + (Len(log) - Len(kept)) = k
    <3>1. k \in 1 .. Len(log)
      BY <1>1, <1>5
    <3>2. CASE Len(log) < LogLimit
      BY <1>1, <1>2, <3>1, <3>2
    <3>3. CASE ~(Len(log) < LogLimit)
      <4>1. Len(kept) = LogLimit - 1
        BY <1>2, <3>3
      <4> QED BY <1>1, <1>5, <3>1, <3>3, <4>1
    <3> QED BY <3>2, <3>3
  <2>2. after[m] = log[k]
    BY <1>2, <1>3, <2>1
  <2>3. m \in DOMAIN after /\ Len(after) - m = Len(log) - k + 1
    BY <1>1, <1>3, <1>4, <2>1
  <2> QED BY <2>2, <2>3
<1>6. Len(after) \in DOMAIN after /\ after[Len(after)] = entry
  BY <1>3, <1>4
<1> QED BY <1>3, <1>5, <1>6 DEF after, kept

\* A step that writes nothing, and in which nobody reads but the cart as it is.
LEMMA NothingWritten ==
    ASSUME FactInv, TellInv', UNCHANGED <<cart, written>>,
           \A h \in Handlers : handlers'[h].cart \in {handlers[h].cart, None, cart}
    PROVE  FactInv'
<1>1. ASSUME NEW i, NEW h \in Handlers, handlers'[h].cart \in Carts, HasFact(cart, i),
             handlers[h].cart \in Carts => HasFact(handlers[h].cart, i)
      PROVE  HasFact(handlers[h].cart, i)'
  BY <1>1, NoneIsNoCart DEF HasFact, Later
<1>2. ASSUME NEW i, HasFact(cart, i) PROVE HasFact(cart, i)'
  BY <1>2 DEF HasFact, Later
<1>3. FactsKept'
  BY <1>1, <1>2 DEF FactInv, FactsKept
<1> QED BY <1>3 DEF FactInv

\* A write: what was written before stays, because the writer had read it.
LEMMA WriteKeepsFacts ==
    ASSUME FactInv, TellInv', NEW h \in Handlers, NEW fact \in Nat, Write(h, fact),
           Moves(h), handlers[h].cart \in Carts, handlers'[h].cart = None,
           fact = Record =>
              /\ cart'.record = TRUE
              /\ cart'.log \in {handlers[h].cart.log, cart.log},
           fact # Record =>
              /\ handlers[h].cart.record /\ cart.record => cart'.record
              /\ cart'.log = Append(KeptEntries(handlers[h].cart.log), fact)
    PROVE  FactInv'
<1> DEFINE seen == handlers[h].cart
<1>1. /\ Types /\ seen \in Carts /\ cart \in Carts /\ cart' \in Carts
      /\ seen.log \in Seq(Nat) /\ cart.log \in Seq(Nat)
  BY DEF FactInv, TellInv, Types, Carts
<1>2. PICK b \in BOOLEAN : b = ~OtherSpans(h)
  BY Zenon
<1>3. PICK n : n = Len(written)
  OBVIOUS
<1>4. /\ n \in Nat /\ DOMAIN written = 1 .. n /\ DOMAIN written' = 1 .. n + 1
      /\ \A i \in 1 .. n : written'[i] = written[i]
      /\ written'[n + 1].fact = fact /\ written'[n + 1].alone = b
      /\ \A i \in 1 .. n : Cardinality(Later(i)') =
            IF fact = Record THEN Cardinality(Later(i)) ELSE Cardinality(Later(i)) + 1
      /\ Cardinality(Later(n + 1)') = 0
  <2>1. written' = Append(written, [fact |-> fact, alone |-> b])
    BY <1>2 DEF Write
  <2> QED BY <1>1, <1>3, <2>1, WriteIsLater
<1>5. \A i \in 1 .. n : Cardinality(Later(i)) \in Nat
  BY <1>1, LaterIsFinite
<1>6. LogLimit \in Nat /\ LogLimit > 0
  BY WebhooksAssumption
<1> DEFINE Card(i) == Cardinality(Later(i)')
           After(c, i) ==
               IF written'[i].fact = Record THEN c.record
               ELSE Card(i) < LogLimit =>
                       \E k \in DOMAIN c.log : /\ c.log[k] = written'[i].fact
                                               /\ Len(c.log) - k <= Card(i)
<1>7. ASSUME NEW i \in 1 .. n, NEW c \in Carts, HasFact(c, i) PROVE After(c, i)
  <2>1. CASE written[i].fact = Record
    BY <1>4, <1>7, <2>1 DEF HasFact
  <2>2. CASE written[i].fact # Record
    <3> SUFFICES ASSUME Card(i) < LogLimit
                 PROVE  \E k \in DOMAIN c.log : /\ c.log[k] = written'[i].fact
                                                /\ Len(c.log) - k <= Card(i)
      BY <1>4, <2>2
    <3>1. Card(i) \in Nat /\ Cardinality(Later(i)) <= Card(i)
      BY <1>4, <1>5
    <3>2. c.log \in Seq(Nat) /\ Len(c.log) \in Nat /\ DOMAIN c.log = 1 .. Len(c.log)
      BY LenProperties DEF Carts
    <3>3. PICK k \in DOMAIN c.log : /\ c.log[k] = written[i].fact
                                   /\ Len(c.log) - k <= Cardinality(Later(i))
      BY <1>5, <1>6, <1>7, <2>2, <3>1 DEF HasFact
    <3>4. Len(c.log) - k <= Card(i)
      BY <1>5, <3>1, <3>2, <3>3
    <3> QED BY <1>4, <3>3, <3>4
  <2> QED BY <2>1, <2>2
<1>8. ASSUME NEW i \in 1 .. n, HasFact(seen, i), HasFact(cart, i) PROVE After(cart', i)
  <2>1. CASE written[i].fact = Record
    <3>1. cart'.record
      BY <1>8, <2>1 DEF HasFact
    <3> QED BY <1>4, <2>1, <3>1
  <2>2. CASE written[i].fact # Record /\ fact = Record
    <3>1. After(seen, i) /\ After(cart, i)
      BY <1>1, <1>7, <1>8
    <3>2. CASE cart'.log = seen.log
      BY <1>4, <2>2, <3>1, <3>2
    <3>3. CASE cart'.log = cart.log
      BY <1>4, <2>2, <3>1, <3>3
    <3> QED BY <2>2, <3>2, <3>3
  <2>3. CASE written[i].fact # Record /\ fact # Record
    <3> SUFFICES ASSUME Card(i) < LogLimit
                 PROVE  \E k \in DOMAIN cart'.log : /\ cart'.log[k] = written'[i].fact
                                                    /\ Len(cart'.log) - k <= Card(i)
      BY <1>4, <2>3
    <3>1. Card(i) = Cardinality(Later(i)) + 1 /\ Cardinality(Later(i)) \in Nat
      BY <1>4, <1>5, <2>3
    <3>2. Len(seen.log) \in Nat /\ DOMAIN seen.log = 1 .. Len(seen.log)
      BY <1>1, LenProperties
    <3>3. PICK k \in DOMAIN seen.log : /\ seen.log[k] = written[i].fact
                                      /\ Len(seen.log) - k <= Cardinality(Later(i))
      BY <1>6, <1>8, <2>3, <3>1 DEF HasFact
    <3>4. Len(seen.log) - k + 1 < LogLimit /\ Len(seen.log) - k + 1 <= Card(i)
      BY <1>6, <3>1, <3>2, <3>3
    <3>5. cart'.log = Append(KeptEntries(seen.log), fact)
      BY <2>3
    <3>6. PICK m \in DOMAIN cart'.log : /\ cart'.log[m] = seen.log[k]
                                       /\ Len(cart'.log) - m = Len(seen.log) - k + 1
      <4> DEFINE log == seen.log
                 after == Append(KeptEntries(log), fact)
      <4>1. log \in Seq(Nat) /\ k \in DOMAIN log /\ Len(log) - k + 1 < LogLimit
        BY <1>1, <3>4
      <4> HIDE DEF log
      <4>2. \E m \in DOMAIN after : after[m] = log[k] /\ Len(after) - m = Len(log) - k + 1
        BY <4>1, AppendToLog
      <4>3. after = cart'.log
        BY <3>5 DEF log
      <4> QED BY <4>2, <4>3 DEF log
    <3>7. cart'.log[m] = written'[i].fact
      BY <1>4, <3>3, <3>6
    <3>8. Len(cart'.log) - m <= Card(i)
      BY <3>4, <3>6
    <3> QED BY <3>6, <3>7, <3>8
  <2> QED BY <2>1, <2>2, <2>3
<1>9. After(cart', n + 1)
  <2>1. CASE fact = Record
    BY <1>4, <2>1
  <2>2. CASE fact # Record
    <3>1. cart'.log = Append(KeptEntries(seen.log), fact)
      BY <2>2
    <3>2. /\ cart'.log \in Seq(Nat) /\ Len(cart'.log) \in DOMAIN cart'.log
          /\ cart'.log[Len(cart'.log)] = fact
      BY <1>1, <3>1, AppendToLog
    <3>3. Len(cart'.log) - Len(cart'.log) <= 0
      BY <3>2, LenProperties
    <3> QED BY <1>4, <2>2, <3>2, <3>3
  <2> QED BY <2>1, <2>2
<1>10. ASSUME b = TRUE, NEW o \in Handlers PROVE handlers'[o].cart \notin Carts
  <2>1. \A x \in Handlers \ {h} : handlers[x].cart = None
    BY <1>2, <1>10 DEF OtherSpans
  <2> QED BY <2>1, NoneIsNoCart DEF Moves
<1>11. ASSUME NEW o \in Handlers, handlers'[o].cart \in Carts
       PROVE  handlers[o].cart = handlers'[o].cart
  BY <1>11, NoneIsNoCart DEF Moves
<1>12. ASSUME NEW i \in 1 .. n, written'[i].alone
       PROVE  /\ After(cart', i)
              /\ \A o \in Handlers : handlers'[o].cart \in Carts => After(handlers'[o].cart, i)
  <2>1. written[i].alone
    BY <1>4, <1>12
  <2>2. /\ HasFact(cart, i) /\ HasFact(seen, i)
        /\ \A o \in Handlers : handlers[o].cart \in Carts => HasFact(handlers[o].cart, i)
    BY <1>1, <1>4, <2>1 DEF FactInv, FactsKept
  <2>3. After(cart', i)
    BY <1>8, <2>2
  <2>4. ASSUME NEW o \in Handlers, handlers'[o].cart \in Carts PROVE After(handlers'[o].cart, i)
    <3>1. handlers[o].cart \in Carts /\ After(handlers[o].cart, i)
      BY <1>7, <1>11, <2>2, <2>4
    <3> QED BY <1>11, <2>4, <3>1
  <2> QED BY <2>3, <2>4
<1>13. ASSUME NEW i \in DOMAIN written', written'[i].alone
       PROVE  /\ After(cart', i)
              /\ \A o \in Handlers : handlers'[o].cart \in Carts => After(handlers'[o].cart, i)
  <2>1. CASE i \in 1 .. n
    BY <1>12, <1>13, <2>1
  <2>2. CASE i = n + 1
    <3>1. b = TRUE
      BY <1>4, <1>13, <2>2
    <3> QED BY <1>9, <1>10, <2>2, <3>1
  <2> QED BY <1>4, <2>1, <2>2
<1>14. FactsKept'
  BY <1>13 DEF FactsKept, HasFact
<1> QED BY <1>14 DEF FactInv

\* Every step preserves the invariant of what is written.
LEMMA StepKeepsFacts == FactInv /\ [Next]_vars => FactInv'
<1> SUFFICES ASSUME FactInv, [Next]_vars PROVE FactInv'
  OBVIOUS
<1>1. TellInv' /\ TellInv /\ Types /\ HandlersFit
  BY StepTells DEF FactInv, TellInv
<1>2. ASSUME NEW h \in Handlers, LogDelivery(h) PROVE FactInv'
  <2>1. Moves(h) /\ handlers'[h].cart = None
    BY <1>1, <1>2, SendingMoves
  <2>2. /\ handlers[h].cart \in Carts /\ handlers[h].number \in Nat
        /\ handlers[h].number # Record
    BY <1>1, <1>2 DEF HandlersFit, LogDelivery, At, Types, Invocations
  <2>3. CASE UNCHANGED <<cart, written>>
    <3>1. \A o \in Handlers : handlers'[o].cart \in {handlers[o].cart, None, cart}
      BY <2>1 DEF Moves
    <3> QED BY <1>1, <2>3, <3>1, NothingWritten
  <2>4. CASE /\ cart' = [record |-> IF replaces THEN handlers[h].cart.record
                                   ELSE cart.record \/ handlers[h].cart.record,
                         log |-> Append(KeptEntries(handlers[h].cart.log), handlers[h].number)]
             /\ Write(h, handlers[h].number)
    <3>1. handlers[h].cart.record /\ cart.record => cart'.record
      <4>1. cart'.record = IF replaces THEN handlers[h].cart.record
                                       ELSE cart.record \/ handlers[h].cart.record
        BY <2>4
      <4> QED BY <4>1
    <3>2. cart'.log = Append(KeptEntries(handlers[h].cart.log), handlers[h].number)
      BY <2>4
    <3> QED BY <1>1, <2>1, <2>2, <2>4, <3>1, <3>2, WriteKeepsFacts
  <2> QED BY <1>2, <2>3, <2>4 DEF LogDelivery
<1>3. ASSUME NEW h \in Handlers, RecordSettledPayment(h) PROVE FactInv'
  <2>1. Moves(h) /\ handlers'[h].cart = None
    BY <1>1, <1>3, HandlerMoves DEF RecordSettledPayment, Idle
  <2>2. handlers[h].cart \in Carts
    BY <1>1, <1>3 DEF HandlersFit, RecordSettledPayment, At
  <2>3. CASE UNCHANGED <<cart, written>>
    <3>1. \A o \in Handlers : handlers'[o].cart \in {handlers[o].cart, None, cart}
      BY <2>1 DEF Moves
    <3> QED BY <1>1, <2>3, <3>1, NothingWritten
  <2>4. CASE /\ cart' = [record |-> TRUE,
                         log |-> IF replaces \/ handlers[h].cart.log # <<>>
                                 THEN handlers[h].cart.log ELSE cart.log]
             /\ Write(h, Record)
    <3>1. cart'.record = TRUE /\ cart'.log \in {handlers[h].cart.log, cart.log}
      BY <2>4
    <3>2. Record \in Nat
      BY DEF Record
    <3> QED BY <1>1, <2>1, <2>2, <2>4, <3>1, <3>2, WriteKeepsFacts
  <2> QED BY <1>3, <2>3, <2>4 DEF RecordSettledPayment
<1>4. CASE \/ \E h \in Handlers :
               \/ OtherEvent(h) \/ ReadCompletedCart(h) \/ FindCart(h) \/ Block(h) \/ MarkSent(h)
               \/ OrderUpdated(h) \/ Post(h)
           \/ UpdateOrder \/ Tick \/ Restart \/ UNCHANGED vars
  <2>1. UNCHANGED <<cart, written>>
    BY <1>4 DEF OtherEvent, ReadCompletedCart, FindCart, Block, MarkSent, OrderUpdated, Post,
                UpdateOrder, Tick, Restart, vars
  <2>2. ASSUME NEW h \in Handlers,
               OtherEvent(h) \/ ReadCompletedCart(h) \/ FindCart(h) \/ Block(h) \/ MarkSent(h)
        PROVE  Moves(h) /\ handlers'[h].cart \in {handlers[h].cart, None, cart}
    <3>1. CASE OtherEvent(h) \/ ReadCompletedCart(h)
      BY <1>1, <3>1, HandlerMoves
    <3>2. CASE \/ GoTo(h, "mark") \/ GoTo(h, "log") \/ Leave(h)
      <4>1. Idle.cart = None
        BY DEF Idle
      <4> QED BY <1>1, <3>2, <4>1, HandlerMoves
    <3>3. CASE handlers' = [handlers EXCEPT ![h].cart = cart, ![h].pc = "post"]
      BY <1>1, <3>3, SendingMoves
    <3> QED BY <2>2, <3>1, <3>2, <3>3 DEF FindCart, Sent, Block, MarkSent
  <2>3. ASSUME NEW h \in Handlers, Post(h)
        PROVE  Moves(h) /\ handlers'[h].cart = handlers[h].cart
    <3>1. PICK reply \in Replies :
             handlers' = [handlers EXCEPT ![h].posts = handlers[h].posts + 1,
                 ![h].pc = IF Verdict(reply, handlers[h].posts + 1) = "retry" THEN "post" ELSE "log"]
      BY <2>3 DEF Post
    <3>2. handlers[h].posts + 1 \in Nat
      BY <1>1 DEF Types, Invocations
    <3> QED BY <1>1, <3>1, <3>2, SendingMoves
  <2>4. ASSUME NEW h \in Handlers, OrderUpdated(h)
        PROVE  \A o \in Handlers : handlers'[o].cart \in {handlers[o].cart, None}
    BY <1>1, <2>4, UpdateMoves
  <2>5. ASSUME UpdateOrder \/ Tick \/ Restart \/ UNCHANGED vars
        PROVE  \A o \in Handlers : handlers'[o].cart \in {handlers[o].cart, None}
    <3>1. handlers' = handlers \/ handlers' = [o \in Handlers |-> Idle]
      BY <2>5 DEF UpdateOrder, Tick, Restart, vars
    <3> QED BY <3>1 DEF Idle
  <2>6. \A o \in Handlers : handlers'[o].cart \in {handlers[o].cart, None, cart}
    BY <1>4, <2>2, <2>3, <2>4, <2>5 DEF Moves
  <2> QED BY <1>1, <2>1, <2>6, NothingWritten
<1> QED BY <1>2, <1>3, <1>4 DEF Next

LEMMA FactsAlways == Spec => []FactInv
<1>1. Init => FactInv
  <2>1. Init => DOMAIN written = {}
    BY DEF Init
  <2> QED BY <2>1, InitTells DEF FactInv, FactsKept
<1> QED BY <1>1, StepKeepsFacts, PTL DEF Spec

\* For any number of handlers and any size of the log: what was written into the
\* metadata while nobody else had it read is there for good.
THEOREM OverlapsLoseFacts == Spec => []OnlyOverlapsLoseFacts
<1>1. FactInv => OnlyOverlapsLoseFacts
  <2> SUFFICES ASSUME FactInv, NEW i \in DOMAIN written, written[i].alone
               PROVE  IF written[i].fact = Record THEN cart.record
                      ELSE Cardinality(Later(i)) < LogLimit =>
                              \E k \in DOMAIN cart.log : cart.log[k] = written[i].fact
    BY DEF OnlyOverlapsLoseFacts, Later
  <2> QED BY DEF FactInv, FactsKept, HasFact
<1> QED BY <1>1, FactsAlways, PTL
=============================================================================
