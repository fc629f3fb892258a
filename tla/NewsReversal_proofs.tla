------------------------ MODULE NewsReversal_proofs ------------------------
(***************************************************************************)
(* Proofs about NewsReversal, for any number of targets and any bounds:    *)
(* its types, that a row says of its order what the broker did (RowsFollow)*)
(* and that an up Runtime always holds one reversal order per target of the*)
(* position it protects (Protected).                                       *)
(***************************************************************************)
EXTENDS NewsReversal, SequenceTheorems, FiniteSetTheorems, TLAPS

-----------------------------------------------------------------------------
(* Types.                                                                  *)

OrderState == {"pending", "open", "done"}
LegStatus  == {"none", "PLANNED", "SUBMITTED", "FILLED", "CANCELLED",
               "CLOSED_TP", "CLOSED_SL", "CLOSED_MANUAL"}
JobStatus  == {"ARMED", "SUBMITTED", "FILLED", "MANAGED"} \cup Terminal

Job == [status : JobStatus, active : Direction \cup {"none"}, count : 0 .. 1,
        state : {"WAITING", "INITIAL", "PROTECTED", "REVERSAL_ACTIVE", "COMPLETED"}]
Row == [status : LegStatus, order : 0 .. MaxSends, position : 0 .. MaxSends]
Message == [kind : {"fill", "CLOSED_TP", "CLOSED_SL"}, leg : Leg, n : 1 .. MaxSends]
Runtime == [up : BOOLEAN, placing : 1 .. 2 * N + 1, sent : BOOLEAN, filled : BOOLEAN,
            known : SUBSET OrderId, open : SUBSET OrderId, timer : BOOLEAN,
            expiry : BOOLEAN, expiring : BOOLEAN, management : BOOLEAN, sized : BOOLEAN]
Syncing == [at : {"no", "clear", "close", "mark", "place", "sent"}, cancel : SUBSET Leg,
            close : SUBSET Leg, mark : SUBSET Leg,
            next : 1 .. N + 1, size : 0 .. N, to : Direction, revision : 0 .. N - 1]

OrdersOK(o) == /\ o \in [Leg -> Seq(OrderState)]
               /\ \A l \in Leg : Len(o[l]) <= MaxSends

RowsTyped == /\ job \in Job /\ leg \in [Leg -> Row]
RunTyped  == /\ run \in Runtime /\ (run.sent => run.placing <= 2 * N)
SyncTyped == /\ sync \in Syncing /\ (sync.at = "sent" => sync.next <= sync.size)
Scalars   == /\ clock \in 0 .. 2 /\ events \in 0 .. MaxEvents
             /\ trouble \in 0 .. MaxTrouble /\ slipped \in BOOLEAN
HandsTyped == handling \subseteq Handler /\ forgotten \subseteq {l \in Leg : ~Initial(l)}

\* An order being recorded has been taken by the broker.
SentOnes  == /\ run.sent => Latest(Here) > 0
             /\ sync.at = "sent" => Latest(There) > 0

TypeInv == /\ RowsTyped /\ OrdersOK(orders) /\ RunTyped /\ SyncTyped /\ Scalars
           /\ HandsTyped /\ SentOnes /\ inbox \in Seq(Message)

\* The broker forgets no order.
Longer == \A l \in Leg : Latest(l)' >= Latest(l)

-----------------------------------------------------------------------------
(* The operators of the model.                                             *)

LEMMA Bounds == N \in Nat \ {0} /\ MaxSends \in Nat \ {0} /\ MaxInbox \in Nat \ {0}
                /\ MaxEvents \in Nat /\ MaxTrouble \in Nat /\ Slips \in BOOLEAN
BY ReversalAssumption

LEMMA InitialLegType == \A i \in 1 .. 2 * N : InitialLeg(i) \in Leg /\ Initial(InitialLeg(i))
<1> TAKE i \in 1 .. 2 * N
<1>1. ((i - 1) % N) + 1 \in 1 .. N
  BY Bounds
<1>2. (IF i <= N THEN "BUY" ELSE "SELL") \in Direction
  BY DEF Direction
<1> QED  BY <1>1, <1>2 DEF InitialLeg, Leg, Initial

LEMMA ReversalLegType ==
  \A d \in Direction, i \in 1 .. N, r \in 0 .. N - 1 :
    <<"REVERSAL", d, i, r>> \in Leg /\ ~Initial(<<"REVERSAL", d, i, r>>)
BY DEF Leg, Initial

LEMMA OppositeType == \A d \in Direction : Opposite(d) \in Direction /\ Opposite(d) # d
<1> TAKE d \in Direction
<1>1. \E e \in Direction : e # d
  BY DEF Direction
<1> QED  BY <1>1 DEF Opposite

LEMMA MovedType ==
  ASSUME RowsTyped, NEW from, NEW to \in JobStatus
  PROVE  /\ Moved(from, to) \in Job
         /\ Moved(from, to).status = IF job.status \in from THEN to ELSE job.status
         /\ Moved(from, to).active = job.active
         /\ Moved(from, to).count = job.count
         /\ Moved(from, to).state = job.state
BY DEF RowsTyped, Job, Moved

LEMMA MarkedType ==
  ASSUME RowsTyped, NEW L, NEW status \in LegStatus
  PROVE  Marked(L, status) \in [Leg -> Row]
BY DEF RowsTyped, Row, Marked

LEMMA WithdrawnType ==
  ASSUME OrdersOK(orders), NEW S, NEW P
  PROVE  /\ OrdersOK(Withdrawn(S, P))
         /\ \A l \in Leg : Len(Withdrawn(S, P)[l]) = Len(orders[l])
<1>1. ASSUME NEW l \in Leg
      PROVE  /\ Withdrawn(S, P)[l] \in Seq(OrderState)
             /\ Len(Withdrawn(S, P)[l]) = Len(orders[l])
  <2>1. orders[l] \in Seq(OrderState) /\ DOMAIN orders[l] = 1 .. Len(orders[l])
        /\ Len(orders[l]) \in Nat
    BY DEF OrdersOK
  <2>2. Withdrawn(S, P)[l] =
          [n \in 1 .. Len(orders[l]) |->
             IF (<<l, n>> \in S /\ orders[l][n] = "pending") \/ (<<l, n>> \in P /\ orders[l][n] = "open")
             THEN "done" ELSE orders[l][n]]
    BY <2>1 DEF Withdrawn
  <2>3. \A n \in 1 .. Len(orders[l]) : Withdrawn(S, P)[l][n] \in OrderState
    BY <2>1, <2>2 DEF OrderState
  <2>4. Withdrawn(S, P)[l] \in [1 .. Len(orders[l]) -> OrderState]
    BY <2>2, <2>3
  <2>5. \A q \in [1 .. Len(orders[l]) -> OrderState] : q \in Seq(OrderState) /\ Len(q) = Len(orders[l])
    BY <2>1
  <2> QED  BY <2>4, <2>5
<1>2. Withdrawn(S, P) \in [Leg -> Seq(OrderState)]
  BY <1>1 DEF Withdrawn
<1> QED  BY <1>1, <1>2 DEF OrdersOK

LEMMA SendsType ==
  ASSUME OrdersOK(orders), NEW l \in Leg, Accepts(l), Sends(l)
  PROVE  OrdersOK(orders') /\ Longer /\ Latest(l)' > 0
<1>1. orders[l] \in Seq(OrderState) /\ Len(orders[l]) < MaxSends
  BY DEF OrdersOK, Accepts, Latest
<1>2. /\ Append(orders[l], "pending") \in Seq(OrderState)
      /\ Len(Append(orders[l], "pending")) = Len(orders[l]) + 1
  BY <1>1, AppendProperties DEF OrderState
<1>3. orders' = [orders EXCEPT ![l] = Append(orders[l], "pending")]
  BY DEF Sends
<1>4. orders' \in [Leg -> Seq(OrderState)]
  BY <1>2, <1>3 DEF OrdersOK
<1>5. ASSUME NEW k \in Leg
      PROVE  Len(orders'[k]) <= MaxSends /\ Len(orders'[k]) >= Len(orders[k])
  <2>1. orders[k] \in Seq(OrderState) /\ Len(orders[k]) <= MaxSends /\ Len(orders[k]) \in Nat
    BY DEF OrdersOK
  <2>2. orders'[k] = IF k = l THEN Append(orders[l], "pending") ELSE orders[k]
    BY <1>3 DEF OrdersOK
  <2> QED  BY <1>1, <1>2, <2>1, <2>2, Bounds
<1>6. Longer
  BY <1>5 DEF Longer, Latest
<1>7. Len(orders[l]) \in Nat /\ orders'[l] = Append(orders[l], "pending")
  BY <1>1, <1>3 DEF OrdersOK
<1>8. Latest(l)' > 0
  BY <1>2, <1>7 DEF Latest
<1> QED  BY <1>4, <1>5, <1>6, <1>8 DEF OrdersOK

\* The broker changes one order.
LEMMA OneOrderType ==
  ASSUME OrdersOK(orders), NEW o \in OrderId, StatusAt(o[1], o[2]) # "none",
         NEW status \in OrderState, orders' = [orders EXCEPT ![o[1]][o[2]] = status]
  PROVE  OrdersOK(orders') /\ Longer
<1>1. PICK l \in Leg, n \in 1 .. MaxSends : o = <<l, n>>
  BY DEF OrderId
<1>2. n \in DOMAIN orders[l] /\ orders[l] \in Seq(OrderState)
  BY <1>1 DEF StatusAt, OrdersOK
<1>3. /\ [orders[l] EXCEPT ![n] = status] \in Seq(OrderState)
      /\ Len([orders[l] EXCEPT ![n] = status]) = Len(orders[l])
  BY <1>2
<1>4. orders' = [orders EXCEPT ![l] = [orders[l] EXCEPT ![n] = status]]
  BY <1>1
<1>5. ASSUME NEW k \in Leg
      PROVE  orders'[k] \in Seq(OrderState) /\ Len(orders'[k]) = Len(orders[k]) /\ Len(orders[k]) \in Nat
  <2>1. orders[k] \in Seq(OrderState)
    BY DEF OrdersOK
  <2>2. orders'[k] = IF k = l THEN [orders[l] EXCEPT ![n] = status] ELSE orders[k]
    BY <1>4 DEF OrdersOK
  <2>3. Len(orders[k]) \in Nat
    BY <2>1
  <2> QED  BY <1>3, <2>1, <2>2, <2>3
<1>6. orders' \in [Leg -> Seq(OrderState)]
  BY <1>4, <1>3 DEF OrdersOK
<1>7. Longer
  BY <1>5 DEF Longer, Latest
<1> QED  BY <1>5, <1>6, <1>7 DEF OrdersOK

\* The broker does what one handler asks.
LEMMA WithdrawnLonger ==
  ASSUME OrdersOK(orders), NEW S, NEW P, orders' = Withdrawn(S, P)
  PROVE  OrdersOK(orders') /\ Longer
<1>1. \A l \in Leg : Latest(l)' = Latest(l) /\ Latest(l) \in Nat
  BY WithdrawnType DEF Latest, OrdersOK
<1> QED  BY <1>1, WithdrawnType DEF Longer

LEMMA SameLonger ==
  ASSUME OrdersOK(orders), UNCHANGED orders
  PROVE  OrdersOK(orders') /\ Longer
<1>1. \A l \in Leg : Latest(l)' = Latest(l) /\ Latest(l) \in Nat
  BY DEF Latest, OrdersOK
<1> QED  BY <1>1 DEF Longer

LEMMA LatestType == ASSUME OrdersOK(orders), NEW l \in Leg PROVE Latest(l) \in 0 .. MaxSends
BY Bounds DEF OrdersOK, Latest

\* Of the initial legs of the active direction there are at most N.
LEMMA InitialCount ==
  ASSUME RowsTyped, NEW s
  PROVE  /\ IsFiniteSet(ActiveInitial(s))
         /\ Cardinality(ActiveInitial(s)) \in 0 .. N
<1> DEFINE A == ActiveInitial(s)
           f == [l \in A |-> l[3]]
<1>1. \A l \in A : l = <<"INITIAL", job.active, l[3], 0>> /\ l[3] \in 1 .. N
  BY DEF ActiveInitial, With, Initial, Towards, Leg
<1>2. f \in Injection(A, 1 .. N)
  BY <1>1 DEF Injection, IsInjective
<1>3. IsFiniteSet(1 .. N) /\ Cardinality(1 .. N) = N
  BY FS_Interval, Bounds
<1>4. IsFiniteSet(A) /\ Cardinality(A) <= N
  BY <1>2, <1>3, FS_Injection
<1> QED  BY <1>4, FS_CardinalityType, Bounds

LEMMA RestType ==
  /\ Down \in Runtime /\ Started \in Runtime /\ Clear \in Syncing
  /\ ~Down.sent /\ ~Started.sent /\ Clear.at = "no"
<1>1. /\ 1 \in 1 .. 2 * N + 1 /\ 2 * N + 1 \in 1 .. 2 * N + 1
      /\ 1 \in 1 .. N + 1 /\ 0 \in 0 .. N /\ 0 \in 0 .. N - 1
  BY Bounds
<1>2. {} \in SUBSET OrderId /\ {} \in SUBSET Leg
  OBVIOUS
<1>3. Down \in Runtime /\ ~Down.sent
  BY <1>1, <1>2 DEF Down, Runtime
<1>4. Started \in Runtime /\ ~Started.sent
  BY <1>1, <1>3 DEF Started, Down, Runtime
<1>5. Clear \in Syncing /\ Clear.at = "no"
  BY <1>1, <1>2 DEF Clear, Syncing, Direction
<1> QED  BY <1>3, <1>4, <1>5

\* What is left of a Runtime that is dropped.
LEMMA LeftType ==
  ASSUME RunTyped
  PROVE  /\ Left \in Runtime /\ Left.sent = run.sent /\ Left.placing = run.placing /\ ~Left.up
         /\ Left.expiring = run.expiring /\ Left.open = run.open /\ Left.filled = run.filled
<1>1. run \in Runtime /\ {} \in SUBSET OrderId
  BY DEF RunTyped
<1> QED  BY <1>1 DEF Runtime, Left

LEMMA HereType ==
  ASSUME RunTyped, run.placing <= 2 * N
  PROVE  Here \in Leg /\ Initial(Here)
<1>1. run.placing \in 1 .. 2 * N
  BY Bounds DEF RunTyped, Runtime
<1> QED  BY <1>1, InitialLegType DEF Here

LEMMA ThereType ==
  ASSUME SyncTyped, sync.next <= sync.size
  PROVE  There \in Leg /\ ~Initial(There)
<1>1. sync.next \in 1 .. N /\ sync.to \in Direction /\ sync.revision \in 0 .. N - 1
  BY Bounds DEF SyncTyped, Syncing
<1> QED  BY <1>1, ReversalLegType DEF There

LEMMA InboxHead ==
  ASSUME inbox \in Seq(Message), inbox # <<>>
  PROVE  /\ Head(inbox) \in Message /\ Tail(inbox) \in Seq(Message)
         /\ Head(inbox).leg \in Leg /\ Head(inbox).n \in 1 .. MaxSends
         /\ Head(inbox).kind \in {"fill", "CLOSED_TP", "CLOSED_SL"}
         /\ <<Head(inbox).leg, Head(inbox).n>> \in OrderId
<1>1. Head(inbox) \in Message /\ Tail(inbox) \in Seq(Message)
  BY HeadTailProperties
<1> QED  BY <1>1 DEF Message, OrderId

LEMMA NoMessages == <<>> \in Seq(Message)
BY EmptySeq

\* The fields of one row.
LEMMA RowFields ==
  ASSUME RowsTyped, NEW l \in Leg
  PROVE  /\ leg[l] \in Row /\ leg[l].status \in LegStatus
         /\ leg[l].order \in 0 .. MaxSends /\ leg[l].position \in 0 .. MaxSends
BY DEF RowsTyped, Row

-----------------------------------------------------------------------------
(* Every step keeps the types.                                             *)

LEMMA HereSent ==
  ASSUME TypeInv, OrdersOK(orders'), Longer, run'.sent => run.sent /\ run'.placing = run.placing
  PROVE  run'.sent => Latest(Here)' > 0
<1> SUFFICES ASSUME run'.sent PROVE Latest(Here)' > 0
  OBVIOUS
<1>1. run.sent /\ Here' = Here /\ Here \in Leg /\ Latest(Here) > 0
  BY HereType DEF TypeInv, SentOnes, Here, InitialLeg, RunTyped
<1>2. PICK h \in Leg : h = Here
  BY <1>1
<1>3. Latest(h)' >= Latest(h) /\ Latest(h) > 0 /\ Latest(Here)' = Latest(h)'
  BY <1>1, <1>2 DEF Longer, Latest
<1>4. Latest(h) \in Nat /\ Latest(h)' \in Nat
  BY DEF TypeInv, OrdersOK, Latest
<1> QED  BY <1>3, <1>4

LEMMA ThereSent ==
  ASSUME TypeInv, OrdersOK(orders'), Longer,
         sync'.at = "sent" => UNCHANGED sync
  PROVE  sync'.at = "sent" => Latest(There)' > 0
<1> SUFFICES ASSUME sync'.at = "sent" PROVE Latest(There)' > 0
  OBVIOUS
<1>1. sync.at = "sent" /\ There' = There /\ There \in Leg /\ Latest(There) > 0
  BY ThereType DEF TypeInv, SentOnes, There, SyncTyped
<1>2. PICK h \in Leg : h = There
  BY <1>1
<1>3. Latest(h)' >= Latest(h) /\ Latest(h) > 0 /\ Latest(There)' = Latest(h)'
  BY <1>1, <1>2 DEF Longer, Latest
<1>4. Latest(h) \in Nat /\ Latest(h)' \in Nat
  BY DEF TypeInv, OrdersOK, Latest
<1> QED  BY <1>3, <1>4

LEMMA TypePlace == ASSUME TypeInv, Place PROVE TypeInv'
<1> USE DEF TypeInv
<1>1. CASE PlaceInitial
  <2>1. Here \in Leg /\ Accepts(Here) /\ Sends(Here) /\ Here' = Here
    BY <1>1, HereType DEF PlaceInitial, Here, InitialLeg, RunTyped, Runtime
  <2>2. OrdersOK(orders') /\ Longer /\ Latest(Here)' > 0
    <3>1. PICK h \in Leg : h = Here
      BY <2>1
    <3>2. OrdersOK(orders') /\ Longer /\ Latest(h)' > 0
      BY <2>1, <3>1, SendsType
    <3> QED  BY <2>1, <3>1, <3>2 DEF Latest
  <2>3. leg' = [leg EXCEPT ![Here].status = "PLANNED"]
    BY <1>1 DEF PlaceInitial
  <2>4. RowsTyped'
    BY <1>1, <2>1, <2>3 DEF RowsTyped, Row, LegStatus, PlaceInitial
  <2>5. RunTyped'
    BY <1>1 DEF PlaceInitial, RunTyped, Runtime
  <2>6. UNCHANGED <<sync, inbox, clock, events, trouble, slipped, handling, forgotten>>
    BY <1>1 DEF PlaceInitial, Steady, Quiet, Still
  <2>7. SentOnes'
    BY <2>2, <2>6, ThereSent DEF SentOnes
  <2> QED  BY <2>2, <2>4, <2>5, <2>6, <2>7 DEF SyncTyped, Scalars, HandsTyped
<1>2. CASE RecordInitial
  <2>1. run.placing <= 2 * N /\ Here \in Leg
    BY <1>2, HereType DEF RecordInitial, RunTyped
  <2>2. Latest(Here) \in 1 .. MaxSends
    BY <1>2, <2>1, LatestType DEF SentOnes, RecordInitial
  <2>3. leg' = [leg EXCEPT ![Here].status = "SUBMITTED", ![Here].order = Latest(Here)]
        /\ job' = Moved({"ARMED", "SUBMITTED"}, "SUBMITTED")
    BY <1>2 DEF RecordInitial, Submitted
  <2>4. job' \in Job
    BY <2>3, MovedType DEF JobStatus
  <2>5. RowsTyped'
    <3>1. PICK h \in Leg, n \in 0 .. MaxSends : h = Here /\ n = Latest(Here)
      BY <2>1, <2>2
    <3>2. leg' = [leg EXCEPT ![h] = [leg[h] EXCEPT !.status = "SUBMITTED", !.order = n]]
      BY <2>3, <3>1 DEF RowsTyped
    <3>3. [leg[h] EXCEPT !.status = "SUBMITTED", !.order = n] \in Row
      BY RowFields DEF Row, LegStatus
    <3> QED  BY <2>4, <3>2, <3>3 DEF RowsTyped
  <2>6. UNCHANGED <<orders, sync, inbox, clock, events, trouble, slipped, handling, forgotten>>
    BY <1>2 DEF RecordInitial, Steady, Quiet, Still
  <2>7. RunTyped' /\ ~run'.sent
    <3>1. /\ run.known \cup {<<Here, Latest(Here)>>} \in SUBSET OrderId
          /\ run.placing + 1 \in 1 .. 2 * N + 1
          /\ (run.placing = 2 * N /\ run.up) \in BOOLEAN
      BY <2>1, <2>2, Bounds DEF RunTyped, Runtime, OrderId
    <3>2. run' = [run EXCEPT !.sent = FALSE, !.placing = run.placing + 1,
                             !.known = run.known \cup {<<Here, Latest(Here)>>},
                             !.expiry = run.placing = 2 * N /\ run.up,
                             !.management = run.placing = 2 * N /\ run.up]
      BY <1>2 DEF RecordInitial
    <3> QED  BY <3>1, <3>2 DEF RunTyped, Runtime
  <2>8. OrdersOK(orders') /\ Longer
    BY <2>6, SameLonger
  <2>9. SentOnes'
    BY <2>6, <2>7, <2>8, ThereSent DEF SentOnes
  <2> QED  BY <2>5, <2>6, <2>7, <2>8, <2>9 DEF SyncTyped, Scalars, HandsTyped
<1>3. CASE StartFails \/ StartLetGo
  <2>1. OrdersOK(orders') /\ Longer
    BY <1>3, WithdrawnLonger, SameLonger DEF StartFails, StartLetGo
  <2>2. job' \in Job
    BY <1>3, MovedType DEF StartFails, StartLetGo, rows, RowsTyped, JobStatus, Terminal
  <2>3. trouble' \in 0 .. MaxTrouble
    BY <1>3, Bounds DEF StartFails, StartLetGo, Scalars
  <2>4. inbox' \in Seq(Message)
    BY <1>3, NoMessages DEF StartFails, StartLetGo
  <2>5. RunTyped' /\ ~run'.sent
    <3>1. run' = [Left EXCEPT !.placing = 2 * N + 1, !.sent = FALSE]
      BY <1>3 DEF StartFails, StartLetGo
    <3>2. 2 * N + 1 \in 1 .. 2 * N + 1
      BY Bounds
    <3> QED  BY <3>1, <3>2, LeftType DEF RunTyped, Runtime
  <2>6. UNCHANGED <<clock, events, leg, sync, handling, forgotten>> /\ slipped' = TRUE
    BY <1>3 DEF StartFails, StartLetGo, rows
  <2>7. SentOnes'
    BY <2>1, <2>5, <2>6, ThereSent DEF SentOnes
  <2> QED  BY <2>1, <2>2, <2>3, <2>4, <2>5, <2>6, <2>7 DEF RowsTyped, SyncTyped, Scalars, HandsTyped
<1> QED  BY <1>1, <1>2, <1>3 DEF Place

LEMMA TurnedType ==
  ASSUME NEW l \in Leg, NEW j \in Job
  PROVE  Turned(l, j) \in Job
<1>1. Towards(l) \in Direction
  BY DEF Leg, Towards
<1>2. CASE Initial(l) /\ j.active = "none"
  BY <1>1, <1>2 DEF Turned, Job
<1>3. CASE ~Initial(l) /\ j.count = 0
  <2>1. Turned(l, j) = [j EXCEPT !.active = Towards(l), !.count = 1, !.state = "REVERSAL_ACTIVE"]
    BY <1>3 DEF Turned
  <2>2. 1 \in 0 .. 1
    OBVIOUS
  <2> QED  BY <1>1, <2>1, <2>2 DEF Job
<1>4. CASE ~(Initial(l) /\ j.active = "none") /\ ~(~Initial(l) /\ j.count = 0)
  BY <1>4 DEF Turned
<1> QED  BY <1>2, <1>3, <1>4

\* The steps that change no order.
LEMMA TypeInside ==
  ASSUME TypeInv, UNCHANGED <<orders, clock, events>>, inbox' \in Seq(Message),
         RowsTyped', RunTyped', SyncTyped', HandsTyped',
         trouble' \in 0 .. MaxTrouble, slipped' \in BOOLEAN,
         run'.sent => run.sent /\ run'.placing = run.placing,
         sync'.at = "sent" => UNCHANGED sync
  PROVE  TypeInv'
<1> USE DEF TypeInv
<1>1. OrdersOK(orders') /\ Longer
  BY SameLonger
<1>2. SentOnes'
  BY <1>1, HereSent, ThereSent DEF SentOnes
<1> QED  BY <1>1, <1>2 DEF Scalars

LEMMA HandlerType ==
  ASSUME NEW h \in Handler
  PROVE  /\ h.leg \in Leg /\ h.n \in 1 .. MaxSends /\ h.kind \in {"fill", "CLOSED_TP", "CLOSED_SL"}
         /\ h.at \in {"status", "find", "write", "turn", "arm", "end"}
         /\ <<h.leg, h.n>> \in OrderId
BY DEF Handler, OrderId

LEMMA StageType ==
  ASSUME NEW h \in Handler,
         NEW at \in (IF h.kind = "fill" THEN {"status", "find", "write", "turn", "arm"}
                                        ELSE {"find", "write", "arm", "end"})
  PROVE  /\ [h EXCEPT !.at = at] \in Handler
         /\ [h EXCEPT !.at = at].leg = h.leg /\ [h EXCEPT !.at = at].n = h.n
         /\ [h EXCEPT !.at = at].kind = h.kind /\ [h EXCEPT !.at = at].at = at
<1>1. CASE h.kind = "fill"
  <2>1. h \in [kind : {"fill"}, leg : Leg, n : 1 .. MaxSends,
               at : {"status", "find", "write", "turn", "arm"}]
    BY <1>1 DEF Handler
  <2> QED  BY <1>1, <2>1 DEF Handler
<1>2. CASE h.kind # "fill"
  <2>1. h \in [kind : {"CLOSED_TP", "CLOSED_SL"}, leg : Leg, n : 1 .. MaxSends,
               at : {"find", "write", "arm", "end"}]
    BY <1>2 DEF Handler
  <2> QED  BY <1>2, <2>1 DEF Handler
<1> QED  BY <1>1, <1>2

LEMMA GoesType ==
  ASSUME HandsTyped, NEW h \in handling,
         NEW at \in (IF h.kind = "fill" THEN {"status", "find", "write", "turn", "arm"}
                                        ELSE {"find", "write", "arm", "end"}),
         Goes(h, at)
  PROVE  handling' \subseteq Handler
<1>1. h \in Handler
  BY DEF HandsTyped
<1> QED  BY <1>1, StageType DEF Goes, HandsTyped

LEMMA TypeReceive == ASSUME TypeInv, Receive PROVE TypeInv'
<1> USE DEF TypeInv
<1>1. PICK m \in Message : m = Head(inbox)
  BY InboxHead DEF Receive
<1>2. /\ inbox' = Tail(inbox) /\ inbox # <<>>
      /\ UNCHANGED <<job, leg, orders, sync, slipped, forgotten, clock, events, trouble>>
  BY DEF Receive, Still, rows
<1>3. inbox' \in Seq(Message)
  BY <1>2, InboxHead
<1>4. RunTyped' /\ run'.sent = run.sent /\ run'.placing = run.placing
  <2>1. \/ run' = [run EXCEPT !.filled = TRUE]
        \/ run' = [run EXCEPT !.open = run.open \ {<<m.leg, m.n>>}]
    BY <1>1 DEF Receive
  <2>2. run \in Runtime /\ run.open \ {<<m.leg, m.n>>} \in SUBSET OrderId
    BY DEF RunTyped, Runtime
  <2> QED  BY <2>1, <2>2 DEF RunTyped, Runtime
<1>5. HandsTyped'
  <2>1. /\ m.leg \in Leg /\ m.n \in 1 .. MaxSends /\ m.kind \in {"fill", "CLOSED_TP", "CLOSED_SL"}
    BY DEF Message
  <2>2. m.kind = "fill" => [kind |-> m.kind, leg |-> m.leg, n |-> m.n, at |-> "status"] \in Handler
    BY <2>1 DEF Handler
  <2>3. m.kind # "fill" => [kind |-> m.kind, leg |-> m.leg, n |-> m.n, at |-> "find"] \in Handler
    BY <2>1 DEF Handler
  <2>4. handling' \subseteq Handler
    BY <1>1, <2>2, <2>3 DEF Receive, HandsTyped
  <2> QED  BY <1>2, <2>4 DEF HandsTyped
<1> QED  BY <1>2, <1>3, <1>4, <1>5, TypeInside DEF RowsTyped, SyncTyped, Scalars

LEMMA TypeHandle == ASSUME TypeInv, NEW h \in handling PROVE
    /\ FillStatus(h) => TypeInv'
    /\ FillFinds(h) => TypeInv'
    /\ FillWrites(h) => TypeInv'
    /\ FillTurns(h) => TypeInv'
<1> USE DEF TypeInv
<1>0. /\ h \in Handler /\ h.leg \in Leg /\ h.n \in 1 .. MaxSends /\ h.n \in 0 .. MaxSends
      /\ <<h.leg, h.n>> \in OrderId /\ run \in Runtime
  BY HandlerType, Bounds DEF HandsTyped, RunTyped
<1>1. ASSUME FillStatus(h) PROVE TypeInv'
  <2>1. /\ UNCHANGED <<leg, run, slipped, orders, sync, inbox, forgotten, clock, events, trouble>>
        /\ h.kind = "fill" /\ Goes(h, "find")
        /\ job' = Moved({"ARMED", "SUBMITTED", "PARTIALLY_FILLED"}, "FILLED")
    BY <1>1 DEF FillStatus, Handles, Still
  <2>2. HandsTyped'
    BY <2>1, GoesType DEF HandsTyped
  <2>3. job' \in Job
    BY <2>1, MovedType DEF JobStatus
  <2> QED  BY <2>1, <2>2, <2>3, TypeInside DEF RowsTyped, RunTyped, SyncTyped, Scalars
<1>2. ASSUME FillFinds(h) PROVE TypeInv'
  <2>1. /\ UNCHANGED <<job, leg, orders, sync, inbox, forgotten, clock, events, trouble>>
        /\ h.kind = "fill" /\ (Goes(h, "write") \/ Goes(h, "arm"))
        /\ run' = [run EXCEPT !.open = run.open \cup {<<h.leg, h.n>>}]
        /\ slipped' \in BOOLEAN
    BY <1>2 DEF FillFinds, Handles, Still, rows, Scalars
  <2>2. HandsTyped'
    BY <2>1, GoesType DEF HandsTyped
  <2>3. RunTyped' /\ run'.sent = run.sent /\ run'.placing = run.placing
    <3>1. run.open \cup {<<h.leg, h.n>>} \in SUBSET OrderId
      BY <1>0 DEF Runtime
    <3> QED  BY <1>0, <2>1, <3>1 DEF RunTyped, Runtime
  <2> QED  BY <2>1, <2>2, <2>3, TypeInside DEF RowsTyped, SyncTyped, Scalars
<1>3. ASSUME FillWrites(h) PROVE TypeInv'
  <2>1. /\ UNCHANGED <<job, run, slipped, orders, sync, inbox, forgotten, clock, events, trouble>>
        /\ h.kind = "fill" /\ Goes(h, "turn")
        /\ leg' = [leg EXCEPT ![h.leg].status = "FILLED", ![h.leg].position = h.n]
    BY <1>3 DEF FillWrites, Handles, Still
  <2>2. HandsTyped'
    BY <2>1, GoesType DEF HandsTyped
  <2>3. leg' \in [Leg -> Row]
    <3>1. PICK l \in Leg : l = h.leg
      BY <1>0
    <3>2. [leg[l] EXCEPT !.status = "FILLED", !.position = h.n] \in Row
      BY <1>0, RowFields DEF Row, LegStatus
    <3>3. leg' = [leg EXCEPT ![l] = [leg[l] EXCEPT !.status = "FILLED", !.position = h.n]]
      BY <2>1, <3>1 DEF RowsTyped
    <3> QED  BY <3>2, <3>3 DEF RowsTyped
  <2> QED  BY <2>1, <2>2, <2>3, TypeInside DEF RowsTyped, RunTyped, SyncTyped, Scalars
<1>4. ASSUME FillTurns(h) PROVE TypeInv'
  <2>1. /\ UNCHANGED <<leg, run, slipped, orders, sync, inbox, forgotten, clock, events, trouble>>
        /\ h.kind = "fill" /\ Goes(h, "arm") /\ job' = Turned(h.leg, job)
    BY <1>4 DEF FillTurns, Handles, Still
  <2>2. HandsTyped'
    BY <2>1, GoesType DEF HandsTyped
  <2>3. job' \in Job
    BY <1>0, <2>1, TurnedType DEF RowsTyped
  <2> QED  BY <2>1, <2>2, <2>3, TypeInside DEF RowsTyped, RunTyped, SyncTyped, Scalars
<1> QED  BY <1>1, <1>2, <1>3, <1>4

LEMMA TypeClosed == ASSUME TypeInv, NEW h \in handling PROVE
    /\ CloseFinds(h) => TypeInv'
    /\ CloseWrites(h) => TypeInv'
    /\ Arms(h) => TypeInv'
    /\ CloseEnds(h) => TypeInv'
<1> USE DEF TypeInv
<1>0. h \in Handler /\ run \in Runtime
  BY DEF HandsTyped, RunTyped
<1>1. ASSUME CloseFinds(h) PROVE TypeInv'
  <2>1. /\ UNCHANGED <<job, leg, run, orders, sync, inbox, forgotten, clock, events, trouble>>
        /\ h.kind # "fill" /\ (Goes(h, "write") \/ Goes(h, "arm")) /\ slipped' \in BOOLEAN
    BY <1>1 DEF CloseFinds, Handles, Still, rows, Scalars
  <2>2. HandsTyped'
    BY <2>1, GoesType DEF HandsTyped
  <2> QED  BY <2>1, <2>2, TypeInside DEF RowsTyped, RunTyped, SyncTyped, Scalars
<1>2. ASSUME CloseWrites(h) PROVE TypeInv'
  <2>1. /\ UNCHANGED <<job, run, slipped, orders, sync, inbox, forgotten, clock, events, trouble>>
        /\ h.kind # "fill" /\ Goes(h, "arm") /\ leg' = Marked({h.leg}, h.kind)
    BY <1>2 DEF CloseWrites, Handles, Still
  <2>2. HandsTyped'
    BY <2>1, GoesType DEF HandsTyped
  <2>3. h.kind \in LegStatus
    BY <1>0, <2>1, HandlerType DEF LegStatus
  <2>4. leg' \in [Leg -> Row]
    BY <2>1, <2>3, MarkedType
  <2> QED  BY <2>1, <2>2, <2>4, TypeInside DEF RowsTyped, RunTyped, SyncTyped, Scalars
<1>3. ASSUME Arms(h) PROVE TypeInv'
  <2>1. /\ UNCHANGED <<job, leg, slipped, orders, sync, inbox, forgotten, clock, events, trouble>>
        /\ run' = [run EXCEPT !.timer = run.up]
    BY <1>3 DEF Arms, Handles, Still, rows
  <2>2. HandsTyped'
    <3>1. CASE h.kind = "fill"
      BY <1>3, <2>1, <3>1 DEF Arms, HandsTyped
    <3>2. CASE h.kind # "fill"
      BY <1>3, <2>1, <3>2, GoesType DEF Arms, HandsTyped
    <3> QED  BY <3>1, <3>2
  <2>3. RunTyped' /\ run'.sent = run.sent /\ run'.placing = run.placing
    BY <1>0, <2>1 DEF RunTyped, Runtime
  <2> QED  BY <2>1, <2>2, <2>3, TypeInside DEF RowsTyped, SyncTyped, Scalars
<1>4. ASSUME CloseEnds(h) PROVE TypeInv'
  <2>1. /\ UNCHANGED <<leg, slipped, orders, sync, forgotten, clock, events, trouble>>
        /\ handling' \subseteq handling
        /\ \/ job' = Moved(Holding \cup {"CLOSED"}, "CLOSED") /\ run' = Left /\ inbox' = <<>>
           \/ UNCHANGED <<job, run, inbox>>
    BY <1>4 DEF CloseEnds, Still
  <2>2. HandsTyped'
    BY <2>1 DEF HandsTyped
  <2>3. job' \in Job
    BY <2>1, MovedType DEF JobStatus, Terminal, RowsTyped
  <2>4. RunTyped' /\ run'.sent = run.sent /\ run'.placing = run.placing
    BY <2>1, LeftType DEF RunTyped
  <2>5. inbox' \in Seq(Message)
    BY <2>1, NoMessages
  <2> QED  BY <2>1, <2>2, <2>3, <2>4, <2>5, TypeInside DEF RowsTyped, SyncTyped, Scalars
<1> QED  BY <1>1, <1>2, <1>3, <1>4

\* What completeNewsReversal leaves.
LEMMA TypeCompletes ==
  ASSUME TypeInv, NEW closing, Completes(closing)
  PROVE  TypeInv'
<1> USE DEF TypeInv
<1>1. /\ orders' = Withdrawn(OrderOf(Cancellable(With("SUBMITTED"))), closing)
      /\ leg' = Marked(Cancellable(With("SUBMITTED")), "CANCELLED")
      /\ job' = [job EXCEPT !.status = "CLOSED", !.state = "COMPLETED"]
      /\ run' = Left
      /\ inbox' = <<>> /\ UNCHANGED <<sync, clock, events, trouble, slipped, handling, forgotten>>
  BY DEF Completes, Steady, Quiet, Still
<1>2. OrdersOK(orders') /\ Longer
  BY <1>1, WithdrawnLonger
<1>3. RowsTyped'
  <2>1. leg' \in [Leg -> Row]
    BY <1>1, MarkedType DEF LegStatus
  <2>2. job' \in Job
    BY <1>1 DEF RowsTyped, Job, JobStatus, Terminal
  <2> QED  BY <2>1, <2>2 DEF RowsTyped
<1>4. RunTyped' /\ run'.sent = run.sent /\ run'.placing = run.placing
  BY <1>1, LeftType DEF RunTyped
<1>5. inbox' \in Seq(Message)
  BY <1>1, NoMessages
<1>6. SentOnes'
  BY <1>1, <1>2, <1>4, HereSent, ThereSent DEF SentOnes
<1> QED  BY <1>1, <1>2, <1>3, <1>4, <1>5, <1>6 DEF SyncTyped, Scalars, HandsTyped

LEMMA OnwardsType ==
  ASSUME SyncTyped
  PROVE  Onwards \in Syncing /\ Onwards.at \in {"place", "no"}
<1>1. sync \in Syncing /\ {} \in SUBSET Leg
  BY DEF SyncTyped
<1>2. [sync EXCEPT !.at = "place", !.close = {}, !.mark = {}] \in Syncing
      /\ [sync EXCEPT !.at = "place", !.close = {}, !.mark = {}].at = "place"
  BY <1>1 DEF Syncing
<1> QED  BY <1>2, RestType DEF Onwards

LEMMA WithType == \A s : With(s) \in SUBSET Leg
BY DEF With

\* The timer of a sync fires and sets it none.
LEMMA TypeTimer ==
  ASSUME TypeInv, SyncSkipped \/ SyncIdle \/ SyncReversed \/ SyncSize
  PROVE  TypeInv'
<1> USE DEF TypeInv
<1>0. /\ run \in Runtime /\ sync \in Syncing /\ slipped \in BOOLEAN /\ trouble \in 0 .. MaxTrouble
      /\ N \in Nat \ {0}
  BY Bounds DEF RunTyped, SyncTyped, Scalars
<1>1. /\ UNCHANGED <<job, leg, orders, inbox, handling, forgotten, clock, events, trouble>>
      /\ slipped' \in BOOLEAN
  BY <1>0 DEF SyncSkipped, SyncIdle, SyncReversed, SyncSize, Steady, Quiet, Still, rows
<1>2. RunTyped' /\ run'.sent = run.sent /\ run'.placing = run.placing
  <2>1. (run.sized \/ ~Reversed) \in BOOLEAN
    OBVIOUS
  <2>2. \/ run' = [run EXCEPT !.timer = FALSE]
        \/ run' = [run EXCEPT !.timer = FALSE, !.sized = run.sized \/ ~Reversed]
    BY DEF SyncSkipped, SyncIdle, SyncReversed, SyncSize, Begins
  <2> QED  BY <1>0, <2>1, <2>2 DEF RunTyped, Runtime
<1>3. SyncTyped' /\ (sync'.at = "sent" => UNCHANGED sync)
  <2>1. CASE SyncSkipped \/ SyncIdle
    BY <2>1 DEF SyncSkipped, SyncIdle, SyncTyped
  <2>2. CASE SyncReversed
    <3>1. /\ {l \in With("SUBMITTED") : Initial(l)} \in SUBSET Leg
          /\ {l \in With("FILLED") : Towards(l) # job.active} \in SUBSET Leg
      BY WithType
    <3> QED  BY <2>2, <3>1, RestType DEF SyncReversed, SyncTyped, Syncing
  <2>3. CASE SyncSize
    <3>1. /\ With("SUBMITTED") \in SUBSET Leg /\ {} \in SUBSET Leg
          /\ {l \in With("FILLED") : Initial(l) /\ Towards(l) # job.active} \in SUBSET Leg
      BY WithType
    <3>2. /\ Size \in 0 .. N /\ ClosedTargets \in 0 .. N - 1 /\ 1 \in 1 .. N + 1
      BY <1>0, <2>3, InitialCount DEF Size, ClosedTargets, SyncSize
    <3>3. Opposite(job.active) \in Direction
      BY <2>3, OppositeType DEF SyncSize, Begins, RowsTyped, Job
    <3>4. sync' = [at |-> "clear", cancel |-> With("SUBMITTED"),
              close |-> {l \in With("FILLED") : Initial(l) /\ Towards(l) # job.active}, mark |-> {},
              next |-> 1, size |-> Size, to |-> Opposite(job.active),
              revision |-> ClosedTargets]
      BY <2>3 DEF SyncSize
    <3>5. sync' \in Syncing
      BY <3>1, <3>2, <3>3, <3>4 DEF Syncing
    <3> QED  BY <3>4, <3>5 DEF SyncTyped
  <2> QED  BY <2>1, <2>2, <2>3
<1> QED  BY <1>1, <1>2, <1>3, TypeInside DEF RowsTyped, HandsTyped, Scalars

LEMMA TypeClearing ==
  ASSUME TypeInv, SyncClear \/ SyncCloses \/ SyncMarks
  PROVE  TypeInv'
<1> USE DEF TypeInv
<1>0. /\ sync \in Syncing /\ slipped \in BOOLEAN
  BY DEF SyncTyped, Scalars
<1>1. /\ UNCHANGED <<job, run, handling, forgotten, clock, events, trouble>> /\ slipped' \in BOOLEAN
  BY <1>0 DEF SyncClear, SyncCloses, SyncMarks, Steady, Quiet, Still, rows
<1>2. OrdersOK(orders') /\ Longer
  BY WithdrawnLonger, SameLonger DEF SyncClear, SyncCloses, SyncMarks
<1>3. leg' \in [Leg -> Row]
  <2>1. CASE SyncClear
    BY <2>1, MarkedType DEF SyncClear, LegStatus
  <2>2. CASE SyncCloses
    BY <2>2 DEF SyncCloses, rows, RowsTyped
  <2>3. CASE SyncMarks
    BY <2>3, MarkedType DEF SyncMarks, LegStatus
  <2> QED  BY <2>1, <2>2, <2>3
<1>4. SyncTyped' /\ sync'.at # "sent"
  <2>1. CASE sync' = Onwards
    BY <2>1, OnwardsType DEF SyncTyped
  <2>2. CASE sync' = [sync EXCEPT !.at = "close"]
    BY <1>0, <2>2 DEF SyncTyped, Syncing
  <2>3. ASSUME NEW l \in sync.close, sync' = [sync EXCEPT !.at = "mark", !.mark = {l}]
        PROVE  SyncTyped' /\ sync'.at # "sent"
    <3>1. {l} \in SUBSET Leg
      BY <1>0 DEF Syncing
    <3> QED  BY <1>0, <2>3, <3>1 DEF SyncTyped, Syncing
  <2>4. CASE sync' = [sync EXCEPT !.at = "close", !.close = sync.close \ sync.mark, !.mark = {}]
    <3>1. sync.close \ sync.mark \in SUBSET Leg /\ {} \in SUBSET Leg
      BY <1>0 DEF Syncing
    <3> QED  BY <1>0, <2>4, <3>1 DEF SyncTyped, Syncing
  <2> QED  BY <2>1, <2>2, <2>3, <2>4 DEF SyncClear, SyncCloses, SyncMarks
<1>5. inbox' \in Seq(Message)
  <2>1. CASE UNCHANGED inbox
    BY <2>1
  <2>2. ASSUME NEW l \in sync.close, NEW kind \in Closing, StatusAt(l, leg[l].position) = "open",
               inbox' = Append(inbox, [kind |-> kind, leg |-> l, n |-> leg[l].position])
        PROVE  inbox' \in Seq(Message)
    <3>1. l \in Leg
      BY <1>0 DEF Syncing
    <3>2. leg[l].position \in 1 .. MaxSends
      <4>1. leg[l].position \in 0 .. MaxSends /\ orders[l] \in Seq(OrderState)
        BY <3>1, RowFields DEF OrdersOK
      <4>2. leg[l].position \in DOMAIN orders[l]
        BY <2>2 DEF StatusAt
      <4> QED  BY <4>1, <4>2, Bounds
    <3>3. [kind |-> kind, leg |-> l, n |-> leg[l].position] \in Message
      BY <3>1, <3>2 DEF Message, Closing
    <3> QED  BY <2>2, <3>3, AppendProperties
  <2> QED  BY <2>1, <2>2 DEF SyncClear, SyncCloses, SyncMarks
<1>6. SentOnes'
  BY <1>1, <1>2, <1>4, HereSent DEF SentOnes
<1> QED  BY <1>1, <1>2, <1>3, <1>4, <1>5, <1>6 DEF RowsTyped, RunTyped, Scalars, HandsTyped

LEMMA ReplannedType ==
  ASSUME RowsTyped, NEW h
  PROVE  Replanned(h) \in [Leg -> Row]
<1>1. [status |-> "PLANNED", order |-> 0, position |-> 0] \in Row
  BY Bounds DEF Row, LegStatus
<1> QED  BY <1>1 DEF Replanned, RowsTyped

\* A leg planned again is a reversal leg.
LEMMA ForgetsType ==
  ASSUME HandsTyped, SyncTyped, sync.next <= sync.size, Forgets \/ UNCHANGED forgotten, UNCHANGED handling
  PROVE  HandsTyped'
<1>1. There \in Leg /\ ~Initial(There)
  BY ThereType
<1> QED  BY <1>1 DEF Forgets, HandsTyped

LEMMA TypePlacing ==
  ASSUME TypeInv, SyncPlace \/ SyncRecord \/ SyncFails \/ SyncEnd
  PROVE  TypeInv'
<1> USE DEF TypeInv
<1>0. /\ run \in Runtime /\ sync \in Syncing /\ slipped \in BOOLEAN /\ trouble \in 0 .. MaxTrouble
      /\ N \in Nat \ {0}
  BY Bounds DEF RunTyped, SyncTyped, Scalars
<1>1. CASE SyncPlace
  <2>1. PICK h \in Leg : h = There
    BY <1>1, ThereType DEF SyncPlace
  <2>2. /\ Accepts(h) /\ Sends(h) /\ leg' = Replanned(h)
        /\ sync' = [sync EXCEPT !.at = "sent"] /\ sync.next <= sync.size
        /\ UNCHANGED <<job, run, inbox, clock, events, trouble, slipped, handling>>
    BY <1>1, <2>1 DEF SyncPlace, Still
  <2>3. OrdersOK(orders') /\ Longer /\ Latest(h)' > 0
    BY <2>2, SendsType
  <2>4. leg' \in [Leg -> Row] /\ HandsTyped'
    BY <1>1, <2>2, ReplannedType, ForgetsType DEF SyncPlace
  <2>5. SyncTyped' /\ There' = There
    BY <2>2 DEF SyncTyped, Syncing, There
  <2>6. SentOnes'
    <3>1. Latest(There)' > 0
      BY <2>1, <2>3, <2>5 DEF Latest
    <3> QED  BY <2>2, <2>3, <3>1, HereSent DEF SentOnes
  <2> QED  BY <2>2, <2>3, <2>4, <2>5, <2>6 DEF RowsTyped, RunTyped, Scalars
<1>2. CASE SyncRecord
  <2>1. PICK h \in Leg, n \in 1 .. MaxSends : h = There /\ n = Latest(There)
    BY <1>2, ThereType, LatestType DEF SyncRecord, SyncTyped, SentOnes
  <2>2. /\ leg' = [leg EXCEPT ![h].status = "SUBMITTED", ![h].order = n]
        /\ job' = Moved({"ARMED", "SUBMITTED"}, "SUBMITTED")
        /\ run' = [run EXCEPT !.known = IF run.up THEN run.known \cup {<<h, n>>} ELSE run.known]
        /\ sync' = [sync EXCEPT !.at = "place", !.next = sync.next + 1]
        /\ UNCHANGED <<orders, inbox, clock, events, trouble, slipped, handling, forgotten>>
    BY <1>2, <2>1 DEF SyncRecord, Steady, Quiet, Still, Submitted
  <2>3. leg' \in [Leg -> Row]
    <3>1. leg' = [leg EXCEPT ![h] = [leg[h] EXCEPT !.status = "SUBMITTED", !.order = n]]
      BY <2>2 DEF RowsTyped
    <3>0. n \in 0 .. MaxSends
      BY Bounds
    <3>2. [leg[h] EXCEPT !.status = "SUBMITTED", !.order = n] \in Row
      BY <3>0, RowFields DEF Row, LegStatus
    <3> QED  BY <3>1, <3>2 DEF RowsTyped
  <2>4. job' \in Job
    BY <2>2, MovedType DEF JobStatus
  <2>5. RunTyped' /\ run'.sent = run.sent /\ run'.placing = run.placing
    <3>1. (IF run.up THEN run.known \cup {<<h, n>>} ELSE run.known) \in SUBSET OrderId
      BY DEF RunTyped, Runtime, OrderId
    <3> QED  BY <2>2, <3>1 DEF RunTyped, Runtime
  <2>6. SyncTyped' /\ sync'.at # "sent"
    <3>1. sync.next + 1 \in 1 .. N + 1
      BY <1>0, <1>2 DEF SyncRecord, SyncTyped, Syncing
    <3> QED  BY <2>2, <3>1 DEF SyncTyped, Syncing
  <2> QED  BY <1>0, <2>2, <2>3, <2>4, <2>5, <2>6, TypeInside DEF RowsTyped, HandsTyped
<1>3. CASE SyncFails
  <2>1. UNCHANGED <<clock, events, job, orders, run, inbox, handling>> /\ sync' = Clear /\ slipped' = TRUE
    BY <1>3 DEF SyncFails
  <2>2. trouble' \in 0 .. MaxTrouble
    BY <1>0, <1>3, Bounds DEF SyncFails
  <2>3. leg' \in [Leg -> Row] /\ HandsTyped'
    <3>1. CASE UNCHANGED <<leg, forgotten>>
      BY <2>1, <3>1 DEF RowsTyped, HandsTyped
    <3>2. CASE sync.next <= sync.size /\ leg' = Replanned(There) /\ Forgets
      BY <2>1, <3>2, ReplannedType, ForgetsType
    <3> QED  BY <1>3, <3>1, <3>2 DEF SyncFails
  <2>4. SyncTyped' /\ sync'.at # "sent"
    BY <2>1, RestType DEF SyncTyped
  <2> QED  BY <2>1, <2>2, <2>3, <2>4, TypeInside DEF RowsTyped, RunTyped
<1>4. CASE SyncEnd
  <2>1. /\ job' = [job EXCEPT !.status = "MANAGED",
                              !.state = IF sync.revision = 0 THEN "INITIAL" ELSE "PROTECTED"]
        /\ sync' = Clear
        /\ UNCHANGED <<leg, orders, run, inbox, clock, events, trouble, slipped, handling, forgotten>>
    BY <1>4 DEF SyncEnd, Steady, Quiet, Still
  <2>2. job' \in Job
    BY <2>1 DEF RowsTyped, Job, JobStatus
  <2>3. SyncTyped' /\ sync'.at # "sent"
    BY <2>1, RestType DEF SyncTyped
  <2> QED  BY <1>0, <2>1, <2>2, <2>3, TypeInside DEF RowsTyped, RunTyped, HandsTyped
<1> QED  BY <1>1, <1>2, <1>3, <1>4

LEMMA TypeSync == ASSUME TypeInv, Sync PROVE TypeInv'
BY TypeTimer, TypeClearing, TypePlacing, TypeCompletes DEF Sync, SyncComplete

LEMMA TypeTimers == ASSUME TypeInv, Expire \/ ExpireEnds \/ ExpireManagement PROVE TypeInv'
<1> USE DEF TypeInv
<1>0. run \in Runtime /\ slipped \in BOOLEAN
  BY DEF RunTyped, Scalars
<1>1. CASE Expire
  <2>1. UNCHANGED <<job, sync, inbox, clock, events, trouble, slipped, handling, forgotten>>
    BY <1>1 DEF Expire, Steady, Quiet, Still
  <2>2. OrdersOK(orders') /\ Longer
    BY <1>1, WithdrawnLonger DEF Expire
  <2>3. RowsTyped'
    <3>1. leg' \in [Leg -> Row]
      BY <1>1, MarkedType DEF Expire, LegStatus, RowsTyped
    <3> QED  BY <2>1, <3>1 DEF RowsTyped
  <2>4. RunTyped' /\ (run'.sent => run.sent /\ run'.placing = run.placing)
    <3>1. \/ run' = [run EXCEPT !.expiry = FALSE]
          \/ run' = [run EXCEPT !.expiry = FALSE, !.expiring = TRUE]
      BY <1>1 DEF Expire
    <3> QED  BY <1>0, <3>1 DEF RunTyped, Runtime
  <2>5. SentOnes'
    BY <2>1, <2>2, <2>4, HereSent, ThereSent DEF SentOnes
  <2> QED  BY <2>1, <2>2, <2>3, <2>4, <2>5 DEF SyncTyped, Scalars, HandsTyped
<1>2. CASE ExpireEnds
  <2>1. /\ UNCHANGED <<leg, orders, sync, clock, events, trouble, handling, forgotten>>
        /\ slipped' \in BOOLEAN
    BY <1>0, <1>2 DEF ExpireEnds, Quiet, Still, Runtime
  <2>2. job' \in Job
    BY <1>2, MovedType DEF ExpireEnds, JobStatus, Terminal, RowsTyped
  <2>3. inbox' \in Seq(Message)
    BY <1>2, NoMessages DEF ExpireEnds
  <2>4. RunTyped' /\ (run'.sent => run.sent /\ run'.placing = run.placing)
    <3>1. \/ run' = [Left EXCEPT !.expiring = FALSE]
          \/ run' = [run EXCEPT !.expiring = FALSE]
      BY <1>2 DEF ExpireEnds
    <3> QED  BY <1>0, <3>1, LeftType DEF RunTyped, Runtime
  <2> QED  BY <2>1, <2>2, <2>3, <2>4, TypeInside DEF RowsTyped, SyncTyped, HandsTyped, Scalars
<1>3. CASE ExpireManagement
  BY <1>3, TypeCompletes DEF ExpireManagement
<1> QED  BY <1>1, <1>2, <1>3

LEMMA TypeStarts ==
  ASSUME TypeInv, Restarts \/ Disconnects \/ Recover \/ StartOver
  PROVE  TypeInv'
<1> USE DEF TypeInv
<1>0. slipped \in BOOLEAN
  BY DEF Scalars
<1>1. CASE Restarts
  <2>1. /\ UNCHANGED <<clock, events, job, leg, orders, forgotten>> /\ slipped' \in BOOLEAN
        /\ run' = Down /\ sync' = Clear /\ inbox' = <<>> /\ handling' = {}
    BY <1>0, <1>1 DEF Restarts, rows
  <2>2. trouble' \in 0 .. MaxTrouble
    BY <1>1, Bounds DEF Restarts, Scalars
  <2>3. RunTyped' /\ ~run'.sent /\ SyncTyped' /\ sync'.at # "sent"
    BY <2>1, RestType DEF RunTyped, SyncTyped
  <2> QED  BY <2>1, <2>2, <2>3, NoMessages, TypeInside DEF RowsTyped, HandsTyped
<1>2. CASE Disconnects
  <2>1. /\ UNCHANGED <<clock, events, job, leg, orders, sync, handling, slipped, forgotten>>
        /\ run' = Left /\ inbox' = <<>>
    BY <1>2 DEF Disconnects, rows
  <2>2. trouble' \in 0 .. MaxTrouble
    BY <1>2, Bounds DEF Disconnects, Scalars
  <2>3. RunTyped' /\ run'.sent = run.sent /\ run'.placing = run.placing
    BY <2>1, LeftType DEF RunTyped
  <2> QED  BY <1>0, <2>1, <2>2, <2>3, NoMessages, TypeInside DEF RowsTyped, HandsTyped, SyncTyped
<1>3. CASE Recover
  <2>1. UNCHANGED <<job, orders, sync, inbox, clock, events, trouble, handling, forgotten>>
    BY <1>3 DEF Recover, Quiet, Still
  <2>2. RowsTyped'
    <3>1. ASSUME NEW l \in Leg
          PROVE  /\ [leg[l] EXCEPT !.status = "FILLED", !.position = leg[l].order] \in Row
                 /\ [leg[l] EXCEPT !.status = "SUBMITTED"] \in Row /\ leg[l] \in Row
      BY RowFields DEF Row, LegStatus
    <3>2. leg' \in [Leg -> Row]
      BY <1>3, <3>1 DEF Recover
    <3> QED  BY <2>1, <3>2 DEF RowsTyped
  <2>3. RunTyped' /\ ~run'.sent
    <3>1. /\ AtBroker({"pending"}) \in SUBSET OrderId /\ AtBroker({"open"}) \in SUBSET OrderId
          /\ (AtBroker({"open"}) # {}) \in BOOLEAN
      BY DEF AtBroker
    <3>2. run' = [Down EXCEPT !.up = TRUE, !.filled = AtBroker({"open"}) # {},
                     !.known = AtBroker({"pending"}), !.open = AtBroker({"open"}),
                     !.expiry = TRUE, !.management = TRUE, !.timer = TRUE]
      BY <1>3 DEF Recover
    <3>3. run' \in Runtime
      BY <3>1, <3>2, RestType DEF Runtime
    <3>4. ~run'.sent
      BY <3>2 DEF Down
    <3> QED  BY <3>3, <3>4 DEF RunTyped
  <2>4. slipped' \in BOOLEAN
    BY <1>3 DEF Recover, Scalars
  <2>5. trouble' \in 0 .. MaxTrouble
    BY <2>1 DEF Scalars
  <2>6. SyncTyped' /\ HandsTyped'
    BY <2>1 DEF SyncTyped, HandsTyped
  <2> QED  BY <2>1, <2>2, <2>3, <2>4, <2>5, <2>6, TypeInside
<1>4. CASE StartOver
  <2>1. UNCHANGED <<leg, orders, sync, inbox, clock, events, trouble, slipped, handling, forgotten>>
    BY <1>4 DEF StartOver, Steady, Quiet, Still
  <2>2. job' \in Job /\ (UNCHANGED run \/ run' = Started)
    <3>1. CASE job.status \in Holding
      BY <1>4, <3>1, MovedType DEF StartOver, JobStatus, Terminal
    <3>2. CASE job.status = "SUBMITTED"
      BY <1>4, <3>2, MovedType DEF StartOver, Holding, JobStatus, Terminal
    <3>3. CASE job.status \notin Holding /\ job.status # "SUBMITTED"
      BY <1>4, <3>3 DEF StartOver, RowsTyped
    <3> QED  BY <3>1, <3>2, <3>3
  <2>3. RowsTyped' /\ HandsTyped'
    BY <2>1, <2>2 DEF RowsTyped, HandsTyped
  <2>4. RunTyped' /\ (run'.sent => run.sent /\ run'.placing = run.placing)
    BY <2>2, RestType DEF RunTyped
  <2>5. trouble' \in 0 .. MaxTrouble /\ slipped' \in BOOLEAN /\ SyncTyped'
    BY <2>1 DEF Scalars, SyncTyped
  <2> QED  BY <2>1, <2>3, <2>4, <2>5, TypeInside
<1> QED  BY <1>1, <1>2, <1>3, <1>4

LEMMA ToldType ==
  ASSUME TypeInv, NEW o \in OrderId, NEW kind \in {"fill", "CLOSED_TP", "CLOSED_SL"}, Told(kind, o)
  PROVE  inbox' \in Seq(Message) /\ events' \in 0 .. MaxEvents
<1>1. [kind |-> kind, leg |-> o[1], n |-> o[2]] \in Message
  BY DEF OrderId, Message
<1>2. inbox \in Seq(Message)
  BY DEF TypeInv
<1>3. Append(inbox, [kind |-> kind, leg |-> o[1], n |-> o[2]]) \in Seq(Message)
  BY <1>1, <1>2, AppendProperties
<1>4. events' \in 0 .. MaxEvents
  BY Bounds DEF Told, TypeInv, Scalars
<1> QED  BY <1>2, <1>3, <1>4 DEF Told

LEMMA TypeBroker ==
  ASSUME TypeInv, NEW o \in OrderId, NEW status \in OrderState, StatusAt(o[1], o[2]) # "none",
         orders' = [orders EXCEPT ![o[1]][o[2]] = status],
         inbox' \in Seq(Message), events' \in 0 .. MaxEvents,
         UNCHANGED <<clock, job, leg, run, sync, trouble, slipped, handling, forgotten>>
  PROVE  TypeInv'
<1> USE DEF TypeInv
<1>1. OrdersOK(orders') /\ Longer
  BY OneOrderType
<1>2. SentOnes'
  BY <1>1, HereSent, ThereSent DEF SentOnes
<1> QED  BY <1>1, <1>2 DEF RowsTyped, RunTyped, SyncTyped, Scalars, HandsTyped

LEMMA TypeMarket ==
  ASSUME TypeInv, NEW o \in OrderId,
         Fill(o) \/ BrokerExpires(o) \/ Hit(o, "CLOSED_TP") \/ Hit(o, "CLOSED_SL")
  PROVE  TypeInv'
<1>1. CASE Fill(o)
  <2>1. inbox' \in Seq(Message) /\ events' \in 0 .. MaxEvents
    BY <1>1, ToldType DEF Fill
  <2> QED  BY <1>1, <2>1, TypeBroker DEF Fill, rows, OrderState
<1>2. CASE BrokerExpires(o)
  <2>1. inbox' \in Seq(Message) /\ events' \in 0 .. MaxEvents
    BY <1>2 DEF BrokerExpires, Steady, Quiet, Still, TypeInv, Scalars
  <2> QED  BY <1>2, <2>1, TypeBroker DEF BrokerExpires, Steady, Quiet, Still, rows, OrderState
<1>3. ASSUME NEW how \in {"CLOSED_TP", "CLOSED_SL"}, Hit(o, how) PROVE TypeInv'
  <2>1. inbox' \in Seq(Message) /\ events' \in 0 .. MaxEvents
    BY <1>3, ToldType DEF Hit
  <2> QED  BY <1>3, <2>1, TypeBroker DEF Hit, rows, OrderState
<1> QED  BY <1>1, <1>2, <1>3

LEMMA TypeInit == Init => TypeInv
<1> SUFFICES ASSUME Init PROVE TypeInv
  OBVIOUS
<1>1. RowsTyped
  <2>1. job \in Job
    BY DEF Init, Job, JobStatus
  <2>2. [status |-> "none", order |-> 0, position |-> 0] \in Row
    BY Bounds DEF Row, LegStatus
  <2> QED  BY <2>1, <2>2 DEF Init, RowsTyped
<1>2. OrdersOK(orders)
  <2>1. <<>> \in Seq(OrderState) /\ Len(<<>>) = 0
    BY EmptySeq
  <2> QED  BY <2>1, Bounds DEF Init, OrdersOK
<1>3. RunTyped /\ SyncTyped /\ SentOnes /\ HandsTyped
  BY RestType DEF Init, RunTyped, SyncTyped, SentOnes, HandsTyped
<1>4. Scalars /\ inbox \in Seq(Message)
  <2>1. clock = 0 /\ events = 0 /\ trouble = 0 /\ slipped = FALSE /\ inbox = <<>>
    BY DEF Init
  <2>2. 0 \in 0 .. 2 /\ 0 \in 0 .. MaxEvents /\ 0 \in 0 .. MaxTrouble
    BY Bounds
  <2> QED  BY <2>1, <2>2, NoMessages DEF Scalars
<1> QED  BY <1>1, <1>2, <1>3, <1>4 DEF TypeInv

LEMMA TypeNext == ASSUME TypeInv, [Next]_vars PROVE TypeInv'
<1>1. CASE Tick
  <2>1. /\ UNCHANGED <<job, leg, orders, run, sync, inbox, events, slipped, trouble, handling, forgotten>>
        /\ clock' \in 0 .. 2
    BY <1>1 DEF Tick, TypeInv, Scalars, rows
  <2>2. SentOnes'
    BY <2>1 DEF TypeInv, SentOnes, Here, There, Latest
  <2> QED  BY <2>1, <2>2 DEF TypeInv, RowsTyped, RunTyped, SyncTyped, Scalars, HandsTyped
<1>2. CASE UNCHANGED vars
  <2>1. SentOnes'
    BY <1>2 DEF vars, TypeInv, SentOnes, Here, There, Latest
  <2> QED  BY <1>2, <2>1 DEF vars, TypeInv, RowsTyped, RunTyped, SyncTyped, Scalars, HandsTyped
<1>3. CASE \E o \in OrderId : \/ Fill(o) \/ BrokerExpires(o) \/ Hit(o, "CLOSED_TP")
                              \/ Initial(o[1]) /\ Hit(o, "CLOSED_SL")
  BY <1>3, TypeMarket
<1>4. CASE Handle
  BY <1>4, TypeHandle, TypeClosed DEF Handle
<1> QED  BY <1>1, <1>2, <1>3, <1>4, TypePlace, TypeReceive, TypeSync, TypeTimers, TypeStarts
         DEF Next, Work

LEMMA TypeInvariant == Spec => []TypeInv
BY TypeInit, TypeNext, PTL DEF Spec

\* Types: rows, orders, counters and suspended handlers stay in their ranges; in
\* particular no more than N reversal legs are sized and the revision of a basket
\* stays below N (syncNewsReversalProtection).
THEOREM TypeCorrect == Spec => []TypeOK
<1>1. ASSUME TypeInv PROVE TypeOK
  <2>1. job \in Job /\ leg \in [Leg -> Row]
    BY <1>1 DEF TypeInv, RowsTyped
  <2>2. \A l \in Leg : orders[l] \in Seq(OrderState) /\ Len(orders[l]) <= MaxSends
    BY <1>1 DEF TypeInv, OrdersOK
  <2>3. run.placing \in 1 .. 2 * N + 1 /\ run.known \subseteq OrderId /\ run.open \subseteq OrderId
    BY <1>1 DEF TypeInv, RunTyped, Runtime
  <2>4. /\ sync.at \in {"no", "clear", "close", "mark", "place", "sent"}
        /\ sync.next \in 1 .. N + 1 /\ sync.size \in 0 .. N /\ sync.revision \in 0 .. N - 1
    BY <1>1 DEF TypeInv, SyncTyped, Syncing
  <2>5. handling \subseteq Handler /\ forgotten \subseteq Leg
    BY <1>1 DEF TypeInv, HandsTyped
  <2> QED  BY <1>1, <2>1, <2>2, <2>3, <2>4, <2>5
           DEF TypeInv, TypeOK, Scalars, Job, JobStatus, Row, LegStatus, OrderState
<1> QED  BY <1>1, TypeInvariant, PTL

-----------------------------------------------------------------------------
(* What a step does to the orders at the broker.                           *)

\* What is over stays over, what was filled stays filled.
Onward == \A l \in Leg, n \in 0 .. MaxSends :
            /\ StatusAt(l, n) = "done" => StatusAt(l, n)' = "done"
            /\ StatusAt(l, n) \in {"open", "done"} => StatusAt(l, n)' \in {"open", "done"}

LEMMA StatusType ==
  ASSUME OrdersOK(orders), NEW l \in Leg, NEW n
  PROVE  /\ StatusAt(l, n) \in OrderState \cup {"none"}
         /\ StatusAt(l, 0) = "none"
         /\ StatusAt(l, n) # "none" => n \in 1 .. Len(orders[l]) /\ n \in 1 .. MaxSends
<1>1. orders[l] \in Seq(OrderState) /\ Len(orders[l]) \in Nat /\ Len(orders[l]) <= MaxSends
      /\ DOMAIN orders[l] = 1 .. Len(orders[l])
  BY DEF OrdersOK
<1>2. \A i \in 1 .. Len(orders[l]) : orders[l][i] \in OrderState
  BY <1>1, ElementOfSeq
<1> QED  BY <1>1, <1>2, Bounds DEF StatusAt, OrderState

LEMMA StatusSame ==
  ASSUME UNCHANGED orders
  PROVE  Onward /\ \A l \in Leg, n \in 0 .. MaxSends : StatusAt(l, n)' = StatusAt(l, n)
BY DEF Onward, StatusAt

LEMMA StatusWithdrawn ==
  ASSUME OrdersOK(orders), NEW S, NEW P, orders' = Withdrawn(S, P)
  PROVE  /\ Onward
         /\ \A l \in Leg, n \in 0 .. MaxSends :
              StatusAt(l, n)' = IF (<<l, n>> \in S /\ StatusAt(l, n) = "pending")
                                     \/ (<<l, n>> \in P /\ StatusAt(l, n) = "open")
                                THEN "done" ELSE StatusAt(l, n)
<1>1. ASSUME NEW l \in Leg, NEW n \in 0 .. MaxSends
      PROVE  StatusAt(l, n)' = IF (<<l, n>> \in S /\ StatusAt(l, n) = "pending")
                                     \/ (<<l, n>> \in P /\ StatusAt(l, n) = "open")
                               THEN "done" ELSE StatusAt(l, n)
  BY DEF Withdrawn, StatusAt
<1>2. Onward
  BY <1>1 DEF Onward
<1> QED  BY <1>1, <1>2

LEMMA StatusSent ==
  ASSUME OrdersOK(orders), NEW l \in Leg, Accepts(l), Sends(l)
  PROVE  /\ Onward
         /\ Latest(l)' = Latest(l) + 1
         /\ StatusAt(l, Latest(l) + 1) = "none"
         /\ \A k \in Leg, n \in 0 .. MaxSends :
              StatusAt(k, n)' = IF k = l /\ n = Latest(l) + 1 THEN "pending" ELSE StatusAt(k, n)
<1>1. orders[l] \in Seq(OrderState) /\ Len(orders[l]) \in Nat /\ "pending" \in OrderState
  BY DEF OrdersOK, OrderState
<1>2. PICK q : q = Append(orders[l], "pending")
  OBVIOUS
<1>3. /\ q \in Seq(OrderState) /\ Len(q) = Len(orders[l]) + 1
      /\ \A i \in 1 .. Len(orders[l]) : q[i] = orders[l][i]
      /\ q[Len(orders[l]) + 1] = "pending"
  BY <1>1, <1>2, AppendProperties
<1>4. DOMAIN q = 1 .. Len(orders[l]) + 1 /\ DOMAIN orders[l] = 1 .. Len(orders[l])
  BY <1>1, <1>3
<1>5. \A k \in Leg : orders'[k] = IF k = l THEN q ELSE orders[k]
  BY <1>2 DEF OrdersOK, Sends
<1>6. ASSUME NEW k \in Leg, NEW n \in 0 .. MaxSends
      PROVE  StatusAt(k, n)' = IF k = l /\ n = Latest(l) + 1 THEN "pending" ELSE StatusAt(k, n)
  BY <1>1, <1>3, <1>4, <1>5 DEF StatusAt, Latest
<1>7. StatusAt(l, Latest(l) + 1) = "none" /\ Latest(l)' = Latest(l) + 1
  BY <1>1, <1>3, <1>4, <1>5 DEF StatusAt, Latest
<1>8. Onward
  BY <1>6, <1>7 DEF Onward
<1> QED  BY <1>6, <1>7, <1>8

LEMMA StatusOne ==
  ASSUME OrdersOK(orders), NEW o \in OrderId, StatusAt(o[1], o[2]) # "none",
         NEW status \in OrderState, orders' = [orders EXCEPT ![o[1]][o[2]] = status]
  PROVE  \A l \in Leg, n \in 0 .. MaxSends :
           StatusAt(l, n)' = IF <<l, n>> = o THEN status ELSE StatusAt(l, n)
<1>1. PICK k \in Leg, m \in 1 .. MaxSends : o = <<k, m>>
  BY DEF OrderId
<1>2. m \in DOMAIN orders[k] /\ orders[k] \in Seq(OrderState)
  BY <1>1 DEF StatusAt, OrdersOK
<1>3. PICK q : q = [orders[k] EXCEPT ![m] = status]
  OBVIOUS
<1>4. DOMAIN q = DOMAIN orders[k] /\ \A i \in DOMAIN q : q[i] = IF i = m THEN status ELSE orders[k][i]
  BY <1>2, <1>3
<1>5. \A l \in Leg : orders'[l] = IF l = k THEN q ELSE orders[l]
  BY <1>1, <1>3 DEF OrdersOK
<1> QED  BY <1>1, <1>2, <1>4, <1>5 DEF StatusAt

-----------------------------------------------------------------------------
(* What a row says happened.                                               *)

Heard == {inbox[i] : i \in DOMAIN inbox}

\* A message tells what happened at the broker, and so does its handler.
Happened(m) == StatusAt(m.leg, m.n) \in (IF m.kind = "fill" THEN {"open", "done"} ELSE {"done"})
HeardTrue   == /\ \A m \in Message : m \in Heard => Happened(m)
               /\ \A h \in Handler : h \in handling => Happened(h)

\* What a row says of its order or position happened; a position is that of the
\* row's order.
RowOK(l) ==
  /\ leg[l].status = "CANCELLED" => StatusAt(l, leg[l].order) = "done"
  /\ leg[l].status = "FILLED" => StatusAt(l, leg[l].position) \in {"open", "done"}
  /\ leg[l].status \in {"CLOSED_TP", "CLOSED_SL", "CLOSED_MANUAL"} => StatusAt(l, leg[l].position) = "done"
  /\ leg[l].position # 0 => leg[l].position = leg[l].order

\* The legs the start has not come to, and all of them while the job is ARMED,
\* have no order.
Fresh(l)    == leg[l].order = 0 /\ leg[l].position = 0
Unplaced(l) == Fresh(l) /\ leg[l].status \in {"none", "PLANNED"}
AheadNew    == \A i \in 1 .. 2 * N : run.placing <= i => Unplaced(InitialLeg(i))
ArmedNew    == job.status = "ARMED" =>
                 /\ job.active = "none" /\ sync.at = "no" /\ forgotten = {}
                 /\ \A l \in Leg : Unplaced(l)
                 /\ \A h \in handling : h.at # "turn"

\* A handler about to write a row is right about it, unless the row was planned
\* again; so is a sync about to mark one, or to record its order.
Right(h)   == (IF h.kind = "fill" THEN leg[h.leg].order ELSE leg[h.leg].position) = h.n
WriteKnown == \A h \in handling : h.at = "write" => h.leg \in forgotten \/ Right(h)
MarkTrue   == sync.at = "mark" => \A l \in sync.mark \ forgotten : StatusAt(l, leg[l].position) = "done"
PlannedNew == sync.at = "sent" => There \in forgotten \/ Fresh(There)

RowsInv == /\ HeardTrue /\ (\A l \in Leg \ forgotten : RowOK(l))
           /\ AheadNew /\ ArmedNew /\ WriteKnown /\ MarkTrue /\ PlannedNew

LEMMA HeardTail ==
  ASSUME inbox \in Seq(Message), inbox # <<>>
  PROVE  /\ Head(inbox) \in Heard
         /\ inbox' = Tail(inbox) => Heard' \subseteq Heard
<1>1. inbox[1] = Head(inbox) /\ DOMAIN inbox = 1 .. Len(inbox) /\ Len(inbox) \in Nat \ {0}
  BY EmptySeq
<1>2. /\ Tail(inbox) \in Seq(Message) /\ Len(Tail(inbox)) = Len(inbox) - 1
      /\ \A i \in 1 .. Len(Tail(inbox)) : Tail(inbox)[i] = inbox[i + 1]
  BY HeadTailProperties
<1>3. DOMAIN Tail(inbox) = 1 .. Len(Tail(inbox))
  BY <1>2
<1>4. ASSUME inbox' = Tail(inbox) PROVE Heard' \subseteq Heard
  <2>1. ASSUME NEW i \in DOMAIN Tail(inbox) PROVE Tail(inbox)[i] \in Heard
    BY <1>1, <1>2, <1>3 DEF Heard
  <2> QED  BY <1>4, <2>1 DEF Heard
<1>5. Head(inbox) \in Heard
  BY <1>1 DEF Heard
<1> QED  BY <1>4, <1>5

LEMMA HeardNothing == inbox' = <<>> => Heard' = {}
BY DEF Heard

LEMMA HeardMore ==
  ASSUME inbox \in Seq(Message), NEW m \in Message, inbox' = Append(inbox, m)
  PROVE  Heard' = Heard \cup {m}
<1>1. /\ inbox' \in Seq(Message) /\ Len(inbox') = Len(inbox) + 1 /\ Len(inbox) \in Nat
      /\ \A i \in 1 .. Len(inbox) : inbox'[i] = inbox[i]
      /\ inbox'[Len(inbox) + 1] = m
  BY AppendProperties, LenProperties
<1>2. DOMAIN inbox = 1 .. Len(inbox) /\ DOMAIN inbox' = 1 .. Len(inbox) + 1
  BY <1>1
<1> QED  BY <1>1, <1>2 DEF Heard

LEMMA RemainderOf ==
  ASSUME NEW m \in Nat \ {0}, NEW k \in 0 .. m - 1
  PROVE  k % m = k /\ (k + m) % m = k
OBVIOUS

LEMMA InitialLegs ==
  ASSUME NEW i \in 1 .. 2 * N
  PROVE  InitialLeg(i) = IF i <= N THEN <<"INITIAL", "BUY", i, 0>> ELSE <<"INITIAL", "SELL", i - N, 0>>
<1>1. CASE i <= N
  <2>1. i - 1 \in 0 .. N - 1
    BY <1>1, Bounds
  <2>2. (i - 1) % N = i - 1
    BY <2>1, RemainderOf, Bounds
  <2> QED  BY <1>1, <2>2 DEF InitialLeg
<1>2. CASE i > N
  <2>1. PICK k \in 0 .. N - 1 : i - 1 = k + N
    <3>1. i - 1 - N \in 0 .. N - 1 /\ i - 1 = (i - 1 - N) + N
      BY <1>2, Bounds
    <3> QED  BY <3>1
  <2>2. (k + N) % N = k
    BY RemainderOf, Bounds
  <2>3. (i - 1) % N = k
    BY <2>1, <2>2
  <2> QED  BY <1>2, <2>1, <2>3, Bounds DEF InitialLeg
<1> QED  BY <1>1, <1>2, Bounds

LEMMA InitialLegsDiffer ==
  ASSUME NEW i \in 1 .. 2 * N, NEW j \in 1 .. 2 * N, InitialLeg(i) = InitialLeg(j)
  PROVE  i = j
BY InitialLegs, Bounds

LEMMA MovedAway ==
  ASSUME RowsTyped, NEW from, NEW to \in JobStatus \ {"ARMED"}, "ARMED" \in from
  PROVE  Moved(from, to).status # "ARMED"
BY MovedType


LEMMA HappenedKept ==
  ASSUME Onward, NEW m, m.leg \in Leg, m.n \in 1 .. MaxSends, Happened(m)
  PROVE  Happened(m)'
<1>1. PICK l \in Leg, n \in 0 .. MaxSends : l = m.leg /\ n = m.n
  BY Bounds
<1> QED  BY <1>1 DEF Happened, Onward

\* What is heard or handled afterwards was before, or happened.
LEMMA HeardKept ==
  ASSUME TypeInv, TypeInv', HeardTrue, Onward,
         \A m \in Message : m \in Heard' => m \in Heard \/ Happened(m)',
         \A h \in Handler : h \in handling' => h \in handling \/ Happened(h)'
  PROVE  HeardTrue'
<1>1. ASSUME NEW m \in Message, m \in Heard' PROVE Happened(m)'
  BY <1>1, HappenedKept DEF HeardTrue, Message
<1>2. ASSUME NEW h \in Handler, h \in handling' PROVE Happened(h)'
  BY <1>2, HappenedKept, HandlerType DEF HeardTrue
<1> QED  BY <1>1, <1>2 DEF HeardTrue

\* A handler goes on with its own order.
LEMMA GoesFacts ==
  ASSUME TypeInv, NEW h \in handling,
         NEW at \in (IF h.kind = "fill" THEN {"status", "find", "write", "turn", "arm"}
                                        ELSE {"find", "write", "arm", "end"}),
         Goes(h, at)
  PROVE  /\ \A g \in handling' : g \in handling \/ (g.leg = h.leg /\ g.n = h.n /\ g.kind = h.kind /\ g.at = at)
         /\ \E g \in handling' : g.leg = h.leg /\ g.n = h.n /\ g.kind = h.kind /\ g.at = at
<1>1. h \in Handler
  BY DEF TypeInv, HandsTyped
<1> DEFINE g == [h EXCEPT !.at = at]
<1>2. g.leg = h.leg /\ g.n = h.n /\ g.kind = h.kind /\ g.at = at
  BY <1>1, StageType
<1>3. handling' = (handling \ {h}) \cup {g}
  BY DEF Goes
<1> HIDE DEF g
<1> QED  BY <1>2, <1>3

LEMMA HeardGoes ==
  ASSUME TypeInv, TypeInv', HeardTrue, Onward, NEW h \in handling, Heard' \subseteq Heard,
         \A g \in handling' : g \in handling \/ (g.leg = h.leg /\ g.n = h.n /\ g.kind = h.kind)
  PROVE  HeardTrue'
<1>1. h \in Handler /\ Happened(h)
  BY DEF TypeInv, HandsTyped, HeardTrue
<1>2. Happened(h)'
  BY <1>1, HappenedKept, HandlerType
<1>3. ASSUME NEW g \in handling', g.leg = h.leg, g.n = h.n, g.kind = h.kind PROVE Happened(g)'
  BY <1>2, <1>3 DEF Happened, StatusAt
<1> QED  BY <1>3, HeardKept

LEMMA RowKept ==
  ASSUME RowsTyped, Onward, NEW l \in Leg, RowOK(l), leg'[l] = leg[l]
  PROVE  RowOK(l)'
<1>1. leg[l].order \in 0 .. MaxSends /\ leg[l].position \in 0 .. MaxSends
  BY RowFields
<1>2. PICK n \in 0 .. MaxSends, p \in 0 .. MaxSends : n = leg[l].order /\ p = leg[l].position
  BY <1>1
<1>3. StatusAt(l, leg[l].order)' = StatusAt(l, n)' /\ StatusAt(l, leg[l].position)' = StatusAt(l, p)'
  BY <1>2 DEF StatusAt
<1> QED  BY <1>2, <1>3 DEF RowOK, Onward

\* A row that says nothing yet.
LEMMA RowPlain ==
  ASSUME NEW l \in Leg, leg'[l].status \in {"none", "PLANNED", "SUBMITTED"},
         leg'[l].position # 0 => leg'[l].position = leg'[l].order
  PROVE  RowOK(l)'
BY DEF RowOK

LEMMA ArmedKept ==
  ASSUME ArmedNew, UNCHANGED forgotten, \A l \in Leg : Unplaced(l) => Unplaced(l)',
         job'.status = "ARMED" => /\ job.status = "ARMED" /\ job'.active = job.active
                                  /\ sync.at = "no" => sync'.at = "no",
         job'.status = "ARMED" => \A h \in handling' : h.at = "turn" => h \in handling
  PROVE  ArmedNew'
BY DEF ArmedNew

LEMMA MarkKept ==
  ASSUME TypeInv, MarkTrue, Onward, UNCHANGED sync, forgotten \subseteq forgotten',
         sync.at = "mark" => \A l \in Leg \ forgotten' : leg'[l].position = leg[l].position
  PROVE  MarkTrue'
<1> SUFFICES ASSUME sync.at = "mark", NEW l \in sync.mark \ forgotten'
             PROVE  StatusAt(l, leg[l].position)' = "done"
  BY DEF MarkTrue
<1>1. l \in Leg \ forgotten' /\ StatusAt(l, leg[l].position) = "done"
  BY DEF MarkTrue, TypeInv, SyncTyped, Syncing
<1>2. PICK p \in 0 .. MaxSends : p = leg[l].position /\ p = leg'[l].position
  BY <1>1, RowFields DEF TypeInv
<1>3. StatusAt(l, leg[l].position)' = StatusAt(l, p)'
  BY <1>2 DEF StatusAt
<1> QED  BY <1>1, <1>2, <1>3 DEF Onward

\* The steps that change at most the status of rows.
LEMMA RowsMarked ==
  ASSUME TypeInv, TypeInv', RowsInv, Onward, HeardTrue', ArmedNew', UNCHANGED forgotten,
         \A l \in Leg : leg'[l].order = leg[l].order /\ leg'[l].position = leg[l].position,
         \A l \in Leg \ forgotten : leg'[l] = leg[l] \/ RowOK(l)',
         \A l \in Leg \ forgotten : Unplaced(l) => Unplaced(l)',
         run'.placing >= run.placing,
         UNCHANGED sync \/ MarkTrue',
         sync'.at = "sent" => UNCHANGED sync,
         \A h \in handling' : h.at = "write" => h \in handling \/ Right(h)
  PROVE  RowsInv'
<1> USE DEF TypeInv, RowsInv
<1>1. \A l \in Leg \ forgotten' : RowOK(l)'
  BY RowKept
<1>2. AheadNew'
  <2>1. run.placing \in Int /\ run'.placing \in Int
    BY Bounds DEF RunTyped, Runtime
  <2>2. \A i \in 1 .. 2 * N : InitialLeg(i) \in Leg \ forgotten
    BY InitialLegType DEF HandsTyped
  <2> QED  BY <2>1, <2>2 DEF AheadNew
<1>3. MarkTrue'
  BY MarkKept
<1>4. WriteKnown'
  <2> SUFFICES ASSUME NEW h \in handling', h.at = "write" PROVE h.leg \in forgotten \/ Right(h)'
    BY DEF WriteKnown
  <2>1. h.leg \in Leg
    BY HandlerType DEF HandsTyped
  <2>2. h.leg \in forgotten \/ Right(h)
    BY DEF WriteKnown
  <2> QED  BY <2>1, <2>2 DEF Right
<1>5. PlannedNew'
  <2> SUFFICES ASSUME sync'.at = "sent" PROVE There' \in forgotten \/ Fresh(There)'
    BY DEF PlannedNew
  <2>1. UNCHANGED sync /\ There' = There /\ There \in Leg
    BY ThereType DEF There, SyncTyped
  <2> QED  BY <2>1 DEF PlannedNew, Fresh
<1> QED  BY <1>1, <1>2, <1>3, <1>4, <1>5

\* The steps that change no row.
LEMMA RowsInside ==
  ASSUME TypeInv, TypeInv', RowsInv, Onward, HeardTrue', UNCHANGED <<leg, forgotten>>,
         job'.status = "ARMED" => /\ job.status = "ARMED" /\ job'.active = job.active
                                  /\ sync.at = "no" => sync'.at = "no",
         job'.status = "ARMED" => \A h \in handling' : h.at = "turn" => h \in handling,
         run'.placing >= run.placing,
         UNCHANGED sync \/ sync'.at \notin {"mark", "sent"},
         \A h \in handling' : h.at = "write" => h \in handling \/ Right(h)
  PROVE  RowsInv'
<1>1. \A l \in Leg : Unplaced(l) => Unplaced(l)'
  BY DEF Unplaced, Fresh
<1>2. ArmedNew'
  BY <1>1, ArmedKept DEF RowsInv
<1>3. UNCHANGED sync \/ MarkTrue'
  BY DEF MarkTrue
<1> QED  BY <1>1, <1>2, <1>3, RowsMarked

\* No message and no handler comes.
LEMMA HeardFewer ==
  ASSUME TypeInv, TypeInv', HeardTrue, Onward, Heard' \subseteq Heard, handling' \subseteq handling
  PROVE  HeardTrue'
BY HeardKept

\* The start records an order, or a sync does, in a row that had none.
LEMMA RowsRecord ==
  ASSUME TypeInv, TypeInv', RowsInv, UNCHANGED <<orders, inbox, handling, forgotten>>,
         NEW h \in Leg, NEW n, h \in forgotten \/ Fresh(h),
         leg' = [leg EXCEPT ![h].status = "SUBMITTED", ![h].order = n],
         job'.status # "ARMED",
         \A i \in 1 .. 2 * N : run'.placing <= i => run.placing <= i /\ InitialLeg(i) # h,
         sync'.at \in {"mark", "sent"} => UNCHANGED sync, sync'.at = "sent" => There # h
  PROVE  RowsInv'
<1> USE DEF TypeInv, RowsInv
<1>1. ASSUME NEW l \in Leg
      PROVE  /\ leg'[l].position = leg[l].position
             /\ IF l = h THEN leg'[l].status = "SUBMITTED" ELSE leg'[l] = leg[l]
  BY DEF RowsTyped, Row
<1>2. Onward /\ HeardTrue'
  <2>1. Onward /\ Heard' \subseteq Heard
    BY StatusSame DEF Heard
  <2> QED  BY <2>1, HeardFewer
<1>3. ASSUME NEW l \in Leg \ forgotten' PROVE RowOK(l)'
  <2>1. CASE l = h
    BY <1>1, <2>1, RowPlain DEF Fresh
  <2>2. CASE l # h
    BY <1>1, <1>2, <2>2, RowKept
  <2> QED  BY <2>1, <2>2
<1>4. AheadNew'
  <2> SUFFICES ASSUME NEW i \in 1 .. 2 * N, run'.placing <= i PROVE Unplaced(InitialLeg(i))'
    BY DEF AheadNew
  <2>1. PICK l \in Leg : l = InitialLeg(i) /\ l # h /\ Unplaced(l)
    BY InitialLegType DEF AheadNew
  <2>2. leg'[l] = leg[l]
    BY <1>1, <2>1
  <2>3. Unplaced(l)'
    BY <2>1, <2>2 DEF Unplaced, Fresh
  <2> QED  BY <2>1, <2>3
<1>5. WriteKnown'
  <2> SUFFICES ASSUME NEW g \in handling, g.at = "write" PROVE g.leg \in forgotten \/ Right(g)'
    BY DEF WriteKnown
  <2>0. g.leg \in Leg /\ g.n \in 1 .. MaxSends
    BY HandlerType DEF HandsTyped
  <2>1. g.leg \in Leg /\ g.n # 0
    BY <2>0, Bounds
  <2>2. g.leg \in forgotten \/ Right(g)
    BY DEF WriteKnown
  <2>3. g.leg = h => g.leg \in forgotten
    BY <2>1, <2>2 DEF Right, Fresh
  <2> QED  BY <1>1, <2>1, <2>2, <2>3 DEF Right
<1>6. MarkTrue'
  BY <1>1, <1>2, MarkKept DEF MarkTrue
<1>7. PlannedNew'
  <2> SUFFICES ASSUME sync'.at = "sent" PROVE There' \in forgotten \/ Fresh(There)'
    BY DEF PlannedNew
  <2>1. There' = There /\ There \in Leg /\ There # h
    BY ThereType DEF SyncTyped, There
  <2>2. leg'[There] = leg[There]
    BY <1>1, <2>1
  <2> QED  BY <2>1, <2>2 DEF PlannedNew, Fresh
<1>8. ArmedNew'
  BY DEF ArmedNew
<1> QED  BY <1>2, <1>3, <1>4, <1>5, <1>6, <1>7, <1>8

LEMMA RowsPlace == ASSUME TypeInv, TypeInv', RowsInv, Place PROVE RowsInv'
<1> USE DEF TypeInv, RowsInv
<1>0. run.placing \in 1 .. 2 * N + 1
  BY DEF RunTyped, Runtime
<1>1. CASE PlaceInitial
  <2>1. PICK h \in Leg : h = Here
    BY <1>1, HereType DEF PlaceInitial
  <2>2. /\ Accepts(h) /\ Sends(h) /\ leg' = [leg EXCEPT ![h].status = "PLANNED"]
        /\ run'.placing = run.placing
        /\ UNCHANGED <<job, sync, inbox, handling, forgotten>>
    BY <1>1, <2>1 DEF PlaceInitial, RunTyped, Runtime, Steady, Quiet
  <2>3. Unplaced(h)
    BY <1>0, <1>1, <2>1, Bounds DEF PlaceInitial, AheadNew, Here
  <2>4. Onward /\ HeardTrue'
    <3>1. Onward /\ Heard' \subseteq Heard
      BY <2>2, StatusSent DEF Heard
    <3> QED  BY <2>2, <3>1, HeardFewer
  <2>5. ASSUME NEW l \in Leg
        PROVE  /\ leg'[l].order = leg[l].order /\ leg'[l].position = leg[l].position
               /\ IF l = h THEN leg'[l].status = "PLANNED" ELSE leg'[l] = leg[l]
    BY <2>2 DEF RowsTyped, Row
  <2>6. ASSUME NEW l \in Leg PROVE leg'[l] = leg[l] \/ RowOK(l)'
    <3>1. CASE l = h
      BY <2>3, <2>5, <3>1, RowPlain DEF Unplaced, Fresh
    <3>2. CASE l # h
      BY <2>5, <3>2
    <3> QED  BY <3>1, <3>2
  <2>7. ASSUME NEW l \in Leg, Unplaced(l) PROVE Unplaced(l)'
    BY <2>5, <2>7 DEF Unplaced, Fresh
  <2>8. ArmedNew'
    BY <2>2, <2>7, ArmedKept
  <2> QED  BY <1>0, <2>2, <2>4, <2>5, <2>6, <2>7, <2>8, RowsMarked
<1>2. CASE RecordInitial
  <2>1. run.placing \in 1 .. 2 * N /\ Here = InitialLeg(run.placing)
    BY <1>0, <1>2, Bounds DEF RecordInitial, RunTyped, Here
  <2>2. PICK h \in Leg, i \in 1 .. 2 * N : h = Here /\ i = run.placing /\ h = InitialLeg(i)
    BY <2>1, InitialLegType
  <2>3. /\ leg' = [leg EXCEPT ![h].status = "SUBMITTED", ![h].order = Latest(h)]
        /\ job' = Moved({"ARMED", "SUBMITTED"}, "SUBMITTED")
        /\ run'.placing = i + 1
        /\ UNCHANGED <<orders, sync, inbox, handling, forgotten>>
    BY <1>2, <2>2 DEF RecordInitial, RunTyped, Runtime, Submitted, Steady, Quiet
  <2>4. Fresh(h)
    BY <2>2, Bounds DEF AheadNew, Unplaced
  <2>5. job'.status # "ARMED"
    BY <2>3, MovedAway DEF JobStatus
  <2>6. ASSUME NEW j \in 1 .. 2 * N, run'.placing <= j PROVE run.placing <= j /\ InitialLeg(j) # h
    BY <2>2, <2>3, <2>6, InitialLegsDiffer, Bounds
  <2>7. sync.at = "sent" => There # h
    BY <2>2, ThereType, InitialLegType DEF SyncTyped
  <2> QED  BY <2>3, <2>4, <2>5, <2>6, <2>7, RowsRecord
<1>3. CASE StartFails \/ StartLetGo
  <2>1. Onward
    BY <1>3, StatusWithdrawn, StatusSame DEF StartFails, StartLetGo
  <2>2. /\ inbox' = <<>> /\ UNCHANGED <<leg, sync, handling, forgotten>>
        /\ run' = [Left EXCEPT !.placing = 2 * N + 1, !.sent = FALSE]
    BY <1>3 DEF StartFails, StartLetGo, rows
  <2>3. HeardTrue'
    BY <2>1, <2>2, HeardNothing, HeardFewer
  <2>4. run'.placing >= run.placing
    BY <1>0, <2>2, LeftType, Bounds DEF Runtime
  <2>5. job'.status = "ARMED" => job.status = "ARMED" /\ job'.active = job.active
    BY <1>3, MovedType DEF StartFails, StartLetGo, rows, JobStatus, Terminal
  <2> QED  BY <2>1, <2>2, <2>3, <2>4, <2>5, RowsInside
<1> QED  BY <1>1, <1>2, <1>3 DEF Place

LEMMA RowsReceive == ASSUME TypeInv, TypeInv', RowsInv, Receive PROVE RowsInv'
<1> USE DEF TypeInv, RowsInv
<1>1. PICK m \in Message : m = Head(inbox) /\ m \in Heard /\ Happened(m)
  BY InboxHead, HeardTail DEF Receive, HeardTrue
<1>2. /\ inbox' = Tail(inbox) /\ inbox # <<>>
      /\ UNCHANGED <<job, leg, orders, sync, forgotten>>
  BY DEF Receive, rows
<1>3. run'.placing = run.placing /\ run.placing \in Int
  BY <1>1, Bounds DEF Receive, RunTyped, Runtime
<1>4. Onward /\ Heard' \subseteq Heard
  BY <1>2, StatusSame, HeardTail
<1>5. m.leg \in Leg /\ m.n \in 1 .. MaxSends
  BY DEF Message
<1>6. \A g \in handling' :
        \/ g \in handling
        \/ g.leg = m.leg /\ g.n = m.n /\ g.kind = m.kind /\ g.at \in {"status", "find"}
  BY <1>1 DEF Receive
<1>7. Happened(m)'
  BY <1>1, <1>4, <1>5, HappenedKept
<1>8. ASSUME NEW g \in handling', g.leg = m.leg, g.n = m.n, g.kind = m.kind PROVE Happened(g)'
  BY <1>7, <1>8 DEF Happened, StatusAt
<1>9. HeardTrue'
  BY <1>4, <1>6, <1>8, HeardKept
<1> QED  BY <1>2, <1>3, <1>4, <1>6, <1>9, RowsInside

\* A fill's handler.
LEMMA RowsFill ==
  ASSUME TypeInv, TypeInv', RowsInv, NEW h \in handling,
         FillStatus(h) \/ FillFinds(h) \/ FillWrites(h) \/ FillTurns(h)
  PROVE  RowsInv'
<1> USE DEF TypeInv, RowsInv
<1>0. /\ h \in Handler /\ h.leg \in Leg /\ h.n \in 1 .. MaxSends /\ h.n # 0 /\ Happened(h)
      /\ h.kind = "fill"
  <2>1. h \in Handler /\ h.kind = "fill"
    BY DEF HandsTyped, FillStatus, FillFinds, FillWrites, FillTurns
  <2>2. h.leg \in Leg /\ h.n \in 1 .. MaxSends /\ Happened(h)
    BY <2>1, HandlerType DEF HeardTrue
  <2> QED  BY <2>1, <2>2, Bounds
<1>1. /\ UNCHANGED <<orders, sync, inbox, forgotten>> /\ run'.placing = run.placing
      /\ run'.placing >= run.placing
  BY Bounds DEF FillStatus, FillFinds, FillWrites, FillTurns, Handles, RunTyped, Runtime
<1>2. Onward /\ Heard' \subseteq Heard
  BY <1>1, StatusSame DEF Heard
<1>3. \A at \in {"status", "find", "write", "turn", "arm"} : Goes(h, at) =>
        \A g \in handling' : g \in handling \/ (g.leg = h.leg /\ g.n = h.n /\ g.kind = h.kind /\ g.at = at)
  BY <1>0, GoesFacts
<1>4. HeardTrue'
  BY <1>2, <1>3, HeardGoes DEF FillStatus, FillFinds, FillWrites, FillTurns
<1>5. CASE FillStatus(h)
  <2>1. UNCHANGED leg /\ job' = Moved({"ARMED", "SUBMITTED", "PARTIALLY_FILLED"}, "FILLED")
        /\ Goes(h, "find")
    BY <1>5 DEF FillStatus
  <2>2. job'.status # "ARMED"
    BY <2>1, MovedAway DEF JobStatus
  <2> QED  BY <1>1, <1>2, <1>3, <1>4, <2>1, <2>2, RowsInside
<1>6. CASE FillFinds(h)
  <2>1. UNCHANGED <<leg, job>> /\ Goes(h, IF leg[h.leg].order = h.n THEN "write" ELSE "arm")
    BY <1>6 DEF FillFinds, rows
  <2>2. \A g \in handling' : g.at = "write" => g \in handling \/ Right(g)
    BY <1>0, <1>3, <2>1 DEF Right
  <2>3. \A g \in handling' : g.at = "turn" => g \in handling
    BY <1>3, <2>1
  <2> QED  BY <1>1, <1>2, <1>4, <2>1, <2>2, <2>3, RowsInside
<1>7. CASE FillWrites(h)
  <2>1. /\ leg' = [leg EXCEPT ![h.leg].status = "FILLED", ![h.leg].position = h.n]
        /\ UNCHANGED job /\ Goes(h, "turn") /\ h.at = "write"
    BY <1>7 DEF FillWrites
  <2>2. PICK k \in Leg, n \in 0 .. MaxSends : k = h.leg /\ n = h.n /\ n # 0
    BY <1>0, Bounds
  <2>3. ASSUME NEW l \in Leg
        PROVE  IF l = k THEN leg'[l].status = "FILLED" /\ leg'[l].position = n /\ leg'[l].order = leg[l].order
               ELSE leg'[l] = leg[l]
    BY <2>1, <2>2 DEF RowsTyped, Row
  <2>4. k \notin forgotten => leg[k].order = n
    BY <1>0, <2>1, <2>2 DEF WriteKnown, Right
  <2>5. StatusAt(k, n)' \in {"open", "done"}
    BY <1>0, <1>2, <2>2 DEF Onward, Happened
  <2>6. ASSUME NEW l \in Leg \ forgotten PROVE RowOK(l)'
    <3>1. CASE l = k
      BY <2>3, <2>4, <2>5, <3>1 DEF RowOK, StatusAt
    <3>2. CASE l # k
      BY <1>2, <2>3, <3>2, RowKept
    <3> QED  BY <3>1, <3>2
  <2>7. ASSUME NEW l \in Leg \ forgotten, Fresh(l) PROVE l # k
    BY <2>2, <2>4, <2>7 DEF Fresh
  <2>8. AheadNew'
    <3> SUFFICES ASSUME NEW i \in 1 .. 2 * N, run'.placing <= i PROVE Unplaced(InitialLeg(i))'
      BY DEF AheadNew
    <3>1. PICK l \in Leg \ forgotten : l = InitialLeg(i) /\ Unplaced(l)
      BY <1>1, InitialLegType DEF AheadNew, HandsTyped
    <3>2. leg'[l] = leg[l]
      BY <2>3, <2>7, <3>1 DEF Unplaced
    <3>3. Unplaced(l)'
      BY <3>1, <3>2 DEF Unplaced, Fresh
    <3> QED  BY <3>1, <3>3
  <2>9. job.status # "ARMED"
    BY <2>2, <2>4 DEF ArmedNew, Unplaced, Fresh
  <2>10. WriteKnown'
    <3> SUFFICES ASSUME NEW g \in handling', g.at = "write" PROVE g.leg \in forgotten \/ Right(g)'
      BY <1>1 DEF WriteKnown
    <3>1. g \in handling /\ g.leg \in Leg
      BY <1>3, <2>1, HandlerType DEF HandsTyped
    <3>2. g.leg \in forgotten \/ Right(g)
      BY <3>1 DEF WriteKnown
    <3>3. CASE g.leg = k /\ k \notin forgotten
      \* A handler about to mark a position closed waits for that of the order.
      <4>1. RowOK(k) /\ g.n # 0
        <5>1. g.n \in 1 .. MaxSends
          BY <3>1, HandlerType DEF HandsTyped
        <5> QED  BY <3>3, <5>1, Bounds
      <4>2. g.n = n
        BY <2>4, <3>2, <3>3, <4>1 DEF Right, RowOK
      <4> QED  BY <2>3, <2>4, <3>3, <4>2 DEF Right
    <3>4. CASE g.leg # k
      BY <2>3, <3>1, <3>2, <3>4 DEF Right
    <3> QED  BY <3>3, <3>4
  <2>11. MarkTrue'
    <3>1. ASSUME sync.at = "mark", NEW l \in sync.mark \ forgotten
          PROVE  leg'[l].position = leg[l].position
      <4>1. l \in Leg /\ StatusAt(l, leg[l].position) = "done"
        BY <3>1 DEF MarkTrue, SyncTyped, Syncing
      <4>2. leg[l].position # 0
        BY <4>1, StatusType
      <4>3. CASE l = k
        BY <2>3, <2>4, <3>1, <4>1, <4>2, <4>3 DEF RowOK
      <4>4. CASE l # k
        BY <2>3, <4>1, <4>4
      <4> QED  BY <4>3, <4>4
    <3> SUFFICES ASSUME sync.at = "mark", NEW l \in sync.mark \ forgotten
                 PROVE  StatusAt(l, leg[l].position)' = "done"
      BY <1>1 DEF MarkTrue
    <3>2. PICK p \in 0 .. MaxSends : p = leg[l].position /\ StatusAt(l, p) = "done" /\ l \in Leg
      BY RowFields DEF MarkTrue, SyncTyped, Syncing
    <3>3. StatusAt(l, leg[l].position)' = StatusAt(l, p)'
      BY <3>1, <3>2 DEF StatusAt
    <3> QED  BY <1>2, <3>2, <3>3 DEF Onward
  <2>12. PlannedNew'
    <3> SUFFICES ASSUME sync.at = "sent" PROVE There' \in forgotten \/ Fresh(There)'
      BY <1>1 DEF PlannedNew
    <3>1. There' = There /\ There \in Leg /\ (There \in forgotten \/ Fresh(There))
      BY <1>1, ThereType DEF SyncTyped, There, PlannedNew
    <3>2. Fresh(There) /\ There \notin forgotten => leg'[There] = leg[There]
      BY <2>3, <2>7, <3>1
    <3> QED  BY <3>1, <3>2 DEF Fresh
  <2> QED  BY <1>1, <1>4, <2>1, <2>6, <2>8, <2>9, <2>10, <2>11, <2>12 DEF ArmedNew
<1>8. CASE FillTurns(h)
  <2>1. UNCHANGED leg /\ Goes(h, "arm") /\ h.at = "turn" /\ job' = Turned(h.leg, job)
    BY <1>8 DEF FillTurns
  <2>2. job'.status = job.status
    BY <2>1 DEF Turned, RowsTyped, Job
  <2>3. job.status # "ARMED"
    BY <2>1 DEF ArmedNew
  <2>4. \A g \in handling' : g.at = "write" => g \in handling
    BY <1>3, <2>1
  <2> QED  BY <1>1, <1>2, <1>4, <2>1, <2>2, <2>3, <2>4, RowsInside
<1> QED  BY <1>5, <1>6, <1>7, <1>8

\* A close's handler, and the end of any.
LEMMA RowsClose ==
  ASSUME TypeInv, TypeInv', RowsInv, NEW h \in handling,
         CloseFinds(h) \/ CloseWrites(h) \/ Arms(h) \/ CloseEnds(h)
  PROVE  RowsInv'
<1> USE DEF TypeInv, RowsInv
<1>0. /\ h \in Handler /\ h.leg \in Leg /\ h.n \in 1 .. MaxSends /\ h.n # 0 /\ Happened(h)
      /\ h.kind \in {"fill", "CLOSED_TP", "CLOSED_SL"}
  <2>1. h \in Handler
    BY DEF HandsTyped
  <2>2. /\ h.leg \in Leg /\ h.n \in 1 .. MaxSends /\ Happened(h)
        /\ h.kind \in {"fill", "CLOSED_TP", "CLOSED_SL"}
    BY <2>1, HandlerType DEF HeardTrue
  <2> QED  BY <2>1, <2>2, Bounds
<1>1. /\ UNCHANGED <<orders, sync, forgotten>> /\ inbox' \in {inbox, <<>>} /\ run'.placing >= run.placing
  <2>1. run.placing \in Int
    BY Bounds DEF RunTyped, Runtime
  <2>2. run'.placing = run.placing
    BY LeftType DEF CloseFinds, CloseWrites, Arms, CloseEnds, RunTyped, Runtime
  <2> QED  BY <2>1, <2>2 DEF CloseFinds, CloseWrites, Arms, CloseEnds, Handles
<1>2. Onward /\ Heard' \subseteq Heard
  BY <1>1, StatusSame, HeardNothing DEF Heard
<1>3. \A at \in {"find", "write", "arm", "end"} : h.kind # "fill" /\ Goes(h, at) =>
        \A g \in handling' : g \in handling \/ (g.leg = h.leg /\ g.n = h.n /\ g.kind = h.kind /\ g.at = at)
  BY <1>0, GoesFacts
<1>4. HeardTrue'
  <2>1. \A g \in handling' : g \in handling \/ (g.leg = h.leg /\ g.n = h.n /\ g.kind = h.kind)
    BY <1>3 DEF CloseFinds, CloseWrites, Arms, CloseEnds
  <2> QED  BY <1>2, <2>1, HeardGoes
<1>5. CASE CloseFinds(h)
  <2>1. /\ UNCHANGED <<leg, job>> /\ h.kind # "fill"
        /\ Goes(h, IF leg[h.leg].position = h.n /\ leg[h.leg].status = "FILLED" THEN "write" ELSE "arm")
    BY <1>5 DEF CloseFinds, rows
  <2>2. \A g \in handling' : g.at = "write" => g \in handling \/ Right(g)
    BY <1>3, <2>1 DEF Right
  <2>3. \A g \in handling' : g.at = "turn" => g \in handling
    BY <1>3, <2>1
  <2> QED  BY <1>1, <1>2, <1>4, <2>1, <2>2, <2>3, RowsInside
<1>6. CASE CloseWrites(h)
  <2>1. /\ UNCHANGED job /\ h.kind # "fill" /\ Goes(h, "arm") /\ h.at = "write"
        /\ leg' = Marked({h.leg}, h.kind)
    BY <1>6 DEF CloseWrites
  <2>2. ASSUME NEW l \in Leg
        PROVE  /\ leg'[l].order = leg[l].order /\ leg'[l].position = leg[l].position
               /\ IF l = h.leg THEN leg'[l].status = h.kind ELSE leg'[l] = leg[l]
    <3>1. leg'[l] = IF l = h.leg THEN [leg[l] EXCEPT !.status = h.kind] ELSE leg[l]
      BY <2>1 DEF Marked
    <3> QED  BY <3>1, RowFields DEF Row
  <2>3. h.leg \in forgotten \/ leg[h.leg].position = h.n
    BY <2>1 DEF WriteKnown, Right
  <2>4. ASSUME NEW l \in Leg \ forgotten PROVE leg'[l] = leg[l] \/ RowOK(l)'
    <3>1. CASE l # h.leg
      BY <2>2, <3>1
    <3>2. CASE l = h.leg
      <4>1. PICK n \in 0 .. MaxSends : n = h.n /\ leg[l].position = n /\ StatusAt(l, n) = "done"
        BY <1>0, <2>1, <2>3, <3>2, Bounds DEF Happened
      <4>2. StatusAt(l, n)' = "done"
        BY <1>2, <4>1 DEF Onward
      <4>3. leg'[l].position = n /\ leg'[l].order = leg[l].order /\ RowOK(l)
            /\ leg'[l].status \in {"CLOSED_TP", "CLOSED_SL"}
        BY <1>0, <2>1, <2>2, <3>2, <4>1
      <4> QED  BY <4>1, <4>2, <4>3 DEF RowOK, StatusAt
    <3> QED  BY <3>1, <3>2
  <2>5. ASSUME NEW l \in Leg \ forgotten, Unplaced(l) PROVE leg'[l] = leg[l] /\ Unplaced(l)'
    BY <1>0, <2>2, <2>3, <2>5 DEF Unplaced, Fresh
  <2>6. ArmedNew'
    BY <1>1, <1>3, <2>1, <2>5 DEF ArmedNew
  <2>7. AheadNew'
    <3> SUFFICES ASSUME NEW i \in 1 .. 2 * N, run'.placing <= i PROVE Unplaced(InitialLeg(i))'
      BY DEF AheadNew
    <3>1. run.placing \in Int /\ run'.placing \in Int
      BY Bounds DEF RunTyped, Runtime
    <3>2. PICK l \in Leg \ forgotten : l = InitialLeg(i) /\ Unplaced(l)
      BY <1>1, <3>1, InitialLegType DEF AheadNew, HandsTyped
    <3> QED  BY <2>5, <3>2
  <2>8. \A g \in handling' : g.at = "write" => g \in handling
    BY <1>3, <2>1
  <2>9. MarkTrue'
    BY <1>1, <1>2, <2>2, MarkKept
  <2>10. WriteKnown'
    <3> SUFFICES ASSUME NEW g \in handling', g.at = "write" PROVE g.leg \in forgotten \/ Right(g)'
      BY <1>1 DEF WriteKnown
    <3>1. g \in handling /\ g.leg \in Leg
      BY <2>8, HandlerType DEF HandsTyped
    <3> QED  BY <2>2, <3>1 DEF WriteKnown, Right
  <2>11. PlannedNew'
    <3> SUFFICES ASSUME sync.at = "sent" PROVE There' \in forgotten \/ Fresh(There)'
      BY <1>1 DEF PlannedNew
    <3>1. There' = There /\ There \in Leg
      BY <1>1, ThereType DEF SyncTyped, There
    <3> QED  BY <2>2, <3>1 DEF PlannedNew, Fresh
  <2> QED  BY <1>1, <1>2, <1>4, <2>4, <2>6, <2>7, <2>9, <2>10, <2>11, RowKept
<1>7. CASE Arms(h)
  <2>1. /\ UNCHANGED <<leg, job>>
        /\ \A g \in handling' : g.at \in {"write", "turn"} => g \in handling
    BY <1>3, <1>7 DEF Arms, rows
  <2> QED  BY <1>1, <1>2, <1>4, <2>1, RowsInside
<1>8. CASE CloseEnds(h)
  <2>1. /\ UNCHANGED leg /\ handling' \subseteq handling
        /\ job' = Moved(Holding \cup {"CLOSED"}, "CLOSED") \/ UNCHANGED job
    BY <1>8 DEF CloseEnds
  <2>2. job'.status = "ARMED" => job.status = "ARMED" /\ job'.active = job.active
    BY <2>1, MovedType DEF JobStatus, Terminal
  <2> QED  BY <1>1, <1>2, <1>4, <2>1, <2>2, RowsInside
<1> QED  BY <1>5, <1>6, <1>7, <1>8

\* Orders of which the broker has withdrawn those that still waited, and their rows.
LEMMA CancellableFacts ==
  ASSUME OrdersOK(orders), NEW L \in SUBSET Leg
  PROVE  /\ Cancellable(L) \subseteq L
         /\ \A l \in Cancellable(L) :
              StatusAt(l, leg[l].order) = "pending" /\ leg[l].order # 0 /\ leg[l].order \in 0 .. MaxSends
<1> SUFFICES ASSUME NEW l \in Cancellable(L)
             PROVE  StatusAt(l, leg[l].order) = "pending" /\ leg[l].order # 0 /\ leg[l].order \in 0 .. MaxSends
  BY DEF Cancellable
<1>1. l \in Leg /\ StatusAt(l, leg[l].order) = "pending"
  BY DEF Cancellable
<1> QED  BY <1>1, StatusType, Bounds

LEMMA RowsCancelled ==
  ASSUME TypeInv, TypeInv', RowsInv, NEW L \in SUBSET Leg, NEW P,
         leg' = Marked(Cancellable(L), "CANCELLED"),
         orders' = Withdrawn(OrderOf(Cancellable(L)), P),
         Heard' \subseteq Heard, UNCHANGED <<handling, forgotten>>,
         job'.status = "ARMED" => /\ job.status = "ARMED" /\ job'.active = job.active
                                  /\ sync.at = "no" => sync'.at = "no",
         run'.placing >= run.placing,
         UNCHANGED sync \/ sync'.at \notin {"mark", "sent"}
  PROVE  RowsInv'
<1> USE DEF TypeInv, RowsInv
<1>1. PICK C \in SUBSET Leg : C = Cancellable(L)
  BY DEF Cancellable
<1>2. ASSUME NEW l \in Leg
      PROVE  /\ leg'[l].order = leg[l].order /\ leg'[l].position = leg[l].position
             /\ IF l \in C THEN leg'[l].status = "CANCELLED" ELSE leg'[l] = leg[l]
  <2>1. leg'[l] = IF l \in C THEN [leg[l] EXCEPT !.status = "CANCELLED"] ELSE leg[l]
    BY <1>1 DEF Marked
  <2> QED  BY <2>1, RowFields DEF Row
<1>3. Onward
  BY StatusWithdrawn
<1>4. HeardTrue'
  BY <1>3, HeardFewer
<1>5. ASSUME NEW l \in C PROVE (l \notin forgotten => RowOK(l)') /\ ~Unplaced(l)
  <2>1. PICK n \in 0 .. MaxSends : n = leg[l].order /\ StatusAt(l, n) = "pending" /\ n # 0
    BY <1>1, CancellableFacts
  <2>2. <<l, n>> \in OrderOf(C)
    BY <2>1 DEF OrderOf
  <2>3. StatusAt(l, n)' = "done"
    BY <1>1, <2>1, <2>2, StatusWithdrawn
  <2>4. l \notin forgotten /\ leg[l].position # 0 => leg[l].position = leg[l].order
    BY <1>5 DEF RowOK
  <2>5. leg'[l].status = "CANCELLED" /\ leg'[l].order = n /\ leg'[l].position = leg[l].position
    BY <1>2, <1>5, <2>1
  <2>6. l \notin forgotten => RowOK(l)'
    BY <2>1, <2>3, <2>4, <2>5 DEF RowOK, StatusAt
  <2> QED  BY <2>1, <2>6 DEF Unplaced, Fresh
<1>6. \A l \in Leg : Unplaced(l) => Unplaced(l)'
  BY <1>2, <1>5 DEF Unplaced, Fresh
<1>7. ArmedNew'
  BY <1>6, ArmedKept
<1>8. \A l \in Leg \ forgotten : leg'[l] = leg[l] \/ RowOK(l)'
  BY <1>2, <1>5
<1>9. UNCHANGED sync \/ MarkTrue'
  BY DEF MarkTrue
<1> QED  BY <1>2, <1>3, <1>4, <1>6, <1>7, <1>8, <1>9, RowsMarked

LEMMA RowsCompletes ==
  ASSUME TypeInv, TypeInv', RowsInv, NEW P, Completes(P)
  PROVE  RowsInv'
<1>1. /\ orders' = Withdrawn(OrderOf(Cancellable(With("SUBMITTED"))), P)
      /\ leg' = Marked(Cancellable(With("SUBMITTED")), "CANCELLED")
      /\ inbox' = <<>> /\ UNCHANGED <<sync, handling, forgotten>>
  BY DEF Completes, Steady, Quiet
<1>2. job'.status = "CLOSED"
  BY DEF Completes, TypeInv, RowsTyped, Job
<1>3. run'.placing >= run.placing
  BY LeftType, Bounds DEF Completes, TypeInv, RunTyped, Runtime
<1> QED  BY <1>1, <1>2, <1>3, WithType, HeardNothing, RowsCancelled DEF TypeInv

\* The timer of a sync.
LEMMA RowsTimer ==
  ASSUME TypeInv, TypeInv', RowsInv, SyncSkipped \/ SyncIdle \/ SyncReversed \/ SyncSize
  PROVE  RowsInv'
<1>1. UNCHANGED <<job, leg, orders, inbox, handling, forgotten>>
  BY DEF SyncSkipped, SyncIdle, SyncReversed, SyncSize, Steady, Quiet, rows
<1>2. run'.placing = run.placing /\ run.placing \in Int
  <2>1. \/ run' = [run EXCEPT !.timer = FALSE]
        \/ run' = [run EXCEPT !.timer = FALSE, !.sized = run.sized \/ ~Reversed]
    BY DEF SyncSkipped, SyncIdle, SyncReversed, SyncSize, Begins
  <2>2. run \in Runtime /\ run.placing \in Int
    BY Bounds DEF TypeInv, RunTyped, Runtime
  <2> QED  BY <2>1, <2>2 DEF Runtime
<1>3. UNCHANGED sync \/ (sync'.at = "clear" /\ job.active # "none")
  <2>1. CASE SyncSkipped \/ SyncIdle
    BY <2>1 DEF SyncSkipped, SyncIdle
  <2>2. CASE SyncReversed
    BY <2>2 DEF SyncReversed, Begins, Clear
  <2>3. CASE SyncSize
    BY <2>3 DEF SyncSize, Begins
  <2> QED  BY <2>1, <2>2, <2>3
<1>4. Onward /\ Heard' \subseteq Heard
  BY <1>1, StatusSame DEF Heard
<1>5. HeardTrue'
  BY <1>1, <1>4, HeardFewer DEF RowsInv
<1>6. job.status = "ARMED" => job.active = "none"
  BY DEF RowsInv, ArmedNew
<1> QED  BY <1>1, <1>2, <1>3, <1>4, <1>5, <1>6, RowsInside

\* A sync cancels, closes and marks.
LEMMA RowsClearing ==
  ASSUME TypeInv, TypeInv', RowsInv, SyncClear \/ SyncCloses \/ SyncMarks
  PROVE  RowsInv'
<1> USE DEF TypeInv, RowsInv
<1>0. /\ sync \in Syncing /\ job.status # "ARMED"
      /\ UNCHANGED <<job, run, handling, forgotten>> /\ run.placing \in Int /\ run'.placing >= run.placing
  <2>1. UNCHANGED <<job, run, handling, forgotten>>
    BY DEF SyncClear, SyncCloses, SyncMarks, Steady, Quiet, rows
  <2>2. sync \in Syncing /\ job.status # "ARMED"
    BY DEF SyncTyped, ArmedNew, SyncClear, SyncCloses, SyncMarks
  <2>3. run.placing \in Int
    BY Bounds DEF RunTyped, Runtime
  <2> QED  BY <2>1, <2>2, <2>3
<1>1. CASE SyncClear
  <2>1. /\ leg' = Marked(Cancellable(sync.cancel), "CANCELLED")
        /\ orders' = Withdrawn(OrderOf(Cancellable(sync.cancel)), {})
        /\ UNCHANGED inbox
    BY <1>1 DEF SyncClear
  <2>2. sync'.at \notin {"mark", "sent"}
    BY <1>0, <1>1, OnwardsType DEF SyncClear, Syncing
  <2>3. sync.cancel \in SUBSET Leg /\ Heard' \subseteq Heard
    BY <1>0, <2>1 DEF Syncing, Heard
  <2> QED  BY <1>0, <2>1, <2>2, <2>3, RowsCancelled
<1>2. CASE SyncCloses
  <2>1. PICK l \in Leg, kind \in {"CLOSED_TP", "CLOSED_SL"}, p \in 1 .. MaxSends :
          /\ p = leg[l].position /\ StatusAt(l, p) = "open"
          /\ orders' = Withdrawn({}, PositionOf({l}))
          /\ inbox' = Append(inbox, [kind |-> kind, leg |-> l, n |-> p])
          /\ sync' = [sync EXCEPT !.at = "mark", !.mark = {l}]
    <3>1. PICK l \in sync.close, kind \in Closing :
          /\ StatusAt(l, leg[l].position) = "open"
          /\ orders' = Withdrawn({}, PositionOf({l}))
          /\ inbox' = Append(inbox, [kind |-> kind, leg |-> l, n |-> leg[l].position])
          /\ sync' = [sync EXCEPT !.at = "mark", !.mark = {l}]
      BY <1>2 DEF SyncCloses
    <3>2. l \in Leg /\ kind \in {"CLOSED_TP", "CLOSED_SL"}
      BY <1>0 DEF Syncing, Closing
    <3>3. PICK p \in 1 .. MaxSends : p = leg[l].position
      BY <3>1, <3>2, StatusType
    <3>4. /\ StatusAt(l, p) = "open"
          /\ inbox' = Append(inbox, [kind |-> kind, leg |-> l, n |-> p])
      BY <3>1, <3>3
    <3> QED  BY <3>1, <3>2, <3>3, <3>4
  <2>2. UNCHANGED leg /\ p # 0 /\ p \in 0 .. MaxSends
    <3>1. UNCHANGED leg
      BY <1>2 DEF SyncCloses, rows
    <3>2. p # 0 /\ p \in 0 .. MaxSends
      BY Bounds
    <3> QED  BY <3>1, <3>2
  <2>3. Onward
    BY <2>1, StatusWithdrawn
  <2>4. StatusAt(l, p)' = "done"
    <3>1. <<l, p>> \in PositionOf({l})
      BY <2>1, <2>2 DEF PositionOf
    <3> QED  BY <2>1, <2>2, <3>1, StatusWithdrawn
  <2>5. PICK m \in Message : m = [kind |-> kind, leg |-> l, n |-> p]
    BY DEF Message
  <2>6. Heard' = Heard \cup {m}
    BY <2>1, <2>5, HeardMore
  <2>7. Happened(m)'
    BY <2>4, <2>5 DEF Happened, StatusAt
  <2>8. HeardTrue'
    <3>1. \A x \in Message : x \in Heard' => x \in Heard \/ Happened(x)'
      BY <2>6, <2>7
    <3> QED  BY <1>0, <2>3, <3>1, HeardKept
  <2>9. MarkTrue'
    <3>1. sync'.mark = {l}
      BY <1>0, <2>1 DEF Syncing
    <3> QED  BY <2>1, <2>2, <2>4, <3>1 DEF MarkTrue, StatusAt
  <2>10. sync'.at = "mark"
    BY <1>0, <2>1 DEF Syncing
  <2>11. \A k \in Leg : Unplaced(k) => Unplaced(k)'
    BY <2>2 DEF Unplaced, Fresh
  <2>12. ArmedNew'
    BY <1>0 DEF ArmedNew
  <2> QED  BY <1>0, <2>2, <2>3, <2>8, <2>9, <2>10, <2>11, <2>12, RowsMarked
<1>3. CASE SyncMarks
  <2>1. leg' = Marked(sync.mark, "CLOSED_MANUAL") /\ UNCHANGED <<orders, inbox>> /\ sync.at = "mark"
    BY <1>3 DEF SyncMarks
  <2>2. ASSUME NEW l \in Leg
        PROVE  /\ leg'[l].order = leg[l].order /\ leg'[l].position = leg[l].position
               /\ IF l \in sync.mark THEN leg'[l].status = "CLOSED_MANUAL" ELSE leg'[l] = leg[l]
    <3>1. leg'[l] = IF l \in sync.mark THEN [leg[l] EXCEPT !.status = "CLOSED_MANUAL"] ELSE leg[l]
      BY <2>1 DEF Marked
    <3> QED  BY <3>1, RowFields DEF Row
  <2>3. Onward /\ Heard' \subseteq Heard
    BY <2>1, StatusSame DEF Heard
  <2>4. HeardTrue'
    BY <1>0, <2>3, HeardFewer
  <2>5. ASSUME NEW l \in Leg \ forgotten, l \in sync.mark
        PROVE  RowOK(l)' /\ ~Unplaced(l)
    <3>1. PICK p \in 0 .. MaxSends : p = leg[l].position /\ StatusAt(l, p) = "done"
      BY <2>1, <2>5, RowFields DEF MarkTrue
    <3>2. p # 0
      BY <3>1, StatusType
    <3>3. StatusAt(l, p)' = "done" /\ p = leg[l].order
      BY <2>3, <3>1, <3>2 DEF Onward, RowOK
    <3>4. leg'[l].status = "CLOSED_MANUAL" /\ leg'[l].position = p /\ leg'[l].order = p
      BY <2>2, <2>5, <3>1, <3>3
    <3>5. RowOK(l)'
      BY <3>3, <3>4 DEF RowOK, StatusAt
    <3> QED  BY <3>1, <3>2, <3>5 DEF Unplaced, Fresh
  <2>6. \A l \in Leg \ forgotten : leg'[l] = leg[l] \/ RowOK(l)'
    BY <2>2, <2>5
  <2>7. \A l \in Leg \ forgotten : Unplaced(l) => Unplaced(l)'
    BY <2>2, <2>5 DEF Unplaced, Fresh
  <2>8. ArmedNew'
    BY <1>0 DEF ArmedNew
  <2>9. sync'.at \notin {"mark", "sent"}
    BY <1>0, <1>3, OnwardsType DEF SyncMarks, Syncing
  <2>10. MarkTrue'
    BY <2>9 DEF MarkTrue
  <2> QED  BY <1>0, <2>2, <2>3, <2>4, <2>6, <2>7, <2>8, <2>9, <2>10, RowsMarked
<1> QED  BY <1>1, <1>2, <1>3

\* The upsert of a reversal leg: a handler about to write it has lost it.
LEMMA RowsReplanned ==
  ASSUME TypeInv, TypeInv', RowsInv, NEW h \in Leg, ~Initial(h), h = There,
         leg' = Replanned(h), Forgets, Onward, job.status # "ARMED",
         UNCHANGED <<job, inbox, handling>>, run'.placing = run.placing,
         sync'.at # "mark", sync'.at = "sent" => There' = h
  PROVE  RowsInv'
<1> USE DEF TypeInv, RowsInv
<1>1. ASSUME NEW l \in Leg
      PROVE  IF l = h THEN leg'[l] = [status |-> "PLANNED", order |-> 0, position |-> 0]
             ELSE leg'[l] = leg[l]
  BY DEF Replanned, RowsTyped
<1>2. forgotten \subseteq forgotten' /\ \A g \in handling : g.leg = h /\ g.at = "write" => h \in forgotten'
  BY DEF Forgets
<1>3. HeardTrue'
  BY HeardFewer DEF Heard
<1>4. ASSUME NEW l \in Leg \ forgotten' PROVE RowOK(l)'
  <2>1. CASE l = h
    BY <1>1, <2>1, RowPlain
  <2>2. CASE l # h
    BY <1>1, <1>2, <2>2, RowKept
  <2> QED  BY <2>1, <2>2
<1>5. Unplaced(h)' /\ Fresh(h)'
  BY <1>1 DEF Unplaced, Fresh
<1>6. ASSUME NEW l \in Leg, Unplaced(l) PROVE Unplaced(l)'
  BY <1>1, <1>5, <1>6 DEF Unplaced, Fresh
<1>7. AheadNew'
  BY <1>6, InitialLegType DEF AheadNew
<1>8. WriteKnown'
  <2> SUFFICES ASSUME NEW g \in handling, g.at = "write" PROVE g.leg \in forgotten' \/ Right(g)'
    BY DEF WriteKnown
  <2>1. g.leg \in Leg /\ (g.leg \in forgotten \/ Right(g))
    BY HandlerType DEF HandsTyped, WriteKnown
  <2>2. CASE g.leg = h
    BY <1>2, <2>2
  <2>3. CASE g.leg # h
    BY <1>1, <1>2, <2>1, <2>3 DEF Right
  <2> QED  BY <2>2, <2>3
<1>9. PlannedNew'
  <2>1. sync'.at = "sent" => Fresh(There)'
    BY <1>5 DEF Fresh
  <2> QED  BY <2>1 DEF PlannedNew
<1> QED  BY <1>3, <1>4, <1>7, <1>8, <1>9 DEF ArmedNew, MarkTrue

\* A sync places its orders.
LEMMA RowsPlacing ==
  ASSUME TypeInv, TypeInv', RowsInv, SyncPlace \/ SyncRecord \/ SyncFails \/ SyncEnd
  PROVE  RowsInv'
<1> USE DEF TypeInv, RowsInv
<1>0. /\ sync \in Syncing /\ job.status # "ARMED" /\ run'.placing = run.placing /\ run'.placing >= run.placing
  <2>1. sync.at # "no" /\ sync \in Syncing /\ job.status # "ARMED"
    BY DEF SyncPlace, SyncRecord, SyncFails, SyncEnd, SyncTyped, ArmedNew
  <2>2. UNCHANGED run \/ \E known : run' = [run EXCEPT !.known = known]
    BY DEF SyncPlace, SyncRecord, SyncFails, SyncEnd
  <2>3. run \in Runtime /\ run.placing \in Int
    BY Bounds DEF RunTyped, Runtime
  <2>4. run'.placing = run.placing
    BY <2>2, <2>3 DEF Runtime
  <2> QED  BY <2>1, <2>3, <2>4
<1>1. CASE SyncPlace
  <2>1. PICK h \in Leg : h = There /\ ~Initial(h)
    BY <1>1, ThereType DEF SyncPlace
  <2>2. /\ leg' = Replanned(h) /\ Accepts(h) /\ Sends(h) /\ Forgets /\ UNCHANGED <<job, inbox, handling>>
        /\ sync' = [sync EXCEPT !.at = "sent"]
    BY <1>1, <2>1 DEF SyncPlace
  <2>3. Onward
    BY <2>2, StatusSent
  <2>4. sync'.at = "sent" /\ There' = h
    BY <1>0, <2>1, <2>2 DEF Syncing, There
  <2> QED  BY <1>0, <2>1, <2>2, <2>3, <2>4, RowsReplanned
<1>2. CASE SyncRecord
  <2>1. PICK h \in Leg : h = There /\ ~Initial(h)
    BY <1>2, ThereType DEF SyncRecord, SyncTyped
  <2>2. /\ leg' = [leg EXCEPT ![h].status = "SUBMITTED", ![h].order = Latest(h)]
        /\ job' = Moved({"ARMED", "SUBMITTED"}, "SUBMITTED")
        /\ UNCHANGED <<orders, inbox, handling, forgotten>>
        /\ sync.at = "sent" /\ sync' = [sync EXCEPT !.at = "place", !.next = @ + 1]
    BY <1>2, <2>1 DEF SyncRecord, Steady, Quiet, Submitted
  <2>3. job'.status # "ARMED"
    BY <2>2, MovedAway DEF JobStatus
  <2>4. sync'.at = "place"
    BY <1>0, <2>2 DEF Syncing
  <2>5. h \in forgotten \/ Fresh(h)
    BY <2>1, <2>2 DEF PlannedNew
  <2>6. ASSUME NEW i \in 1 .. 2 * N, run'.placing <= i PROVE run.placing <= i /\ InitialLeg(i) # h
    BY <1>0, <2>1, <2>6, InitialLegType
  <2> QED  BY <2>2, <2>3, <2>4, <2>5, <2>6, RowsRecord
<1>3. CASE SyncFails
  <2>1. UNCHANGED <<job, orders, run, inbox, handling>> /\ sync' = Clear
    BY <1>3 DEF SyncFails
  <2>2. Onward /\ Heard' \subseteq Heard /\ sync'.at = "no"
    BY <2>1, StatusSame DEF Heard, Clear
  <2>3. CASE UNCHANGED <<leg, forgotten>>
    <3>1. HeardTrue'
      BY <2>1, <2>2, HeardFewer
    <3> QED  BY <1>0, <2>1, <2>2, <2>3, <3>1, RowsInside
  <2>4. CASE sync.next <= sync.size /\ leg' = Replanned(There) /\ Forgets
    <3>1. PICK h \in Leg : h = There /\ ~Initial(h)
      BY <2>4, ThereType
    <3> QED  BY <1>0, <2>1, <2>2, <2>4, <3>1, RowsReplanned
  <2> QED  BY <1>3, <2>3, <2>4 DEF SyncFails
<1>4. CASE SyncEnd
  <2>1. /\ UNCHANGED <<leg, orders, run, inbox, handling, forgotten>> /\ sync' = Clear
        /\ job'.status = "MANAGED"
    BY <1>4 DEF SyncEnd, Steady, Quiet, RowsTyped, Job
  <2>2. Onward /\ Heard' \subseteq Heard /\ sync'.at = "no"
    BY <2>1, StatusSame DEF Heard, Clear
  <2>3. HeardTrue'
    BY <2>1, <2>2, HeardFewer
  <2> QED  BY <1>0, <2>1, <2>2, <2>3, RowsInside
<1> QED  BY <1>1, <1>2, <1>3, <1>4

LEMMA RowsSync == ASSUME TypeInv, TypeInv', RowsInv, Sync PROVE RowsInv'
BY RowsTimer, RowsClearing, RowsPlacing, RowsCompletes DEF Sync, SyncComplete

LEMMA RowsTimers ==
  ASSUME TypeInv, TypeInv', RowsInv, Expire \/ ExpireEnds \/ ExpireManagement
  PROVE  RowsInv'
<1> USE DEF TypeInv, RowsInv
<1>0. run \in Runtime /\ run.placing \in Int
  BY Bounds DEF RunTyped, Runtime
<1>1. CASE Expire
  <2>1. UNCHANGED <<job, sync, inbox, handling, forgotten>> /\ Heard' \subseteq Heard
    BY <1>1 DEF Expire, Steady, Quiet, Heard
  <2>2. run'.placing >= run.placing
    <3>1. \/ run' = [run EXCEPT !.expiry = FALSE]
          \/ run' = [run EXCEPT !.expiry = FALSE, !.expiring = TRUE]
      BY <1>1 DEF Expire
    <3>2. run'.placing = run.placing
      BY <1>0, <3>1 DEF Runtime
    <3> QED  BY <1>0, <3>2
  <2>3. CASE run.filled
    <3>1. PICK L \in SUBSET Leg : L = {l \in With("SUBMITTED") : Initial(l)}
      BY WithType
    <3>2. /\ orders' = Withdrawn(OrderOf(Cancellable(L)), {})
          /\ leg' = Marked(Cancellable(L), "CANCELLED")
      BY <1>1, <2>3, <3>1 DEF Expire
    <3> QED  BY <2>1, <2>2, <3>2, RowsCancelled
  <2>4. CASE ~run.filled
    <3>1. orders' = Withdrawn(run.known, {}) /\ UNCHANGED leg
      BY <1>1, <2>4 DEF Expire
    <3>2. Onward
      BY <3>1, StatusWithdrawn
    <3>3. HeardTrue'
      BY <2>1, <3>2, HeardFewer
    <3> QED  BY <2>1, <2>2, <3>1, <3>2, <3>3, RowsInside
  <2> QED  BY <2>3, <2>4
<1>2. CASE ExpireEnds
  <2>1. UNCHANGED <<leg, orders, sync, handling, forgotten>> /\ inbox' \in {inbox, <<>>}
    BY <1>2 DEF ExpireEnds, Quiet
  <2>2. run'.placing >= run.placing
    <3>1. \/ run' = [Left EXCEPT !.expiring = FALSE]
          \/ run' = [run EXCEPT !.expiring = FALSE]
      BY <1>2 DEF ExpireEnds
    <3> QED  BY <1>0, <3>1, LeftType DEF Runtime
  <2>3. Onward /\ Heard' \subseteq Heard
    BY <2>1, StatusSame, HeardNothing DEF Heard
  <2>4. HeardTrue'
    BY <2>1, <2>3, HeardFewer
  <2>5. job'.status = "ARMED" => job.status = "ARMED" /\ job'.active = job.active
    <3>1. \/ UNCHANGED job \/ job' = Moved(Holding, "CLOSED")
          \/ job' = Moved({"ARMED", "SUBMITTED"}, "EXPIRED")
      BY <1>2 DEF ExpireEnds
    <3> QED  BY <3>1, MovedType DEF JobStatus, Terminal
  <2> QED  BY <2>1, <2>2, <2>3, <2>4, <2>5, RowsInside
<1>3. CASE ExpireManagement
  BY <1>3, RowsCompletes DEF ExpireManagement
<1> QED  BY <1>1, <1>2, <1>3

LEMMA RowsStarts ==
  ASSUME TypeInv, TypeInv', RowsInv, Restarts \/ Disconnects \/ Recover \/ StartOver
  PROVE  RowsInv'
<1> USE DEF TypeInv, RowsInv
<1>0. /\ run \in Runtime /\ run.placing \in 1 .. 2 * N + 1 /\ run.placing \in Int
      /\ 2 * N + 1 >= run.placing /\ 2 * N + 1 \in Int
  BY Bounds DEF RunTyped, Runtime
<1>1. CASE Restarts
  <2>1. /\ UNCHANGED <<job, leg, orders, forgotten>> /\ inbox' = <<>> /\ handling' = {}
        /\ run'.placing = 2 * N + 1 /\ sync'.at = "no"
    BY <1>1 DEF Restarts, rows, Down, Clear
  <2>2. Onward /\ Heard' \subseteq Heard
    BY <2>1, StatusSame, HeardNothing
  <2>3. HeardTrue'
    BY <2>1, <2>2, HeardFewer
  <2> QED  BY <1>0, <2>1, <2>2, <2>3, RowsInside
<1>2. CASE Disconnects
  <2>1. /\ UNCHANGED <<job, leg, orders, sync, handling, forgotten>> /\ inbox' = <<>> /\ run' = Left
    BY <1>2 DEF Disconnects, rows
  <2>2. Onward /\ Heard' \subseteq Heard /\ run'.placing >= run.placing
    <3>1. run'.placing = run.placing
      BY <2>1, LeftType
    <3> QED  BY <1>0, <2>1, <3>1, StatusSame, HeardNothing
  <2>3. HeardTrue'
    BY <2>1, <2>2, HeardFewer
  <2> QED  BY <2>1, <2>2, <2>3, RowsInside
<1>3. CASE Recover
  <2>1. /\ UNCHANGED <<job, orders, sync, inbox, handling, forgotten>> /\ run'.placing = 2 * N + 1
        /\ sync.at = "no" /\ handling = {}
        /\ leg' = [l \in Leg |->
             IF leg[l].order # 0 /\ StatusAt(l, leg[l].order) = "open"
             THEN [leg[l] EXCEPT !.status = "FILLED", !.position = leg[l].order]
             ELSE IF StatusAt(l, leg[l].order) = "pending" THEN [leg[l] EXCEPT !.status = "SUBMITTED"]
             ELSE leg[l]]
    BY <1>3 DEF Recover, Gone, Managing, Quiet, Down
  <2>2. Onward /\ HeardTrue'
    <3>1. Onward /\ Heard' \subseteq Heard
      BY <2>1, StatusSame DEF Heard
    <3> QED  BY <2>1, <3>1, HeardFewer
  <2>3. ASSUME NEW l \in Leg \ forgotten PROVE RowOK(l)'
    <3>0. PICK n \in 0 .. MaxSends : n = leg[l].order
      BY RowFields
    <3>1. CASE n # 0 /\ StatusAt(l, n) = "open"
      <4>1. leg'[l].status = "FILLED" /\ leg'[l].position = n /\ leg'[l].order = n
        BY <2>1, <3>0, <3>1, RowFields DEF Row
      <4>2. StatusAt(l, n)' = "open"
        BY <2>1, <3>1, StatusSame
      <4> QED  BY <4>1, <4>2 DEF RowOK, StatusAt
    <3>2. CASE ~(n # 0 /\ StatusAt(l, n) = "open") /\ StatusAt(l, n) = "pending"
      <4>1. leg'[l].status = "SUBMITTED" /\ leg'[l].position = leg[l].position /\ leg'[l].order = leg[l].order
        BY <2>1, <3>0, <3>2, RowFields DEF Row
      <4> QED  BY <4>1, RowPlain DEF RowOK
    <3>3. CASE ~(n # 0 /\ StatusAt(l, n) = "open") /\ StatusAt(l, n) # "pending"
      <4>1. leg'[l] = leg[l]
        BY <2>1, <3>0, <3>3
      <4> QED  BY <2>2, <4>1, RowKept
    <3> QED  BY <3>1, <3>2, <3>3
  <2>4. AheadNew'
    <3>1. \A i \in 1 .. 2 * N : ~(2 * N + 1 <= i)
      BY Bounds
    <3> QED  BY <2>1, <3>1 DEF AheadNew
  <2>5. ArmedNew'
    <3>1. ASSUME NEW l \in Leg, Unplaced(l) PROVE Unplaced(l)'
      <4>1. leg'[l] = leg[l]
        BY <2>1, <3>1, StatusType DEF Unplaced, Fresh
      <4> QED  BY <3>1, <4>1 DEF Unplaced, Fresh
    <3> QED  BY <2>1, <3>1 DEF ArmedNew
  <2> QED  BY <2>1, <2>2, <2>3, <2>4, <2>5 DEF WriteKnown, MarkTrue, PlannedNew
<1>4. CASE StartOver
  <2>1. UNCHANGED <<leg, orders, sync, inbox, handling, forgotten>> /\ sync.at = "no" /\ handling = {}
    BY <1>4 DEF StartOver, Steady, Quiet, Gone, Managing
  <2>2. Onward /\ Heard' \subseteq Heard
    BY <2>1, StatusSame DEF Heard
  <2>3. HeardTrue'
    BY <2>1, <2>2, HeardFewer
  <2>4. CASE UNCHANGED run /\ job'.status # "ARMED"
    <3>1. run'.placing >= run.placing
      BY <1>0, <2>4
    <3> QED  BY <2>1, <2>2, <2>3, <2>4, <3>1, RowsInside
  <2>5. CASE job.status = "ARMED" /\ UNCHANGED job
    <3>1. \A l \in Leg : Unplaced(l)'
      BY <2>1, <2>5 DEF ArmedNew, Unplaced, Fresh
    <3>2. AheadNew' /\ ArmedNew'
      BY <2>1, <2>5, <3>1, InitialLegType DEF AheadNew, ArmedNew
    <3>3. \A l \in Leg \ forgotten' : RowOK(l)'
      BY <2>1, <2>2, RowKept
    <3> QED  BY <2>1, <2>3, <3>2, <3>3 DEF WriteKnown, MarkTrue, PlannedNew
  <2>6. (UNCHANGED run /\ job'.status # "ARMED") \/ (job.status = "ARMED" /\ UNCHANGED job)
    <3>1. CASE job.status \in Holding
      <4>1. job' = Moved(Holding, "CLOSED") /\ UNCHANGED run
        BY <1>4, <3>1 DEF StartOver, Holding
      <4>2. job'.status = "CLOSED"
        BY <3>1, <4>1, MovedType DEF JobStatus, Terminal
      <4> QED  BY <4>1, <4>2
    <3>2. CASE job.status = "SUBMITTED"
      <4>1. job' = Moved({"SUBMITTED"}, "REJECTED") /\ UNCHANGED run
        BY <1>4, <3>2 DEF StartOver, Holding
      <4>2. job'.status = "REJECTED"
        BY <3>2, <4>1, MovedType DEF JobStatus, Terminal
      <4> QED  BY <4>1, <4>2
    <3>3. CASE job.status \notin Holding /\ job.status # "SUBMITTED"
      <4>1. job.status = "ARMED"
        BY <1>4, <3>3 DEF StartOver, Gone, Holding, RowsTyped, Job, JobStatus
      <4> QED  BY <1>4, <3>3, <4>1 DEF StartOver
    <3> QED  BY <3>1, <3>2, <3>3
  <2> QED  BY <2>4, <2>5, <2>6
<1> QED  BY <1>1, <1>2, <1>3, <1>4

LEMMA RowsMarket ==
  ASSUME TypeInv, TypeInv', RowsInv, NEW o \in OrderId,
         Fill(o) \/ BrokerExpires(o) \/ Hit(o, "CLOSED_TP") \/ Hit(o, "CLOSED_SL")
  PROVE  RowsInv'
<1> USE DEF TypeInv, RowsInv
<1>1. PICK k \in Leg, m \in 1 .. MaxSends : o = <<k, m>>
  BY DEF OrderId
<1>2. /\ UNCHANGED <<job, leg, run, sync, handling, forgotten>>
      /\ m \in 0 .. MaxSends /\ StatusAt(k, m) # "none"
      /\ run.placing >= run.placing /\ run.placing \in Int
  <2>1. UNCHANGED <<job, leg, run, sync, handling, forgotten>> /\ StatusAt(k, m) # "none"
    BY <1>1 DEF Fill, BrokerExpires, Hit, Steady, Quiet, rows
  <2> QED  BY <2>1, Bounds DEF RunTyped, Runtime
<1>3. ASSUME NEW status \in OrderState, StatusAt(k, m) \in {"pending", "open"},
             StatusAt(k, m) = "open" => status = "done",
             orders' = [orders EXCEPT ![o[1]][o[2]] = status],
             NEW kind, Heard' \subseteq Heard \cup {[kind |-> kind, leg |-> k, n |-> m]},
             status \in (IF kind = "fill" THEN {"open", "done"} ELSE {"done"})
      PROVE  RowsInv'
  <2>1. \A l \in Leg, n \in 0 .. MaxSends :
          StatusAt(l, n)' = IF <<l, n>> = o THEN status ELSE StatusAt(l, n)
    BY <1>1, <1>2, <1>3, StatusOne
  <2>2. ASSUME NEW l \in Leg, NEW n \in 0 .. MaxSends
        PROVE  /\ StatusAt(l, n) = "done" => StatusAt(l, n)' = "done"
               /\ StatusAt(l, n) \in {"open", "done"} => StatusAt(l, n)' \in {"open", "done"}
    <3>1. CASE <<l, n>> = o
      <4>1. l = k /\ n = m
        BY <1>1, <3>1
      <4> QED  BY <1>3, <2>1, <3>1, <4>1
    <3>2. CASE <<l, n>> # o
      BY <2>1, <3>2
    <3> QED  BY <3>1, <3>2
  <2>3. Onward
    BY <2>2 DEF Onward
  <2>4. ASSUME NEW x \in Message, x = [kind |-> kind, leg |-> k, n |-> m] PROVE Happened(x)'
    <3>1. x.leg = k /\ x.n = m /\ status \in (IF x.kind = "fill" THEN {"open", "done"} ELSE {"done"})
      BY <1>3, <2>4
    <3>2. StatusAt(k, m)' = status
      BY <1>1, <1>2, <2>1
    <3> QED  BY <3>1, <3>2 DEF Happened, StatusAt
  <2>5. HeardTrue'
    <3>1. \A x \in Message : x \in Heard' => x \in Heard \/ Happened(x)'
      BY <1>3, <2>4
    <3> QED  BY <1>2, <2>3, <3>1, HeardKept
  <2> QED  BY <1>2, <2>3, <2>5, RowsInside
<1>4. ASSUME NEW kind \in {"fill", "CLOSED_TP", "CLOSED_SL"}, Told(kind, o)
      PROVE  Heard' \subseteq Heard \cup {[kind |-> kind, leg |-> k, n |-> m]}
  <2>1. [kind |-> kind, leg |-> k, n |-> m] \in Message
    BY DEF Message
  <2>2. inbox' = Append(inbox, [kind |-> kind, leg |-> k, n |-> m]) \/ inbox' = inbox
    BY <1>1, <1>4 DEF Told
  <2>3. inbox' = inbox => Heard' = Heard
    BY DEF Heard
  <2> QED  BY <2>1, <2>2, <2>3, HeardMore
<1>5. CASE Fill(o)
  <2>1. Heard' \subseteq Heard \cup {[kind |-> "fill", leg |-> k, n |-> m]}
    BY <1>4, <1>5 DEF Fill
  <2>2. StatusAt(k, m) = "pending" /\ orders' = [orders EXCEPT ![o[1]][o[2]] = "open"]
    BY <1>1, <1>5 DEF Fill
  <2> QED  BY <1>3, <2>1, <2>2 DEF OrderState
<1>6. CASE BrokerExpires(o)
  <2>1. Heard' \subseteq Heard \cup {[kind |-> "CLOSED_TP", leg |-> k, n |-> m]}
    BY <1>6 DEF BrokerExpires, Steady, Heard
  <2>2. StatusAt(k, m) = "pending" /\ orders' = [orders EXCEPT ![o[1]][o[2]] = "done"]
    BY <1>1, <1>6 DEF BrokerExpires
  <2> QED  BY <1>3, <2>1, <2>2 DEF OrderState
<1>7. ASSUME NEW how \in {"CLOSED_TP", "CLOSED_SL"}, Hit(o, how) PROVE RowsInv'
  <2>1. Heard' \subseteq Heard \cup {[kind |-> how, leg |-> k, n |-> m]}
    BY <1>4, <1>7 DEF Hit
  <2>2. StatusAt(k, m) = "open" /\ orders' = [orders EXCEPT ![o[1]][o[2]] = "done"]
    BY <1>1, <1>7 DEF Hit
  <2> QED  BY <1>3, <2>1, <2>2 DEF OrderState
<1> QED  BY <1>5, <1>6, <1>7

LEMMA RowsInit == Init => RowsInv
<1> SUFFICES ASSUME Init PROVE RowsInv
  OBVIOUS
<1>1. HeardTrue
  BY DEF Init, HeardTrue, Heard
<1>2. \A l \in Leg : leg[l] = [status |-> "none", order |-> 0, position |-> 0]
  BY DEF Init
<1>3. \A l \in Leg : RowOK(l) /\ Unplaced(l)
  BY <1>2 DEF RowOK, Unplaced, Fresh
<1>4. job.active = "none" /\ sync.at = "no" /\ forgotten = {} /\ handling = {}
  BY DEF Init, Clear
<1> QED  BY <1>1, <1>3, <1>4, InitialLegType
         DEF RowsInv, AheadNew, ArmedNew, WriteKnown, MarkTrue, PlannedNew

LEMMA RowsNext == ASSUME TypeInv, TypeInv', RowsInv, [Next]_vars PROVE RowsInv'
<1>1. CASE Tick \/ UNCHANGED vars
  <2>1. UNCHANGED <<job, leg, orders, run, sync, inbox, handling, forgotten>>
    BY <1>1 DEF Tick, vars, rows
  <2>2. run'.placing >= run.placing
    BY <2>1, Bounds DEF TypeInv, RunTyped, Runtime
  <2>3. Onward /\ Heard' \subseteq Heard
    BY <2>1, StatusSame DEF Heard
  <2>4. HeardTrue'
    BY <2>1, <2>3, HeardFewer DEF RowsInv
  <2> QED  BY <2>1, <2>2, <2>3, <2>4, RowsInside
<1>2. CASE \E o \in OrderId : \/ Fill(o) \/ BrokerExpires(o) \/ Hit(o, "CLOSED_TP")
                              \/ Initial(o[1]) /\ Hit(o, "CLOSED_SL")
  BY <1>2, RowsMarket
<1>3. CASE Handle
  BY <1>3, RowsFill, RowsClose DEF Handle
<1>4. CASE Work
  BY <1>3, <1>4, RowsPlace, RowsReceive, RowsSync, RowsTimers DEF Work
<1>5. CASE Restarts \/ Disconnects \/ Recover \/ StartOver
  BY <1>5, RowsStarts
<1> QED  BY <1>1, <1>2, <1>4, <1>5 DEF Next

LEMMA RowsInvariant == Spec => [](TypeInv /\ RowsInv)
<1>1. Init => TypeInv /\ RowsInv
  BY TypeInit, RowsInit
<1>2. TypeInv /\ RowsInv /\ [Next]_vars => TypeInv' /\ RowsInv'
  BY TypeNext, RowsNext
<1> QED  BY <1>1, <1>2, PTL DEF Spec

\* What a row says of an order happened, whatever handlers, syncs, expiries,
\* refusals and restarts overlap: a leg marked cancelled never becomes a position,
\* one marked filled or closed was one (cancelLegs, recordNewsReversalFill and
\* -Close, closeLegPosition, reconcileNewsReversal).  Excused is a leg that a sync
\* planned again while a handler was about to write the row it had found.
THEOREM RowsTellTheTruth == Spec => []RowsFollow
<1>1. ASSUME RowsInv PROVE RowsFollow
  <2>1. \A l \in Leg \ forgotten : RowOK(l)
    BY <1>1 DEF RowsInv
  <2> QED  BY <2>1 DEF RowOK, RowsFollow
<1> QED  BY <1>1, RowsInvariant, PTL

=============================================================================
