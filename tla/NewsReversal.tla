---------------------------- MODULE NewsReversal ----------------------------
(***************************************************************************)
(* A NEWS_REVERSAL job in one instance of the cTrader Open API worker      *)
(* (src/src/ctrader/ctrader-execution.service.ts): the legs of both sides, *)
(* what their fills and closings do to the rows, and the protection sync   *)
(* that keeps one reversal order per position still open.                  *)
(*                                                                         *)
(* Every message of the broker has a handler of its own, which is suspended*)
(* at each statement of the database, and nothing puts the handlers of two *)
(* messages in an order.  The leg rows are written by these handlers, by   *)
(* the start, the sync and the timers.                                     *)
(*                                                                         *)
(* The code has three targets, the model N.  Cancelling a set of orders    *)
(* and writing their rows is one step: the broker decides each of them by  *)
(* itself, and the row of an order it has cancelled has no other writer.   *)
(***************************************************************************)
EXTENDS Integers, Sequences, FiniteSets

CONSTANTS N,          \* targets per side
          MaxSends,   \* bound on the orders sent for one leg
          MaxInbox,   \* bound on the events under way when the market makes another
          MaxEvents,  \* bound on fills and closings, taken together
          Slips,      \* runs are followed after a slip
          MaxTrouble  \* bound on restarts and refused orders

ASSUME ReversalAssumption == {N, MaxSends, MaxInbox} \subseteq Nat \ {0} /\ {MaxEvents, MaxTrouble} \subseteq Nat
                             /\ Slips \in BOOLEAN

VARIABLES
  clock,    \* 0 the pending window, 1 after expiresAt, 2 after managementExpiresAt
  job,      \* the TradeJob row: status, activeDirection, reversalCount, newsReversalState
  leg,      \* the TradeJobLeg rows: status, brokerOrderId, brokerPositionId
  orders,   \* orders[l]: the orders the broker has taken for leg l, oldest first
  run,      \* the Runtime, its timers and the suspended start
  sync,     \* the suspended syncNewsReversalProtection
  inbox,    \* broker events not received yet
  handling, \* the suspended handlers of those received
  events,   \* fills and closings so far
  slipped,  \* history: a sync was skipped, cut short or told too little
  forgotten, \* history: legs planned again under a handler about to write them
  trouble

rows == <<job, leg>>
vars == <<clock, job, leg, orders, run, sync, inbox, handling, events, slipped, forgotten, trouble>>

Direction == {"BUY", "SELL"}
Opposite(d) == CHOOSE e \in Direction : e # d

\* The unique key of a leg: purpose, direction, target, revision.
Leg == ({"INITIAL"} \X Direction \X (1 .. N) \X {0})
         \cup ({"REVERSAL"} \X Direction \X (1 .. N) \X (0 .. N - 1))
Initial(l)    == l[1] = "INITIAL"
Towards(l)    == l[2]
OrderId       == Leg \X (1 .. MaxSends)
InitialLeg(i) == <<"INITIAL", IF i <= N THEN "BUY" ELSE "SELL", ((i - 1) % N) + 1, 0>>

Holding  == {"FILLED", "PARTIALLY_FILLED", "MANAGED"}
Terminal == {"CLOSED", "EXPIRED", "REJECTED"}

Clear == [at |-> "no", cancel |-> {}, close |-> {}, mark |-> {}, next |-> 1, size |-> 0,
          to |-> "BUY", revision |-> 0]

\* placing: the initial leg the start has come to, 2N + 1 when it is through.
\* expiring: an expiry waits for the answers to its cancellations.
Down == [up |-> FALSE, placing |-> 2 * N + 1, sent |-> FALSE, filled |-> FALSE,
         known |-> {}, open |-> {}, timer |-> FALSE, expiry |-> FALSE,
         expiring |-> FALSE, management |-> FALSE, sized |-> FALSE]

Started == [Down EXCEPT !.up = TRUE, !.placing = 1, !.sized = TRUE]

\* What handlers still hold of a Runtime that was dropped.
Left == [run EXCEPT !.up = FALSE, !.known = {}, !.timer = FALSE, !.expiry = FALSE,
                    !.management = FALSE, !.sized = FALSE]

\* The statement a handler of a message waits for.
Handler == [kind : {"fill"}, leg : Leg, n : 1 .. MaxSends,
            at : {"status", "find", "write", "turn", "arm"}]
             \cup [kind : {"CLOSED_TP", "CLOSED_SL"}, leg : Leg, n : 1 .. MaxSends,
                   at : {"find", "write", "arm", "end"}]

TypeOK ==
  /\ clock \in 0 .. 2 /\ events \in 0 .. MaxEvents /\ trouble \in 0 .. MaxTrouble /\ slipped \in BOOLEAN
  /\ job \in [status : {"ARMED", "SUBMITTED", "FILLED", "MANAGED"} \cup Terminal,
              active : Direction \cup {"none"}, count : 0 .. 1,
              state : {"WAITING", "INITIAL", "PROTECTED", "REVERSAL_ACTIVE", "COMPLETED"}]
  /\ leg \in [Leg -> [status : {"none", "PLANNED", "SUBMITTED", "FILLED", "CANCELLED",
                                "CLOSED_TP", "CLOSED_SL", "CLOSED_MANUAL"},
                      order : 0 .. MaxSends, position : 0 .. MaxSends]]
  /\ \A l \in Leg : /\ orders[l] \in Seq({"pending", "open", "done"})
                    /\ Len(orders[l]) <= MaxSends
  /\ run.placing \in 1 .. 2 * N + 1
  /\ run.known \subseteq OrderId /\ run.open \subseteq OrderId
  /\ handling \subseteq Handler /\ forgotten \subseteq Leg
  /\ sync.at \in {"no", "clear", "close", "mark", "place", "sent"}
  /\ sync.next \in 1 .. N + 1 /\ sync.size \in 0 .. N /\ sync.revision \in 0 .. N - 1

\* The start has claimed the job and reconciled nothing.
Init ==
  /\ clock = 0 /\ trouble = 0 /\ slipped = FALSE
  /\ job = [status |-> "ARMED", active |-> "none", count |-> 0, state |-> "WAITING"]
  /\ leg = [l \in Leg |-> [status |-> "none", order |-> 0, position |-> 0]]
  /\ orders = [l \in Leg |-> <<>>]
  /\ run = Started /\ sync = Clear /\ inbox = <<>> /\ handling = {} /\ forgotten = {} /\ events = 0

-----------------------------------------------------------------------------
(* The rows and the broker.                                                *)

With(status)      == {l \in Leg : leg[l].status = status}
StatusAt(l, n)    == IF n \in DOMAIN orders[l] THEN orders[l][n] ELSE "none"
Latest(l)         == Len(orders[l])
AtBroker(states)  == {o \in OrderId : StatusAt(o[1], o[2]) \in states}
ActiveInitial(s)  == {l \in With(s) : Initial(l) /\ Towards(l) = job.active}
ClosedTargets     == Cardinality(ActiveInitial("CLOSED_TP"))

Moved(from, to) == [job EXCEPT !.status = IF @ \in from THEN to ELSE @]

\* The orders in S that are still pending are gone; positions in P are closed.
Withdrawn(S, P) ==
  [l \in Leg |-> [n \in DOMAIN orders[l] |->
     IF (<<l, n>> \in S /\ orders[l][n] = "pending") \/ (<<l, n>> \in P /\ orders[l][n] = "open")
     THEN "done" ELSE orders[l][n]]]

OrderOf(L)    == {<<l, leg[l].order>> : l \in L}
PositionOf(L) == {<<l, leg[l].position>> : l \in {k \in L : leg[k].position # 0}}

\* Mutant: the row is marked although the broker refused.
CancellableAll(L) == L

\* cancelLegs: a refused cancellation is swallowed and its row left alone.
Cancellable(L) == {l \in L : run.up /\ StatusAt(l, leg[l].order) = "pending"}
Marked(L, status) == [l \in Leg |-> IF l \in L THEN [leg[l] EXCEPT !.status = status] ELSE leg[l]]

\* A run may end at its first slip.
Follow == slipped => Slips

Still  == UNCHANGED <<clock, events, trouble>>
Quiet  == Follow /\ Still /\ UNCHANGED <<handling, forgotten>>
Steady == Quiet /\ UNCHANGED slipped

\* place: the broker takes one more order for the leg, unless its time is over.
Accepts(l) == run.up /\ clock < 2 /\ Latest(l) < MaxSends
Sends(l)   == orders' = [orders EXCEPT ![l] = Append(@, "pending")]
Submitted  == Moved({"ARMED", "SUBMITTED"}, "SUBMITTED")

-----------------------------------------------------------------------------
(* start: the initial legs, one after the other.                           *)

Here == InitialLeg(run.placing)

\* The upsert of a reversal leg forgets the order and the position it had.
Replanned(l) == [leg EXCEPT ![l] = [status |-> "PLANNED", order |-> 0, position |-> 0]]

PlaceInitial ==
  /\ run.placing <= 2 * N /\ ~run.sent /\ Accepts(Here)
  /\ leg' = [leg EXCEPT ![Here].status = "PLANNED"]
  /\ Sends(Here)
  /\ run' = [run EXCEPT !.sent = TRUE]
  /\ Steady /\ UNCHANGED <<job, sync, inbox>>

RecordInitial ==
  /\ run.sent
  /\ LET n == Latest(Here)
         last == run.placing = 2 * N IN
       /\ leg' = [leg EXCEPT ![Here].status = "SUBMITTED", ![Here].order = n]
       /\ run' = [run EXCEPT !.sent = FALSE, !.placing = @ + 1, !.known = @ \cup {<<Here, n>>},
                             !.expiry = last /\ run.up, !.management = last /\ run.up]
  /\ job' = Submitted
  /\ Steady /\ UNCHANGED <<orders, sync, inbox>>

\* handleStartFailure and reject: what is known is cancelled, the Runtime dropped.
StartFails ==
  /\ Follow
  /\ run.placing <= 2 * N /\ (run.sent => ~run.up)
  /\ IF run.up /\ clock < 2 THEN trouble < MaxTrouble /\ trouble' = trouble + 1
                            ELSE UNCHANGED trouble
  /\ orders' = Withdrawn(IF run.up THEN run.known ELSE {}, {})
  /\ job' = Moved({"ARMED", "SUBMITTED"}, "REJECTED")
  /\ run' = [Left EXCEPT !.placing = 2 * N + 1, !.sent = FALSE] /\ inbox' = <<>>
  /\ slipped' = TRUE
  /\ UNCHANGED <<clock, events, leg, sync, handling, forgotten>>

\* handleStartFailure, a transient error: the socket closed or no answer in time.
\* The job is let go as it is.
StartLetGo ==
  /\ Follow /\ run.placing <= 2 * N
  /\ IF run.up THEN trouble < MaxTrouble /\ trouble' = trouble + 1 ELSE UNCHANGED trouble
  /\ run' = [Left EXCEPT !.placing = 2 * N + 1, !.sent = FALSE] /\ inbox' = <<>>
  /\ slipped' = TRUE
  /\ UNCHANGED <<clock, events, rows, orders, sync, handling, forgotten>>

-----------------------------------------------------------------------------
(* onMessage.                                                              *)

\* recordNewsReversalFill, job side: only the first fill of each purpose counts.
Turned(l, j) ==
  CASE Initial(l) /\ j.active = "none" ->
         [j EXCEPT !.active = Towards(l), !.state = "INITIAL"]
    [] ~Initial(l) /\ j.count = 0 ->
         [j EXCEPT !.active = Towards(l), !.count = 1, !.state = "REVERSAL_ACTIVE"]
    [] OTHER -> j

\* The part of onMessage before its first await.
Receive ==
  /\ run.up /\ inbox # <<>>
  /\ LET m == Head(inbox) IN
       IF m.kind = "fill"
       THEN /\ run' = [run EXCEPT !.filled = TRUE]
            /\ handling' = handling \cup {[kind |-> m.kind, leg |-> m.leg, n |-> m.n, at |-> "status"]}
       ELSE /\ run' = [run EXCEPT !.open = @ \ {<<m.leg, m.n>>}]
            /\ handling' = handling \cup {[kind |-> m.kind, leg |-> m.leg, n |-> m.n, at |-> "find"]}
  /\ inbox' = Tail(inbox)
  /\ Follow /\ Still /\ UNCHANGED <<rows, orders, sync, slipped, forgotten>>

Goes(h, at) == handling' = (handling \ {h}) \cup {[h EXCEPT !.at = at]}
Handles     == Follow /\ Still /\ UNCHANGED <<orders, sync, inbox, forgotten>>
Closing     == {"CLOSED_TP", "CLOSED_SL"}

FillStatus(h) ==
  /\ h.kind = "fill" /\ h.at = "status"
  /\ Goes(h, "find")
  /\ job' = Moved({"ARMED", "SUBMITTED", "PARTIALLY_FILLED"}, "FILLED")
  /\ Handles /\ UNCHANGED <<leg, run, slipped>>

\* recordNewsReversalFill: findFirst by the order's id; without a row nothing is recorded.
FillFinds(h) ==
  /\ h.kind = "fill" /\ h.at = "find"
  /\ LET found == leg[h.leg].order = h.n IN
       /\ Goes(h, IF found THEN "write" ELSE "arm")
       /\ slipped' = (slipped \/ ~found)
  /\ run' = [run EXCEPT !.open = @ \cup {<<h.leg, h.n>>}]
  /\ Handles /\ UNCHANGED rows

FillWrites(h) ==
  /\ h.kind = "fill" /\ h.at = "write"
  /\ Goes(h, "turn")
  /\ leg' = [leg EXCEPT ![h.leg].status = "FILLED", ![h.leg].position = h.n]
  /\ Handles /\ UNCHANGED <<job, run, slipped>>

FillTurns(h) ==
  /\ h.kind = "fill" /\ h.at = "turn"
  /\ Goes(h, "arm")
  /\ job' = Turned(h.leg, job)
  /\ Handles /\ UNCHANGED <<leg, run, slipped>>

\* recordNewsReversalClose: findFirst by the position's id; only a leg known to
\* be filled is marked.
CloseFinds(h) ==
  /\ h.kind # "fill" /\ h.at = "find"
  /\ LET found == leg[h.leg].position = h.n /\ leg[h.leg].status = "FILLED" IN
       /\ Goes(h, IF found THEN "write" ELSE "arm")
       /\ slipped' = (slipped \/ ~found)
  /\ Handles /\ UNCHANGED <<rows, run>>

CloseWrites(h) ==
  /\ h.kind # "fill" /\ h.at = "write"
  /\ Goes(h, "arm")
  /\ leg' = Marked({h.leg}, h.kind)
  /\ Handles /\ UNCHANGED <<job, run, slipped>>

\* scheduleProtectionSync: the last thing a fill's handler does.
Arms(h) ==
  /\ h.at = "arm"
  /\ IF h.kind = "fill" THEN handling' = handling \ {h} ELSE Goes(h, "end")
  /\ run' = [run EXCEPT !.timer = run.up]
  /\ Handles /\ UNCHANGED <<rows, slipped>>

\* The last position has closed and the pending window is over.
CloseEnds(h) ==
  /\ h.at = "end"
  /\ handling' = handling \ {h}
  /\ IF run.open = {} /\ clock > 0
     THEN job' = Moved(Holding \cup {"CLOSED"}, "CLOSED") /\ run' = Left /\ inbox' = <<>>
     ELSE UNCHANGED <<job, run, inbox>>
  /\ Follow /\ Still /\ UNCHANGED <<leg, orders, sync, slipped, forgotten>>

-----------------------------------------------------------------------------
(* syncNewsReversalProtection, started by its timer.                       *)

Managing == sync.at # "no"
Reversed == job.count > 0 \/ job.state = "REVERSAL_ACTIVE"

\* A timer that finds a sync under way gives up, and nothing sets another.
SyncSkipped ==
  /\ run.timer /\ Managing
  /\ run' = [run EXCEPT !.timer = FALSE] /\ slipped' = TRUE
  /\ Quiet /\ UNCHANGED <<rows, orders, sync, inbox>>

SyncIdle ==
  /\ run.timer /\ ~Managing
  /\ \/ job.active = "none" \/ job.state = "COMPLETED"
     \/ ~Reversed /\ ClosedTargets < N /\ ActiveInitial("FILLED") = {}
  /\ run' = [run EXCEPT !.timer = FALSE]
  /\ Steady /\ UNCHANGED <<rows, orders, sync, inbox>>

Begins == /\ run.timer /\ ~Managing /\ job.active # "none" /\ job.state # "COMPLETED"
          /\ run' = [run EXCEPT !.timer = FALSE, !.sized = @ \/ ~Reversed]

\* After the reversal only what is left of the initial side is withdrawn.
SyncReversed ==
  /\ Begins /\ Reversed
  /\ sync' = [Clear EXCEPT !.at = "clear",
                !.cancel = {l \in With("SUBMITTED") : Initial(l)},
                !.close = {l \in With("FILLED") : Towards(l) # job.active}]
  /\ Steady /\ UNCHANGED <<rows, orders, inbox>>

\* Mutant: the closed targets are not taken off.
SizeOfAll == N

\* Mutant: positions of the other side count as well.
SizeOfBoth == Cardinality({l \in With("FILLED") : Initial(l)})

\* One reversal leg per initial position that is still open.
Size == Cardinality(ActiveInitial("FILLED"))

SyncSize ==
  /\ Begins /\ ~Reversed /\ ClosedTargets < N /\ ActiveInitial("FILLED") # {}
  /\ sync' = [at |-> "clear", cancel |-> With("SUBMITTED"),
              close |-> {l \in With("FILLED") : Initial(l) /\ Towards(l) # job.active}, mark |-> {},
              next |-> 1, size |-> Size, to |-> Opposite(job.active),
              revision |-> ClosedTargets]
  /\ slipped' = (slipped \/ run.placing <= 2 * N)
  /\ Quiet /\ UNCHANGED <<rows, orders, inbox>>

\* completeNewsReversal
Completes(closing) ==
  /\ orders' = Withdrawn(OrderOf(Cancellable(With("SUBMITTED"))), closing)
  /\ leg' = Marked(Cancellable(With("SUBMITTED")), "CANCELLED")
  /\ job' = [job EXCEPT !.status = "CLOSED", !.state = "COMPLETED"]
  /\ run' = Left /\ inbox' = <<>>
  /\ Steady /\ UNCHANGED sync

SyncComplete ==
  /\ run.timer /\ ~Managing /\ job.state # "COMPLETED" /\ ~Reversed /\ ClosedTargets >= N
  /\ Completes({})

\* What a sync does after it has cancelled and closed.
Onwards == IF sync.size > 0 THEN [sync EXCEPT !.at = "place", !.close = {}, !.mark = {}] ELSE Clear

\* cancelLegs
SyncClear ==
  /\ sync.at = "clear"
  /\ LET cancel == Cancellable(sync.cancel) IN
       /\ orders' = Withdrawn(OrderOf(cancel), {})
       /\ leg' = Marked(cancel, "CANCELLED")
       /\ sync' = IF sync.close = {} THEN Onwards ELSE [sync EXCEPT !.at = "close"]
       /\ slipped' = (slipped \/ cancel # sync.cancel \/ sync.close # {})
  /\ Quiet /\ UNCHANGED <<job, run, inbox>>

\* closeLegPosition, one leg after the other.  The broker tells of the closing as
\* of any other; closing what is closed already is an error (SyncFails).
SyncCloses ==
  /\ sync.at = "close"
  /\ \E l \in sync.close, kind \in Closing :
       /\ run.up /\ StatusAt(l, leg[l].position) = "open"
       /\ orders' = Withdrawn({}, PositionOf({l}))
       /\ inbox' = Append(inbox, [kind |-> kind, leg |-> l, n |-> leg[l].position])
       /\ sync' = [sync EXCEPT !.at = "mark", !.mark = {l}]
  /\ Steady /\ UNCHANGED <<rows, run>>

SyncMarks ==
  /\ sync.at = "mark"
  /\ leg' = Marked(sync.mark, "CLOSED_MANUAL")
  /\ sync' = IF sync.close = sync.mark THEN Onwards
             ELSE [sync EXCEPT !.at = "close", !.close = @ \ sync.mark, !.mark = {}]
  /\ Steady /\ UNCHANGED <<job, orders, run, inbox>>

There == <<"REVERSAL", sync.to, sync.next, sync.revision>>

\* The row of There may be in the hands of a handler that has found it.
Forgets == forgotten' = forgotten \cup {l \in {There} : \E h \in handling : h.leg = l /\ h.at = "write"}

SyncPlace ==
  /\ sync.at = "place" /\ sync.next <= sync.size /\ Accepts(There)
  /\ leg' = Replanned(There)
  /\ Sends(There)
  /\ sync' = [sync EXCEPT !.at = "sent"]
  /\ Forgets
  /\ Follow /\ Still /\ UNCHANGED <<job, run, inbox, handling, slipped>>

SyncRecord ==
  /\ sync.at = "sent"
  /\ leg' = [leg EXCEPT ![There].status = "SUBMITTED", ![There].order = Latest(There)]
  /\ job' = Submitted
  /\ run' = [run EXCEPT !.known = IF run.up THEN @ \cup {<<There, Latest(There)>>} ELSE @]
  /\ sync' = [sync EXCEPT !.at = "place", !.next = @ + 1]
  /\ Steady /\ UNCHANGED <<orders, inbox>>

\* An error is reported and the sync given up; nothing tries again.
SyncFails ==
  /\ Follow
  /\ \/ sync.at = "place" /\ sync.next <= sync.size /\ leg' = Replanned(There) /\ Forgets
     \/ sync.at \in {"close", "sent"} /\ UNCHANGED <<leg, forgotten>>    \* no answer in time
  /\ IF \/ ~run.up
        \/ sync.at = "place" /\ ~Accepts(There)
        \/ sync.at = "close" /\ \E l \in sync.close : StatusAt(l, leg[l].position) # "open"
     THEN UNCHANGED trouble ELSE trouble < MaxTrouble /\ trouble' = trouble + 1
  /\ sync' = Clear /\ slipped' = TRUE
  /\ UNCHANGED <<clock, events, job, orders, run, inbox, handling>>

SyncEnd ==
  /\ sync.at = "place" /\ sync.next > sync.size
  /\ job' = [job EXCEPT !.status = "MANAGED",
                        !.state = IF sync.revision = 0 THEN "INITIAL" ELSE "PROTECTED"]
  /\ sync' = Clear
  /\ Steady /\ UNCHANGED <<leg, orders, run, inbox>>

-----------------------------------------------------------------------------
(* The other timers.                                                       *)

\* The answers to the cancellations come behind the fills.
Answered == ~run.up \/ \A i \in DOMAIN inbox : inbox[i].kind = "fill" => <<inbox[i].leg, inbox[i].n>> \notin run.known

Expire ==
  /\ run.up /\ run.expiry /\ clock > 0
  /\ IF run.filled
     THEN LET L == Cancellable({l \in With("SUBMITTED") : Initial(l)}) IN
            /\ orders' = Withdrawn(OrderOf(L), {})
            /\ leg' = Marked(L, "CANCELLED")
            /\ run' = [run EXCEPT !.expiry = FALSE]
     ELSE /\ orders' = Withdrawn(run.known, {})
          /\ run' = [run EXCEPT !.expiry = FALSE, !.expiring = TRUE]
          /\ UNCHANGED leg
  /\ Steady /\ UNCHANGED <<job, sync, inbox>>

\* If a fill came meanwhile, the rows of the orders cancelled stay SUBMITTED.
ExpireEnds ==
  /\ run.expiring /\ Answered
  /\ IF ~run.filled
     THEN job' = Moved({"ARMED", "SUBMITTED"}, "EXPIRED") /\ run' = [Left EXCEPT !.expiring = FALSE] /\ inbox' = <<>>
     ELSE IF run.open = {}
     THEN job' = Moved(Holding, "CLOSED") /\ run' = [Left EXCEPT !.expiring = FALSE] /\ inbox' = <<>>
     ELSE run' = [run EXCEPT !.expiring = FALSE] /\ UNCHANGED <<job, inbox>>
  /\ slipped' = (slipped \/ run.filled)
  /\ Quiet /\ UNCHANGED <<leg, orders, sync>>

\* After a restart the lot size is unknown until a sync has asked for it, and
\* a volume of nothing is not closed.
ExpireManagement ==
  /\ run.up /\ run.management /\ clock = 2
  /\ Completes(IF run.sized THEN PositionOf(With("FILLED")) ELSE {})

-----------------------------------------------------------------------------
(* Restarts, time and the broker.                                          *)

\* The process stops, and with it every handler: the job may never hear of a
\* fill its leg was told of.
Restarts ==
  /\ Follow /\ (run.up \/ handling # {} \/ Managing) /\ trouble < MaxTrouble /\ trouble' = trouble + 1
  /\ run' = Down /\ sync' = Clear /\ inbox' = <<>> /\ handling' = {}
  /\ slipped' = (slipped \/ \E h \in handling : h.at = "turn")
  /\ UNCHANGED <<clock, events, rows, orders, forgotten>>

\* handleDisconnect: the Runtime is dropped, its handlers go on.
Disconnects ==
  /\ Follow /\ run.up /\ trouble < MaxTrouble /\ trouble' = trouble + 1
  /\ run' = Left /\ inbox' = <<>>
  /\ UNCHANGED <<clock, events, rows, orders, sync, handling, slipped, forgotten>>

\* Mutant: MANAGED is missing in the list of statuses that are taken up.
GoneUnmanaged == ~run.up /\ ~Managing /\ handling = {} /\ ~run.expiring /\ run.placing > 2 * N
                   /\ job.status \notin Terminal \cup {"MANAGED"}

\* The lease of a dropped Runtime lasts five seconds more, and its handlers,
\* whose requests fail at once, are through by then.
Gone == ~run.up /\ ~Managing /\ handling = {} /\ ~run.expiring /\ run.placing > 2 * N
          /\ job.status \notin Terminal

\* The rows say of the broker what is true.
Agree ==
  /\ OrderOf(With("SUBMITTED")) = AtBroker({"pending"})
  /\ PositionOf(With("FILLED")) = AtBroker({"open"})

\* start, then reconcileNewsReversal
Recover ==
  /\ Gone /\ AtBroker({"pending", "open"}) # {}
  /\ leg' = [l \in Leg |->
       IF leg[l].order # 0 /\ StatusAt(l, leg[l].order) = "open"
       THEN [leg[l] EXCEPT !.status = "FILLED", !.position = leg[l].order]
       ELSE IF StatusAt(l, leg[l].order) = "pending" THEN [leg[l] EXCEPT !.status = "SUBMITTED"]
       ELSE leg[l]]
  /\ run' = [Down EXCEPT !.up = TRUE, !.filled = AtBroker({"open"}) # {},
               !.known = AtBroker({"pending"}), !.open = AtBroker({"open"}),
               !.expiry = TRUE, !.management = TRUE, !.timer = TRUE]
  /\ slipped' = (slipped \/ ~Agree) /\ Quiet /\ UNCHANGED <<job, orders, sync, inbox>>

\* start with nothing at the broker
StartOver ==
  /\ Gone /\ AtBroker({"pending", "open"}) = {}
  /\ CASE job.status \in Holding     -> job' = Moved(Holding, "CLOSED") /\ UNCHANGED run
       [] job.status = "SUBMITTED"   -> job' = Moved({"SUBMITTED"}, "REJECTED") /\ UNCHANGED run
       [] OTHER                      -> run' = Started /\ UNCHANGED job
  /\ Steady /\ UNCHANGED <<leg, orders, sync, inbox>>

Tick == /\ Follow /\ clock < 2 /\ clock' = clock + 1
        /\ UNCHANGED <<rows, orders, run, sync, inbox, handling, events, slipped, forgotten, trouble>>

Told(kind, o) ==
  /\ Follow /\ Len(inbox) + Cardinality(handling) < MaxInbox /\ events < MaxEvents /\ events' = events + 1
  /\ inbox' = IF run.up THEN Append(inbox, [kind |-> kind, leg |-> o[1], n |-> o[2]]) ELSE inbox

Fill(o) ==
  /\ StatusAt(o[1], o[2]) = "pending"
  /\ orders' = [orders EXCEPT ![o[1]][o[2]] = "open"]
  /\ Told("fill", o)
  /\ UNCHANGED <<clock, slipped, forgotten, trouble, rows, run, sync, handling>>

Hit(o, how) ==
  /\ StatusAt(o[1], o[2]) = "open"
  /\ orders' = [orders EXCEPT ![o[1]][o[2]] = "done"]
  /\ Told(how, o)
  /\ UNCHANGED <<clock, slipped, forgotten, trouble, rows, run, sync, handling>>

BrokerExpires(o) ==
  /\ StatusAt(o[1], o[2]) = "pending" /\ clock = 2
  /\ orders' = [orders EXCEPT ![o[1]][o[2]] = "done"]
  /\ Steady /\ UNCHANGED <<rows, run, sync, inbox>>

-----------------------------------------------------------------------------
Place == PlaceInitial \/ RecordInitial \/ StartFails \/ StartLetGo
Sync  == \/ SyncSkipped \/ SyncIdle \/ SyncReversed \/ SyncSize \/ SyncComplete
         \/ SyncClear \/ SyncCloses \/ SyncMarks \/ SyncPlace \/ SyncRecord \/ SyncFails \/ SyncEnd

Handle == \E h \in handling : \/ FillStatus(h) \/ FillFinds(h) \/ FillWrites(h) \/ FillTurns(h)
                              \/ CloseFinds(h) \/ CloseWrites(h) \/ Arms(h) \/ CloseEnds(h)

\* What the process does by itself: it receives, runs its handlers, fires its timers.
Work == Place \/ Receive \/ Handle \/ Sync \/ Expire \/ ExpireEnds \/ ExpireManagement

Next ==
  \/ Work
  \/ Restarts \/ Disconnects \/ Recover \/ StartOver \/ Tick
  \/ \E o \in OrderId : \/ Fill(o) \/ BrokerExpires(o)
                        \/ Hit(o, "CLOSED_TP")
                        \/ Initial(o[1]) /\ Hit(o, "CLOSED_SL")

Spec == Init /\ [][Next]_vars

\* The process goes on while it has work, a job nobody runs is taken up.
Fairness ==
  /\ WF_vars(Work) /\ WF_vars(Recover \/ StartOver)
  /\ WF_vars(Tick) /\ WF_vars(\E o \in OrderId : BrokerExpires(o))

FairSpec == Spec /\ Fairness

-----------------------------------------------------------------------------
(* Properties.                                                             *)

\* Nothing is under way: no event, no timer, no suspended handler.
AtRest == /\ run.up /\ inbox = <<>> /\ handling = {} /\ ~run.timer /\ ~Managing
          /\ ~run.expiring /\ run.placing > 2 * N

\* At rest, with positions of the active side open and no reversal yet, exactly
\* one reversal order waits per position open at the broker and no initial order
\* does, unless a sync was skipped, cut short or told too little: "after TP1 two
\* parts of the reversal remain, after TP2 one" (docs/DEPLOYMENT_RU.md).
Protected ==
  LET waiting == AtBroker({"pending"})
      open == {o \in AtBroker({"open"}) : Initial(o[1]) /\ Towards(o[1]) = job.active} IN
    AtRest /\ ~slipped /\ clock < 2 /\ ~Reversed /\ open # {} =>
      /\ \A o \in waiting : ~Initial(o[1])
      /\ Cardinality(waiting) = Cardinality(open)

\* What a row says of its order or position happened: a leg marked cancelled
\* never becomes a position, one marked filled or closed was one, whatever
\* handlers, syncs, expiries and restarts overlap; but for a leg that a sync
\* planned again while a handler was about to write the row it had found.
RowsFollow ==
  \A l \in Leg \ forgotten :
    CASE leg[l].status = "CANCELLED" -> StatusAt(l, leg[l].order) = "done"
      [] leg[l].status = "FILLED" -> StatusAt(l, leg[l].position) \in {"open", "done"}
      [] leg[l].status \in {"CLOSED_TP", "CLOSED_SL", "CLOSED_MANUAL"} -> StatusAt(l, leg[l].position) = "done"
      [] OTHER -> TRUE

\* After its management window a job comes to an end, whatever went wrong with
\* it, and no order of it waits any more.
EndsInTime == clock = 2 ~> [](job.status \in Terminal /\ AtBroker({"pending"}) = {})

\* "After TP3 all pending orders are cancelled" (docs/DEPLOYMENT_RU.md): at rest no
\* order waits once every target of one side was reached.
LastTargetClears ==
  \A d \in Direction :
    AtRest /\ ~slipped /\ (\A l \in Leg : Initial(l) /\ Towards(l) = d => leg[l].status = "CLOSED_TP")
      => AtBroker({"pending"}) = {}
=============================================================================
