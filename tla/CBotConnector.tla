--------------------------- MODULE CBotConnector ---------------------------
(***************************************************************************)
(* The cTrader cBot, src/ctrader/cbots/TradeTmConnector/TradeTmConnector.cs *)
(* (one class), with one job, its broker account and the row the backend   *)
(* keeps of the job.                                                       *)
(*                                                                         *)
(* The cBot has one thread.  A call of the broker blocks it, and while it  *)
(* waits the platform may run another handler: the source says so by its   *)
(* flags (_busy, InitialBasketPlacementInProgress, RollbackInProgress).    *)
(* So the thread is a stack of suspended handlers; each step runs the top  *)
(* one up to its next blocking call, and an event may put a handler on it. *)
(***************************************************************************)
EXTENDS JobState, Integers, Sequences, SequencesExt

CONSTANTS Modes,      \* execution modes a job may have
          Levels,     \* orders of a basket on one side
          Depth,      \* handlers on the thread at once
          Outbox,     \* reports that may wait for a connection (500)
          Backlog,    \* bound on events not handled yet when the market makes another
          MaxRefused  \* bound on refused orders; a broken connection, a restart or a
                      \* request of the user counts as that many

ASSUME ConnectorAssumption ==
  /\ Modes \subseteq {"MARKET", "STRADDLE", "MULTI", "NEWS_REVERSAL"}
  /\ {Levels, Depth, Backlog} \subseteq Nat \ {0} /\ {Outbox, MaxRefused} \subseteq Nat

VARIABLES
  mode,       \* job.executionMode
  now,        \* 0 | armAt 1 | submitAt of pending orders 2 | executeAt 3 |
              \* expiresAt 4 | managementExpiresAt, and a minute past expiresAt 5
  server,     \* the backend: status of the row, requests of the user, acceptNewJobs
  link,       \* the WebSocket: "up", "broken" (not noticed yet), "down"
  outbox,     \* _reportOutbox: the phases of the reports that wait
  job,        \* _jobs: whether the job is known, its DTO's requests
  accepting,  \* _acceptNewJobs
  rt,         \* the flags of its JobRuntime
  stack,      \* the handlers on the thread, the running one last
  order,      \* order[o]: what the broker holds under the label o
  events,     \* Filled and Closed events not handled yet
  doubled,    \* history: labels accepted while an order or position had them
  nested,     \* history: the job ended while another handler of it was suspended
  crossed,    \* history: a reversal was tried while an earlier try was being rolled back
  restarted,  \* history: the cBot has been stopped since the job was created
  trouble

wire    == <<link, outbox, server>>
memory  == <<job, accepting, rt>>
account == <<order, events, doubled>>
world   == <<mode, now, nested, crossed, restarted, trouble>>
vars    == <<wire, memory, account, world, stack>>

-----------------------------------------------------------------------------
(* Orders are known by their labels: leg (initial or reversal), side and   *)
(* level.                                                                  *)
Side     == {"BUY", "SELL"}
None     == "none"
Opposite == [s \in Side |-> IF s = "BUY" THEN "SELL" ELSE "BUY"]
Order    == [leg : {"I", "R"}, side : Side, level : 1 .. Levels]
Label(leg, side, level) == [leg |-> leg, side |-> side, level |-> level]

Legs == CASE mode = "MARKET"   -> <<Label("I", "BUY", 1)>>
          [] mode = "STRADDLE" -> <<Label("I", "BUY", 1), Label("I", "SELL", 1)>>
          [] OTHER -> [i \in 1 .. 2 * Levels |->
                         Label("I", IF i % 2 = 1 THEN "BUY" ELSE "SELL", (i + 1) \div 2)]

ReversalLegs(trigger) == [i \in 1 .. Levels |-> Label("R", Opposite[trigger], i)]

Pending == {o \in Order : order[o] = "pending"}
Open    == {o \in Order : order[o] = "open"}

\* Mutant: pending orders alone do not count.
ExposedOpen == Open # {}

\* HasExposure
Exposed == Pending \cup Open # {}

\* The broker takes an order; a label may be in use already.
Take(o, state) ==
  /\ order' = [order EXCEPT ![o] = state]
  /\ doubled' = IF order[o] = None THEN doubled ELSE doubled \cup {o}
  /\ UNCHANGED events

\* CancelWhere: an order is cancelled unless it has filled meanwhile.
Without(orders) == [o \in Order |-> IF o \in orders THEN None ELSE order[o]]
Cancel(orders)  == order' = Without(orders \cap Pending) /\ UNCHANGED <<events, doubled>>

\* ClosePosition of each; the events follow.
ClosePositions(orders) ==
  /\ order' = Without(orders \cap Open)
  /\ events' = events \o SetToSeq({<<"closed", o>> : o \in orders \cap Open})
  /\ UNCHANGED doubled

Refused == trouble < MaxRefused /\ trouble' = trouble + 1
Trouble == trouble = 0 /\ trouble' = MaxRefused

-----------------------------------------------------------------------------
(* The backend.  A report takes effect as soon as it is sent on a          *)
(* connection that is up; one on a broken connection is lost.              *)
Deadline == IF mode = "NEWS_REVERSAL" THEN 5 ELSE 4

AtBroker == {"SUBMITTED", "PARTIALLY_FILLED", "FILLED", "MANAGED"}

Applied(status, phase) ==
  LET next == StatusForPhase(phase) IN
  IF next # NoStatus /\ CanTransition(status, next) THEN next ELSE status

Received(phases) == [server EXCEPT !.status = FoldLeft(Applied, @, phases)]

\* Mutant: the limit is compared before the report is counted.
KeptOneMore(reports) == SubSeq(reports, 1, Min({Len(reports), Outbox + 1}))

\* What the outbox cannot hold is dropped.
Kept(reports) == SubSeq(reports, 1, Min({Len(reports), Outbox}))

\* Reports are sent, those that waited first, or join those that wait.
Send(waiting, phases) ==
  /\ server' = IF link = "up" THEN Received(waiting \o phases) ELSE server
  /\ outbox' = IF link # "down" THEN SubSeq(outbox, Len(waiting) + 1, Len(outbox))
               ELSE Kept(outbox \o phases)
  /\ UNCHANGED link

Report(phases) == Send(<<>>, phases)

\* CbotService.poll: the sweep of jobs a minute past expiresAt, and the list.
Swept == IF now = 5 /\ server.status \in {"SCHEDULED", "SYNCED", "ARMED"} THEN "MISSED"
         ELSE server.status

Listed == /\ Swept \in {"ARMED"} \cup AtBroker
                       \cup (IF server.accept THEN {"SCHEDULED", "SYNCED"} ELSE {})
          /\ now < Deadline \/ Swept \in AtBroker

\* Poll, its answer and ApplyPoll.  A job the answer omits stays as it is.
Poll ==
  /\ link = "up"
  /\ server' = [server EXCEPT !.status = IF Listed /\ Swept = "SCHEDULED" THEN "SYNCED" ELSE Swept]
  /\ accepting' = server.accept
  /\ job' = IF Listed THEN [known |-> TRUE, cancel |-> server.cancel, close |-> server.close] ELSE job
  /\ UNCHANGED <<link, outbox, rt, account, world, stack>>

-----------------------------------------------------------------------------
(* The thread.  A suspended handler goes on at a place (at), with the side  *)
(* of a trigger, the next order to place and what became of those before,   *)
(* the instant its pass read, the phase to report, and whether it is _busy. *)
Handler == [at : {"due", "place", "placed", "rollback", "check", "closing",
                  "begin", "reverse", "reversed", "unwind"},
            side : Side \cup {None}, next : 1 .. 2 * Levels,
            got : {"all", "transient", "permanent"}, since : 0 .. 5,
            phase : {None, "CANCELLED", "CLOSED"}, busy : BOOLEAN]

Start(place) == [at |-> place, side |-> None, next |-> 1, got |-> "all", since |-> 0,
                 phase |-> None, busy |-> TRUE]
Begin(side)  == [Start("begin") EXCEPT !.side = side, !.busy = FALSE]

Top         == Last(stack)
At(place)   == stack # <<>> /\ Top.at = place
Becomes(h)  == stack' = Append(Front(stack), h)
Goes(place) == Becomes([Top EXCEPT !.at = place])
Returns     == stack' = Front(stack)
Busy        == \E i \in DOMAIN stack : stack[i].busy
Room        == Len(stack) < Depth

NewRuntime == [armed |-> FALSE, submitted |-> FALSE, terminal |-> FALSE,
               attempts |-> 0, wait |-> FALSE, placing |-> FALSE, rollback |-> FALSE,
               placed |-> FALSE, failed |-> FALSE, reversing |-> FALSE,
               tries |-> 0, pause |-> FALSE, trigger |-> None, deferred |-> None]

Ends(r)      == [r EXCEPT !.terminal = TRUE]
Submitted(r) == [r EXCEPT !.submitted = TRUE]

\* One order of a basket is placed: accepted in that state, or refused with an
\* error the source takes for passing or for permanent.
Places(o, state, last, after) ==
  LET on(got) == Becomes([Top EXCEPT !.got = got,
                                     !.next = IF last THEN 1 ELSE @ + 1,
                                     !.at = IF last THEN after ELSE @])
  IN \/ Take(o, state) /\ on(Top.got) /\ UNCHANGED trouble
     \/ \E error \in {"transient", "permanent"} :
          on(IF Top.got = "all" THEN error ELSE Top.got) /\ Refused /\ UNCHANGED account

-----------------------------------------------------------------------------
(* OnTimer: FlushReportOutbox, then ProcessJobs.  Pass is what they have in *)
(* common; a connection that is known to be down ends the handler at once.  *)
Pass == link # "down" /\ ~Busy /\ Room /\ UNCHANGED <<job, accepting, world>>

Says(phases) == Send(outbox, phases)
Suspend(h)   == stack' = Append(stack, h)

Settled == ~job.known \/ rt.terminal
Wanted  == ~Settled /\ ~job.close /\ ~job.cancel
Over    == mode = "NEWS_REVERSAL" /\ now = 5

NoJob == Pass /\ Settled /\ Says(<<>>) /\ UNCHANGED <<rt, account, stack>>

\* CloseExposure, CancelPending and the end of the management window: the
\* orders are cancelled.
CloseAsked ==
  /\ Pass /\ ~Settled /\ job.close
  /\ Says(<<>>) /\ Cancel(Order) /\ Suspend(Start("closing")) /\ UNCHANGED rt

CancelAsked ==
  /\ Pass /\ ~Settled /\ ~job.close /\ job.cancel
  /\ Says(<<>>) /\ Cancel(Order)
  /\ Suspend([Start("check") EXCEPT !.phase = "CANCELLED"]) /\ UNCHANGED rt

ManagementEnds ==
  /\ Pass /\ Wanted /\ accepting /\ Over
  /\ Says(<<>>) /\ Cancel(Order)
  /\ Suspend([Start("check") EXCEPT !.phase = "CLOSED"]) /\ UNCHANGED rt

\* ... then those positions are closed, or looked for.
CloseAll ==
  /\ At("closing") /\ Returns
  /\ ClosePositions(Order)
  /\ IF Pending = {} THEN Report(<<"CLOSED">>) /\ rt' = Ends(rt) ELSE UNCHANGED <<rt, wire>>
  /\ UNCHANGED <<job, accepting, world>>

Check ==
  /\ At("check") /\ Returns
  /\ IF Open = {} THEN Report(<<Top.phase>>) /\ rt' = Ends(rt) ELSE UNCHANGED <<rt, wire>>
  /\ UNCHANGED <<job, accepting, account, world>>

\* New entries are disabled: nothing is said of a submitted job.
Disabled ==
  /\ Pass /\ Wanted /\ ~accepting /\ UNCHANGED stack
  /\ IF rt.submitted THEN Says(<<>>) /\ Cancel(Order) /\ UNCHANGED rt
     ELSE Says(<<"CANCELLED">>) /\ rt' = Ends(rt) /\ UNCHANGED account

-----------------------------------------------------------------------------
(* The rest of ProcessJobs: arming, ProcessReversalRetry, then the initial *)
(* orders.                                                                 *)
Arms  == ~rt.armed /\ now >= 1
Armed == [rt EXCEPT !.armed = @ \/ Arms]
Arming == IF Arms THEN <<"ARMED">> ELSE <<>>

RetryDue == ~rt.placed /\ ~rt.failed /\ ~rt.reversing /\ rt.tries > 0 /\ ~rt.pause

\* TryPlaceReversal runs on top of the pass.
Retry ==
  /\ Pass /\ Wanted /\ accepting /\ ~Over /\ RetryDue
  /\ rt' = Armed /\ Says(Arming)
  /\ stack' = stack \o <<[Start("due") EXCEPT !.since = now], Begin(rt.trigger)>>
  /\ UNCHANGED account

SubmitAt == IF mode = "MARKET" THEN 3 ELSE 2
NotYet(t) == rt.submitted \/ t < SubmitAt \/ rt.wait
InTime(t) == ~NotYet(t) /\ t < 4
\* A job is too late after expiresAt, a market order after maxLatenessMs.
Late(t)   == ~NotYet(t) /\ (t >= 4 \/ (mode = "MARKET" /\ t = 3))

\* Submit ends without an order: not now, too late, refused by a check of the
\* account, or the orders are there from before a restart.
Declines(t, phases) ==
  \/ NotYet(t) /\ phases = <<>>
  \/ Late(t) /\ phases = <<"MISSED">>
  \/ InTime(t) /\ phases = <<"PREFLIGHT_REJECTED">>
  \/ InTime(t) /\ Exposed /\ phases = <<"SUBMITTED">>

Declined(r, phases) ==
  CASE phases = <<>> -> r
    [] phases = <<"SUBMITTED">> -> Submitted(r)
    [] OTHER -> Ends(Submitted(r))

Submits(t) == InTime(t) /\ ~Exposed

Placing(r) == [r EXCEPT !.submitted = TRUE, !.attempts = @ + 1,
                        !.placing = (mode = "NEWS_REVERSAL")]

Outcomes == {<<>>, <<"MISSED">>, <<"PREFLIGHT_REJECTED">>, <<"SUBMITTED">>}

Due ==
  /\ Pass /\ Wanted /\ accepting /\ ~Over /\ ~RetryDue /\ UNCHANGED account
  /\ \/ \E phases \in Outcomes :
          /\ Declines(now, phases) /\ rt' = Declined(Armed, phases)
          /\ Says(Arming \o phases) /\ UNCHANGED stack
     \/ /\ Submits(now) /\ rt' = Placing(Armed)
        /\ Says(Arming) /\ Suspend(Start("place"))

\* The same after the retry, at the instant the pass had read.
DueAfterRetry ==
  /\ At("due") /\ UNCHANGED <<job, accepting, account, world>>
  /\ \/ \E phases \in Outcomes :
          /\ Declines(Top.since, phases) /\ rt' = Declined(rt, phases)
          /\ Report(phases) /\ Returns
     \/ Submits(Top.since) /\ rt' = Placing(rt) /\ Goes("place") /\ UNCHANGED wire

\* PlaceMarket, PlaceStop, PlaceMulti, PlaceInitialReversalBasket.
Place ==
  /\ At("place")
  /\ Places(Legs[Top.next], IF mode = "MARKET" THEN "open" ELSE "pending",
            Top.next = Len(Legs), "placed")
  /\ UNCHANGED <<wire, memory, mode, now, nested, crossed, restarted>>

\* BeginReversal up to its second call: the initial orders of the other side
\* are cancelled.
MayBegin == ~rt.placed /\ ~rt.failed /\ ~(rt.tries > 0 /\ rt.pause)

Against(trigger) == {o \in Order : o.leg = "I" /\ o.side # trigger}

\* All orders of the basket were accepted; a fill that came meanwhile is
\* followed now.
Accepted ==
  /\ At("placed") /\ Top.got = "all"
  /\ rt' = [rt EXCEPT !.placing = FALSE]
  /\ Report(IF mode = "MARKET" THEN <<"SUBMITTED", "FILLED">> ELSE <<"SUBMITTED">>)
  /\ IF mode = "NEWS_REVERSAL" /\ rt.deferred # None /\ MayBegin
     THEN Cancel(Against(rt.deferred)) /\ Becomes([Top EXCEPT !.at = "begin", !.side = rt.deferred])
     ELSE Returns /\ UNCHANGED account
  /\ UNCHANGED <<job, accepting, world>>

\* RollbackLeg: first the orders ...
Rejected ==
  /\ At("placed") /\ Top.got # "all"
  /\ rt' = [rt EXCEPT !.placing = FALSE, !.rollback = TRUE]
  /\ Cancel(Order) /\ Goes("rollback")
  /\ UNCHANGED <<wire, job, accepting, world>>

\* Mutant: a rollback leaves what has filled.
RolledBackOrders(orders) == UNCHANGED account

\* ... then the positions.
RolledBack(orders) == ClosePositions(orders)

Retries == mode = "NEWS_REVERSAL" /\ rt.attempts < 3 /\ Top.got = "transient" /\ now < 3

Rollback ==
  /\ At("rollback") /\ Returns
  /\ RolledBack(Order)
  /\ LET done == [rt EXCEPT !.rollback = FALSE, !.deferred = None] IN
     IF Retries
     THEN rt' = [done EXCEPT !.submitted = FALSE, !.wait = TRUE] /\ Report(<<"ERROR">>)
     ELSE rt' = Ends(done) /\ Report(<<"REJECTED">>)
  /\ UNCHANGED <<job, accepting, world>>

-----------------------------------------------------------------------------
(* The reversal basket.                                                    *)

\* The backend gives a NEWS_REVERSAL job one reversal, and other jobs the same by
\* default; it never asks for none.
MaxReversals == 1

\* TryPlaceReversal places nothing if the job allows no reversal, or a basket
\* stands or is being placed.
TryPlace ==
  /\ At("begin")
  /\ IF MaxReversals >= 1 /\ ~rt.placed /\ ~rt.reversing
     THEN /\ rt' = [rt EXCEPT !.reversing = TRUE, !.trigger = Top.side, !.tries = @ + 1]
          /\ Becomes([Top EXCEPT !.at = "reverse", !.next = 1, !.got = "all"])
          /\ crossed' = (crossed \/ \E i \in DOMAIN stack : stack[i].at = "unwind")
     ELSE Returns /\ UNCHANGED <<rt, crossed>>
  /\ UNCHANGED <<wire, job, accepting, account, mode, now, nested, restarted, trouble>>

\* PlaceReversalOrder: a market order if the price is there already.
TryReversalOrder ==
  /\ At("reverse")
  /\ \E state \in {"pending", "open"} :
       Places(ReversalLegs(Top.side)[Top.next], state, Top.next = Levels, "reversed")
  /\ UNCHANGED <<wire, memory, mode, now, nested, crossed, restarted>>

Reversals == {o \in Order : o.leg = "R"}

Reversed ==
  /\ At("reversed")
  /\ IF Top.got = "all"
     THEN /\ rt' = [rt EXCEPT !.reversing = FALSE, !.placed = TRUE, !.deferred = None]
          /\ Report(<<"ACCEPTED">>) /\ Returns /\ UNCHANGED account
     ELSE /\ rt' = [rt EXCEPT !.reversing = FALSE, !.rollback = TRUE]
          /\ Cancel(Reversals) /\ Goes("unwind") /\ UNCHANGED wire
  /\ UNCHANGED <<job, accepting, world>>

Unwind ==
  /\ At("unwind") /\ Returns
  /\ RolledBack(Reversals)
  /\ LET done == [rt EXCEPT !.rollback = FALSE] IN
     IF rt.tries < 3 /\ Top.got = "transient" /\ now < 5
     THEN rt' = [done EXCEPT !.pause = TRUE] /\ Report(<<"ERROR">>) /\ UNCHANGED nested
     ELSE LET failed == [done EXCEPT !.failed = TRUE] IN
          IF Pending = {} /\ Open \subseteq Reversals
          THEN rt' = Ends(failed) /\ Report(<<"ERROR", "CLOSED">>) /\ nested' = (nested \/ Len(stack) > 1)
          ELSE rt' = failed /\ Report(<<"ERROR">>) /\ UNCHANGED nested
  /\ UNCHANGED <<job, accepting, mode, now, crossed, restarted, trouble>>

-----------------------------------------------------------------------------
(* Events, handled in turn when the thread is free or waits for the broker. *)
Hears(kind, o) == events # <<>> /\ Head(events) = <<kind, o>> /\ events' = Tail(events)

\* RuntimeForLabel finds no job.
HearNothing ==
  /\ ~job.known
  /\ \E o \in Order, kind \in {"filled", "closed"} : Hears(kind, o)
  /\ UNCHANGED <<wire, memory, order, doubled, world, stack>>

\* OnPendingFilled: a fill is reported; one of a pair cancels the other side.
FilledHere(o) == Hears("filled", o) /\ job.known /\ Report(<<"FILLED">>)

Starts(o) == mode = "NEWS_REVERSAL" /\ o.leg = "I" /\ ~rt.placed

FillPlain(o) ==
  /\ FilledHere(o) /\ ~Starts(o)
  /\ order' = IF mode = "STRADDLE" THEN Without({p \in Pending : p.side # o.side}) ELSE order
  /\ UNCHANGED <<memory, doubled, world, stack>>

\* The first fills of a news reversal start the reversal basket, or leave it
\* to Submit, which is still placing the orders.
FillStarts(o) ==
  /\ FilledHere(o) /\ Starts(o)
  /\ rt' = [rt EXCEPT !.deferred = o.side]
  /\ IF ~rt.placing /\ MayBegin
     THEN /\ Room /\ order' = Without(Against(o.side) \cap Pending)
          /\ stack' = Append(stack, Begin(o.side))
     ELSE UNCHANGED <<order, stack>>
  /\ UNCHANGED <<job, accepting, doubled, world>>

\* OnPositionClosed: not during a rollback, nor while a basket is to be tried again.
Deaf == \/ rt.rollback
        \/ mode = "NEWS_REVERSAL" /\ ~rt.submitted /\ rt.attempts \in 1 .. 2
        \/ mode = "NEWS_REVERSAL" /\ rt.tries > 0 /\ ~rt.placed /\ ~rt.failed

Close(o) ==
  /\ Hears("closed", o) /\ job.known
  /\ IF ~Deaf /\ ~Exposed
     THEN Report(<<"CLOSED">>) /\ rt' = Ends(rt) /\ nested' = (nested \/ stack # <<>>)
     ELSE UNCHANGED <<rt, wire, nested>>
  /\ UNCHANGED <<job, accepting, order, doubled, mode, now, crossed, restarted, trouble, stack>>

-----------------------------------------------------------------------------
(* The connection, the terminal, the broker, the user, the clock.          *)
Break ==
  /\ link = "up" /\ link' = "broken" /\ Trouble
  /\ UNCHANGED <<server, outbox, memory, account, mode, now, nested, crossed, restarted, stack>>

Notice ==
  /\ link = "broken" /\ link' = "down"
  /\ UNCHANGED <<server, outbox, memory, account, world, stack>>

Connect ==
  /\ link = "down" /\ link' = "up"
  /\ UNCHANGED <<server, outbox, memory, account, world, stack>>

Unknown == [known |-> FALSE, cancel |-> FALSE, close |-> FALSE]

\* OnStop and OnStart: nothing but the broker's orders survives.
Restart ==
  /\ Trouble /\ restarted' = TRUE
  /\ link' = "down" /\ outbox' = <<>> /\ UNCHANGED server
  /\ job' = Unknown /\ accepting' = TRUE /\ rt' = NewRuntime
  /\ stack' = <<>> /\ events' = <<>>
  /\ UNCHANGED <<order, doubled, mode, now, nested, crossed>>

\* NextInitialAttemptAt and NextReversalAttemptAt pass, 300 ms later: the events
\* of the moment have been handled by then.
PauseEnds ==
  /\ rt.wait \/ rt.pause
  /\ events = <<>>
  /\ rt' = [rt EXCEPT !.wait = FALSE, !.pause = FALSE]
  /\ UNCHANGED <<wire, job, accepting, account, world, stack>>

Fill(o) ==
  /\ order[o] = "pending" /\ Len(events) < Backlog
  /\ order' = [order EXCEPT ![o] = "open"] /\ events' = Append(events, <<"filled", o>>)
  /\ UNCHANGED <<wire, memory, doubled, world, stack>>

StopOrTarget(o) ==
  /\ order[o] = "open" /\ Len(events) < Backlog
  /\ order' = [order EXCEPT ![o] = None] /\ events' = Append(events, <<"closed", o>>)
  /\ UNCHANGED <<wire, memory, doubled, world, stack>>

\* The expiry the cBot gives every order; it has no handler for it.
Expire(o) ==
  /\ order[o] = "pending" /\ now >= (IF o.leg = "I" THEN 4 ELSE 5)
  /\ order' = [order EXCEPT ![o] = None]
  /\ UNCHANGED <<wire, memory, events, doubled, world, stack>>

\* cancelForTelegramUser and requestCloseForTelegramUser.
UserCancels ==
  /\ server' = IF server.status \in {"SCHEDULED", "SYNCED"}
               THEN IF now < 1 THEN [server EXCEPT !.status = "CANCELLED"] ELSE server
               ELSE IF server.status \in Active THEN [server EXCEPT !.cancel = TRUE] ELSE server
  /\ server' # server /\ Trouble
  /\ UNCHANGED <<link, outbox, memory, account, mode, now, nested, crossed, restarted, stack>>

UserCloses ==
  /\ server.status \in Active /\ ~server.close
  /\ server' = [server EXCEPT !.close = TRUE] /\ Trouble
  /\ UNCHANGED <<link, outbox, memory, account, mode, now, nested, crossed, restarted, stack>>

\* acceptNewJobs: the switch, or a subscription that ends.
Halt ==
  /\ server.accept /\ Trouble
  /\ server' = [server EXCEPT !.accept = FALSE]
  /\ UNCHANGED <<link, outbox, memory, account, mode, now, nested, crossed, restarted, stack>>

Resume ==
  /\ ~server.accept
  /\ server' = [server EXCEPT !.accept = TRUE]
  /\ UNCHANGED <<link, outbox, memory, account, world, stack>>

Tick ==
  /\ now < 5 /\ now' = now + 1
  /\ UNCHANGED <<wire, memory, account, mode, nested, crossed, restarted, trouble, stack>>

-----------------------------------------------------------------------------
Init ==
  /\ mode \in Modes /\ now = 0 /\ nested = FALSE /\ crossed = FALSE /\ restarted = FALSE /\ trouble = 0
  /\ server = [status |-> "SCHEDULED", accept |-> TRUE, cancel |-> FALSE, close |-> FALSE]
  /\ link = "down" /\ outbox = <<>>
  /\ job = Unknown /\ accepting = TRUE /\ rt = NewRuntime /\ stack = <<>>
  /\ order = [o \in Order |-> None] /\ events = <<>> /\ doubled = {}

Jobs    == NoJob \/ CloseAsked \/ CancelAsked \/ ManagementEnds \/ Disabled \/ Retry \/ Due
Basket  == CloseAll \/ Check \/ DueAfterRetry \/ Place \/ Accepted \/ Rejected \/ Rollback
Turn    == TryPlace \/ TryReversalOrder \/ Reversed \/ Unwind
Listen  == HearNothing \/ \E o \in Order : FillPlain(o) \/ FillStarts(o) \/ Close(o)
Network == Poll \/ Connect \/ Break \/ Notice
Broker  == \E o \in Order : Fill(o) \/ StopOrTarget(o) \/ Expire(o)
User    == UserCancels \/ UserCloses \/ Halt \/ Resume

Next == \/ Jobs \/ Basket \/ Turn \/ Listen
        \/ Network \/ Broker \/ User \/ Restart \/ PauseEnds \/ Tick

Spec == Init /\ [][Next]_vars

-----------------------------------------------------------------------------
(* Properties.                                                             *)
Live == Pending \cup Open

Runtime == [armed : BOOLEAN, submitted : BOOLEAN, terminal : BOOLEAN,
            attempts : 0 .. MaxRefused + 1, wait : BOOLEAN, placing : BOOLEAN,
            rollback : BOOLEAN, placed : BOOLEAN, failed : BOOLEAN, reversing : BOOLEAN,
            tries : 0 .. MaxRefused + 1, pause : BOOLEAN,
            trigger : Side \cup {None}, deferred : Side \cup {None}]

Row == [status : Status, accept : BOOLEAN, cancel : BOOLEAN, close : BOOLEAN]

\* Types; a basket is tried once more than it was refused at most.
TypeOK ==
  /\ mode \in Modes /\ now \in 0 .. 5 /\ trouble \in 0 .. MaxRefused
  /\ server \in Row /\ link \in {"up", "broken", "down"}
  /\ Len(outbox) <= Outbox /\ outbox \in Seq(Phase)
  /\ job \in [known : BOOLEAN, cancel : BOOLEAN, close : BOOLEAN]
  /\ {accepting, nested, crossed, restarted} \subseteq BOOLEAN /\ rt \in Runtime
  /\ Len(stack) <= Depth + 1 /\ stack \in Seq(Handler)
  /\ order \in [Order -> {None, "pending", "open"}]
  /\ events \in Seq({"filled", "closed"} \X Order) /\ doubled \subseteq Order

\* Nothing is placed twice: no label is used while an order or position has it,
\* restarts included for the initial orders, and reversal orders are of one
\* side, so that a second initial fill starts no second basket.
NothingTwice ==
  /\ \A o \in doubled : o.leg = "R" /\ (restarted \/ crossed)
  /\ ~restarted /\ ~crossed => \A o, p \in Live \cap Reversals : o.side = p.side

\* The end of a job, once reported, leaves nothing of its basket at the broker.
EndLeavesNoEntry == rt.terminal /\ ~restarted /\ ~nested => \A o \in Live : o.leg = "R"

\* Not kept: while the cBot is not restarted no label is used twice, so that there
\* is a single reversal basket (src/docs/SUBSCRIPTIONS_RU.md:114-115).
SingleBasket == ~restarted => doubled = {}

\* Not kept: after the first fill is handled, no initial order of the other side
\* remains (src/docs/SUBSCRIPTIONS_RU.md:115-116).
OtherSideGoes ==
  mode \in {"STRADDLE", "NEWS_REVERSAL"} /\ stack = <<>> /\ events = <<>> /\ ~restarted =>
    \A o \in Open, p \in Pending : o.leg = "I" /\ p.leg = "I" => o.side = p.side

\* Not kept: a job whose row is CANCELLED gets no new order (src/README.md:90).
CancelledPlacesNothing ==
  [][server.status = "CANCELLED" => \A o \in Order : order[o] = None => order'[o] = None]_vars

\* Not kept: a rejected job has nothing at the broker
\* (src/ctrader/cbots/TradeTmConnector/README_RU.md:65).
RejectedLeavesNothing == server.status = "REJECTED" => Live = {}
=============================================================================
