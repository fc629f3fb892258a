--------------------------- MODULE CTraderWorker ----------------------------
(***************************************************************************)
(* The cTrader Open API worker, CTraderExecutionService of                 *)
(* src/src/ctrader/ctrader-execution.service.ts: several instances of the  *)
(* backend, one job row with its lease, and the broker's account.          *)
(*                                                                         *)
(* A handler runs from one await to the next in one step, so another       *)
(* handler of the same instance, another instance, the user and the broker *)
(* act between its parts.  An operation that first cancels orders and then *)
(* writes the row is two steps (...Begin and ...End).                      *)
(*                                                                         *)
(* MARKET, STRADDLE and MULTI jobs; NEWS_REVERSAL has a module of its own. *)
(***************************************************************************)
EXTENDS JobState, Integers, Sequences, FiniteSets

CONSTANTS Worker,       \* instances of the backend, by their workerId
          None,         \* no owner
          Modes,        \* execution modes a job may have
          MaxLegs,      \* orders of a STRADDLE (2) or of a MULTI job
          MaxTrouble,   \* bound on crashes, disconnects, timeouts, refusals,
                        \* halts and requests of the user, taken together
          LeasesLapse,  \* a lease may lapse although its owner is alive
          CancelsFail,  \* the broker may ignore a cancellation
          Overlap       \* a message may be taken before the last one is handled

ASSUME WorkerAssumption ==
  /\ None \notin Worker
  /\ Modes \subseteq {"MARKET", "STRADDLE", "MULTI"}
  /\ MaxLegs \in Nat \ {0} /\ MaxTrouble \in Nat
  /\ {LeasesLapse, CancelsFail, Overlap} \subseteq BOOLEAN

VARIABLES
  clock,    \* 0 before T - armSeconds, 1 armed window, 2 after expiresAt
  halted,   \* the kill switch
  mode,     \* job.executionMode
  row,      \* the TradeJob row: status, lease, requests of the user
  order,    \* order[l]: what the broker holds for the leg labelled l, or is sent
  doubled,  \* history: a leg was sent while it was live
  at,       \* at[w]: where the start of the job is in instance w
  up,       \* up[w]: w has a Runtime for the job, its socket open
  doing,    \* doing[w]: handlers of w that still have the row to write
  mem,      \* mem[w]: the Runtime and what its handlers have read
  trouble

account == <<order, doubled>>
env     == <<clock, halted, mode, trouble>>
vars    == <<env, row, account, at, up, doing, mem>>

AllLegs == 1 .. MaxLegs
Leg     == IF mode = "MARKET" THEN {1} ELSE AllLegs

\* Statuses the worker takes over when nobody renews their lease.
Running == {"ARMED", "SUBMITTED", "FILLED", "PARTIALLY_FILLED", "MANAGED"}
Filled  == {"FILLED", "PARTIALLY_FILLED", "MANAGED"}

Starting == {"starting", "preparing", "checking", "sending", "waiting", "recording"}
Handler  == {"halt", "cancel", "close", "expire", "reject", "release"}
Message  == ({"fill", "close"} \X AllLegs) \cup ({"reply"} \X Handler)

Row == [status : Status, owner : Worker \cup {None}, lease : {"null", "live", "lapsed"},
        cancelAsked : BOOLEAN, closeAsked : BOOLEAN]

Memory == [snap : Status, leg : AllLegs, timer : BOOLEAN, known : SUBSET AllLegs,
           open : SUBSET AllLegs, filled : BOOLEAN, haltDone : BOOLEAN,
           inbox : Seq(Message), closing : SUBSET AllLegs,
           adding : SUBSET (AllLegs \X {"first", "more", "late"})]

Blank == [snap |-> "SCHEDULED", leg |-> 1, timer |-> FALSE, known |-> {}, open |-> {},
          filled |-> FALSE, haltDone |-> FALSE, inbox |-> <<>>, closing |-> {},
          adding |-> {}]

TypeOK ==
  /\ clock \in 0 .. 2 /\ halted \in BOOLEAN /\ mode \in Modes
  /\ row \in Row
  /\ order \in [AllLegs -> {"none", "sent", "pending", "open", "done"}]
  /\ doubled \in BOOLEAN
  /\ at \in [Worker -> Starting \cup {"idle", "armed", "orphaned"}]
  /\ up \in [Worker -> BOOLEAN]
  /\ doing \in [Worker -> SUBSET Handler]
  /\ mem \in [Worker -> Memory]
  /\ trouble \in 0 .. MaxTrouble

Init ==
  /\ clock = 0 /\ halted = FALSE /\ mode \in Modes /\ trouble = 0
  /\ row = [status |-> "SCHEDULED", owner |-> None, lease |-> "null",
            cancelAsked |-> FALSE, closeAsked |-> FALSE]
  /\ order = [l \in AllLegs |-> "none"] /\ doubled = FALSE
  /\ at = [w \in Worker |-> "idle"] /\ up = [w \in Worker |-> FALSE]
  /\ doing = [w \in Worker |-> {}] /\ mem = [w \in Worker |-> Blank]

-----------------------------------------------------------------------------
(* What the handlers share.                                                *)

Live(l) == order[l] \in {"sent", "pending", "open"}

\* Mutant: reconciliation reads the orders and not the positions.
FoundOrders == {l \in Leg : order[l] = "pending"}

\* What reconciliation finds at the broker under the job's label.
Found == {l \in Leg : order[l] \in {"pending", "open"}}

\* Between a request of an instance and a reconciliation of the next one lies a
\* lease of five seconds at least: by then the broker has handled the request.
Settled == \A l \in AllLegs : order[l] # "sent"

\* Mutant: the leg after the last one.
OnwardPastLast(l) == l + 1

Onward(l) == IF l + 1 \in Leg THEN l + 1 ELSE l

\* Mutant: the status is replaced by id, whatever it is by now.
MovedById(from, to) == [row EXCEPT !.status = to]

\* updateMany on the rows whose status is one of from
Moved(from, to) == [row EXCEPT !.status = IF @ \in from THEN to ELSE @]
Unleased(r)     == [r EXCEPT !.owner = None, !.lease = "null"]

\* A loop over orderIds that cancels each and shrugs errors off.
CancelOrders(legs) ==
  /\ \E S \in IF CancelsFail THEN SUBSET legs ELSE {legs} :
       order' = [l \in AllLegs |-> IF l \in S /\ order[l] = "pending" THEN "done" ELSE order[l]]
  /\ UNCHANGED doubled

\* A start in flight when its socket closes: the next send throws.
Unwound(w) ==
  CASE at[w] \in {"checking", "sending", "waiting"}            -> "orphaned"
    [] at[w] = "recording" /\ mem[w].leg + 1 \in Leg           -> "orphaned"
    [] at[w] \in {"starting", "preparing", "orphaned", "idle"} -> at[w]
    [] OTHER                                                   -> "idle"

\* runtimes.delete and closeRuntime.  A fill still being stored is stored; what
\* was read from the Runtime stays with the handlers that hold it.
Unplug(w) ==
  /\ up' = [up EXCEPT ![w] = FALSE]
  /\ mem' = [mem EXCEPT ![w].timer = FALSE, ![w].known = {}, ![w].inbox = <<>>,
                        ![w].closing = {}, ![w].adding = {<<a[1], "late">> : a \in @}]

finish(w) ==
  IF up[w] THEN Unplug(w) /\ at' = [at EXCEPT ![w] = Unwound(w)]
           ELSE UNCHANGED <<at, up, mem>>

\* Mutant: a Runtime that has filled never counts as flat.
FlatUnfilled(w) == mem[w].open = {} /\ ~mem[w].filled

\* openPositions.size === 0
Flat(w) == mem[w].open = {}

Goes(w, place)  == at' = [at EXCEPT ![w] = place]
Enter(w, h)     == doing' = [doing EXCEPT ![w] = @ \cup {h}]
\* Mutant: the answers to the cancellations are not awaited.
LeaveAtOnce(w, h) == h \in doing[w] /\ doing' = [doing EXCEPT ![w] = @ \ {h}]

Leave(w, h)     == /\ h \in doing[w] /\ doing' = [doing EXCEPT ![w] = @ \ {h}]
                   /\ \A i \in DOMAIN mem[w].inbox : mem[w].inbox[i] # <<"reply", h>>
Trouble         == trouble < MaxTrouble /\ trouble' = trouble + 1
Still           == UNCHANGED <<clock, halted, mode>>
Calm            == Still /\ UNCHANGED trouble

\* Handler h of w asks the broker to cancel what the Runtime knows.  The answer
\* comes behind the events the broker has already sent.
Cancelling(w, h) ==
  /\ h \notin doing[w] /\ Enter(w, h)
  /\ CancelOrders(mem[w].known)
  /\ mem' = [mem EXCEPT ![w].timer = @ /\ h # "expire",
                        ![w].haltDone = @ \/ h = "halt",
                        ![w].inbox = IF mem[w].known = {} THEN @
                                     ELSE Append(@, <<"reply", h>>)]

Answered(w) ==
  /\ mem[w].inbox # <<>> /\ Head(mem[w].inbox)[1] = "reply"
  /\ mem' = [mem EXCEPT ![w].inbox = Tail(@)]
  /\ Calm /\ UNCHANGED <<row, account, at, up, doing>>

\* handleStartFailure of an error that is not transient, and reject up to its write
Fails(w) == Goes(w, "idle") /\ Cancelling(w, "reject")

-----------------------------------------------------------------------------
(* tick and start.                                                         *)

\* Mutant: a lease whose time has passed is not taken over.
FreeUnset == row.lease = "null"

\* leaseExpiresAt is null or past
Free == row.lease # "live"

\* The conditional updateMany that takes the job, SCHEDULED or left by its owner.
tick(w) ==
  /\ at[w] = "idle" /\ ~up[w] /\ clock > 0
  /\ doing[w] \cap {"cancel", "close"} = {}          \* busy
  /\ \/ row.status = "SCHEDULED"
     \/ row.status \in Running /\ Free
  /\ row' = [row EXCEPT !.status = IF @ = "SCHEDULED" THEN "ARMED" ELSE @,
                        !.owner = w, !.lease = "live"]
  /\ Goes(w, "starting")
  /\ mem' = [mem EXCEPT ![w].snap = row.status]
  /\ Calm /\ UNCHANGED <<account, up, doing>>

\* The halt, an account that is disabled or lacks a permission: start throws.
StartRefused(w) ==
  /\ at[w] = "starting"
  /\ IF halted THEN UNCHANGED trouble ELSE Trouble
  /\ Fails(w) /\ Still /\ UNCHANGED <<row, up>>

\* The position limit, the estimated risk or the margin: start throws.
PreflightRefused(w) ==
  /\ at[w] = "preparing" /\ Trouble
  /\ Fails(w) /\ Still /\ UNCHANGED <<row, up>>

\* start finds labelled orders or positions and builds a Runtime from them.
Recover(w) ==
  /\ at[w] = "starting" /\ ~halted
  /\ Settled /\ Found # {}
  /\ Goes(w, "idle")
  /\ up' = [up EXCEPT ![w] = TRUE]
  /\ mem' = [mem EXCEPT ![w].timer = TRUE, ![w].haltDone = FALSE,
               ![w].known = {l \in Found : order[l] = "pending"},
               ![w].open = {l \in Found : order[l] = "open"},
               ![w].filled = \E l \in Found : order[l] = "open"]
  /\ Calm /\ UNCHANGED <<row, account, doing>>

\* start finds nothing at the broker: the read status decides.
Nothing(w) == at[w] = "starting" /\ ~halted /\ Settled /\ Found = {}

CloseStale(w) ==
  /\ Nothing(w) /\ mem[w].snap \in Filled
  /\ row' = Moved(Filled, "CLOSED")
  /\ Goes(w, "idle")
  /\ Calm /\ UNCHANGED <<account, up, doing, mem>>

StartLost(w) ==
  /\ Nothing(w) /\ mem[w].snap = "SUBMITTED"
  /\ Fails(w) /\ Calm /\ UNCHANGED <<row, up>>

Prepare(w) ==
  /\ Nothing(w) /\ mem[w].snap \in {"SCHEDULED", "ARMED"}
  /\ Goes(w, "preparing")
  /\ Calm /\ UNCHANGED <<row, account, up, doing, mem>>

\* The Runtime is set, the quote has come; MARKET waits for its timer.
Ready(w) ==
  /\ at[w] = "preparing"
  /\ Goes(w, IF mode = "MARKET" THEN "armed" ELSE "checking")
  /\ up' = [up EXCEPT ![w] = TRUE]
  /\ mem' = [mem EXCEPT ![w].leg = 1, ![w].known = {}, ![w].open = {}, ![w].filled = FALSE,
                        ![w].haltDone = FALSE]
  /\ Calm /\ UNCHANGED <<row, account, doing>>

Execute(w) ==
  /\ at[w] = "armed"
  /\ Goes(w, "checking")
  /\ Calm /\ UNCHANGED <<row, account, up, doing, mem>>

-----------------------------------------------------------------------------
(* place.                                                                  *)

Check(w) ==
  /\ at[w] = "checking"
  /\ IF halted THEN Fails(w)
               ELSE Goes(w, "sending") /\ UNCHANGED <<account, doing, mem>>
  /\ Calm /\ UNCHANGED <<row, up>>

\* The request leaves; the broker handles it later, see Accepts and Refuses.
Send(w) ==
  /\ at[w] = "sending"
  /\ Goes(w, "waiting")
  /\ order' = [order EXCEPT ![mem[w].leg] = "sent"]
  /\ doubled' = (doubled \/ Live(mem[w].leg))
  /\ Calm /\ UNCHANGED <<row, up, doing, mem>>

\* The broker's answer: the order is accepted, or it is refused.
Reply(w) ==
  /\ at[w] = "waiting" /\ order[mem[w].leg] \notin {"sent", "none"}
  /\ Goes(w, "recording")
  /\ Calm /\ UNCHANGED <<row, account, up, doing, mem>>

SendRefused(w) ==
  /\ at[w] = "waiting" /\ order[mem[w].leg] = "none"
  /\ Fails(w) /\ Calm /\ UNCHANGED <<row, up>>

\* The row is SUBMITTED, the orderId is known; the next leg, or the timers.
Record(w) ==
  /\ at[w] = "recording"
  /\ row' = Moved({"ARMED", "SUBMITTED"}, "SUBMITTED")
  /\ LET l == mem[w].leg
         more == l + 1 \in Leg IN
       /\ Goes(w, IF more THEN "checking" ELSE "idle")
       /\ mem' = IF mode = "MARKET" \/ ~up[w] THEN mem
                 ELSE [mem EXCEPT ![w].known = @ \cup {l}, ![w].timer = ~more,
                                  ![w].leg = Onward(l)]
  /\ Calm /\ UNCHANGED <<account, up, doing>>

\* A start that outlived its socket: send throws "cTrader socket is not open".
Orphaned(w) ==
  /\ at[w] = "orphaned"
  /\ Goes(w, "idle") /\ Enter(w, "reject")
  /\ Calm /\ UNCHANGED <<row, account, up, mem>>

RejectEnd(w) ==
  /\ Leave(w, "reject")
  /\ row' = Moved({"ARMED", "SUBMITTED"}, "REJECTED")
  /\ finish(w) /\ Calm /\ UNCHANGED account

-----------------------------------------------------------------------------
(* onMessage.  A fill is counted at once, then the row is written, and only *)
(* then are the position and the sibling dealt with.                       *)

Takes(w, kind) ==
  /\ up[w] /\ mem[w].inbox # <<>> /\ Head(mem[w].inbox)[1] = kind
  /\ Overlap \/ (mem[w].adding = {} /\ mem[w].closing = {})

FillSeen(w) ==
  /\ Takes(w, "fill")
  /\ ~(at[w] = "waiting" /\ mem[w].leg = Head(mem[w].inbox)[2])   \* accepted first
  /\ mem' = [mem EXCEPT ![w].inbox = Tail(@), ![w].filled = TRUE,
               ![w].adding = @ \cup {<<Head(mem[w].inbox)[2],
                                      IF mem[w].filled THEN "more" ELSE "first">>}]
  /\ Calm /\ UNCHANGED <<row, account, at, up, doing>>

\* The other order of the pair, as far as the Runtime knows it.
Sibling(w, l) == IF mode = "STRADDLE" THEN mem[w].known \ {l} ELSE {}

FillDone(w) ==
  /\ \E a \in mem[w].adding :
       /\ row' = Moved({"ARMED", "SUBMITTED", "PARTIALLY_FILLED"}, "FILLED")
       /\ IF a[2] = "late"
          THEN /\ mem' = [mem EXCEPT ![w].adding = @ \ {a}]
               /\ UNCHANGED account
          ELSE /\ mem' = [mem EXCEPT ![w].adding = @ \ {a}, ![w].open = @ \cup {a[1]}]
               /\ CancelOrders(IF a[2] = "first" THEN Sibling(w, a[1]) ELSE {})
  /\ Calm /\ UNCHANGED <<at, up, doing>>

CloseSeen(w) ==
  /\ Takes(w, "close")
  /\ LET l == Head(mem[w].inbox)[2] IN
       mem' = [mem EXCEPT ![w].inbox = Tail(@), ![w].open = @ \ {l},
                          ![w].closing = @ \cup {l}]
  /\ Calm /\ UNCHANGED <<row, account, at, up, doing>>

CloseDone(w) ==
  /\ \E l \in mem[w].closing :
       IF Flat(w) /\ clock = 2
       THEN row' = Moved(Filled \cup {"CLOSED"}, "CLOSED") /\ finish(w)
       ELSE /\ mem' = [mem EXCEPT ![w].closing = @ \ {l}]
            /\ UNCHANGED <<row, at, up>>
  /\ Calm /\ UNCHANGED <<account, doing>>

-----------------------------------------------------------------------------
(* Timers, the kill switch and the user's requests.                        *)

ExpireBegin(w) ==
  /\ up[w] /\ mem[w].timer /\ clock = 2
  /\ Cancelling(w, "expire")
  /\ Calm /\ UNCHANGED <<row, at, up>>

ExpireEnd(w) ==
  /\ Leave(w, "expire")
  /\ IF ~mem[w].filled
     THEN row' = Moved({"ARMED", "SUBMITTED"}, "EXPIRED") /\ finish(w)
     ELSE IF Flat(w)
     THEN row' = Moved(Filled, "CLOSED") /\ finish(w)
     ELSE UNCHANGED <<row, at, up, mem>>
  /\ Calm /\ UNCHANGED account

KillBegin(w) ==
  /\ halted /\ up[w] /\ ~mem[w].haltDone
  /\ Goes(w, IF at[w] = "armed" THEN "idle" ELSE at[w])     \* the execute timer
  /\ Cancelling(w, "halt")
  /\ Calm /\ UNCHANGED <<row, up>>

KillEnd(w) ==
  /\ Leave(w, "halt")
  /\ IF mem[w].filled
     THEN /\ mem' = [mem EXCEPT ![w].known = {}]
          /\ UNCHANGED <<row, at, up>>
     ELSE /\ row' = IF row.status \in {"ARMED", "SUBMITTED"}
                    THEN Unleased(Moved({"ARMED", "SUBMITTED"}, "CANCELLED")) ELSE row
          /\ finish(w)
  /\ Calm /\ UNCHANGED account

\* enforceUserRequests runs inside tick, one job after the other.
UserBegin(w, h) ==
  /\ up[w] /\ doing[w] \cap {"cancel", "close"} = {}
  /\ IF row.closeAsked THEN h = "close" ELSE row.cancelAsked /\ h = "cancel"
  /\ Cancelling(w, h)
  /\ Calm /\ UNCHANGED <<row, at, up>>

\* The positions found are closed, those whose closing fails left as they are; no
\* failure is reported, and without a socket none is found.  The row is CLOSED.
UserCloseEnd(w) ==
  /\ Leave(w, "close")
  /\ \E S \in SUBSET {l \in AllLegs : up[w] /\ order[l] = "open"} :
       order' = [l \in AllLegs |-> IF l \in S THEN "done" ELSE order[l]]
  /\ row' = [Unleased(row) EXCEPT !.status = "CLOSED", !.cancelAsked = FALSE,
                                  !.closeAsked = FALSE]
  /\ finish(w) /\ Calm /\ UNCHANGED doubled

UserCancelEnd(w) ==
  /\ Leave(w, "cancel")
  /\ IF Flat(w)
     THEN /\ row' = [Unleased(row) EXCEPT !.status = "CANCELLED", !.cancelAsked = FALSE]
          /\ finish(w)
     ELSE /\ row' = [row EXCEPT !.cancelAsked = FALSE]
          /\ mem' = [mem EXCEPT ![w].known = {}]
          /\ UNCHANGED <<at, up>>
  /\ Calm /\ UNCHANGED account

-----------------------------------------------------------------------------
(* Trouble.                                                                *)

\* The socket closes: handleDisconnect, and a pending request fails as transient.
Disconnect(w) ==
  /\ up[w] /\ Trouble
  /\ Unplug(w) /\ Goes(w, IF at[w] = "waiting" THEN "idle" ELSE Unwound(w))
  /\ Enter(w, "release")
  /\ Still /\ UNCHANGED <<row, account>>

\* A request that is not answered: handleStartFailure of a transient error.
TimedOut(w) ==
  /\ at[w] \in {"starting", "preparing", "waiting"} /\ Trouble
  /\ IF up[w] THEN Unplug(w) ELSE UNCHANGED <<up, mem>>
  /\ Goes(w, "idle") /\ Enter(w, "release")
  /\ Still /\ UNCHANGED <<row, account>>

Owned(w) == row.owner = w

\* The lease is given up, to end in five seconds.
Release(w) ==
  /\ Leave(w, "release")
  /\ row' = IF Owned(w) /\ row.status \in Running
            THEN [row EXCEPT !.owner = None, !.lease = "live"] ELSE row
  /\ Calm /\ UNCHANGED <<account, at, up, mem>>

Crash(w) ==
  /\ (up[w] \/ at[w] # "idle" \/ doing[w] # {}) /\ Trouble
  /\ Goes(w, "idle") /\ up' = [up EXCEPT ![w] = FALSE]
  /\ doing' = [doing EXCEPT ![w] = {}] /\ mem' = [mem EXCEPT ![w] = Blank]
  /\ Still /\ UNCHANGED <<row, account>>

\* Mutant: only jobs with a Runtime are renewed, not those being started.
RenewsRunning(w) == up[w]

\* renewLeases: the jobs of runtimes and of startingJobs
Renews(w) ==
  \/ up[w]
  \/ at[w] \in {"starting", "preparing"}
  \/ at[w] \in Starting \cup {"orphaned"} /\ mode # "MARKET"

\* A lease nobody renews runs out; a database call takes less time than that.
LeaseLapses ==
  /\ row.lease = "live"
  /\ \/ LeasesLapse
     \/ \A w \in Worker : /\ row.owner = w => ~Renews(w)
                          /\ doing[w] = {} /\ at[w] # "orphaned"
  /\ row' = [row EXCEPT !.lease = "lapsed"]
  /\ Calm /\ UNCHANGED <<account, at, up, doing, mem>>

-----------------------------------------------------------------------------
(* The user, the administrator, time and the broker.                       *)

Quiet == UNCHANGED <<at, up, doing>>

Tick ==
  /\ clock < 2 /\ clock' = clock + 1
  /\ Quiet /\ UNCHANGED <<halted, mode, trouble, row, account, mem>>

SetHalt ==
  /\ halted' = ~halted
  /\ IF halted THEN UNCHANGED trouble ELSE Trouble
  /\ Quiet /\ UNCHANGED <<clock, mode, row, account, mem>>

\* cancelForTelegramUser and requestCloseForTelegramUser on a cTrader job
Ask ==
  /\ row.status \in Active /\ Trouble
  /\ \/ /\ row.status = "SCHEDULED" /\ clock = 0
        /\ row' = [row EXCEPT !.status = "CANCELLED"]
     \/ row.status # "SCHEDULED" /\ row' = [row EXCEPT !.cancelAsked = TRUE]
     \/ row' = [row EXCEPT !.closeAsked = TRUE]
  /\ Still /\ Quiet /\ UNCHANGED <<account, mem>>

Told(kind, l) ==
  mem' = [w \in Worker |-> IF up[w]
            THEN [mem[w] EXCEPT !.inbox = Append(@, <<kind, l>>)] ELSE mem[w]]

\* A pending order arrives after its expiry.
TooLate == clock = 2 /\ mode # "MARKET"

Accepts(l) ==
  /\ order[l] = "sent" /\ ~TooLate
  /\ order' = [order EXCEPT ![l] = "pending"]
  /\ Calm /\ Quiet /\ UNCHANGED <<doubled, row, mem>>

\* The broker refuses a request, or one whose sender is gone never reached it.
Refuses(l) ==
  /\ order[l] = "sent"
  /\ IF TooLate \/ \A w \in Worker : at[w] = "waiting" => mem[w].leg # l
     THEN UNCHANGED trouble ELSE Trouble
  /\ order' = [order EXCEPT ![l] = "none"]
  /\ Still /\ Quiet /\ UNCHANGED <<doubled, row, mem>>

Fill(l) ==
  /\ order[l] = "pending"
  /\ order' = [order EXCEPT ![l] = "open"]
  /\ Told("fill", l)
  /\ Calm /\ Quiet /\ UNCHANGED <<doubled, row>>

Stopped(l) ==
  /\ order[l] = "open"
  /\ order' = [order EXCEPT ![l] = "done"]
  /\ Told("close", l)
  /\ Calm /\ Quiet /\ UNCHANGED <<doubled, row>>

BrokerExpires(l) ==
  /\ order[l] = "pending" /\ mode # "MARKET" /\ clock = 2
  /\ order' = [order EXCEPT ![l] = "done"]
  /\ Calm /\ Quiet /\ UNCHANGED <<doubled, row, mem>>

-----------------------------------------------------------------------------
Start(w) == \/ StartRefused(w) \/ PreflightRefused(w) \/ Recover(w) \/ CloseStale(w)
            \/ StartLost(w) \/ Prepare(w) \/ Ready(w) \/ Execute(w) \/ Check(w) \/ Send(w)
            \/ Reply(w) \/ SendRefused(w) \/ Record(w) \/ Orphaned(w)

\* The rest of what an instance does on its own.
Handle(w) == \/ FillSeen(w) \/ FillDone(w) \/ CloseSeen(w) \/ CloseDone(w)
             \/ ExpireBegin(w) \/ ExpireEnd(w) \/ KillBegin(w) \/ KillEnd(w)
             \/ Answered(w) \/ UserBegin(w, "close") \/ UserCloseEnd(w)
             \/ UserBegin(w, "cancel") \/ UserCancelEnd(w)
             \/ RejectEnd(w) \/ Release(w)

Next ==
  \/ \E w \in Worker : \/ tick(w) \/ Start(w) \/ Handle(w)
                       \/ Disconnect(w) \/ TimedOut(w) \/ Crash(w)
  \/ LeaseLapses \/ Tick \/ SetHalt \/ Ask
  \/ \E l \in Leg : Accepts(l) \/ Refuses(l) \/ Fill(l) \/ Stopped(l) \/ BrokerExpires(l)

Spec == Init /\ [][Next]_vars

\* The timers of a running instance fire, its handlers are run to their end, the
\* clock goes on, the broker handles a request, and a position is closed by its
\* stop or target in the end.
Fairness ==
  /\ \A w \in Worker : WF_vars(tick(w)) /\ WF_vars(Start(w)) /\ WF_vars(Handle(w))
  /\ WF_vars(LeaseLapses) /\ WF_vars(Tick)
  /\ \A l \in AllLegs : /\ WF_vars(l \in Leg /\ (Accepts(l) \/ Refuses(l)))
                         /\ WF_vars(l \in Leg /\ Stopped(l))

FairSpec == Spec /\ Fairness

-----------------------------------------------------------------------------
(* Properties.                                                             *)

\* w runs the job: it has a Runtime, or is on the way to one.
Holds(w) == up[w] \/ at[w] \in {"starting", "preparing"}

\* While the leases of running instances are renewed, two instances never run
\* one job: "multiple backend instances cannot submit it concurrently".
Exclusive == \A v, w \in Worker : Holds(v) /\ Holds(w) => v = w

\* A leg is never sent while a request, an order or a position of it is live at
\* the broker, whichever instance sends it and whatever went wrong before.  A leg
\* that is over is another matter, see LegSentOnce.
NeverDoubled == ~doubled

\* An instance that ends a job as expired, its socket open, leaves nothing at
\* the broker: an order that filled before the cancellation has been seen.
ExpiredIsTrue ==
  [][\A w \in Worker :
       /\ up[w] /\ "expire" \in doing[w] \ doing'[w]
       /\ row.status # "EXPIRED" /\ row'.status = "EXPIRED"
       => \A l \in Leg : ~Live(l)]_vars

\* The leases and conditional updates together keep the promise of JobCustody:
\* the job passes from nobody to one instance and back to nobody, and once its
\* row is terminal it stays so and no instance takes it up.
Holder  == IF \E w \in Worker : Holds(w) THEN CHOOSE w \in Worker : Holds(w) ELSE None
Ended   == row.status \in Terminal
Custody == INSTANCE JobCustody WITH holder <- Holder, ended <- Ended
RefinesCustody == Custody!Spec

\* A running job nobody runs is taken up again: a crash, a lost socket or a
\* failed start does not leave it behind.
TakenUp == (row.status \in Running /\ \A w \in Worker : ~Holds(w))
             ~> (row.status \in Terminal \/ \E w \in Worker : Holds(w))

Over  == clock = 2 /\ \A l \in Leg : ~Live(l)
Freed == row.status \in Terminal /\ \A w \in Worker : ~up[w]

\* Once nothing of a STRADDLE or MULTI job is at the broker after its window, the
\* job ends and its socket is given back, unless trading stays halted.  A MARKET
\* job has no expiry timer and need not end, see MarketEnds.
DoneEnds == <>[]~halted => ((mode # "MARKET" /\ Over) ~> Freed)

-----------------------------------------------------------------------------
(* Not kept by the code, see section 3 of the README.                      *)

\* "Halting ... cancels pending cTrader entries" (src/README.md): a job the kill
\* switch or the user cancelled leaves no entry at the broker.
CancelledLeavesNoEntry ==
  row.status = "CANCELLED" => \A l \in Leg : order[l] # "pending"

\* "User closed positions and cancelled pending orders" (the message of the job
\* an instance with a socket closes): it leaves no position at the broker.
ClosedLeavesNoPosition ==
  [][\A w \in Worker : up[w] /\ "close" \in doing[w] \ doing'[w]
       => \A l \in Leg : order'[l] # "open"]_vars

\* A leg is sent once: one that filled and closed within the window, before the
\* row said so, is not sent again by the instance that takes the job over.
LegSentOnce ==
  [][\A l \in Leg : clock < 2 /\ order[l] = "done" => order'[l] # "sent"]_vars

\* A MARKET job too ends once its order is over after its window.
MarketEnds ==
  <>[]~halted => ((mode = "MARKET" /\ Over /\ \E l \in Leg : order[l] = "done") ~> Freed)
=============================================================================
