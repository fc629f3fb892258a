------------------------------ MODULE Mt5Agent ------------------------------
(***************************************************************************)
(* The MetaTrader 5 Expert Advisor, src/mt5/Experts/NewsTraderAgent.mq5,   *)
(* with the terminal's broker account and the write-ahead ledger on disk.  *)
(*                                                                         *)
(* The EA is single threaded: OnTimer and OnTradeTransaction run to their  *)
(* end one after the other, and deals that happen meanwhile wait in the    *)
(* event queue.  The broker and the clock do not wait: an OrderSend or a   *)
(* WebRequest blocks the EA while orders fill and time passes, so a        *)
(* handler is a sequence of steps (the variable step).  The terminal may   *)
(* stop between any two of them; g_jobs and the event queue are lost, the  *)
(* ledger and the broker's state are not.                                  *)
(*                                                                         *)
(* The account is a hedging one, where every filled leg is a position of   *)
(* its own.  Reports of phase ERROR move no status and are left out.       *)
(***************************************************************************)
EXTENDS Integers, FiniteSets, Sequences

CONSTANTS Job,
          Mode,          \* [Job -> {"MARKET", "STRADDLE", "MULTI"}]
          Levels,        \* multi_trades_per_side
          ArmAt,         \* [Job -> Nat], execute_at - arm_seconds
          ExecuteAt,     \* [Job -> Nat]
          Lateness,      \* max_lateness_ms
          ExpiresAt,     \* [Job -> Nat]
          MaxTime,       \* bound on the clock
          MaxCrashes,    \* bound on the terminal's stops
          LedgerFaults,  \* may opening the ledger for reading fail?
          LostAcks,      \* may OrderSend report failure for an accepted order?
          RemovalsFail   \* may the broker refuse to remove an order or to close?

ASSUME AgentAssumption ==
  /\ Mode \in [Job -> {"MARKET", "STRADDLE", "MULTI"}]
  /\ Levels \in Nat \ {0}
  /\ ArmAt \in [Job -> Nat]
  /\ ExecuteAt \in [Job -> Nat]
  /\ ExpiresAt \in [Job -> Nat]
  /\ Lateness \in Nat
  /\ MaxTime \in Nat
  /\ MaxCrashes \in Nat
  /\ LedgerFaults \in BOOLEAN
  /\ LostAcks \in BOOLEAN
  /\ RemovalsFail \in BOOLEAN

VARIABLES
  now,       \* the trade server's clock
  crashes,   \* how often the terminal has stopped
  cancelled, \* the jobs the user has cancelled at the backend
  step,      \* where the EA is in its present handler
  local,     \* local[j]: g_jobs[].state, NONE for a job not in g_jobs
  hasFill,   \* the jobs with has_fill set
  ticket,    \* ticket[j]: the legs whose order tickets g_jobs knows
  events,    \* deals waiting for OnTradeTransaction
  ledger,    \* the job ids in the ledger file
  leg,       \* leg[j][l]: the broker's view of leg l of job j
  accepted,  \* accepted[j][l]: orders the broker has accepted for that leg
  mail       \* the reports sent by the last step

agent  == <<step, local, hasFill, ticket, events>>
broker == <<leg, accepted>>
vars   == <<now, crashes, cancelled, agent, ledger, broker, mail>>

-----------------------------------------------------------------------------
(* Legs are numbered in the order they are sent: 1 is the market order or  *)
(* the first Buy Stop, 2 the first Sell Stop, 3 and 4 the second level.    *)

Leg == 1 .. 2 * Levels

PendingMode(j) == Mode[j] \in {"STRADDLE", "MULTI"}

LegStates == {"none", "pending", "open", "closed", "removed"}

LastLeg(j) == CASE Mode[j] = "MARKET"   -> 1
                [] Mode[j] = "STRADDLE" -> 2
                [] OTHER                -> 2 * Levels

LegsIn(j, s) == {l \in Leg : leg[j][l] = s}

Off  == [at |-> "off"]
Idle == [at |-> "idle"]
Boot == [at |-> "boot"]

Timer(clock)            == [at |-> "timer", clock |-> clock]
Loop(clock, todo)       == [at |-> "loop", clock |-> clock, todo |-> todo]
Execute(j, clock, todo) == [at |-> "execute", job |-> j, clock |-> clock, todo |-> todo]
Send(j, l, attempt, clock, todo) ==
  [at |-> "send", job |-> j, leg |-> l, attempt |-> attempt,
   clock |-> clock, todo |-> todo]

Step ==
  {Off, Idle, Boot}
    \cup {Timer(c) : c \in 0 .. MaxTime}
    \cup {Loop(c, todo) : c \in 0 .. MaxTime, todo \in SUBSET Job}
    \cup {Execute(j, c, todo) : j \in Job, c \in 0 .. MaxTime, todo \in SUBSET Job}
    \cup {Send(j, l, a, c, todo) : j \in Job, l \in Leg, a \in {1, 2},
                                   c \in 0 .. MaxTime, todo \in SUBSET Job}

Event  == [job : Job, leg : Leg, entry : {"in", "out"}]
Report == [job : Job,
           phase : {"ARMED", "PREFLIGHT_REJECTED", "SUBMITTED", "PARTIALLY_FILLED",
                    "FILLED", "REJECTED", "CANCELLED", "CLOSED", "MISSED"},
           why : {"", "withdrawn", "expired", "recovered"}]

Letter(j, phase)         == [job |-> j, phase |-> phase, why |-> ""]
LetterWhy(j, phase, why) == [job |-> j, phase |-> phase, why |-> why]

TypeOK ==
  /\ now \in 0 .. MaxTime
  /\ crashes \in 0 .. MaxCrashes
  /\ cancelled \subseteq Job
  /\ step \in Step
  /\ local \in [Job -> {"NONE", "SYNCED", "ARMED", "SUBMITTED", "FINAL"}]
  /\ hasFill \subseteq Job
  /\ ticket \in [Job -> SUBSET Leg]
  /\ events \in Seq(Event)
  /\ ledger \subseteq Job
  /\ leg \in [Job -> [Leg -> LegStates]]
  /\ accepted \in [Job -> [Leg -> Nat]]
  /\ mail \subseteq Report

Init ==
  /\ now = 0
  /\ crashes = 0
  /\ cancelled = {}
  /\ step = Boot
  /\ local = [j \in Job |-> "NONE"]
  /\ hasFill = {}
  /\ ticket = [j \in Job |-> {}]
  /\ events = <<>>
  /\ ledger = {}
  /\ leg = [j \in Job |-> [l \in Leg |-> "none"]]
  /\ accepted = [j \in Job |-> [l \in Leg |-> 0]]
  /\ mail = {}

\* Back to the ProcessJobs loop, which ends the handler with its last job.
Resume(todo) == IF todo = {} THEN Idle ELSE Loop(step.clock, todo)

Become(j, s) == local' = [local EXCEPT ![j] = s]

\* A deal is queued for the EA while the EA runs, and lost otherwise.
Queued(e) == IF step = Off THEN events ELSE Append(events, e)

-----------------------------------------------------------------------------
(* DeletePendingOrder: an order that is no longer pending is left alone;   *)
(* the broker may refuse to remove the others, and nothing is tried again. *)

Remaining(ls) == IF RemovalsFail THEN SUBSET ls ELSE {{}}

\* Mutant: only the Buy Stop's ticket is passed to DeletePendingOrder.
DeletedBuyOnly(legs, j, ls) ==
  {[legs EXCEPT ![j] = [l \in Leg |-> IF l \in ls \cap {1} /\ @[l] = "pending"
                                         THEN "removed" ELSE @[l]]]}

\* The ways the legs of job j can look once the orders ls have been deleted.
Deleted(legs, j, ls) ==
  LET pending == {l \in ls : legs[j][l] = "pending"}
  IN  {[legs EXCEPT ![j] = [l \in Leg |-> IF l \in pending \ kept THEN "removed" ELSE @[l]]]
         : kept \in Remaining(pending)}

-----------------------------------------------------------------------------
(* The terminal starts and stops. *)

\* OnInit: g_jobs is empty, and the first PollJobs follows.
Start ==
  /\ step = Off
  /\ step' = Boot
  /\ mail' = {}
  /\ UNCHANGED <<now, crashes, cancelled, local, hasFill, ticket, events, ledger, broker>>

Crash ==
  /\ step # Off
  /\ crashes < MaxCrashes
  /\ crashes' = crashes + 1
  /\ step' = Off
  /\ local' = [j \in Job |-> "NONE"]
  /\ hasFill' = {}
  /\ ticket' = [j \in Job |-> {}]
  /\ events' = <<>>
  /\ mail' = {}
  /\ UNCHANGED <<now, cancelled, ledger, broker>>

-----------------------------------------------------------------------------
(* OnTimer: RefreshTimeAnchor, PollJobs, ProcessJobs. *)

\* ServerTimeMilliseconds never runs more than 999 ms ahead of the anchor taken
\* here, so this is the time ProcessJobs goes by, however long the calls block.
OnTimer ==
  /\ step = Idle
  /\ step' = Timer(now)
  /\ mail' = {}
  /\ UNCHANGED <<now, crashes, cancelled, local, hasFill, ticket, events, ledger, broker>>

\* PollJobs: the answer brings jobs that have not expired and withdraws jobs
\* that were cancelled.  A poll that fails, or is not due, brings nothing.
PollJobs(new, withdrawn) ==
  /\ step = Boot \/ step.at = "timer"
  /\ new \subseteq {j \in Job : local[j] = "NONE" /\ now < ExpiresAt[j]} \ cancelled
  /\ withdrawn \subseteq {j \in cancelled : local[j] \in {"SYNCED", "ARMED"}}
  /\ local' = [j \in Job |-> IF j \in new THEN "SYNCED"
                             ELSE IF j \in withdrawn THEN "FINAL"
                             ELSE local[j]]
  /\ mail' = {LetterWhy(j, "CANCELLED", "withdrawn") : j \in withdrawn}
  /\ LET todo == {j \in Job : local'[j] \notin {"NONE", "FINAL"}}
     IN  step' = IF step = Boot \/ todo = {} THEN Idle ELSE Loop(step.clock, todo)
  /\ UNCHANGED <<now, crashes, cancelled, hasFill, ticket, events, ledger, broker>>

-----------------------------------------------------------------------------
(* ProcessJobs visits every job that is not final. *)

Visits(j) == step.at = "loop" /\ j \in step.todo

Others(j) == step.todo \ {j}

\* The pending window of a job at the broker has passed.
Expire(j) ==
  /\ Visits(j)
  /\ PendingMode(j) /\ local[j] = "SUBMITTED"
  /\ step.clock >= ExpiresAt[j]
  /\ leg' \in Deleted(leg, j, ticket[j])
  /\ mail' = IF j \in hasFill THEN {} ELSE {LetterWhy(j, "CANCELLED", "expired")}
  /\ Become(j, "FINAL")
  /\ step' = Resume(Others(j))
  /\ UNCHANGED <<now, crashes, cancelled, hasFill, ticket, events, ledger, accepted>>

\* Mutant: the ledger is written but never read.
LedgerUnread(j) == {FALSE}

\* LedgerContains answers no when the file cannot be opened.
LedgerAnswers(j) == {j \in ledger} \cup (IF LedgerFaults THEN {FALSE} ELSE {})

\* A pending job executes as soon as it is armed; a market job is looked at
\* once more in the same pass.
Arm(j) ==
  /\ Visits(j)
  /\ local[j] = "SYNCED" /\ step.clock >= ArmAt[j]
  /\ FALSE \in LedgerAnswers(j)
  /\ mail' = {Letter(j, "ARMED")}
  /\ Become(j, "ARMED")
  /\ step' = IF PendingMode(j) THEN Execute(j, step.clock, Others(j)) ELSE step
  /\ UNCHANGED <<now, crashes, cancelled, hasFill, ticket, events, ledger, broker>>

\* Mutant: a ledger entry is taken for an execution.
FoundAnyway(j) == IF LegsIn(j, "closed") # {} THEN {"CLOSED"} ELSE {"SUBMITTED", "FILLED"}

\* FindClosedExecution, then FindExistingExecution: both look for deals of the
\* job, not for pending orders.
Found(j) == CASE LegsIn(j, "closed") # {} -> {"CLOSED"}
              [] LegsIn(j, "closed") = {} /\ LegsIn(j, "open") # {} -> {"SUBMITTED", "FILLED"}
              [] OTHER -> {"MISSED"}

RecoverLedgerJob(j) ==
  /\ mail' = {LetterWhy(j, phase, "recovered") : phase \in Found(j)}
  /\ Become(j, "FINAL")
  /\ UNCHANGED <<hasFill, ticket, leg>>

\* RecoverStraddleJob finds a position, the whole pair, or half of it; the
\* ticket of a leg that is no longer pending stays unknown.
RecoverStraddleJob(j) ==
  LET pending == LegsIn(j, "pending")
  IN  /\ ticket' = [ticket EXCEPT ![j] = pending]
      /\ \/ /\ LegsIn(j, "open") # {}
            /\ hasFill' = hasFill \cup {j}
            /\ leg' \in Deleted(leg, j, pending)
            /\ Become(j, "SUBMITTED")
            /\ mail' = {LetterWhy(j, "FILLED", "recovered")}
         \/ /\ LegsIn(j, "open") = {}
            /\ Cardinality(pending) = 2
            /\ Become(j, "SUBMITTED")
            /\ mail' = {LetterWhy(j, "SUBMITTED", "recovered")}
            /\ UNCHANGED <<hasFill, leg>>
         \/ /\ LegsIn(j, "open") = {}
            /\ Cardinality(pending) = 1
            /\ leg' \in Deleted(leg, j, pending)
            /\ Become(j, "FINAL")
            /\ mail' = {LetterWhy(j, "CANCELLED", "recovered")}
            /\ UNCHANGED hasFill

Recover(j) ==
  /\ Visits(j)
  /\ local[j] = "SYNCED" /\ step.clock >= ArmAt[j]
  /\ TRUE \in LedgerAnswers(j)
  /\ IF Mode[j] = "STRADDLE" /\ LegsIn(j, "open") \cup LegsIn(j, "pending") # {}
       THEN RecoverStraddleJob(j)
       ELSE RecoverLedgerJob(j)
  /\ step' = Resume(Others(j))
  /\ UNCHANGED <<now, crashes, cancelled, events, ledger, accepted>>

Late(j) == step.clock > ExecuteAt[j] + Lateness

Due(j) ==
  /\ Visits(j)
  /\ Mode[j] = "MARKET" /\ local[j] = "ARMED"
  /\ step.clock >= ExecuteAt[j] /\ ~Late(j)
  /\ step' = Execute(j, step.clock, Others(j))
  /\ mail' = {}
  /\ UNCHANGED <<now, crashes, cancelled, local, hasFill, ticket, events, ledger, broker>>

Miss(j) ==
  /\ Visits(j)
  /\ Mode[j] = "MARKET" /\ local[j] = "ARMED"
  /\ step.clock >= ExecuteAt[j] /\ Late(j)
  /\ mail' = {Letter(j, "MISSED")}
  /\ Become(j, "FINAL")
  /\ step' = Resume(Others(j))
  /\ UNCHANGED <<now, crashes, cancelled, hasFill, ticket, events, ledger, broker>>

\* Nothing to do for the job yet.
Skip(j) ==
  /\ Visits(j)
  /\ \/ local[j] = "SYNCED" /\ step.clock < ArmAt[j]
     \/ local[j] = "ARMED" /\ step.clock < ExecuteAt[j]
     \/ local[j] = "SUBMITTED" /\ (PendingMode(j) => step.clock < ExpiresAt[j])
  /\ step' = Resume(Others(j))
  /\ mail' = {}
  /\ UNCHANGED <<now, crashes, cancelled, local, hasFill, ticket, events, ledger, broker>>

-----------------------------------------------------------------------------
(* ExecuteJob: Preflight, OrderCheck and the ledger may each reject; only   *)
(* then is anything sent.                                                   *)

Reject ==
  /\ step.at = "execute"
  /\ mail' = {Letter(step.job, "PREFLIGHT_REJECTED")}
  /\ Become(step.job, "FINAL")
  /\ step' = Resume(step.todo)
  /\ UNCHANGED <<now, crashes, cancelled, hasFill, ticket, events, ledger, broker>>

\* Mutant: the first leg is numbered from zero.
FirstLegZero == 0

FirstLeg == 1

AppendLedger ==
  /\ step.at = "execute"
  /\ ledger' = ledger \cup {step.job}
  /\ Become(step.job, "SUBMITTED")
  /\ step' = Send(step.job, FirstLeg, 1, step.clock, step.todo)
  /\ mail' = {}
  /\ UNCHANGED <<now, crashes, cancelled, hasFill, ticket, events, broker>>

\* What the broker made of an order the EA sees rejected.
Rejected == {"rejected"} \cup (IF LostAcks THEN {"lost"} ELSE {})

Counted(j, l, outcome) ==
  accepted' = IF outcome = "rejected" THEN accepted
              ELSE [accepted EXCEPT ![j][l] = @ + 1]

\* What the EA reports of the answer to a market order.
MarketPhases(outcome) ==
  CASE outcome \in Rejected  -> {"REJECTED"}
    [] outcome = "placed"  -> {"SUBMITTED"}
    [] outcome = "partial" -> {"SUBMITTED", "PARTIALLY_FILLED"}
    [] OTHER               -> {"SUBMITTED", "FILLED"}

SendMarket(outcome) ==
  LET j == step.job
  IN  /\ step.at = "send" /\ Mode[j] = "MARKET"
      /\ outcome \in {"done", "partial", "placed"} \cup Rejected
      /\ Counted(j, 1, outcome)
      /\ leg' = [leg EXCEPT ![j][1] = CASE outcome = "rejected" -> @
                                        [] outcome = "placed"   -> "pending"
                                        [] OTHER                -> "open"]
      /\ events' = IF outcome \in {"rejected", "placed"} THEN events
                   ELSE Queued([job |-> j, leg |-> 1, entry |-> "in"])
      /\ mail' = {Letter(j, phase) : phase \in MarketPhases(outcome)}
      /\ IF outcome \in {"placed", "partial"} THEN UNCHANGED local ELSE Become(j, "FINAL")
      /\ step' = Resume(step.todo)
      /\ UNCHANGED <<now, crashes, cancelled, hasFill, ticket, ledger>>

\* The legs after an order for leg l of job j has been sent.
SentLeg(j, l, outcome) ==
  IF outcome = "rejected" THEN leg ELSE [leg EXCEPT ![j][l] = "pending"]

Onward(l, attempt) == Send(step.job, l, attempt, step.clock, step.todo)

\* ExecuteStraddle: the buy, then the sell; a rejected sell takes the buy back.
SendStraddle(outcome) ==
  LET j == step.job
      l == step.leg
      sent == SentLeg(j, l, outcome)
  IN  /\ step.at = "send" /\ Mode[j] = "STRADDLE"
      /\ outcome \in {"placed"} \cup Rejected
      /\ Counted(j, l, outcome)
      /\ \/ /\ outcome = "placed" /\ l = 1
            /\ leg' = sent
            /\ ticket' = [ticket EXCEPT ![j] = @ \cup {1}]
            /\ step' = Onward(2, 1)
            /\ mail' = {}
            /\ UNCHANGED local
         \/ /\ outcome = "placed" /\ l = 2
            /\ leg' \in Deleted(sent, j, IF j \in hasFill THEN {2} ELSE {})
            /\ ticket' = [ticket EXCEPT ![j] = @ \cup {2}]
            /\ step' = Resume(step.todo)
            /\ mail' = {Letter(j, "SUBMITTED")}
            /\ UNCHANGED local
         \/ /\ outcome \in Rejected
            /\ leg' \in Deleted(sent, j, ticket[j])
            /\ step' = Resume(step.todo)
            /\ mail' = {Letter(j, "REJECTED")}
            /\ Become(j, "FINAL")
            /\ UNCHANGED ticket
      /\ UNCHANGED <<now, crashes, cancelled, hasFill, events, ledger>>

\* ExecuteMulti: every leg is tried twice and a leg that fails is skipped.
SendMulti(outcome) ==
  LET j == step.job
      l == step.leg
      again == outcome \in Rejected /\ step.attempt = 1
      over  == ~again /\ l = LastLeg(j)
  IN  /\ step.at = "send" /\ Mode[j] = "MULTI"
      /\ outcome \in {"placed"} \cup Rejected
      /\ Counted(j, l, outcome)
      /\ leg' = SentLeg(j, l, outcome)
      /\ ticket' = IF outcome = "placed" THEN [ticket EXCEPT ![j] = @ \cup {l}] ELSE ticket
      /\ step' = IF again THEN Onward(l, 2)
                 ELSE IF over THEN Resume(step.todo)
                 ELSE Onward(l + 1, 1)
      /\ IF over /\ ticket'[j] = {}
           THEN Become(j, "FINAL") /\ mail' = {Letter(j, "REJECTED")}
           ELSE UNCHANGED local /\ mail' = IF outcome = "placed" \/ over
                                             THEN {Letter(j, "SUBMITTED")} ELSE {}
      /\ UNCHANGED <<now, crashes, cancelled, hasFill, events, ledger>>

-----------------------------------------------------------------------------
(* OnTradeTransaction: the next queued deal, when the EA is free. *)

Deal == Head(events)

\* Mutant: the ticket that filled is taken for the sibling's.
SiblingItself(j, l) == l

\* The transaction's order is the Buy Stop's ticket or else the Sell Stop's.
Sibling(j, l) == IF l = 1 /\ 1 \in ticket[j] THEN 2 ELSE 1

Handles ==
  /\ step = Idle
  /\ events # <<>>
  /\ UNCHANGED <<now, crashes, cancelled, step, ticket, ledger, accepted>>

DealOut ==
  /\ Handles
  /\ Deal.entry = "out"
  /\ LET j == Deal.job
     IN  IF local[j] = "NONE" THEN mail' = {} /\ UNCHANGED local
         ELSE /\ mail' = {Letter(j, "CLOSED")}
              /\ IF Mode[j] = "MARKET" THEN Become(j, "FINAL") ELSE UNCHANGED local
  /\ events' = Tail(events)
  /\ UNCHANGED <<hasFill, leg>>

Known(j) == local[j] = "SUBMITTED"

DealInIgnored ==
  /\ Handles
  /\ Deal.entry = "in" /\ ~Known(Deal.job)
  /\ mail' = {}
  /\ events' = Tail(events)
  /\ UNCHANGED <<local, hasFill, leg>>

DealIn ==
  /\ Handles
  /\ Deal.entry = "in" /\ Known(Deal.job) /\ Mode[Deal.job] # "STRADDLE"
  /\ mail' = {Letter(Deal.job, "FILLED")}
  /\ IF Mode[Deal.job] = "MARKET" THEN Become(Deal.job, "FINAL") ELSE UNCHANGED local
  /\ events' = Tail(events)
  /\ UNCHANGED <<hasFill, leg>>

\* CloseDoubleFillPosition closes the position of the deal at hand.
MayClose(j, l) ==
  {[leg EXCEPT ![j][l] = s] : s \in IF RemovalsFail THEN {"open", "closed"} ELSE {"closed"}}

\* The sibling of a first fill is deleted; a second fill is closed at once.
DealInStraddle ==
  LET j       == Deal.job
      l       == Deal.leg
      closes  == j \in hasFill /\ leg[j][l] = "open"
      sibling == {Sibling(j, l)} \cap ticket[j]
  IN  /\ Handles
      /\ Deal.entry = "in" /\ Known(j) /\ Mode[j] = "STRADDLE"
      /\ mail' = {Letter(j, "FILLED")}
      /\ hasFill' = hasFill \cup {j}
      /\ \E legs \in IF closes THEN MayClose(j, l) ELSE {leg} :
           /\ leg' \in Deleted(legs, j, sibling)
           /\ events' = IF legs = leg THEN Tail(events)
                        ELSE Append(Tail(events), [job |-> j, leg |-> l, entry |-> "out"])
      /\ UNCHANGED local

-----------------------------------------------------------------------------
(* The user, the broker and the clock, which wait for nobody. *)

\* The backend takes a cancellation until the job enters its armed window.
Cancel(j) ==
  /\ j \notin cancelled /\ now < ArmAt[j]
  /\ cancelled' = cancelled \cup {j}
  /\ mail' = {}
  /\ UNCHANGED <<now, crashes, agent, ledger, broker>>


Fill(j, l) ==
  /\ leg[j][l] = "pending"
  /\ leg' = [leg EXCEPT ![j][l] = "open"]
  /\ events' = Queued([job |-> j, leg |-> l, entry |-> "in"])
  /\ mail' = {}
  /\ UNCHANGED <<now, crashes, cancelled, step, local, hasFill, ticket, ledger, accepted>>

\* Stop loss, take profit or the user.
Close(j, l) ==
  /\ leg[j][l] = "open"
  /\ leg' = [leg EXCEPT ![j][l] = "closed"]
  /\ events' = Queued([job |-> j, leg |-> l, entry |-> "out"])
  /\ mail' = {}
  /\ UNCHANGED <<now, crashes, cancelled, step, local, hasFill, ticket, ledger, accepted>>

Tick ==
  /\ now < MaxTime
  /\ now' = now + 1
  /\ mail' = {}
  /\ UNCHANGED <<crashes, cancelled, agent, ledger, broker>>

ProcessJobs == \E j \in Job :
  Expire(j) \/ Arm(j) \/ Recover(j) \/ Due(j) \/ Miss(j) \/ Skip(j)

ExecuteJob ==
  \/ Reject
  \/ AppendLedger
  \/ \E o \in {"done", "partial", "placed"} \cup Rejected : SendMarket(o)
  \/ \E o \in {"placed"} \cup Rejected : SendStraddle(o) \/ SendMulti(o)

Poll == \E new, withdrawn \in SUBSET Job : PollJobs(new, withdrawn)

OnTradeTransaction == DealOut \/ DealInIgnored \/ DealIn \/ DealInStraddle

Next ==
  \/ Start
  \/ Crash
  \/ OnTimer
  \/ Poll
  \/ ProcessJobs
  \/ ExecuteJob
  \/ OnTradeTransaction
  \/ \E j \in Job : Cancel(j)
  \/ \E j \in Job, l \in Leg : Fill(j, l) \/ Close(j, l)
  \/ Tick

Spec == Init /\ [][Next]_vars

\* A handler runs to its end, the terminal is restarted, and MetaTrader's event
\* queue starves neither the timer nor the transactions.
FairSpec ==
  /\ Spec
  /\ WF_vars(Tick)
  /\ WF_vars(Start)
  /\ WF_vars(Poll)
  /\ WF_vars(ProcessJobs)
  /\ WF_vars(ExecuteJob)
  /\ SF_vars(OnTimer)
  /\ SF_vars(OnTradeTransaction)

-----------------------------------------------------------------------------
(* Properties. *)

\* "the EA flushes the job ID into its local write-ahead ledger.  On restart, it
\* reconciles ... instead of submitting blindly again" (agent-protocol.md:72):
\* wherever the terminal stops and however often, no leg is sent twice.
AtMostOnce == \A j \in Job, l \in Leg : accepted[j][l] <= 1

\* Once the EA is done with an OCO pair - filled, expired, rejected halfway,
\* withdrawn or recovered after a stop - neither side can fill any more.
FinalLeavesNoOrder ==
  \A j \in Job : Mode[j] = "STRADDLE" /\ local[j] = "FINAL" => LegsIn(j, "pending") = {}

\* Whenever the EA is between handlers and has noticed the first fill of an OCO
\* pair, the sibling is gone, so that only fills racing it can double.
OneSideStays ==
  step = Idle => \A j \in hasFill : LegsIn(j, "pending") = {}

\* No fill and no close is announced that did not happen at the broker, also
\* not by the recovery after a restart.
ReportsAreTrue ==
  \A r \in mail :
    /\ r.phase = "FILLED" => LegsIn(r.job, "open") \cup LegsIn(r.job, "closed") # {}
    /\ r.phase = "CLOSED" => LegsIn(r.job, "closed") # {}
    /\ r.phase \in {"SUBMITTED", "FILLED", "CLOSED"} => r.job \in ledger

\* While the terminal runs, no pending order outlives its window: it fills or is
\* removed, whatever the broker rejected on the way.
PendingOrdersGo ==
  \A j \in Job, l \in Leg : PendingMode(j) =>
    (leg[j][l] = "pending" ~> leg[j][l] # "pending")

\* The EA does not submit an order when "the configured execution deadline has
\* passed" (src/docs/agent-protocol.md:88).
NoLateSubmission ==
  [][\A j \in Job : Mode[j] = "MARKET" /\ accepted'[j] # accepted[j]
                      => now <= ExecuteAt[j] + Lateness]_vars

\* "This avoids a race where the order is already being submitted while the
\* Telegram cancellation is in flight" (src/docs/agent-protocol.md:58).
CancelledNeverSubmitted ==
  [][\A j \in cancelled : accepted'[j] = accepted[j]]_vars

\* "No pending order filled before expiry" (NewsTraderAgent.mq5:222).
ExpiredMeansUnfilled ==
  \A r \in mail : r.why = "expired" =>
    LegsIn(r.job, "open") \cup LegsIn(r.job, "closed") = {}

\* "OCO race: both pending orders filled" (NewsTraderAgent.mq5:185): the EA
\* closes a position itself only when both sides of the pair were filled.
DoubleFillMeansBoth ==
  [][\A j \in Job : step = Idle /\ leg'[j] # leg[j] /\ events' # events
                      /\ Len(events') = Len(events)
                      => \A l \in {1, 2} : leg[j][l] \in {"open", "closed"}]_vars
=============================================================================
