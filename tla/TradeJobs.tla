----------------------------- MODULE TradeJobs ------------------------------
(***************************************************************************)
(* The backend's trade-job service: TradeJobsService of                    *)
(* src/src/trade-jobs/trade-jobs.service.ts and the job side of            *)
(* CbotService, src/src/cbot/cbot.service.ts, over the PostgreSQL rows.    *)
(*                                                                         *)
(* Every handler awaits the database several times, so a request is two or *)
(* three steps: what it reads and decides (Begin...), and what it writes   *)
(* (Commit...).  Requests of different handlers interleave between them.   *)
(* A request that throws before its first write changes nothing and is     *)
(* left out.  One transaction, and one conditional updateMany, is a step.  *)
(*                                                                         *)
(* The jobs are those of one user; a job stands for its idempotency key.   *)
(***************************************************************************)
EXTENDS JobState, Integers, FiniteSets

CONSTANTS Job,            \* the jobs the user may ask for
          Absent,         \* status of a job with no row
          Handler,        \* requests the backend serves at a time
          Venue,          \* [Job -> {"MT5", "CBOT", "CTRADER"}]
          ExecuteAt,      \* [Job -> Nat], the news time
          ArmLead,        \* [Job -> Nat], armSeconds
          ExpiresAt,      \* [Job -> Nat]
          ManagedUntil,   \* [Job -> Nat], managementExpiresAt, 0 for null
          Lead,           \* executeAt must be this far ahead on creation
          Horizon,        \* how far ahead a poll looks
          Grace,          \* a cBot job this long past expiry is abandoned
          MaxConcurrent,  \* settings.maxConcurrentJobs
          Said,           \* the phases agents report
          Deal,           \* what tells apart two reports of one phase
          MaxTime         \* bound on the clock

ASSUME JobsAssumption ==
  /\ Absent \notin Status
  /\ Venue \in [Job -> {"MT5", "CBOT", "CTRADER"}]
  /\ ExecuteAt \in [Job -> Nat]
  /\ ArmLead \in [Job -> Nat]
  /\ ExpiresAt \in [Job -> Nat]
  /\ ManagedUntil \in [Job -> Nat]
  /\ Lead \in Nat /\ Horizon \in Nat /\ Grace \in Nat
  /\ MaxConcurrent \in Nat /\ MaxTime \in Nat
  /\ Said \subseteq Phase \ {"SYNCED"}   \* no agent in src/ reports SYNCED
  /\ IsFiniteSet(Job)

VARIABLES
  now,          \* the backend's clock
  halted,       \* systemControl.tradingHalted
  status,       \* status[j]: TradeJob.status
  version,      \* version[j]: TradeJob.version
  cancelAsked,  \* the jobs with cancelRequestedAt set
  closeAsked,   \* the jobs with closeRequestedAt set
  reports,      \* ExecutionReport rows, one per reportKey
  delivered,    \* the jobs some poll has handed to their agent
  had,          \* history: had[j], the statuses j has had
  handler       \* handler[h]: the request h has read and not yet written

control == <<now, halted>>
rows    == <<status, version, cancelAsked, closeAsked, reports, delivered, had>>
vars    == <<control, rows, handler>>

\* An EA derives the reportKey from the job, the phase and often a ticket; the
\* cBot numbers its reports and may send one again from its outbox.
ReportKey == Job \X Said \X Deal

Idle == [op |-> "idle"]

Request ==
  {Idle}
    \cup [op : {"create", "cancel", "askCancel", "askClose"}, job : Job]
    \cup [op : {"report"}, job : Job, phase : Said, deal : Deal, next : Status \cup {NoStatus}]
    \cup [op : {"cbotRead"}, accept : BOOLEAN, at : 0 .. MaxTime]
    \cup [op : {"agentRead"}, jobs : SUBSET Job]
    \cup [op : {"sync"}, jobs : SUBSET Job, withdrawn : SUBSET Job]

TypeOK ==
  /\ now \in 0 .. MaxTime
  /\ halted \in BOOLEAN
  /\ status \in [Job -> Status \cup {Absent}]
  /\ version \in [Job -> Nat]
  /\ cancelAsked \subseteq Job
  /\ closeAsked \subseteq Job
  /\ reports \subseteq ReportKey
  /\ delivered \subseteq Job
  /\ had \in [Job -> SUBSET (Status \cup {Absent})]
  /\ handler \in [Handler -> Request]

ActiveJobs == {j \in Job : status[j] \in Active}
ArmAt(j)   == ExecuteAt[j] - ArmLead[j]
Remote     == {j \in Job : Venue[j] \in {"CTRADER", "CBOT"}}

Init ==
  /\ now = 0
  /\ halted = FALSE
  /\ status = [j \in Job |-> Absent]
  /\ version = [j \in Job |-> 1]
  /\ cancelAsked = {}
  /\ closeAsked = {}
  /\ reports = {}
  /\ delivered = {}
  /\ had = [j \in Job |-> {Absent}]
  /\ handler = [h \in Handler |-> Idle]

Serve(h, request) == handler[h] = Idle /\ handler' = [handler EXCEPT ![h] = request]
Done(h)           == handler' = [handler EXCEPT ![h] = Idle]
Remembered        == had' = [j \in Job |-> had[j] \cup {status'[j]}]

-----------------------------------------------------------------------------
(* createForTelegramUser: the checks, then the insert. *)

BeginCreate(h, j) ==
  /\ ~halted
  /\ ExecuteAt[j] >= now + Lead
  /\ Cardinality(ActiveJobs) < MaxConcurrent
  /\ status[j] = Absent
  /\ Serve(h, [op |-> "create", job |-> j])
  /\ UNCHANGED <<control, rows>>

\* idempotencyKey is unique: of two inserts of one key the second fails.
CommitCreate(h) ==
  /\ handler[h].op = "create"
  /\ LET j == handler[h].job
     IN  status' = [status EXCEPT ![j] = IF @ = Absent THEN "SCHEDULED" ELSE @]
  /\ Done(h) /\ Remembered
  /\ UNCHANGED <<control, version, cancelAsked, closeAsked, reports, delivered>>

-----------------------------------------------------------------------------
(* cancelForTelegramUser and the close requests. *)

\* Before the armed window the job itself is cancelled.
BeginCancel(h, j) ==
  /\ status[j] \in {"SCHEDULED", "SYNCED"}
  /\ now < ArmAt(j)
  /\ Serve(h, [op |-> "cancel", job |-> j])
  /\ UNCHANGED <<control, rows>>

\* Later only the cTrader venues can be asked to withdraw their orders.
BeginAskCancel(h, j) ==
  /\ j \in Remote
  /\ status[j] \in Active \ {"SCHEDULED", "SYNCED"}
  /\ Serve(h, [op |-> "askCancel", job |-> j])
  /\ UNCHANGED <<control, rows>>

BeginAskClose(h, j) ==
  /\ j \in Remote
  /\ status[j] \in Active
  /\ Serve(h, [op |-> "askClose", job |-> j])
  /\ UNCHANGED <<control, rows>>

\* The update names the row by id only: whatever status it has now is replaced.
CommitCancel(h) ==
  /\ handler[h].op = "cancel"
  /\ LET j == handler[h].job
     IN  /\ status' = [status EXCEPT ![j] = "CANCELLED"]
         /\ version' = [version EXCEPT ![j] = @ + 1]
  /\ Done(h) /\ Remembered
  /\ UNCHANGED <<control, cancelAsked, closeAsked, reports, delivered>>

CommitAsk(h) ==
  /\ \/ /\ handler[h].op = "askCancel"
        /\ cancelAsked' = cancelAsked \cup {handler[h].job}
        /\ UNCHANGED closeAsked
     \/ /\ handler[h].op = "askClose"
        /\ closeAsked' = closeAsked \cup {handler[h].job}
        /\ UNCHANGED cancelAsked
  /\ Done(h)
  /\ UNCHANGED <<control, status, version, reports, delivered, had>>

\* requestCloseAllForTelegramUser is one conditional updateMany.
CloseAll ==
  /\ closeAsked' = closeAsked \cup (ActiveJobs \cap Remote)
  /\ UNCHANGED <<control, status, version, cancelAsked, reports, delivered, had, handler>>

-----------------------------------------------------------------------------
(* Reports.  submitReport (MT5) throws on a transition the table forbids;  *)
(* CbotService.report keeps the report and leaves the status.              *)

BeginReport(h, j, phase, deal) ==
  LET asked   == StatusForPhase(phase)
      allowed == asked # NoStatus /\ CanTransition(status[j], asked)
  IN  /\ j \in delivered
      /\ Venue[j] \in {"MT5", "CBOT"}
      /\ <<j, phase, deal>> \notin reports
      /\ Venue[j] = "MT5" => allowed \/ asked = NoStatus
      /\ Serve(h, [op |-> "report", job |-> j, phase |-> phase, deal |-> deal,
                   next |-> IF allowed THEN asked ELSE NoStatus])
      /\ UNCHANGED <<control, rows>>

Key(r) == <<r.job, r.phase, r.deal>>

\* Mutants: a report without a status writes it all the same; the status is
\* written although the report is a duplicate.
WrittenUndefined(r) ==
  IF Key(r) \in reports THEN status ELSE [status EXCEPT ![r.job] = r.next]
WrittenTwice(r) ==
  IF r.next = NoStatus THEN status ELSE [status EXCEPT ![r.job] = r.next]

\* One transaction: if another request stored the same key meanwhile the
\* insert fails on its unique index and the status update rolls back with it.
Written(r) ==
  IF Key(r) \in reports \/ r.next = NoStatus
    THEN status ELSE [status EXCEPT ![r.job] = r.next]

CommitReport(h) ==
  /\ handler[h].op = "report"
  /\ reports' = reports \cup {Key(handler[h])}
  /\ status' = Written(handler[h])
  /\ Done(h) /\ Remembered
  /\ UNCHANGED <<control, version, cancelAsked, closeAsked, delivered>>

-----------------------------------------------------------------------------
(* Polls.  What a poll read and will answer with is the "sync" request. *)

InReach(j, at) == ExecuteAt[j] <= at + Horizon

\* pollForAgent first reads the jobs the EA may still have to run ...
AgentPoll(h) ==
  /\ Serve(h, [op |-> "agentRead",
       jobs |-> {j \in Job :
         /\ Venue[j] = "MT5"
         /\ status[j] \in {"SCHEDULED", "SYNCED", "ARMED", "SUBMITTED", "FILLED"}
         /\ InReach(j, now)
         /\ ExpiresAt[j] > now}])
  /\ UNCHANGED <<control, rows>>

\* ... then the cancellations (of the last 24 hours, longer than any run of the
\* model): a job may be among both.
AgentPollRead(h) ==
  /\ handler[h].op = "agentRead"
  /\ handler' = [handler EXCEPT ![h] =
       [op |-> "sync", jobs |-> handler[h].jobs,
        withdrawn |-> {j \in Job : Venue[j] = "MT5" /\ status[j] = "CANCELLED"}]]
  /\ UNCHANGED <<control, rows>>

\* Mutant: a job that was armed and then abandoned is not written off.
AbandonedUnarmed == {j \in Job : /\ Venue[j] = "CBOT"
                                 /\ status[j] \in {"SCHEDULED", "SYNCED"}
                                 /\ ExpiresAt[j] + Grace <= now}

\* CbotService.poll first reads the entitlement and writes off the jobs the
\* cBot never got to ...
Abandoned == {j \in Job : /\ Venue[j] = "CBOT"
                          /\ status[j] \in {"SCHEDULED", "SYNCED", "ARMED"}
                          /\ ExpiresAt[j] + Grace <= now}

\* A lapsed subscription, where that is enforced, bars new jobs like the halt.
CbotPoll(h) ==
  /\ \E accept \in BOOLEAN :
       /\ accept => ~halted
       /\ Serve(h, [op |-> "cbotRead", accept |-> accept, at |-> now])
  /\ status' = [j \in Job |-> IF j \in Abandoned THEN "MISSED" ELSE status[j]]
  /\ Remembered
  /\ UNCHANGED <<control, version, cancelAsked, closeAsked, reports, delivered>>

\* ... then reads what to send, by the clock it took before the sweep: nothing
\* undelivered while new jobs are barred.
CbotPollRead(h) ==
  /\ handler[h].op = "cbotRead"
  /\ LET at     == handler[h].at
         placed == {"SUBMITTED", "PARTIALLY_FILLED", "FILLED", "MANAGED"}
         wanted == {"ARMED"} \cup placed \cup
                   (IF handler[h].accept THEN {"SCHEDULED", "SYNCED"} ELSE {})
     IN  handler' = [handler EXCEPT ![h] =
           [op |-> "sync",
            jobs |-> {j \in Job :
              /\ Venue[j] = "CBOT"
              /\ status[j] \in wanted
              /\ InReach(j, at)
              /\ \/ ManagedUntil[j] > at
                 \/ ExpiresAt[j] > at
                 \/ status[j] \in placed},
            withdrawn |-> {}]]
  /\ UNCHANGED <<control, rows>>

\* Mutant: the update trusts what the poll read.
SyncedUnchecked(jobs) == jobs

\* Both polls end alike: updateMany with status "SCHEDULED" in its where
\* clause, then the answer.
Synced(jobs) == {j \in jobs : status[j] = "SCHEDULED"}

CommitSync(h) ==
  /\ handler[h].op = "sync"
  /\ status' = [j \in Job |-> IF j \in Synced(handler[h].jobs) THEN "SYNCED" ELSE status[j]]
  /\ delivered' = delivered \cup handler[h].jobs
  /\ Done(h) /\ Remembered
  /\ UNCHANGED <<control, version, cancelAsked, closeAsked, reports>>

-----------------------------------------------------------------------------
(* The operator's emergency stop and time. *)

SetHalt(b) ==
  /\ halted # b
  /\ halted' = b
  /\ UNCHANGED <<now, rows, handler>>

Tick ==
  /\ now < MaxTime
  /\ now' = now + 1
  /\ UNCHANGED <<halted, rows, handler>>

Commit(h) ==
  \/ CommitCreate(h)
  \/ CommitCancel(h)
  \/ CommitAsk(h)
  \/ CommitReport(h)
  \/ AgentPollRead(h)
  \/ CbotPollRead(h)
  \/ CommitSync(h)

Begin(h) ==
  \/ AgentPoll(h)
  \/ CbotPoll(h)
  \/ \E j \in Job :
       \/ BeginCreate(h, j)
       \/ BeginCancel(h, j)
       \/ BeginAskCancel(h, j)
       \/ BeginAskClose(h, j)
       \/ \E phase \in Said, deal \in Deal : BeginReport(h, j, phase, deal)

Next ==
  \/ \E h \in Handler : Begin(h) \/ Commit(h)
  \/ CloseAll
  \/ \E b \in BOOLEAN : SetHalt(b)
  \/ Tick

Spec == Init /\ [][Next]_vars

\* The server finishes the requests it began and the clock advances.
ServerFairness ==
  /\ WF_vars(Tick)
  /\ \A h \in Handler : WF_vars(Commit(h))

\* A paired cBot polls for ever, and its poll is not starved by other requests:
\* Handler bounds the model, not the server.
PollFairness == SF_vars(\E h \in Handler : CbotPoll(h))

\* The cBot stays connected / the cBot may go away and never poll again.
FairSpec         == Spec /\ ServerFairness /\ PollFairness
DisconnectedSpec == Spec /\ ServerFairness

-----------------------------------------------------------------------------
(* Properties. *)

\* Every status past SYNCED that a job takes, other than by the user's cancel
\* or the abandonment sweep, is backed by exactly one new ExecutionReport row
\* naming it: two requests carrying one reportKey (a retried report racing the
\* original) never move the job twice.
ReportBacked ==
  [][\A j \in Job :
       status'[j] \in (Status \ {"SCHEDULED", "SYNCED"}) /\ status'[j] # status[j] =>
         \/ status'[j] = "CANCELLED" /\ version'[j] = version[j] + 1
         \/ status'[j] = "MISSED" /\ ExpiresAt[j] + Grace <= now
         \/ \E r \in reports' \ reports :
              r[1] = j /\ StatusForPhase(r[2]) = status'[j]]_vars

\* A poll that read a job as SCHEDULED and writes SYNCED later never brings
\* back a job that was cancelled or reported on in between.
SyncOnlyScheduled ==
  [][\A j \in Job : status'[j] = "SYNCED" /\ status[j] # "SYNCED"
                      => status[j] = "SCHEDULED"]_vars

\* Two requests that overlap may break the table, but never leave it: a status
\* a job takes follows, by the table, one the job has had, or is one of them.
\* No stale report makes a job CLOSED that was never SUBMITTED, or EXPIRED one
\* that was armed.
TableFollowed ==
  [][\A j \in Job : status'[j] # status[j] =>
       \/ status[j] = Absent /\ status'[j] = "SCHEDULED"
       \/ status'[j] \in had[j] \cup UNION {Successors(s) : s \in had[j]}]_vars

\* "Persist every report, but never downgrade an already more advanced job
\* state" (src/src/cbot/cbot.service.ts:193), said of the states that reports
\* have brought a job to.
ReportsNeverDowngrade ==
  [][\A j \in Job :
       reports' # reports /\ (\E r \in reports : r[1] = j /\ StatusForPhase(r[2]) = status[j])
         => CanTransition(status[j], status'[j])]_vars

\* "Terminal states cannot regress" (src/docs/agent-protocol.md).
TerminalStays ==
  [][\A j \in Job : status[j] \in Terminal => status'[j] = status[j]]_vars

\* "one concurrent active news job" (src/README.md), settings.maxConcurrentJobs.
WithinLimit == Cardinality(ActiveJobs) <= MaxConcurrent

\* The backend as a whole keeps the promise of JobLifecycle.
Lifecycle == INSTANCE JobLifecycle WITH
               Job <- Job, Absent <- Absent, MaxConcurrent <- MaxConcurrent, status <- status
RefinesLifecycle == Lifecycle!Spec

\* While its cBot polls, a job does not stay in the delivery stage for ever,
\* where it would block the user's next job.
DeliveryEnds ==
  \A j \in Job : Venue[j] = "CBOT" =>
    (status[j] \in {"SCHEDULED", "SYNCED", "ARMED"}
       ~> status[j] \notin {"SCHEDULED", "SYNCED", "ARMED"})
=============================================================================
