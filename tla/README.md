# Verification of ctreader: trade jobs from the chat to the broker

The repository is an order-execution system. A user describes a trade around a
news release in Telegram; the backend stores it as a *trade job*; one of several
execution agents (a MetaTrader 5 Expert Advisor, a cTrader cBot, a worker on the
cTrader Open API) fetches the job, arms it, sends its orders at the right instant
and reports what the broker did. Nobody supervises the agents at that instant, so
what matters is agreement: no order twice, no order after a cancellation, no order
forgotten at the broker, and a backend status that follows what really happened.

This directory holds TLA+ modules translated from the source, the TLC
configurations that check them and TLAPS proofs of the central properties.
Paths below are relative to the directory that holds `src/`.

## 1. Inventory

| Component | Code | State it keeps | Operations |
|---|---|---|---|
| Job status machine | `src/src/trade-jobs/trade-job-state.ts` | none: two tables | `canTransition`, `statusForPhase` |
| Trade-job service | `src/src/trade-jobs/trade-jobs.service.ts` | `TradeJob` (status, version, cancel and close requests), `ExecutionReport` (unique `reportKey`) | create, cancel, close, close all, poll and report of an MT5 agent |
| cBot service | `src/src/cbot/cbot.service.ts`, `cbot-websocket.gateway.ts` | the same rows, `CbotInstance` | pair, poll (sweep, entitlement, sync), report, heartbeat |
| MT5 agent | `src/mt5/Experts/NewsTraderAgent.mq5` | `g_jobs` (memory), the ledger file, global variables; the broker keeps orders and positions | timer pass, poll, arm, execute (MARKET, STRADDLE, MULTI), OCO, expiry, recovery |
| cTrader cBot | `src/ctrader/cbots/TradeTmConnector/TradeTmConnector.cs` | `_jobs` with a `JobRuntime` each, `_reportOutbox`, `_acceptNewJobs`, `_busy`; nothing of it survives a restart | poll, process, submit, roll back, reverse, report |
| cTrader worker | `src/src/ctrader/ctrader-execution.service.ts`, `ctrader-gateway.service.ts` | executions in memory, lease in the row | claim, start, place, cancel, on message, expire, renew, kill switch, user requests |
| Mock worker | `src/src/ctrader/ctrader-mock-execution.service.ts` | the same claim | claim, simulated outcome |
| News reversal, risk | `src/src/ctrader/news-reversal-*.ts`, `ctrader-risk.ts` | none: arithmetic | volumes, prices, limits |
| Strategy V4 | `src/src/strategy-v2/*` | candles, `StrategyCandidate`, `StrategyPosition`, configuration | ingest a candle, label candidates, open, follow, confirm, close |
| Subscriptions | `src/src/subscriptions/subscriptions.service.ts` | `Subscription` rows | trial, grant, suspend, lapse on read |
| Pairing, agents | `src/src/pairing/*`, `src/src/agents/*` | one-time codes, agents, heartbeats | issue, claim, authenticate |
| Safety switch | `src/src/safety/safety.service.ts` | `systemControl.tradingHalted` | halt, resume, assert |
| Telegram bot | `src/src/telegram/*` | a session per chat | wizard steps, calls of the services |
| cTrader connections | `src/src/ctrader/ctrader.service.ts` | `CTraderOAuthState`, `CTraderConnection`, `CTraderAccount` | authorise, discover, refresh tokens |
| Economic events, users, health, schema, scripts | rest of `src/` | rows | upserts, lookups, settings |

**How they interact.** The services share nothing but PostgreSQL. Telegram calls
the services in process. The EA polls and reports by HTTP, the cBot by WebSocket
with HTTP as a fall-back; both must be assumed to lose calls, to repeat them and,
for the WebSocket, to have them served concurrently, because the gateway starts an
async handler per frame. An agent learns of a cancellation only from its next poll.
Between an agent and its broker there is a blocking call whose failure does not
mean that nothing happened, and a queue of deals that is delivered later.

**Where it is hard.** (a) Every backend handler reads, awaits and then writes;
some writes are conditional on what was read, some are not. (b) The EA is
single-threaded but slow: time passes and orders fill inside a handler. (c) A
terminal can stop between the ledger entry, the first order, the second order and
the report. (d) An OCO pair is two independent orders that only the EA ties
together. (e) Retrying can mean doing twice. (f) The user can cancel at any of
these moments. The hazards in `PROJECT.json` give the lines.

**What makes each part correct.** *Backend*: statuses follow the table; terminal ones
stay; each change has a report, a request or an expiry behind it; one report counts
once; the job limit holds; no job blocks the user for ever. *EA*: an order is sent at
most once, whatever stops; a finished pair leaves no order behind; nothing is reported
that did not happen; orders do not outlive their window; no order after the deadline
or after a cancellation. *cBot*: the same, and a basket placed in part is withdrawn.
*Worker*: one instance runs a job at a time, whatever instance runs it no leg is sent
while it is live, and a job nobody runs is taken up. *News reversal*: one reversal order per open
position, and an end after the management window. *Strategy*: one open position, one
per candle, none forgotten. *Subscriptions*: a lapse never ends what was granted
since. *Pairing, connections*: a code is used once, a terminal belongs to whoever
holds its token, a connection keeps a token that works. *Arithmetic*: a split loses
nothing, a volume sized by a risk passes the check of that risk.

## 2. Modules

| Module | What it is |
|---|---|
| `JobState` | the transition table and the phase table, as operators |
| `JobLifecycle` | abstract promise: accept within the limit, move along the table |
| `TradeJobs` | the backend's job handlers, split at their awaits, over the rows |
| `TradeJobs_proofs` | types, backing of every change, conditional sync, the table as far as overlapping requests keep it |
| `Mt5Agent` | the EA, its ledger, its broker account and the clock |
| `Mt5Agent_proofs` | types, at most once, no order left by a finished pair, true reports, one side of a filled pair |
| `JobCustody` | abstract promise of the lease: nobody or one instance runs a job, none once it has ended |
| `CTraderWorker` | instances of the backend over one job row and one broker account |
| `CTraderWorker_proofs` | types, one instance runs, no live leg sent again, EXPIRED leaves nothing, the leases implement `JobCustody` |
| `NewsReversal` | one news-reversal job: its legs, their events, the protection sync |
| `NewsReversal_proofs` | types, rows that tell the truth, one reversal order per open position |
| `CBotConnector` | the cTrader cBot with one job, its broker account and the row of the job |
| `CBotConnector_proofs` | types, nothing placed twice, what the end of a job leaves |
| `ReversalMath` | volumes, risks and prices of orders, as functions |
| `ProbeStrategy` | Strategy V4: candles, candidates, positions, jobs |
| `ProbeStrategy_proofs` | types, one position per candle, one position open, labels, closing requests, the end of probes |
| `StrategyMath` | levels, triggers, stops, barriers, averages, regime, breakout quality, as functions |
| `Arithmetic` | the inputs on which the two arithmetic modules are checked |
| `Arithmetic_proofs` | splits are fair, sized volumes pass the check, labels follow the management, selling mirrors buying |
| `Accounts` | subscriptions, pairing, heartbeats, authorised connections |
| `Accounts_proofs` | types, single use of codes, one owner, tokens that stay, no early lapse |
| `MCTradeJobs`, `MCMt5Agent`, `MCProbeStrategy`, `MCAccounts` | functions and symmetry given to the constants in TLC's runs |

`TradeJobs`, `CTraderWorker` and `CBotConnector` EXTEND `JobState`. `TradeJobs`
instantiates `JobLifecycle` with its own `status`, `Job`, `Absent` and `MaxConcurrent`
(the refinement mapping is the identity on `status`: everything else is hidden).
`CTraderWorker` instantiates `JobCustody` with `holder <- Holder`, the instance that
has a Runtime of the job or is on the way to one, and `ended <- Ended`: the row's
status is terminal. `Arithmetic` EXTENDS `ReversalMath` and `StrategyMath`.

### TradeJobs

A request occupies a `handler` from what it reads to what it writes. The actions
`Begin...` hold the reads, the checks and the early returns, `Commit...` the write;
other requests interleave between them. One transaction and one `updateMany` are
one step, because PostgreSQL makes them so. A request keeps the `now` it took where the
code does. `had` is a history variable: the statuses each job has had.

| Code | Actions |
|---|---|
| `createForTelegramUser` | `BeginCreate` (halt, lead time, count), `CommitCreate` (insert under the unique idempotency key) |
| `cancelForTelegramUser` | `BeginCancel` or `BeginAskCancel`, `CommitCancel`, `CommitAsk` |
| `requestCloseForTelegramUser`, `requestCloseAllForTelegramUser` | `BeginAskClose`, `CommitAsk`; `CloseAll` |
| `pollForAgent` | `AgentPoll` (the jobs), `AgentPollRead` (the cancellations), `CommitSync` |
| `submitReport` | `BeginReport` for MT5 (throws on a forbidden transition), `CommitReport` |
| `CbotService.poll` | `CbotPoll` (entitlement, sweep), `CbotPollRead`, `CommitSync` |
| `CbotService.report` | `BeginReport` for CBOT (keeps the report, not the status), `CommitReport` |
| `SafetyService` | `SetHalt` |

Left out of the data: field validation, the job's prices and volumes, the answer's
wire format, the audit rows, the Telegram notification, the limits of 100 and 50
jobs per poll, the 24 hours for which a cancellation is repeated, and the
read-only listings. The claim of a strategy position by a rejected leg
(`cbot.service.ts:211-222`) belongs to the strategy module. All jobs belong to one
user and one agent of each kind.

### Mt5Agent

`step` says where the EA is in its handler: `off`, `boot` (OnInit), `idle`,
`timer` (between `RefreshTimeAnchor` and `PollJobs`), `loop` (in `ProcessJobs`,
with the jobs still to visit), `execute` (in `ExecuteJob` before the ledger) and
`send` (before one `OrderSend`). Between two steps the broker fills (`Fill`), the
user or a stop closes (`Close`), the user cancels (`Cancel`), the clock ticks and
the terminal may stop (`Crash`).

| Code | Actions |
|---|---|
| `OnInit`, terminal stop | `Start`, `Crash` |
| `OnTimer`, `PollJobs` | `OnTimer`, `PollJobs` |
| `ProcessJobs` | `Expire`, `Arm`, `Recover` (`RecoverLedgerJob`, `RecoverStraddleJob`), `Due`, `Miss`, `Skip` |
| `ExecuteJob` | `Reject` (preflight, `OrderCheck` or ledger failing), `AppendLedger`, `SendMarket`, `SendStraddle` (`ExecuteStraddle`), `SendMulti` (`ExecuteMulti`) |
| `OnTradeTransaction` | `DealOut`, `DealIn`, `DealInIgnored`, `DealInStraddle` |
| the broker's account | `leg`, `accepted`, `Fill`, `Close`; `Deleted` is what a `DeletePendingOrder` leaves |

`accepted[j][l]` is a history variable: how many orders the broker has taken for
leg `l`. `mail` holds the reports the last step sent, so that a property can
compare them with the account. Three constants switch the environment's faults on:
`LedgerFaults` (`FileOpen` fails for reading), `LostAcks` (`OrderSend` says no to
an order the broker took) and `RemovalsFail` (the broker refuses a removal).

Abstractions: the clock is the trade server's, and the EA's clock is the anchor
taken in `OnTimer` (`ServerTimeMilliseconds` adds less than a second to it); one
tick is longer than `max_lateness_ms`. The account is a hedging one. A duplicate
of a leg is counted in `accepted` while the leg keeps one state. Each pending order
fills at once, not in parts. Not modelled: orders the user removes in the terminal,
an `OnDeinit` that keeps globals on a change of chart, equal 32-bit hashes of two
job ids, uninitialised entries of the ticket arrays, the conditions inside
`Preflight`, prices and volumes, pairing, heartbeat, candle and calendar uploads,
and reports of phase ERROR, which move no status.

### CTraderWorker

`at[w]` says where instance `w` is in `start` and `place`, `up[w]` whether it has a
Runtime with an open socket, `doing[w]` which of its handlers have asked the broker
for cancellations and still have the row to write, `mem[w]` what the Runtime and
those handlers know. A broker's event is appended to the `inbox` of every open
socket, and the answer to a cancellation comes behind the events sent before it.

| Code | Actions |
|---|---|
| `tick` | `tick` (the conditional claim of a scheduled or abandoned job), `UserBegin` (`enforceUserRequests`), `KillBegin` (`enforceKillSwitch`), `LeaseLapses` (with `renewLeases`) |
| `start` | `StartRefused`, `Recover`, `CloseStale`, `StartLost`, `Prepare`, `PreflightRefused`, `Ready` |
| `execute`, `place` | `Execute`, `Check`, `Send`, `SendRefused`, `Reply`, `Record` |
| `handleStartFailure`, `reject` | `Fails`, `Orphaned`, `RejectEnd`; `TimedOut`, `Release` when the error is transient |
| `onMessage` | `FillSeen`, `FillDone`, `CloseSeen`, `CloseDone`, `Answered` |
| `expire` | `ExpireBegin`, `ExpireEnd` |
| `enforceKillSwitch` | `KillBegin`, `KillEnd` |
| `enforceUserRequests` | `UserBegin`, `UserCloseEnd`, `UserCancelEnd` |
| `handleDisconnect` | `Disconnect`, `Release` |
| `trade-jobs.service.ts` | `Ask`, `SetHalt` |
| the broker | `Accepts`, `Refuses`, `Fill`, `Stopped`, `BrokerExpires` |

A started `start` goes on after its Runtime was dropped (`Unwound`, `orphaned`):
the next request throws because the socket is closed. `doubled` is a history
variable. A request is `sent` until the broker has handled it, and a reconciliation
comes after that (`Settled`): a lease of five seconds at least lies between a request
of one instance and the start of the next. A closing the user asked for may fail, and
the row is CLOSED all the same. Three constants widen the environment: `LeasesLapse` (a lease runs out
although its owner lives), `CancelsFail` (the broker ignores a cancellation),
`Overlap` (a message is taken while the last is between its awaits). Left out:
several jobs of one instance (they share only `busy`), the notifications, partial
fills, the 24 hours after `expiresAt` in which a job may still be recovered, the
five-second pause before reconnecting.

### NewsReversal

One job in one instance, with the rows of its legs, the orders the broker has taken
for each leg (oldest first, so that a leg that is placed again has two), the broker
events not received yet, the handlers of those received and one suspended
`syncNewsReversalProtection`. Messages are received in their order, but each
`onMessage` is an async function of its own: the model suspends it at every statement
of the database (`handling`), and the handlers of two messages, the sync and the
timers interleave as they like. The code has three targets, the model `N`.

| Code | Actions |
|---|---|
| `start` | `PlaceInitial`, `RecordInitial`, `StartFails` and `StartLetGo` (`handleStartFailure`); `Recover` (with `reconcileNewsReversal`), `StartOver` after a restart |
| `onMessage` before its first `await` | `Receive` |
| the rest for a fill, `recordNewsReversalFill` | `FillStatus`, `FillFinds` (`findFirst`), `FillWrites` (the leg), `FillTurns` (the job), `Arms` |
| the rest for a closing, `recordNewsReversalClose` | `CloseFinds` (`findFirst`), `CloseWrites`, `Arms`, `CloseEnds` |
| `scheduleProtectionSync`, `syncNewsReversalProtection` | `Arms`; `SyncSkipped`, `SyncIdle`, `SyncReversed`, `SyncSize`, `SyncComplete`, `SyncClear` (`cancelLegs`), `SyncCloses` and `SyncMarks` (`closeLegPosition`, one leg after the other, each before and after the broker's answer), `SyncPlace`, `SyncRecord`, `SyncFails`, `SyncEnd` |
| `expire`, `expireManagement`, `completeNewsReversal` | `Expire` and `ExpireEnds` (before and after its cancellations are answered), `ExpireManagement`, `Completes` |
| the broker, the process | `Fill`, `Hit`, `BrokerExpires`; `Restarts`, `Disconnects` (`handleDisconnect`) |

Two history variables say where a property is excused. `slipped` becomes true where
the code gives a sync up or skips one, fails to place, finds no row for a fill or none
FILLED for a closing (a closing handled before its fill's row is written, lines 354-360
and 377-378, leaves that row FILLED for ever), where a sync has a cancellation refused
or positions to close, an expiry is overtaken by a fill, a recovery finds rows that do
not agree with the broker, or a stop of the process falls between the two writes of a
fill (360 and 362-369, after which the job never hears of the fill). With `Slips =
FALSE` a run ends there, with `TRUE` it goes on. `forgotten` holds the legs whose row a
sync planned again (433-436) while a handler was between `findFirst` and its update
(354-357, 377-384): such a row says FILLED or closed of no order.

A position closed by the sync is told of like any other: the closing's message is
queued, its handler runs beside the sync, and `openPositions` loses it there. An
expiry that a fill overtakes leaves the rows of the orders it cancelled SUBMITTED
(546-553); one whose fill was received while its handler had not come to line 333 finds
`openPositions` empty and ends the job CLOSED with the position open.

Cancelling a set of orders and marking their rows is one step: the broker decides
about each order by itself, and the row of an order it has cancelled has no other
writer, for no fill or closing of that order comes. A fresh process and a second
`Runtime` of one job never meet the handlers of the first: its requests fail at once
and the lease lasts five seconds more (`Gone`). Several instances, the halt and the
user's requests are those of `CTraderWorker`.

### CBotConnector

The cBot has one thread, and a call of the broker (`PlaceStopOrder`,
`CancelPendingOrder`, ...) blocks it. While it waits the platform may run another
handler. The source takes this for granted: `_busy`,
`InitialBasketPlacementInProgress`, `ReversalPlacementInProgress`,
`RollbackInProgress` and the deferred trigger have no other purpose. So the thread
is a `stack` of suspended handlers. An action runs the top one from one blocking
call to the next; an event or, if no suspended handler is `_busy`, a timer puts
another on top.

| Code | Actions |
|---|---|
| `OnTimer`, `FlushReportOutbox`, `ProcessJobs` | `NoJob`, `CloseAsked`, `CancelAsked`, `ManagementEnds`, `Disabled`, `Retry`, `Due`, `DueAfterRetry` |
| `Submit`, `PlaceMarket`, `PlaceStop`, `PlaceMulti`, `PlaceInitialReversalBasket` | `Due`, `Place`, `Accepted`, `Rejected`, `Rollback` (`RollbackLeg`) |
| `BeginReversal`, `TryPlaceReversal`, `PlaceReversalOrder` | `FillStarts`, `TryPlace`, `TryReversalOrder`, `Reversed`, `Unwind` (`RollbackLeg`) |
| `OnPendingFilled`, `OnPositionClosed` | `HearNothing`, `FillPlain`, `FillStarts`, `Close` |
| `CloseExposure`, `CancelPending`, end of management | `CloseAll`, `Check` |
| `Poll`, `ApplyPoll` with `CbotService.poll`; `Report` with `CbotService.report` | `Poll`; `Report`, `Send` |
| `OnStart`, `OnStop`, the socket's events | `Restart`, `Connect`, `Break`, `Notice` |
| `cancelForTelegramUser`, `requestCloseForTelegramUser`, the entitlement | `UserCancels`, `UserCloses`, `Halt`, `Resume` |
| the broker, the clock | `Fill`, `StopOrTarget`, `Expire`; `Tick`, `PauseEnds` |

A report on a connection that is up is applied by the backend at once (that two
reports may overtake each other is in `TradeJobs`); on one that is broken and not
noticed yet it is lost; on one known to be down it waits in the outbox. A set of
cancellations, or of closings, is one step, and a cancellation or closing is refused
only when its order has filled or its position has gone. `Refused` counts the orders
the broker refuses. `doubled`, `nested`, `crossed` and `restarted` are history
variables. Left
out: pairing, heartbeat, candles, several jobs, the wrong-symbol check (`ProcessJobs`,
308-316), partial fills, a chart's user who removes orders; the checks of spread,
margin, volume and exposure are one choice to refuse. One instant of `now` stands for
the end of management and for the minute after `expiresAt` after which a poll gives a
job up.

### ProbeStrategy

Each message of the feed gets a `handler`, so two candles can be evaluated at once.
A candle is known by what it does to the position that is open (`Kind`: flat,
signal, stop, target, confirm) and by whether it reaches half the risk (`weak`,
`strong`); which kinds a candle may have follows from that (`KindsOf`).

| Code | Actions |
|---|---|
| `ingest` | `Arrives`, `Repeated`, `Find`, `Create`; `Missed` and `History` for what the feed loses and brings later |
| `evaluateV4`, `settleCandidates` | `Read`, `Settle`, `Decide` |
| `recordCandidate`, the opening of a position | `Record`, `Open` |
| `scheduleCbotLeg`, `scheduleMt5Leg` | `Schedule` |
| `managePosition` | `Manage`, `Confirm`, `Schedule` |
| `closePosition` | `AskJobs`, `Close` |
| `CbotService.report` of a strategy leg | `JobMoves`, `RejectProbe` |
| the user, the cBot, the process | `Switch`, `Restart` |

A `Restart` forgets what the handlers hold: a candle stored and not evaluated stays
so, which is why the bounds on lost candles matter. Left out: the filters that turn
a signal into a `SKIP` (one choice between `SKIP` and `EXECUTE`), prices and risk
(they are in `StrategyMath`), events and statistics.

### ReversalMath and StrategyMath

Pure functions, written with the names of the code. Volumes are the broker's integer
units, prices integer points, ratios hundredths; a quotient is compared by
cross-multiplying and an average kept as numerator and scale (`EmaNumerator`). The
rounding of binary fractions is therefore outside the model. Where the code throws,
the operator says so by a condition of its own (`Allocates`).

### Accounts

As in `TradeJobs` a request is what it reads and decides, then what it writes; a
transaction, or one conditional `updateMany`, is one step.

| Code | Actions |
|---|---|
| `ensureTrial`, `grantToUser` | `BeginGrant`, `OpenGrant`, `CommitGrant` (the two statements of its transaction see different rows) |
| `suspendByTelegramId`, `currentForUser` | `BeginSuspend`, `BeginLapse`, `CommitSet` (by id) |
| `PairingService`, `CbotService` pairing | `Issue`, `BeginClaim` (with `assertCanPairAccount`), `CommitClaim` |
| `AgentsService.heartbeat` | `BeginHeartbeat`, `CommitHeartbeat` |
| `completeAuthorization` | `BeginComplete`, `Consume`, `Exchange`, `Discover` |
| `accessTokenForConnection` | `BeginRefresh`, `Fetch`, `Store` |
| time, the process | `Tick`, `Restart` |

cTrader's server is external: it takes a refresh token once and answers with the
next (`server`). `uses` and `lost` are history variables. `Overlap` lets two users
be between the comparison of the owner and the write for one device, or one account,
that has no owner yet.

## 3. Runs

Passing runs:

| Run | Instance | Shows |
|---|---|---|
| `backend_sequential` | MT5 and cBot job, one request at a time, six phases, limit 1 | types; refinement of `JobLifecycle` |
| `backend_concurrent` | a cBot job, two requests at a time, `FairSpec` | `ReportBacked`: each change has a new report, a cancel or the sweep behind it; `SyncOnlyScheduled`: a slow poll revives nothing; `TableFollowed`: a status taken follows, by the table, one the job has had; `DeliveryEnds`: no job stays in delivery |
| `agent_restarts` | a market job and a pair, one stop | `TypeOK`, `AtMostOnce`, `FinalLeavesNoOrder`, `OneSideStays`, `ReportsAreTrue` |
| `agent_live` | a basket, no stop, `FairSpec` | `PendingOrdersGo`: no order outlives its window |
| `cbot` | one job of each of the four modes, one level per side, two handlers at once, an outbox of one; three refused orders, or one broken connection, restart, halt or request | `NothingTwice`: no order under a label in use, after a restart neither, and, without a restart or a crossed rollback, one reversal basket; `EndLeavesNoEntry`: a job reported as ended has no initial order or position left; `TypeOK`, with the limit of the outbox and of attempts |
| `worker` | two instances, one job of each mode in turn, two legs, one trouble, `FairSpec` | `Exclusive`: two instances never run the job while leases are renewed; `NeverDoubled`: no leg is sent while it is live; `ExpiredIsTrue`: EXPIRED leaves nothing at the broker; `RefinesCustody`: the leases and conditional updates implement `JobCustody`; `TakenUp`: a job nobody runs is taken up; `DoneEnds`: a finished STRADDLE or MULTI job ends |
| `reversal_sizes` | two targets, two orders per leg, two messages under way, three events, no trouble | `Protected`: at rest one reversal order per open position |
| `reversal_ends` | one target, two orders per leg, two events, one trouble, slips followed, `FairSpec` | `EndsInTime`: the job ends and no order of it waits; `RowsFollow`: a leg row never says what did not happen, beyond the first slip too |
| `strategy` | two candles at once, four bars, both venues, one trouble | `OneOpen`, `OnePerCandle`, `OutcomeAgrees` (a label follows its position), `TimeoutAsks`, `ProbeEnds` |
| `arithmetic` | volumes to 12, four targets, prices to 3, three candles | `SplitIsFair`, `SizedPassesCheck`, `LabelsAgree`, `DirectionsMirror` |
| `accounts` | two users, two requests, two codes, one device, one account, one restart or lost answer | `OneUse`, `OwnersAgree`, `StaysConnected`, `NoEarlyLapse` |

Each module with a state also has its type invariant checked by one run; the types
of `Accounts` are proved instead (`TypeCorrect`, section 4). Every
property has a mutant beside it in its module: a change a programmer could make to
the mapped code, and which TLC finds with this very property.

**Why the bounds are enough.** The deadlines of a job fall on distinct instants
(`MCTradeJobs`, `MCMt5Agent`), so every order of "before" and "after" occurs; the
clock ends after the last of them. Two requests are what a race needs: each handler
has one read and one write, and a third request can do no more than another write
between them. Two jobs show everything a limit of one or a pass over several jobs can
do. One stop visits every gap between two steps. The phases given to `Said` are those
with which statuses are reached and left; a phase named in the table and left out of a
run behaves like another of that run. In `worker` two instances are what a handover
needs, two legs a pair with a sibling or a basket with a next one, and `MaxTrouble =
1` lets one crash, disconnect, timeout, refusal, halt or request fall anywhere; what
follows it (recovery, restart, reject) is unbounded. In `reversal_sizes` two targets
are the least for which a target can be closed while another is open, and `MaxSends =
2` lets a leg be placed again after a refused cancellation; three events are two fills
and a closing, or three fills, on one side or both, and two messages under way are a fill
and the closing that overtakes it, or the fills of both sides. `reversal_ends` follows
slips and needs liveness, so it has one target and two events: fill and closing, both
initial sides, or an initial leg and its reversal, with the trouble anywhere between. In `strategy` four bars exceed every deadline
(follow-through 3, confirmation 2, cooldown 1, label 2), so each deadline is met,
missed by a lost candle and passed. In `arithmetic` a split has every remainder, and
three candles with prices 0 to 3 give every order of open, high, low and close twice
with a predecessor. In `cbot` three refused orders are what the code's limit of three
attempts takes, for the initial basket and for the reversal; any other disturbance
comes once. One level per side makes a basket of two orders, one of each side, which
is enough for a basket placed in part, a sibling and an opposite side; the three
levels of the code are not run. (`SingleBasket` fails from two levels on; the proofs
of `NothingTwice` and `EndLeavesNoEntry` are for any number.) Two handlers at once are a pass interrupted by an
event, or an event by a pass. An outbox of one fills with the first report. The 300 ms
of a retry are over once the events of the moment are handled (`PauseEnds`); the
properties hold without this guard too, on a larger state space. Two events wait at
most when the market makes another, `Backlog`: a fill and the closing that follows it,
or the fills of both sides; the properties hold without this bound as well (three
million states). In `accounts` one tick ends a trial, a code and a token, and two
codes and two users compete for one device.

`CHECK_DEADLOCK` stays on for `TradeJobs` and `Mt5Agent`: the backend can always be
polled, the EA's timer always fires. The other systems do stop: a job ends and its
instance is idle, a cBot has seen the end of the job and the clock, the last bar
closes, every code is spent.

**Fairness.** `TradeJobs`: requests the server began finish and the clock advances
(weak). The cBot's polling is strongly fair because `Handler` bounds the model and
not the server: Node accepts a request whatever else it is doing.
`DisconnectedSpec` drops exactly this assumption. `Mt5Agent`: a started handler
ends, the terminal is restarted, and the event queue starves neither timer nor
transactions (strong, because each disables the other while it runs). Nothing is
assumed of the broker filling, of the user, or of stops ending by themselves:
`MaxCrashes` bounds them. `CTraderWorker`: the interval of `tick` fires, a handler
that has begun is run to its end (its promises settle: requests time out), the
clock and the lease run, the broker handles a request, and a position is closed in the end by its stop or target;
nothing of halts, fills or crashes. `NewsReversal`: handlers, timers and the claim
of a job nobody runs, the clock, and the broker's own expiry of its orders, which
the worker asks for with every order it places.

One run shows a disagreement between the code and what a text beside it says; its
counterexample is the finding:

| Run | The text | What the code does |
|---|---|---|
| `backend_out_of_order` | `src/src/cbot/cbot.service.ts:192-193` "never downgrade an already more advanced job state" | two reports both read SYNCED, one of them fills: FILLED is written, then SUBMITTED over it |

**Statements that do not hold.** The following are in the modules or follow from a
constant, and no run is kept for them. Naming the property in a configuration with
the constants given shows the counterexample.

| Property | Instance | The text | What the code does |
|---|---|---|---|
| `DeliveryEnds` | `TradeJobs`, `DisconnectedSpec` | `src/src/cbot/cbot.service.ts:129-131`, expire "server-side so they cannot remain SYNCED forever" | only a poll of the same cBot sweeps |
| `TerminalStays` | `TradeJobs`, two handlers | `src/docs/agent-protocol.md:70` "Terminal states cannot regress" | a cancel and a report overlap and both update by id |
| `WithinLimit` | `TradeJobs`, two handlers | `src/README.md:104` "one concurrent active news job" | counting and inserting are separate statements |
| `AtMostOnce` | `Mt5Agent`, a basket, `LostAcks = TRUE` | `NewsTraderAgent.mq5:446-447` "retry one rejected leg" | the retry also follows an answer that was lost |
| `AtMostOnce` | `Mt5Agent`, `LedgerFaults = TRUE` | `NewsTraderAgent.mq5:320` "prefers a missed trade over a duplicated trade after a crash" | an unreadable ledger counts as an empty one |
| `CancelledNeverSubmitted` | `Mt5Agent` | `src/docs/agent-protocol.md:58` "avoids a race" | a cancellation accepted between two polls is not known when the job is sent |
| `DoubleFillMeansBoth` | `Mt5Agent`, a pair, one stop | `NewsTraderAgent.mq5:185` "both pending orders filled" | after recovery set `has_fill`, the deal of the only fill looks like a second |
| `PendingOrdersGo` | `Mt5Agent`, a pair, `MaxCrashes = 1` | `NewsTraderAgent.mq5:497-500`, orders removed at `expires_at` | a terminal restarted after the window is never given the job again |
| `NoLateSubmission` | `Mt5Agent` | `src/docs/agent-protocol.md:88` | the deadline is compared with a clock read before blocking calls |
| `ExpiredMeansUnfilled` | `Mt5Agent`, a basket or a pair | `NewsTraderAgent.mq5:222` "No pending order filled before expiry" | `has_fill` is never set for a basket; the deal of a pair's fill is still queued |
| `CancelledLeavesNoEntry` | `CTraderWorker` | `src/README.md:204` halting "cancels pending cTrader entries" | what the start is placing meanwhile, and what a refused cancellation leaves, is not withdrawn |
| `ClosedLeavesNoPosition` | `CTraderWorker` | `ctrader-execution.service.ts:657` "User closed positions and cancelled pending orders" | a reconciliation or a closing that fails is swallowed (644, 651-652) and the row is CLOSED with the position open |
| `LegSentOnce` | `CTraderWorker` | `src/README.md:187` the next worker continues "without blindly resubmitting" | a leg of an ARMED job that filled and closed before the takeover is at the broker no more, and is sent again (163-172) |
| `MarketEnds` | `CTraderWorker`, `MaxTrouble = 0` | `ctrader-execution.service.ts:321-323`, the closing of the last position ends the job | a MARKET job has no expiry timer (283-287): if its position closes before `expiresAt`, nothing ends it and its socket stays open |
| `OtherSideGoes` | `CBotConnector` | `src/docs/SUBSCRIPTIONS_RU.md:115-116`, after the first fill the opposite basket is cancelled (and 110, OCO) | a STRADDLE's Buy that fills while its Sell is being placed cancels nothing, and the Sell stays; a reversal placed during a rollback leaves `ReversalPlaced` set, so the retried basket gets neither OCO nor reversal |
| `CancelledPlacesNothing` | `CBotConnector` | `src/README.md:90` a task can be cancelled "before the armed execution window" | the row is CANCELLED, the next polls omit the job, `ApplyPoll` removes nothing and the cBot executes it |
| `RejectedLeavesNothing` | `CBotConnector` | `TradeTmConnector/README_RU.md:65`, no part of a basket after a rejection | after a restart a preflight check comes before `HasExposure` and rejects a job whose orders are live; a fill handled during a rollback starts a reversal basket of a rejected job |
| `EndLeavesNoEntry` without `~nested` | `CBotConnector` | `TradeTmConnector.cs:672` "All job positions and orders are closed" | a position that closes while the next order is being placed ends the job; `ProcessReversalRetry` may end it and the same pass then submits (355-363) |
| `EndLeavesNoEntry` without `~restarted` | `CBotConnector` | `src/docs/SUBSCRIPTIONS_RU.md:102-104`, open positions stay managed | after a restart a halted job is CANCELLED and one past its window MISSED while its orders are live |
| `SingleBasket`, i.e. `NothingTwice` without `crossed` | `CBotConnector`, `NEWS_REVERSAL`, `Levels = 2`, `Outbox = 0`, `MaxRefused = 1` | `src/docs/SUBSCRIPTIONS_RU.md:114-115`, a single reversal basket | the first reversal order is accepted, the second refused; while `RollbackLeg` waits for the broker, `ProcessReversalRetry` or a second initial fill calls `TryPlaceReversal` again: the flag of the placement is cleared (before the rollback), `NextReversalAttemptAt` is set only after it, and `RollbackInProgress` is not looked at (567-570) |
| `NothingTwice` without `restarted` | `CBotConnector` | `src/docs/SUBSCRIPTIONS_RU.md:111-116`, nothing is doubled after a restart, one reversal basket | `ReversalPlaced` is forgotten: a late initial fill places a second basket under the same labels |
| `LastTargetClears` | `NewsReversal`, `N = 2`, `MaxEvents = 5` | `src/docs/DEPLOYMENT_RU.md:646`, after the third target all pending orders are cancelled | with a reversal order filled before the last target is reached, the sync cancels initial orders only (400-405): the other reversal orders stay |

Assumptions without which a passing property fails, each a constant: `Exclusive` needs
`LeasesLapse = FALSE` (a process paused longer than its lease still runs the job);
`ExpiredIsTrue` needs that too, and `CancelsFail = FALSE`; `DoneEnds` needs `Overlap =
FALSE` (a closing handled during the awaits of its fill is forgotten: `openPositions`
keeps the position), and is about STRADDLE and MULTI jobs only; `OwnersAgree` needs
`Overlap = FALSE` (two users claim one new device, or report one new account, at the
same instant);
`EndLeavesNoEntry` and `NothingTwice` need the exceptions of the table above;
`OneOpen` and `TimeoutAsks` excuse candles that were evaluated together; `Protected`
excuses `slipped` and `RowsFollow` legs that are `forgotten` (both in section 2, with
the lines); `DoneEnds` also excuses a halt that lasts.

## 4. Proofs

All theorems hold for any number of jobs, handlers, instances, users, codes, candles,
levels and stops, any deadlines, volumes and prices; the only premises are the named
assumptions on the constants and those below.

- `TradeJobs_proofs!TypeCorrect`: types. The one interesting part is that a status
  written by a report is a status: `PhaseStatus` says so of the phase table.
- `EveryChangeBacked` (`ReportBacked`) and `SyncIsConditional`
  (`SyncOnlyScheduled`). Neither follows from the types: a pending report must ask
  for exactly the status its phase names, which is the invariant `RequestsAsk`. The
  lemmas `Quiet...` say which statuses each kind of action leaves alone, so the
  theorems look only at the steps that write one; `EveryStatusStep` sums them up.
- `ConcurrentRequestsFollowTable` (`TableFollowed`), for any number of requests at a
  time: the table is enforced on what was read, not on what is replaced, so what is kept
  is that a status taken is one the job has had or follows one of them. The inductive
  invariant `TableInv` says so of what a suspended request is about to write
  (`Founded`): the status it read has been had, and nothing had is forgotten
  (`NothingForgotten`, `StaysFounded`). The refinement of `JobLifecycle` itself
  (`RefinesLifecycle`) holds for one request at a time only and is model-checked there;
  with two it is false, as `TerminalStays` and `WithinLimit` show.
- `Mt5Agent_proofs!TypeCorrect`: types.
- `SubmittedAtMostOnce` (`AtMostOnce`), under `TruthfulBroker`: the ledger can be
  read, and answers are lost only if no job is a basket, whose legs are retried.
  `AtMostOnce` is not inductive. `OnceInv` adds: a job of which any leg was
  accepted is in the ledger (`WriteAhead`); an armed job, and one about to be
  executed, is not (`ArmedIsNew`, `ExecutesNew`); while legs are being sent,
  those at and after the present one are unsent (`SendsNew`). The order "ledger,
  then send" carries the first, the look into the ledger when arming the second.
  Stops only forget memory, so they preserve all of it.
- `FinishedPairsHaveNoOrders` (`FinalLeavesNoOrder`), under `ObedientBroker`: in
  addition no answer is lost and no removal refused. The step that matters is the
  withdrawal of a cancelled job, which makes a job final without deleting
  anything: one must know that such a job has no order. That needs time:
  `TimeInv` says that the EA's clock is behind the server's (`ClockBehind`), that
  jobs in the ledger or about to be executed have entered their armed window
  (`LedgerIsDue`, `ExecutesDue`), so a job cancelled before its window and still
  waiting was never sent (`CancelledIsNew`). `PairInv` adds what is known while a
  pair is being sent (`SendsSubmitted`) and, per state of the job, which of the
  two tickets the EA knows (`PairOK`).
- `NothingFalseReported` (`ReportsAreTrue`), under `TruthfulBroker`: what waits in the
  event queue is what the account shows (`EventsTrue`), for no step takes a position back
  or opens a closed one (`Forward`), and a leg the account shows was accepted (`Sent`), so
  `WriteAhead` puts its job in the ledger. A leg sent a second time would break the first:
  an order pending again while the deal of its first fill waits.
- `FilledPairsStandAlone` (`OneSideStays`), under `ObedientBroker`: the EA finds the
  sibling by comparing the deal with the Buy Stop's ticket, and deletes it by its own, so
  it must know both tickets. `SideInv` says that while a submitted pair has any pending
  order the EA knows the ticket of every order the pair has had (`SideOK`), although
  recovery only learns those of pending ones: two pending orders are all a pair has
  (`BothPending`). A fill noticed before the second order is sent cannot be, since a job
  being sent has no fill (`SideSteps`).
- `Accounts_proofs!TypeCorrect`: types. `CodesUsedOnce` (`OneUse`): a code is spent by
  one conditional update, so what a redeeming request remembers is a code no other
  request can have. `NoneEndsEarly` (`NoEarlyLapse`): a lapse that was read stays
  due, because the update names the row it read and a grant makes a new one.
  `ConnectionsStay` (`StaysConnected`): a token that works is in the row or in the
  hands of the request that has just refreshed it.
- `TerminalsKeepTheirOwner` (`OwnersAgree`), under `Overlap = FALSE`, which excludes
  only that two users are first on one device or account together; other requests
  overlap as they like. One that has compared the owners may still write (`MayWrite`):
  an owner never changes, and those that found none are of one user (`ClaimsAgree`,
  `BeatsAgree`).
- `CTraderWorker_proofs!OneInstanceRuns` (`Exclusive`) and `LeasesKeepCustody`
  (`RefinesCustody`), under `RenewedInTime`, which says `LeasesLapse = FALSE`.
  `Exclusive` is not inductive; `CustodyInv` adds: an instance that runs or starts the
  job owns the row's lease, which has not run out (`Leased`); one that lets go has
  cleared what it held (`Released`); a Runtime goes with a socket (`Sockets`) and a
  place in the program (`Control`). All actions but a claim, a release and an end
  leave custody alone, which `RowKept` and `NobodyTakes` state once for all of them;
  those three are the steps of `JobCustody`, all else stutters.
- `CTraderWorker_proofs!TypeCorrect`: types (`TypeInv`). `NoLiveLegDoubled`
  (`NeverDoubled`), under `RenewedInTime`: `SendInv` adds to `CustodyInv` that the legs
  an instance has still to send are not live (`AheadIsFree`), which is so when
  it has looked, and stays so because it alone runs the job.
- `ExpiredMeansNothingLeft` (`ExpiredIsTrue`, an action property), under `RenewedInTime`
  and `~CancelsFail`; it does not need `Overlap = FALSE`. `ExpireInv` adds to `SendInv`,
  per instance: a Runtime that has not filled has been told of every position
  (`HearsFills`) and knows every order its start has sent (`KnowsOrders`), so the expiry
  cancels all that waits, nothing it sent is still under way (`AwaitsSent`), and what
  filled before is in the inbox ahead of the broker's
  answer (`Withdrawn`), which the handler awaits. A handler left over from an earlier
  Runtime would have no answer to wait for: that the lease stays live until it has
  written (`LeaseHeld`) keeps the job from being taken up beside it, and `StartsOver`
  that an expiry is set only when the start is through.
- `NewsReversal_proofs!TypeCorrect`: types. `TypeInv` adds that an order being recorded
  was sent (`SentOnes`), for `Latest` would otherwise name an order that is not there,
  and that no initial leg is ever planned again under a handler (`HandsTyped`).
- `RowsTellTheTruth` (`RowsFollow`, with its excuse `forgotten`): a message in the inbox,
  and the handler of one received, tells what happened at the broker (`HeardTrue`), so a
  row that follows it is true, and stays so because no order takes a step back. What a
  row says is about the order it names now, so one must know what a handler relies on
  between `findFirst` and its update: unless a sync has planned the leg again, the row
  still names the order it found (`WriteKnown`, `Right`). A leg the start has not come to
  names no order (`AheadNew`, `ArmedNew`), nor does one a sync is sending an order for
  (`PlannedNew`), and what a sync marks closed is (`MarkTrue`).
- `OneOrderPerPosition` (`Protected`): `FollowInv` says what holds while handlers are
  under way too. `Known`: an order waits at the broker only if a row or the send being
  recorded tells of it, and what is taken for waiting does wait or its fill is already
  in the inbox. `SyncKnown`: a sync cancels all rows tell of before it places anything,
  so afterwards only its own orders wait. `Current`: unless the timer is about to start
  another sync, this one places as many orders as positions are open and the last one
  left as many; every fill and close that changes that number arms the timer. The
  theorem counts by a bijection from `1 .. K` to the orders that wait.
- `CBotConnector_proofs!TypeCorrect`: types (`TypeInv`). The bound on the attempts is
  the interesting part: each is behind a refused order, or is the running one. That a
  list of reports leads from a status to a status is an induction along the list, done
  with the least length for which it would fail (`LeastNumber`, `FoldStatus`).
- `CBotConnector_proofs!EndIsClean` (`EndLeavesNoEntry`). `EntryInv` says what each
  suspended handler relies on: the orders it has still to place are not at the broker
  (`AheadIsFree`); once it has cancelled the orders none is pending again before their
  positions are closed or looked for (`EntriesGo`); before a job is submitted there is
  nothing (`NoEntryYet`); and no handler of the timer is suspended over the end of the
  job, but for the two places `nested` excuses (`EndIsIdle`).
- `NothingPlacedTwice` (`NothingTwice`): `EntryInv`, and for the reversal `TurnInv`: a
  placed basket is not being placed; while one is placed the orders at the broker are of
  its side and its next ones are free (`FramesTurn`); before it is tried, and after it is
  rolled back, there is none (`NoneTurned`); while it is rolled back none is pending and
  none is placed (`UnwindsAlone`). The last is where the proof failed at first: a
  `TryPlaceReversal` that crosses a rollback does place orders, as `SingleBasket` in
  section 3 shows, and `crossed` records it.
- `ProbeStrategy_proofs!OnePositionPerCandle` (`OnePerCandle`): the unique key of the
  candle lets one handler at a time work on a bar, the candle stays stored, and the
  handler that opens a position is done with the bar (`OnceInv`).
- `ProbeStrategy_proofs!TypeCorrect`: types. That positions stay within `MaxBar` is a
  pigeonhole argument from `OnceInv`: positions map one to one to the bars they
  opened on.
- `OnePositionOpen` (`OneOpen`): as long as no two candles have been evaluated
  together, one handler is past the creation of its candle and what it read of the
  positions is still so, but for a probe rejected meanwhile, which only closes it
  (`SingleInv`).
- `LabelsFollowPositions` (`OutcomeAgrees`): `OutcomeInv`: the handler about to close a
  position as managed has written the label first, and no settlement from older readings
  can label that bar otherwise. It rests on `PosKnown`, that a handler managing a position
  refers to one that exists: what `Latest` finds is a least-number argument
  (`LeastNumber`), for no theorem here says what `Max` of a set is.
- `TimeoutReachesEveryJob` (`TimeoutAsks`): `TimeInv`: from the deadline's decision until
  the position is closed, the jobs asked so far stay asked, and no leg is opened beside.
- `ProbesEndInTime` (`ProbeEnds`, an action property): `LastInv`: with one handler past
  the candle's creation, the open position is the one it manages, so the candle it ends
  with is the one the deadline was compared with (`WhoEnds`, `InTime`).
- `Arithmetic_proofs!SizedVolumesPass` (`SizedPassesCheck`): the stops counted when a
  volume is sized are no fewer than those counted when it is checked
  (`SizedCoverChecked`), and rounding is downwards. `LabelsFollowManagement`
  (`LabelsAgree`): a case analysis over what a candle touches.
- `SplitsAreFair` (`SplitIsFair`): the legs add up to the steps the volume holds
  (`SplitTotal`). The sum is a fold over the set of legs, and `TotalIs` shows that any
  function that grows with each leg by that leg's volume gives it: here the quotient
  for every leg counted and one for each of the late ones.
- `SellingMirrorsBuying` (`DirectionsMirror`), for markets of any length and any prices,
  at the periods, ratios and ticks the property fixes. Folds are handled once, for any
  finite set: one exists (`FoldingExists`), what computes alike is equal (`FoldingIs`),
  and two that take their elements in the same order keep a relation every element keeps
  (`FoldsRelated`). So the average of mirrored closes is the mirror image of the average
  (`AverageMirror`, `Reflected`), comparisons of averages turn round (`ComparisonsMirror`)
  and the regime with them (`RegimesMirror`). For the other rules highest and lowest
  prices change places (`ExtremesMirror`, `ColumnsMirror`).

Only model-checked: liveness (`DeliveryEnds`, `PendingOrdersGo`, `TakenUp`,
`DoneEnds`, `EndsInTime`), which this prover does not reach under fairness, and
`RefinesLifecycle`, which holds for one request at a time. Every other
invariant and action property of a passing run is stated by a theorem. The
library's induction theorems cannot be instantiated here, so an induction over data is
done by a least counterexample (`LeastNumber`, `LeastSize`).
Theorems are about the specifications here, so they inherit the abstractions of
section 2.

## 5. What is not modelled, and why

- **cTrader cBot**: what section 2 leaves out of `CBotConnector`, and its
  liveness, for which the broker's own expiry of orders would have to be relied on.
- **EA and backend together**: `Mt5Agent` takes jobs and cancellations from a free
  environment and `TradeJobs` takes reports from one, so each property holds whatever
  the other does; a property that needs both (what a report lost by the EA does to
  the limit at the backend) is not stated.
- **Mock worker**: demonstrations only. Its ticks overlap, and the unique `reportKey`
  inside its transaction rolls the second outcome back.
- **Telegram wizard**: wording and layout over the services; the requests it makes
  are actions of the modules.
- **WebSocket gateway**: frame parsing. That it starts an async handler per frame is
  why requests interleave here.
- **Economic events, users, crypto, configuration, health, migrations, scripts**:
  rows written through, hashing, settings; no behaviour over time.
- **Of the modelled components**: what section 2 lists under each.

**What the plan has left**, in this order: that a cBot job ends; the EA and the backend as one composition; the mock worker; the
gateway's frames.
