--------------------------- MODULE ProbeStrategy ----------------------------
(***************************************************************************)
(* Strategy V4, ProbeStrategyService of                                    *)
(* src/src/strategy-v2/probe-strategy.service.ts: one configuration, the   *)
(* M5 candles its feed delivers, the positions it opens and the jobs it    *)
(* schedules for them, with the report that rejects a probe.               *)
(*                                                                         *)
(* Every message of the feed is handled at once, so the handlers of two    *)
(* candles overlap; a handler runs from one await to the next in one step. *)
(* A candle is known by what it does to the position that is open: Kind.   *)
(***************************************************************************)
EXTENDS Integers, Sequences, FiniteSets, FiniteSetsExt

CONSTANTS Handler,       \* candles handled at the same time
          Venues,        \* venues the configuration may trade on
          MaxBar,        \* bound on the M5 bars
          FollowThrough, \* bars after which a position must have moved (6)
          Confirmation,  \* confirmationBars
          Cooldown,      \* cooldownBars
          Horizon,       \* candidateLabelHorizonBars
          MaxTrouble     \* bound on lost and repeated candles, restarts, switches

ASSUME StrategyAssumption ==
  /\ {MaxBar, FollowThrough, Confirmation, Horizon} \subseteq Nat \ {0}
  /\ {Cooldown, MaxTrouble} \subseteq Nat
  /\ Venues \subseteq {"CBOT", "MT5"}

VARIABLES
  venue,     \* config.executionVenue
  enabled,   \* config.enabled
  online,    \* the cBot instance or the MT5 account can be used
  now,       \* bars closed so far
  candle,    \* candle[t]: the MarketCandle row of bar t
  candidate, \* candidate[t]: the StrategyCandidate row of bar t
  position,  \* the StrategyPosition rows in the order of their creation
  job,       \* job[p]: the TradeJob rows of position p by leg
  at,        \* at[h]: where handler h is
  mem,       \* mem[h]: its candle and what it has read
  rejected,  \* positions whose probe is rejected, the position not yet written
  overlapped,\* history: two candles were evaluated at the same time
  trouble

tables == <<candidate, position, job>>
outer  == <<venue, enabled, online>>
vars   == <<outer, now, candle, tables, at, mem, rejected, overlapped, trouble>>

Bar       == 1 .. MaxBar
Pos       == 1 .. MaxBar
OpenState == {"PROBE_OPEN", "MAIN_ADDED"}
Closed    == {"CLOSED_SL", "CLOSED_TP", "CLOSED_TIMEOUT"}
Kind      == {"flat", "signal", "stop", "target", "confirm"}
Outcome   == {"SL", "TP", "TIMEOUT"}
LiveJob   == {"SCHEDULED", "FILLED"}

NoCandidate == [decision |-> "none", outcome |-> "none"]
NoJob       == [status |-> "none", closeAsked |-> FALSE]
Idle        == [bar |-> 0, kind |-> "flat", pos |-> 0, state |-> "PROBE_OPEN",
                found |-> {}, result |-> "SL"]

TypeOK ==
  /\ venue \in Venues /\ {enabled, online, overlapped} \subseteq BOOLEAN
  /\ now \in 0 .. MaxBar /\ trouble \in 0 .. MaxTrouble
  /\ candle \in [Bar -> {"none", "weak", "strong"}]
  /\ candidate \in [Bar -> [decision : {"none", "SKIP", "EXECUTE"}, outcome : Outcome \cup {"none"}]]
  /\ Len(position) <= MaxBar
  /\ \A p \in DOMAIN position :
       position[p] \in [state : OpenState \cup Closed, opened : Bar, closed : 0 .. MaxBar,
                        reason : {"none", "managed", "rejected"}]
  /\ job \in [Pos -> [{"PROBE", "MAIN"} ->
                {NoJob} \cup [status : LiveJob \cup {"ended"}, closeAsked : BOOLEAN]]]
  /\ at \in [Handler -> {"idle", "find", "create", "read", "settle", "decide", "record",
                         "open", "PROBE", "ask", "close", "confirm", "MAIN"}]
  /\ \A h \in Handler : /\ mem[h].bar \in 0 .. MaxBar /\ mem[h].kind \in Kind
                        /\ mem[h].found \subseteq Bar /\ mem[h].result \in Outcome \cup {"SKIP", "EXECUTE"}
  /\ rejected \subseteq Pos

Init ==
  /\ venue \in Venues /\ enabled = TRUE /\ online = TRUE
  /\ now = 0 /\ trouble = 0 /\ overlapped = FALSE /\ rejected = {}
  /\ candle = [t \in Bar |-> "none"] /\ candidate = [t \in Bar |-> NoCandidate]
  /\ position = <<>> /\ job = [p \in Pos |-> [l \in {"PROBE", "MAIN"} |-> NoJob]]
  /\ at = [h \in Handler |-> "idle"] /\ mem = [h \in Handler |-> Idle]

-----------------------------------------------------------------------------
Goes(h, place) == at' = [at EXCEPT ![h] = place]
Learns(h, m)   == mem' = [mem EXCEPT ![h] = m]
Ends(h)        == Goes(h, "idle") /\ Learns(h, Idle)
Trouble        == trouble < MaxTrouble /\ trouble' = trouble + 1
Feed           == UNCHANGED <<now, candle>>
Outside        == UNCHANGED <<outer, rejected, trouble>>

(* ingest.                                                                 *)

\* A bar closes and its candle arrives, as a rule long after the last one was handled.
Arrives(h) ==
  /\ at[h] = "idle" /\ now < MaxBar
  /\ now' = now + 1
  /\ Goes(h, "find") /\ Learns(h, [Idle EXCEPT !.bar = now + 1])
  /\ IF \A g \in Handler : at[g] = "idle" THEN UNCHANGED trouble ELSE Trouble
  /\ UNCHANGED <<outer, candle, tables, rejected, overlapped>>

\* The feed was down when the bar closed; history may bring it later.
Missed == /\ now < MaxBar /\ Trouble /\ now' = now + 1
          /\ UNCHANGED <<outer, candle, tables, at, mem, rejected, overlapped>>

History ==
  LET gaps == {t \in 1 .. now : candle[t] = "none"} IN
    /\ gaps # {}
    /\ \E fill \in [gaps -> {"weak", "strong"}] :
         candle' = [t \in Bar |-> IF t \in gaps THEN fill[t] ELSE candle[t]]
    /\ UNCHANGED <<outer, now, tables, at, mem, rejected, overlapped, trouble>>

\* An answer was lost: the candle comes again while the first is being handled.
\* When it comes later it finds its row and changes nothing.
Repeated(h, g) ==
  /\ at[h] = "idle" /\ at[g] \in {"find", "create", "read"} /\ Trouble
  /\ Goes(h, "find") /\ Learns(h, [mem[g] EXCEPT !.found = {}])
  /\ UNCHANGED <<outer, now, candle, tables, rejected, overlapped>>

Find(h) ==
  /\ at[h] = "find"
  /\ IF candle[mem[h].bar] = "none" THEN Goes(h, "create") /\ UNCHANGED mem ELSE Ends(h)
  /\ Feed /\ UNCHANGED <<tables, overlapped>> /\ Outside

\* Mutant: the row is written whether or not there is one.
FreshAlways(h) == TRUE

\* The unique key of MarketCandle
Fresh(h) == candle[mem[h].bar] = "none"

Create(h) ==
  /\ at[h] = "create"
  /\ IF Fresh(h)
     THEN /\ \E s \in {"weak", "strong"} : candle' = [candle EXCEPT ![mem[h].bar] = s]
          /\ overlapped' = (overlapped \/ \E g \in Handler : at[g] \notin {"idle", "find", "create"})
          /\ Goes(h, "read") /\ UNCHANGED mem
     ELSE Ends(h) /\ UNCHANGED <<candle, overlapped>>
  /\ UNCHANGED <<now, tables>> /\ Outside

-----------------------------------------------------------------------------
(* evaluateV4.                                                             *)

\* What a candle may do, by how far it reaches: the target is beyond one half R.
KindsOf(c) == IF c = "weak" THEN Kind \ {"target"} ELSE Kind \ {"signal", "stop"}

\* settleCandidates reads the candidates without an outcome.
Read(h) ==
  /\ at[h] = "read"
  /\ IF enabled
     THEN /\ Goes(h, "settle")
          /\ \E k \in KindsOf(candle[mem[h].bar]) :
               Learns(h, [mem[h] EXCEPT !.kind = k, !.found = {c \in Bar : /\ c < mem[h].bar
                            /\ candidate[c].decision # "none" /\ candidate[c].outcome = "none"}])
     ELSE Ends(h)
  /\ Feed /\ UNCHANGED <<tables, overlapped>> /\ Outside

Active == {p \in DOMAIN position : position[p].state \in OpenState}

\* The candle touches a barrier of candidate c: those of its position, if one is open.
Touches(h, c) ==
  IF \E p \in Active : position[p].opened = c
  THEN CASE mem[h].kind = "stop" -> {"SL"} [] mem[h].kind = "target" -> {"TP"} [] OTHER -> {"none"}
  ELSE {"SL", "none"}

\* Mutant: the outcome is written whatever has been written since the read.
UnsettledAll(c) == TRUE

\* updateMany where outcome is null
Unsettled(c) == candidate[c].outcome = "none"

Settle(h) ==
  /\ at[h] = "settle"
  /\ \E touch \in [mem[h].found -> Outcome \cup {"none"}] :
       /\ \A c \in mem[h].found : touch[c] \in
            {IF o = "none" /\ mem[h].bar >= c + Horizon THEN "TIMEOUT" ELSE o : o \in Touches(h, c)}
       /\ candidate' = [c \in Bar |-> IF c \in mem[h].found /\ Unsettled(c)
                                      THEN [candidate[c] EXCEPT !.outcome = touch[c]] ELSE candidate[c]]
  /\ Goes(h, "decide") /\ Learns(h, [mem[h] EXCEPT !.found = {}])
  /\ Feed /\ UNCHANGED <<position, job, overlapped>> /\ Outside

\* The first bars stored after the position was opened, up to bar t.
FirstBars(p, t) ==
  LET stored == {b \in position[p].opened + 1 .. t : candle[b] # "none"} IN
    {b \in stored : Cardinality({c \in stored : c <= b}) <= FollowThrough}

\* waveMfeR over the first bars stays below one half
NoFollowThrough(p, t) ==
  /\ t >= position[p].opened + FollowThrough
  /\ Cardinality(FirstBars(p, t)) >= FollowThrough
  /\ \A b \in FirstBars(p, t) : candle[b] = "weak"

\* Mutant: only the candle of the deadline itself ends the probe.
OverdueExactly(p, t) == t = position[p].opened + Confirmation
Overdue(p, t) == t >= position[p].opened + Confirmation

\* managePosition up to its first write
Manage(h, p) ==
  LET t == mem[h].bar
      k == mem[h].kind
      m == [mem[h] EXCEPT !.pos = p, !.state = position[p].state] IN
    CASE k = "stop"   -> Goes(h, "close") /\ Learns(h, [m EXCEPT !.result = "SL"])
      [] k = "target" -> Goes(h, "close") /\ Learns(h, [m EXCEPT !.result = "TP"])
      [] k \notin {"stop", "target"} /\ NoFollowThrough(p, t) ->
           Goes(h, "ask") /\ Learns(h, [m EXCEPT !.result = "TIMEOUT"])
      [] OTHER ->
           IF m.state = "MAIN_ADDED" THEN Ends(h)
           ELSE IF k = "confirm" THEN Goes(h, "confirm") /\ Learns(h, m)
           ELSE IF Overdue(p, t) THEN Goes(h, "ask") /\ Learns(h, [m EXCEPT !.result = "TIMEOUT"])
           ELSE Ends(h)

Cooling(t) == \E p \in DOMAIN position : /\ position[p].closed # 0
                                         /\ t < position[p].closed + Cooldown

\* Mutant: a position that got its second leg is no longer looked for.
CurrentProbe == {p \in Active : position[p].state = "PROBE_OPEN"}

\* The active positions evaluateV4 looks for, of which it takes the last.
Current == Active

\* A signal is taken or, for one of the filters, skipped.
Decide(h) ==
  /\ at[h] = "decide"
  /\ IF Current # {} THEN Manage(h, Max(Current))
     ELSE IF Cooling(mem[h].bar) \/ mem[h].kind # "signal" THEN Ends(h)
     ELSE \E d \in {"SKIP", "EXECUTE"} :
            Goes(h, "record") /\ Learns(h, [mem[h] EXCEPT !.result = d])
  /\ Feed /\ UNCHANGED <<tables, overlapped>> /\ Outside

Record(h) ==
  /\ at[h] = "record"
  /\ candidate' = [candidate EXCEPT ![mem[h].bar].decision = mem[h].result]
  /\ IF mem[h].result = "SKIP" THEN Ends(h) ELSE Goes(h, "open") /\ UNCHANGED mem
  /\ Feed /\ UNCHANGED <<position, job, overlapped>> /\ Outside

Open(h) ==
  /\ at[h] = "open"
  /\ position' = Append(position, [state |-> "PROBE_OPEN", opened |-> mem[h].bar, closed |-> 0,
                                   reason |-> "none"])
  /\ Goes(h, "PROBE") /\ Learns(h, [mem[h] EXCEPT !.pos = Len(position) + 1])
  /\ Feed /\ UNCHANGED <<candidate, job, overlapped>> /\ Outside

\* scheduleCbotLeg and scheduleMt5Leg: an offline instance is an error, a job
\* that exists is left alone.
Schedule(h) ==
  /\ at[h] \in {"PROBE", "MAIN"}
  /\ job' = IF online /\ job[mem[h].pos][at[h]] = NoJob
            THEN [job EXCEPT ![mem[h].pos][at[h]].status = "SCHEDULED"] ELSE job
  /\ Ends(h)
  /\ Feed /\ UNCHANGED <<candidate, position, overlapped>> /\ Outside

Confirm(h) ==
  /\ at[h] = "confirm"
  /\ position' = [position EXCEPT ![mem[h].pos].state = "MAIN_ADDED"]
  /\ Goes(h, "MAIN") /\ UNCHANGED mem
  /\ Feed /\ UNCHANGED <<candidate, job, overlapped>> /\ Outside

\* Mutant: a job that has filled is not asked for.
AsksUnfilled(j) == j.status = "SCHEDULED"

\* Mutant: the status is not looked at.
AsksAll(j) == TRUE

\* The statuses closePosition asks to be closed.
Asks(j) == j.status \in LiveJob

Asked(j) == [j EXCEPT !.closeAsked = @ \/ Asks(j)]

AskJobs(h) ==
  /\ at[h] = "ask"
  /\ job' = IF venue # "CBOT" THEN job
            ELSE [job EXCEPT ![mem[h].pos] = [l \in DOMAIN @ |-> Asked(@[l])]]
  /\ Goes(h, "close") /\ UNCHANGED mem
  /\ Feed /\ UNCHANGED <<candidate, position, overlapped>> /\ Outside

ClosedAs(result) == CASE result = "SL" -> "CLOSED_SL" [] result = "TP" -> "CLOSED_TP"
                      [] OTHER -> "CLOSED_TIMEOUT"

\* The transaction of closePosition: the position and its candidate.
Close(h) ==
  /\ at[h] = "close"
  /\ LET p == mem[h].pos
         c == position[p].opened IN
       /\ position' = [position EXCEPT ![p].state = ClosedAs(mem[h].result),
                                       ![p].closed = mem[h].bar, ![p].reason = "managed"]
       /\ candidate' = [candidate EXCEPT ![c].outcome = mem[h].result]
  /\ Ends(h)
  /\ Feed /\ UNCHANGED <<job, overlapped>> /\ Outside

-----------------------------------------------------------------------------
(* The jobs, the report of a rejected probe (CbotService.report), the user   *)
(* who switches the strategy, the instance that comes and goes.              *)

Still == UNCHANGED <<now, candle, candidate, at, mem, overlapped>>

JobMoves(p, l) ==
  /\ \/ /\ job[p][l].status = "SCHEDULED"
        /\ \/ job' = [job EXCEPT ![p][l].status = "FILLED"] /\ UNCHANGED rejected
           \/ /\ job' = [job EXCEPT ![p][l].status = "ended"]
              /\ \/ UNCHANGED rejected
                 \/ l = "PROBE" /\ venue = "CBOT" /\ rejected' = rejected \cup {p}
     \/ /\ job[p][l].status = "FILLED" /\ job' = [job EXCEPT ![p][l].status = "ended"]
        /\ UNCHANGED rejected
  /\ Still /\ UNCHANGED <<outer, position, trouble>>

RejectProbe(p) ==
  /\ p \in rejected /\ rejected' = rejected \ {p}
  /\ position' = IF position[p].state = "PROBE_OPEN"
                 THEN [position EXCEPT ![p].state = "CLOSED_TIMEOUT", ![p].closed = now,
                                       ![p].reason = "rejected"]
                 ELSE position
  /\ Still /\ UNCHANGED <<outer, job, trouble>>

Switch ==
  /\ IF enabled /\ online THEN Trouble ELSE UNCHANGED trouble
  /\ \/ enabled' = ~enabled /\ UNCHANGED online
     \/ online' = ~online /\ UNCHANGED enabled
  /\ Still /\ UNCHANGED <<venue, position, job, rejected>>

Restart ==
  /\ Trouble /\ \E h \in Handler : at[h] # "idle"
  /\ at' = [h \in Handler |-> "idle"] /\ mem' = [h \in Handler |-> Idle] /\ rejected' = {}
  /\ UNCHANGED <<outer, now, candle, tables, overlapped>>

Evaluate(h) ==
  \/ Find(h) \/ Create(h) \/ Read(h) \/ Settle(h) \/ Decide(h) \/ Record(h) \/ Open(h)
  \/ Schedule(h) \/ Confirm(h) \/ AskJobs(h) \/ Close(h)

Next ==
  \/ \E h \in Handler : \/ Arrives(h)
                        \/ Evaluate(h) \/ \E g \in Handler : Repeated(h, g)
  \/ Missed \/ History \/ Switch \/ Restart
  \/ \E p \in Pos : RejectProbe(p) \/ \E l \in {"PROBE", "MAIN"} : JobMoves(p, l)

Spec == Init /\ [][Next]_vars

-----------------------------------------------------------------------------
(* Properties.                                                             *)

\* While candles are evaluated one at a time the strategy holds at most one
\* position, whatever is lost, repeated or rejected.
OneOpen == ~overlapped => Cardinality(Active) <= 1

\* A candle opens at most one position, even when it comes twice and both
\* copies are handled at the same time.
OnePerCandle == \A p, q \in DOMAIN position : position[p].opened = position[q].opened => p = q

\* The label of a signal the strategy traded is the outcome of its position: a
\* handler that settles candidates from an older reading does not overwrite it.
OutcomeAgrees ==
  \A p \in DOMAIN position : position[p].reason = "managed" /\ position[p].state \in Closed =>
    ClosedAs(candidate[position[p].opened].outcome) = position[p].state

\* A cBot position that ran out of time has asked every job it has at work to
\* close, its second leg included, unless two candles were evaluated together.
TimeoutAsks ==
  \A p \in DOMAIN position :
    ~overlapped /\ venue = "CBOT" /\ position[p].state = "CLOSED_TIMEOUT" /\ position[p].reason = "managed"
      => \A l \in {"PROBE", "MAIN"} : job[p][l].status \in LiveJob => job[p][l].closeAsked

\* No probe stays unconfirmed once a candle at or after its deadline has been
\* evaluated, however many candles were lost before.
ProbeEnds ==
  [][\A h \in Handler :
       /\ ~overlapped' /\ at[h] \in {"decide", "close", "MAIN"} /\ at'[h] = "idle" /\ trouble' = trouble
       => \A p \in DOMAIN position' : position'[p].state = "PROBE_OPEN"
            => mem[h].bar < position'[p].opened + Confirmation]_vars
=============================================================================
