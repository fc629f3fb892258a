------------------------ MODULE ProbeStrategy_proofs ------------------------
(***************************************************************************)
(* Proofs about ProbeStrategy, for any number of handlers, bars and        *)
(* deadlines: types, one position per candle and, while candles are        *)
(* evaluated one at a time, one open position; the labels of signals, the  *)
(* closing requests at the deadline, and the end of probes.                *)
(***************************************************************************)
EXTENDS ProbeStrategy, FiniteSetTheorems, WellFoundedInduction, TLAPS

Row   == [state : OpenState \cup Closed, opened : Bar, closed : 0 .. MaxBar,
          reason : {"none", "managed", "rejected"}]
Job   == {NoJob} \cup [status : LiveJob \cup {"ended"}, closeAsked : BOOLEAN]
Label == [decision : {"none", "SKIP", "EXECUTE"}, outcome : Outcome \cup {"none"}]
Stage == {"idle", "find", "create", "read", "settle", "decide", "record",
          "open", "PROBE", "ask", "close", "confirm", "MAIN"}

\* What a handler remembers.  Of the position it manages nothing is said here.
Remembers(m) ==
  /\ DOMAIN m = DOMAIN Idle
  /\ m.bar \in 0 .. MaxBar /\ m.kind \in Kind /\ m.found \subseteq Bar
  /\ m.result \in Outcome \cup {"SKIP", "EXECUTE"}

\* A handler at work has a bar, and a result of the kind it is about to write.
AtWork(place, m) ==
  /\ place # "idle" => m.bar \in Bar
  /\ place = "record" => m.result \in {"SKIP", "EXECUTE"}
  /\ place \in {"ask", "close"} => m.result \in Outcome

Rows ==
  /\ candle \in [Bar -> {"none", "weak", "strong"}] /\ candidate \in [Bar -> Label]
  /\ position \in Seq(Row) /\ job \in [Pos -> [{"PROBE", "MAIN"} -> Job]]
  /\ now \in 0 .. MaxBar /\ rejected \subseteq Pos

Handlers ==
  /\ at \in [Handler -> Stage] /\ DOMAIN mem = Handler
  /\ \A h \in Handler : Remembers(mem[h]) /\ AtWork(at[h], mem[h])

Others ==
  /\ venue \in Venues /\ {enabled, online, overlapped} \subseteq BOOLEAN
  /\ trouble \in 0 .. MaxTrouble

Shape == Rows /\ Handlers /\ Others

LEMMA BarIsNat == MaxBar \in Nat /\ Bar \subseteq Nat /\ Bar = 1 .. MaxBar
  BY StrategyAssumption DEF Bar

\* The handler of h goes to a place with what it remembers; the others stay.
LEMMA OneMoves ==
  ASSUME Handlers, NEW h \in Handler, NEW place \in Stage, NEW m,
         at' = [at EXCEPT ![h] = place], mem' = [mem EXCEPT ![h] = m],
         Remembers(m), AtWork(place, m)
  PROVE  Handlers'
  BY DEF Handlers

LEMMA OneStays ==
  ASSUME Handlers, NEW h \in Handler, NEW place \in Stage,
         at' = [at EXCEPT ![h] = place], mem' = mem, AtWork(place, mem[h])
  PROVE  Handlers'
  BY DEF Handlers

LEMMA IdleRemembers == Remembers(Idle) /\ AtWork("idle", Idle)
  BY BarIsNat DEF Remembers, AtWork, Idle, Kind, Outcome, Bar

LEMMA OneEnds ==
  ASSUME Handlers, NEW h \in Handler, Ends(h) PROVE Handlers'
  BY IdleRemembers, OneMoves DEF Ends, Goes, Learns, Stage

LEMMA RowTyped == ASSUME Shape, NEW p \in DOMAIN position PROVE position[p] \in Row
  BY DEF Shape, Rows

\* Rows with fields replaced are still rows.
LEMMA RowsTyped ==
  /\ \A x \in Row, st \in OpenState \cup Closed, t \in 0 .. MaxBar, r \in {"managed", "rejected"} :
       [x EXCEPT !.state = st, !.closed = t, !.reason = r] \in Row
  /\ \A x \in Row, st \in OpenState \cup Closed : [x EXCEPT !.state = st] \in Row
  /\ \A x \in Label, o \in Outcome \cup {"none"} : [x EXCEPT !.outcome = o] \in Label
  /\ \A x \in Label, d \in {"SKIP", "EXECUTE"} : [x EXCEPT !.decision = d] \in Label
  BY DEF Row, Label

\* A position with one row replaced keeps its length and its other rows.
LEMMA PositionReplaced ==
  ASSUME position \in Seq(Row), NEW p, NEW r,
         p \in DOMAIN position => r \in Row,
         position' = [position EXCEPT ![p] = r]
  PROVE  /\ position' \in Seq(Row) /\ DOMAIN position' = DOMAIN position
         /\ \A q \in DOMAIN position : position'[q] = IF q = p THEN r ELSE position[q]
<1>1. CASE p \in DOMAIN position
  BY <1>1
<1>2. CASE p \notin DOMAIN position
  <2>1. position' = position
    BY <1>2
  <2>2. QED
    BY <1>2, <2>1
<1>3. QED
  BY <1>1, <1>2

LEMMA FeedShape ==
  ASSUME Shape, NEW h \in Handler,
         \/ Arrives(h) \/ Find(h) \/ Create(h) \/ \E g \in Handler : Repeated(h, g)
  PROVE  Shape'
<1>1. CASE Arrives(h)
  <2>1. now + 1 \in Bar /\ now + 1 \in 0 .. MaxBar
    BY <1>1, BarIsNat DEF Arrives, Shape, Rows
  <2>2. Remembers([Idle EXCEPT !.bar = now + 1]) /\ AtWork("find", [Idle EXCEPT !.bar = now + 1])
    BY <2>1, IdleRemembers DEF Remembers, AtWork, Idle
  <2>3. Handlers'
    BY <1>1, <2>2, OneMoves DEF Shape, Arrives, Goes, Learns, Stage
  <2>4. Others'
    BY <1>1, StrategyAssumption DEF Shape, Others, Arrives, outer, Trouble
  <2>5. QED
    BY <1>1, <2>1, <2>3, <2>4 DEF Shape, Rows, Arrives, tables
<1>2. CASE Find(h)
  <2>1. Handlers'
    <3>1. CASE Ends(h)
      BY <3>1, OneEnds DEF Shape
    <3>2. CASE Goes(h, "create") /\ UNCHANGED mem
      BY <1>2, <3>2, OneStays DEF Shape, Find, Goes, Stage, AtWork, Handlers
    <3>3. QED
      BY <1>2, <3>1, <3>2 DEF Find
  <2>2. QED
    BY <1>2, <2>1 DEF Shape, Rows, Others, Find, Feed, Outside, tables, outer
<1>3. CASE Create(h)
  <2>1. Handlers'
    <3>1. CASE Ends(h)
      BY <3>1, OneEnds DEF Shape
    <3>2. CASE Goes(h, "read") /\ UNCHANGED mem
      BY <1>3, <3>2, OneStays DEF Shape, Create, Goes, Stage, AtWork, Handlers
    <3>3. QED
      BY <1>3, <3>1, <3>2 DEF Create
  <2>2. Others'
    BY <1>3 DEF Shape, Others, Create, Outside, outer
  <2>3. candle' \in [Bar -> {"none", "weak", "strong"}]
    BY <1>3 DEF Shape, Rows, Create
  <2>4. QED
    BY <1>3, <2>1, <2>2, <2>3 DEF Shape, Rows, Create, Outside, tables
<1>4. ASSUME NEW g \in Handler, Repeated(h, g) PROVE Shape'
  <2>1. Remembers([mem[g] EXCEPT !.found = {}]) /\ AtWork("find", [mem[g] EXCEPT !.found = {}])
    BY <1>4 DEF Shape, Handlers, Remembers, AtWork, Idle, Repeated
  <2>2. Handlers'
    BY <1>4, <2>1, OneMoves DEF Shape, Repeated, Goes, Learns, Stage
  <2>3. Others'
    BY <1>4, StrategyAssumption DEF Shape, Others, Repeated, outer, Trouble
  <2>4. QED
    BY <1>4, <2>2, <2>3 DEF Shape, Rows, Repeated, tables
<1>5. QED
  BY <1>1, <1>2, <1>3, <1>4

LEMMA CandidatesShape ==
  ASSUME Shape, NEW h \in Handler, Read(h) \/ Settle(h) \/ Record(h)
  PROVE  Shape'
<1>1. CASE Read(h)
  <2>1. Handlers'
    <3>1. CASE Ends(h)
      BY <3>1, OneEnds DEF Shape
    <3>2. ASSUME NEW k \in KindsOf(candle[mem[h].bar]), NEW f \in SUBSET Bar,
                 Goes(h, "settle"), Learns(h, [mem[h] EXCEPT !.kind = k, !.found = f])
          PROVE  Handlers'
      <4>1. k \in Kind
        BY <3>2 DEF KindsOf
      <4>2. Remembers([mem[h] EXCEPT !.kind = k, !.found = f])
        BY <4>1 DEF Shape, Handlers, Remembers, Idle
      <4>3. AtWork("settle", [mem[h] EXCEPT !.kind = k, !.found = f])
        BY <1>1 DEF Shape, Handlers, Remembers, AtWork, Idle, Read
      <4>4. QED
        BY <3>2, <4>2, <4>3, OneMoves DEF Shape, Goes, Learns, Stage
    <3>3. QED
      BY <1>1, <3>1, <3>2 DEF Read
  <2>2. QED
    BY <1>1, <2>1 DEF Shape, Rows, Others, Read, Feed, Outside, tables, outer
<1>2. CASE Settle(h)
  <2>1. Remembers([mem[h] EXCEPT !.found = {}]) /\ AtWork("decide", [mem[h] EXCEPT !.found = {}])
    BY <1>2 DEF Shape, Handlers, Remembers, AtWork, Idle, Settle
  <2>2. Handlers'
    BY <1>2, <2>1, OneMoves DEF Shape, Settle, Goes, Learns, Stage
  <2>3. candidate' \in [Bar -> Label]
    <3>1. PICK touch \in [mem[h].found -> Outcome \cup {"none"}] :
            candidate' = [c \in Bar |-> IF c \in mem[h].found /\ Unsettled(c)
                            THEN [candidate[c] EXCEPT !.outcome = touch[c]] ELSE candidate[c]]
      BY <1>2 DEF Settle
    <3>2. \A c \in Bar : candidate[c] \in Label
      BY DEF Shape, Rows
    <3>3. ASSUME NEW c \in Bar, c \in mem[h].found
          PROVE  [candidate[c] EXCEPT !.outcome = touch[c]] \in Label
      <4>1. touch[c] \in Outcome \cup {"none"}
        BY <3>1, <3>3
      <4>2. QED
        BY <3>2, <4>1, RowsTyped
    <3>4. QED
      BY <3>1, <3>2, <3>3
  <2>4. QED
    BY <1>2, <2>2, <2>3 DEF Shape, Rows, Others, Settle, Feed, Outside, outer
<1>3. CASE Record(h)
  <2>1. Handlers'
    <3>1. CASE Ends(h)
      BY <3>1, OneEnds DEF Shape
    <3>2. CASE Goes(h, "open") /\ UNCHANGED mem
      BY <1>3, <3>2, OneStays DEF Shape, Record, Goes, Stage, AtWork, Handlers
    <3>3. QED
      BY <1>3, <3>1, <3>2 DEF Record
  <2>2. mem[h].bar \in Bar /\ mem[h].result \in {"SKIP", "EXECUTE"}
    BY <1>3 DEF Shape, Handlers, AtWork, Record
  <2>3. [candidate[mem[h].bar] EXCEPT !.decision = mem[h].result] \in Label
    BY <2>2, RowsTyped DEF Shape, Rows
  <2>4. candidate' \in [Bar -> Label]
    BY <1>3, <2>2, <2>3 DEF Record, Shape, Rows
  <2>5. QED
    BY <1>3, <2>1, <2>4 DEF Shape, Rows, Others, Record, Feed, Outside, outer
<1>4. QED
  BY <1>1, <1>2, <1>3

\* A decision writes nothing but what the handler remembers.
LEMMA DecideShape ==
  ASSUME Shape, NEW h \in Handler, Decide(h) PROVE Shape'
<1>1. Remembers(mem[h]) /\ mem[h].bar \in Bar
  BY DEF Decide, Shape, Handlers, AtWork
<1>2. ASSUME NEW p, NEW st, NEW r \in Outcome, NEW place \in {"ask", "close"},
             Goes(h, place), Learns(h, [[mem[h] EXCEPT !.pos = p, !.state = st] EXCEPT !.result = r])
      PROVE  Handlers'
  <2> DEFINE m == [[mem[h] EXCEPT !.pos = p, !.state = st] EXCEPT !.result = r]
  <2>1. Remembers(m) /\ AtWork(place, m)
    BY <1>1, <1>2 DEF Remembers, AtWork, Idle
  <2>2. QED
    BY <1>2, <2>1, OneMoves DEF Shape, Goes, Learns, Stage
<1>3. ASSUME NEW p, Manage(h, p) PROVE Handlers'
  <2>1. ASSUME NEW st, Goes(h, "confirm"), Learns(h, [mem[h] EXCEPT !.pos = p, !.state = st])
        PROVE  Handlers'
    <3>1. Remembers([mem[h] EXCEPT !.pos = p, !.state = st])
      BY <1>1 DEF Remembers, Idle
    <3>2. AtWork("confirm", [mem[h] EXCEPT !.pos = p, !.state = st])
      BY <1>1 DEF Remembers, AtWork, Idle
    <3>3. QED
      BY <2>1, <3>1, <3>2, OneMoves DEF Shape, Goes, Learns, Stage
  <2>2. CASE Ends(h)
    BY <2>2, OneEnds DEF Shape
  <2>3. QED
    BY <1>2, <1>3, <2>1, <2>2 DEF Manage, Outcome
<1>4. ASSUME NEW d \in {"SKIP", "EXECUTE"}, Goes(h, "record"), Learns(h, [mem[h] EXCEPT !.result = d])
      PROVE  Handlers'
  <2>1. Remembers([mem[h] EXCEPT !.result = d]) /\ AtWork("record", [mem[h] EXCEPT !.result = d])
    BY <1>1 DEF Remembers, AtWork, Idle
  <2>2. QED
    BY <1>4, <2>1, OneMoves DEF Shape, Goes, Learns, Stage
<1>5. ASSUME Ends(h) PROVE Handlers'
  BY <1>5, OneEnds DEF Shape
<1>6. Handlers'
  BY <1>3, <1>4, <1>5 DEF Decide
<1>7. QED
  BY <1>6 DEF Decide, Shape, Rows, Others, Feed, Outside, tables, outer

LEMMA PositionsShape ==
  ASSUME Shape, NEW h \in Handler, Open(h) \/ Confirm(h) \/ Close(h) PROVE Shape'
<1>1. CASE Open(h)
  <2>1. mem[h].bar \in Bar /\ Remembers(mem[h])
    BY <1>1 DEF Shape, Handlers, AtWork, Open
  <2>2. \A n : Remembers([mem[h] EXCEPT !.pos = n]) /\ AtWork("PROBE", [mem[h] EXCEPT !.pos = n])
    BY <2>1 DEF Remembers, AtWork, Idle
  <2>3. Handlers'
    BY <1>1, <2>2, OneMoves DEF Shape, Open, Goes, Learns, Stage
  <2>4. [state |-> "PROBE_OPEN", opened |-> mem[h].bar, closed |-> 0, reason |-> "none"] \in Row
    BY <2>1, BarIsNat DEF Row, OpenState
  <2>5. position' \in Seq(Row)
    BY <1>1, <2>4 DEF Open, Shape, Rows
  <2>6. QED
    BY <1>1, <2>3, <2>5 DEF Shape, Rows, Others, Open, Feed, Outside, outer
<1>2. CASE Confirm(h)
  <2>1. Handlers'
    BY <1>2, OneStays DEF Shape, Confirm, Goes, Stage, AtWork, Handlers
  <2>2. position' \in Seq(Row)
    <3>1. mem[h].pos \in DOMAIN position =>
            [position[mem[h].pos] EXCEPT !.state = "MAIN_ADDED"] \in Row
      <4>1. mem[h].pos \in DOMAIN position => position[mem[h].pos] \in Row
        BY DEF Shape, Rows
      <4>2. "MAIN_ADDED" \in OpenState \cup Closed
        BY DEF OpenState
      <4>3. QED
        BY <4>1, <4>2, RowsTyped
    <3>2. position' = [position EXCEPT ![mem[h].pos] =
                         [position[mem[h].pos] EXCEPT !.state = "MAIN_ADDED"]]
      BY <1>2 DEF Confirm
    <3>3. QED
      BY <3>1, <3>2, PositionReplaced DEF Shape, Rows
  <2>3. QED
    BY <1>2, <2>1, <2>2 DEF Shape, Rows, Others, Confirm, Feed, Outside, outer
<1>3. CASE Close(h)
  <2> DEFINE p == mem[h].pos
             c == position[p].opened
  <2>1. Handlers'
    BY <1>3, OneEnds DEF Shape, Close
  <2>2. mem[h].bar \in 0 .. MaxBar /\ mem[h].result \in Outcome
    BY <1>3 DEF Shape, Handlers, Remembers, AtWork, Close
  <2>3. position' \in Seq(Row)
    <3>1. ClosedAs(mem[h].result) \in OpenState \cup Closed
      BY DEF ClosedAs, Closed
    <3>2. p \in DOMAIN position => position[p] \in Row
      BY DEF Shape, Rows
    <3>3. p \in DOMAIN position =>
            [position[p] EXCEPT !.state = ClosedAs(mem[h].result), !.closed = mem[h].bar,
                                !.reason = "managed"] \in Row
      BY <2>2, <3>1, <3>2, RowsTyped
    <3>4. position' = [position EXCEPT ![p] =
            [position[p] EXCEPT !.state = ClosedAs(mem[h].result), !.closed = mem[h].bar,
                                !.reason = "managed"]]
      BY <1>3 DEF Close
    <3>5. QED
      BY <3>3, <3>4, PositionReplaced DEF Shape, Rows
  <2>4. candidate' \in [Bar -> Label]
    <3>1. c \in Bar => [candidate[c] EXCEPT !.outcome = mem[h].result] \in Label
      BY <2>2, RowsTyped DEF Shape, Rows
    <3>2. candidate' = [candidate EXCEPT ![c] = [candidate[c] EXCEPT !.outcome = mem[h].result]]
      BY <1>3 DEF Close
    <3>3. QED
      BY <3>1, <3>2 DEF Shape, Rows
  <2>5. QED
    BY <1>3, <2>1, <2>3, <2>4 DEF Shape, Rows, Others, Close, Feed, Outside, outer
<1>4. QED
  BY <1>1, <1>2, <1>3

LEMMA JobsTyped ==
  /\ \A x \in Job, st \in LiveJob \cup {"ended"} : x # NoJob => [x EXCEPT !.status = st] \in Job
  /\ [NoJob EXCEPT !.status = "SCHEDULED"] \in Job
  /\ \A st \in LiveJob, x \in Job : x.status = st => x # NoJob
<1>1. \A x \in Job, st \in LiveJob \cup {"ended"} : x # NoJob => [x EXCEPT !.status = st] \in Job
  BY DEF Job
<1>2. [NoJob EXCEPT !.status = "SCHEDULED"] \in Job
  BY DEF Job, NoJob, LiveJob
<1>3. \A st \in LiveJob, x \in Job : x.status = st => x # NoJob
  BY DEF NoJob, LiveJob
<1>4. QED
  BY <1>1, <1>2, <1>3

LEMMA Or == \A a \in BOOLEAN : (a \/ TRUE) = TRUE /\ (a \/ FALSE) = a
  OBVIOUS

\* A job that is asked to close, or not, is still a job: none is asked that is not there.
LEMMA AskedTyped ==
  ASSUME NEW x \in Job PROVE Asked(x) \in Job
<1>1. x.closeAsked \in BOOLEAN
  <2>1. CASE x = NoJob
    BY <2>1 DEF NoJob
  <2>2. CASE x # NoJob
    BY <2>2 DEF Job
  <2>3. QED
    BY <2>1, <2>2
<1>2. CASE Asks(x)
  <2>1. (x.closeAsked \/ Asks(x)) = TRUE
    BY <1>1, <1>2, Or, Zenon
  <2>2. [x EXCEPT !.closeAsked = TRUE] \in Job
    BY <1>2 DEF Job, NoJob, LiveJob, Asks
  <2>3. QED
    BY <2>1, <2>2 DEF Asked
<1>3. CASE ~Asks(x)
  <2>1. (x.closeAsked \/ Asks(x)) = x.closeAsked
    BY <1>1, <1>3, Or, Zenon
  <2>2. [x EXCEPT !.closeAsked = x.closeAsked] = x
    BY DEF Job, NoJob
  <2>3. QED
    BY <2>1, <2>2 DEF Asked
<1>4. QED
  BY <1>2, <1>3

LEMMA JobsShape ==
  ASSUME Shape, NEW h \in Handler, Schedule(h) \/ AskJobs(h) PROVE Shape'
<1> USE DEF Shape, Rows
<1>1. CASE Schedule(h)
  <2>1. Handlers'
    BY <1>1, OneEnds DEF Schedule
  <2>2. job' \in [Pos -> [{"PROBE", "MAIN"} -> Job]]
    <3> DEFINE p == mem[h].pos
               l == at[h]
    <3>1. CASE UNCHANGED job
      BY <3>1
    <3>2. CASE job[p][l] = NoJob /\ job' = [job EXCEPT ![p][l].status = "SCHEDULED"]
      <4>1. [job[p][l] EXCEPT !.status = "SCHEDULED"] \in Job
        BY <3>2, JobsTyped
      <4>2. p \in Pos => [job[p] EXCEPT ![l] = [job[p][l] EXCEPT !.status = "SCHEDULED"]]
                            \in [{"PROBE", "MAIN"} -> Job]
        BY <4>1
      <4>3. job' = [job EXCEPT ![p] = [job[p] EXCEPT ![l] = [job[p][l] EXCEPT !.status = "SCHEDULED"]]]
        BY <3>2
      <4>4. QED
        BY <4>2, <4>3
    <3>3. QED
      BY <1>1, <3>1, <3>2 DEF Schedule
  <2>3. QED
    BY <1>1, <2>1, <2>2 DEF Others, Schedule, Feed, Outside, outer
<1>2. CASE AskJobs(h)
  <2>1. AtWork("close", mem[h])
    BY <1>2 DEF AskJobs, Handlers, AtWork
  <2>2. Handlers'
    BY <1>2, <2>1, OneStays DEF AskJobs, Goes, Stage
  <2>3. job' \in [Pos -> [{"PROBE", "MAIN"} -> Job]]
    <3> DEFINE p == mem[h].pos
               asked == [l \in DOMAIN job[p] |-> Asked(job[p][l])]
    <3>1. p \in Pos => asked \in [{"PROBE", "MAIN"} -> Job]
      <4>1. SUFFICES ASSUME p \in Pos PROVE asked \in [{"PROBE", "MAIN"} -> Job]
        OBVIOUS
      <4>2. DOMAIN job[p] = {"PROBE", "MAIN"} /\ \A l \in {"PROBE", "MAIN"} : job[p][l] \in Job
        BY <4>1
      <4>3. QED
        BY <4>2, AskedTyped
    <3>2. UNCHANGED job \/ job' = [job EXCEPT ![p] = asked]
      BY <1>2 DEF AskJobs
    <3>3. QED
      BY <3>1, <3>2
  <2>4. QED
    BY <1>2, <2>2, <2>3 DEF Others, AskJobs, Feed, Outside, outer
<1>3. QED
  BY <1>1, <1>2

LEMMA OutsideShape ==
  ASSUME Shape,
         \/ Missed \/ History \/ Switch \/ Restart
         \/ \E p \in Pos : RejectProbe(p) \/ \E l \in {"PROBE", "MAIN"} : JobMoves(p, l)
  PROVE  Shape'
<1>1. CASE Missed
  BY <1>1, BarIsNat, StrategyAssumption
     DEF Shape, Rows, Handlers, Others, Missed, Trouble, outer, tables
<1>2. CASE History
  <2>1. candle' \in [Bar -> {"none", "weak", "strong"}]
    BY <1>2 DEF Shape, Rows, History
  <2>2. QED
    BY <1>2, <2>1 DEF Shape, Rows, Handlers, Others, History, outer, tables
<1>3. CASE Switch
  <2>1. Others'
    <3>1. venue' \in Venues /\ overlapped' \in BOOLEAN
      BY <1>3 DEF Shape, Others, Switch, Still
    <3>2. enabled' \in BOOLEAN /\ online' \in BOOLEAN
      <4>1. enabled \in BOOLEAN /\ online \in BOOLEAN
        BY DEF Shape, Others
      <4>2. enabled' \in {enabled, ~enabled} /\ online' \in {online, ~online}
        BY <1>3, Zenon DEF Switch
      <4>3. QED
        BY <4>1, <4>2, Zenon
    <3>3. trouble' \in 0 .. MaxTrouble
      <4>1. trouble' = trouble \/ (trouble < MaxTrouble /\ trouble' = trouble + 1)
        BY <1>3 DEF Switch, Trouble
      <4>2. QED
        BY <4>1, StrategyAssumption DEF Shape, Others
    <3>4. QED
      BY <3>1, <3>2, <3>3 DEF Others
  <2>2. QED
    BY <1>3, <2>1 DEF Shape, Rows, Handlers, Switch, Still
<1>4. CASE Restart
  <2>1. Handlers'
    BY <1>4, IdleRemembers DEF Restart, Handlers, Stage
  <2>2. Others'
    BY <1>4, StrategyAssumption DEF Shape, Others, Restart, Trouble, outer
  <2>3. QED
    BY <1>4, <2>1, <2>2 DEF Shape, Rows, Restart, tables
<1>5. ASSUME NEW p \in Pos, RejectProbe(p) PROVE Shape'
  <2>1. position' \in Seq(Row)
    <3>1. p \in DOMAIN position =>
            [position[p] EXCEPT !.state = "CLOSED_TIMEOUT", !.closed = now, !.reason = "rejected"] \in Row
      <4>1. p \in DOMAIN position => position[p] \in Row
        BY DEF Shape, Rows
      <4>2. "CLOSED_TIMEOUT" \in OpenState \cup Closed /\ now \in 0 .. MaxBar
        BY DEF Closed, Shape, Rows
      <4>3. QED
        BY <4>1, <4>2, RowsTyped
    <3>2. \/ position' = position
          \/ position' = [position EXCEPT ![p] =
               [position[p] EXCEPT !.state = "CLOSED_TIMEOUT", !.closed = now, !.reason = "rejected"]]
      BY <1>5 DEF RejectProbe
    <3>3. QED
      BY <3>1, <3>2, PositionReplaced DEF Shape, Rows
  <2>2. QED
    BY <1>5, <2>1 DEF Shape, Rows, Handlers, Others, RejectProbe, Still, outer
<1>6. ASSUME NEW p \in Pos, NEW l \in {"PROBE", "MAIN"}, JobMoves(p, l) PROVE Shape'
  <2>1. job' \in [Pos -> [{"PROBE", "MAIN"} -> Job]] /\ rejected' \subseteq Pos
    <3>1. job[p][l] \in Job
      BY DEF Shape, Rows
    <3>2. job[p][l].status \in LiveJob
      BY <1>6 DEF JobMoves, LiveJob
    <3>3. \A st \in LiveJob \cup {"ended"} : [job[p][l] EXCEPT !.status = st] \in Job
      BY <3>1, <3>2, JobsTyped
    <3>4. \E st \in LiveJob \cup {"ended"} : job' = [job EXCEPT ![p][l].status = st]
      BY <1>6 DEF JobMoves, LiveJob
    <3>5. rejected' \subseteq Pos
      BY <1>6 DEF JobMoves, Shape, Rows
    <3>6. QED
      BY <3>3, <3>4, <3>5 DEF Shape, Rows
  <2>2. QED
    BY <1>6, <2>1 DEF Shape, Rows, Handlers, Others, JobMoves, Still, outer
<1>7. QED
  BY <1>1, <1>2, <1>3, <1>4, <1>5, <1>6

LEMMA ShapeInvariant == Spec => []Shape
<1>1. Init => Shape
  <2> SUFFICES ASSUME Init PROVE Shape
    OBVIOUS
  <2>1. Rows
    BY BarIsNat DEF Init, Rows, NoCandidate, Label, Job, Outcome
  <2>2. Handlers
    BY IdleRemembers DEF Init, Handlers, Stage
  <2>3. Others
    <3>1. venue \in Venues /\ {enabled, online, overlapped} \subseteq BOOLEAN
      BY Zenon DEF Init
    <3>2. trouble \in 0 .. MaxTrouble
      BY StrategyAssumption DEF Init
    <3>3. QED
      BY <3>1, <3>2 DEF Others
  <2>4. QED
    BY <2>1, <2>2, <2>3 DEF Shape
<1>2. Shape /\ [Next]_vars => Shape'
  <2>1. ASSUME Shape, UNCHANGED vars PROVE Shape'
    BY <2>1 DEF Shape, Rows, Handlers, Others, vars, outer, tables
  <2>2. QED
    BY <2>1, FeedShape, CandidatesShape, DecideShape, PositionsShape, JobsShape, OutsideShape
       DEF Next, Evaluate
<1>3. QED
  BY <1>1, <1>2, PTL DEF Spec

-----------------------------------------------------------------------------
(***************************************************************************)
(* One position per candle.  The unique key lets one handler at a time     *)
(* evaluate a bar; the candle stays stored, so nobody begins it again; and *)
(* the handler that opens a position is then done with the bar.            *)
(***************************************************************************)
Working == {"read", "settle", "decide", "record", "open"}

OnceInv ==
  /\ \A h \in Handler : at[h] \in Working => candle[mem[h].bar] # "none"
  /\ \A h, k \in Handler :
       at[h] \in Working /\ at[k] \in Working /\ mem[h].bar = mem[k].bar => h = k
  /\ \A p \in DOMAIN position : candle[position[p].opened] # "none"
  /\ \A p \in DOMAIN position, h \in Handler :
       at[h] \in Working => mem[h].bar # position[p].opened
  /\ OnePerCandle

\* Candles stay, handlers at most leave, positions are those there were.
CandlesStay == \A t \in Bar : candle[t] # "none" => candle'[t] # "none"
NoneBegins  == \A h \in Handler : at'[h] \in Working => at[h] \in Working /\ mem'[h].bar = mem[h].bar
NoneOpened  == /\ DOMAIN position' = DOMAIN position
               /\ \A p \in DOMAIN position : position'[p].opened = position[p].opened

\* ... and no closed position is opened again.
NoneRevived == \A p \in DOMAIN position : position'[p].state \in OpenState => position[p].state \in OpenState

LEMMA PositionUnchanged == UNCHANGED position => NoneOpened /\ NoneRevived
  BY DEF NoneOpened, NoneRevived

\* What a handler does to itself.
LEMMA HandlerMoves ==
  ASSUME Shape, NEW h \in Handler, NEW place, at' = [at EXCEPT ![h] = place],
         \A k \in Handler \ {h} : mem'[k] = mem[k],
         place \in Working => at[h] \in Working /\ mem'[h].bar = mem[h].bar
  PROVE  NoneBegins
  BY DEF NoneBegins, Shape, Handlers

LEMMA MemMoves ==
  ASSUME Shape, NEW h \in Handler, NEW m, mem' = [mem EXCEPT ![h] = m]
  PROVE  mem'[h] = m /\ \A k \in Handler \ {h} : mem'[k] = mem[k]
  BY DEF Shape, Handlers

LEMMA EndsQuietly ==
  ASSUME Shape, NEW h \in Handler, Ends(h) PROVE NoneBegins
  BY MemMoves, HandlerMoves DEF Ends, Goes, Learns, Working

LEMMA OnceKept ==
  ASSUME Shape, OnceInv, CandlesStay, NoneBegins, NoneOpened PROVE OnceInv'
<1>1. \A h \in Handler : at[h] \in Working => mem[h].bar \in Bar
  BY DEF Shape, Handlers, AtWork, Working
<1>2. \A p \in DOMAIN position : position[p].opened \in Bar
  BY RowTyped DEF Row
<1>3. QED
  BY <1>1, <1>2 DEF OnceInv, CandlesStay, NoneBegins, NoneOpened, OnePerCandle

\* All steps but two are of this kind.
LEMMA QuietSteps ==
  ASSUME Shape, Next
  PROVE  \/ CandlesStay /\ NoneBegins /\ NoneOpened
         \/ \E h \in Handler : Create(h) \/ Open(h)
<1>1. ASSUME UNCHANGED candle PROVE CandlesStay
  BY <1>1 DEF CandlesStay
<1>2. ASSUME UNCHANGED <<at, mem>> PROVE NoneBegins
  BY <1>2 DEF NoneBegins
<1>3. ASSUME NEW h \in Handler, Arrives(h) \/ \E g \in Handler : Repeated(h, g)
      PROVE  CandlesStay /\ NoneBegins /\ NoneOpened
  <2>1. NoneBegins
    BY <1>3, MemMoves, HandlerMoves DEF Arrives, Repeated, Goes, Learns, Working
  <2>2. QED
    BY <1>1, <1>3, <2>1, PositionUnchanged DEF Arrives, Repeated, tables
<1>4. ASSUME NEW h \in Handler, Find(h) PROVE CandlesStay /\ NoneBegins /\ NoneOpened
  <2>1. NoneBegins
    <3>1. CASE Goes(h, "create") /\ UNCHANGED mem
      BY <3>1, HandlerMoves DEF Goes, Working
    <3>2. QED
      BY <1>4, <3>1, EndsQuietly DEF Find
  <2>2. QED
    BY <1>1, <1>4, <2>1, PositionUnchanged DEF Find, Feed, tables
<1>5. ASSUME NEW h \in Handler, Read(h) PROVE CandlesStay /\ NoneBegins /\ NoneOpened
  <2>1. NoneBegins
    <3>1. ASSUME NEW k, NEW f, Goes(h, "settle"), Learns(h, [mem[h] EXCEPT !.kind = k, !.found = f])
          PROVE  NoneBegins
      <4>1. [mem[h] EXCEPT !.kind = k, !.found = f].bar = mem[h].bar
        BY DEF Shape, Handlers, Remembers, Idle
      <4>2. QED
        BY <1>5, <3>1, <4>1, MemMoves, HandlerMoves DEF Read, Goes, Learns, Working
    <3>2. QED
      BY <1>5, <3>1, EndsQuietly DEF Read
  <2>2. QED
    BY <1>1, <1>5, <2>1, PositionUnchanged DEF Read, Feed, tables
<1>6. ASSUME NEW h \in Handler, Settle(h) PROVE CandlesStay /\ NoneBegins /\ NoneOpened
  <2>1. [mem[h] EXCEPT !.found = {}].bar = mem[h].bar
    BY DEF Shape, Handlers, Remembers, Idle
  <2>2. NoneBegins
    BY <1>6, <2>1, MemMoves, HandlerMoves DEF Settle, Goes, Learns, Working
  <2>3. QED
    BY <1>1, <1>6, <2>2, PositionUnchanged DEF Settle, Feed
<1>7. ASSUME NEW h \in Handler, Decide(h) PROVE CandlesStay /\ NoneBegins /\ NoneOpened
  <2>1. NoneBegins
    <3>1. ASSUME NEW p, Manage(h, p) PROVE NoneBegins
      <4>1. ASSUME NEW place \in {"ask", "close", "confirm"}, NEW m, Goes(h, place), Learns(h, m)
            PROVE  NoneBegins
        BY <4>1, MemMoves, HandlerMoves DEF Goes, Learns, Working
      <4>2. QED
        BY <3>1, <4>1, EndsQuietly DEF Manage
    <3>2. ASSUME NEW d, Goes(h, "record"), Learns(h, [mem[h] EXCEPT !.result = d]) PROVE NoneBegins
      <4>1. [mem[h] EXCEPT !.result = d].bar = mem[h].bar
        BY DEF Shape, Handlers, Remembers, Idle
      <4>2. QED
        BY <1>7, <3>2, <4>1, MemMoves, HandlerMoves DEF Decide, Goes, Learns, Working
    <3>3. QED
      BY <1>7, <3>1, <3>2, EndsQuietly DEF Decide
  <2>2. QED
    BY <1>1, <1>7, <2>1, PositionUnchanged DEF Decide, Feed, tables
<1>8. ASSUME NEW h \in Handler, Record(h) PROVE CandlesStay /\ NoneBegins /\ NoneOpened
  <2>1. NoneBegins
    <3>1. CASE Goes(h, "open") /\ UNCHANGED mem
      BY <1>8, <3>1, HandlerMoves DEF Record, Goes, Working
    <3>2. QED
      BY <1>8, <3>1, EndsQuietly DEF Record
  <2>2. QED
    BY <1>1, <1>8, <2>1, PositionUnchanged DEF Record, Feed
<1>9. ASSUME NEW h \in Handler, Schedule(h) \/ AskJobs(h)
      PROVE  CandlesStay /\ NoneBegins /\ NoneOpened
  <2>1. NoneBegins
    BY <1>9, HandlerMoves, EndsQuietly DEF Schedule, AskJobs, Goes, Working
  <2>2. QED
    BY <1>1, <1>9, <2>1, PositionUnchanged DEF Schedule, AskJobs, Feed
<1>10. ASSUME NEW h \in Handler, Confirm(h) \/ Close(h)
       PROVE  CandlesStay /\ NoneBegins /\ NoneOpened
  <2>1. NoneBegins
    BY <1>10, HandlerMoves, EndsQuietly DEF Confirm, Close, Goes, Working
  <2>2. NoneOpened
    <3>1. CASE Confirm(h)
      BY <3>1 DEF Confirm, NoneOpened, Shape, Rows, Row
    <3>2. CASE Close(h)
      <4> DEFINE p == mem[h].pos
                 s == ClosedAs(mem[h].result)
                 r == [position[p] EXCEPT !.state = s, !.closed = mem[h].bar, !.reason = "managed"]
      <4>1. position' = [position EXCEPT ![p].state = s, ![p].closed = mem[h].bar, ![p].reason = "managed"]
        BY <3>2 DEF Close
      <4>2. position' = [position EXCEPT ![p] = r]
        BY <4>1
      <4>3. \A q \in DOMAIN position : q = p => r.opened = position[q].opened
        BY RowTyped DEF Row
      <4> HIDE DEF p, r
      <4>4. QED
        BY <4>2, <4>3 DEF NoneOpened
    <3>3. QED
      BY <1>10, <3>1, <3>2
  <2>3. QED
    BY <1>1, <1>10, <2>1, <2>2 DEF Confirm, Close, Feed
<1>11. ASSUME Missed \/ Switch PROVE CandlesStay /\ NoneBegins /\ NoneOpened
  BY <1>1, <1>2, <1>11, PositionUnchanged DEF Missed, Switch, Still, tables
<1>12. ASSUME History PROVE CandlesStay /\ NoneBegins /\ NoneOpened
  <2>1. CandlesStay
    BY <1>12 DEF History, CandlesStay
  <2>2. QED
    BY <1>2, <1>12, <2>1, PositionUnchanged DEF History, tables
<1>13. ASSUME Restart PROVE CandlesStay /\ NoneBegins /\ NoneOpened
  BY <1>1, <1>13, PositionUnchanged DEF Restart, NoneBegins, Working, tables
<1>14. ASSUME NEW p \in Pos, RejectProbe(p) PROVE CandlesStay /\ NoneBegins /\ NoneOpened
  <2>1. NoneOpened
    BY <1>14 DEF RejectProbe, NoneOpened, Shape, Rows, Row
  <2>2. QED
    BY <1>1, <1>2, <1>14, <2>1 DEF RejectProbe, Still
<1>15. ASSUME NEW p \in Pos, NEW l \in {"PROBE", "MAIN"}, JobMoves(p, l)
       PROVE  CandlesStay /\ NoneBegins /\ NoneOpened
  BY <1>1, <1>2, <1>15, PositionUnchanged DEF JobMoves, Still
<1>16. QED
  BY <1>3, <1>4, <1>5, <1>6, <1>7, <1>8, <1>9, <1>10, <1>11, <1>12, <1>13, <1>14, <1>15
     DEF Next, Evaluate

LEMMA CreateKeeps ==
  ASSUME Shape, OnceInv, NEW h \in Handler, Create(h) PROVE OnceInv'
<1>1. UNCHANGED position /\ mem[h].bar \in Bar
  BY DEF Create, tables, Shape, Handlers, AtWork
<1>2. CASE Ends(h) /\ UNCHANGED candle
  BY <1>1, <1>2, EndsQuietly, PositionUnchanged, OnceKept DEF CandlesStay
<1>3. ASSUME NEW s \in {"weak", "strong"}, Fresh(h), candle' = [candle EXCEPT ![mem[h].bar] = s],
             Goes(h, "read"), UNCHANGED mem
      PROVE  OnceInv'
  <2>1. candle'[mem[h].bar] # "none" /\ CandlesStay
    BY <1>1, <1>3 DEF CandlesStay, Shape, Rows
  <2>2. \A k \in Handler : at[k] \in Working => mem[k].bar # mem[h].bar
    BY <1>3 DEF OnceInv, Fresh
  <2>3. \A p \in DOMAIN position : position[p].opened # mem[h].bar /\ position[p].opened \in Bar
    BY <1>3, RowTyped DEF OnceInv, Fresh, Row
  <2>4. \A k \in Handler : at'[k] \in Working => k = h \/ at[k] \in Working
    BY <1>3 DEF Goes, Shape, Handlers
  <2>5. \A k \in Handler : at[k] \in Working => mem[k].bar \in Bar
    BY DEF Shape, Handlers, AtWork, Working
  <2>6. QED
    BY <1>1, <1>3, <2>1, <2>2, <2>3, <2>4, <2>5 DEF OnceInv, CandlesStay, OnePerCandle
<1>4. QED
  BY <1>2, <1>3 DEF Create

LEMMA OpenKeeps ==
  ASSUME Shape, OnceInv, NEW h \in Handler, Open(h) PROVE OnceInv'
<1> DEFINE t == mem[h].bar
<1>1. at[h] = "open" /\ at[h] \in Working /\ candle[t] # "none" /\ candle' = candle
  BY DEF Open, OnceInv, Working, Feed
<1>2. /\ DOMAIN position = 1 .. Len(position) /\ DOMAIN position' = 1 .. Len(position) + 1
      /\ Len(position) \in Nat /\ position'[Len(position) + 1].opened = t
      /\ \A p \in DOMAIN position : position'[p] = position[p]
  BY DEF Open, Shape, Rows
<1>3. \A k \in Handler : at'[k] \in Working => k # h /\ at[k] \in Working /\ mem'[k] = mem[k]
  BY MemMoves DEF Open, Goes, Learns, Shape, Handlers, Working
<1>4. \A p \in DOMAIN position' : p \in DOMAIN position \/ p = Len(position) + 1
  BY <1>2
<1>5. \A k \in Handler : k # h /\ at[k] \in Working => mem[k].bar # t
  BY <1>1 DEF OnceInv
<1>6. \A p \in DOMAIN position : position[p].opened # t
  BY <1>1 DEF OnceInv
<1>7. OnePerCandle'
  BY <1>2, <1>4, <1>6 DEF OnceInv, OnePerCandle
<1>8. QED
  BY <1>1, <1>2, <1>3, <1>4, <1>5, <1>7 DEF OnceInv

LEMMA OnceInvariant == Spec => []OnceInv
<1>1. Init => OnceInv
  BY DEF Init, OnceInv, OnePerCandle, Working
<1>2. Shape /\ OnceInv /\ [Next]_vars => OnceInv'
  <2>1. ASSUME Shape, OnceInv, UNCHANGED vars PROVE OnceInv'
    BY <2>1 DEF vars, tables, OnceInv, OnePerCandle
  <2>2. QED
    BY <2>1, QuietSteps, OnceKept, CreateKeeps, OpenKeeps
<1>3. QED
  BY <1>1, <1>2, ShapeInvariant, PTL DEF Spec

\* A candle opens at most one position, however many copies of it come.
THEOREM OnePositionPerCandle == Spec => []OnePerCandle
<1>1. OnceInv => OnePerCandle
  BY DEF OnceInv
<1>2. QED
  BY <1>1, OnceInvariant, PTL

\* So there are no more positions than bars.
LEMMA PositionsBounded ==
  ASSUME Shape, OnePerCandle PROVE Len(position) <= MaxBar
<1> DEFINE n == Len(position)
           f == [p \in 1 .. n |-> position[p].opened]
<1>1. n \in Nat /\ DOMAIN position = 1 .. n
  BY DEF Shape, Rows
<1>2. f \in Injection(1 .. n, 1 .. MaxBar)
  <2>1. f \in [1 .. n -> 1 .. MaxBar]
    BY <1>1, RowTyped, BarIsNat DEF Row
  <2>2. \A p, q \in 1 .. n : f[p] = f[q] => p = q
    BY <1>1 DEF OnePerCandle
  <2>3. QED
    BY <2>1, <2>2 DEF Injection, IsInjective
<1>3. IsFiniteSet(1 .. MaxBar) /\ Cardinality(1 .. MaxBar) = MaxBar /\ Cardinality(1 .. n) = n
  <2>1. \A b \in Nat : 1 \in Int /\ b \in Int /\ (IF 1 > b THEN 0 ELSE b - 1 + 1) = b
    OBVIOUS
  <2>2. \A b \in Nat : IsFiniteSet(1 .. b) /\ Cardinality(1 .. b) = b
    BY <2>1, FS_Interval
  <2>3. QED
    BY <1>1, <2>2, BarIsNat
<1>4. QED
  BY <1>2, <1>3, FS_Injection

\* Every row, handler and setting keeps its type, and there are at most as many
\* positions as bars: one candle opens no two.
THEOREM TypeCorrect == Spec => []TypeOK
<1>1. Shape /\ OnePerCandle => TypeOK
  <2> SUFFICES ASSUME Shape, OnePerCandle PROVE TypeOK
    OBVIOUS
  <2>1. Len(position) <= MaxBar /\ \A p \in DOMAIN position : position[p] \in Row
    BY PositionsBounded, RowTyped
  <2>2. QED
    BY <2>1 DEF TypeOK, Shape, Rows, Handlers, Others, Remembers, Row, Job, Label, Stage
<1>2. QED
  BY <1>1, ShapeInvariant, OnePositionPerCandle, PTL

-----------------------------------------------------------------------------
(***************************************************************************)
(* One open position.  While no two candles are evaluated together, one    *)
(* handler at most is past the creation of its candle; what it has read of *)
(* the positions is still so when it writes, but for a probe that is       *)
(* rejected, which only closes it.                                         *)
(***************************************************************************)
Deep(h) == at[h] \notin {"idle", "find", "create"}

SingleInv ==
  ~overlapped =>
    /\ \A h, k \in Handler : Deep(h) /\ Deep(k) => h = k
    /\ \A p, q \in Active : p = q
    /\ \A h \in Handler : at[h] \in {"record", "open"} => Active = {}
    /\ \A h \in Handler : at[h] = "confirm" => Active \subseteq {mem[h].pos}

LEMMA ActiveKept ==
  ASSUME NoneOpened, NoneRevived PROVE Active' \subseteq Active
  BY DEF NoneOpened, NoneRevived, Active

\* Handlers that stay or leave, positions that stay or are closed.
LEMMA SingleKept ==
  ASSUME SingleInv, overlapped' = overlapped, Active' \subseteq Active,
         \A h \in Handler : at'[h] = "idle" \/ (at'[h] = at[h] /\ mem'[h] = mem[h])
  PROVE  SingleInv'
<1>1. \A h \in Handler : Deep(h)' => Deep(h)
  BY DEF Deep
<1>2. \A h \in Handler : at'[h] \in {"record", "open"} => at[h] \in {"record", "open"}
  OBVIOUS
<1>3. \A h \in Handler : at'[h] = "confirm" => at[h] = "confirm" /\ mem'[h].pos = mem[h].pos
  OBVIOUS
<1>4. QED
  BY <1>1, <1>2, <1>3 DEF SingleInv

\* One handler goes on.
LEMMA SingleMoves ==
  ASSUME Shape, SingleInv, overlapped' = overlapped, Active' \subseteq Active,
         NEW h \in Handler, NEW place, at' = [at EXCEPT ![h] = place],
         \A k \in Handler \ {h} : mem'[k] = mem[k],
         place \notin {"idle", "find", "create"} => Deep(h),
         place \in {"record", "open"} => at[h] \in {"record", "open"} \/ Active = {},
         place = "confirm" => (~overlapped => Active \subseteq {mem'[h].pos})
  PROVE  SingleInv'
<1>1. at'[h] = place /\ \A k \in Handler \ {h} : at'[k] = at[k]
  BY DEF Shape, Handlers
<1>2. \A k \in Handler : Deep(k)' => Deep(k)
  BY <1>1 DEF Deep
<1>3. ASSUME ~overlapped, NEW k \in Handler, at'[k] \in {"record", "open"} PROVE Active' = {}
  BY <1>1, <1>3 DEF SingleInv
<1>4. ASSUME ~overlapped, NEW k \in Handler, at'[k] = "confirm" PROVE Active' \subseteq {mem'[k].pos}
  <2>1. CASE k = h
    BY <1>1, <1>4, <2>1
  <2>2. CASE k # h
    BY <1>1, <1>4, <2>2 DEF SingleInv
  <2>3. QED
    BY <2>1, <2>2
<1>5. QED
  BY <1>2, <1>3, <1>4 DEF SingleInv

LEMMA ActiveUnchanged == UNCHANGED position => Active' = Active
  BY DEF Active

LEMMA SingleCreate ==
  ASSUME Shape, SingleInv, NEW h \in Handler, Create(h) PROVE SingleInv'
<1>1. Active' = Active
  BY ActiveUnchanged DEF Create, tables
<1>2. CASE Ends(h) /\ UNCHANGED overlapped
  BY <1>1, <1>2, MemMoves, SingleMoves DEF Ends, Goes, Learns
<1>3. CASE Goes(h, "read") /\ UNCHANGED mem
           /\ overlapped' = (overlapped \/ \E g \in Handler : at[g] \notin {"idle", "find", "create"})
  <2> SUFFICES ASSUME ~overlapped' PROVE SingleInv'
    BY DEF SingleInv
  <2>1. ~overlapped /\ \A g \in Handler : ~Deep(g)
    BY <1>3, Zenon DEF Deep
  <2>2. at'[h] = "read" /\ \A k \in Handler \ {h} : at'[k] = at[k]
    BY <1>3 DEF Goes, Shape, Handlers
  <2>3. \A k \in Handler : Deep(k)' => k = h
    BY <2>1, <2>2 DEF Deep
  <2>4. \A k \in Handler : at'[k] \notin {"record", "open", "confirm"}
    BY <2>1, <2>2 DEF Deep
  <2>5. QED
    BY <1>1, <2>1, <2>3, <2>4 DEF SingleInv
<1>4. QED
  BY <1>2, <1>3 DEF Create

\* Max of a single number.
LEMMA MaxOfOne == ASSUME NEW n \in Nat PROVE Max({n}) = n
  BY DEF Max

LEMMA SingleDecide ==
  ASSUME Shape, SingleInv, NEW h \in Handler, Decide(h) PROVE SingleInv'
<1>1. Active' = Active /\ overlapped' = overlapped /\ Deep(h)
  BY ActiveUnchanged DEF Decide, tables, Deep
<1>2. ASSUME NEW place, NEW m, Goes(h, place), Learns(h, m),
             place = "record" => Active = {}, place # "open",
             place = "confirm" => (~overlapped => Active \subseteq {m.pos})
      PROVE  SingleInv'
  BY <1>1, <1>2, MemMoves, SingleMoves DEF Goes, Learns
<1>3. ASSUME Active # {}, ~overlapped PROVE Active \subseteq {Max(Active)}
  <2>1. PICK p : p \in Active
    BY <1>3
  <2>2. Active = {p}
    BY <1>3, <2>1 DEF SingleInv
  <2>3. p \in Nat
    BY <2>1 DEF Active, Shape, Rows
  <2>4. QED
    BY <2>2, <2>3, MaxOfOne
<1>4. ASSUME Active # {}, Manage(h, Max(Active)) PROVE SingleInv'
  <2> DEFINE m == [mem[h] EXCEPT !.pos = Max(Active), !.state = position[Max(Active)].state]
  <2>1. m.pos = Max(Active)
    BY DEF Shape, Handlers, Remembers, Idle
  <2>2. CASE Goes(h, "confirm") /\ Learns(h, m)
    BY <1>2, <1>3, <1>4, <2>1, <2>2
  <2>3. \/ Goes(h, "confirm") /\ Learns(h, m)
        \/ Ends(h)
        \/ \E place \in {"ask", "close"} : \E n : Goes(h, place) /\ Learns(h, n)
    BY <1>4 DEF Manage
  <2>4. QED
    BY <1>2, <2>2, <2>3 DEF Ends
<1>5. ASSUME NEW d, Active = {}, Goes(h, "record"), Learns(h, [mem[h] EXCEPT !.result = d])
      PROVE  SingleInv'
  BY <1>2, <1>5
<1>6. CASE Ends(h)
  BY <1>2, <1>6 DEF Ends
<1>7. QED
  BY <1>4, <1>5, <1>6 DEF Decide, Current

LEMMA SingleOpen ==
  ASSUME Shape, SingleInv, NEW h \in Handler, Open(h) PROVE SingleInv'
<1> SUFFICES ASSUME ~overlapped' PROVE SingleInv'
  BY DEF SingleInv
<1>1. ~overlapped /\ Active = {} /\ Deep(h)
  BY DEF SingleInv, Open, Deep
<1>2. Active' \subseteq {Len(position) + 1}
  <2>1. \A p \in DOMAIN position' : p \in DOMAIN position \/ p = Len(position) + 1
    BY DEF Open, Shape, Rows
  <2>2. \A p \in DOMAIN position : position'[p] = position[p]
    BY DEF Open, Shape, Rows
  <2>3. QED
    BY <1>1, <2>1, <2>2 DEF Active
<1>3. at'[h] = "PROBE" /\ \A k \in Handler \ {h} : at'[k] = at[k] /\ ~Deep(k)
  BY <1>1 DEF Open, Goes, Shape, Handlers, SingleInv
<1>4. \A k \in Handler : Deep(k)' => k = h
  BY <1>3 DEF Deep
<1>5. \A k \in Handler : at'[k] \notin {"record", "open", "confirm"}
  BY <1>3 DEF Deep
<1>6. QED
  BY <1>2, <1>4, <1>5 DEF SingleInv

LEMMA SingleConfirm ==
  ASSUME Shape, SingleInv, NEW h \in Handler, Confirm(h) PROVE SingleInv'
<1> SUFFICES ASSUME ~overlapped' PROVE SingleInv'
  BY DEF SingleInv
<1>1. ~overlapped /\ Active \subseteq {mem[h].pos} /\ Deep(h)
  BY DEF SingleInv, Confirm, Deep
<1>2. Active' \subseteq {mem[h].pos}
  <2>1. DOMAIN position' = DOMAIN position
        /\ \A p \in DOMAIN position : p # mem[h].pos => position'[p] = position[p]
    BY DEF Confirm, Shape, Rows
  <2>2. QED
    BY <1>1, <2>1 DEF Active
<1>3. at'[h] = "MAIN" /\ \A k \in Handler \ {h} : at'[k] = at[k] /\ ~Deep(k)
  BY <1>1 DEF Confirm, Goes, Shape, Handlers, SingleInv
<1>4. \A k \in Handler : Deep(k)' => k = h
  BY <1>3 DEF Deep
<1>5. \A k \in Handler : at'[k] \notin {"record", "open", "confirm"}
  BY <1>3 DEF Deep
<1>6. QED
  BY <1>2, <1>4, <1>5 DEF SingleInv

\* The handlers' steps that open nothing and decide nothing.
LEMMA SingleHandlers ==
  ASSUME Shape, SingleInv, NEW h \in Handler,
         \/ Arrives(h) \/ \E g \in Handler : Repeated(h, g)
         \/ Find(h) \/ Read(h) \/ Settle(h) \/ Record(h) \/ Schedule(h) \/ AskJobs(h)
  PROVE  SingleInv'
<1>1. UNCHANGED position /\ overlapped' = overlapped
  BY DEF Arrives, Repeated, Find, Read, Settle, Record, Schedule, AskJobs, tables, Feed
<1>2. ASSUME NEW place, Goes(h, place), UNCHANGED mem \/ \E m : Learns(h, m),
             place \notin {"idle", "find", "create"} => Deep(h),
             place \in {"record", "open"} => at[h] \in {"record", "open"}, place # "confirm"
      PROVE  SingleInv'
  BY <1>1, <1>2, ActiveUnchanged, MemMoves, SingleMoves DEF Goes, Learns
<1>3. CASE Ends(h)
  BY <1>2, <1>3 DEF Ends
<1>4. CASE Arrives(h) \/ \E g \in Handler : Repeated(h, g)
  BY <1>2, <1>4 DEF Arrives, Repeated
<1>5. CASE Find(h)
  BY <1>2, <1>3, <1>5 DEF Find
<1>6. CASE Read(h)
  BY <1>2, <1>3, <1>6 DEF Read, Deep
<1>7. CASE Settle(h)
  BY <1>2, <1>7 DEF Settle, Deep
<1>8. CASE Record(h)
  BY <1>2, <1>3, <1>8 DEF Record, Deep
<1>9. CASE Schedule(h) \/ AskJobs(h)
  BY <1>2, <1>3, <1>9 DEF Schedule, AskJobs, Deep
<1>10. QED
  BY <1>4, <1>5, <1>6, <1>7, <1>8, <1>9

\* The steps that close a position.
LEMMA SingleClose ==
  ASSUME Shape, SingleInv, (\E h \in Handler : Close(h)) \/ \E p \in Pos : RejectProbe(p)
  PROVE  SingleInv'
<1>1. ASSUME NEW h \in Handler, Close(h) PROVE SingleInv'
  <2>1. Active' \subseteq Active
    <3>1. DOMAIN position' = DOMAIN position
          /\ \A p \in DOMAIN position : p # mem[h].pos => position'[p] = position[p]
      BY <1>1 DEF Close, Shape, Rows
    <3>2. mem[h].pos \in DOMAIN position => position'[mem[h].pos].state = ClosedAs(mem[h].result)
      <4>1. ASSUME mem[h].pos \in DOMAIN position PROVE position[mem[h].pos] \in Row
        BY <4>1, RowTyped
      <4>2. QED
        BY <1>1, <4>1 DEF Close, Row, Shape, Rows
    <3>3. ClosedAs(mem[h].result) \notin OpenState
      BY DEF ClosedAs, OpenState
    <3>4. QED
      BY <3>1, <3>2, <3>3 DEF Active
  <2>2. QED
    BY <1>1, <2>1, MemMoves, SingleMoves DEF Close, Ends, Goes, Learns
<1>2. ASSUME NEW p \in Pos, RejectProbe(p) PROVE SingleInv'
  <2>1. Active' \subseteq Active
    <3>1. CASE UNCHANGED position
      BY <3>1, ActiveUnchanged
    <3>2. CASE position' = [position EXCEPT ![p].state = "CLOSED_TIMEOUT", ![p].closed = now,
                                            ![p].reason = "rejected"]
      <4>1. DOMAIN position' = DOMAIN position
            /\ \A q \in DOMAIN position : q # p => position'[q] = position[q]
        BY <3>2 DEF Shape, Rows
      <4>2. p \in DOMAIN position => position'[p].state = "CLOSED_TIMEOUT"
        <5>1. ASSUME p \in DOMAIN position PROVE position[p] \in Row
          BY <5>1, RowTyped
        <5>2. QED
          BY <3>2, <5>1 DEF Row, Shape, Rows
      <4>3. QED
        BY <4>1, <4>2 DEF Active, OpenState
    <3>3. QED
      BY <1>2, <3>1, <3>2 DEF RejectProbe
  <2>2. QED
    BY <1>2, <2>1, SingleKept DEF RejectProbe, Still
<1>3. QED
  BY <1>1, <1>2

LEMMA SingleOutside ==
  ASSUME Shape, SingleInv,
         \/ Missed \/ History \/ Switch \/ Restart
         \/ \E p \in Pos, l \in {"PROBE", "MAIN"} : JobMoves(p, l)
  PROVE  SingleInv'
<1>1. UNCHANGED position /\ overlapped' = overlapped
  BY DEF Missed, History, Switch, Restart, JobMoves, Still, tables
<1>2. \A h \in Handler : at'[h] = "idle" \/ (at'[h] = at[h] /\ mem'[h] = mem[h])
  BY DEF Missed, History, Switch, Restart, JobMoves, Still
<1>3. QED
  BY <1>1, <1>2, ActiveUnchanged, SingleKept

LEMMA SingleInvariant == Spec => []SingleInv
<1>1. Init => SingleInv
  BY DEF Init, SingleInv, Deep, Active
<1>2. Shape /\ SingleInv /\ [Next]_vars => SingleInv'
  <2>1. ASSUME Shape, SingleInv, UNCHANGED vars PROVE SingleInv'
    BY <2>1, ActiveUnchanged, SingleKept DEF vars, tables
  <2>2. QED
    BY <2>1, SingleHandlers, SingleCreate, SingleDecide, SingleOpen, SingleConfirm, SingleClose,
       SingleOutside DEF Next, Evaluate
<1>3. QED
  BY <1>1, <1>2, ShapeInvariant, PTL DEF Spec

\* Until two candles are evaluated together the strategy holds at most one open
\* position, whatever candles are lost or repeated and whatever is rejected.
THEOREM OnePositionOpen == Spec => []OneOpen
<1>1. SingleInv => OneOpen
  <2> SUFFICES ASSUME SingleInv, ~overlapped PROVE Cardinality(Active) <= 1
    BY DEF OneOpen
  <2>1. CASE Active = {}
    BY <2>1, FS_EmptySet
  <2>2. CASE Active # {}
    <3>1. PICK p : Active = {p}
      BY <2>2 DEF SingleInv
    <3>2. QED
      BY <3>1, FS_Singleton
  <2>3. QED
    BY <2>1, <2>2
<1>2. QED
  BY <1>1, SingleInvariant, PTL

-----------------------------------------------------------------------------
(***************************************************************************)
(* The position a handler manages.  It was the last of the active ones     *)
(* when the handler looked, and rows stay.                                 *)
(***************************************************************************)
LEMMA NotLess ==
  ASSUME NEW m \in Nat, NEW n \in Nat, <<m, n>> \notin OpToRel(<, Nat)
  PROVE  ~(m < n)
<1>1. <<m, n>> \in Nat \X Nat /\ <<m, n>>[1] = m /\ <<m, n>>[2] = n
  OBVIOUS
<1>2. QED
  BY <1>1, Zenon DEF OpToRel

\* A set of naturals that is not empty has a least member.
LEMMA LeastNumber ==
  ASSUME NEW T, T \subseteq Nat, T # {}
  PROVE  \E n \in T : \A m \in T : n <= m
<1>1. PICK n \in T : \A m \in T : <<m, n>> \notin OpToRel(<, Nat)
  <2> DEFINE R == OpToRel(<, Nat)
  <2>1. IsWellFoundedOn(R, Nat)
    BY NatLessThanWellFounded
  <2> HIDE DEF R
  <2>2. \E n \in T : \A m \in T : <<m, n>> \notin R
    BY <2>1, WFMin
  <2>3. QED
    BY <2>2 DEF R
<1>2. \A m \in T : ~(m < n)
  BY <1>1, NotLess
<1>3. QED
  BY <1>2

\* The last of some positions is one of them.
LEMMA MaxOfSome ==
  ASSUME NEW n \in Nat, NEW T, T \subseteq 1 .. n, T # {}
  PROVE  Max(T) \in T
<1> DEFINE D == {n - t : t \in T}
<1>1. D \subseteq Nat /\ D # {}
  <2>1. \A t \in T : t \in 1 .. n /\ n - t \in Nat
    OBVIOUS
  <2>2. PICK t : t \in T
    OBVIOUS
  <2>3. n - t \in D
    BY <2>2
  <2>4. QED
    BY <2>1, <2>3
<1>2. PICK d \in D : \A m \in D : d <= m
  <2> HIDE DEF D
  <2>1. QED
    BY <1>1, LeastNumber
<1>3. PICK t \in T : d = n - t
  BY <1>2
<1>4. \A y \in T : t >= y
  <2>1. SUFFICES ASSUME NEW y \in T PROVE t >= y
    OBVIOUS
  <2>2. n - t <= n - y
    BY <1>2, <1>3
  <2>3. t \in Nat /\ y \in Nat
    OBVIOUS
  <2>4. QED
    BY <2>2, <2>3
<1>5. QED
  BY <1>4 DEF Max

Managing == {"PROBE", "MAIN", "ask", "close", "confirm"}

\* A handler manages a position there is.
PosKnown == \A h \in Handler : at[h] \in Managing => mem[h].pos \in DOMAIN position

LEMMA KnownMoves ==
  ASSUME Shape, PosKnown, NEW h \in Handler, NEW place, at' = [at EXCEPT ![h] = place],
         \A k \in Handler \ {h} : mem'[k] = mem[k], DOMAIN position \subseteq DOMAIN position',
         place \in Managing => mem'[h].pos \in DOMAIN position'
  PROVE  PosKnown'
  BY DEF PosKnown, Shape, Handlers

LEMMA ActiveThere ==
  ASSUME Shape, Active # {} PROVE Max(Active) \in Active
<1>1. Len(position) \in Nat /\ Active \subseteq 1 .. Len(position)
  BY DEF Shape, Rows, Active
<1>2. QED
  BY <1>1, MaxOfSome

\* What managePosition remembers of a position, and where it goes.
LEMMA ManageLearns ==
  ASSUME Shape, NEW h \in Handler, NEW p, Manage(h, p)
  PROVE  \/ Ends(h)
         \/ \E place \in {"ask", "close", "confirm"} : \E m :
              /\ Goes(h, place) /\ Learns(h, m) /\ m.pos = p
              /\ place = "close" => m.result \in {"SL", "TP"}
<1>1. DOMAIN mem[h] = DOMAIN Idle
  BY DEF Shape, Handlers, Remembers
<1> DEFINE m == [mem[h] EXCEPT !.pos = p, !.state = position[p].state]
<1>2. DOMAIN m = DOMAIN Idle /\ m.pos = p
  BY <1>1 DEF Idle
<1>3. \A r : [m EXCEPT !.result = r].pos = p /\ [m EXCEPT !.result = r].result = r
  BY <1>2 DEF Idle
<1>4. \/ \E r \in {"SL", "TP"} : Goes(h, "close") /\ Learns(h, [m EXCEPT !.result = r])
      \/ Goes(h, "ask") /\ Learns(h, [m EXCEPT !.result = "TIMEOUT"])
      \/ Goes(h, "confirm") /\ Learns(h, m)
      \/ Ends(h)
  BY DEF Manage
<1> HIDE DEF m
<1>5. QED
  BY <1>2, <1>3, <1>4

\* No position goes.
LEMMA PositionsStay ==
  ASSUME Shape, Next PROVE DOMAIN position \subseteq DOMAIN position'
<1>1. ASSUME NEW h \in Handler, Create(h) PROVE position' = position
  BY <1>1 DEF Create, tables
<1>2. ASSUME NEW h \in Handler, Open(h) PROVE DOMAIN position \subseteq DOMAIN position'
  BY <1>2 DEF Open, Shape, Rows
<1>3. QED
  BY <1>1, <1>2, QuietSteps DEF NoneOpened

LEMMA KnownStep ==
  ASSUME Shape, PosKnown, Next PROVE PosKnown'
<1>0. DOMAIN position \subseteq DOMAIN position'
  BY PositionsStay
<1>1. ASSUME NEW h \in Handler, NEW place, Goes(h, place), UNCHANGED mem \/ \E m : Learns(h, m),
             place \in Managing => mem'[h].pos \in DOMAIN position'
      PROVE  PosKnown'
  <2>1. \A k \in Handler \ {h} : mem'[k] = mem[k]
    BY <1>1, MemMoves DEF Learns
  <2>2. QED
    BY <1>0, <1>1, <2>1, KnownMoves DEF Goes
<1>2. ASSUME NEW h \in Handler, Ends(h) PROVE PosKnown'
  BY <1>1, <1>2 DEF Ends, Managing
<1>3. ASSUME NEW h \in Handler, Arrives(h) \/ Find(h) \/ Create(h) \/ Read(h) \/ Settle(h) \/ Record(h)
                                 \/ \E g \in Handler : Repeated(h, g)
      PROVE  PosKnown'
  <2>1. \/ Ends(h)
        \/ \E place \in {"find", "create", "read", "settle", "decide", "open"} :
             Goes(h, place) /\ (UNCHANGED mem \/ \E m : Learns(h, m))
    BY <1>3 DEF Arrives, Find, Create, Read, Settle, Record, Repeated
  <2>2. QED
    BY <1>1, <1>2, <2>1 DEF Managing
<1>4. ASSUME NEW h \in Handler, Decide(h) PROVE PosKnown'
  <2>1. ASSUME Active # {}, Manage(h, Max(Active)) PROVE PosKnown'
    <3>1. Max(Active) \in DOMAIN position'
      BY <1>0, <2>1, ActiveThere DEF Active
    <3>2. ASSUME NEW place, NEW m, Goes(h, place), Learns(h, m), m.pos = Max(Active) PROVE PosKnown'
      BY <1>1, <3>1, <3>2, MemMoves DEF Learns
    <3>3. QED
      BY <1>2, <2>1, <3>2, ManageLearns
  <2>2. ASSUME NEW d, Goes(h, "record"), Learns(h, [mem[h] EXCEPT !.result = d]) PROVE PosKnown'
    BY <1>1, <2>2 DEF Managing
  <2>3. QED
    BY <1>2, <1>4, <2>1, <2>2 DEF Decide, Current
<1>5. ASSUME NEW h \in Handler, Open(h) PROVE PosKnown'
  <2> DEFINE m == [mem[h] EXCEPT !.pos = Len(position) + 1]
  <2>1. m.pos = Len(position) + 1
    BY DEF Shape, Handlers, Remembers, Idle
  <2>2. DOMAIN position' = 1 .. Len(position) + 1 /\ Len(position) \in Nat
    BY <1>5 DEF Open, Shape, Rows
  <2>3. mem'[h] = m
    BY <1>5, MemMoves DEF Open, Learns
  <2>4. mem'[h].pos \in DOMAIN position'
    BY <2>1, <2>2, <2>3
  <2>5. QED
    BY <1>1, <1>5, <2>4 DEF Open
<1>6. ASSUME NEW h \in Handler, Schedule(h) \/ Close(h) PROVE PosKnown'
  BY <1>2, <1>6 DEF Schedule, Close
<1>7. ASSUME NEW h \in Handler, Confirm(h) \/ AskJobs(h) PROVE PosKnown'
  <2>1. mem[h].pos \in DOMAIN position' /\ mem' = mem
    BY <1>0, <1>7 DEF Confirm, AskJobs, PosKnown, Managing
  <2>2. QED
    BY <1>1, <1>7, <2>1 DEF Confirm, AskJobs
<1>8. CASE UNCHANGED <<at, mem>>
  BY <1>0, <1>8 DEF PosKnown
<1>9. CASE Missed \/ History \/ Switch
  BY <1>8, <1>9 DEF Missed, History, Switch, Still
<1>10. CASE Restart
  BY <1>10 DEF Restart, PosKnown, Managing
<1>11. ASSUME NEW p \in Pos, RejectProbe(p) \/ \E l \in {"PROBE", "MAIN"} : JobMoves(p, l) PROVE PosKnown'
  BY <1>8, <1>11 DEF RejectProbe, JobMoves, Still
<1>12. QED
  BY <1>3, <1>4, <1>5, <1>6, <1>7, <1>9, <1>10, <1>11 DEF Next, Evaluate

LEMMA KnownInvariant == Spec => []PosKnown
<1>1. Init => PosKnown
  BY DEF Init, PosKnown, Managing
<1>2. Shape /\ PosKnown /\ [Next]_vars => PosKnown'
  <2>1. ASSUME PosKnown, UNCHANGED vars PROVE PosKnown'
    BY <2>1 DEF vars, tables, PosKnown
  <2>2. QED
    BY <2>1, KnownStep
<1>3. QED
  BY <1>1, <1>2, ShapeInvariant, PTL DEF Spec

-----------------------------------------------------------------------------
(***************************************************************************)
(* Labels.  closePosition writes a position and the candidate it came from *)
(* in one transaction; the outcome it writes is final, because a handler   *)
(* that settles candidates writes only where there is none, and no other   *)
(* position came from that candidate.                                      *)
(***************************************************************************)
Ended(p) == position[p].reason = "managed" /\ position[p].state \in Closed

OutcomeInv ==
  \A p \in DOMAIN position : Ended(p) =>
    /\ candidate[position[p].opened].outcome \in Outcome
    /\ ClosedAs(candidate[position[p].opened].outcome) = position[p].state

\* Outcomes that were written stay, and no position ends.
LEMMA OutcomeKept ==
  ASSUME Shape, OutcomeInv, NoneOpened,
         \A p \in DOMAIN position : Ended(p)' => Ended(p) /\ position'[p].state = position[p].state,
         \A c \in Bar : candidate[c].outcome \in Outcome => candidate'[c].outcome = candidate[c].outcome
  PROVE  OutcomeInv'
<1>1. \A p \in DOMAIN position : position[p].opened \in Bar
  BY RowTyped DEF Row
<1>2. SUFFICES ASSUME NEW p \in DOMAIN position', Ended(p)'
               PROVE  /\ candidate'[position'[p].opened].outcome \in Outcome
                      /\ ClosedAs(candidate'[position'[p].opened].outcome) = position'[p].state
  BY DEF OutcomeInv, ClosedAs
<1>3. p \in DOMAIN position /\ Ended(p) /\ position'[p].opened = position[p].opened
      /\ position'[p].state = position[p].state
  BY <1>2 DEF NoneOpened
<1>4. candidate'[position[p].opened].outcome = candidate[position[p].opened].outcome
  BY <1>1, <1>3 DEF OutcomeInv
<1>5. QED
  BY <1>3, <1>4 DEF OutcomeInv

LEMMA CloseOutcome ==
  ASSUME Shape, OnePerCandle, PosKnown, OutcomeInv, NEW h \in Handler, Close(h)
  PROVE  OutcomeInv'
<1> DEFINE p == mem[h].pos
           c == position[p].opened
           s == ClosedAs(mem[h].result)
           r == [position[p] EXCEPT !.state = s, !.closed = mem[h].bar, !.reason = "managed"]
<1>1. p \in DOMAIN position /\ position[p] \in Row /\ c \in Bar
  BY RowTyped DEF PosKnown, Close, Managing, Row
<1>2. mem[h].result \in Outcome
  BY DEF Shape, Handlers, AtWork, Close
<1>3. position' = [position EXCEPT ![p] = r] /\ position \in Seq(Row)
  BY DEF Close, Shape, Rows
<1>4. r.opened = c /\ r.state = s
  BY <1>1 DEF Row
<1>5. candidate'[c].outcome = mem[h].result /\ \A d \in Bar : d # c => candidate'[d] = candidate[d]
  <2>1. candidate[c] \in Label /\ candidate \in [Bar -> Label]
    BY <1>1 DEF Shape, Rows
  <2>2. candidate' = [candidate EXCEPT ![c].outcome = mem[h].result]
    BY DEF Close
  <2> HIDE DEF c
  <2>3. QED
    BY <1>1, <2>1, <2>2 DEF Label
<1>6. \A q \in DOMAIN position : position[q].opened \in Bar /\ (q # p => position[q].opened # c)
  BY <1>1, RowTyped DEF OnePerCandle, Row
<1> HIDE DEF p, c, r, s
<1>7. /\ DOMAIN position' = DOMAIN position /\ position'[p] = r
      /\ \A q \in DOMAIN position : q # p => position'[q] = position[q]
  BY <1>1, <1>3
<1>8. SUFFICES ASSUME NEW q \in DOMAIN position', Ended(q)'
               PROVE  /\ candidate'[position'[q].opened].outcome \in Outcome
                      /\ ClosedAs(candidate'[position'[q].opened].outcome) = position'[q].state
  BY DEF OutcomeInv, ClosedAs
<1>9. CASE q = p
  BY <1>2, <1>4, <1>5, <1>7, <1>9 DEF s
<1>10. CASE q # p
  <2>1. position'[q] = position[q] /\ q \in DOMAIN position /\ Ended(q)
    BY <1>7, <1>8, <1>10 DEF Ended
  <2>2. candidate'[position[q].opened] = candidate[position[q].opened]
    BY <1>5, <1>6, <1>10, <2>1
  <2>3. QED
    BY <2>1, <2>2 DEF OutcomeInv
<1>11. QED
  BY <1>9, <1>10

LEMMA OutcomeStep ==
  ASSUME Shape, OnePerCandle, PosKnown, OutcomeInv, Next PROVE OutcomeInv'
<1>1. ASSUME NoneOpened, UNCHANGED candidate,
             \A p \in DOMAIN position : Ended(p)' => Ended(p) /\ position'[p].state = position[p].state
      PROVE  OutcomeInv'
  BY <1>1, OutcomeKept
<1>2. CASE UNCHANGED <<position, candidate>>
  BY <1>1, <1>2, PositionUnchanged DEF Ended
<1>3. ASSUME NEW h \in Handler, Settle(h) PROVE OutcomeInv'
  <2>1. \A c \in Bar : candidate[c].outcome \in Outcome => candidate'[c].outcome = candidate[c].outcome
    BY <1>3 DEF Settle, Unsettled, Outcome
  <2>2. UNCHANGED position
    BY <1>3 DEF Settle
  <2>3. QED
    BY <2>1, <2>2, PositionUnchanged, OutcomeKept DEF Ended
<1>4. ASSUME NEW h \in Handler, Record(h) PROVE OutcomeInv'
  <2>1. \A c \in Bar : candidate'[c].outcome = candidate[c].outcome
    <3>1. candidate \in [Bar -> Label] /\ \A c \in Bar : candidate[c] \in Label
      BY DEF Shape, Rows
    <3>2. candidate' = [candidate EXCEPT ![mem[h].bar].decision = mem[h].result]
      BY <1>4 DEF Record
    <3>3. QED
      BY <3>1, <3>2 DEF Label
  <2>2. UNCHANGED position
    BY <1>4 DEF Record
  <2>3. QED
    BY <2>1, <2>2, PositionUnchanged, OutcomeKept DEF Ended
<1>5. ASSUME NEW h \in Handler, Open(h) PROVE OutcomeInv'
  <2>1. /\ DOMAIN position = 1 .. Len(position) /\ DOMAIN position' = 1 .. Len(position) + 1
        /\ Len(position) \in Nat /\ position'[Len(position) + 1].reason = "none"
        /\ \A p \in DOMAIN position : position'[p] = position[p]
    BY <1>5 DEF Open, Shape, Rows
  <2>2. \A p \in DOMAIN position' : p \in DOMAIN position \/ p = Len(position) + 1
    BY <2>1
  <2>3. SUFFICES ASSUME NEW p \in DOMAIN position', Ended(p)'
                 PROVE  /\ candidate'[position'[p].opened].outcome \in Outcome
                        /\ ClosedAs(candidate'[position'[p].opened].outcome) = position'[p].state
    BY DEF OutcomeInv, ClosedAs
  <2>4. p \in DOMAIN position /\ position'[p] = position[p]
    BY <2>1, <2>2, <2>3 DEF Ended
  <2>5. candidate' = candidate
    BY <1>5 DEF Open
  <2>6. QED
    BY <2>3, <2>4, <2>5 DEF OutcomeInv, Ended
<1>6. ASSUME NEW h \in Handler, Confirm(h) PROVE OutcomeInv'
  <2>1. position' = [position EXCEPT ![mem[h].pos].state = "MAIN_ADDED"] /\ UNCHANGED candidate
    BY <1>6 DEF Confirm
  <2>2. NoneOpened /\ \A p \in DOMAIN position : position'[p] = position[p] \/ position'[p].state = "MAIN_ADDED"
    BY <2>1, RowTyped DEF NoneOpened, Row, Shape, Rows
  <2>3. QED
    BY <1>1, <2>1, <2>2 DEF Ended, Closed
<1>7. ASSUME NEW q \in Pos, RejectProbe(q) PROVE OutcomeInv'
  <2>1. CASE UNCHANGED position
    BY <1>2, <1>7, <2>1 DEF RejectProbe, Still
  <2>2. CASE position' = [position EXCEPT ![q].state = "CLOSED_TIMEOUT", ![q].closed = now,
                                          ![q].reason = "rejected"]
    <3>1. NoneOpened /\ \A p \in DOMAIN position : position'[p] = position[p] \/ position'[p].reason = "rejected"
      BY <2>2, RowTyped DEF NoneOpened, Row, Shape, Rows
    <3>2. QED
      BY <1>1, <1>7, <3>1 DEF Ended, RejectProbe, Still
  <2>3. QED
    BY <1>7, <2>1, <2>2 DEF RejectProbe
<1>8. ASSUME NEW h \in Handler, Arrives(h) \/ Find(h) \/ Create(h) \/ Read(h) \/ Decide(h) \/ Schedule(h)
                                 \/ AskJobs(h) \/ \E g \in Handler : Repeated(h, g)
      PROVE  OutcomeInv'
  BY <1>2, <1>8 DEF Arrives, Find, Create, Read, Decide, Schedule, AskJobs, Repeated, tables, Feed
<1>9. CASE \/ Missed \/ History \/ Switch \/ Restart
           \/ \E p \in Pos, l \in {"PROBE", "MAIN"} : JobMoves(p, l)
  BY <1>2, <1>9 DEF Missed, History, Switch, Restart, JobMoves, Still, tables
<1>10. QED
  BY <1>3, <1>4, <1>5, <1>6, <1>7, <1>8, <1>9, CloseOutcome DEF Next, Evaluate

LEMMA OutcomeInvariant == Spec => []OutcomeInv
<1>1. Init => OutcomeInv
  BY DEF Init, OutcomeInv
<1>2. Shape /\ OnePerCandle /\ PosKnown /\ OutcomeInv /\ [Next]_vars => OutcomeInv'
  <2>1. ASSUME OutcomeInv, UNCHANGED vars PROVE OutcomeInv'
    BY <2>1 DEF vars, tables, OutcomeInv, Ended, ClosedAs
  <2>2. QED
    BY <2>1, OutcomeStep
<1>3. QED
  BY <1>1, <1>2, ShapeInvariant, OnePositionPerCandle, KnownInvariant, PTL DEF Spec

\* The label of a signal the strategy traded is the outcome of its position,
\* also when other handlers settle candidates from older readings meanwhile.
THEOREM LabelsFollowPositions == Spec => []OutcomeAgrees
<1>1. OutcomeInv => OutcomeAgrees
  BY DEF OutcomeInv, OutcomeAgrees, Ended
<1>2. QED
  BY <1>1, OutcomeInvariant, PTL

-----------------------------------------------------------------------------
(***************************************************************************)
(* Closing requests.  While candles are evaluated one at a time, the       *)
(* handler that has asked the jobs of a position is the only one that      *)
(* could schedule another for it.                                          *)
(***************************************************************************)
Leg == {"PROBE", "MAIN"}

AllAsked(p) == \A l \in Leg : job[p][l].status \in LiveJob => job[p][l].closeAsked

NotManaged(p) == position[p].reason # "managed"

Asking(h) == at[h] = "close" /\ mem[h].result = "TIMEOUT" /\ venue = "CBOT"

TimedOut(p) == venue = "CBOT" /\ position[p].state = "CLOSED_TIMEOUT" /\ ~NotManaged(p)

TimeFacts ==
  /\ \A p \in Active : NotManaged(p)
  /\ \A h \in Handler : at[h] \in Managing => NotManaged(mem[h].pos)
  /\ \A h \in Handler : Asking(h) => AllAsked(mem[h].pos)
  /\ \A p \in DOMAIN position : TimedOut(p) => AllAsked(p)

TimeInv == ~overlapped => TimeFacts

LEMMA PositionsAreBars ==
  ASSUME Shape, OnePerCandle PROVE DOMAIN position \subseteq Pos
<1>1. Len(position) \in Nat /\ DOMAIN position = 1 .. Len(position) /\ Len(position) <= MaxBar
  BY PositionsBounded DEF Shape, Rows
<1>2. QED
  BY <1>1, BarIsNat DEF Pos

\* Positions and jobs that were asked stay, handlers stay or manage nothing.
LEMMA TimeKept ==
  ASSUME Shape, PosKnown, TimeFacts, venue' = venue,
         DOMAIN position' = DOMAIN position,
         \A p \in DOMAIN position : \/ position'[p].state = position[p].state /\ NotManaged(p)' = NotManaged(p)
                                   \/ NotManaged(p)',
         Active' \subseteq Active,
         \A p \in DOMAIN position : AllAsked(p) => AllAsked(p)',
         \A h \in Handler : at'[h] \notin Managing \/ (at'[h] = at[h] /\ mem'[h] = mem[h])
  PROVE  TimeFacts'
<1>1. \A p \in DOMAIN position : NotManaged(p) => NotManaged(p)'
  OBVIOUS
<1>2. \A p \in Active' : NotManaged(p)'
  BY <1>1 DEF TimeFacts, Active
<1>3. \A h \in Handler : at'[h] \in Managing =>
        at[h] \in Managing /\ mem'[h] = mem[h] /\ at'[h] = at[h] /\ mem[h].pos \in DOMAIN position
  BY DEF PosKnown
<1>4. ASSUME NEW h \in Handler, at'[h] \in Managing PROVE (NotManaged(mem[h].pos))'
  BY <1>1, <1>3, <1>4 DEF TimeFacts, NotManaged
<1>5. ASSUME NEW h \in Handler, Asking(h)' PROVE (AllAsked(mem[h].pos))'
  <2>1. Asking(h) /\ mem[h].pos \in DOMAIN position /\ mem'[h] = mem[h]
    BY <1>3, <1>5 DEF Asking, Managing
  <2>2. AllAsked(mem[h].pos)
    BY <2>1 DEF TimeFacts
  <2>3. QED
    BY <2>1, <2>2 DEF AllAsked
<1>6. ASSUME NEW p \in DOMAIN position', TimedOut(p)' PROVE AllAsked(p)'
  <2>1. p \in DOMAIN position /\ TimedOut(p)
    BY <1>6 DEF TimedOut, NotManaged
  <2>2. QED
    BY <2>1 DEF TimeFacts
<1>7. QED
  BY <1>2, <1>4, <1>5, <1>6 DEF TimeFacts, NotManaged, AllAsked

\* The running handler goes on; it alone is past the creation of its candle.
LEMMA TimeMoves ==
  ASSUME Shape, PosKnown, SingleInv, ~overlapped, TimeFacts, venue' = venue,
         NEW h \in Handler, Deep(h), NEW place, at' = [at EXCEPT ![h] = place],
         \A k \in Handler \ {h} : mem'[k] = mem[k],
         place \in Managing => NotManaged(mem[h].pos)',
         Asking(h)' => AllAsked(mem[h].pos)',
         \A p \in Active' : NotManaged(p)',
         \A p \in DOMAIN position' : TimedOut(p)' => AllAsked(p)'
  PROVE  TimeFacts'
<1>1. at'[h] = place /\ \A k \in Handler \ {h} : at'[k] = at[k] /\ at[k] \in {"idle", "find", "create"}
  BY DEF Shape, Handlers, SingleInv, Deep
<1>2. ASSUME NEW k \in Handler, at'[k] \in Managing PROVE k = h
  BY <1>1, <1>2 DEF Managing
<1>3. \A k \in Handler : at'[k] \in Managing => (NotManaged(mem[k].pos))'
  BY <1>1, <1>2 DEF NotManaged
<1>4. \A k \in Handler : Asking(k)' => (AllAsked(mem[k].pos))'
  <2>1. ASSUME NEW k \in Handler, Asking(k)' PROVE k = h
    BY <1>2, <2>1 DEF Asking, Managing
  <2>2. QED
    BY <2>1 DEF AllAsked
<1>5. QED
  BY <1>3, <1>4 DEF TimeFacts, NotManaged, AllAsked

LEMMA JobRow == ASSUME Shape, NEW p \in Pos, NEW l \in Leg PROVE job[p][l] \in Job /\ DOMAIN job[p] = Leg
  BY DEF Shape, Rows, Leg

\* A job goes on, or has been asked: that it was asked is not forgotten.
LEMMA AskedStays ==
  ASSUME Shape, NEW p \in Pos, NEW l \in Leg, JobMoves(p, l)
  PROVE  \A q \in Pos : AllAsked(q) => AllAsked(q)'
<1>1. PICK st \in {"FILLED", "ended"} : job' = [job EXCEPT ![p][l].status = st]
  BY DEF JobMoves
<1>2. job[p][l].status \in LiveJob
  BY DEF JobMoves, LiveJob
<1>3. job[p][l] \in Job /\ job[p][l] # NoJob
  BY <1>2, JobRow, JobsTyped
<1>4. job'[p][l].closeAsked = job[p][l].closeAsked
  <2>1. job[p][l] \in [status : LiveJob \cup {"ended"}, closeAsked : BOOLEAN]
    BY <1>3 DEF Job
  <2>2. job'[p][l] = [job[p][l] EXCEPT !.status = st]
    BY <1>1, JobRow DEF Shape, Rows
  <2>3. QED
    BY <2>1, <2>2
<1>5. \A q \in Pos, k \in Leg : q # p \/ k # l => job'[q][k] = job[q][k]
  BY <1>1, JobRow DEF Shape, Rows
<1>6. QED
  BY <1>2, <1>4, <1>5 DEF AllAsked

\* closePosition asks every job at work, and forgets no earlier request.
LEMMA AskJobsAsks ==
  ASSUME Shape, NEW h \in Handler, AskJobs(h), venue = "CBOT", mem[h].pos \in Pos
  PROVE  \A q \in Pos : (q = mem[h].pos \/ AllAsked(q)) => AllAsked(q)'
<1> DEFINE p == mem[h].pos
           asked == [l \in DOMAIN job[p] |-> Asked(job[p][l])]
<1>1. job' = [job EXCEPT ![p] = asked]
  BY DEF AskJobs
<1>2. \A l \in Leg : job'[p][l] = Asked(job[p][l]) /\ job[p][l] \in Job
  BY <1>1, JobRow DEF Shape, Rows
<1>3. ASSUME NEW x \in Job PROVE Asked(x).status = x.status /\ (x.status \in LiveJob => Asked(x).closeAsked)
  <2>1. x.closeAsked \in BOOLEAN /\ DOMAIN x = {"status", "closeAsked"}
    <3>1. CASE x = NoJob
      BY <3>1 DEF NoJob
    <3>2. CASE x # NoJob
      BY <3>2 DEF Job
    <3>3. QED
      BY <3>1, <3>2
  <2>2. ASSUME x.status \in LiveJob PROVE Asked(x).closeAsked
    BY <2>1, <2>2 DEF Asked, Asks
  <2>3. Asked(x).status = x.status
    BY <2>1 DEF Asked
  <2>4. QED
    BY <2>2, <2>3
<1>4. \A l \in Leg : job'[p][l].status \in LiveJob => job'[p][l].closeAsked
  BY <1>2, <1>3
<1>5. \A q \in Pos : q # p => job'[q] = job[q]
  BY <1>1 DEF Shape, Rows
<1>6. QED
  BY <1>4, <1>5 DEF AllAsked

LEMMA TimeStep ==
  ASSUME Shape, Shape', OnePerCandle, PosKnown, PosKnown', SingleInv, TimeInv, Next
  PROVE  TimeInv'
<1> SUFFICES ASSUME ~overlapped' PROVE TimeFacts'
  BY DEF TimeInv
<1>0. DOMAIN position \subseteq Pos /\ position \in Seq(Row)
  BY PositionsAreBars DEF Shape, Rows
<1>1. ~overlapped /\ TimeFacts /\ venue' = venue
  <2>1. overlapped' = overlapped \/ \E h \in Handler : Create(h)
    BY DEF Next, Evaluate, Arrives, Find, Read, Settle, Decide, Record, Open, Schedule, Confirm, AskJobs, Close,
       Repeated, Missed, History, Switch, Restart, RejectProbe, JobMoves, Still
  <2>2. ASSUME NEW h \in Handler, Create(h) PROVE ~overlapped
    BY <2>2, Zenon DEF Create
  <2>3. venue' = venue
    BY DEF Next, Evaluate, Arrives, Find, Create, Read, Settle, Decide, Record, Open, Schedule, Confirm, AskJobs,
       Close, Repeated, Missed, History, Switch, Restart, RejectProbe, JobMoves, Still, Outside, outer
  <2>4. QED
    BY <2>1, <2>2, <2>3 DEF TimeInv
<1>2. ASSUME UNCHANGED <<position, job>>,
             \A h \in Handler : at'[h] \notin Managing \/ (at'[h] = at[h] /\ mem'[h] = mem[h])
      PROVE  TimeFacts'
  BY <1>1, <1>2, ActiveUnchanged, TimeKept DEF NotManaged, AllAsked
<1>3. ASSUME NEW h \in Handler, NEW place, Goes(h, place), UNCHANGED mem \/ \E m : Learns(h, m)
      PROVE  /\ \A k \in Handler \ {h} : mem'[k] = mem[k] /\ at'[k] = at[k]
             /\ at'[h] = place
  <2>1. \A k \in Handler \ {h} : mem'[k] = mem[k]
    BY <1>3, MemMoves DEF Learns
  <2>2. QED
    BY <1>3, <2>1 DEF Goes, Shape, Handlers
<1>4. ASSUME NEW h \in Handler, Ends(h) \/ \E place \in {"find", "create", "read", "settle", "decide", "record", "open"} :
                                    Goes(h, place) /\ (UNCHANGED mem \/ \E m : Learns(h, m)),
             UNCHANGED <<position, job>>
      PROVE  TimeFacts'
  <2>1. PICK place : Goes(h, place) /\ (UNCHANGED mem \/ \E m : Learns(h, m)) /\ place \notin Managing
    BY <1>4 DEF Ends, Managing
  <2>2. \A k \in Handler : at'[k] \notin Managing \/ (at'[k] = at[k] /\ mem'[k] = mem[k])
    BY <1>3, <2>1
  <2>3. QED
    BY <1>2, <1>4, <2>2
<1>5. ASSUME NEW h \in Handler, Arrives(h) \/ Find(h) \/ Create(h) \/ Read(h) \/ Settle(h) \/ Record(h)
                                 \/ \E g \in Handler : Repeated(h, g)
      PROVE  TimeFacts'
  <2>1. \/ Ends(h)
        \/ \E place \in {"find", "create", "read", "settle", "decide", "record", "open"} :
             Goes(h, place) /\ (UNCHANGED mem \/ \E m : Learns(h, m))
    BY <1>5 DEF Arrives, Find, Create, Read, Settle, Record, Repeated
  <2>2. UNCHANGED <<position, job>>
    BY <1>5 DEF Arrives, Find, Create, Read, Settle, Record, Repeated, tables, Feed
  <2>3. QED
    BY <1>4, <2>1, <2>2
<1>6. ASSUME NEW h \in Handler, Decide(h) PROVE TimeFacts'
  <2>0. UNCHANGED <<position, job>> /\ Deep(h)
    BY <1>6 DEF Decide, tables, Deep
  <2>1. ASSUME Active # {}, NEW place \in {"ask", "close", "confirm"}, NEW m, Goes(h, place), Learns(h, m),
               m.pos = Max(Active), place = "close" => m.result \in {"SL", "TP"}
        PROVE  TimeFacts'
    <3>1. mem'[h] = m /\ at'[h] = place /\ \A k \in Handler \ {h} : mem'[k] = mem[k]
      BY <1>3, <2>1, MemMoves DEF Learns
    <3>2. NotManaged(Max(Active))
      BY <1>1, <2>1, ActiveThere DEF TimeFacts
    <3>3. NotManaged(mem[h].pos)'
      BY <2>0, <2>1, <3>1, <3>2 DEF NotManaged
    <3>4. ~Asking(h)'
      BY <2>1, <3>1 DEF Asking
    <3>5. (\A p \in Active' : NotManaged(p)') /\ \A p \in DOMAIN position' : TimedOut(p)' => AllAsked(p)'
      BY <1>1, <2>0, ActiveUnchanged DEF TimeFacts, NotManaged, TimedOut, AllAsked
    <3>6. QED
      BY <1>1, <2>0, <2>1, <3>1, <3>3, <3>4, <3>5, TimeMoves DEF Goes
  <2>2. ASSUME Active # {}, Manage(h, Max(Active)) PROVE TimeFacts'
    BY <1>4, <2>0, <2>1, <2>2, ManageLearns
  <2>3. ASSUME NEW d, Goes(h, "record"), Learns(h, [mem[h] EXCEPT !.result = d]) PROVE TimeFacts'
    BY <1>4, <2>0, <2>3
  <2>4. QED
    BY <1>4, <1>6, <2>0, <2>2, <2>3 DEF Decide, Current
<1>7. ASSUME NEW h \in Handler, Open(h) PROVE TimeFacts'
  <2> DEFINE m == [mem[h] EXCEPT !.pos = Len(position) + 1]
  <2>1. Deep(h) /\ job' = job
    BY <1>7 DEF Open, Deep
  <2>2. /\ DOMAIN position = 1 .. Len(position) /\ DOMAIN position' = 1 .. Len(position) + 1
        /\ Len(position) \in Nat /\ position'[Len(position) + 1].reason = "none"
        /\ \A p \in DOMAIN position : position'[p] = position[p]
    BY <1>7 DEF Open, Shape, Rows
  <2>3. \A p \in DOMAIN position' : p \in DOMAIN position \/ p = Len(position) + 1
    BY <2>2
  <2>4. m.pos = Len(position) + 1
    BY DEF Shape, Handlers, Remembers, Idle
  <2>5. mem'[h] = m /\ at'[h] = "PROBE" /\ \A k \in Handler \ {h} : mem'[k] = mem[k]
    BY <1>3, <1>7, MemMoves DEF Open, Learns
  <2>6. NotManaged(mem[h].pos)' /\ ~Asking(h)'
    BY <2>2, <2>4, <2>5 DEF NotManaged, Asking
  <2>7. \A p \in Active' : NotManaged(p)'
    BY <1>1, <2>2, <2>3 DEF Active, NotManaged, TimeFacts
  <2>8. \A p \in DOMAIN position' : TimedOut(p)' => AllAsked(p)'
    BY <1>1, <2>1, <2>2, <2>3 DEF TimedOut, NotManaged, AllAsked, TimeFacts
  <2>9. QED
    BY <1>1, <1>7, <2>1, <2>5, <2>6, <2>7, <2>8, TimeMoves DEF Open, Goes
<1>8. ASSUME NEW h \in Handler, Schedule(h) PROVE TimeFacts'
  <2> DEFINE p == mem[h].pos
  <2>1. Deep(h) /\ at[h] \in Managing /\ p \in DOMAIN position /\ NotManaged(p) /\ position' = position
    BY <1>1, <1>8 DEF Schedule, Deep, Managing, PosKnown, TimeFacts
  <2>2. at'[h] = "idle" /\ (\A k \in Handler \ {h} : mem'[k] = mem[k]) /\ at' = [at EXCEPT ![h] = "idle"]
    BY <1>3, <1>8 DEF Schedule, Ends, Goes
  <2>3. \A q \in Pos : q # p => job'[q] = job[q]
    BY <1>8 DEF Schedule, Shape, Rows
  <2>4. ~Asking(h)'
    BY <2>2 DEF Asking
  <2>5. \A q \in Active' : NotManaged(q)'
    BY <1>1, <2>1, ActiveUnchanged DEF TimeFacts, NotManaged
  <2>6. ASSUME NEW q \in DOMAIN position', TimedOut(q)' PROVE AllAsked(q)'
    <3>1. q \in DOMAIN position /\ q \in Pos /\ TimedOut(q) /\ q # p
      BY <1>0, <1>1, <2>1, <2>6 DEF TimedOut, NotManaged
    <3>2. AllAsked(q) /\ job'[q] = job[q]
      BY <1>1, <2>3, <3>1 DEF TimeFacts
    <3>3. QED
      BY <3>2 DEF AllAsked
  <2>7. QED
    BY <1>1, <2>1, <2>2, <2>4, <2>5, <2>6, TimeMoves DEF Managing
<1>9. ASSUME NEW h \in Handler, Confirm(h) PROVE TimeFacts'
  <2>0. PICK p \in DOMAIN position : p = mem[h].pos
    BY <1>9 DEF Confirm, PosKnown, Managing
  <2>1. Deep(h) /\ p \in DOMAIN position /\ NotManaged(p) /\ job' = job /\ mem' = mem
    BY <1>1, <1>9, <2>0 DEF Confirm, Deep, Managing, TimeFacts
  <2>2. /\ DOMAIN position' = DOMAIN position /\ NotManaged(p)'
        /\ \A q \in DOMAIN position : q # p => position'[q] = position[q]
    <3>1. position[p] \in Row
      BY <2>1, RowTyped
    <3>2. position' = [position EXCEPT ![p].state = "MAIN_ADDED"]
      BY <1>9, <2>0 DEF Confirm
    <3>3. QED
      BY <1>0, <2>1, <3>1, <3>2 DEF Row, NotManaged
  <2>3. \A q \in Active' : NotManaged(q)'
    BY <1>1, <2>2 DEF Active, NotManaged, TimeFacts
  <2>4. \A q \in DOMAIN position' : TimedOut(q)' => AllAsked(q)'
    BY <1>1, <2>1, <2>2 DEF TimedOut, NotManaged, AllAsked, TimeFacts
  <2>5. at' = [at EXCEPT ![h] = "MAIN"] /\ at'[h] = "MAIN"
    BY <1>3, <1>9 DEF Confirm, Goes
  <2>6. ~Asking(h)' /\ NotManaged(mem[h].pos)'
    BY <2>0, <2>1, <2>2, <2>5 DEF Asking, NotManaged
  <2>7. QED
    BY <1>1, <2>1, <2>3, <2>4, <2>5, <2>6, TimeMoves
<1>10. ASSUME NEW h \in Handler, AskJobs(h) PROVE TimeFacts'
  <2> DEFINE p == mem[h].pos
  <2>1. Deep(h) /\ p \in DOMAIN position /\ p \in Pos /\ NotManaged(p) /\ position' = position /\ mem' = mem
    BY <1>0, <1>1, <1>10 DEF AskJobs, Deep, Managing, PosKnown, TimeFacts
  <2>2. at' = [at EXCEPT ![h] = "close"]
    BY <1>10 DEF AskJobs, Goes
  <2>3. venue = "CBOT" => AllAsked(p)' /\ \A q \in Pos : AllAsked(q) => AllAsked(q)'
    BY <1>10, <2>1, AskJobsAsks
  <2>4. NotManaged(mem[h].pos)' /\ (Asking(h)' => AllAsked(mem[h].pos)')
    BY <1>1, <2>1, <2>3 DEF NotManaged, Asking, AllAsked
  <2>5. \A q \in Active' : NotManaged(q)'
    BY <1>1, <2>1, ActiveUnchanged DEF TimeFacts, NotManaged
  <2>6. ASSUME NEW q \in DOMAIN position', TimedOut(q)' PROVE AllAsked(q)'
    <3>1. q \in DOMAIN position /\ TimedOut(q) /\ venue = "CBOT"
      BY <1>1, <2>1, <2>6 DEF TimedOut, NotManaged
    <3>2. QED
      BY <1>0, <1>1, <2>3, <3>1 DEF TimeFacts
  <2>7. QED
    BY <1>1, <2>1, <2>2, <2>4, <2>5, <2>6, TimeMoves
<1>11. ASSUME NEW h \in Handler, Close(h) PROVE TimeFacts'
  <2> DEFINE p == mem[h].pos
             s == ClosedAs(mem[h].result)
             r == [position[p] EXCEPT !.state = s, !.closed = mem[h].bar, !.reason = "managed"]
  <2>1. Deep(h) /\ p \in DOMAIN position /\ position[p] \in Row /\ job' = job /\ mem[h].result \in Outcome
    BY <1>11, RowTyped DEF Close, Deep, Managing, PosKnown, Shape, Handlers, AtWork
  <2>2. position' = [position EXCEPT ![p] = r]
    BY <1>11 DEF Close
  <2>3. r.state = s /\ s \notin OpenState /\ (s = "CLOSED_TIMEOUT" => mem[h].result = "TIMEOUT")
    BY <2>1 DEF Row, ClosedAs, OpenState, Outcome
  <2> HIDE DEF r, s
  <2>4. /\ DOMAIN position' = DOMAIN position /\ position'[p] = r
        /\ \A q \in DOMAIN position : q # p => position'[q] = position[q]
    BY <1>0, <2>1, <2>2
  <2>5. \A q \in Active' : NotManaged(q)'
    BY <1>1, <2>3, <2>4 DEF Active, NotManaged, TimeFacts
  <2>6. ASSUME NEW q \in DOMAIN position', TimedOut(q)' PROVE AllAsked(q)'
    <3>1. CASE q = p
      <4>1. Asking(h)
        BY <1>1, <1>11, <2>3, <2>4, <2>6, <3>1 DEF TimedOut, Asking, Close
      <4>2. QED
        BY <1>1, <2>1, <3>1, <4>1 DEF TimeFacts, AllAsked
    <3>2. CASE q # p
      BY <1>1, <2>1, <2>4, <2>6, <3>2 DEF TimedOut, NotManaged, AllAsked, TimeFacts
    <3>3. QED
      BY <3>1, <3>2
  <2>7. at' = [at EXCEPT ![h] = "idle"] /\ at'[h] = "idle" /\ \A k \in Handler \ {h} : mem'[k] = mem[k]
    BY <1>3, <1>11 DEF Close, Ends, Goes
  <2>8. ~Asking(h)'
    BY <2>7 DEF Asking
  <2>9. QED
    BY <1>1, <2>1, <2>5, <2>6, <2>7, <2>8, TimeMoves DEF Managing
<1>12. CASE Missed \/ History \/ Switch
  BY <1>2, <1>12 DEF Missed, History, Switch, Still, tables
<1>13. CASE Restart
  BY <1>2, <1>13 DEF Restart, tables, Managing
<1>14. ASSUME NEW p \in Pos, RejectProbe(p) PROVE TimeFacts'
  <2>1. CASE UNCHANGED position
    BY <1>2, <1>14, <2>1 DEF RejectProbe, Still
  <2>2. CASE position' = [position EXCEPT ![p].state = "CLOSED_TIMEOUT", ![p].closed = now,
                                          ![p].reason = "rejected"]
    <3>1. /\ DOMAIN position' = DOMAIN position
          /\ \A q \in DOMAIN position : q # p => position'[q] = position[q]
          /\ p \in DOMAIN position => NotManaged(p)' /\ position'[p].state = "CLOSED_TIMEOUT"
      BY <1>0, <2>2, RowTyped DEF Row, NotManaged
    <3>2. Active' \subseteq Active
      BY <3>1 DEF Active, OpenState
    <3>3. \A q \in DOMAIN position : \/ position'[q].state = position[q].state /\ NotManaged(q)' = NotManaged(q)
                                    \/ NotManaged(q)'
      BY <3>1 DEF NotManaged
    <3>4. UNCHANGED <<job, at, mem>>
      BY <1>14 DEF RejectProbe, Still
    <3>5. QED
      BY <1>1, <3>1, <3>2, <3>3, <3>4, TimeKept DEF AllAsked
  <2>3. QED
    BY <1>14, <2>1, <2>2 DEF RejectProbe
<1>15. ASSUME NEW p \in Pos, NEW l \in {"PROBE", "MAIN"}, JobMoves(p, l) PROVE TimeFacts'
  <2>1. UNCHANGED <<position, at, mem>>
    BY <1>15 DEF JobMoves, Still
  <2>2. \A q \in DOMAIN position : AllAsked(q) => AllAsked(q)'
    BY <1>0, <1>15, AskedStays DEF Leg
  <2>3. QED
    BY <1>1, <2>1, <2>2, ActiveUnchanged, TimeKept DEF NotManaged
<1>16. QED
  BY <1>5, <1>6, <1>7, <1>8, <1>9, <1>10, <1>11, <1>12, <1>13, <1>14, <1>15 DEF Next, Evaluate

LEMMA TimeInvariant == Spec => []TimeInv
<1>1. Init => TimeInv
  BY DEF Init, TimeInv, TimeFacts, Active, Managing, Asking
<1>2. /\ Shape /\ Shape' /\ OnePerCandle /\ PosKnown /\ PosKnown' /\ SingleInv /\ TimeInv /\ [Next]_vars
      => TimeInv'
  <2>1. ASSUME TimeInv, UNCHANGED vars PROVE TimeInv'
    BY <2>1, ActiveUnchanged DEF vars, tables, outer, TimeInv, TimeFacts, NotManaged, AllAsked, Asking, TimedOut
  <2>2. QED
    BY <2>1, TimeStep
<1>3. QED
  BY <1>1, <1>2, ShapeInvariant, OnePositionPerCandle, KnownInvariant, SingleInvariant, PTL DEF Spec

\* Until two candles are evaluated together, a cBot position that ran out of
\* time has asked all its jobs at work to close, its second leg included.
THEOREM TimeoutReachesEveryJob == Spec => []TimeoutAsks
<1>1. TimeInv => TimeoutAsks
  BY DEF TimeInv, TimeFacts, TimeoutAsks, TimedOut, NotManaged, AllAsked, Leg
<1>2. QED
  BY <1>1, TimeInvariant, PTL

-----------------------------------------------------------------------------
(***************************************************************************)
(* Deadlines.  While candles are evaluated one at a time, the position a   *)
(* handler manages is the only one that can be open.                       *)
(***************************************************************************)
Writing == {"ask", "close", "confirm", "MAIN"}

LastFacts ==
  /\ \A h \in Handler : at[h] \in Writing => Active \subseteq {mem[h].pos}
  /\ \A h \in Handler : at[h] = "MAIN" => position[mem[h].pos].state # "PROBE_OPEN"

LastInv == ~overlapped => LastFacts

LEMMA OnlyActive ==
  ASSUME Shape, SingleInv, ~overlapped, Active # {} PROVE Active = {Max(Active)}
<1>1. Max(Active) \in Active
  BY ActiveThere
<1>2. QED
  BY <1>1 DEF SingleInv

LEMMA LastKept ==
  ASSUME Shape, PosKnown, LastFacts, Active' \subseteq Active,
         \A p \in DOMAIN position : position'[p].state = "PROBE_OPEN" => position[p].state = "PROBE_OPEN",
         \A h \in Handler : at'[h] \notin Writing \/ (at'[h] = at[h] /\ mem'[h] = mem[h])
  PROVE  LastFacts'
<1>1. ASSUME NEW h \in Handler, at'[h] \in Writing
      PROVE  at'[h] = at[h] /\ mem'[h] = mem[h] /\ mem[h].pos \in DOMAIN position
  BY <1>1 DEF PosKnown, Writing, Managing
<1>2. \A h \in Handler : at'[h] \in Writing => Active' \subseteq {mem'[h].pos}
  BY <1>1 DEF LastFacts
<1>3. \A h \in Handler : at'[h] = "MAIN" => position'[mem'[h].pos].state # "PROBE_OPEN"
  BY <1>1 DEF LastFacts, Writing
<1>4. QED
  BY <1>2, <1>3 DEF LastFacts

LEMMA LastMoves ==
  ASSUME Shape, SingleInv, ~overlapped, NEW h \in Handler, Deep(h), NEW place,
         at' = [at EXCEPT ![h] = place],
         place \in Writing => Active' \subseteq {mem'[h].pos},
         place = "MAIN" => position'[mem'[h].pos].state # "PROBE_OPEN"
  PROVE  LastFacts'
<1>1. at'[h] = place /\ \A k \in Handler \ {h} : at'[k] = at[k] /\ at[k] \in {"idle", "find", "create"}
  BY DEF Shape, Handlers, SingleInv, Deep
<1>2. \A k \in Handler : at'[k] \in Writing => k = h
  BY <1>1 DEF Writing
<1>3. QED
  BY <1>1, <1>2 DEF LastFacts, Writing

LEMMA LastStep ==
  ASSUME Shape, PosKnown, SingleInv, LastInv, Next
  PROVE  LastInv'
<1> SUFFICES ASSUME ~overlapped' PROVE LastFacts'
  BY DEF LastInv
<1>0. position \in Seq(Row)
  BY DEF Shape, Rows
<1>1. ~overlapped /\ LastFacts
  <2>1. overlapped' = overlapped \/ \E h \in Handler : Create(h)
    BY DEF Next, Evaluate, Arrives, Find, Read, Settle, Decide, Record, Open, Schedule, Confirm, AskJobs, Close,
       Repeated, Missed, History, Switch, Restart, RejectProbe, JobMoves, Still
  <2>2. ASSUME NEW h \in Handler, Create(h) PROVE ~overlapped
    BY <2>2, Zenon DEF Create
  <2>3. QED
    BY <2>1, <2>2 DEF LastInv
<1>2. ASSUME UNCHANGED position,
             \A h \in Handler : at'[h] \notin Writing \/ (at'[h] = at[h] /\ mem'[h] = mem[h])
      PROVE  LastFacts'
  BY <1>1, <1>2, ActiveUnchanged, LastKept
<1>3. ASSUME NEW h \in Handler, UNCHANGED position, Ends(h) \/ \E place :
               place \notin Writing /\ Goes(h, place) /\ (UNCHANGED mem \/ \E m : Learns(h, m))
      PROVE  LastFacts'
  <2>1. PICK place : place \notin Writing /\ Goes(h, place) /\ (UNCHANGED mem \/ \E m : Learns(h, m))
    BY <1>3 DEF Ends, Writing
  <2>2. \A k \in Handler \ {h} : mem'[k] = mem[k] /\ at'[k] = at[k]
    BY <2>1, MemMoves DEF Goes, Learns, Shape, Handlers
  <2>3. at'[h] = place
    BY <2>1 DEF Goes, Shape, Handlers
  <2>4. QED
    BY <1>2, <1>3, <2>1, <2>2, <2>3
<1>4. ASSUME NEW h \in Handler, Arrives(h) \/ Find(h) \/ Create(h) \/ Read(h) \/ Settle(h) \/ Record(h)
                                 \/ Schedule(h) \/ \E g \in Handler : Repeated(h, g)
      PROVE  LastFacts'
  <2>1. \/ Ends(h)
        \/ \E place \in {"find", "create", "read", "settle", "decide", "open"} :
             Goes(h, place) /\ (UNCHANGED mem \/ \E m : Learns(h, m))
    BY <1>4 DEF Arrives, Find, Create, Read, Settle, Record, Schedule, Repeated
  <2>2. UNCHANGED position
    BY <1>4 DEF Arrives, Find, Create, Read, Settle, Record, Schedule, Repeated, tables, Feed
  <2>3. QED
    BY <1>3, <2>1, <2>2 DEF Writing
<1>5. ASSUME NEW h \in Handler, Decide(h) PROVE LastFacts'
  <2>0. UNCHANGED position /\ Deep(h)
    BY <1>5 DEF Decide, tables, Deep
  <2>1. ASSUME Active # {}, NEW place \in {"ask", "close", "confirm"}, NEW m, Goes(h, place), Learns(h, m),
               m.pos = Max(Active)
        PROVE  LastFacts'
    <3>1. mem'[h] = m
      BY <2>1, MemMoves DEF Learns
    <3>2. Active' \subseteq {mem'[h].pos}
      BY <1>1, <2>0, <2>1, <3>1, OnlyActive, ActiveUnchanged
    <3>3. QED
      BY <1>1, <2>0, <2>1, <3>2, LastMoves DEF Goes
  <2>2. ASSUME Active # {}, Manage(h, Max(Active)) PROVE LastFacts'
    BY <1>3, <2>0, <2>1, <2>2, ManageLearns
  <2>3. ASSUME NEW d, Goes(h, "record"), Learns(h, [mem[h] EXCEPT !.result = d]) PROVE LastFacts'
    BY <1>3, <2>0, <2>3 DEF Writing
  <2>4. QED
    BY <1>3, <1>5, <2>0, <2>2, <2>3 DEF Decide, Current
<1>6. ASSUME NEW h \in Handler, Open(h) PROVE LastFacts'
  BY <1>1, <1>6, LastMoves DEF Open, Goes, Deep, Writing
<1>7. ASSUME NEW h \in Handler, Close(h) PROVE LastFacts'
  BY <1>1, <1>7, LastMoves DEF Close, Ends, Goes, Deep, Writing
<1>8. ASSUME NEW h \in Handler, AskJobs(h) PROVE LastFacts'
  <2>1. Active' \subseteq {mem'[h].pos} /\ Deep(h)
    BY <1>1, <1>8, ActiveUnchanged DEF AskJobs, LastFacts, Writing, Deep
  <2>2. QED
    BY <1>1, <1>8, <2>1, LastMoves DEF AskJobs, Goes
<1>9. ASSUME NEW h \in Handler, Confirm(h) PROVE LastFacts'
  <2>0. PICK p \in DOMAIN position : p = mem[h].pos
    BY <1>9 DEF Confirm, PosKnown, Managing
  <2>1. Active \subseteq {p} /\ Deep(h) /\ mem' = mem
    BY <1>1, <1>9, <2>0 DEF Confirm, LastFacts, Writing, Deep
  <2>2. /\ DOMAIN position' = DOMAIN position /\ position'[p].state = "MAIN_ADDED"
        /\ \A q \in DOMAIN position : q # p => position'[q] = position[q]
    <3>1. position[p] \in Row
      BY RowTyped
    <3>2. position' = [position EXCEPT ![p].state = "MAIN_ADDED"]
      BY <1>9, <2>0 DEF Confirm
    <3>3. QED
      BY <1>0, <3>1, <3>2 DEF Row
  <2>3. Active' \subseteq {p}
    BY <2>1, <2>2 DEF Active
  <2>4. Active' \subseteq {mem'[h].pos} /\ position'[mem'[h].pos].state # "PROBE_OPEN"
    BY <2>0, <2>1, <2>2, <2>3
  <2>5. QED
    BY <1>1, <1>9, <2>1, <2>4, LastMoves DEF Confirm, Goes
<1>10. CASE Missed \/ History \/ Switch
  BY <1>2, <1>10 DEF Missed, History, Switch, Still, tables
<1>11. CASE Restart
  BY <1>2, <1>11 DEF Restart, tables, Writing
<1>12. ASSUME NEW p \in Pos, RejectProbe(p) PROVE LastFacts'
  <2>1. CASE UNCHANGED position
    BY <1>2, <1>12, <2>1 DEF RejectProbe, Still
  <2>2. CASE position' = [position EXCEPT ![p].state = "CLOSED_TIMEOUT", ![p].closed = now,
                                          ![p].reason = "rejected"]
    <3>1. /\ DOMAIN position' = DOMAIN position
          /\ \A q \in DOMAIN position : q # p => position'[q] = position[q]
          /\ p \in DOMAIN position => position'[p].state = "CLOSED_TIMEOUT"
      BY <1>0, <2>2, RowTyped DEF Row
    <3>2. Active' \subseteq Active
      BY <3>1 DEF Active, OpenState
    <3>3. \A q \in DOMAIN position : position'[q].state = "PROBE_OPEN" => position[q].state = "PROBE_OPEN"
      BY <3>1
    <3>4. UNCHANGED <<at, mem>>
      BY <1>12 DEF RejectProbe, Still
    <3>5. QED
      BY <1>1, <3>2, <3>3, <3>4, LastKept
  <2>3. QED
    BY <1>12, <2>1, <2>2 DEF RejectProbe
<1>13. ASSUME NEW p \in Pos, NEW l \in {"PROBE", "MAIN"}, JobMoves(p, l) PROVE LastFacts'
  BY <1>2, <1>13 DEF JobMoves, Still
<1>14. QED
  BY <1>4, <1>5, <1>6, <1>7, <1>8, <1>9, <1>10, <1>11, <1>12, <1>13 DEF Next, Evaluate

\* Who is done with an evaluation.
LEMMA WhoEnds ==
  ASSUME Shape, Next, NEW h \in Handler, at[h] \in {"decide", "close", "MAIN"}, at'[h] = "idle",
         trouble' = trouble
  PROVE  Decide(h) \/ Close(h) \/ (Schedule(h) /\ at[h] = "MAIN")
<1>1. ASSUME NEW g \in Handler, NEW place, Goes(g, place) PROVE g = h
  BY <1>1 DEF Goes, Shape, Handlers
<1>2. ASSUME NEW g \in Handler, Evaluate(g) PROVE g = h
  <2>1. \E place : Goes(g, place)
    <3>1. ASSUME Decide(g) PROVE \E place : Goes(g, place)
      BY <3>1, ManageLearns DEF Decide, Ends, Current
    <3>2. QED
      BY <1>2, <3>1 DEF Evaluate, Find, Create, Read, Settle, Record, Open, Schedule, Confirm, AskJobs, Close, Ends
  <2>2. QED
    BY <1>1, <2>1
<1>3. ASSUME NEW g \in Handler, Arrives(g) \/ \E k \in Handler : Repeated(g, k) PROVE FALSE
  BY <1>1, <1>3 DEF Arrives, Repeated
<1>4. CASE Evaluate(h)
  BY <1>4 DEF Evaluate, Find, Create, Read, Settle, Record, Open, Schedule, Confirm, AskJobs, Close
<1>5. ASSUME Missed \/ History \/ Switch \/ \E p \in Pos : \/ RejectProbe(p)
                                                       \/ \E l \in {"PROBE", "MAIN"} : JobMoves(p, l)
      PROVE  FALSE
  BY <1>5 DEF Missed, History, Switch, RejectProbe, JobMoves, Still
<1>6. ~Restart
  <2>1. trouble \in Nat
    BY StrategyAssumption DEF Shape, Others
  <2>2. QED
    BY <2>1 DEF Restart, Trouble
<1>7. QED
  BY <1>2, <1>3, <1>4, <1>5, <1>6 DEF Next

\* The decision that leaves a probe alone has found it in time.
LEMMA InTime ==
  ASSUME Shape, SingleInv, ~overlapped, NEW h \in Handler, Decide(h), at'[h] = "idle"
  PROVE  \A p \in DOMAIN position' : position'[p].state = "PROBE_OPEN"
           => mem[h].bar < position'[p].opened + Confirmation
<1>1. position' = position
  BY DEF Decide, tables
<1>2. SUFFICES ASSUME NEW p \in DOMAIN position, position[p].state = "PROBE_OPEN"
               PROVE  mem[h].bar < position[p].opened + Confirmation
  BY <1>1
<1>3. p \in Active
  BY <1>2 DEF Active, OpenState
<1>4. Active = {p} /\ Max(Active) = p
  BY <1>3, OnlyActive
<1>5. Manage(h, p)
  BY <1>3, <1>4 DEF Decide, Current
<1> DEFINE m == [mem[h] EXCEPT !.pos = p, !.state = position[p].state]
<1>6. m.state = "PROBE_OPEN"
  BY <1>2 DEF Shape, Handlers, Remembers, Idle
<1>7. at \in [Handler -> Stage]
  BY DEF Shape, Handlers
<1> HIDE DEF m
<1>8. ~Overdue(p, mem[h].bar)
  BY <1>5, <1>6, <1>7 DEF Manage, Goes, m
<1>9. mem[h].bar \in Nat /\ position[p].opened \in Nat /\ Confirmation \in Nat
  BY <1>2, RowTyped, BarIsNat, StrategyAssumption DEF Shape, Handlers, Remembers, Row
<1>10. QED
  BY <1>8, <1>9 DEF Overdue

\* No probe stays unconfirmed once a candle at or after its deadline has been
\* evaluated, whatever candles were lost before and however many bars there are.
THEOREM ProbesEndInTime == Spec => ProbeEnds
<1> DEFINE Done(h) == /\ ~overlapped' /\ at[h] \in {"decide", "close", "MAIN"} /\ at'[h] = "idle"
                        /\ trouble' = trouble
           Timely(h) == \A p \in DOMAIN position' : position'[p].state = "PROBE_OPEN"
                          => mem[h].bar < position'[p].opened + Confirmation
<1>1. Init => LastInv
  BY DEF Init, LastInv, LastFacts, Writing
<1>2. Shape /\ PosKnown /\ SingleInv /\ LastInv /\ [Next]_vars => LastInv'
  <2>1. ASSUME LastInv, UNCHANGED vars PROVE LastInv'
    BY <2>1, ActiveUnchanged DEF vars, tables, LastInv, LastFacts
  <2>2. QED
    BY <2>1, LastStep
<1>3. Shape /\ PosKnown /\ SingleInv /\ LastInv /\ [Next]_vars
      => [\A h \in Handler : Done(h) => Timely(h)]_vars
  <2>1. SUFFICES ASSUME Shape, PosKnown, SingleInv, LastInv, Next, NEW h \in Handler, Done(h)
                 PROVE  Timely(h)
    OBVIOUS
  <2>2. ~overlapped
    <3>1. overlapped' = overlapped \/ \E g \in Handler : Create(g)
      BY <2>1 DEF Next, Evaluate, Arrives, Find, Read, Settle, Decide, Record, Open, Schedule, Confirm, AskJobs,
         Close, Repeated, Missed, History, Switch, Restart, RejectProbe, JobMoves, Still
    <3>2. ASSUME NEW g \in Handler, Create(g) PROVE ~overlapped
      BY <2>1, <3>2, Zenon DEF Create
    <3>3. QED
      BY <2>1, <3>1, <3>2
  <2>3. LastFacts
    BY <2>1, <2>2 DEF LastInv
  <2>4. CASE Decide(h)
    BY <2>1, <2>2, <2>4, InTime
  <2>5. CASE Close(h)
    <3>1. PICK p \in DOMAIN position : p = mem[h].pos
      BY <2>1, <2>5 DEF Close, PosKnown, Managing
    <3>2. Active \subseteq {p}
      BY <2>3, <2>5, <3>1 DEF Close, LastFacts, Writing
    <3> DEFINE s == ClosedAs(mem[h].result)
               r == [position[p] EXCEPT !.state = s, !.closed = mem[h].bar, !.reason = "managed"]
    <3>3. position' = [position EXCEPT ![p] = r]
      BY <2>5, <3>1 DEF Close
    <3>4. position[p] \in Row /\ position \in Seq(Row)
      BY <2>1, RowTyped DEF Shape, Rows
    <3>5. r.state = s /\ s # "PROBE_OPEN"
      BY <3>4 DEF Row, ClosedAs
    <3> HIDE DEF r, s
    <3>6. /\ DOMAIN position' = DOMAIN position /\ position'[p].state # "PROBE_OPEN"
          /\ \A q \in DOMAIN position : q # p => position'[q] = position[q]
      BY <3>3, <3>4, <3>5
    <3>7. \A q \in DOMAIN position' : position'[q].state # "PROBE_OPEN"
      BY <3>2, <3>6 DEF Active, OpenState
    <3>8. QED
      BY <3>7
  <2>6. CASE Schedule(h) /\ at[h] = "MAIN"
    <3>1. position' = position /\ Active \subseteq {mem[h].pos} /\ position[mem[h].pos].state # "PROBE_OPEN"
      BY <2>3, <2>6 DEF Schedule, LastFacts, Writing
    <3>2. \A q \in DOMAIN position' : position'[q].state # "PROBE_OPEN"
      BY <3>1 DEF Active, OpenState
    <3>3. QED
      BY <3>2
  <2>7. QED
    BY <2>1, <2>4, <2>5, <2>6, WhoEnds
<1>4. Spec => [][\A h \in Handler : Done(h) => Timely(h)]_vars
  BY <1>1, <1>2, <1>3, ShapeInvariant, KnownInvariant, SingleInvariant, PTL DEF Spec
<1>5. QED
  BY <1>4 DEF ProbeEnds
=============================================================================
