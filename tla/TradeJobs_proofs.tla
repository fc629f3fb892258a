-------------------------- MODULE TradeJobs_proofs --------------------------
(***************************************************************************)
(* Proofs about TradeJobs, for every set of jobs, handlers and deadlines.  *)
(***************************************************************************)
EXTENDS TradeJobs, TLAPS

\* A phase names a status or none, and only SYNCED names SYNCED.
LEMMA PhaseStatus ==
  \A phase \in Phase : /\ StatusForPhase(phase) \in Status \cup {NoStatus}
                       /\ phase # "SYNCED" => StatusForPhase(phase) # "SYNCED"
  BY DEF Phase, StatusForPhase, Status, NoStatus

\* Type correctness of the backend: rows and requests keep their shape.
THEOREM TypeCorrect == Spec => []TypeOK
<1>1. Init => TypeOK
  <2>1. Idle \in Request
    BY DEF Request
  <2>2. ASSUME Init PROVE now \in 0 .. MaxTime /\ version \in [Job -> Nat]
    BY <2>2, JobsAssumption DEF Init
  <2>3. ASSUME Init PROVE /\ status \in [Job -> Status \cup {Absent}]
                          /\ had \in [Job -> SUBSET (Status \cup {Absent})]
    BY <2>3 DEF Init
  <2>4. ASSUME Init PROVE handler \in [Handler -> Request]
    BY <2>1, <2>4 DEF Init
  <2>5. QED
    BY <2>2, <2>3, <2>4 DEF Init, TypeOK
<1>2. TypeOK /\ [Next]_vars => TypeOK'
  <2> SUFFICES ASSUME TypeOK, [Next]_vars PROVE TypeOK'
    OBVIOUS
  <2> USE JobsAssumption DEF TypeOK, control, rows
  <2>1. ASSUME NEW h \in Handler, AgentPoll(h) PROVE TypeOK'
    BY <2>1 DEF AgentPoll, Serve, Request
  <2>2. ASSUME NEW h \in Handler, CbotPoll(h) PROVE TypeOK'
    BY <2>2 DEF CbotPoll, Serve, Remembered, Request, Status
  <2>3. ASSUME NEW h \in Handler, NEW j \in Job, BeginCreate(h, j) PROVE TypeOK'
    BY <2>3 DEF BeginCreate, Serve, Request
  <2>4. ASSUME NEW h \in Handler, NEW j \in Job, BeginCancel(h, j) PROVE TypeOK'
    BY <2>4 DEF BeginCancel, Serve, Request
  <2>5. ASSUME NEW h \in Handler, NEW j \in Job, BeginAskCancel(h, j) PROVE TypeOK'
    BY <2>5 DEF BeginAskCancel, Serve, Request
  <2>6. ASSUME NEW h \in Handler, NEW j \in Job, BeginAskClose(h, j) PROVE TypeOK'
    BY <2>6 DEF BeginAskClose, Serve, Request
  <2>7. ASSUME NEW h \in Handler, NEW j \in Job, NEW phase \in Said,
               NEW deal \in Deal, BeginReport(h, j, phase, deal)
        PROVE  TypeOK'
    BY <2>7, PhaseStatus DEF BeginReport, Serve, Request
  <2>8. ASSUME NEW h \in Handler, CommitCreate(h) PROVE TypeOK'
    <3>1. status' \in [Job -> Status \cup {Absent}]
      BY <2>8 DEF CommitCreate, Status
    <3>2. handler' \in [Handler -> Request]
      BY <2>8 DEF CommitCreate, Done, Request
    <3>3. QED
      BY <2>8, <3>1, <3>2 DEF CommitCreate, Remembered
  <2>9. ASSUME NEW h \in Handler, CommitCancel(h) PROVE TypeOK'
    BY <2>9 DEF CommitCancel, Done, Remembered, Request, Status, Idle
  <2>10. ASSUME NEW h \in Handler, CommitAsk(h) PROVE TypeOK'
    BY <2>10 DEF CommitAsk, Done, Request, Idle
  <2>11. ASSUME NEW h \in Handler, CommitReport(h) PROVE TypeOK'
    BY <2>11 DEF CommitReport, Written, Key, Done, Remembered, Request, Idle, ReportKey
  <2>12. ASSUME NEW h \in Handler, CbotPollRead(h) PROVE TypeOK'
    BY <2>12 DEF CbotPollRead, Request
  <2>19. ASSUME NEW h \in Handler, AgentPollRead(h) PROVE TypeOK'
    <3>1. handler[h].jobs \subseteq Job
      BY <2>19 DEF AgentPollRead, Request, Idle
    <3>2. QED
      BY <2>19, <3>1 DEF AgentPollRead, Request
  <2>13. ASSUME NEW h \in Handler, CommitSync(h) PROVE TypeOK'
    BY <2>13 DEF CommitSync, Synced, Done, Remembered, Request, Idle, Status
  <2>14. CASE CloseAll
    BY <2>14 DEF CloseAll, Remote
  <2>15. ASSUME NEW b \in BOOLEAN, SetHalt(b) PROVE TypeOK'
    BY <2>15 DEF SetHalt
  <2>16. CASE Tick
    BY <2>16 DEF Tick
  <2>17. CASE UNCHANGED vars
    BY <2>17 DEF vars
  <2>18. QED
    BY <2>1, <2>2, <2>3, <2>4, <2>5, <2>6, <2>7, <2>8, <2>9, <2>10, <2>11, <2>12,
       <2>13, <2>14, <2>15, <2>16, <2>17, <2>19 DEF Next, Begin, Commit
<1>3. QED
  BY <1>1, <1>2, PTL DEF Spec

-----------------------------------------------------------------------------
(***************************************************************************)
(* What holds of concurrent requests: a report in flight asks for the      *)
(* status its phase names, or for none.                                    *)
(***************************************************************************)
RequestsAsk ==
  \A h \in Handler : handler[h].op = "report" =>
    handler[h].next \in {NoStatus, StatusForPhase(handler[h].phase)}

\* A report request asks for no status or the one its phase names, never SYNCED.
LEMMA RequestsAskInv == Spec => []RequestsAsk
<1>1. Init => RequestsAsk
  BY DEF Init, RequestsAsk, Idle
<1>2. TypeOK /\ RequestsAsk /\ [Next]_vars => RequestsAsk'
  <2> SUFFICES ASSUME TypeOK, RequestsAsk, [Next]_vars PROVE RequestsAsk'
    OBVIOUS
  <2> USE DEF TypeOK, RequestsAsk
  <2>1. ASSUME NEW h \in Handler, Begin(h) PROVE RequestsAsk'
    <3> DEFINE Asks(q) == q.op = "report" => q.next \in {NoStatus, StatusForPhase(q.phase)}
    <3>1. \E q : Asks(q) /\ handler' = [handler EXCEPT ![h] = q]
      <4>1. CASE AgentPoll(h)
        BY <4>1 DEF AgentPoll, Serve
      <4>2. CASE CbotPoll(h)
        BY <4>2 DEF CbotPoll, Serve
      <4>3. ASSUME NEW j \in Job,
                   \/ BeginCreate(h, j) \/ BeginCancel(h, j)
                   \/ BeginAskCancel(h, j) \/ BeginAskClose(h, j)
            PROVE  \E q : Asks(q) /\ handler' = [handler EXCEPT ![h] = q]
        BY <4>3 DEF BeginCreate, BeginCancel, BeginAskCancel, BeginAskClose, Serve
      <4>4. ASSUME NEW j \in Job, NEW phase \in Said, NEW deal \in Deal,
                   BeginReport(h, j, phase, deal)
            PROVE  \E q : Asks(q) /\ handler' = [handler EXCEPT ![h] = q]
        BY <4>4 DEF BeginReport, Serve
      <4>5. QED
        BY <2>1, <4>1, <4>2, <4>3, <4>4 DEF Begin
    <3>2. QED
      BY <3>1
  <2>2. ASSUME NEW h \in Handler, Commit(h) PROVE RequestsAsk'
    <3>1. \/ handler' = [handler EXCEPT ![h] = Idle]
          \/ \E jobs, withdrawn :
               handler' = [handler EXCEPT ![h] =
                             [op |-> "sync", jobs |-> jobs, withdrawn |-> withdrawn]]
      <4>1. CASE CbotPollRead(h)
        BY <4>1 DEF CbotPollRead
      <4>3. CASE AgentPollRead(h)
        BY <4>3 DEF AgentPollRead
      <4>2. QED
        BY <2>2, <4>1, <4>3 DEF Commit, CommitCreate, CommitCancel, CommitAsk,
                          CommitReport, Written, Key, CommitSync, Synced, Done
    <3>2. QED
      BY <3>1 DEF Idle
  <2>3. ASSUME UNCHANGED handler PROVE RequestsAsk'
    BY <2>3
  <2>4. QED
    BY <2>1, <2>2, <2>3 DEF Next, CloseAll, SetHalt, Tick, vars
<1>3. QED
  BY <1>1, <1>2, TypeCorrect, PTL DEF Spec

\* What one step may do to the status of one job, whoever takes it.
StatusStep(j) ==
  \/ status'[j] = status[j]
  \/ status[j] = Absent /\ status'[j] = "SCHEDULED"
  \/ status[j] = "SCHEDULED" /\ status'[j] = "SYNCED"
  \/ status'[j] = "CANCELLED" /\ version'[j] = version[j] + 1
  \/ status'[j] = "MISSED" /\ ExpiresAt[j] + Grace <= now
  \/ \E phase \in Said, deal \in Deal :
       /\ <<j, phase, deal>> \in reports' \ reports
       /\ status'[j] = StatusForPhase(phase)

\* Only a cBot's poll and the second half of a request write rows.
LEMMA QuietBegin ==
  ASSUME NEW h \in Handler, Begin(h) \/ AgentPollRead(h) \/ CbotPollRead(h), ~CbotPoll(h)
  PROVE  UNCHANGED <<control, rows>>
<1>1. ASSUME NEW j \in Job, NEW phase \in Said, NEW deal \in Deal,
             BeginReport(h, j, phase, deal)
      PROVE  UNCHANGED <<control, rows>>
  BY <1>1 DEF BeginReport
<1>2. QED
  BY <1>1 DEF Begin, AgentPoll, BeginCreate, BeginCancel, BeginAskCancel,
              BeginAskClose, AgentPollRead, CbotPollRead

\* One step changes a status by an accepted creation, a cancel, a report, a sweep or a poll.
LEMMA EveryStatusStep ==
  ASSUME TypeOK, RequestsAsk, [Next]_vars, NEW j \in Job
  PROVE  StatusStep(j)
<1> USE DEF TypeOK, control, rows
<1>1. ASSUME NEW h \in Handler, CommitCreate(h) PROVE StatusStep(j)
  BY <1>1 DEF CommitCreate, StatusStep
<1>2. ASSUME NEW h \in Handler, CommitCancel(h) PROVE StatusStep(j)
  BY <1>2 DEF CommitCancel, StatusStep
<1>3. ASSUME NEW h \in Handler, CommitReport(h) PROVE StatusStep(j)
  <2> DEFINE r == handler[h]
  <2>1. r \in Request /\ r.op = "report"
    BY <1>3 DEF CommitReport, Written, Key
  <2>2. r.job \in Job /\ r.phase \in Said /\ r.deal \in Deal
    BY <2>1 DEF Request, Idle
  <2>3. CASE status'[j] = status[j]
    BY <2>3 DEF StatusStep
  <2>4. CASE status'[j] # status[j]
    <3>1. j = r.job /\ r.next # NoStatus /\ <<j, r.phase, r.deal>> \notin reports
      BY <1>3, <2>2, <2>4 DEF CommitReport, Written, Key
    <3>2. status'[j] = r.next /\ <<j, r.phase, r.deal>> \in reports'
      BY <1>3, <2>2, <2>4, <3>1 DEF CommitReport, Written, Key
    <3>3. r.next = StatusForPhase(r.phase)
      BY <2>1, <3>1 DEF RequestsAsk
    <3>4. QED
      BY <2>2, <3>1, <3>2, <3>3 DEF StatusStep
  <2>5. QED
    BY <2>3, <2>4
<1>4. ASSUME NEW h \in Handler, CbotPoll(h) PROVE StatusStep(j)
  BY <1>4 DEF CbotPoll, Abandoned, StatusStep
<1>5. ASSUME NEW h \in Handler, CommitSync(h) PROVE StatusStep(j)
  BY <1>5 DEF CommitSync, Synced, StatusStep
<1>6. ASSUME UNCHANGED status PROVE StatusStep(j)
  BY <1>6 DEF StatusStep
<1>7. QED
  <2>1. ASSUME NEW h \in Handler, Begin(h) \/ Commit(h) PROVE StatusStep(j)
    BY <2>1, <1>1, <1>2, <1>3, <1>4, <1>5, <1>6, QuietBegin DEF Commit, CommitAsk
  <2>2. QED
    BY <2>1, <1>6 DEF Next, CloseAll, SetHalt, Tick, vars

\* However requests interleave, a status past SYNCED is backed by one new
\* report row, a user's cancel or the abandonment sweep (ReportBacked).
THEOREM EveryChangeBacked == Spec => ReportBacked
<1>1. TypeOK /\ RequestsAsk /\ [Next]_vars =>
        [\A j \in Job :
           status'[j] \in (Status \ {"SCHEDULED", "SYNCED"}) /\ status'[j] # status[j] =>
             \/ status'[j] = "CANCELLED" /\ version'[j] = version[j] + 1
             \/ status'[j] = "MISSED" /\ ExpiresAt[j] + Grace <= now
             \/ \E r \in reports' \ reports :
                  r[1] = j /\ StatusForPhase(r[2]) = status'[j]]_vars
  BY EveryStatusStep DEF StatusStep
<1>2. QED
  BY <1>1, TypeCorrect, RequestsAskInv, PTL DEF Spec, ReportBacked

\* A poll never writes SYNCED over anything but SCHEDULED (SyncOnlyScheduled).
THEOREM SyncIsConditional == Spec => SyncOnlyScheduled
<1>1. TypeOK /\ RequestsAsk /\ [Next]_vars =>
        [\A j \in Job : status'[j] = "SYNCED" /\ status[j] # "SYNCED"
                          => status[j] = "SCHEDULED"]_vars
  BY EveryStatusStep, PhaseStatus, JobsAssumption DEF StatusStep
<1>2. QED
  BY <1>1, TypeCorrect, RequestsAskInv, PTL DEF Spec, SyncOnlyScheduled

-----------------------------------------------------------------------------
(***************************************************************************)
(* What concurrent requests keep of the transition table.  A request       *)
(* decides on a status the job had when it was read; another may have      *)
(* replaced it since, so the table holds between a new status and one the  *)
(* job has had, not between it and the one written over.                   *)
(***************************************************************************)

\* What the table leads to from a status job j has had, and those statuses.
Reachable(j) == had[j] \cup UNION {Successors(s) : s \in had[j]}

\* What request q is about to write follows from a status its job has had.
Founded(q) ==
  /\ q.op = "cancel" => "CANCELLED" \in Reachable(q.job)
  /\ q.op = "report" /\ q.next # NoStatus => q.next \in Reachable(q.job)

TableInv == /\ \A j \in Job : status[j] \in had[j]
            /\ \A h \in Handler : Founded(handler[h])

\* No step forgets a status a job has had.
LEMMA NothingForgotten ==
  ASSUME TypeOK, [Next]_vars
  PROVE  \A j \in Job : /\ had[j] \subseteq had'[j]
                        /\ status[j] \in had[j] => status'[j] \in had'[j]
<1>1. CASE Remembered
  BY <1>1 DEF Remembered, TypeOK
<1>2. CASE UNCHANGED <<status, had>>
  BY <1>2
<1>3. ASSUME NEW h \in Handler, Begin(h) \/ Commit(h)
      PROVE  Remembered \/ UNCHANGED <<status, had>>
  BY <1>3, QuietBegin
     DEF Commit, CommitCreate, CommitCancel, CommitAsk, CommitReport, CommitSync, CbotPoll, rows
<1>4. QED
  BY <1>1, <1>2, <1>3 DEF Next, CloseAll, SetHalt, Tick, rows, vars

\* So a request that was founded stays so.
LEMMA StaysFounded ==
  ASSUME TypeOK, [Next]_vars, NEW h \in Handler, Founded(handler[h]), handler'[h] = handler[h]
  PROVE  Founded(handler[h])'
<1>1. ASSUME NEW j \in Job PROVE Reachable(j) \subseteq Reachable(j)'
  BY NothingForgotten DEF Reachable
<1>2. handler[h].op \in {"cancel", "report"} => handler[h].job \in Job
  BY DEF TypeOK, Request, Idle
<1>3. QED
  BY <1>1, <1>2 DEF Founded

\* A request founded when it begins is founded after the step it begins with.
LEMMA BeginsFounded ==
  ASSUME TypeOK, TableInv, NEW h \in Handler, Begin(h)
  PROVE  Founded(handler[h])'
<1> USE DEF TypeOK, rows, control
<1>1. CASE AgentPoll(h)
  BY <1>1 DEF AgentPoll, Serve, Founded
<1>2. CASE CbotPoll(h)
  BY <1>2 DEF CbotPoll, Serve, Founded
<1>3. ASSUME NEW j \in Job, BeginCreate(h, j) \/ BeginAskCancel(h, j) \/ BeginAskClose(h, j)
      PROVE  Founded(handler[h])'
  BY <1>3 DEF BeginCreate, BeginAskCancel, BeginAskClose, Serve, Founded
<1>4. ASSUME NEW j \in Job, BeginCancel(h, j) PROVE Founded(handler[h])'
  <2>1. handler'[h] = [op |-> "cancel", job |-> j] /\ had' = had
    BY <1>4 DEF BeginCancel, Serve
  <2>2. "CANCELLED" \in Successors(status[j])
    BY <1>4 DEF BeginCancel, Successors
  <2>3. "CANCELLED" \in Reachable(j)'
    BY <2>1, <2>2 DEF TableInv, Reachable
  <2>4. QED
    BY <2>1, <2>3 DEF Founded
<1>5. ASSUME NEW j \in Job, NEW phase \in Said, NEW deal \in Deal, BeginReport(h, j, phase, deal)
      PROVE  Founded(handler[h])'
  <2> DEFINE asked   == StatusForPhase(phase)
             allowed == asked # NoStatus /\ CanTransition(status[j], asked)
             next    == IF allowed THEN asked ELSE NoStatus
  <2>1. /\ handler'[h] = [op |-> "report", job |-> j, phase |-> phase, deal |-> deal, next |-> next]
        /\ had' = had
    BY <1>5 DEF BeginReport, Serve
  <2>2. next # NoStatus => next = status[j] \/ next \in Successors(status[j])
    BY DEF CanTransition
  <2>3. next # NoStatus => next \in Reachable(j)'
    BY <2>1, <2>2 DEF TableInv, Reachable
  <2> HIDE DEF next
  <2>4. QED
    BY <2>1, <2>3 DEF Founded
<1>6. QED
  BY <1>1, <1>2, <1>3, <1>4, <1>5 DEF Begin

\* Every request that is suspended follows the table from a status its job has had.
LEMMA TableInvariant == Spec => []TableInv
<1>1. Init => TableInv
  BY DEF Init, TableInv, Founded, Idle
<1>2. TypeOK /\ TableInv /\ [Next]_vars => TableInv'
  <2> SUFFICES ASSUME TypeOK, TableInv, [Next]_vars PROVE TableInv'
    OBVIOUS
  <2>1. \A j \in Job : status'[j] \in had'[j]
    BY NothingForgotten DEF TableInv
  <2>2. ASSUME NEW h \in Handler, NEW g \in Handler, Begin(g) \/ Commit(g) PROVE Founded(handler[h])'
    <3>1. CASE h # g
      <4>1. \E q : handler' = [handler EXCEPT ![g] = q]
        BY <2>2 DEF Begin, Commit, AgentPoll, CbotPoll, BeginCreate, BeginCancel, BeginAskCancel,
                    BeginAskClose, BeginReport, CommitCreate, CommitCancel, CommitAsk, CommitReport,
                    AgentPollRead, CbotPollRead, CommitSync, Serve, Done
      <4>2. handler'[h] = handler[h]
        BY <3>1, <4>1 DEF TypeOK
      <4>3. QED
        BY <4>2, StaysFounded DEF TableInv
    <3>2. CASE h = g /\ Begin(g)
      BY <3>2, BeginsFounded
    <3>3. CASE h = g /\ Commit(g)
      <4>1. handler'[h] = Idle \/ handler'[h].op = "sync"
        BY <3>3 DEF Commit, CommitCreate, CommitCancel, CommitAsk, CommitReport,
                    AgentPollRead, CbotPollRead, CommitSync, Done, TypeOK
      <4>2. QED
        BY <4>1 DEF Founded, Idle
    <3>4. QED
      BY <2>2, <3>1, <3>2, <3>3
  <2>3. ASSUME UNCHANGED handler, NEW h \in Handler PROVE Founded(handler[h])'
    BY <2>3, StaysFounded DEF TableInv
  <2>4. QED
    BY <2>1, <2>2, <2>3 DEF TableInv, Next, CloseAll, SetHalt, Tick, vars
<1>3. QED
  BY <1>1, <1>2, TypeCorrect, PTL DEF Spec

\* However requests interleave, a job takes only a status that the table leads
\* to from one it has had (TableFollowed).
THEOREM ConcurrentRequestsFollowTable == Spec => TableFollowed
<1>1. TypeOK /\ TableInv /\ [Next]_vars =>
        [\A j \in Job : status'[j] # status[j] =>
           \/ status[j] = Absent /\ status'[j] = "SCHEDULED"
           \/ status'[j] \in had[j] \cup UNION {Successors(s) : s \in had[j]}]_vars
  <2> SUFFICES ASSUME TypeOK, TableInv, Next, NEW j \in Job, status'[j] # status[j]
               PROVE  \/ status[j] = Absent /\ status'[j] = "SCHEDULED"
                      \/ status'[j] \in Reachable(j)
    BY DEF Reachable
  <2> USE DEF TypeOK, rows, control
  <2>0. status[j] \in had[j]
    BY DEF TableInv
  <2>1. ASSUME NEW h \in Handler, CommitCreate(h)
        PROVE  status[j] = Absent /\ status'[j] = "SCHEDULED"
    BY <2>1 DEF CommitCreate
  <2>2. ASSUME NEW h \in Handler, CommitCancel(h) PROVE status'[j] \in Reachable(j)
    BY <2>2 DEF CommitCancel, TableInv, Founded
  <2>3. ASSUME NEW h \in Handler, CommitReport(h) PROVE status'[j] \in Reachable(j)
    BY <2>3 DEF CommitReport, Written, Key, TableInv, Founded
  <2>4. ASSUME NEW h \in Handler, CbotPoll(h) PROVE status'[j] \in Reachable(j)
    <3>1. status'[j] = "MISSED" /\ status[j] \in {"SCHEDULED", "SYNCED", "ARMED"}
      BY <2>4 DEF CbotPoll, Abandoned
    <3>2. "MISSED" \in Successors(status[j])
      BY <3>1 DEF Successors
    <3>3. QED
      BY <2>0, <3>1, <3>2 DEF Reachable
  <2>5. ASSUME NEW h \in Handler, CommitSync(h) PROVE status'[j] \in Reachable(j)
    <3>1. status'[j] = "SYNCED" /\ status[j] = "SCHEDULED"
      BY <2>5 DEF CommitSync, Synced
    <3>2. "SYNCED" \in Successors(status[j])
      BY <3>1 DEF Successors
    <3>3. QED
      BY <2>0, <3>1, <3>2 DEF Reachable
  <2>6. QED
    <3>1. PICK h \in Handler : Begin(h) \/ Commit(h)
      BY DEF Next, CloseAll, SetHalt, Tick
    <3>2. QED
      BY <3>1, <2>1, <2>2, <2>3, <2>4, <2>5, QuietBegin DEF Commit, CommitAsk
<1>2. QED
  BY <1>1, TypeCorrect, TableInvariant, PTL DEF Spec, TableFollowed
=============================================================================
