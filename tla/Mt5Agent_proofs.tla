-------------------------- MODULE Mt5Agent_proofs ---------------------------
(***************************************************************************)
(* Proofs about Mt5Agent, for every set of jobs, deadlines, levels and     *)
(* number of restarts: types, no order sent twice, none left behind by a   *)
(* pair, no report of what did not happen, and one side of a filled pair.  *)
(***************************************************************************)
EXTENDS Mt5Agent, SequenceTheorems, FiniteSetTheorems, TLAPS

\* Resuming the loop, and deleting orders, stay within the types.
LEMMA ResumeType ==
  ASSUME NEW todo \in SUBSET Job, step.clock \in 0 .. MaxTime
  PROVE  Resume(todo) \in Step
  BY DEF Resume, Step, Loop, Idle

\* Whatever the broker refuses, deleting orders keeps the shape of the account.
LEMMA DeletedLegs ==
  ASSUME NEW legs \in [Job -> [Leg -> LegStates]], NEW j \in Job, NEW ls,
         NEW after \in Deleted(legs, j, ls)
  PROVE  /\ after \in [Job -> [Leg -> LegStates]]
         /\ \A k \in Job \ {j} : after[k] = legs[k]
         /\ \A l \in Leg : after[j][l] \in {legs[j][l], "removed"}
         /\ ~RemovalsFail => \A l \in Leg \cap ls : after[j][l] # "pending"
<1> DEFINE pending    == {l \in ls : legs[j][l] = "pending"}
           One(kept) == [l \in Leg |-> IF l \in pending \ kept THEN "removed" ELSE legs[j][l]]
<1>1. PICK kept \in Remaining(pending) : after = [legs EXCEPT ![j] = One(kept)]
  BY DEF Deleted
<1>2. One(kept) \in [Leg -> LegStates]
  BY DEF LegStates
<1>3. ~RemovalsFail => kept = {}
  BY DEF Remaining
<1>4. after[j] = One(kept) /\ \A k \in Job \ {j} : after[k] = legs[k]
  BY <1>1
<1>5. after \in [Job -> [Leg -> LegStates]]
  BY <1>1, <1>2
<1>6. QED
  BY <1>3, <1>4, <1>5

\* A deal that is queued is a deal.
LEMMA QueuedType ==
  ASSUME NEW e \in Event, events \in Seq(Event)
  PROVE  Queued(e) \in Seq(Event)
  BY DEF Queued

\* What a step other than off, idle and boot holds.
LEMMA StepShape ==
  ASSUME step \in Step
  PROVE  /\ step.at \in {"timer", "loop", "execute", "send"} => step.clock \in 0 .. MaxTime
         /\ step.at \in {"loop", "execute", "send"} => step.todo \in SUBSET Job
         /\ step.at \in {"execute", "send"} => step.job \in Job
         /\ step.at = "send" => step.leg \in Leg /\ step.attempt \in {1, 2}
  BY DEF Step, Off, Idle, Boot, Timer, Loop, Execute, Send

\* Every letter the agent writes is a report.
LEMMA ReportType ==
  ASSUME NEW j \in Job
  PROVE  /\ \A phase \in {"ARMED", "PREFLIGHT_REJECTED", "SUBMITTED", "PARTIALLY_FILLED",
                          "FILLED", "REJECTED", "CANCELLED", "CLOSED", "MISSED"} :
              Letter(j, phase) \in Report
         /\ \A phase \in {"SUBMITTED", "FILLED", "CANCELLED", "CLOSED", "MISSED"},
               why \in {"withdrawn", "expired", "recovered"} :
              LetterWhy(j, phase, why) \in Report
  BY DEF Letter, LetterWhy, Report

\* Legs 1 and 2 exist whatever the number of levels.
LEMMA FirstLegs == 1 \in Leg /\ 2 \in Leg
  BY AgentAssumption DEF Leg

\* The steps of the agent keep TypeOK, one lemma per handler.
LEMMA TypeProcess ==
  ASSUME TypeOK, NEW j \in Job,
         Expire(j) \/ Arm(j) \/ Recover(j) \/ Due(j) \/ Miss(j) \/ Skip(j)
  PROVE  TypeOK'
<1> USE DEF TypeOK, agent, broker
<1>0. /\ step \in Step /\ step.at = "loop"
      /\ step.clock \in 0 .. MaxTime /\ Others(j) \in SUBSET Job
  BY StepShape DEF Expire, Arm, Recover, Due, Miss, Skip, Visits, Others
<1>1. Resume(Others(j)) \in Step
  BY <1>0, ResumeType
<1>2. Execute(j, step.clock, Others(j)) \in Step
  BY <1>0 DEF Step
<1>3. CASE Expire(j)
  <2>1. leg' \in [Job -> [Leg -> LegStates]]
    BY <1>3, DeletedLegs DEF Expire
  <2>2. mail' \subseteq Report
    BY <1>3, ReportType DEF Expire
  <2>3. QED
    BY <1>1, <1>3, <2>1, <2>2 DEF Expire, Become
<1>4. CASE Arm(j)
  BY <1>2, <1>4, ReportType DEF Arm, Become
<1>5. CASE Recover(j)
  <2>1. CASE RecoverLedgerJob(j)
    <3>1. mail' \subseteq Report
      BY <2>1, ReportType DEF RecoverLedgerJob, Found
    <3>2. QED
      BY <1>1, <1>5, <2>1, <3>1 DEF Recover, RecoverLedgerJob, Become
  <2>2. CASE RecoverStraddleJob(j)
    <3>1. leg' \in [Job -> [Leg -> LegStates]]
      BY <2>2, DeletedLegs DEF RecoverStraddleJob
    <3>2. mail' \subseteq Report
      BY <2>2, ReportType DEF RecoverStraddleJob
    <3>3. ticket' \in [Job -> SUBSET Leg]
      BY <2>2 DEF RecoverStraddleJob, LegsIn
    <3>4. local' \in [Job -> {"NONE", "SYNCED", "ARMED", "SUBMITTED", "FINAL"}]
      BY <2>2 DEF RecoverStraddleJob, Become
    <3>5. hasFill' \subseteq Job
      BY <2>2 DEF RecoverStraddleJob
    <3>6. QED
      BY <1>1, <1>5, <3>1, <3>2, <3>3, <3>4, <3>5 DEF Recover
  <2>3. QED
    BY <1>5, <2>1, <2>2 DEF Recover
<1>6. CASE Due(j)
  BY <1>2, <1>6 DEF Due
<1>7. CASE Miss(j)
  BY <1>1, <1>7, ReportType DEF Miss, Become
<1>8. CASE Skip(j)
  BY <1>1, <1>8 DEF Skip
<1>9. QED
  BY <1>3, <1>4, <1>5, <1>6, <1>7, <1>8

\* Counting an accepted order keeps the counters natural numbers.
LEMMA CountedType ==
  ASSUME accepted \in [Job -> [Leg -> Nat]], NEW j \in Job, NEW l \in Leg,
         NEW outcome, Counted(j, l, outcome)
  PROVE  accepted' \in [Job -> [Leg -> Nat]]
  BY DEF Counted

\* Changing one leg of one job keeps the shape of the account.
LEMMA LegUpdate ==
  ASSUME leg \in [Job -> [Leg -> LegStates]], NEW j \in Job, NEW l \in Leg,
         NEW s \in LegStates
  PROVE  [leg EXCEPT ![j][l] = s] \in [Job -> [Leg -> LegStates]]
  OBVIOUS

\* Learning the ticket of a leg keeps the shape of the tickets.
LEMMA TicketUpdate ==
  ASSUME ticket \in [Job -> SUBSET Leg], NEW j \in Job, NEW l \in Leg
  PROVE  [ticket EXCEPT ![j] = @ \cup {l}] \in [Job -> SUBSET Leg]
  OBVIOUS

\* The leg after one that is not the last is a leg.
LEMMA NextLeg ==
  ASSUME NEW l \in Leg, l # 2 * Levels
  PROVE  l + 1 \in Leg
  BY AgentAssumption DEF Leg

\* Sending a leg keeps the shape of the account.
LEMMA SentLegType ==
  ASSUME leg \in [Job -> [Leg -> LegStates]], NEW j \in Job, NEW l \in Leg, NEW outcome
  PROVE  SentLeg(j, l, outcome) \in [Job -> [Leg -> LegStates]]
  BY DEF SentLeg, LegStates

\* The steps of ExecuteJob keep TypeOK.
LEMMA TypeExecute ==
  ASSUME TypeOK, ExecuteJob
  PROVE  TypeOK'
<1> USE DEF TypeOK, agent, broker
<1>0. /\ step \in Step /\ step.at \in {"execute", "send"}
      /\ step.clock \in 0 .. MaxTime /\ step.todo \in SUBSET Job /\ step.job \in Job
  BY StepShape DEF ExecuteJob, Reject, AppendLedger, SendMarket, SendStraddle, SendMulti
<1>1. Resume(step.todo) \in Step
  BY <1>0, ResumeType
<1>2. step.at = "send" => step.leg \in Leg /\ step.attempt \in {1, 2}
  BY <1>0, StepShape
<1>3. \A l \in Leg, a \in {1, 2} : Onward(l, a) \in Step
  BY <1>0 DEF Onward, Step
<1>4. CASE Reject
  BY <1>0, <1>1, <1>4, ReportType DEF Reject, Become
<1>5. CASE AppendLedger
  <2>1. Send(step.job, FirstLeg, 1, step.clock, step.todo) \in Step
    BY <1>0, FirstLegs DEF Step, FirstLeg
  <2>2. QED
    BY <1>0, <1>5, <2>1 DEF AppendLedger, Become
<1>6. ASSUME NEW o, SendMarket(o) PROVE TypeOK'
  <2>1. accepted' \in [Job -> [Leg -> Nat]]
    BY <1>0, <1>6, FirstLegs, CountedType DEF SendMarket
  <2>2. leg' \in [Job -> [Leg -> LegStates]]
    BY <1>0, <1>6, FirstLegs DEF SendMarket, LegStates
  <2>3. events' \in Seq(Event)
    <3>1. [job |-> step.job, leg |-> 1, entry |-> "in"] \in Event
      BY <1>0, FirstLegs DEF Event
    <3>2. QED
      BY <1>6, <3>1, QueuedType DEF SendMarket
  <2>4. mail' \subseteq Report
    BY <1>0, <1>6, ReportType DEF SendMarket, MarketPhases
  <2>5. local' \in [Job -> {"NONE", "SYNCED", "ARMED", "SUBMITTED", "FINAL"}]
    BY <1>0, <1>6 DEF SendMarket, Become
  <2>6. QED
    BY <1>1, <1>6, <2>1, <2>2, <2>3, <2>4, <2>5 DEF SendMarket
<1>7. ASSUME NEW o, SendStraddle(o) PROVE TypeOK'
  <2>0. step.at = "send" /\ step.leg \in Leg
    BY <1>2, <1>7 DEF SendStraddle
  <2>1. accepted' \in [Job -> [Leg -> Nat]]
    BY <1>0, <1>7, <2>0, CountedType DEF SendStraddle
  <2>2. leg' \in [Job -> [Leg -> LegStates]]
    <3>1. SentLeg(step.job, step.leg, o) \in [Job -> [Leg -> LegStates]]
      BY <1>0, <2>0, SentLegType
    <3>2. QED
      BY <1>0, <1>7, <3>1, DeletedLegs DEF SendStraddle
  <2>3. step' \in Step
    BY <1>1, <1>3, <1>7, <2>0, FirstLegs DEF SendStraddle
  <2>4. ticket' \in [Job -> SUBSET Leg]
    <3>1. \/ ticket' = ticket
          \/ \E l \in {1, 2} : ticket' = [ticket EXCEPT ![step.job] = @ \cup {l}]
      BY <1>7 DEF SendStraddle
    <3>2. ASSUME NEW l \in {1, 2}
          PROVE  [ticket EXCEPT ![step.job] = @ \cup {l}] \in [Job -> SUBSET Leg]
      BY <1>0, FirstLegs, TicketUpdate
    <3>3. CASE ticket' = ticket
      BY <3>3
    <3>4. CASE \E l \in {1, 2} : ticket' = [ticket EXCEPT ![step.job] = @ \cup {l}]
      <4>1. PICK l \in {1, 2} : ticket' = [ticket EXCEPT ![step.job] = @ \cup {l}]
        BY <3>4
      <4>2. QED
        BY ONLY <3>2, <4>1
    <3>5. QED
      BY ONLY <3>1, <3>3, <3>4
  <2>5. mail' \subseteq Report /\ local' \in [Job -> {"NONE", "SYNCED", "ARMED", "SUBMITTED", "FINAL"}]
    BY <1>0, <1>7, ReportType DEF SendStraddle, Become
  <2>6. QED
    BY <1>7, <2>1, <2>2, <2>3, <2>4, <2>5 DEF SendStraddle
<1>8. ASSUME NEW o, SendMulti(o) PROVE TypeOK'
  <2>0. step.at = "send" /\ step.leg \in Leg
    BY <1>2, <1>8 DEF SendMulti
  <2>1. accepted' \in [Job -> [Leg -> Nat]]
    BY <1>0, <1>8, <2>0, CountedType DEF SendMulti
  <2>2. leg' \in [Job -> [Leg -> LegStates]]
    BY <1>0, <1>8, <2>0, SentLegType DEF SendMulti
  <2>3. step' \in Step
    <3>1. step.leg # LastLeg(step.job) => step.leg + 1 \in Leg
      <4>1. LastLeg(step.job) = 2 * Levels
        BY <1>8 DEF SendMulti, LastLeg
      <4>2. QED
        BY <2>0, <4>1, NextLeg
    <3>2. QED
      BY <1>1, <1>3, <1>8, <2>0, <3>1 DEF SendMulti
  <2>4. ticket' \in [Job -> SUBSET Leg]
    BY <1>0, <1>8, <2>0 DEF SendMulti
  <2>5. mail' \subseteq Report /\ local' \in [Job -> {"NONE", "SYNCED", "ARMED", "SUBMITTED", "FINAL"}]
    <3>1. mail' \in {{}, {Letter(step.job, "REJECTED")}, {Letter(step.job, "SUBMITTED")}}
      BY <1>8 DEF SendMulti
    <3>2. local' = local \/ Become(step.job, "FINAL")
      BY <1>8 DEF SendMulti
    <3>3. QED
      BY <1>0, <3>1, <3>2, ReportType DEF Become
  <2>6. QED
    BY <1>8, <2>1, <2>2, <2>3, <2>4, <2>5 DEF SendMulti
<1>9. QED
  BY <1>4, <1>5, <1>6, <1>7, <1>8 DEF ExecuteJob

\* The steps of OnTradeTransaction keep TypeOK.
LEMMA TypeDeals ==
  ASSUME TypeOK, OnTradeTransaction
  PROVE  TypeOK'
<1> USE DEF TypeOK, agent, broker, Handles
<1>1. /\ Deal \in Event /\ Deal.job \in Job /\ Deal.leg \in Leg
      /\ Tail(events) \in Seq(Event)
  <2>1. events # <<>>
    BY DEF OnTradeTransaction, DealOut, DealInIgnored, DealIn, DealInStraddle
  <2>2. Head(events) \in Event /\ Tail(events) \in Seq(Event)
    BY <2>1
  <2>3. QED
    BY <2>2 DEF Deal, Event
<1>2. CASE DealOut
  <2>1. local' = local \/ local' = [local EXCEPT ![Deal.job] = "FINAL"]
    BY <1>2 DEF DealOut, Become
  <2>2. mail' = {} \/ mail' = {Letter(Deal.job, "CLOSED")}
    BY <1>2 DEF DealOut
  <2>3. mail' \subseteq Report
    BY <1>1, <2>2, ReportType
  <2>4. QED
    BY <1>1, <1>2, <2>1, <2>3 DEF DealOut
<1>3. CASE DealInIgnored
  BY <1>1, <1>3 DEF DealInIgnored
<1>4. CASE DealIn
  BY <1>1, <1>4, ReportType DEF DealIn, Become
<1>5. CASE DealInStraddle
  <2> DEFINE j == Deal.job
             l == Deal.leg
             Closing == IF j \in hasFill /\ leg[j][l] = "open" THEN MayClose(j, l) ELSE {leg}
  <2>1. PICK legs \in Closing :
          /\ leg' \in Deleted(legs, j, {Sibling(j, l)} \cap ticket[j])
          /\ events' = IF legs = leg THEN Tail(events)
                       ELSE Append(Tail(events), [job |-> j, leg |-> l, entry |-> "out"])
    BY <1>5 DEF DealInStraddle
  <2>2. legs \in [Job -> [Leg -> LegStates]]
    <3>1. legs = leg \/ \E s \in {"open", "closed"} : legs = [leg EXCEPT ![j][l] = s]
      BY DEF MayClose
    <3>2. {"open", "closed"} \subseteq LegStates
      BY DEF LegStates
    <3>3. ASSUME NEW s \in LegStates
          PROVE  [leg EXCEPT ![j][l] = s] \in [Job -> [Leg -> LegStates]]
      BY <1>1, LegUpdate
    <3>4. CASE legs # leg
      <4>1. PICK s \in {"open", "closed"} : legs = [leg EXCEPT ![j][l] = s]
        BY <3>1, <3>4
      <4>2. s \in LegStates
        BY <3>2
      <4>3. [leg EXCEPT ![j][l] = s] \in [Job -> [Leg -> LegStates]]
        BY <3>3, <4>2
      <4>4. QED
        BY ONLY <4>1, <4>3
    <3>5. QED
      BY <3>4
  <2>3. leg' \in [Job -> [Leg -> LegStates]]
    BY <1>1, <2>1, <2>2, DeletedLegs
  <2>4. events' \in Seq(Event)
    <3>1. [job |-> j, leg |-> l, entry |-> "out"] \in Event
      BY <1>1 DEF Event
    <3>2. QED
      BY <1>1, <2>1, <3>1
  <2>5. mail' \subseteq Report /\ hasFill' \subseteq Job
    BY <1>1, <1>5, ReportType DEF DealInStraddle
  <2>6. QED
    BY <1>5, <2>3, <2>4, <2>5 DEF DealInStraddle
<1>6. QED
  BY <1>2, <1>3, <1>4, <1>5 DEF OnTradeTransaction

\* Type correctness of the EA, the ledger and the account.
THEOREM TypeCorrect == Spec => []TypeOK
<1>1. Init => TypeOK
  BY AgentAssumption DEF Init, TypeOK, Step, LegStates
<1>2. TypeOK /\ [Next]_vars => TypeOK'
  <2> SUFFICES ASSUME TypeOK, [Next]_vars PROVE TypeOK'
    OBVIOUS
  <2> USE DEF TypeOK, agent, broker
  <2>1. CASE Start
    BY <2>1 DEF Start, Step
  <2>2. CASE Crash
    BY <2>2, AgentAssumption DEF Crash, Step
  <2>3. CASE OnTimer
    BY <2>3 DEF OnTimer, Step
  <2>4. ASSUME NEW new \in SUBSET Job, NEW withdrawn \in SUBSET Job, PollJobs(new, withdrawn)
        PROVE  TypeOK'
    <3>1. mail' \subseteq Report
      BY <2>4, ReportType DEF PollJobs
    <3>2. step' \in Step
      <4>1. CASE step = Boot
        BY <2>4, <4>1 DEF PollJobs, Step
      <4>2. CASE step # Boot
        <5>1. step.clock \in 0 .. MaxTime
          BY <2>4, <4>2, StepShape DEF PollJobs
        <5>2. \/ step' = Idle
              \/ \E todo \in SUBSET Job : step' = Loop(step.clock, todo)
          BY <2>4, <4>2 DEF PollJobs
        <5>3. QED
          BY <5>1, <5>2 DEF Step
      <4>3. QED
        BY <4>1, <4>2
    <3>3. QED
      BY <2>4, <3>1, <3>2 DEF PollJobs
  <2>5. CASE ProcessJobs
    BY <2>5, TypeProcess DEF ProcessJobs
  <2>6. CASE ExecuteJob
    BY <2>6, TypeExecute
  <2>7. CASE OnTradeTransaction
    BY <2>7, TypeDeals
  <2>8. ASSUME NEW j \in Job, Cancel(j) PROVE TypeOK'
    BY <2>8 DEF Cancel
  <2>9. ASSUME NEW j \in Job, NEW l \in Leg, Fill(j, l) \/ Close(j, l) PROVE TypeOK'
    <3>1. \A entry \in {"in", "out"} : [job |-> j, leg |-> l, entry |-> entry] \in Event
      BY DEF Event
    <3>2. events' \in Seq(Event)
      BY <2>9, <3>1, QueuedType DEF Fill, Close
    <3>3. leg' \in [Job -> [Leg -> LegStates]]
      <4>1. \E s \in {"open", "closed"} : leg' = [leg EXCEPT ![j][l] = s]
        BY <2>9 DEF Fill, Close
      <4>2. {"open", "closed"} \subseteq LegStates
        BY DEF LegStates
      <4>3. QED
        BY <4>1, <4>2, LegUpdate
    <3>4. QED
      BY <2>9, <3>2, <3>3 DEF Fill, Close
  <2>10. CASE Tick
    BY <2>10, AgentAssumption DEF Tick
  <2>11. CASE UNCHANGED vars
    BY <2>11 DEF vars
  <2>12. QED
    BY <2>1, <2>2, <2>3, <2>4, <2>5, <2>6, <2>7, <2>8, <2>9, <2>10, <2>11 DEF Next, Poll
<1>3. QED
  BY <1>1, <1>2, PTL DEF Spec

-----------------------------------------------------------------------------
(***************************************************************************)
(* No leg is sent twice.  Three facts make it inductive: a job that is not *)
(* in the ledger has no order at the broker; what is armed, or about to be *)
(* executed, is not in the ledger; and while legs are being sent, the ones *)
(* from the present leg on have not been accepted.                         *)
(***************************************************************************)
WriteAhead == \A j \in Job \ ledger, l \in Leg : accepted[j][l] = 0

ArmedIsNew == \A j \in Job : local[j] = "ARMED" => j \notin ledger

ExecutesNew == step.at = "execute" => step.job \notin ledger

SendsNew ==
  step.at = "send" =>
    /\ step.job \in ledger
    /\ Mode[step.job] = "MARKET" => step.leg = 1
    /\ \A l \in Leg : l >= step.leg => accepted[step.job][l] = 0

OnceInv == WriteAhead /\ ArmedIsNew /\ ExecutesNew /\ SendsNew /\ AtMostOnce

\* The ledger can be read, and the only orders tried twice, the legs of a
\* basket, are answered truthfully.
TruthfulBroker ==
  /\ ~LedgerFaults
  /\ LostAcks => \A j \in Job : Mode[j] # "MULTI"

\* A step that neither sends nor arms, nor writes the ledger.
LEMMA OnceQuiet ==
  ASSUME OnceInv, UNCHANGED <<ledger, accepted>>,
         (step' = step) \/ (step'.at \notin {"execute", "send"}),
         \A j \in Job : local'[j] = "ARMED" => local[j] = "ARMED"
  PROVE  OnceInv'
<1>1. WriteAhead' /\ AtMostOnce'
  BY DEF OnceInv, WriteAhead, AtMostOnce
<1>2. ArmedIsNew'
  BY DEF OnceInv, ArmedIsNew
<1>3. ExecutesNew' /\ SendsNew'
  BY DEF OnceInv, ExecutesNew, SendsNew
<1>4. QED
  BY <1>1, <1>2, <1>3 DEF OnceInv

\* After a job the agent is idle or in the loop, never sending.
LEMMA ResumeAt == \A todo : Resume(todo).at \in {"idle", "loop"}
  BY DEF Resume, Idle, Loop

\* The steps of ProcessJobs keep the once-only invariant.
LEMMA OnceProcess ==
  ASSUME TypeOK, OnceInv, TruthfulBroker, NEW j \in Job,
         Expire(j) \/ Arm(j) \/ Recover(j) \/ Due(j) \/ Miss(j) \/ Skip(j)
  PROVE  OnceInv'
<1>1. CASE Arm(j)
  <2>1. j \notin ledger
    BY <1>1 DEF Arm, LedgerAnswers, TruthfulBroker
  <2>2. /\ UNCHANGED <<ledger, accepted>>
        /\ \A k \in Job : local'[k] = "ARMED" => local[k] = "ARMED" \/ k = j
    BY <1>1 DEF Arm, Become, broker, TypeOK
  <2>3. \/ step' = step /\ step.at = "loop"
        \/ step'.at = "execute" /\ step'.job = j
    BY <1>1 DEF Arm, Execute, Visits
  <2>4. QED
    BY <2>1, <2>2, <2>3
    DEF OnceInv, WriteAhead, ArmedIsNew, ExecutesNew, SendsNew, AtMostOnce
<1>2. CASE Due(j)
  <2>1. j \notin ledger
    BY <1>2 DEF Due, OnceInv, ArmedIsNew
  <2>2. UNCHANGED <<ledger, accepted, local>> /\ step'.at = "execute" /\ step'.job = j
    BY <1>2 DEF Due, Execute, broker
  <2>3. QED
    BY <2>1, <2>2 DEF OnceInv, WriteAhead, ArmedIsNew, ExecutesNew, SendsNew, AtMostOnce
<1>3. CASE Expire(j) \/ Recover(j) \/ Miss(j) \/ Skip(j)
  <2>1. UNCHANGED <<ledger, accepted>> /\ step' = Resume(Others(j))
    BY <1>3 DEF Expire, Recover, Miss, Skip, broker
  <2>2. \/ UNCHANGED local
        \/ \E s \in {"SUBMITTED", "FINAL"} : Become(j, s)
    BY <1>3 DEF Expire, Recover, RecoverLedgerJob, RecoverStraddleJob, Miss, Skip
  <2>3. \A k \in Job : local'[k] = "ARMED" => local[k] = "ARMED"
    BY <2>2 DEF Become, TypeOK
  <2>4. QED
    BY <2>1, <2>3, ResumeAt, OnceQuiet
<1>4. QED
  BY <1>1, <1>2, <1>3

\* An order is sent for a leg of the job at hand from the present leg on, and
\* the steps that follow are for later legs, or the same leg if it was refused.
LEMMA OnceSend ==
  ASSUME TypeOK, OnceInv, step.at = "send", NEW l \in Leg, l >= step.leg,
         UNCHANGED ledger,
         \A j \in Job : local'[j] = "ARMED" => local[j] = "ARMED",
         \/ accepted' = accepted
         \/ accepted' = [accepted EXCEPT ![step.job][l] = @ + 1],
         \/ step'.at \in {"idle", "loop"}
         \/ /\ step'.at = "send" /\ step'.job = step.job
            /\ Mode[step.job] # "MARKET"
            /\ \/ step'.leg \in Leg /\ step'.leg > l
               \/ step'.leg = l /\ accepted' = accepted
  PROVE  OnceInv'
<1>1. step.job \in Job /\ step.leg \in Leg
  BY StepShape DEF TypeOK
<1>2. accepted[step.job][l] = 0 /\ step.job \in ledger
  BY DEF OnceInv, SendsNew
<1>3. \A j \in Job, k \in Leg :
        \/ accepted'[j][k] = accepted[j][k]
        \/ j = step.job /\ k = l /\ accepted'[j][k] = 1
  BY <1>1, <1>2 DEF TypeOK
<1>4. WriteAhead' /\ AtMostOnce'
  BY <1>2, <1>3 DEF OnceInv, WriteAhead, AtMostOnce
<1>5. ArmedIsNew' /\ ExecutesNew'
  BY DEF OnceInv, ArmedIsNew, ExecutesNew
<1>6. SendsNew'
  <2> SUFFICES ASSUME step'.at = "send", NEW k \in Leg, k >= step'.leg
               PROVE  accepted'[step.job][k] = 0
    BY <1>2 DEF SendsNew
  <2>1. k >= l /\ (k > l \/ accepted' = accepted)
    BY DEF Leg
  <2>2. k >= step.leg
    BY <1>1, <2>1 DEF Leg
  <2>3. accepted[step.job][k] = 0
    BY <2>2 DEF OnceInv, SendsNew
  <2>4. k > l => k # l
    BY DEF Leg
  <2>5. accepted'[step.job][k] = accepted[step.job][k]
    BY <1>1, <1>3, <2>1, <2>4
  <2>6. QED
    BY <2>3, <2>5
<1>7. QED
  BY <1>4, <1>5, <1>6 DEF OnceInv

\* The steps of ExecuteJob keep the once-only invariant.
LEMMA OnceExecute ==
  ASSUME TypeOK, OnceInv, TruthfulBroker, ExecuteJob
  PROVE  OnceInv'
<1>0. /\ step.job \in Job
      /\ step.at = "send" => step.leg \in Leg
  BY StepShape DEF TypeOK, ExecuteJob, Reject, AppendLedger, SendMarket, SendStraddle, SendMulti
<1>1. ASSUME NEW s \in {"SUBMITTED", "FINAL"}, UNCHANGED local \/ Become(step.job, s)
      PROVE  \A j \in Job : local'[j] = "ARMED" => local[j] = "ARMED"
  BY <1>1 DEF Become, TypeOK
<1>2. CASE Reject
  <2>1. UNCHANGED <<ledger, accepted>> /\ Become(step.job, "FINAL") /\ step' = Resume(step.todo)
    BY <1>2 DEF Reject, broker
  <2>2. QED
    BY <1>1, <2>1, ResumeAt, OnceQuiet
<1>3. CASE AppendLedger
  <2>1. /\ UNCHANGED accepted /\ ledger' = ledger \cup {step.job}
        /\ step'.at = "send" /\ step'.job = step.job /\ step'.leg = 1
        /\ local' = [local EXCEPT ![step.job] = "SUBMITTED"]
        /\ step.job \notin ledger
    BY <1>3 DEF AppendLedger, broker, Send, FirstLeg, Become, OnceInv, ExecutesNew
  <2>2. WriteAhead' /\ AtMostOnce'
    BY <2>1 DEF OnceInv, WriteAhead, AtMostOnce
  <2>3. ArmedIsNew'
    BY <2>1 DEF OnceInv, ArmedIsNew, TypeOK
  <2>4. ExecutesNew' /\ SendsNew'
    BY <1>0, <2>1 DEF OnceInv, WriteAhead, ExecutesNew, SendsNew
  <2>5. QED
    BY <2>2, <2>3, <2>4 DEF OnceInv
<1>4. ASSUME NEW o, SendMarket(o) PROVE OnceInv'
  <2>1. /\ step.at = "send" /\ step.leg = 1 /\ UNCHANGED ledger
        /\ step' = Resume(step.todo)
        /\ accepted' = accepted \/ accepted' = [accepted EXCEPT ![step.job][1] = @ + 1]
    BY <1>4 DEF SendMarket, Counted, OnceInv, SendsNew
  <2>2. \A j \in Job : local'[j] = "ARMED" => local[j] = "ARMED"
    BY <1>1, <1>4 DEF SendMarket
  <2>3. QED
    BY <2>1, <2>2, FirstLegs, ResumeAt, OnceSend
<1>5. ASSUME NEW o, SendStraddle(o) PROVE OnceInv'
  <2>1. /\ step.at = "send" /\ Mode[step.job] # "MARKET" /\ UNCHANGED ledger
        /\ accepted' = accepted \/ accepted' = [accepted EXCEPT ![step.job][step.leg] = @ + 1]
    BY <1>5 DEF SendStraddle, Counted
  <2>2. \/ step' = Resume(step.todo)
        \/ step' = Onward(2, 1) /\ step.leg = 1
    BY <1>5 DEF SendStraddle
  <2>3. \A j \in Job : local'[j] = "ARMED" => local[j] = "ARMED"
    BY <1>1, <1>5 DEF SendStraddle
  <2>4. \/ step'.at \in {"idle", "loop"}
        \/ step'.at = "send" /\ step'.job = step.job /\ step'.leg \in Leg /\ step'.leg > step.leg
    BY <2>2, FirstLegs, ResumeAt DEF Onward, Send
  <2>5. step.leg >= step.leg
    BY <1>0, <2>1 DEF Leg
  <2>6. QED
    BY <1>0, <2>1, <2>3, <2>4, <2>5, OnceSend
<1>6. ASSUME NEW o, SendMulti(o) PROVE OnceInv'
  <2>1. /\ step.at = "send" /\ Mode[step.job] = "MULTI" /\ UNCHANGED ledger
        /\ accepted' = accepted \/ accepted' = [accepted EXCEPT ![step.job][step.leg] = @ + 1]
    BY <1>6 DEF SendMulti, Counted
  <2>2. ~LostAcks
    BY <1>0, <2>1 DEF TruthfulBroker
  <2>3. \/ step' = Resume(step.todo)
        \/ step' = Onward(step.leg, 2) /\ o \in Rejected
        \/ step' = Onward(step.leg + 1, 1) /\ step.leg # LastLeg(step.job)
    BY <1>6 DEF SendMulti
  <2>4. o \in Rejected => accepted' = accepted
    BY <1>6, <2>2 DEF SendMulti, Counted, Rejected
  <2>5. \A j \in Job : local'[j] = "ARMED" => local[j] = "ARMED"
    BY <1>1, <1>6 DEF SendMulti
  <2>6. step.leg # LastLeg(step.job) => step.leg + 1 \in Leg
    BY <1>0, <2>1, NextLeg DEF LastLeg
  <2>7. step.leg >= step.leg /\ step.leg + 1 > step.leg
    BY <1>0, <2>1 DEF Leg
  <2>8. \/ step'.at \in {"idle", "loop"}
        \/ /\ step'.at = "send" /\ step'.job = step.job
           /\ \/ step'.leg \in Leg /\ step'.leg > step.leg
              \/ step'.leg = step.leg /\ accepted' = accepted
    BY <2>3, <2>4, <2>6, <2>7, ResumeAt DEF Onward, Send
  <2>9. QED
    BY <1>0, <2>1, <2>5, <2>7, <2>8, OnceSend
<1>7. QED
  BY <1>2, <1>3, <1>4, <1>5, <1>6 DEF ExecuteJob

\* With a broker that answers truthfully the once-only invariant always holds.
LEMMA OnceInvariant == ASSUME TruthfulBroker PROVE Spec => []OnceInv
<1>1. Init => OnceInv
  BY DEF Init, OnceInv, WriteAhead, ArmedIsNew, ExecutesNew, SendsNew, AtMostOnce, Boot
<1>2. TypeOK /\ OnceInv /\ [Next]_vars => OnceInv'
  <2> SUFFICES ASSUME TypeOK, OnceInv, [Next]_vars PROVE OnceInv'
    OBVIOUS
  <2>1. CASE Start \/ Crash \/ OnTimer
    <3>1. /\ UNCHANGED <<ledger, accepted>>
          /\ step'.at \notin {"execute", "send"}
          /\ \A j \in Job : local'[j] = "ARMED" => local[j] = "ARMED"
      BY <2>1 DEF Start, Crash, OnTimer, Boot, Off, Timer, broker
    <3>2. QED
      BY <3>1, OnceQuiet
  <2>2. ASSUME NEW new \in SUBSET Job, NEW withdrawn \in SUBSET Job, PollJobs(new, withdrawn)
        PROVE  OnceInv'
    <3>1. UNCHANGED <<ledger, accepted>> /\ step'.at \notin {"execute", "send"}
      BY <2>2 DEF PollJobs, Idle, Loop, broker
    <3>2. \A j \in Job : local'[j] = "ARMED" => local[j] = "ARMED"
      BY <2>2 DEF PollJobs
    <3>3. QED
      BY <3>1, <3>2, OnceQuiet
  <2>3. CASE ProcessJobs
    BY <2>3, OnceProcess DEF ProcessJobs
  <2>4. CASE ExecuteJob
    BY <2>4, OnceExecute
  <2>5. CASE OnTradeTransaction
    <3>1. UNCHANGED <<ledger, accepted, step>>
      BY <2>5 DEF OnTradeTransaction, DealOut, DealInIgnored, DealIn, DealInStraddle, Handles
    <3>2. UNCHANGED local \/ Become(Deal.job, "FINAL")
      BY <2>5 DEF OnTradeTransaction, DealOut, DealInIgnored, DealIn, DealInStraddle
    <3>3. \A j \in Job : local'[j] = "ARMED" => local[j] = "ARMED"
      BY <3>2 DEF Become, TypeOK
    <3>4. QED
      BY <3>1, <3>3, OnceQuiet
  <2>6. ASSUME NEW j \in Job, NEW l \in Leg, Cancel(j) \/ Fill(j, l) \/ Close(j, l)
        PROVE  OnceInv'
    BY <2>6, OnceQuiet DEF Cancel, Fill, Close, agent, broker
  <2>7. ASSUME NEW j \in Job, Cancel(j) PROVE OnceInv'
    BY <2>7, OnceQuiet DEF Cancel, agent, broker
  <2>8. CASE Tick \/ UNCHANGED vars
    BY <2>8, OnceQuiet DEF Tick, vars, agent, broker
  <2>9. QED
    BY <2>1, <2>2, <2>3, <2>4, <2>5, <2>6, <2>7, <2>8 DEF Next, Poll
<1>3. QED
  BY <1>1, <1>2, TypeCorrect, PTL DEF Spec

\* While the ledger file can be opened, no leg of any job is ever sent to the
\* broker twice, however often the terminal stops and wherever it stops
\* (AppendLedger before OrderSend, LedgerContains before a job is armed).
THEOREM SubmittedAtMostOnce == ASSUME TruthfulBroker PROVE Spec => []AtMostOnce
<1>1. OnceInv => AtMostOnce
  BY DEF OnceInv
<1>2. QED
  BY <1>1, OnceInvariant, PTL

-----------------------------------------------------------------------------
(***************************************************************************)
(* An OCO pair leaves no order behind.  First, time: ProcessJobs goes by a *)
(* clock that is never ahead, so a job in the ledger is past its ArmAt and *)
(* can no longer be cancelled; a cancelled job the EA has yet to execute   *)
(* is therefore not in the ledger.                                         *)
(***************************************************************************)
ClockBehind == step.at \in {"timer", "loop", "execute", "send"} => step.clock <= now

ExecutesDue ==
  step.at = "execute" /\ Mode[step.job] = "STRADDLE" => step.clock >= ArmAt[step.job]

LedgerIsDue == \A j \in ledger : Mode[j] = "STRADDLE" => now >= ArmAt[j]

CancelledIsNew ==
  \A j \in cancelled \cap ledger :
    Mode[j] = "STRADDLE" => local[j] \notin {"SYNCED", "ARMED"}

TimeInv == ClockBehind /\ ExecutesDue /\ LedgerIsDue /\ CancelledIsNew

\* Steps that arm nothing, write no ledger and cancel nothing.
LEMMA TimeQuiet ==
  ASSUME TimeInv, UNCHANGED <<now, cancelled, ledger>>,
         \/ step' = step
         \/ step'.at \in {"off", "idle", "boot"}
         \/ step'.at \in {"timer", "loop", "send"} /\ step'.clock <= now,
         \A j \in Job : local'[j] \in {"SYNCED", "ARMED"} =>
           local[j] \in {"SYNCED", "ARMED"} \/ j \notin cancelled \/ j \notin ledger,
         ledger \subseteq Job
  PROVE  TimeInv'
<1>1. ClockBehind' /\ ExecutesDue'
  BY DEF TimeInv, ClockBehind, ExecutesDue
<1>2. LedgerIsDue' /\ CancelledIsNew'
  BY DEF TimeInv, LedgerIsDue, CancelledIsNew
<1>3. QED
  BY <1>1, <1>2 DEF TimeInv

\* The rest of the loop goes by the same clock.
LEMMA ResumeClock ==
  \A todo : \/ Resume(todo).at = "idle"
            \/ Resume(todo).at = "loop" /\ Resume(todo).clock = step.clock
  BY DEF Resume, Idle, Loop

\* The steps of ProcessJobs keep the invariant on clocks.
LEMMA TimeProcess ==
  ASSUME TypeOK, TimeInv, ~LedgerFaults, NEW j \in Job,
         Expire(j) \/ Arm(j) \/ Recover(j) \/ Due(j) \/ Miss(j) \/ Skip(j)
  PROVE  TimeInv'
<1>0. /\ UNCHANGED <<now, cancelled, ledger>> /\ ledger \subseteq Job
      /\ step.at = "loop" /\ step.clock <= now
  BY DEF Expire, Arm, Recover, Due, Miss, Skip, Visits, TimeInv, ClockBehind, TypeOK
<1>1. CASE Arm(j)
  <2>1. j \notin ledger /\ step.clock >= ArmAt[j]
    BY <1>1 DEF Arm, LedgerAnswers
  <2>2. \A k \in Job : local'[k] = local[k] \/ k = j
    BY <1>1 DEF Arm, Become, TypeOK
  <2>3. \/ step' = step
        \/ step'.at = "execute" /\ step'.job = j /\ step'.clock = step.clock
    BY <1>1 DEF Arm, Execute
  <2>4. ClockBehind' /\ ExecutesDue'
    BY <1>0, <2>1, <2>3 DEF TimeInv, ClockBehind, ExecutesDue
  <2>5. LedgerIsDue' /\ CancelledIsNew'
    BY <1>0, <2>1, <2>2 DEF TimeInv, LedgerIsDue, CancelledIsNew
  <2>6. QED
    BY <2>4, <2>5 DEF TimeInv
<1>2. CASE Due(j)
  <2>1. /\ UNCHANGED local /\ Mode[j] = "MARKET"
        /\ step'.at = "execute" /\ step'.job = j /\ step'.clock = step.clock
    BY <1>2 DEF Due, Execute
  <2>2. QED
    BY <1>0, <2>1
    DEF TimeInv, ClockBehind, ExecutesDue, LedgerIsDue, CancelledIsNew
<1>3. CASE Expire(j) \/ Recover(j) \/ Miss(j) \/ Skip(j)
  <2>1. step' = Resume(Others(j))
    BY <1>3 DEF Expire, Recover, Miss, Skip
  <2>2. \/ UNCHANGED local
        \/ \E s \in {"SUBMITTED", "FINAL"} : Become(j, s)
    BY <1>3 DEF Expire, Recover, RecoverLedgerJob, RecoverStraddleJob, Miss, Skip
  <2>3. \A k \in Job : local'[k] \in {"SYNCED", "ARMED"} => local[k] \in {"SYNCED", "ARMED"}
    BY <2>2 DEF Become, TypeOK
  <2>4. QED
    BY <1>0, <2>1, <2>3, ResumeClock, TimeQuiet
<1>4. QED
  BY <1>1, <1>2, <1>3

\* The steps of ExecuteJob keep the invariant on clocks.
LEMMA TimeExecute ==
  ASSUME TypeOK, TimeInv, ExecuteJob
  PROVE  TimeInv'
<1>0. /\ step.at \in {"execute", "send"} /\ step.clock <= now
      /\ step.job \in Job /\ step.clock \in 0 .. MaxTime /\ ledger \subseteq Job
  BY StepShape DEF ExecuteJob, Reject, AppendLedger, SendMarket, SendStraddle, SendMulti,
                   TimeInv, ClockBehind, TypeOK
<1>1. ASSUME NEW s \in {"SUBMITTED", "FINAL"}, UNCHANGED local \/ Become(step.job, s)
      PROVE  \A j \in Job : local'[j] \in {"SYNCED", "ARMED"} => local[j] \in {"SYNCED", "ARMED"}
  BY <1>1 DEF Become, TypeOK
<1>2. CASE AppendLedger
  <2>1. /\ UNCHANGED <<now, cancelled>> /\ ledger' = ledger \cup {step.job}
        /\ step.at = "execute" /\ step'.at = "send" /\ step'.clock = step.clock
        /\ local' = [local EXCEPT ![step.job] = "SUBMITTED"]
    BY <1>2 DEF AppendLedger, Send, Become
  <2>2. ClockBehind' /\ ExecutesDue'
    BY <1>0, <2>1 DEF ClockBehind, ExecutesDue
  <2>3. LedgerIsDue'
    <3>1. Mode[step.job] = "STRADDLE" => now >= ArmAt[step.job]
      <4>1. now \in Int /\ step.clock \in Int /\ ArmAt[step.job] \in Int
        BY <1>0, AgentAssumption DEF TypeOK
      <4>2. Mode[step.job] = "STRADDLE" => step.clock >= ArmAt[step.job]
        BY <2>1 DEF TimeInv, ExecutesDue
      <4>3. QED
        BY <1>0, <4>1, <4>2
    <3>2. QED
      BY <2>1, <3>1 DEF TimeInv, LedgerIsDue
  <2>4. CancelledIsNew'
    BY <1>0, <2>1 DEF TimeInv, CancelledIsNew, TypeOK
  <2>5. QED
    BY <2>2, <2>3, <2>4 DEF TimeInv
<1>3. CASE ~AppendLedger
  <2>1. UNCHANGED <<now, cancelled, ledger>>
    BY <1>3 DEF ExecuteJob, Reject, SendMarket, SendStraddle, SendMulti
  <2>2. UNCHANGED local \/ Become(step.job, "FINAL")
    BY <1>3 DEF ExecuteJob, Reject, SendMarket, SendStraddle, SendMulti
  <2>3. \/ step' = Resume(step.todo)
        \/ \E l, a : step' = Onward(l, a)
    BY <1>3 DEF ExecuteJob, Reject, SendMarket, SendStraddle, SendMulti
  <2>4. \/ step'.at = "idle"
        \/ step'.at \in {"loop", "send"} /\ step'.clock = step.clock
    BY <2>3, ResumeClock DEF Onward, Send
  <2>5. QED
    BY <1>0, <1>1, <2>1, <2>2, <2>4, TimeQuiet
<1>4. QED
  BY <1>2, <1>3

\* With a ledger that can be read the invariant on clocks always holds.
LEMMA TimeInvariant == ASSUME ~LedgerFaults PROVE Spec => []TimeInv
<1>1. Init => TimeInv
  BY DEF Init, TimeInv, ClockBehind, ExecutesDue, LedgerIsDue, CancelledIsNew, Boot
<1>2. TypeOK /\ TimeInv /\ [Next]_vars => TimeInv'
  <2> SUFFICES ASSUME TypeOK, TimeInv, [Next]_vars PROVE TimeInv'
    OBVIOUS
  <2>0. ledger \subseteq Job /\ now <= now
    BY DEF TypeOK
  <2>1. CASE Start \/ Crash \/ OnTimer
    <3>1. UNCHANGED <<now, cancelled, ledger>>
      BY <2>1 DEF Start, Crash, OnTimer
    <3>2. \/ step'.at \in {"off", "boot"}
          \/ step'.at = "timer" /\ step'.clock = now
      BY <2>1 DEF Start, Crash, OnTimer, Boot, Off, Timer
    <3>3. \A j \in Job : local'[j] \in {"SYNCED", "ARMED"} => local[j] \in {"SYNCED", "ARMED"}
      BY <2>1 DEF Start, Crash, OnTimer
    <3>4. QED
      BY <2>0, <3>1, <3>2, <3>3, TimeQuiet
  <2>2. ASSUME NEW new \in SUBSET Job, NEW withdrawn \in SUBSET Job, PollJobs(new, withdrawn)
        PROVE  TimeInv'
    <3>1. UNCHANGED <<now, cancelled, ledger>>
      BY <2>2 DEF PollJobs
    <3>2. \/ step'.at = "idle"
          \/ step'.at = "loop" /\ step'.clock <= now
      BY <2>2 DEF PollJobs, Idle, Loop, TimeInv, ClockBehind
    <3>3. \A j \in Job : local'[j] \in {"SYNCED", "ARMED"} =>
            local[j] \in {"SYNCED", "ARMED"} \/ j \notin cancelled
      BY <2>2 DEF PollJobs
    <3>4. QED
      BY <2>0, <3>1, <3>2, <3>3, TimeQuiet
  <2>3. CASE ProcessJobs
    BY <2>3, TimeProcess DEF ProcessJobs
  <2>4. CASE ExecuteJob
    BY <2>4, TimeExecute
  <2>5. CASE OnTradeTransaction
    <3>1. UNCHANGED <<now, cancelled, ledger, step>>
      BY <2>5 DEF OnTradeTransaction, DealOut, DealInIgnored, DealIn, DealInStraddle, Handles
    <3>2. UNCHANGED local \/ Become(Deal.job, "FINAL")
      BY <2>5 DEF OnTradeTransaction, DealOut, DealInIgnored, DealIn, DealInStraddle
    <3>3. \A j \in Job : local'[j] \in {"SYNCED", "ARMED"} => local[j] \in {"SYNCED", "ARMED"}
      BY <3>2 DEF Become, TypeOK
    <3>4. QED
      BY <2>0, <3>1, <3>3, TimeQuiet
  <2>6. ASSUME NEW j \in Job, Cancel(j) PROVE TimeInv'
    <3>1. /\ cancelled' = cancelled \cup {j} /\ now < ArmAt[j]
          /\ UNCHANGED <<now, step, local, ledger>>
      BY <2>6 DEF Cancel, agent
    <3>2. Mode[j] = "STRADDLE" => j \notin ledger
      BY <3>1, AgentAssumption DEF TimeInv, LedgerIsDue, TypeOK
    <3>3. QED
      BY <3>1, <3>2 DEF TimeInv, ClockBehind, ExecutesDue, LedgerIsDue, CancelledIsNew
  <2>7. ASSUME NEW j \in Job, NEW l \in Leg, Fill(j, l) \/ Close(j, l) PROVE TimeInv'
    BY <2>0, <2>7, TimeQuiet DEF Fill, Close
  <2>8. CASE Tick
    <3>1. now' = now + 1 /\ UNCHANGED <<cancelled, step, local, ledger>>
      BY <2>8 DEF Tick, agent
    <3>2. ClockBehind' /\ ExecutesDue'
      BY <3>1, StepShape DEF TimeInv, ClockBehind, ExecutesDue, TypeOK
    <3>3. LedgerIsDue' /\ CancelledIsNew'
      BY <3>1, AgentAssumption DEF TimeInv, LedgerIsDue, CancelledIsNew, TypeOK
    <3>4. QED
      BY <3>2, <3>3 DEF TimeInv
  <2>9. CASE UNCHANGED vars
    BY <2>0, <2>9, TimeQuiet DEF vars, agent
  <2>10. QED
    BY <2>1, <2>2, <2>3, <2>4, <2>5, <2>6, <2>7, <2>8, <2>9 DEF Next, Poll
<1>3. QED
  BY <1>1, <1>2, TypeCorrect, PTL DEF Spec

-----------------------------------------------------------------------------
(***************************************************************************)
(* Then the orders: a job that is not in the ledger has none, a final one  *)
(* has none, and the EA knows the ticket of every one of a submitted job.  *)
(***************************************************************************)
PairOK(j) ==
  /\ j \notin ledger => LegsIn(j, "pending") = {}
  /\ local[j] = "FINAL" => LegsIn(j, "pending") = {}
  /\ local[j] = "SUBMITTED" => LegsIn(j, "pending") \subseteq ticket[j]

SendsSubmitted == step.at = "send" => local[step.job] = "SUBMITTED"

PairInv == SendsSubmitted /\ \A j \in Job : Mode[j] = "STRADDLE" => PairOK(j)

\* The broker removes what it is asked to remove and answers truthfully.
ObedientBroker == ~LedgerFaults /\ ~LostAcks /\ ~RemovalsFail

\* A step that gives the job no new order and does not move it.
LEMMA PairKept ==
  ASSUME NEW j \in Job, PairOK(j),
         LegsIn(j, "pending")' \subseteq LegsIn(j, "pending"),
         ticket[j] \subseteq ticket'[j] \/ local'[j] # "SUBMITTED",
         ledger \subseteq ledger',
         local'[j] = local[j] \/ local'[j] \notin {"FINAL", "SUBMITTED"}
  PROVE  PairOK(j)'
  BY DEF PairOK

\* A job that is done with, without any order left.
LEMMA PairEmptied ==
  ASSUME NEW j \in Job, LegsIn(j, "pending")' = {}
  PROVE  PairOK(j)'
  BY DEF PairOK

\* Deleting orders only takes some away, and takes all that are named.
LEMMA DeletedPending ==
  ASSUME TypeOK, NEW j \in Job, NEW ls, leg' \in Deleted(leg, j, ls)
  PROVE  /\ \A k \in Job : LegsIn(k, "pending")' \subseteq LegsIn(k, "pending")
         /\ \A k \in Job \ {j} : leg'[k] = leg[k]
         /\ ~RemovalsFail /\ LegsIn(j, "pending") \subseteq ls => LegsIn(j, "pending")' = {}
<1>1. leg \in [Job -> [Leg -> LegStates]]
  BY DEF TypeOK
<1>2. /\ \A k \in Job \ {j} : leg'[k] = leg[k]
      /\ \A l \in Leg : leg'[j][l] \in {leg[j][l], "removed"}
      /\ ~RemovalsFail => \A l \in Leg \cap ls : leg'[j][l] # "pending"
  BY <1>1, DeletedLegs
<1>3. QED
  BY <1>2 DEF LegsIn

\* What one visit of ProcessJobs does to the job it visits.
LEMMA PairVisit ==
  ASSUME TypeOK, TimeInv, PairInv, ObedientBroker, NEW j \in Job, Mode[j] = "STRADDLE",
         Expire(j) \/ Arm(j) \/ Recover(j) \/ Due(j) \/ Miss(j) \/ Skip(j)
  PROVE  PairOK(j)'
<1> USE DEF broker
<1>0. PairOK(j) /\ ticket[j] \subseteq Leg
  BY DEF PairInv, TypeOK
<1>1. CASE Expire(j)
  <2>1. LegsIn(j, "pending") \subseteq ticket[j] /\ leg' \in Deleted(leg, j, ticket[j])
    BY <1>0, <1>1 DEF Expire, PairOK
  <2>2. LegsIn(j, "pending")' = {}
    BY <2>1, DeletedPending DEF ObedientBroker
  <2>3. QED
    BY <2>2, PairEmptied
<1>2. CASE Arm(j)
  <2>1. /\ UNCHANGED <<leg, ticket, ledger>> /\ local'[j] = "ARMED"
    BY <1>2 DEF Arm, Become, TypeOK
  <2>2. LegsIn(j, "pending")' = LegsIn(j, "pending")
    BY <2>1 DEF LegsIn
  <2>3. QED
    BY <1>0, <2>1, <2>2, PairKept
<1>3. CASE Recover(j) /\ LegsIn(j, "pending") = {} /\ RecoverLedgerJob(j)
  <2>1. LegsIn(j, "pending")' = {}
    BY <1>3 DEF RecoverLedgerJob, LegsIn
  <2>2. QED
    BY <2>1, PairEmptied
<1>4. CASE Recover(j) /\ RecoverStraddleJob(j)
  <2>1. CASE leg' \in Deleted(leg, j, LegsIn(j, "pending"))
    <3>1. LegsIn(j, "pending")' = {}
      BY <2>1, DeletedPending DEF ObedientBroker
    <3>2. QED
      BY <3>1, PairEmptied
  <2>2. CASE leg' \notin Deleted(leg, j, LegsIn(j, "pending"))
    <3>1. /\ UNCHANGED leg
          /\ local' = [local EXCEPT ![j] = "SUBMITTED"]
          /\ ticket' = [ticket EXCEPT ![j] = LegsIn(j, "pending")]
      BY <1>4, <2>2 DEF RecoverStraddleJob, Become
    <3>2. local'[j] = "SUBMITTED" /\ ticket'[j] = LegsIn(j, "pending")
      BY <3>1 DEF TypeOK
    <3>3. LegsIn(j, "pending")' = LegsIn(j, "pending")
      BY <3>1 DEF LegsIn
    <3>4. ledger' = ledger
      BY <1>4 DEF Recover
    <3>5. QED
      BY <1>0, <3>2, <3>3, <3>4 DEF PairOK
  <2>3. QED
    BY <2>1, <2>2
<1>5. CASE Due(j) \/ Miss(j)
  BY <1>5 DEF Due, Miss
<1>6. CASE Skip(j)
  <2>1. UNCHANGED <<leg, ticket, ledger, local>>
    BY <1>6 DEF Skip
  <2>2. LegsIn(j, "pending")' = LegsIn(j, "pending")
    BY <2>1 DEF LegsIn
  <2>3. QED
    BY <1>0, <2>1, <2>2, PairKept
<1>7. ASSUME Recover(j) PROVE \/ LegsIn(j, "pending") = {} /\ RecoverLedgerJob(j)
                              \/ RecoverStraddleJob(j)
  BY <1>7 DEF Recover
<1>8. QED
  BY <1>1, <1>2, <1>3, <1>4, <1>5, <1>6, <1>7

\* The steps of ProcessJobs keep the invariant of OCO pairs.
LEMMA PairProcess ==
  ASSUME TypeOK, TimeInv, PairInv, ObedientBroker, NEW j \in Job,
         Expire(j) \/ Arm(j) \/ Recover(j) \/ Due(j) \/ Miss(j) \/ Skip(j)
  PROVE  PairInv'
<1>1. \A k \in Job \ {j} : leg'[k] = leg[k]
  <2>1. \/ leg' = leg
        \/ \E ls : leg' \in Deleted(leg, j, ls)
    BY DEF Expire, Arm, Recover, RecoverLedgerJob, RecoverStraddleJob, Due, Miss, Skip, broker
  <2>2. QED
    BY <2>1, DeletedPending
<1>2. \A k \in Job \ {j} : ticket'[k] = ticket[k] /\ local'[k] = local[k]
  <2>1. ticket' = ticket \/ \E t : ticket' = [ticket EXCEPT ![j] = t]
    BY DEF Expire, Arm, Recover, RecoverLedgerJob, RecoverStraddleJob, Due, Miss, Skip
  <2>2. local' = local \/ \E s : Become(j, s)
    BY DEF Expire, Arm, Recover, RecoverLedgerJob, RecoverStraddleJob, Due, Miss, Skip
  <2>3. QED
    BY <2>1, <2>2 DEF Become, TypeOK
<1>3. UNCHANGED ledger
  BY DEF Expire, Arm, Recover, Due, Miss, Skip
<1>4. ASSUME NEW k \in Job, Mode[k] = "STRADDLE" PROVE PairOK(k)'
  <2>1. CASE k = j
    BY <1>4, <2>1, PairVisit
  <2>2. CASE k # j
    <3>1. LegsIn(k, "pending")' = LegsIn(k, "pending")
      BY <1>1, <2>2 DEF LegsIn
    <3>2. QED
      BY <1>2, <1>3, <1>4, <2>2, <3>1, PairKept DEF PairInv
  <2>3. QED
    BY <2>1, <2>2
<1>5. SendsSubmitted'
  <2>1. step.at = "loop"
    BY DEF Expire, Arm, Recover, Due, Miss, Skip, Visits
  <2>2. \/ step' = step
        \/ step' = Execute(j, step.clock, Others(j))
        \/ step' = Resume(Others(j))
    BY DEF Expire, Arm, Recover, Due, Miss, Skip
  <2>3. step'.at # "send"
    BY <2>1, <2>2, ResumeAt DEF Execute
  <2>4. QED
    BY <2>3 DEF SendsSubmitted
<1>6. QED
  BY <1>4, <1>5 DEF PairInv

\* Sending the two legs of a pair.
LEMMA PairSend ==
  ASSUME TypeOK, OnceInv, PairInv, ObedientBroker, NEW o, SendStraddle(o),
         NEW j \in Job, j = step.job, NEW l \in Leg, l = step.leg
  PROVE  PairOK(j)'
<1> DEFINE sent == SentLeg(j, l, o)
<1>0. /\ step.at = "send" /\ Mode[j] = "STRADDLE"
      /\ local[j] = "SUBMITTED" /\ j \in ledger /\ ledger' = ledger
  BY DEF SendStraddle, PairInv, SendsSubmitted, OnceInv, SendsNew
<1>1. LegsIn(j, "pending") \subseteq ticket[j]
  BY <1>0 DEF PairInv, PairOK
<1>2. sent \in [Job -> [Leg -> LegStates]]
  BY <1>0, SentLegType DEF TypeOK
<1>3. \A k \in Leg : sent[j][k] = "pending" => k = l \/ k \in LegsIn(j, "pending")
  BY <1>0 DEF SentLeg, LegsIn, TypeOK
<1>4. CASE o = "placed"
  <2>1. /\ leg' = sent \/ \E ls : leg' \in Deleted(sent, j, ls)
        /\ ticket' = [ticket EXCEPT ![j] = @ \cup {l}]
        /\ local' = local
    BY <1>4 DEF SendStraddle, ObedientBroker, Rejected
  <2>2. \A k \in Leg : leg'[j][k] = "pending" => sent[j][k] = "pending"
    BY <1>0, <1>2, <2>1, DeletedLegs
  <2>3. ticket'[j] = ticket[j] \cup {l}
    BY <1>0, <2>1 DEF TypeOK
  <2>4. LegsIn(j, "pending")' \subseteq ticket'[j]
    BY <1>1, <1>3, <2>2, <2>3 DEF LegsIn
  <2>5. QED
    BY <1>0, <2>1, <2>4 DEF PairOK
<1>5. CASE o # "placed"
  <2>1. leg' \in Deleted(leg, j, ticket[j])
    BY <1>5 DEF SendStraddle, ObedientBroker, Rejected, SentLeg
  <2>2. LegsIn(j, "pending")' = {}
    BY <1>0, <1>1, <2>1, DeletedPending DEF ObedientBroker
  <2>3. QED
    BY <1>0, <2>2, PairEmptied
<1>6. QED
  BY <1>4, <1>5

\* The steps of ExecuteJob keep the invariant of OCO pairs.
LEMMA PairExecute ==
  ASSUME TypeOK, OnceInv, PairInv, ObedientBroker, ExecuteJob
  PROVE  PairInv'
<1>0. step.job \in Job /\ step.at \in {"execute", "send"}
  BY StepShape DEF TypeOK, ExecuteJob, Reject, AppendLedger, SendMarket, SendStraddle, SendMulti
<1>1. \A k \in Job \ {step.job} : leg'[k] = leg[k]
  <2>1. CASE Reject \/ AppendLedger
    BY <2>1 DEF Reject, AppendLedger, broker
  <2>2. ASSUME NEW o, SendMarket(o) \/ SendMulti(o)
        PROVE  \A k \in Job \ {step.job} : leg'[k] = leg[k]
    BY <2>2 DEF SendMarket, SendMulti, SentLeg, TypeOK
  <2>3. ASSUME NEW o, SendStraddle(o)
        PROVE  \A k \in Job \ {step.job} : leg'[k] = leg[k]
    <3>1. SentLeg(step.job, step.leg, o) \in [Job -> [Leg -> LegStates]]
      BY <1>0, <2>3, StepShape, SentLegType DEF SendStraddle, TypeOK
    <3>2. \/ leg' = SentLeg(step.job, step.leg, o)
          \/ \E ls : leg' \in Deleted(SentLeg(step.job, step.leg, o), step.job, ls)
      BY <2>3 DEF SendStraddle
    <3>3. \A k \in Job \ {step.job} : leg'[k] = SentLeg(step.job, step.leg, o)[k]
      BY <1>0, <3>1, <3>2, DeletedLegs
    <3>4. QED
      BY <3>3 DEF SentLeg, TypeOK
  <2>4. QED
    BY <2>1, <2>2, <2>3 DEF ExecuteJob
<1>2. \A k \in Job \ {step.job} : ticket'[k] = ticket[k] /\ local'[k] = local[k]
  <2>1. ticket' = ticket \/ \E t : ticket' = [ticket EXCEPT ![step.job] = t]
    BY DEF ExecuteJob, Reject, AppendLedger, SendMarket, SendStraddle, SendMulti
  <2>2. local' = local \/ \E s : Become(step.job, s)
    BY DEF ExecuteJob, Reject, AppendLedger, SendMarket, SendStraddle, SendMulti
  <2>3. QED
    BY <2>1, <2>2 DEF Become, TypeOK
<1>3. ledger \subseteq ledger'
  BY DEF ExecuteJob, Reject, AppendLedger, SendMarket, SendStraddle, SendMulti
<1>4. ASSUME NEW j \in Job, j = step.job, Mode[j] = "STRADDLE" PROVE PairOK(j)'
  <2>1. CASE Reject \/ AppendLedger
    <3>1. j \notin ledger /\ UNCHANGED leg
      BY <1>4, <2>1 DEF Reject, AppendLedger, broker, OnceInv, ExecutesNew
    <3>2. LegsIn(j, "pending")' = {}
      BY <1>4, <3>1 DEF PairInv, PairOK, LegsIn
    <3>3. QED
      BY <3>2, PairEmptied
  <2>2. ASSUME NEW o, SendMarket(o) \/ SendMulti(o) PROVE FALSE
    BY <1>4, <2>2 DEF SendMarket, SendMulti
  <2>3. ASSUME NEW o, SendStraddle(o) PROVE PairOK(j)'
    <3>1. step.leg \in Leg
      BY <2>3, StepShape DEF SendStraddle, TypeOK
    <3>2. QED
      BY <1>4, <2>3, <3>1, PairSend
  <2>4. QED
    BY <2>1, <2>2, <2>3 DEF ExecuteJob
<1>5. ASSUME NEW k \in Job, Mode[k] = "STRADDLE" PROVE PairOK(k)'
  <2>1. CASE k = step.job
    BY <1>4, <1>5, <2>1
  <2>2. CASE k # step.job
    <3>1. LegsIn(k, "pending")' = LegsIn(k, "pending")
      BY <1>1, <2>2 DEF LegsIn
    <3>2. QED
      BY <1>2, <1>3, <1>5, <2>2, <3>1, PairKept DEF PairInv
  <2>3. QED
    BY <2>1, <2>2
<1>6. SendsSubmitted'
  <2>1. CASE Reject
    BY <2>1, ResumeAt DEF Reject, SendsSubmitted
  <2>2. CASE AppendLedger
    BY <1>0, <2>2 DEF AppendLedger, Become, Send, SendsSubmitted, TypeOK
  <2>3. ASSUME NEW o, SendMarket(o) PROVE SendsSubmitted'
    BY <2>3, ResumeAt DEF SendMarket, SendsSubmitted
  <2>4. ASSUME NEW o, SendStraddle(o) PROVE SendsSubmitted'
    <3>1. \/ step' = Resume(step.todo)
          \/ step' = Onward(2, 1) /\ UNCHANGED local
      BY <2>4 DEF SendStraddle
    <3>2. step.at = "send"
      BY <2>4 DEF SendStraddle
    <3>3. QED
      BY <3>1, <3>2, ResumeAt DEF PairInv, SendsSubmitted, Onward, Send
  <2>5. ASSUME NEW o, SendMulti(o) PROVE SendsSubmitted'
    <3>1. \/ step' = Resume(step.todo)
          \/ UNCHANGED local /\ \E l, a : step' = Onward(l, a)
      BY <2>5 DEF SendMulti
    <3>2. step.at = "send"
      BY <2>5 DEF SendMulti
    <3>3. QED
      BY <3>1, <3>2, ResumeAt DEF PairInv, SendsSubmitted, Onward, Send
  <2>6. QED
    BY <2>1, <2>2, <2>3, <2>4, <2>5 DEF ExecuteJob
<1>7. QED
  BY <1>5, <1>6 DEF PairInv

\* Filling or closing a leg makes no order pending.
LEMMA DealUpdate ==
  ASSUME leg \in [Job -> [Leg -> LegStates]], NEW j \in Job, NEW l \in Leg,
         NEW s \in {"open", "closed"}, NEW legs, legs = [leg EXCEPT ![j][l] = s]
  PROVE  \A k \in Job, i \in Leg : legs[k][i] = "pending" => leg[k][i] = "pending"
  OBVIOUS

\* The steps of OnTradeTransaction keep the invariant of OCO pairs.
LEMMA PairDeals ==
  ASSUME TypeOK, PairInv, OnTradeTransaction
  PROVE  PairInv'
<1>0. UNCHANGED <<step, ticket, ledger>> /\ step = Idle
  BY DEF OnTradeTransaction, DealOut, DealInIgnored, DealIn, DealInStraddle, Handles
<1>1. \A k \in Job : Mode[k] = "STRADDLE" => local'[k] = local[k]
  <2>1. \/ UNCHANGED local
        \/ Mode[Deal.job] = "MARKET" /\ Become(Deal.job, "FINAL")
    BY DEF OnTradeTransaction, DealOut, DealInIgnored, DealIn, DealInStraddle
  <2>2. QED
    BY <2>1 DEF Become, TypeOK
<1>2. \A k \in Job : LegsIn(k, "pending")' \subseteq LegsIn(k, "pending")
  <2>1. CASE UNCHANGED leg
    BY <2>1 DEF LegsIn
  <2>2. CASE DealInStraddle
    <3> DEFINE j == Deal.job
               l == Deal.leg
    <3>1. j \in Job /\ l \in Leg
      <4>1. events # <<>>
        BY <2>2 DEF DealInStraddle, Handles
      <4>2. Head(events) \in Event
        BY <4>1 DEF TypeOK
      <4>3. QED
        BY <4>2 DEF Deal, Event
    <3>2. PICK legs \in {leg} \cup MayClose(j, l), ls \in SUBSET Leg :
            leg' \in Deleted(legs, j, ls)
      <4>1. {Sibling(j, l)} \cap ticket[j] \in SUBSET Leg
        BY <3>1 DEF TypeOK
      <4>2. QED
        BY <2>2, <4>1 DEF DealInStraddle
    <3>3. legs = leg \/ \E s \in {"open", "closed"} : legs = [leg EXCEPT ![j][l] = s]
      BY <3>2 DEF MayClose
    <3>4. legs \in [Job -> [Leg -> LegStates]]
      <4>1. ASSUME NEW s \in {"open", "closed"}
            PROVE  [leg EXCEPT ![j][l] = s] \in [Job -> [Leg -> LegStates]]
        BY <3>1, LegUpdate DEF TypeOK, LegStates
      <4>2. CASE legs = leg
        BY <4>2 DEF TypeOK
      <4>3. CASE legs # leg
        <5>1. PICK s \in {"open", "closed"} : legs = [leg EXCEPT ![j][l] = s]
          BY <3>3, <4>3
        <5>2. [leg EXCEPT ![j][l] = s] \in [Job -> [Leg -> LegStates]]
          BY <4>1
        <5>3. QED
          BY ONLY <5>1, <5>2
      <4>4. QED
        BY <4>2, <4>3
    <3>5. \A k \in Job, i \in Leg : legs[k][i] = "pending" => leg[k][i] = "pending"
      <4>1. CASE legs = leg
        BY <4>1
      <4>2. CASE legs # leg
        <5>1. PICK s \in {"open", "closed"} : legs = [leg EXCEPT ![j][l] = s]
          BY <3>3, <4>2
        <5>2. QED
          BY <3>1, <5>1, DealUpdate DEF TypeOK
      <4>3. QED
        BY <4>1, <4>2
    <3>6. \A k \in Job, i \in Leg : leg'[k][i] = "pending" => legs[k][i] = "pending"
      <4>1. /\ \A k \in Job \ {j} : leg'[k] = legs[k]
            /\ \A i \in Leg : leg'[j][i] \in {legs[j][i], "removed"}
        BY <3>1, <3>2, <3>4, DeletedLegs
      <4>2. QED
        BY <4>1
    <3>7. QED
      BY <3>5, <3>6 DEF LegsIn
  <2>3. QED
    BY <2>1, <2>2 DEF OnTradeTransaction, DealOut, DealInIgnored, DealIn
<1>3. ASSUME NEW k \in Job, Mode[k] = "STRADDLE" PROVE PairOK(k)'
  BY <1>0, <1>1, <1>2, <1>3, PairKept DEF PairInv
<1>4. QED
  BY <1>0, <1>3 DEF PairInv, SendsSubmitted, Idle

\* With a broker that removes what it is told to the invariant of pairs always holds.
LEMMA PairInvariant == ASSUME ObedientBroker PROVE Spec => []PairInv
<1>1. Init => PairInv
  BY DEF Init, PairInv, PairOK, SendsSubmitted, Boot, LegsIn
<1>2. TypeOK /\ OnceInv /\ TimeInv /\ PairInv /\ [Next]_vars => PairInv'
  <2> SUFFICES ASSUME TypeOK, OnceInv, TimeInv, PairInv, [Next]_vars PROVE PairInv'
    OBVIOUS
  <2>1. ASSUME UNCHANGED <<ledger, leg>>, step' = step \/ step'.at # "send",
               \/ UNCHANGED <<local, ticket>>
               \/ step'.at # "send" /\ \A j \in Job : local'[j] = "NONE"
        PROVE  PairInv'
    <3>1. \A j \in Job : LegsIn(j, "pending")' = LegsIn(j, "pending")
      BY <2>1 DEF LegsIn
    <3>2. \A j \in Job : Mode[j] = "STRADDLE" => PairOK(j)'
      BY <2>1, <3>1, PairKept DEF PairInv
    <3>3. QED
      BY <2>1, <3>2 DEF PairInv, SendsSubmitted
  <2>2. CASE Start \/ Crash \/ OnTimer
    BY <2>1, <2>2 DEF Start, Crash, OnTimer, Boot, Off, Timer, broker
  <2>3. ASSUME NEW new \in SUBSET Job, NEW withdrawn \in SUBSET Job, PollJobs(new, withdrawn)
        PROVE  PairInv'
    <3>1. UNCHANGED <<ledger, leg, ticket>> /\ step'.at # "send"
      BY <2>3 DEF PollJobs, Idle, Loop, broker
    <3>2. ASSUME NEW j \in Job, Mode[j] = "STRADDLE" PROVE PairOK(j)'
      <4>1. LegsIn(j, "pending")' = LegsIn(j, "pending")
        BY <3>1 DEF LegsIn
      <4>2. PairOK(j)
        BY <3>2 DEF PairInv
      <4>3. CASE j \in withdrawn
        <5>1. j \notin ledger
          BY <2>3, <3>2, <4>3 DEF PollJobs, TimeInv, CancelledIsNew
        <5>2. QED
          BY <4>1, <4>2, <5>1, PairEmptied DEF PairOK
      <4>4. CASE j \notin withdrawn
        <5>1. local'[j] = local[j] \/ local'[j] = "SYNCED"
          BY <2>3, <4>4 DEF PollJobs
        <5>2. QED
          BY <3>1, <4>1, <4>2, <5>1, PairKept
      <4>5. QED
        BY <4>3, <4>4
    <3>3. QED
      BY <3>1, <3>2 DEF PairInv, SendsSubmitted
  <2>4. CASE ProcessJobs
    BY <2>4, PairProcess DEF ProcessJobs
  <2>5. CASE ExecuteJob
    BY <2>5, PairExecute
  <2>6. CASE OnTradeTransaction
    BY <2>6, PairDeals
  <2>7. ASSUME NEW j \in Job, Cancel(j) PROVE PairInv'
    BY <2>1, <2>7 DEF Cancel, agent, broker
  <2>8. ASSUME NEW j \in Job, NEW l \in Leg, Fill(j, l) \/ Close(j, l) PROVE PairInv'
    <3>1. UNCHANGED <<step, local, ticket, ledger>>
      BY <2>8 DEF Fill, Close
    <3>2. leg' = [leg EXCEPT ![j][l] = "open"] \/ leg' = [leg EXCEPT ![j][l] = "closed"]
      BY <2>8 DEF Fill, Close
    <3>3. \A k \in Job : LegsIn(k, "pending")' \subseteq LegsIn(k, "pending")
      <4>1. PICK s \in {"open", "closed"} : leg' = [leg EXCEPT ![j][l] = s]
        BY <3>2
      <4>2. QED
        BY <4>1, DealUpdate DEF LegsIn, TypeOK
    <3>4. \A k \in Job : Mode[k] = "STRADDLE" => PairOK(k)'
      BY <3>1, <3>3, PairKept DEF PairInv
    <3>5. QED
      BY <3>1, <3>4 DEF PairInv, SendsSubmitted
  <2>9. CASE Tick \/ UNCHANGED vars
    BY <2>1, <2>9 DEF Tick, vars, agent, broker
  <2>10. QED
    BY <2>2, <2>3, <2>4, <2>5, <2>6, <2>7, <2>8, <2>9 DEF Next, Poll
<1>3. TruthfulBroker /\ ~LedgerFaults
  BY DEF ObedientBroker, TruthfulBroker
<1>4. QED
  BY <1>1, <1>2, <1>3, TypeCorrect, OnceInvariant, TimeInvariant, PTL DEF Spec

\* If the broker does what it is told and says so, the EA never finishes with an
\* OCO pair while a side of it can still fill: not by expiry, by a rejected
\* second leg, by a withdrawal or by the recovery after any stop of the terminal.
THEOREM FinishedPairsHaveNoOrders ==
  ASSUME ObedientBroker PROVE Spec => []FinalLeavesNoOrder
<1>1. PairInv => FinalLeavesNoOrder
  BY DEF PairInv, PairOK, FinalLeavesNoOrder
<1>2. QED
  BY <1>1, PairInvariant, PTL

-----------------------------------------------------------------------------
(***************************************************************************)
(* What is reported did happen: a deal in the queue is one the account     *)
(* shows, and a leg the account shows was accepted, so its job is in the   *)
(* ledger.                                                                 *)
(***************************************************************************)
Happened(e) ==
  IF e.entry = "in" THEN leg[e.job][e.leg] \in {"open", "closed"}
                    ELSE leg[e.job][e.leg] = "closed"

Waiting == {events[i] : i \in DOMAIN events}

EventsTrue == \A e \in Waiting : Happened(e)

Sent == \A j \in Job, l \in Leg : leg[j][l] # "none" => accepted[j][l] # 0

DealInv == EventsTrue /\ Sent

\* In a step no position disappears, and none that is closed opens again.
Forward ==
  \A j \in Job, l \in Leg :
    /\ leg[j][l] \in {"open", "closed"} => leg'[j][l] \in {"open", "closed"}
    /\ leg[j][l] = "closed" => leg'[j][l] = "closed"

\* What happened stays so.
LEMMA HappenedKept ==
  ASSUME Forward, NEW e \in Event, Happened(e)
  PROVE  Happened(e)'
  BY DEF Forward, Happened, Event

\* The queue loses its head, or all there is in it.
LEMMA EventsTaken ==
  ASSUME TypeOK, EventsTrue, Forward,
         \/ events' = events \/ events' = <<>>
         \/ (events # <<>> /\ events' = Tail(events))
  PROVE  EventsTrue'
<1>0. events \in Seq(Event) /\ Waiting \subseteq Event
  BY DEF TypeOK, Waiting
<1>1. Waiting' \subseteq Waiting
  <2>1. CASE events' = events \/ events' = <<>>
    BY <2>1 DEF Waiting
  <2>2. CASE events # <<>> /\ events' = Tail(events)
    <3>1. /\ Tail(events) \in Seq(Event) /\ Len(Tail(events)) = Len(events) - 1
          /\ \A i \in 1 .. Len(Tail(events)) : Tail(events)[i] = events[i + 1]
          /\ Len(events) \in Nat
      BY <1>0, <2>2, HeadTailProperties
    <3>2. ASSUME NEW i \in DOMAIN Tail(events) PROVE Tail(events)[i] \in Waiting
      <4>1. i \in 1 .. Len(Tail(events)) /\ i + 1 \in 1 .. Len(events)
        BY <3>1, <3>2
      <4>2. i + 1 \in DOMAIN events /\ Tail(events)[i] = events[i + 1]
        BY <1>0, <3>1, <4>1
      <4>3. QED
        BY <4>2 DEF Waiting
    <3>3. QED
      BY <2>2, <3>2 DEF Waiting
  <2>3. QED
    BY <2>1, <2>2
<1>2. \A e \in Waiting : Happened(e)'
  BY <1>0, HappenedKept DEF EventsTrue
<1>3. QED
  BY <1>1, <1>2 DEF EventsTrue

\* A deal that did happen joins the queue.
LEMMA EventsJoined ==
  ASSUME NEW queue \in Seq(Event), \A i \in DOMAIN queue : Happened(queue[i])',
         NEW e \in Event, Happened(e)', events' = Append(queue, e)
  PROVE  EventsTrue'
<1>1. ASSUME NEW i \in DOMAIN Append(queue, e) PROVE Happened(Append(queue, e)[i])'
  <2>1. i \in 1 .. Len(queue) + 1 /\ Len(queue) \in Nat
    BY <1>1, AppendProperties
  <2>2. CASE i \in 1 .. Len(queue)
    <3>1. i \in DOMAIN queue /\ Append(queue, e)[i] = queue[i]
      BY <2>2, AppendProperties
    <3>2. QED
      BY <3>1
  <2>3. CASE i = Len(queue) + 1
    <3>1. Append(queue, e)[i] = e
      BY <2>3, AppendProperties
    <3>2. QED
      BY <3>1
  <2>4. QED
    BY <2>1, <2>2, <2>3
<1>2. QED
  BY <1>1 DEF EventsTrue, Waiting

\* The deals that wait, seen as what happened by the next state.
LEMMA WaitingKept ==
  ASSUME TypeOK, EventsTrue, Forward
  PROVE  /\ \A e \in Waiting : Happened(e)'
         /\ \A queue : queue = events => \A i \in DOMAIN queue : Happened(queue[i])'
<1>0. Waiting \subseteq Event
  BY DEF TypeOK, Waiting
<1>1. \A e \in Waiting : Happened(e)'
  BY <1>0, HappenedKept DEF EventsTrue
<1>2. ASSUME NEW queue, queue = events, NEW i \in DOMAIN queue PROVE Happened(queue[i])'
  <2>1. queue[i] \in Waiting
    BY <1>2 DEF Waiting
  <2>2. QED
    BY <1>1, <2>1
<1>3. QED
  BY <1>1, <1>2

\* The deals that wait after another is queued.
LEMMA EventsQueued ==
  ASSUME TypeOK, EventsTrue, Forward, NEW e \in Event, Happened(e)', events' = Queued(e)
  PROVE  EventsTrue'
<1>1. CASE step = Off
  BY <1>1, EventsTaken DEF Queued
<1>2. CASE step # Off
  <2>1. PICK queue \in Seq(Event) : queue = events
    BY DEF TypeOK
  <2>2. \A i \in DOMAIN queue : Happened(queue[i])'
    BY <2>1, WaitingKept
  <2>3. events' = Append(queue, e)
    BY <1>2, <2>1 DEF Queued
  <2>4. QED
    BY <2>2, <2>3, EventsJoined
<1>3. QED
  BY <1>1, <1>2

\* What deleting orders does to each leg: nothing to a position.
LEMMA DeletedOnly ==
  ASSUME NEW legs \in [Job -> [Leg -> LegStates]], NEW j \in Job, NEW ls,
         NEW after \in Deleted(legs, j, ls)
  PROVE  \A k \in Job, l \in Leg :
           after[k][l] = legs[k][l] \/ (legs[k][l] = "pending" /\ after[k][l] = "removed")
<1> DEFINE pending    == {l \in ls : legs[j][l] = "pending"}
           One(kept) == [l \in Leg |-> IF l \in pending \ kept THEN "removed" ELSE legs[j][l]]
<1>1. PICK kept \in Remaining(pending) : after = [legs EXCEPT ![j] = One(kept)]
  BY DEF Deleted
<1>2. after[j] = One(kept) /\ \A k \in Job \ {j} : after[k] = legs[k]
  BY <1>1
<1>3. \A l \in Leg : One(kept)[l] = IF l \in pending \ kept THEN "removed" ELSE legs[j][l]
  OBVIOUS
<1>4. ASSUME NEW l \in Leg
      PROVE  after[j][l] = legs[j][l] \/ (legs[j][l] = "pending" /\ after[j][l] = "removed")
  BY <1>2, <1>3
<1>5. QED
  BY <1>2, <1>4

\* A step that only deletes orders, if it does anything at the broker.
OnlyDeletes ==
  \A j \in Job, l \in Leg :
    leg'[j][l] = leg[j][l] \/ (leg[j][l] = "pending" /\ leg'[j][l] = "removed")

LEMMA DeletesForward ==
  ASSUME TypeOK, DealInv, OnlyDeletes, accepted' = accepted,
         \/ events' = events \/ events' = <<>>
         \/ (events # <<>> /\ events' = Tail(events))
  PROVE  DealInv'
<1>1. Forward
  BY DEF OnlyDeletes, Forward
<1>2. Sent'
  BY DEF OnlyDeletes, Sent, DealInv
<1>3. QED
  BY <1>1, <1>2, EventsTaken DEF DealInv

\* Sending an order fills or queues one for a leg that had none.
LEMMA DealSend ==
  ASSUME TypeOK, OnceInv, DealInv, step.at = "send", NEW l \in Leg, l >= step.leg,
         accepted' = accepted \/ accepted' = [accepted EXCEPT ![step.job][l] = @ + 1],
         \A j \in Job, k \in Leg :
           \/ leg'[j][k] = leg[j][k]
           \/ leg[j][k] = "pending" /\ leg'[j][k] = "removed"
           \/ j = step.job /\ k = l /\ accepted' # accepted,
         \/ events' = events
         \/ \E e \in Event : e.entry = "in" /\ events' = Queued(e) /\ leg'[e.job][e.leg] = "open"
  PROVE  DealInv'
<1>0. step.job \in Job /\ accepted \in [Job -> [Leg -> Nat]]
  BY StepShape DEF TypeOK
<1>1. accepted[step.job][l] = 0
  BY DEF OnceInv, SendsNew
<1>2. leg[step.job][l] = "none"
  BY <1>0, <1>1 DEF DealInv, Sent
<1>3. Forward
  <2>1. ASSUME NEW j \in Job, NEW k \in Leg, leg[j][k] \in {"open", "closed"}
        PROVE  leg'[j][k] = leg[j][k]
    BY <1>2, <2>1
  <2>2. QED
    BY <2>1 DEF Forward
<1>4. \A j \in Job, k \in Leg : accepted[j][k] # 0 => accepted'[j][k] # 0
  <2>1. CASE accepted' = accepted
    BY <2>1
  <2>2. CASE accepted' = [accepted EXCEPT ![step.job][l] = @ + 1]
    BY <1>0, <2>2
  <2>3. QED
    BY <2>1, <2>2
<1>5. accepted' # accepted => accepted'[step.job][l] # 0
  BY <1>0, <1>1
<1>6. Sent'
  <2> SUFFICES ASSUME NEW j \in Job, NEW k \in Leg, leg'[j][k] # "none"
               PROVE  accepted'[j][k] # 0
    BY DEF Sent
  <2>1. CASE leg[j][k] # "none"
    BY <1>4, <2>1 DEF DealInv, Sent
  <2>2. CASE leg[j][k] = "none"
    BY <1>5, <2>2
  <2>3. QED
    BY <2>1, <2>2
<1>7. EventsTrue'
  <2>1. CASE events' = events
    BY <1>3, <2>1, EventsTaken DEF DealInv
  <2>2. CASE events' # events
    <3>1. PICK e \in Event : e.entry = "in" /\ events' = Queued(e) /\ leg'[e.job][e.leg] = "open"
      BY <2>2
    <3>2. Happened(e)'
      BY <3>1 DEF Happened
    <3>3. QED
      BY <1>3, <3>1, <3>2, EventsQueued DEF DealInv
  <2>3. QED
    BY <2>1, <2>2
<1>8. QED
  BY <1>6, <1>7 DEF DealInv

\* The steps of ProcessJobs queue no deal and delete orders at most.
LEMMA DealProcess ==
  ASSUME TypeOK, DealInv, NEW j \in Job,
         Expire(j) \/ Arm(j) \/ Recover(j) \/ Due(j) \/ Miss(j) \/ Skip(j)
  PROVE  DealInv'
<1>1. UNCHANGED <<events, accepted>>
  BY DEF Expire, Arm, Recover, Due, Miss, Skip, broker
<1>2. leg' = leg \/ \E ls : leg' \in Deleted(leg, j, ls)
  BY DEF Expire, Arm, Recover, RecoverLedgerJob, RecoverStraddleJob, Due, Miss, Skip, broker
<1>3. OnlyDeletes
  <2>1. leg \in [Job -> [Leg -> LegStates]]
    BY DEF TypeOK
  <2>2. CASE leg' = leg
    BY <2>2 DEF OnlyDeletes
  <2>3. CASE \E ls : leg' \in Deleted(leg, j, ls)
    <3>1. PICK ls : leg' \in Deleted(leg, j, ls)
      BY <2>3
    <3>2. QED
      BY <2>1, <3>1, DeletedOnly DEF OnlyDeletes
  <2>4. QED
    BY <1>2, <2>2, <2>3
<1>4. QED
  BY <1>1, <1>3, DeletesForward

\* The steps of ExecuteJob.
LEMMA DealExecute ==
  ASSUME TypeOK, OnceInv, DealInv, ExecuteJob
  PROVE  DealInv'
<1>0. /\ step.job \in Job
      /\ step.at = "send" => step.leg \in Leg /\ step.leg >= step.leg
  <2>1. step.job \in Job /\ (step.at = "send" => step.leg \in Leg)
    BY StepShape DEF TypeOK, ExecuteJob, Reject, AppendLedger, SendMarket, SendStraddle, SendMulti
  <2>2. step.leg \in Leg => step.leg >= step.leg
    BY DEF Leg
  <2>3. QED
    BY <2>1, <2>2
<1>1. CASE Reject \/ AppendLedger
  BY <1>1, DeletesForward DEF Reject, AppendLedger, broker, OnlyDeletes
<1>2. ASSUME NEW o, SendMarket(o) PROVE DealInv'
  <2>1. /\ step.at = "send" /\ step.leg = 1
        /\ accepted' = IF o = "rejected" THEN accepted ELSE [accepted EXCEPT ![step.job][1] = @ + 1]
    BY <1>2 DEF SendMarket, Counted, OnceInv, SendsNew
  <2>2. o # "rejected" => accepted' # accepted
    <3>1. accepted[step.job][1] \in Nat
      BY <1>0, FirstLegs DEF TypeOK
    <3>2. o # "rejected" => accepted'[step.job][1] = accepted[step.job][1] + 1
      BY <1>0, <2>1, FirstLegs DEF TypeOK
    <3>3. QED
      BY <3>1, <3>2
  <2>3. leg' = [leg EXCEPT ![step.job][1] = CASE o = "rejected" -> @
                                              [] o = "placed"   -> "pending"
                                              [] OTHER          -> "open"]
    BY <1>2 DEF SendMarket
  <2>4. \A j \in Job, k \in Leg : leg'[j][k] = leg[j][k] \/ (j = step.job /\ k = 1 /\ o # "rejected")
    BY <1>0, <2>3, FirstLegs DEF TypeOK
  <2>5. \/ events' = events
        \/ \E e \in Event : e.entry = "in" /\ events' = Queued(e) /\ leg'[e.job][e.leg] = "open"
    <3>1. CASE o \in {"rejected", "placed"}
      BY <1>2, <3>1 DEF SendMarket
    <3>2. CASE o \notin {"rejected", "placed"}
      <4> DEFINE e == [job |-> step.job, leg |-> 1, entry |-> "in"]
      <4>1. e \in Event /\ e.entry = "in" /\ e.job = step.job /\ e.leg = 1
        BY <1>0, FirstLegs DEF Event
      <4>2. events' = Queued(e)
        BY <1>2, <3>2 DEF SendMarket
      <4>3. leg'[step.job][1] = "open"
        BY <1>0, <2>3, <3>2, FirstLegs DEF TypeOK
      <4>4. QED
        BY <4>1, <4>2, <4>3
    <3>3. QED
      BY <3>1, <3>2
  <2>6. accepted' = accepted \/ accepted' = [accepted EXCEPT ![step.job][1] = @ + 1]
    BY <2>1
  <2>7. 1 >= step.leg
    BY <2>1
  <2>8. \A j \in Job, k \in Leg :
           \/ leg'[j][k] = leg[j][k]
           \/ leg[j][k] = "pending" /\ leg'[j][k] = "removed"
           \/ j = step.job /\ k = 1 /\ accepted' # accepted
    BY <2>2, <2>4
  <2>9. QED
    BY <2>1, <2>5, <2>6, <2>7, <2>8, FirstLegs, DealSend
<1>3. ASSUME NEW o, SendStraddle(o) \/ SendMulti(o) PROVE DealInv'
  <2> DEFINE sent == SentLeg(step.job, step.leg, o)
  <2>1. /\ step.at = "send" /\ events' = events
        /\ accepted' = IF o = "rejected" THEN accepted
                       ELSE [accepted EXCEPT ![step.job][step.leg] = @ + 1]
    BY <1>3 DEF SendStraddle, SendMulti, Counted
  <2>2. o # "rejected" => accepted' # accepted
    <3>1. accepted[step.job][step.leg] \in Nat
      BY <1>0, <2>1 DEF TypeOK
    <3>2. o # "rejected" => accepted'[step.job][step.leg] = accepted[step.job][step.leg] + 1
      BY <1>0, <2>1 DEF TypeOK
    <3>3. QED
      BY <3>1, <3>2
  <2>3. sent \in [Job -> [Leg -> LegStates]]
    BY <1>0, <2>1, SentLegType DEF TypeOK
  <2>4. \A j \in Job, k \in Leg : sent[j][k] = leg[j][k] \/ (j = step.job /\ k = step.leg /\ o # "rejected")
    BY <1>0, <2>1 DEF TypeOK, SentLeg
  <2>5. leg' = sent \/ \E ls : leg' \in Deleted(sent, step.job, ls)
    BY <1>3 DEF SendStraddle, SendMulti
  <2>6. \A j \in Job, k \in Leg :
          leg'[j][k] = sent[j][k] \/ (sent[j][k] = "pending" /\ leg'[j][k] = "removed")
    BY <1>0, <2>3, <2>5, DeletedOnly
  <2>7. \A j \in Job, k \in Leg :
           \/ leg'[j][k] = leg[j][k]
           \/ leg[j][k] = "pending" /\ leg'[j][k] = "removed"
           \/ j = step.job /\ k = step.leg /\ accepted' # accepted
    BY <2>2, <2>4, <2>6
  <2>8. QED
    BY <1>0, <2>1, <2>7, DealSend
<1>4. QED
  BY <1>1, <1>2, <1>3 DEF ExecuteJob

\* The deal at hand, when there is one.
LEMMA DealAtHand ==
  ASSUME TypeOK, EventsTrue, Handles
  PROVE  /\ events # <<>> /\ Deal \in Event /\ Deal.job \in Job /\ Deal.leg \in Leg
         /\ Tail(events) \in Seq(Event) /\ Happened(Deal) /\ step = Idle
<1>1. events # <<>> /\ events \in Seq(Event) /\ step = Idle
  BY DEF Handles, TypeOK
<1>2. Head(events) \in Event /\ Tail(events) \in Seq(Event)
  BY <1>1, HeadTailProperties
<1>3. 1 \in DOMAIN events /\ Head(events) = events[1]
  BY <1>1
<1>4. QED
  BY <1>1, <1>2, <1>3 DEF Deal, Event, EventsTrue, Waiting

\* What a second fill does at the broker before the sibling is deleted.
LEMMA ClosingFacts ==
  ASSUME TypeOK, NEW j \in Job, NEW l \in Leg, leg[j][l] = "open", NEW legs \in MayClose(j, l)
  PROVE  /\ legs \in [Job -> [Leg -> LegStates]]
         /\ legs = leg \/ legs[j][l] = "closed"
         /\ \A k \in Job, i \in Leg : legs[k][i] = leg[k][i] \/ (k = j /\ i = l)
<1>1. PICK s \in {"open", "closed"} : legs = [leg EXCEPT ![j][l] = s]
  BY DEF MayClose
<1>2. s \in LegStates
  BY DEF LegStates
<1>3. legs \in [Job -> [Leg -> LegStates]]
  BY <1>1, <1>2, LegUpdate DEF TypeOK
<1>4. legs[j][l] = s /\ \A k \in Job, i \in Leg : legs[k][i] = leg[k][i] \/ (k = j /\ i = l)
  BY <1>1 DEF TypeOK
<1>5. CASE s = "open"
  <2>1. \A k \in Job, i \in Leg : legs[k][i] = leg[k][i]
    BY <1>4, <1>5
  <2>2. \A k \in Job : legs[k] = leg[k]
    BY <1>3, <2>1 DEF TypeOK
  <2>3. legs = leg
    BY <1>3, <2>2 DEF TypeOK
  <2>4. QED
    BY <1>3, <1>4, <2>3
<1>6. QED
  BY <1>3, <1>4, <1>5

\* The steps of OnTradeTransaction.
LEMMA DealDeals ==
  ASSUME TypeOK, DealInv, OnTradeTransaction
  PROVE  DealInv'
<1>0. Handles /\ accepted' = accepted
  BY DEF OnTradeTransaction, DealOut, DealInIgnored, DealIn, DealInStraddle, Handles
<1>1. /\ events # <<>> /\ Deal \in Event /\ Deal.job \in Job /\ Deal.leg \in Leg
      /\ Tail(events) \in Seq(Event) /\ Happened(Deal)
  BY <1>0, DealAtHand DEF DealInv
<1>2. CASE DealOut \/ DealInIgnored \/ DealIn
  BY <1>0, <1>1, <1>2, DeletesForward DEF DealOut, DealInIgnored, DealIn, OnlyDeletes
<1>3. CASE DealInStraddle
  <2>1. PICK j \in Job, l \in Leg : j = Deal.job /\ l = Deal.leg
    BY <1>1
  <2>2. PICK legs \in IF j \in hasFill /\ leg[j][l] = "open" THEN MayClose(j, l) ELSE {leg},
             ls \in SUBSET Leg :
          /\ leg' \in Deleted(legs, j, ls)
          /\ events' = IF legs = leg THEN Tail(events)
                       ELSE Append(Tail(events), [job |-> j, leg |-> l, entry |-> "out"])
    <3>1. {Sibling(j, l)} \cap ticket[j] \in SUBSET Leg
      BY DEF TypeOK
    <3>2. QED
      BY <1>3, <2>1, <3>1 DEF DealInStraddle
  <2>3. /\ legs \in [Job -> [Leg -> LegStates]]
        /\ legs = leg \/ (leg[j][l] = "open" /\ legs[j][l] = "closed")
        /\ \A k \in Job, i \in Leg : legs[k][i] = leg[k][i] \/ (k = j /\ i = l)
    <3>1. CASE legs = leg
      BY <3>1 DEF TypeOK
    <3>2. CASE legs # leg
      <4>1. leg[j][l] = "open" /\ legs \in MayClose(j, l)
        BY <2>2, <3>2
      <4>2. QED
        BY <3>2, <4>1, ClosingFacts
    <3>3. QED
      BY <3>1, <3>2
  <2>4. \A k \in Job, i \in Leg :
          leg'[k][i] = legs[k][i] \/ (legs[k][i] = "pending" /\ leg'[k][i] = "removed")
    BY <2>2, <2>3, DeletedOnly
  <2>5. CASE legs = leg
    <3>1. OnlyDeletes /\ events' = Tail(events)
      BY <2>2, <2>4, <2>5 DEF OnlyDeletes
    <3>2. QED
      BY <1>0, <1>1, <3>1, DeletesForward
  <2>6. CASE legs # leg
    <3>1. leg[j][l] = "open" /\ legs[j][l] = "closed"
      BY <2>3, <2>6
    <3>2. Forward
      BY <2>3, <2>4, <3>1 DEF Forward
    <3>3. Sent'
      <4>1. \A k \in Job, i \in Leg : leg'[k][i] # "none" => leg[k][i] # "none"
        BY <2>3, <2>4, <3>1
      <4>2. QED
        BY <1>0, <4>1 DEF DealInv, Sent
    <3>4. EventsTrue'
      <4>1. PICK queue \in Seq(Event) : queue = Tail(events)
        BY <1>1
      <4>2. \A i \in DOMAIN queue : Happened(queue[i])'
        <5>1. events \in Seq(Event)
          BY DEF TypeOK
        <5>2. /\ Len(Tail(events)) = Len(events) - 1 /\ Len(events) \in Nat
              /\ \A i \in 1 .. Len(Tail(events)) : Tail(events)[i] = events[i + 1]
          BY <1>1, <5>1, HeadTailProperties
        <5>3. ASSUME NEW i \in DOMAIN queue PROVE queue[i] \in Waiting
          <6>1. i \in 1 .. Len(Tail(events)) /\ i + 1 \in 1 .. Len(events)
            BY <4>1, <5>2, <5>3
          <6>2. i + 1 \in DOMAIN events /\ queue[i] = events[i + 1]
            BY <4>1, <5>1, <5>2, <6>1
          <6>3. QED
            BY <6>2 DEF Waiting
        <5>4. QED
          BY <3>2, <5>3, WaitingKept DEF DealInv
      <4>3. PICK e \in Event : e = [job |-> j, leg |-> l, entry |-> "out"]
        BY DEF Event
      <4>4. e.entry = "out" /\ e.job = j /\ e.leg = l
        BY <4>3
      <4>5. leg'[j][l] = "closed"
        BY <2>4, <3>1
      <4>6. Happened(e)'
        BY <4>4, <4>5 DEF Happened
      <4>7. events' = Append(queue, e)
        BY <2>2, <2>6, <4>1, <4>3
      <4>8. QED
        BY <4>2, <4>6, <4>7, EventsJoined
    <3>5. QED
      BY <3>3, <3>4 DEF DealInv
  <2>7. QED
    BY <2>5, <2>6
<1>4. QED
  BY <1>2, <1>3 DEF OnTradeTransaction

\* An order fills, or a position is closed.
LEMMA DealMarket ==
  ASSUME TypeOK, DealInv, NEW j \in Job, NEW l \in Leg, Fill(j, l) \/ Close(j, l)
  PROVE  DealInv'
<1>1. PICK s \in {"open", "closed"}, e \in Event :
        /\ leg' = [leg EXCEPT ![j][l] = s] /\ events' = Queued(e)
        /\ e.job = j /\ e.leg = l /\ e.entry = (IF s = "open" THEN "in" ELSE "out")
        /\ leg[j][l] = (IF s = "open" THEN "pending" ELSE "open")
  <2>1. \A entry \in {"in", "out"} : [job |-> j, leg |-> l, entry |-> entry] \in Event
    BY DEF Event
  <2>2. CASE Fill(j, l)
    <3>1. /\ leg' = [leg EXCEPT ![j][l] = "open"] /\ leg[j][l] = "pending"
          /\ events' = Queued([job |-> j, leg |-> l, entry |-> "in"])
      BY <2>2 DEF Fill
    <3>2. QED
      BY <2>1, <3>1
  <2>3. CASE Close(j, l)
    <3>1. /\ leg' = [leg EXCEPT ![j][l] = "closed"] /\ leg[j][l] = "open"
          /\ events' = Queued([job |-> j, leg |-> l, entry |-> "out"])
      BY <2>3 DEF Close
    <3>2. QED
      BY <2>1, <3>1
  <2>4. QED
    BY <2>2, <2>3
<1>2. leg'[j][l] = s /\ \A k \in Job, i \in Leg : leg'[k][i] = leg[k][i] \/ (k = j /\ i = l)
  BY <1>1 DEF TypeOK
<1>3. Forward
  BY <1>1, <1>2 DEF Forward
<1>4. accepted' = accepted
  BY DEF Fill, Close
<1>5. Sent'
  BY <1>1, <1>2, <1>4 DEF DealInv, Sent
<1>6. Happened(e)'
  BY <1>1, <1>2 DEF Happened
<1>7. QED
  BY <1>1, <1>3, <1>5, <1>6, EventsQueued DEF DealInv

\* The queue of deals and the account agree in every reachable state.
LEMMA DealInvariant == ASSUME TruthfulBroker PROVE Spec => []DealInv
<1>1. Init => DealInv
  <2>1. Init => Waiting = {}
    BY DEF Init, Waiting
  <2>2. QED
    BY <2>1 DEF Init, DealInv, EventsTrue, Sent
<1>2. TypeOK /\ OnceInv /\ DealInv /\ [Next]_vars => DealInv'
  <2> SUFFICES ASSUME TypeOK, OnceInv, DealInv, [Next]_vars PROVE DealInv'
    OBVIOUS
  <2>1. ASSUME UNCHANGED broker, events' = events \/ events' = <<>> PROVE DealInv'
    BY <2>1, DeletesForward DEF broker, OnlyDeletes
  <2>2. CASE Start \/ Crash \/ OnTimer \/ Poll \/ Tick \/ UNCHANGED vars
    BY <2>1, <2>2 DEF Start, Crash, OnTimer, Poll, PollJobs, Tick, vars, agent
  <2>3. CASE ProcessJobs
    BY <2>3, DealProcess DEF ProcessJobs
  <2>4. CASE ExecuteJob
    BY <2>4, DealExecute
  <2>5. CASE OnTradeTransaction
    BY <2>5, DealDeals
  <2>6. ASSUME NEW j \in Job, Cancel(j) PROVE DealInv'
    BY <2>1, <2>6 DEF Cancel, agent
  <2>7. ASSUME NEW j \in Job, NEW l \in Leg, Fill(j, l) \/ Close(j, l) PROVE DealInv'
    BY <2>7, DealMarket
  <2>8. QED
    BY <2>2, <2>3, <2>4, <2>5, <2>6, <2>7 DEF Next
<1>3. QED
  BY <1>1, <1>2, TypeCorrect, OnceInvariant, PTL DEF Spec

\* A leg the account shows belongs to a job of the ledger.
LEMMA ShownInLedger ==
  ASSUME OnceInv, DealInv, NEW j \in Job, NEW l \in Leg, leg[j][l] # "none"
  PROVE  j \in ledger
  BY DEF OnceInv, WriteAhead, DealInv, Sent

\* A report and the state it is sent in.
TrueReport(r) ==
  /\ r.phase = "FILLED" => LegsIn(r.job, "open") \cup LegsIn(r.job, "closed") # {}
  /\ r.phase = "CLOSED" => LegsIn(r.job, "closed") # {}
  /\ r.phase \in {"SUBMITTED", "FILLED", "CLOSED"} => r.job \in ledger

\* Who a letter is about, and what it says.
LEMMA LetterFields ==
  \A j, phase, why :
    /\ Letter(j, phase).job = j /\ Letter(j, phase).phase = phase
    /\ LetterWhy(j, phase, why).job = j /\ LetterWhy(j, phase, why).phase = phase
  BY DEF Letter, LetterWhy

\* Reports that claim nothing are true.
LEMMA TrueQuiet ==
  ASSUME \A r \in mail' : r.phase \notin {"SUBMITTED", "FILLED", "CLOSED"}
  PROVE  \A r \in mail' : TrueReport(r)'
  BY DEF TrueReport

\* The reports of ProcessJobs.
LEMMA TrueProcess ==
  ASSUME TypeOK, OnceInv, DealInv, NEW j \in Job,
         Expire(j) \/ Arm(j) \/ Recover(j) \/ Due(j) \/ Miss(j) \/ Skip(j)
  PROVE  \A r \in mail' : TrueReport(r)'
<1>1. CASE Expire(j) \/ Arm(j) \/ Due(j) \/ Miss(j) \/ Skip(j)
  <2>1. \/ mail' = {} \/ mail' = {LetterWhy(j, "CANCELLED", "expired")}
        \/ mail' = {Letter(j, "ARMED")} \/ mail' = {Letter(j, "MISSED")}
    BY <1>1 DEF Expire, Arm, Due, Miss, Skip
  <2>2. QED
    BY <2>1, LetterFields, TrueQuiet
<1>2. CASE Recover(j)
  <2>1. j \in ledger /\ ledger' = ledger
    BY <1>2 DEF Recover, LedgerAnswers
  <2>2. CASE RecoverLedgerJob(j)
    <3>1. LegsIn(j, "open")' = LegsIn(j, "open") /\ LegsIn(j, "closed")' = LegsIn(j, "closed")
      BY <2>2 DEF RecoverLedgerJob, LegsIn
    <3>2. mail' = {LetterWhy(j, phase, "recovered") : phase \in Found(j)}
      BY <2>2 DEF RecoverLedgerJob
    <3>3. \/ Found(j) = {"CLOSED"} /\ LegsIn(j, "closed") # {}
          \/ Found(j) = {"SUBMITTED", "FILLED"} /\ LegsIn(j, "open") # {}
          \/ Found(j) = {"MISSED"}
      BY DEF Found
    <3>4. ASSUME NEW phase \in Found(j), NEW r, r = LetterWhy(j, phase, "recovered")
          PROVE  TrueReport(r)'
      <4>1. r.phase = phase /\ r.job = j
        BY <3>4 DEF LetterWhy
      <4>2. QED
        BY <2>1, <3>1, <3>3, <3>4, <4>1 DEF TrueReport
    <3>5. QED
      BY <3>2, <3>4
  <2>3. CASE RecoverStraddleJob(j)
    <3>1. \/ /\ LegsIn(j, "open") # {} /\ leg' \in Deleted(leg, j, LegsIn(j, "pending"))
             /\ mail' = {LetterWhy(j, "FILLED", "recovered")}
          \/ \E phase \in {"SUBMITTED", "CANCELLED"} : mail' = {LetterWhy(j, phase, "recovered")}
      BY <2>3 DEF RecoverStraddleJob
    <3>2. CASE \E phase \in {"SUBMITTED", "CANCELLED"} : mail' = {LetterWhy(j, phase, "recovered")}
      BY <2>1, <3>2 DEF TrueReport, LetterWhy
    <3>3. CASE /\ LegsIn(j, "open") # {} /\ leg' \in Deleted(leg, j, LegsIn(j, "pending"))
               /\ mail' = {LetterWhy(j, "FILLED", "recovered")}
      <4>1. PICK l \in Leg : leg[j][l] = "open"
        BY <3>3 DEF LegsIn
      <4>2. leg \in [Job -> [Leg -> LegStates]]
        BY DEF TypeOK
      <4>3. leg'[j][l] = "open"
        BY <3>3, <4>1, <4>2, DeletedOnly
      <4>4. LegsIn(j, "open")' # {}
        BY <4>3 DEF LegsIn
      <4>5. QED
        BY <2>1, <3>3, <4>4 DEF TrueReport, LetterWhy
    <3>4. QED
      BY <3>1, <3>2, <3>3
  <2>4. QED
    BY <1>2, <2>2, <2>3 DEF Recover
<1>3. QED
  BY <1>1, <1>2

\* The reports of ExecuteJob.
LEMMA TrueExecute ==
  ASSUME TypeOK, OnceInv, ExecuteJob
  PROVE  \A r \in mail' : TrueReport(r)'
<1>1. CASE Reject \/ AppendLedger
  <2>1. mail' = {} \/ mail' = {Letter(step.job, "PREFLIGHT_REJECTED")}
    BY <1>1 DEF Reject, AppendLedger
  <2>2. QED
    BY <2>1, LetterFields, TrueQuiet
<1>2. ASSUME NEW o, SendMarket(o) PROVE \A r \in mail' : TrueReport(r)'
  <2>1. step.job \in ledger /\ ledger' = ledger /\ step.job \in Job
    BY <1>2, StepShape DEF SendMarket, OnceInv, SendsNew, TypeOK
  <2>2. o \in {"done", "partial", "placed"} \cup Rejected
    BY <1>2 DEF SendMarket
  <2>3. mail' = {Letter(step.job, phase) : phase \in MarketPhases(o)}
    BY <1>2 DEF SendMarket
  <2>4. "FILLED" \in MarketPhases(o) => o = "done"
    BY <2>2 DEF MarketPhases
  <2>5. "CLOSED" \notin MarketPhases(o)
    BY DEF MarketPhases
  <2>7. ASSUME NEW phase \in MarketPhases(o), NEW r, r = Letter(step.job, phase)
        PROVE  TrueReport(r)'
    <3>1. PICK j : j = step.job
      OBVIOUS
    <3>2. r.phase = phase /\ r.job = j
      BY <2>7, <3>1, LetterFields
    <3>3. phase = "FILLED" => LegsIn(j, "open")' # {}
      <4>1. phase = "FILLED" => \E l \in Leg : leg'[step.job][l] = "open"
        <5>1. o = "done" => leg' = [leg EXCEPT ![step.job][1] = "open"]
          BY <1>2 DEF SendMarket
        <5>2. o = "done" => leg'[step.job][1] = "open"
          BY <2>1, <5>1, FirstLegs DEF TypeOK
        <5>3. QED
          BY <2>4, <2>7, <5>2, FirstLegs
      <4>2. QED
        BY <3>1, <4>1 DEF LegsIn
    <3>4. j \in ledger' /\ phase # "CLOSED"
      BY <2>1, <2>5, <2>7, <3>1
    <3>5. QED
      BY <3>2, <3>3, <3>4 DEF TrueReport
  <2>8. QED
    BY <2>3, <2>7
<1>3. ASSUME NEW o, SendStraddle(o) \/ SendMulti(o) PROVE \A r \in mail' : TrueReport(r)'
  <2>1. step.job \in ledger /\ ledger' = ledger
    BY <1>3 DEF SendStraddle, SendMulti, OnceInv, SendsNew
  <2>2. \A r \in mail' : r.job = step.job /\ r.phase \in {"SUBMITTED", "REJECTED"}
    <3>1. \/ mail' = {} \/ mail' = {Letter(step.job, "SUBMITTED")}
          \/ mail' = {Letter(step.job, "REJECTED")}
      BY <1>3 DEF SendStraddle, SendMulti
    <3>2. QED
      BY <3>1, LetterFields
  <2>3. ASSUME NEW r \in mail' PROVE TrueReport(r)'
    <3>1. r.phase \in {"SUBMITTED", "REJECTED"} /\ r.job \in ledger'
      BY <2>1, <2>2
    <3>2. QED
      BY <3>1 DEF TrueReport
  <2>4. QED
    BY <2>3
<1>4. QED
  BY <1>1, <1>2, <1>3 DEF ExecuteJob

\* The reports of OnTradeTransaction.
LEMMA TrueDeals ==
  ASSUME TypeOK, OnceInv, DealInv, OnTradeTransaction
  PROVE  \A r \in mail' : TrueReport(r)'
<1>0. Handles /\ ledger' = ledger
  BY DEF OnTradeTransaction, DealOut, DealInIgnored, DealIn, DealInStraddle, Handles
<1>1. /\ Deal \in Event /\ Deal.job \in Job /\ Deal.leg \in Leg /\ Happened(Deal)
  BY <1>0, DealAtHand DEF DealInv
<1>2. PICK j \in Job, l \in Leg : j = Deal.job /\ l = Deal.leg
  BY <1>1
<1>3. /\ leg[j][l] \in {"open", "closed"}
      /\ Deal.entry = "out" => leg[j][l] = "closed"
  BY <1>1, <1>2 DEF Happened, Event
<1>4. j \in ledger'
  BY <1>0, <1>3, ShownInLedger
<1>5. /\ leg'[j][l] \in {"open", "closed"}
      /\ leg[j][l] = "closed" => leg'[j][l] = "closed"
  <2>1. CASE DealOut \/ DealInIgnored \/ DealIn
    BY <1>3, <2>1 DEF DealOut, DealInIgnored, DealIn
  <2>2. CASE DealInStraddle
    <3>1. PICK legs \in IF j \in hasFill /\ leg[j][l] = "open" THEN MayClose(j, l) ELSE {leg} :
            \E ls : leg' \in Deleted(legs, j, ls)
      BY <1>2, <2>2 DEF DealInStraddle
    <3>2. /\ legs \in [Job -> [Leg -> LegStates]]
          /\ legs = leg \/ (leg[j][l] = "open" /\ legs[j][l] = "closed")
      <4>1. CASE legs = leg
        BY <4>1 DEF TypeOK
      <4>2. CASE legs # leg
        <5>1. leg[j][l] = "open" /\ legs \in MayClose(j, l)
          BY <3>1, <4>2
        <5>2. QED
          BY <4>2, <5>1, ClosingFacts
      <4>3. QED
        BY <4>1, <4>2
    <3>3. leg'[j][l] = legs[j][l] \/ (legs[j][l] = "pending" /\ leg'[j][l] = "removed")
      BY <3>1, <3>2, DeletedOnly
    <3>4. QED
      BY <1>3, <3>2, <3>3
  <2>3. QED
    BY <2>1, <2>2 DEF OnTradeTransaction
<1>6. \A r \in mail' :
        \/ r = Letter(j, "FILLED")
        \/ r = Letter(j, "CLOSED") /\ Deal.entry = "out"
  BY <1>2 DEF OnTradeTransaction, DealOut, DealInIgnored, DealIn, DealInStraddle
<1>7. LegsIn(j, "open")' \cup LegsIn(j, "closed")' # {}
  BY <1>5 DEF LegsIn
<1>8. Deal.entry = "out" => LegsIn(j, "closed")' # {}
  BY <1>3, <1>5 DEF LegsIn
<1>9. ASSUME NEW r \in mail' PROVE TrueReport(r)'
  <2>1. r.job = j /\ (r.phase = "FILLED" \/ (r.phase = "CLOSED" /\ LegsIn(j, "closed")' # {}))
    BY <1>6, <1>8, LetterFields
  <2>2. QED
    BY <1>4, <1>7, <2>1 DEF TrueReport
<1>10. QED
  BY <1>9

\* With a readable ledger, and truthful answers where a leg is retried, every
\* fill and every close the EA reports did happen, at once or found by the
\* recovery after any stop, and what it reports as submitted is in the ledger.
THEOREM NothingFalseReported == ASSUME TruthfulBroker PROVE Spec => []ReportsAreTrue
<1>0. ReportsAreTrue <=> \A r \in mail : TrueReport(r)
  BY DEF ReportsAreTrue, TrueReport
<1>1. Init => ReportsAreTrue
  BY DEF Init, ReportsAreTrue
<1>2. TypeOK /\ OnceInv /\ DealInv /\ ReportsAreTrue /\ [Next]_vars => ReportsAreTrue'
  <2> SUFFICES ASSUME TypeOK, OnceInv, DealInv, ReportsAreTrue, [Next]_vars PROVE ReportsAreTrue'
    OBVIOUS
  <2>0. (\A r \in mail' : TrueReport(r)') => ReportsAreTrue'
    BY DEF ReportsAreTrue, TrueReport
  <2>1. ASSUME mail' = {} PROVE ReportsAreTrue'
    BY <2>0, <2>1
  <2>2. CASE Start \/ Crash \/ OnTimer \/ Tick
    BY <2>1, <2>2 DEF Start, Crash, OnTimer, Tick
  <2>3. CASE Poll
    <3>1. \A r \in mail' : \E j \in Job : r = LetterWhy(j, "CANCELLED", "withdrawn")
      BY <2>3 DEF Poll, PollJobs
    <3>2. QED
      BY <2>0, <3>1, LetterFields, TrueQuiet
  <2>4. CASE ProcessJobs
    BY <2>0, <2>4, TrueProcess DEF ProcessJobs
  <2>5. CASE ExecuteJob
    BY <2>0, <2>5, TrueExecute
  <2>6. CASE OnTradeTransaction
    BY <2>0, <2>6, TrueDeals
  <2>7. CASE \E j \in Job : Cancel(j)
    BY <2>1, <2>7 DEF Cancel
  <2>8. CASE \E j \in Job, l \in Leg : Fill(j, l) \/ Close(j, l)
    BY <2>1, <2>8 DEF Fill, Close
  <2>9. CASE UNCHANGED vars
    BY <2>9 DEF vars, broker, ReportsAreTrue, LegsIn
  <2>10. QED
    BY <2>2, <2>3, <2>4, <2>5, <2>6, <2>7, <2>8, <2>9 DEF Next
<1>3. QED
  BY <1>1, <1>2, TypeCorrect, OnceInvariant, DealInvariant, PTL DEF Spec

-----------------------------------------------------------------------------
(***************************************************************************)
(* The sibling of a filled side goes.  The deal of a fill names the leg    *)
(* that filled, and the EA deletes the other one by its ticket; so while a *)
(* pair at work has a pending order, the EA must know the tickets of all   *)
(* the orders the pair has had, the filled one included.                   *)
(***************************************************************************)
SideOK(j) ==
  /\ \A l \in Leg \ {1, 2} : leg[j][l] = "none"
  /\ j \in hasFill => local[j] \in {"SUBMITTED", "FINAL"} /\ LegsIn(j, "pending") = {}
  /\ local[j] = "SUBMITTED" /\ LegsIn(j, "pending") # {}
       => \A l \in Leg : leg[j][l] # "none" => l \in ticket[j]

SideSteps ==
  /\ step.at = "execute" => local[step.job] = "ARMED"
  /\ step.at = "send" =>
       /\ step.job \notin hasFill
       /\ Mode[step.job] = "STRADDLE" => \/ step.leg = 1
                                         \/ step.leg = 2 /\ 1 \in ticket[step.job]

SideInv ==
  /\ SideSteps
  /\ \A j \in hasFill : Mode[j] = "STRADDLE"
  /\ \A j \in Job : Mode[j] = "STRADDLE" => SideOK(j)

\* A job that gets no order, learns no fill and does not become submitted.
LEMMA SideKept ==
  ASSUME TypeOK, NEW j \in Job, SideOK(j),
         \A l \in Leg : leg'[j][l] = leg[j][l] \/ (leg[j][l] # "none" /\ leg'[j][l] # "pending"
                                                     /\ l \in {1, 2}),
         ticket'[j] = ticket[j] \/ local'[j] # "SUBMITTED",
         j \in hasFill' => j \in hasFill,
         \/ local'[j] = local[j]
         \/ local'[j] = "FINAL"
         \/ local'[j] # "SUBMITTED" /\ local[j] \notin {"SUBMITTED", "FINAL"}
         \/ local'[j] # "SUBMITTED" /\ j \notin hasFill'
  PROVE  SideOK(j)'
<1>1. LegsIn(j, "pending")' \subseteq LegsIn(j, "pending")
  BY DEF LegsIn
<1>2. \A l \in Leg \ {1, 2} : leg'[j][l] = "none"
  BY DEF SideOK
<1>3. j \in hasFill' => local'[j] \in {"SUBMITTED", "FINAL"} /\ LegsIn(j, "pending")' = {}
  BY <1>1 DEF SideOK
<1>4. ASSUME local'[j] = "SUBMITTED", LegsIn(j, "pending")' # {}, NEW l \in Leg, leg'[j][l] # "none"
      PROVE  l \in ticket'[j]
  <2>1. local[j] = "SUBMITTED" /\ ticket'[j] = ticket[j]
    BY <1>4
  <2>2. LegsIn(j, "pending") # {}
    BY <1>1, <1>4
  <2>3. leg[j][l] # "none"
    BY <1>4
  <2>4. QED
    BY <2>1, <2>2, <2>3 DEF SideOK
<1>5. QED
  BY <1>2, <1>3, <1>4 DEF SideOK

\* Deleting orders, as SideKept wants it.
LEMMA DeletesSides ==
  ASSUME NEW j \in Job, SideOK(j), OnlyDeletes
  PROVE  \A l \in Leg : leg'[j][l] = leg[j][l] \/ (leg[j][l] # "none" /\ leg'[j][l] # "pending"
                                                     /\ l \in {1, 2})
  BY DEF SideOK, OnlyDeletes

\* Two pending orders of a pair are all the orders it has.
LEMMA BothPending ==
  ASSUME NEW j \in Job, SideOK(j), Cardinality(LegsIn(j, "pending")) = 2
  PROVE  \A l \in Leg : leg[j][l] # "none" => l \in LegsIn(j, "pending")
<1> DEFINE P == LegsIn(j, "pending")
<1>1. P \subseteq {1, 2}
  BY DEF SideOK, LegsIn
<1>2. /\ Cardinality({}) = 0
      /\ \A x \in {1, 2} : Cardinality({x}) = 1
  BY FS_EmptySet, FS_Singleton
<1>3. P # {} /\ P # {1} /\ P # {2}
  BY <1>2
<1>4. 1 \in P /\ 2 \in P
  BY <1>1, <1>3
<1>5. QED
  BY <1>4 DEF SideOK

\* The steps of ProcessJobs do no more at the broker than to delete orders.
LEMMA ProcessDeletes ==
  ASSUME TypeOK, NEW j \in Job,
         Expire(j) \/ Arm(j) \/ Recover(j) \/ Due(j) \/ Miss(j) \/ Skip(j)
  PROVE  OnlyDeletes
<1>1. leg \in [Job -> [Leg -> LegStates]]
  BY DEF TypeOK
<1>2. leg' = leg \/ \E ls : leg' \in Deleted(leg, j, ls)
  BY DEF Expire, Arm, Recover, RecoverLedgerJob, RecoverStraddleJob, Due, Miss, Skip, broker
<1>3. CASE leg' = leg
  BY <1>3 DEF OnlyDeletes
<1>4. CASE \E ls : leg' \in Deleted(leg, j, ls)
  <2>1. PICK ls : leg' \in Deleted(leg, j, ls)
    BY <1>4
  <2>2. QED
    BY <1>1, <2>1, DeletedOnly DEF OnlyDeletes
<1>5. QED
  BY <1>2, <1>3, <1>4

\* What a visit of ProcessJobs does to the pair it visits.
LEMMA SideVisit ==
  ASSUME TypeOK, SideInv, ObedientBroker, NEW j \in Job, Mode[j] = "STRADDLE",
         Expire(j) \/ Arm(j) \/ Recover(j) \/ Due(j) \/ Miss(j) \/ Skip(j)
  PROVE  SideOK(j)'
<1>0. SideOK(j)
  BY DEF SideInv
<1>1. OnlyDeletes
  BY ProcessDeletes
<1>2. \A l \in Leg : leg'[j][l] = leg[j][l] \/ (leg[j][l] # "none" /\ leg'[j][l] # "pending"
                                                 /\ l \in {1, 2})
  BY <1>0, <1>1, DeletesSides
<1>3. CASE Expire(j)
  <2>1. ticket' = ticket /\ hasFill' = hasFill /\ local'[j] = "FINAL"
    BY <1>3 DEF Expire, Become, TypeOK
  <2>2. QED
    BY <1>0, <1>2, <2>1, SideKept
<1>4. CASE Arm(j)
  <2>1. ticket' = ticket /\ hasFill' = hasFill /\ local'[j] = "ARMED" /\ local[j] = "SYNCED"
    BY <1>4 DEF Arm, Become, TypeOK
  <2>2. QED
    BY <1>0, <1>2, <2>1, SideKept
<1>5. CASE Skip(j)
  <2>1. ticket' = ticket /\ hasFill' = hasFill /\ local' = local
    BY <1>5 DEF Skip
  <2>2. QED
    BY <1>0, <1>2, <2>1, SideKept
<1>6. CASE Recover(j)
  <2>1. local[j] = "SYNCED" /\ j \notin hasFill
    BY <1>0, <1>6 DEF Recover, SideOK
  <2>2. CASE RecoverLedgerJob(j)
    <3>1. ticket' = ticket /\ hasFill' = hasFill /\ local'[j] = "FINAL"
      BY <2>2 DEF RecoverLedgerJob, Become, TypeOK
    <3>2. QED
      BY <1>0, <1>2, <3>1, SideKept
  <2>3. CASE RecoverStraddleJob(j)
    <3>1. CASE leg' \in Deleted(leg, j, LegsIn(j, "pending"))
      <4>1. LegsIn(j, "pending")' = {}
        BY <3>1, DeletedPending DEF ObedientBroker
      <4>2. \A l \in Leg \ {1, 2} : leg'[j][l] = "none"
        BY <1>0, <1>2 DEF SideOK
      <4>3. local'[j] \in {"SUBMITTED", "FINAL"}
        BY <2>3 DEF RecoverStraddleJob, Become, TypeOK
      <4>4. QED
        BY <4>1, <4>2, <4>3 DEF SideOK
    <3>2. CASE leg' \notin Deleted(leg, j, LegsIn(j, "pending"))
      <4>1. /\ leg' = leg /\ hasFill' = hasFill /\ Cardinality(LegsIn(j, "pending")) = 2
            /\ ticket' = [ticket EXCEPT ![j] = LegsIn(j, "pending")]
        BY <2>3, <3>2 DEF RecoverStraddleJob
      <4>2. ticket'[j] = LegsIn(j, "pending")
        BY <4>1 DEF TypeOK
      <4>3. \A l \in Leg : leg'[j][l] # "none" => l \in ticket'[j]
        BY <1>0, <4>1, <4>2, BothPending
      <4>4. \A l \in Leg \ {1, 2} : leg'[j][l] = "none"
        BY <1>0, <4>1 DEF SideOK
      <4>5. j \notin hasFill'
        BY <2>1, <4>1
      <4>6. QED
        BY <4>3, <4>4, <4>5 DEF SideOK
    <3>3. QED
      BY <3>1, <3>2
  <2>4. QED
    BY <1>6, <2>2, <2>3 DEF Recover
<1>7. CASE Due(j) \/ Miss(j)
  BY <1>7 DEF Due, Miss
<1>8. QED
  BY <1>3, <1>4, <1>5, <1>6, <1>7

\* The steps of ProcessJobs.
LEMMA SideProcess ==
  ASSUME TypeOK, SideInv, ObedientBroker, NEW j \in Job,
         Expire(j) \/ Arm(j) \/ Recover(j) \/ Due(j) \/ Miss(j) \/ Skip(j)
  PROVE  SideInv'
<1>1. \A k \in Job \ {j} : ticket'[k] = ticket[k] /\ local'[k] = local[k]
  <2>1. ticket' = ticket \/ \E t : ticket' = [ticket EXCEPT ![j] = t]
    BY DEF Expire, Arm, Recover, RecoverLedgerJob, RecoverStraddleJob, Due, Miss, Skip
  <2>2. local' = local \/ \E s : Become(j, s)
    BY DEF Expire, Arm, Recover, RecoverLedgerJob, RecoverStraddleJob, Due, Miss, Skip
  <2>3. QED
    BY <2>1, <2>2 DEF Become, TypeOK
<1>2. hasFill' = hasFill \/ (Mode[j] = "STRADDLE" /\ hasFill' = hasFill \cup {j})
  BY DEF Expire, Arm, Recover, RecoverLedgerJob, RecoverStraddleJob, Due, Miss, Skip
<1>3. ASSUME NEW k \in Job, Mode[k] = "STRADDLE" PROVE SideOK(k)'
  <2>1. CASE k = j
    BY <1>3, <2>1, SideVisit
  <2>2. CASE k # j
    <3>1. SideOK(k) /\ OnlyDeletes
      BY <1>3, ProcessDeletes DEF SideInv
    <3>2. \A l \in Leg : leg'[k][l] = leg[k][l] \/ (leg[k][l] # "none" /\ leg'[k][l] # "pending"
                                                     /\ l \in {1, 2})
      BY <3>1, DeletesSides
    <3>3. ticket'[k] = ticket[k] /\ local'[k] = local[k] /\ (k \in hasFill' => k \in hasFill)
      BY <1>1, <1>2, <2>2
    <3>4. QED
      BY <3>1, <3>2, <3>3, SideKept
  <2>3. QED
    BY <2>1, <2>2
<1>4. SideSteps'
  <2>1. step.at = "loop"
    BY DEF Expire, Arm, Recover, Due, Miss, Skip, Visits
  <2>2. CASE Arm(j)
    <3>1. local'[j] = "ARMED" /\ (step' = step \/ step' = Execute(j, step.clock, Others(j)))
      BY <2>2 DEF Arm, Become, TypeOK
    <3>2. QED
      BY <2>1, <3>1 DEF Execute, SideSteps
  <2>3. CASE Due(j)
    <3>1. local'[j] = "ARMED" /\ step' = Execute(j, step.clock, Others(j))
      BY <2>3 DEF Due
    <3>2. QED
      BY <3>1 DEF Execute, SideSteps
  <2>4. CASE Expire(j) \/ Recover(j) \/ Miss(j) \/ Skip(j)
    <3>1. step' = Resume(Others(j))
      BY <2>4 DEF Expire, Recover, Miss, Skip
    <3>2. step'.at \in {"idle", "loop"}
      BY <3>1, ResumeAt
    <3>3. QED
      BY <3>2 DEF SideSteps
  <2>5. QED
    BY <2>2, <2>3, <2>4
<1>5. \A k \in hasFill' : Mode[k] = "STRADDLE"
  BY <1>2 DEF SideInv
<1>6. QED
  BY <1>3, <1>4, <1>5 DEF SideInv

\* The leg a pair is about to send has no order yet.
LEMMA LegIsFree ==
  ASSUME TypeOK, OnceInv, DealInv, step.at = "send", NEW l \in Leg, l >= step.leg
  PROVE  leg[step.job][l] = "none"
<1>1. step.job \in Job
  BY StepShape DEF TypeOK
<1>2. accepted[step.job][l] = 0
  BY DEF OnceInv, SendsNew
<1>3. QED
  BY <1>1, <1>2 DEF DealInv, Sent

\* Sending the two legs of a pair.
LEMMA SideSend ==
  ASSUME TypeOK, OnceInv, DealInv, SideInv, ObedientBroker, NEW o, SendStraddle(o),
         NEW j \in Job, j = step.job
  PROVE  SideOK(j)'
<1>0. /\ step.at = "send" /\ Mode[j] = "STRADDLE" /\ hasFill' = hasFill /\ j \notin hasFill
      /\ SideOK(j) /\ leg \in [Job -> [Leg -> LegStates]] /\ ticket \in [Job -> SUBSET Leg]
  BY DEF SendStraddle, SideInv, SideSteps, TypeOK
<1>1. CASE o = "placed" /\ step.leg = 1
  <2>1. leg' = [leg EXCEPT ![j][1] = "pending"] /\ ticket' = [ticket EXCEPT ![j] = @ \cup {1}]
    BY <1>1 DEF SendStraddle, SentLeg, ObedientBroker, Rejected
  <2>2. leg'[j][1] = "pending" /\ \A l \in Leg \ {1} : leg'[j][l] = leg[j][l]
    BY <1>0, <2>1, FirstLegs
  <2>3. leg[j][2] = "none"
    BY <1>0, <1>1, FirstLegs, LegIsFree
  <2>4. \A l \in Leg \ {1} : leg'[j][l] = "none"
    BY <1>0, <2>2, <2>3 DEF SideOK
  <2>5. 1 \in ticket'[j]
    BY <1>0, <2>1
  <2>6. \A l \in Leg : leg'[j][l] # "none" => l \in ticket'[j]
    BY <2>4, <2>5
  <2>7. \A l \in Leg \ {1, 2} : leg'[j][l] = "none"
    BY <2>4
  <2>8. QED
    BY <1>0, <2>6, <2>7 DEF SideOK
<1>2. CASE o = "placed" /\ step.leg = 2
  <2>1. /\ leg' \in Deleted([leg EXCEPT ![j][2] = "pending"], j, {})
        /\ ticket' = [ticket EXCEPT ![j] = @ \cup {2}]
    BY <1>0, <1>2 DEF SendStraddle, SentLeg, ObedientBroker, Rejected
  <2>2. "pending" \in LegStates
    BY DEF LegStates
  <2>3. [leg EXCEPT ![j][2] = "pending"] \in [Job -> [Leg -> LegStates]]
    BY <1>0, <2>2, FirstLegs, LegUpdate
  <2>4. PICK sent \in [Job -> [Leg -> LegStates]] : sent = [leg EXCEPT ![j][2] = "pending"]
    BY <2>3
  <2>5. \A l \in Leg \ {2} : sent[j][l] = leg[j][l]
    BY <1>0, <2>4, FirstLegs
  <2>6. leg' \in Deleted(sent, j, {})
    BY <2>1, <2>4
  <2>7. \A l \in Leg : leg'[j][l] = sent[j][l] \/ (sent[j][l] = "pending" /\ leg'[j][l] = "removed")
    BY <2>6, DeletedOnly
  <2>8. \A l \in Leg \ {1, 2} : leg'[j][l] = "none"
    BY <1>0, <2>5, <2>7 DEF SideOK
  <2>9. 1 \in ticket[j]
    BY <1>0, <1>2 DEF SideInv, SideSteps
  <2>10. 1 \in ticket'[j] /\ 2 \in ticket'[j]
    BY <1>0, <2>1, <2>9
  <2>11. QED
    BY <1>0, <2>8, <2>10 DEF SideOK
<1>3. CASE o # "placed"
  <2>1. /\ leg' \in Deleted(leg, j, ticket[j]) /\ ticket' = ticket
        /\ local' = [local EXCEPT ![j] = "FINAL"]
    BY <1>3 DEF SendStraddle, ObedientBroker, Rejected, SentLeg, Become
  <2>2. OnlyDeletes
    BY <1>0, <2>1, DeletedOnly DEF OnlyDeletes
  <2>3. local'[j] = "FINAL"
    BY <2>1 DEF TypeOK
  <2>4. QED
    BY <1>0, <2>1, <2>2, <2>3, DeletesSides, SideKept
<1>4. step.leg \in {1, 2}
  BY <1>0 DEF SideInv, SideSteps
<1>5. QED
  BY <1>1, <1>2, <1>3, <1>4

\* The steps of ExecuteJob.
LEMMA SideExecute ==
  ASSUME TypeOK, OnceInv, PairInv, DealInv, SideInv, ObedientBroker, ExecuteJob
  PROVE  SideInv'
<1>0. step.job \in Job /\ step.at \in {"execute", "send"}
  BY StepShape DEF TypeOK, ExecuteJob, Reject, AppendLedger, SendMarket, SendStraddle, SendMulti
<1>1. hasFill' = hasFill
  BY DEF ExecuteJob, Reject, AppendLedger, SendMarket, SendStraddle, SendMulti
<1>2. \A k \in Job \ {step.job} : ticket'[k] = ticket[k] /\ local'[k] = local[k]
  <2>1. ticket' = ticket \/ \E t : ticket' = [ticket EXCEPT ![step.job] = t]
    BY DEF ExecuteJob, Reject, AppendLedger, SendMarket, SendStraddle, SendMulti
  <2>2. local' = local \/ \E s : Become(step.job, s)
    BY DEF ExecuteJob, Reject, AppendLedger, SendMarket, SendStraddle, SendMulti
  <2>3. QED
    BY <2>1, <2>2 DEF Become, TypeOK
<1>3. \A k \in Job \ {step.job} : leg'[k] = leg[k]
  <2>1. CASE Reject \/ AppendLedger
    BY <2>1 DEF Reject, AppendLedger, broker
  <2>2. ASSUME NEW o, SendMarket(o) \/ SendMulti(o)
        PROVE  \A k \in Job \ {step.job} : leg'[k] = leg[k]
    BY <2>2 DEF SendMarket, SendMulti, SentLeg, TypeOK
  <2>3. ASSUME NEW o, SendStraddle(o)
        PROVE  \A k \in Job \ {step.job} : leg'[k] = leg[k]
    <3>1. SentLeg(step.job, step.leg, o) \in [Job -> [Leg -> LegStates]]
      BY <1>0, <2>3, StepShape, SentLegType DEF SendStraddle, TypeOK
    <3>2. \/ leg' = SentLeg(step.job, step.leg, o)
          \/ \E ls : leg' \in Deleted(SentLeg(step.job, step.leg, o), step.job, ls)
      BY <2>3 DEF SendStraddle
    <3>3. \A k \in Job \ {step.job} : leg'[k] = SentLeg(step.job, step.leg, o)[k]
      BY <1>0, <3>1, <3>2, DeletedLegs
    <3>4. QED
      BY <3>3 DEF SentLeg, TypeOK
  <2>4. QED
    BY <2>1, <2>2, <2>3 DEF ExecuteJob
<1>4. ASSUME NEW k \in Job, Mode[k] = "STRADDLE", k # step.job PROVE SideOK(k)'
  <2>1. SideOK(k) /\ leg'[k] = leg[k] /\ ticket'[k] = ticket[k] /\ local'[k] = local[k]
    BY <1>2, <1>3, <1>4 DEF SideInv
  <2>2. QED
    BY <1>1, <2>1, SideKept
<1>5. CASE Reject
  <2>1. /\ leg' = leg /\ ticket' = ticket /\ local' = [local EXCEPT ![step.job] = "FINAL"]
        /\ step' = Resume(step.todo)
    BY <1>5 DEF Reject, broker, Become
  <2>2. PICK j \in Job : j = step.job
    BY <1>0
  <2>3. local'[j] = "FINAL"
    BY <2>1, <2>2 DEF TypeOK
  <2>4. Mode[j] = "STRADDLE" => SideOK(j)'
    BY <1>1, <2>1, <2>3, SideKept DEF SideInv
  <2>5. SideSteps'
    <3>1. step'.at \in {"idle", "loop"}
      BY <2>1, ResumeAt
    <3>2. QED
      BY <3>1 DEF SideSteps
  <2>6. QED
    BY <1>1, <1>4, <2>2, <2>4, <2>5 DEF SideInv
<1>6. CASE AppendLedger
  <2>1. PICK j \in Job : j = step.job
    BY <1>0
  <2>2. /\ leg' = leg /\ ticket' = ticket /\ local' = [local EXCEPT ![j] = "SUBMITTED"]
        /\ step' = Send(j, 1, 1, step.clock, step.todo)
        /\ local[j] = "ARMED" /\ j \notin ledger
    BY <1>6, <2>1 DEF AppendLedger, broker, Become, SideInv, SideSteps, FirstLeg,
                      OnceInv, ExecutesNew
  <2>3. ASSUME Mode[j] = "STRADDLE" PROVE j \notin hasFill /\ SideOK(j)'
    <3>1. SideOK(j) /\ j \notin hasFill
      BY <2>2, <2>3 DEF SideInv, SideOK
    <3>2. LegsIn(j, "pending") = {}
      BY <2>2, <2>3 DEF PairInv, PairOK
    <3>3. LegsIn(j, "pending")' = {}
      BY <2>2, <3>2 DEF LegsIn
    <3>4. \A l \in Leg \ {1, 2} : leg'[j][l] = "none"
      BY <2>2, <3>1 DEF SideOK
    <3>5. QED
      BY <1>1, <3>1, <3>3, <3>4 DEF SideOK
  <2>4. j \notin hasFill
    BY <2>3 DEF SideInv
  <2>5. SideSteps'
    BY <1>1, <2>2, <2>4 DEF SideSteps, Send
  <2>6. QED
    BY <1>1, <1>4, <2>1, <2>3, <2>5 DEF SideInv
<1>7. ASSUME NEW o, SendMarket(o) \/ SendMulti(o) PROVE SideInv'
  <2>1. Mode[step.job] # "STRADDLE"
    BY <1>7 DEF SendMarket, SendMulti
  <2>2. SideSteps'
    <3>1. step.at = "send" /\ (step' = Resume(step.todo) \/ \E l, a : step' = Onward(l, a))
      BY <1>7 DEF SendMarket, SendMulti
    <3>2. step'.at \in {"idle", "loop"} \/ (step'.at = "send" /\ step'.job = step.job)
      BY <3>1, ResumeAt DEF Onward, Send
    <3>3. QED
      BY <1>1, <2>1, <3>1, <3>2 DEF SideInv, SideSteps
  <2>3. QED
    BY <1>1, <1>4, <2>1, <2>2 DEF SideInv
<1>8. ASSUME NEW o, SendStraddle(o) PROVE SideInv'
  <2>1. PICK j \in Job : j = step.job
    BY <1>0
  <2>2. SideOK(j)'
    BY <1>8, <2>1, SideSend
  <2>3. SideSteps'
    <3>1. step.at = "send" /\ step.job \notin hasFill
      BY <1>8 DEF SendStraddle, SideInv, SideSteps
    <3>2. \/ step' = Resume(step.todo)
          \/ step' = Onward(2, 1) /\ ticket' = [ticket EXCEPT ![j] = @ \cup {1}]
      BY <1>8, <2>1 DEF SendStraddle
    <3>3. CASE step' = Resume(step.todo)
      <4>1. step'.at \in {"idle", "loop"}
        BY <3>3, ResumeAt
      <4>2. QED
        BY <4>1 DEF SideSteps
    <3>4. CASE step' = Onward(2, 1) /\ ticket' = [ticket EXCEPT ![j] = @ \cup {1}]
      <4>1. 1 \in ticket'[j]
        BY <3>4 DEF TypeOK
      <4>2. step'.at = "send" /\ step'.job = j /\ step'.leg = 2
        BY <2>1, <3>4 DEF Onward, Send
      <4>3. QED
        BY <1>1, <2>1, <3>1, <4>1, <4>2 DEF SideSteps
    <3>5. QED
      BY <3>2, <3>3, <3>4
  <2>4. QED
    BY <1>1, <1>4, <2>1, <2>2, <2>3 DEF SideInv
<1>9. QED
  BY <1>5, <1>6, <1>7, <1>8 DEF ExecuteJob

\* The deal of a fill: whatever side of the pair filled, the other is deleted.
LEMMA SideFilled ==
  ASSUME TypeOK, PairInv, DealInv, SideInv, ObedientBroker, DealInStraddle,
         NEW j \in Job, j = Deal.job
  PROVE  /\ SideOK(j)'
         /\ \A k \in Job \ {j} : leg'[k] = leg[k]
<1>1. /\ Deal \in Event /\ Deal.leg \in Leg /\ Happened(Deal)
  BY DealAtHand DEF DealInStraddle, DealInv
<1>2. PICK l \in Leg : l = Deal.leg
  BY <1>1
<1>3. /\ Deal.entry = "in" /\ local[j] = "SUBMITTED" /\ Mode[j] = "STRADDLE"
      /\ hasFill' = hasFill \cup {j} /\ local' = local /\ ticket' = ticket
  BY DEF DealInStraddle, Known, Handles
<1>4. leg[j][l] \in {"open", "closed"}
  BY <1>1, <1>2, <1>3 DEF Happened
<1>5. SideOK(j) /\ PairOK(j)
  BY <1>3 DEF SideInv, PairInv
<1>6. l \in {1, 2}
  BY <1>4, <1>5 DEF SideOK
<1>7. PICK legs \in IF j \in hasFill /\ leg[j][l] = "open" THEN MayClose(j, l) ELSE {leg} :
        leg' \in Deleted(legs, j, {Sibling(j, l)} \cap ticket[j])
  BY <1>2 DEF DealInStraddle
<1>8. /\ legs \in [Job -> [Leg -> LegStates]]
      /\ legs[j][l] \in {"open", "closed"}
      /\ \A k \in Job, i \in Leg : legs[k][i] = leg[k][i] \/ (k = j /\ i = l)
  <2>1. CASE legs = leg
    BY <1>4, <2>1 DEF TypeOK
  <2>2. CASE legs # leg
    <3>1. leg[j][l] = "open" /\ legs \in MayClose(j, l)
      BY <1>7, <2>2
    <3>2. QED
      BY <2>2, <3>1, ClosingFacts
  <2>3. QED
    BY <2>1, <2>2
<1>9. /\ \A k \in Job \ {j} : leg'[k] = legs[k]
      /\ \A i \in Leg \cap ({Sibling(j, l)} \cap ticket[j]) : leg'[j][i] # "pending"
  BY <1>7, <1>8, DeletedLegs DEF ObedientBroker
<1>10. \A k \in Job, i \in Leg :
         leg'[k][i] = legs[k][i] \/ (legs[k][i] = "pending" /\ leg'[k][i] = "removed")
  BY <1>7, <1>8, DeletedOnly
<1>11. \A k \in Job \ {j} : leg'[k] = leg[k]
  <2>1. ASSUME NEW k \in Job \ {j} PROVE legs[k] = leg[k]
    <3>1. legs[k] \in [Leg -> LegStates] /\ leg[k] \in [Leg -> LegStates]
      BY <1>8 DEF TypeOK
    <3>2. \A i \in Leg : legs[k][i] = leg[k][i]
      BY <1>8
    <3>3. QED
      BY <3>1, <3>2
  <2>2. QED
    BY <1>9, <2>1
<1>12. \A i \in Leg \ {1, 2} : leg'[j][i] = "none"
  BY <1>5, <1>6, <1>8, <1>10 DEF SideOK
<1>13. ASSUME NEW i \in Leg, leg'[j][i] = "pending" PROVE FALSE
  <2>1. legs[j][i] = "pending"
    BY <1>10, <1>13
  <2>2. i # l
    BY <1>8, <2>1
  <2>3. leg[j][i] = "pending"
    BY <1>8, <2>1, <2>2
  <2>4. i \in LegsIn(j, "pending")
    BY <2>3 DEF LegsIn
  <2>5. i \in {1, 2} /\ i \in ticket[j]
    BY <1>3, <1>5, <2>3, <2>4 DEF SideOK
  <2>6. l \in ticket[j]
    BY <1>3, <1>4, <1>5, <2>4 DEF SideOK
  <2>7. i = Sibling(j, l)
    BY <1>6, <2>2, <2>5, <2>6 DEF Sibling
  <2>8. QED
    BY <1>9, <1>13, <2>5, <2>7
<1>14. LegsIn(j, "pending")' = {}
  BY <1>13 DEF LegsIn
<1>15. QED
  BY <1>3, <1>11, <1>12, <1>14 DEF SideOK

\* The steps of OnTradeTransaction.
LEMMA SideDeals ==
  ASSUME TypeOK, PairInv, DealInv, SideInv, ObedientBroker, OnTradeTransaction
  PROVE  SideInv'
<1>0. Handles /\ step = Idle /\ step' = Idle /\ ticket' = ticket
  BY DEF OnTradeTransaction, DealOut, DealInIgnored, DealIn, DealInStraddle, Handles
<1>1. Deal.job \in Job
  BY <1>0, DealAtHand DEF DealInv
<1>2. SideSteps'
  BY <1>0 DEF SideSteps, Idle
<1>3. CASE DealOut \/ DealInIgnored \/ DealIn
  <2>1. leg' = leg /\ hasFill' = hasFill
    BY <1>3 DEF DealOut, DealInIgnored, DealIn
  <2>2. local' = local \/ Become(Deal.job, "FINAL")
    BY <1>3 DEF DealOut, DealInIgnored, DealIn
  <2>3. \A k \in Job : local'[k] = local[k] \/ local'[k] = "FINAL"
    BY <2>2 DEF Become, TypeOK
  <2>4. ASSUME NEW k \in Job, Mode[k] = "STRADDLE" PROVE SideOK(k)'
    BY <1>0, <2>1, <2>3, <2>4, SideKept DEF SideInv
  <2>5. QED
    BY <1>2, <2>1, <2>4 DEF SideInv
<1>4. CASE DealInStraddle
  <2>1. PICK j \in Job : j = Deal.job
    BY <1>1
  <2>2. hasFill' = hasFill \cup {j} /\ local' = local /\ Mode[j] = "STRADDLE"
    BY <1>4, <2>1 DEF DealInStraddle
  <2>3. SideOK(j)' /\ \A k \in Job \ {j} : leg'[k] = leg[k]
    BY <1>4, <2>1, SideFilled
  <2>4. ASSUME NEW k \in Job \ {j}, Mode[k] = "STRADDLE" PROVE SideOK(k)'
    BY <1>0, <2>2, <2>3, <2>4, SideKept DEF SideInv
  <2>5. QED
    BY <1>2, <2>2, <2>3, <2>4 DEF SideInv
<1>5. QED
  BY <1>3, <1>4 DEF OnTradeTransaction

\* The invariant of the two sides always holds.
LEMMA SideInvariant == ASSUME ObedientBroker PROVE Spec => []SideInv
<1>1. Init => SideInv
  BY DEF Init, SideInv, SideSteps, SideOK, Boot, LegsIn
<1>2. TypeOK /\ OnceInv /\ PairInv /\ DealInv /\ SideInv /\ [Next]_vars => SideInv'
  <2> SUFFICES ASSUME TypeOK, OnceInv, PairInv, DealInv, SideInv, [Next]_vars PROVE SideInv'
    OBVIOUS
  <2>1. ASSUME UNCHANGED <<leg, hasFill, local, ticket>>,
               step' = step \/ step'.at \notin {"execute", "send"}
        PROVE  SideInv'
    <3>1. \A j \in Job : Mode[j] = "STRADDLE" => SideOK(j)'
      BY <2>1, SideKept DEF SideInv
    <3>2. SideSteps'
      BY <2>1 DEF SideInv, SideSteps
    <3>3. QED
      BY <2>1, <3>1, <3>2 DEF SideInv
  <2>2. CASE Start \/ OnTimer
    BY <2>1, <2>2 DEF Start, OnTimer, Boot, Timer, broker
  <2>3. CASE Crash
    <3>1. /\ leg' = leg /\ hasFill' = {} /\ step'.at = "off"
          /\ \A j \in Job : local'[j] = "NONE"
      BY <2>3 DEF Crash, Off, broker
    <3>2. \A j \in Job : Mode[j] = "STRADDLE" => SideOK(j)'
      BY <3>1, SideKept DEF SideInv
    <3>3. QED
      BY <3>1, <3>2 DEF SideInv, SideSteps
  <2>4. ASSUME NEW new \in SUBSET Job, NEW withdrawn \in SUBSET Job, PollJobs(new, withdrawn)
        PROVE  SideInv'
    <3>1. UNCHANGED <<leg, hasFill, ticket>> /\ step'.at \notin {"execute", "send"}
      BY <2>4 DEF PollJobs, Idle, Loop, broker
    <3>2. \A j \in Job : \/ local'[j] = local[j] \/ local'[j] = "FINAL"
                         \/ local'[j] # "SUBMITTED" /\ local[j] \notin {"SUBMITTED", "FINAL"}
      BY <2>4 DEF PollJobs
    <3>3. \A j \in Job : Mode[j] = "STRADDLE" => SideOK(j)'
      BY <3>1, <3>2, SideKept DEF SideInv
    <3>4. QED
      BY <3>1, <3>3 DEF SideInv, SideSteps
  <2>5. CASE ProcessJobs
    BY <2>5, SideProcess DEF ProcessJobs
  <2>6. CASE ExecuteJob
    BY <2>6, SideExecute
  <2>7. CASE OnTradeTransaction
    BY <2>7, SideDeals
  <2>8. ASSUME NEW j \in Job, Cancel(j) PROVE SideInv'
    BY <2>1, <2>8 DEF Cancel, agent, broker
  <2>9. ASSUME NEW j \in Job, NEW l \in Leg, Fill(j, l) \/ Close(j, l) PROVE SideInv'
    <3>1. UNCHANGED <<step, local, hasFill, ticket>>
      BY <2>9 DEF Fill, Close
    <3>2. PICK s \in {"open", "closed"} : leg' = [leg EXCEPT ![j][l] = s] /\ leg[j][l] # "none"
      BY <2>9 DEF Fill, Close
    <3>3. leg'[j][l] = s /\ \A k \in Job, i \in Leg : leg'[k][i] = leg[k][i] \/ (k = j /\ i = l)
      BY <3>2 DEF TypeOK
    <3>4. ASSUME NEW k \in Job, Mode[k] = "STRADDLE" PROVE SideOK(k)'
      <4>1. SideOK(k)
        BY <3>4 DEF SideInv
      <4>2. k = j => l \in {1, 2}
        BY <3>2, <4>1 DEF SideOK
      <4>3. \A i \in Leg : leg'[k][i] = leg[k][i] \/ (leg[k][i] # "none" /\ leg'[k][i] # "pending"
                                                      /\ i \in {1, 2})
        BY <3>2, <3>3, <4>2
      <4>4. QED
        BY <3>1, <4>1, <4>3, SideKept
    <3>5. QED
      BY <3>1, <3>4 DEF SideInv, SideSteps
  <2>10. CASE Tick \/ UNCHANGED vars
    BY <2>1, <2>10 DEF Tick, vars, agent, broker
  <2>11. QED
    BY <2>2, <2>3, <2>4, <2>5, <2>6, <2>7, <2>8, <2>9, <2>10 DEF Next, Poll
<1>3. TruthfulBroker
  BY DEF ObedientBroker, TruthfulBroker
<1>4. QED
  BY <1>1, <1>2, <1>3, TypeCorrect, OnceInvariant, PairInvariant, DealInvariant, PTL DEF Spec

\* If the broker does what it is told and says so, an OCO pair of which the EA
\* has seen a fill has no pending order left, whichever side filled, during
\* whatever call, and however often the terminal stopped before.
THEOREM FilledPairsStandAlone == ASSUME ObedientBroker PROVE Spec => []OneSideStays
<1>1. TypeOK /\ SideInv => OneSideStays
  BY DEF TypeOK, SideInv, SideOK, OneSideStays
<1>2. QED
  BY <1>1, TypeCorrect, SideInvariant, PTL
=============================================================================
