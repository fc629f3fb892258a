---------------------------- MODULE JobLifecycle ----------------------------
(***************************************************************************)
(* What the backend promises about the status of a job, whoever asks for   *)
(* the change: a job appears as SCHEDULED, every later change follows the  *)
(* transition table, so that a terminal status is never left ("Terminal    *)
(* states cannot regress", src/docs/agent-protocol.md), and the number of  *)
(* active jobs of the user stays within the limit of the user's settings.  *)
(***************************************************************************)
EXTENDS JobState, FiniteSets, Naturals

CONSTANTS Job,           \* the jobs a user may ever create
          Absent,        \* the status of a job that has no row yet
          MaxConcurrent  \* settings.maxConcurrentJobs

VARIABLE status          \* status[j]: the status stored for job j

ActiveJobs == {j \in Job : status[j] \in Active}

Init == status = [j \in Job |-> Absent]

\* A job is accepted while the user has room for it.
Accept(j) ==
  /\ status[j] = Absent
  /\ Cardinality(ActiveJobs) < MaxConcurrent
  /\ status' = [status EXCEPT ![j] = "SCHEDULED"]

\* Some jobs move forward in one step, each along the table.
Advance ==
  /\ status' \in [Job -> Status \cup {Absent}]
  /\ \A j \in Job : \/ status'[j] = status[j]
                    \/ /\ status[j] # Absent
                       /\ status'[j] \in Successors(status[j])

Next == Advance \/ \E j \in Job : Accept(j)

Spec == Init /\ [][Next]_status
=============================================================================
