------------------------------ MODULE JobState ------------------------------
(***************************************************************************)
(* The status machine of a trade job, shared by every backend service:     *)
(* src/src/trade-jobs/trade-job-state.ts.  Execution reports carry a       *)
(* phase; a phase names the status the job should take, and a job may only *)
(* take a status its present one leads to.                                 *)
(***************************************************************************)

\* The statuses a persisted job can have.
Status == {"DRAFT", "SCHEDULED", "SYNCED", "ARMED", "SUBMITTED",
           "PARTIALLY_FILLED", "FILLED", "MANAGED", "CLOSED",
           "REJECTED", "CANCELLED", "EXPIRED", "MISSED"}

\* The phases an execution report can announce.
Phase == {"SYNCED", "ARMED", "PREFLIGHT_REJECTED", "SUBMITTED", "ACCEPTED",
          "PARTIALLY_FILLED", "FILLED", "REJECTED", "CANCELLED", "CLOSED",
          "MISSED", "ERROR"}

\* "the report changes no status" (the source's undefined)
NoStatus == "NONE"

\* phaseStatus: three phases are renamed, ERROR moves nothing.
StatusForPhase(phase) ==
  CASE phase = "PREFLIGHT_REJECTED" -> "REJECTED"
    [] phase = "ACCEPTED"           -> "SUBMITTED"
    [] phase = "ERROR"              -> NoStatus
    [] OTHER                        -> phase

\* What a job that is at the broker, or about to be, can still become.
Execution == {"SUBMITTED", "PARTIALLY_FILLED", "FILLED"}

\* The successor table.
Successors(s) ==
  CASE s = "DRAFT"            -> {"SCHEDULED", "CANCELLED"}
    [] s = "SCHEDULED"        -> Execution \cup
         {"SYNCED", "ARMED", "CANCELLED", "EXPIRED", "MISSED", "REJECTED"}
    [] s = "SYNCED"           -> Execution \cup
         {"ARMED", "CANCELLED", "EXPIRED", "MISSED", "REJECTED"}
    [] s = "ARMED"            -> Execution \cup
         {"CANCELLED", "MISSED", "REJECTED"}
    [] s = "SUBMITTED"        ->
         {"PARTIALLY_FILLED", "FILLED", "REJECTED", "CANCELLED", "CLOSED"}
    [] s = "PARTIALLY_FILLED" -> {"FILLED", "MANAGED", "CLOSED", "CANCELLED"}
    [] s = "FILLED"           -> {"MANAGED", "CLOSED"}
    [] s = "MANAGED"          -> {"CLOSED"}
    [] OTHER                  -> {}

\* Mutant: the table is not consulted.
CanTransitionAnywhere(current, next) == next \in Status

CanTransition(current, next) == next = current \/ next \in Successors(current)

\* A status with no successor.
Terminal == {"REJECTED", "CLOSED", "CANCELLED", "EXPIRED", "MISSED"}

\* ACTIVE_JOB_STATUSES: what counts against the user's limit of open jobs.
Active == {"SCHEDULED", "SYNCED", "ARMED", "SUBMITTED", "PARTIALLY_FILLED",
           "FILLED", "MANAGED"}
=============================================================================
