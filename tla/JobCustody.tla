----------------------------- MODULE JobCustody -----------------------------
(***************************************************************************)
(* What the lease of a cTrader job promises (src/README.md: "multiple      *)
(* backend instances cannot submit it concurrently"): at any time nobody   *)
(* or one instance runs the job, it is never handed over directly, and a   *)
(* job that has ended is not reopened or taken up again.                   *)
(***************************************************************************)
CONSTANTS Worker, \* instances of the backend
          None    \* nobody

VARIABLES holder, \* who runs the job
          ended   \* its status is terminal

vars == <<holder, ended>>

Init == holder = None /\ ended = FALSE

\* An instance takes a job nobody runs.
Take(w) == holder = None /\ ~ended /\ holder' = w /\ UNCHANGED ended

\* Its instance lets it go, or loses it, perhaps with the status that ends it.
Drop == holder # None /\ holder' = None /\ ended' \in {ended, TRUE}

\* The job ends, by whoever runs it or by its user.
End == ended' = TRUE /\ UNCHANGED holder

Next == (\E w \in Worker : Take(w)) \/ Drop \/ End

Spec == Init /\ [][Next]_vars
=============================================================================
