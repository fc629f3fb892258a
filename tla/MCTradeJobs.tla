---------------------------- MODULE MCTradeJobs -----------------------------
(***************************************************************************)
(* TLC instances of TradeJobs.  Creation closes and the armed window opens *)
(* at 1, the news is at 2, the job expires at 3 and a cBot job is given up *)
(* at 4.                                                                   *)
(***************************************************************************)
EXTENDS TradeJobs

CONSTANTS m, c   \* a job for the MT5 agent, a job for the cBot

MCVenue        == [j \in Job |-> IF j = m THEN "MT5" ELSE "CBOT"]
MCExecuteAt    == [j \in Job |-> 2]
MCArmLead      == [j \in Job |-> 1]
MCExpiresAt    == [j \in Job |-> 3]
MCManagedUntil == [j \in Job |-> IF j = c THEN 4 ELSE 0]
=============================================================================
