----------------------------- MODULE MCMt5Agent -----------------------------
(***************************************************************************)
(* TLC instances of Mt5Agent.  Every deadline of a job falls on an instant *)
(* of its own: the armed window opens at 1, the news is at 2, the job      *)
(* expires at 3.                                                           *)
(***************************************************************************)
EXTENDS Mt5Agent

CONSTANTS a, s, b   \* a market order, an OCO pair, a basket

MCMode == [j \in Job |-> IF j = a THEN "MARKET" ELSE IF j = s THEN "STRADDLE" ELSE "MULTI"]
MCArmAt     == [j \in Job |-> 1]
MCExecuteAt == [j \in Job |-> 2]
MCExpiresAt == [j \in Job |-> 3]
=============================================================================
