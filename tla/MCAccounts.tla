----------------------------- MODULE MCAccounts -----------------------------
(***************************************************************************)
(* Model values for the run of Accounts.  Users, requests and codes are    *)
(* interchangeable.                                                        *)
(***************************************************************************)
EXTENDS Accounts, TLC

Symmetry == Permutations(Handler) \cup Permutations(Code) \cup Permutations(User)

\* A trial lasts one period and allows one account, a paid plan two and two.
MCTerm        == [plan \in Plan |-> IF plan = "TRIAL" THEN 1 ELSE 2]
MCMaxAccounts == [plan \in Plan |-> IF plan = "TRIAL" THEN 1 ELSE 2]
=============================================================================
