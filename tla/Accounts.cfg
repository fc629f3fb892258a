SPECIFICATION Spec
CONSTANTS
  User = {u1, u2}
  Handler = {h1, h2}
  Code = {c1, c2}
  Device = {d1}
  Account = {a1}
  Nobody = Nobody
  Term <- MCTerm
  MaxAccounts <- MCMaxAccounts
  Enforced = TRUE
  Overlap = FALSE
  MaxTime = 1
  MaxGrants = 2
  MaxTrouble = 1
SYMMETRY Symmetry
INVARIANTS OneUse OwnersAgree StaysConnected
PROPERTY NoEarlyLapse
CHECK_DEADLOCK FALSE
