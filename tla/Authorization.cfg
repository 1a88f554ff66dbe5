SPECIFICATION Spec
CONSTANTS
  User = {u1, u2}
  Sess = {s1, s2}
  TTL = 1
  MaxTime = 3
  MaxTokens = 2
  MaxPolicies = 2
SYMMETRY Symmetry
INVARIANTS RevocationBounded GrantsNotShared
PROPERTY RegainNeedsNewWord
CHECK_DEADLOCK FALSE
