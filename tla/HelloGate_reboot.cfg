SPECIFICATION GateSpec
CONSTANTS
  Nonce = {n1, n2, n3}
  TTL = 2
  MaxSeen = 2
  Skew = 0
  Slack = 0
  RestartTime = 1
  MaxTime = 5
  MaxTokens = 3
SYMMETRY Symmetry
INVARIANT SingleUse
CHECK_DEADLOCK FALSE
