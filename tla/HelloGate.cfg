SPECIFICATION GateSpec
CONSTANTS
  Nonce = {n1, n2, n3}
  TTL = 2
  MaxSeen = 2
  Skew = 1
  Slack = 1
  RestartTime = 2
  MaxTime = 5
  MaxTokens = 3
SYMMETRY Symmetry
INVARIANTS LiveNonceRemembered RefusalJustified
PROPERTIES ReuseOnlyAcrossExpiry NoHelloReplayAcrossRestart
CHECK_DEADLOCK FALSE
