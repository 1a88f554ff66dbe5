SPECIFICATION Spec
CONSTANTS
  Conn = {c1, c2, c3}
  MaxPending = 2
  MaxHello = 2
SYMMETRY Symmetry
INVARIANTS RegistryExact NoUseAfterWipe SecretsReachable
PROPERTIES EvictionNeedsFlood SessionsIsolated
CHECK_DEADLOCK FALSE
