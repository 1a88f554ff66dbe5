SPECIFICATION Spec
CONSTANTS
  Conn = {c1, c2, c3}
  MaxPending = 2
  MaxHello = 2
INVARIANT NoKeyOutlivesConnection
CHECK_DEADLOCK FALSE
