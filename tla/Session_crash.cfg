SPECIFICATION Spec
CONSTANTS
  Cap = 4
  Apps <- TelemetryOnly
  MaxCalls = 2
  MaxSends = 3
INVARIANT NoCrash
CHECK_DEADLOCK FALSE
