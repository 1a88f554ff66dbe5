SPECIFICATION Spec
CONSTANTS
  Flag = 5
  Base = 2
  Text <- Texts
  Masks <- Keys
  Cuts = {2}
  Says <- Speech
  MaxSends <- Limits
PROPERTIES ImplementsTransport EverythingIsHeard
CHECK_DEADLOCK FALSE
