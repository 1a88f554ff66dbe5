SPECIFICATION FairSpec
CONSTANTS
  Conn = {c1, c2}
  Static = {pd, stale}
  Own = pd
  MaxPending = 1
INVARIANTS TypeOK MutualAuthentication AloneOnlyWhenClosed NothingUnheard
PROPERTIES FailureFreesSlot WaitEnds
CHECK_DEADLOCK FALSE
