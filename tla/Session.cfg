SPECIFICATION FairSpec
CONSTANTS
  Cap = 3
  Apps <- AllApps
  MaxCalls = 2
  MaxSends = 3
INVARIANTS EpochsAgree NothingDropped RefusalHasCause
PROPERTIES RekeySettles SplitIsTornDown
CHECK_DEADLOCK FALSE
