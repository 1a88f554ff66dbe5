SPECIFICATION Spec
CONSTANTS
  Window = 2
  Cap = 3
  MaxSeq = 4
  MaxEpoch = 1
INVARIANTS NoFalseReject KeyBudget BudgetIsPerEpoch
PROPERTY ImplementsOneShotDelivery
CHECK_DEADLOCK FALSE
