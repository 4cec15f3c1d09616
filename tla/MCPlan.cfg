SPECIFICATION Spec
CONSTANTS
  PageSize = 2
  MaxOps = 3
  MaxTokens = 5
  MaxCompute = 3
  MinCompute = 2
INVARIANTS
  EveryTokenIsSentOnce
  BudgetIsSpent
CHECK_DEADLOCK FALSE
