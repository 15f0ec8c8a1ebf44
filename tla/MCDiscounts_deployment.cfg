SPECIFICATION DeploymentFairSpec
CONSTANTS
  Server = {s1, s2}
  Configs <- ConfigsDef
  Last = 5
  Repeatable <- RepeatableDef
  MaxPings = 2
  Budgets <- BudgetsDef
  None = None
  MaxCalls = 2
  DiscountInputs <- DiscountInputsDef
  MaxDiscounts = 5
  Codes <- CodesDef
  NoCode = NoCode
  Examples = 2
INVARIANT DiscountsTypeOK
INVARIANT AnswersAreTruthful
PROPERTY SchemaGrowsInOrder
PROPERTY DiscountsAreSoftDeleted
PROPERTY NobodyWaitsForEver
CHECK_DEADLOCK FALSE
