SPECIFICATION ApiSpec
CONSTANTS
  Hardware = 3
  Budgets = {1, 2, 3}
  Options = {0, 4}
  Rows = 2
  Parts = {1, 3, 4}
  TileHeights = {1, 2}
INVARIANTS
  BudgetKept
  HalfTheRows
  CallLeavesNothing
  CancelObeyed
  CauseReported
