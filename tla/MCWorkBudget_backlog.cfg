SPECIFICATION BudgetFairSpec
CONSTANTS
  c1 = c1
  c2 = c2
  a1 = a1
  t1 = t1
  Work = {c1, c2, a1, t1}
  Source <- Backlog
  MaxConcurrency = 2
  AgentReserved = 1
INVARIANT WithinBudget
INVARIANT ReservedReachable
INVARIANT TokensAccounted
PROPERTY SpawnServed
CHECK_DEADLOCK FALSE
