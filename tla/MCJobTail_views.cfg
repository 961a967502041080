SPECIFICATION FairSpec
CONSTANTS
  Kinds = {"ci", "agent"}
  MaxLines = 3
  MaxOpens = 2
  MaxTears = 1
  MaxDrops = 1
INVARIANT CompleteAtRest
PROPERTY TailDelivers
PROPERTY TailSettles
CHECK_DEADLOCK FALSE
