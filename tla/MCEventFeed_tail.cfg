SPECIFICATION FairSpec
CONSTANTS
  Types = {"push", "issue"}
  Queries <- AllQueries
  EventsBatch = 2
  EventRetain = 2
  MaxId = 3
  MaxRepo = 2
  MaxDrops = 1
INVARIANT SnapshotComplete
PROPERTY FeedDelivers
PROPERTY CatchesUp
CHECK_DEADLOCK FALSE
