SPECIFICATION ClaimsSpec
CONSTANTS
  Agents = {a1, a2}
  NoAgent = NoAgent
  TicksPerSecond = 3
  Leases = {0, 7}
  ReaperFloor = 1
  MaxTime = 18
INVARIANT Exclusive
INVARIANT OrphansDiscoverable
