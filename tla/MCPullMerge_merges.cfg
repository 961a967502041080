SPECIFICATION Spec
CONSTANTS
  Pulls = {p1}
  NoPull = NoPull
  Protected = TRUE
  Workers = {w1, w2}
  MaxStamp = 4
  MaxFaults = 1
SYMMETRY Symmetry
INVARIANT MergedMeansJoined
INVARIANT TipQueued
PROPERTY NothingLost
CHECK_DEADLOCK FALSE
