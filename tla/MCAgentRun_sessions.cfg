SPECIFICATION FairSpec
CONSTANTS
  Kinds = {"agent", "spec-verify"}
  Turns = {1, 2}
  Workers = {w1, w2}
  Callers = {h1, h2}
  NoWorker = NoWorker
  Scenarios <- Sessions
INVARIANT OneDriver
INVARIANT WholeOrGone
INVARIANT SuccessHasBranch
PROPERTY NeverResurrected
PROPERTY RunSettles
PROPERTY ContainerReleased
CHECK_DEADLOCK FALSE
