SPECIFICATION FairSpec
CONSTANTS
  nightly = nightly
  Exprs = {nightly}
  Scenarios <- Both
INVARIANT LogsAreOwn
INVARIANT NoDanglingRegistration
PROPERTY FiresOncePerOccurrence
PROPERTY DueFires
CHECK_DEADLOCK FALSE
