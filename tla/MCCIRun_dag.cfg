SPECIFICATION FairSpec
CONSTANTS
  a = a
  b = b
  c = c
  Runs = {1}
  Jobs = {a, b, c}
  Needs <- JoinNeeds
  Callers = {h1}
  CIJobConcurrency = 2
  MaxFaults = 2
  MaxCrashes = 2
INVARIANT PipelineSound
INVARIANT NeedsHonoured
INVARIANT NoDanglingJobs
INVARIANT StopHonoured
PROPERTY EveryRunConcludes
PROPERTY ImplementsContract
CHECK_DEADLOCK FALSE
