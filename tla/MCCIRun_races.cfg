SPECIFICATION Spec
CONSTANTS
  a = a
  b = b
  c = c
  Runs = {1, 2}
  Jobs = {a}
  Needs <- NoNeeds
  Callers = {h1}
  CIJobConcurrency = 2
  MaxFaults = 1
  MaxCrashes = 0
PROPERTY ImplementsContract
CHECK_DEADLOCK FALSE
