SPECIFICATION Spec
CONSTANTS
  Kinds = {"agent"}
  Turns = {1}
  Workers = {w1}
  Callers = {h1}
  NoWorker = NoWorker
  Scenarios <- Cancels
PROPERTY CancelSticks
CHECK_DEADLOCK FALSE
