SPECIFICATION Spec
CONSTANTS
  Users = {"alice", "bob"}
  Owner = "alice"
  Agents = {"1"}
  Keys = {"k"}
  Clients = {"c"}
  TouchInterval = 2
  Scenarios <- MCScenarios
 
PROPERTY ReaperSparesActive
CHECK_DEADLOCK FALSE
