------------------------------ MODULE RunStates ------------------------------
(***************************************************************************)
(* The status vocabulary of ci_runs, ci_jobs and agent_turns rows, shared  *)
(* by every module that follows a run (internal/storage/ci.go,             *)
(* internal/storage/agent_turns.go).  "absent" is not a status of the      *)
(* code: it stands for a row that has not been inserted.                   *)
(***************************************************************************)

\* RunStatus: the final states; RunStatus.Terminal reports membership.
Terminal == {"success", "failed", "canceled", "error", "interrupted", "stalled"}

\* The states a run still owned by the in-process runner can be in.
Active == {"queued", "running", "awaiting_input", "finishing"}

RunStatus == Active \cup Terminal

JobTerminal == {"success", "failed", "skipped", "error", "interrupted"}

JobStatus == {"queued", "running"} \cup JobTerminal

JobRow == JobStatus \cup {"absent"}

TurnStatus == {"pending", "running", "done", "error"}
=============================================================================
