----------------------------- MODULE RunContract -----------------------------
(***************************************************************************)
(* What a CI run promises to everyone who reads its row and its job rows   *)
(* (the API, the SSE tail, the fleet feed, the PR checks): it is queued,   *)
(* it runs, it gets ONE verdict, and from then on neither the verdict nor  *)
(* any of its jobs changes again.  A green verdict covers every job of the *)
(* pipeline, a red one names a job that is not green.                      *)
(*                                                                         *)
(* Several runs may move in one step: the startup reconciliation finalizes *)
(* all orphans in one transaction.                                         *)
(***************************************************************************)
EXTENDS RunStates

CONSTANTS Runs, Jobs

VARIABLES row,   \* row[r]: the status column of run r, or "absent"
          job    \* job[r][j]: the status column of job j of run r

vars == <<row, job>>

Rows == Active \cup Terminal \cup {"absent"}

Init == /\ row = [r \in Runs |-> "absent"]
        /\ job = [r \in Runs |-> [j \in Jobs |-> "absent"]]

Keep(r) == row'[r] = row[r] /\ job'[r] = job[r]

Enqueue(r) == row[r] = "absent" /\ row'[r] = "queued" /\ job'[r] = job[r]

\* A run withdrawn while it waits never starts.
Withdraw(r) == row[r] = "queued" /\ row'[r] = "canceled" /\ job'[r] = job[r]

Start(r) == row[r] = "queued" /\ row'[r] = "running" /\ job'[r] = job[r]

Work(r) == row[r] = "running" /\ row'[r] = "running"

\* The one verdict.
Conclude(r) ==
    /\ row[r] = "running"
    /\ row'[r] \in Terminal
    /\ row'[r] = "success" => \A j \in Jobs : job'[r][j] = "success"
    /\ row'[r] = "failed" => \E j \in Jobs : job'[r][j] \in JobTerminal \ {"success"}

StepOf(r) == Keep(r) \/ Enqueue(r) \/ Withdraw(r) \/ Start(r) \/ Work(r) \/ Conclude(r)

Next == /\ row' \in [Runs -> Rows]
        /\ job' \in [Runs -> [Jobs -> JobRow]]
        /\ \A r \in Runs : StepOf(r)

Spec == Init /\ [][Next]_vars
=============================================================================
