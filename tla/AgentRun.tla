------------------------------- MODULE AgentRun -------------------------------
(***************************************************************************)
(* The life of one agent-family run under docker isolation: the first turn *)
(* (executeAgentRun), parking, follow-up turns (dispatchTurn), handoff     *)
(* (finishAgentRun), the one-shot spec-verify run (finalizeVerifyRun), the *)
(* operator's cancel, the lifetime reaper, shutdown, crash and startup.    *)
(*                                                                         *)
(* Beside the rows the run owns a container, a workspace and an ephemeral  *)
(* token; they are created and released by different goroutines.  Several  *)
(* goroutines may work on the run at once: each is a slot of the work      *)
(* budget (a worker).                                                      *)
(*                                                                         *)
(* Source: cmd/codefortd/agent_runner.go, agent_handoff.go,                *)
(* agent_verify.go, ci_runner.go; internal/storage/agent_turns.go,         *)
(* ci.go; internal/server/agent.go.                                        *)
(***************************************************************************)
EXTENDS Naturals, FiniteSets, RunStates

CONSTANTS
    Kinds,       \* kinds of runs: "agent", "spec-verify" or both
    Turns,       \* ids of follow-up turns, 1..n
    Workers,     \* agent slots of the work budget
    Callers,     \* concurrent HTTP handlers
    NoWorker,    \* model value: no handle registered
    Scenarios    \* what can go wrong: see scenario

ASSUME KindAssumption == Kinds \subseteq {"agent", "spec-verify"}
ASSUME TurnsAssumption == Turns \subseteq Nat \ {0}
ASSUME NoWorkerAssumption == NoWorker \notin Workers

\* A scenario: whether claims can outlive agentLease and turnLease, whether the
\* operator cancels, and the bounds: storage or event-log calls that fail,
\* shutdowns and crashes, turns posted, handlers at work.
ScenarioRecords ==
    [leases : BOOLEAN, cancels : BOOLEAN, faults : Nat, crashes : Nat,
     turns : SUBSET Turns, callers : SUBSET Callers]
ASSUME ScenariosAssumption == \A s \in Scenarios : s \in ScenarioRecords

NoTurn == 0

VARIABLES
    scenario,    \* a member of Scenarios, chosen at the start
    server,      \* "up", "draining" or "down"
    kind,        \* ci_runs.kind, never written again
    row, job,    \* ci_runs.status, and the status of its one ci_jobs row
    turn,        \* turn[t]: agent_turns.status, or "absent"
    overage,     \* started_at is older than AgentRunTimeout
    leaseOver,   \* claimed_at is older than agentLease
    turnLate,    \* running turns whose claimed_at is older than turnLease
    token,       \* the run's cf token is valid
    container,   \* the run's container is up
    workspace,   \* what /work holds: a member of Trees
    branch,      \* what was committed to a branch, likewise
    pc, mine, verdict, flag,  \* per worker: step, turn, verdict, h.canceled
    tree,        \* tree[w]: what a handoff has put into its index
    handle,      \* the worker registered in agentTurns, or NoWorker
    reaper,      \* reapExpiredAgents: "idle", "listed" or "torn"
    op,          \* op[c]: where an HTTP handler is
    sawJob,      \* sawJob[c]: CancelAgentRun found the job row
    \* history
    left,        \* what the last turn left in the workspace
    withdrawn,   \* an operator's cancel was accepted
    faults, crashes

\* The contents of a workspace: nothing, the checkout, the checkout with an
\* agent's edits, or the remains of either while RemoveAll is at work.
Trees == {"none", "base", "work", "partial"}

fixed    == <<scenario, kind>>
runVars  == <<row, job, turn, overage, leaseOver, turnLate>>
resVars  == <<token, container, workspace, branch>>
workVars == <<pc, mine, verdict, flag, tree, handle>>
webVars  == <<op, sawJob>>
history  == <<left, withdrawn>>
vars == <<fixed, server, runVars, resVars, workVars, reaper, webVars, history, faults, crashes>>

\* Nothing fails and no claim outlives its lease; the process may die.  The
\* history is kept in such scenarios only.
Calm == ~scenario.leases /\ scenario.faults = 0

Goto(w, step) == pc' = [pc EXCEPT ![w] = step]

\* The goroutine ends.
Done(w) ==
    /\ Goto(w, "idle")
    /\ mine' = [mine EXCEPT ![w] = NoTurn]
    /\ verdict' = [verdict EXCEPT ![w] = "error"]
    /\ flag' = [flag EXCEPT ![w] = FALSE]

\* Go to the teardown and then to the write of v.
Conclude(w, v) == Goto(w, "teardown") /\ verdict' = [verdict EXCEPT ![w] = v]

\* One more storage or event-log call fails.
Fault == faults < scenario.faults /\ faults' = faults + 1

\* Slip: the run's token outlives it.
TearDownKeepsToken == container' = FALSE /\ token' = token /\ workspace' = "none"

\* Drop container, token and workspace: tearDownAgent with the job's id.  Of the
\* removal only the end is seen: within its lease nobody else but a canceller is
\* at work on a run that its own goroutine, or the reaper, takes down.
TearDown == container' = FALSE /\ token' = FALSE /\ workspace' = "none"

-----------------------------------------------------------------------------
(* HTTP handlers                                                           *)

Serving == server = "up"

\* handleSpawnAgent, or the spec-verify endpoint.
Spawn ==
    /\ Serving
    /\ row = "absent"
    /\ row' = "queued"
    /\ UNCHANGED <<fixed, history, server, job, turn, overage, leaseOver, turnLate, resVars,
                   workVars, reaper, webVars, faults, crashes>>

\* handleCreateAgentTurn reads the run and turns a finished one away...
AskTurn(c) ==
    /\ Serving
    /\ kind = "agent"
    /\ c \in scenario.callers /\ op[c] = "idle"
    /\ row \in Active
    /\ op' = [op EXCEPT ![c] = "post"]
    /\ UNCHANGED <<fixed, history, server, runVars, resVars, workVars, reaper, sawJob, faults,
                   crashes>>

\* ... and inserts the turn in a later transaction.
EnqueueTurn(c, t) ==
    /\ op[c] = "post"
    /\ t \in scenario.turns /\ turn[t] = "absent"
    /\ \A u \in Turns : u < t => turn[u] # "absent"
    /\ turn' = [turn EXCEPT ![t] = "pending"]
    /\ op' = [op EXCEPT ![c] = "idle"]
    /\ UNCHANGED <<fixed, history, server, row, job, overage, leaseOver, turnLate, resVars,
                   workVars, reaper, sawJob, faults, crashes>>

\* The insert fails (or the request is abandoned): 500.
EnqueueTurnFails(c) ==
    /\ op[c] = "post"
    /\ op' = [op EXCEPT ![c] = "idle"]
    /\ UNCHANGED <<fixed, history, server, runVars, resVars, workVars, reaper, sawJob, faults,
                   crashes>>

\* handleFinishAgentRun: MarkRunFinishing is a compare-and-set.
MarkRunFinishing ==
    /\ Serving
    /\ kind = "agent"
    /\ row = "awaiting_input"
    /\ row' = "finishing"
    /\ UNCHANGED <<fixed, history, server, job, turn, overage, leaseOver, turnLate, resVars,
                   workVars, reaper, webVars, faults, crashes>>

\* CancelAgentRun, its compare-and-set: only kind 'agent', only active.  Any
\* other cancel is answered 409 and changes nothing.
CancelCAS(c) ==
    /\ Serving
    /\ scenario.cancels
    /\ c \in scenario.callers /\ op[c] = "idle"
    /\ kind = "agent" /\ row \in Active
    /\ row' = "canceled"
    /\ withdrawn' = Calm
    /\ op' = [op EXCEPT ![c] = "flag"]
    /\ UNCHANGED <<fixed, left, server, job, turn, overage, leaseOver, turnLate, resVars,
                   workVars, reaper, sawJob, faults, crashes>>

\* Interrupt the turn in flight, if one is registered.
CancelFlag(c) ==
    /\ op[c] = "flag"
    /\ flag' = [w \in Workers |-> flag[w] \/ w = handle]
    /\ op' = [op EXCEPT ![c] = "job"]
    /\ UNCHANGED <<fixed, history, tree, server, runVars, resVars, pc, mine, verdict, handle,
                   reaper, sawJob, faults, crashes>>

\* agentJobID and finishJob.
CancelJob(c) ==
    /\ op[c] = "job"
    /\ sawJob' = [sawJob EXCEPT ![c] = (job # "absent")]
    /\ job' = IF job = "absent" THEN job ELSE "interrupted"
    /\ op' = [op EXCEPT ![c] = "teardown"]
    /\ UNCHANGED <<fixed, history, server, row, turn, overage, leaseOver, turnLate, resVars,
                   workVars, reaper, faults, crashes>>

\* tearDownAgent: without a job id the container's name is not known.  The
\* workspace goes file by file...
CancelTearDown(c) ==
    /\ op[c] = "teardown"
    /\ container' = (container /\ ~sawJob[c])
    /\ token' = FALSE
    /\ workspace' = IF workspace = "none" THEN "none" ELSE "partial"
    /\ op' = [op EXCEPT ![c] = "remove"]
    /\ sawJob' = [sawJob EXCEPT ![c] = FALSE]
    /\ UNCHANGED <<fixed, history, server, runVars, branch, workVars, reaper, faults, crashes>>

\* ... and is gone.
CancelRemoveAll(c) ==
    /\ op[c] = "remove"
    /\ workspace' = "none"
    /\ op' = [op EXCEPT ![c] = "idle"]
    /\ UNCHANGED <<fixed, history, server, runVars, token, container, branch, workVars, reaper,
                   sawJob, faults, crashes>>

-----------------------------------------------------------------------------
(* The drain loop: one goroutine that claims work and reaps                *)

Free(w) == server = "up" /\ reaper = "idle" /\ pc[w] = "idle"

\* ClaimNextRunOfKind: claimed_at is stamped, started_at only once.
ClaimRun(w) ==
    /\ Free(w)
    /\ row = "queued" \/ (row = "running" /\ leaseOver)
    /\ row' = "running"
    /\ leaseOver' = FALSE
    /\ Goto(w, "setup")
    /\ UNCHANGED <<fixed, history, tree, server, job, turn, overage, turnLate, resVars, mine,
                   verdict, flag, handle, reaper, webVars, faults, crashes>>

\* Slip: a pending turn is dispatched whatever its run is doing.
DispatchableAnytime(t) == turn[t] = "pending" \/ (turn[t] = "running" /\ t \in turnLate)

Dispatchable(t) ==
    \/ turn[t] = "pending" /\ row = "awaiting_input"
    \/ turn[t] = "running" /\ t \in turnLate

\* ClaimNextTurn: the run goes back to running, its claimed_at is left alone.
ClaimNextTurn(w, t) ==
    /\ Free(w)
    /\ kind = "agent"
    /\ Dispatchable(t)
    /\ \A u \in Turns : u < t => ~Dispatchable(u)
    /\ turn' = [turn EXCEPT ![t] = "running"]
    /\ turnLate' = turnLate \ {t}
    /\ row' = "running"
    /\ mine' = [mine EXCEPT ![w] = t]
    /\ Goto(w, "tstart")
    /\ UNCHANGED <<fixed, history, tree, server, job, overage, leaseOver, resVars, verdict, flag,
                   handle, reaper, webVars, faults, crashes>>

\* ClaimNextFinishingRun.
ClaimNextFinishingRun(w) ==
    /\ Free(w)
    /\ row = "finishing"
    /\ row' = "running"
    /\ Goto(w, "handoff")
    /\ UNCHANGED <<fixed, history, tree, server, job, turn, overage, leaseOver, turnLate, resVars,
                   mine, verdict, flag, handle, reaper, webVars, faults, crashes>>

\* reapExpiredAgents: list, then tear down, then write, without a second look.
ReapList ==
    /\ server = "up" /\ reaper = "idle"
    /\ kind = "agent" /\ row = "awaiting_input" /\ overage
    /\ reaper' = "listed"
    /\ UNCHANGED <<fixed, history, server, runVars, resVars, workVars, webVars, faults, crashes>>

\* Slip: the reaper drops the token and the workspace only.
ReapKeepsContainer ==
    /\ reaper = "listed"
    /\ token' = FALSE /\ workspace' = "none"
    /\ reaper' = "torn"
    /\ UNCHANGED <<fixed, history, server, runVars, container, branch, workVars, webVars, faults,
                   crashes>>

ReapTearDown ==
    /\ reaper = "listed"
    /\ TearDown
    /\ reaper' = "torn"
    /\ UNCHANGED <<fixed, history, server, runVars, branch, workVars, webVars, faults, crashes>>

ReapFinish ==
    /\ reaper = "torn"
    /\ job' = "success"
    /\ row' = "canceled"
    /\ reaper' = "idle"
    /\ UNCHANGED <<fixed, history, server, turn, overage, leaseOver, turnLate, resVars, workVars,
                   webVars, faults, crashes>>

-----------------------------------------------------------------------------
(* executeAgentRun                                                         *)

\* No such repository, issue, spec or model: the verdict is written at once.
SetupFails(w) ==
    /\ pc[w] = "setup"
    /\ Goto(w, "abort")
    /\ UNCHANGED <<fixed, history, tree, server, runVars, resVars, mine, verdict, flag, handle,
                   reaper, webVars, faults, crashes>>

\* A fresh workspace; a failed checkout removes it again.
Workspace(w) ==
    /\ pc[w] = "setup"
    /\ \/ workspace' = "base" /\ Goto(w, "job")
       \/ workspace' = "none" /\ Goto(w, "abort")
    /\ UNCHANGED <<fixed, history, tree, server, runVars, token, container, branch, mine, verdict,
                   flag, handle, reaper, webVars, faults, crashes>>

\* CreateJob resets an existing row; StartJob.
CreateAgentJob(w) ==
    /\ pc[w] = "job"
    /\ job' = "running"
    /\ Goto(w, "mint")
    /\ UNCHANGED <<fixed, history, tree, server, row, turn, overage, leaseOver, turnLate, resVars,
                   mine, verdict, flag, handle, reaper, webVars, faults, crashes>>

CreateAgentJobFails(w) ==
    /\ pc[w] = "job"
    /\ Fault
    /\ workspace' = "none"
    /\ Goto(w, "abort")
    /\ UNCHANGED <<fixed, history, tree, server, runVars, token, container, branch, mine, verdict,
                   flag, handle, reaper, webVars, crashes>>

\* CreateToken: the name is unique per run, so a second mint fails.
MintToken(w) ==
    /\ pc[w] = "mint"
    /\ \/ ~token /\ token' = TRUE /\ Goto(w, "open") /\ UNCHANGED verdict
       \/ Conclude(w, "error") /\ UNCHANGED token
    /\ UNCHANGED <<fixed, history, tree, server, runVars, container, workspace, branch, mine,
                   flag, handle, reaper, webVars, faults, crashes>>

\* docker run: fails when the name is taken, and for reasons of its own.
OpenSession(w) ==
    /\ pc[w] = "open"
    /\ \/ ~container /\ container' = TRUE /\ Goto(w, "register") /\ UNCHANGED verdict
       \/ Conclude(w, "error") /\ UNCHANGED container
    /\ UNCHANGED <<fixed, history, tree, server, runVars, token, workspace, branch, mine, flag,
                   handle, reaper, webVars, faults, crashes>>

\* registerAgentTurn.
RegisterTurn(w) ==
    /\ pc[w] = "register"
    /\ handle' = w
    /\ flag' = [flag EXCEPT ![w] = FALSE]
    /\ Goto(w, "turn")
    /\ UNCHANGED <<fixed, history, tree, server, runVars, resVars, mine, verdict, reaper, webVars,
                   faults, crashes>>

\* runAgentTurn and unregisterAgentTurn.  The turn completes only in a live
\* container, and may have edited the workspace, undone what was edited, or left
\* it alone.  An exec error is possible at any time (interrupt, deadline,
\* shutdown, a container that is gone); what such a turn has edited is dropped
\* with the run.
RunTurn(w) ==
    /\ pc[w] = "turn"
    /\ handle' = NoWorker
    /\ \/ /\ container
          /\ workspace' \in IF workspace \in {"base", "work"} THEN {"base", "work"} ELSE {workspace}
          /\ left' = IF Calm THEN workspace' ELSE left
          /\ Goto(w, "ended")
       \/ Goto(w, "broken") /\ UNCHANGED <<workspace, left>>
    /\ UNCHANGED <<fixed, withdrawn, server, runVars, token, container, branch, mine, verdict, flag,
                   tree, reaper, webVars, faults, crashes>>

\* FinishTurn for a follow-up turn; its error is ignored.
WriteTurn(w, v) ==
    \/ mine[w] = NoTurn /\ UNCHANGED <<turn, faults>>
    \/ mine[w] # NoTurn /\ turn' = [turn EXCEPT ![mine[w]] = v] /\ UNCHANGED faults
    \/ mine[w] # NoTurn /\ Fault /\ UNCHANGED turn

\* A flagged turn leaves everything to the canceller; a broken one ends the
\* run; a completed one is parked, or classified.
AfterTurn(w) ==
    /\ pc[w] \in {"ended", "broken"}
    /\ IF flag[w]
         THEN WriteTurn(w, "error") /\ Done(w)
       ELSE IF pc[w] = "broken"
         THEN WriteTurn(w, "error") /\ Conclude(w, "error") /\ UNCHANGED <<mine, flag>>
         ELSE /\ WriteTurn(w, "done")
              /\ Goto(w, IF kind = "agent" THEN "park" ELSE "verify")
              /\ UNCHANGED <<mine, verdict, flag>>
    /\ UNCHANGED <<fixed, history, tree, server, row, job, overage, leaseOver, turnLate, resVars,
                   handle, reaper, webVars, crashes>>

\* Slip: parking without the compare-and-set.
ParkBlindly(w) ==
    /\ pc[w] = "park"
    /\ row' = "awaiting_input" /\ Done(w)
    /\ UNCHANGED <<fixed, history, tree, server, job, turn, overage, leaseOver, turnLate, resVars,
                   handle, reaper, webVars, faults, crashes>>

\* MarkRunAwaitingInput is a compare-and-set; when it fails, failAgentRun.
Park(w) ==
    /\ pc[w] = "park"
    /\ IF row = "running"
         THEN row' = "awaiting_input" /\ Done(w)
         ELSE Conclude(w, "error") /\ UNCHANGED <<row, mine, flag>>
    /\ UNCHANGED <<fixed, history, tree, server, job, turn, overage, leaseOver, turnLate, resVars,
                   handle, reaper, webVars, faults, crashes>>

\* finalizeVerifyRun: a parseable classification is stamped on a branch.
FinalizeVerify(w) ==
    /\ pc[w] = "verify"
    /\ \/ job' = "error" /\ Conclude(w, "failed") /\ UNCHANGED branch
       \/ job' = "success" /\ Conclude(w, "success") /\ branch' \in {branch, workspace}
    /\ UNCHANGED <<fixed, history, tree, server, row, turn, overage, leaseOver, turnLate, token,
                   container, workspace, mine, flag, handle, reaper, webVars, faults, crashes>>

-----------------------------------------------------------------------------
(* dispatchTurn, finishAgentRun, and how a run ends                        *)

\* dispatchTurn binds to the container by name and registers.
DispatchTurn(w) ==
    /\ pc[w] = "tstart"
    /\ Goto(w, "register")
    /\ UNCHANGED <<fixed, history, tree, server, runVars, resVars, mine, verdict, flag, handle,
                   reaper, webVars, faults, crashes>>

\* dispatchTurn's failed lookups: the repository's (the run ends, nothing is
\* torn down), the event log's (only the turn ends), the job's (torn down
\* without a container name).
DispatchFails(w) ==
    /\ pc[w] = "tstart"
    /\ Fault
    /\ turn' = [turn EXCEPT ![mine[w]] = "error"]
    /\ \/ Goto(w, "abort") /\ UNCHANGED <<mine, verdict, flag, token, workspace>>
       \/ Done(w) /\ UNCHANGED <<token, workspace>>
       \/ /\ Goto(w, "abort") /\ token' = FALSE /\ workspace' = "none"
          /\ UNCHANGED <<mine, verdict, flag>>
    /\ UNCHANGED <<fixed, history, tree, server, row, job, overage, leaseOver, turnLate,
                   container, branch, handle, reaper, webVars, crashes>>

\* finishAgentRun holds no handle, so nothing interrupts it.  Its first git
\* commands (read-tree, add -A, write-tree) make a tree of what is in the
\* workspace; without a workspace they fail, and as anything may before them
\* (the lookups) that ends the run.
ReadWorkspace(w) ==
    /\ pc[w] = "handoff"
    /\ \/ /\ workspace # "none"
          /\ tree' = [tree EXCEPT ![w] = workspace]
          /\ Goto(w, "commit")
          /\ UNCHANGED verdict
       \/ Conclude(w, "error") /\ UNCHANGED tree
    /\ UNCHANGED <<fixed, history, server, runVars, resVars, mine, flag, handle, reaper, webVars,
                   faults, crashes>>

\* Slip: a branch that could not be created does not fail the run.
CommitOptimistically(w) ==
    /\ pc[w] = "commit"
    /\ tree' = [tree EXCEPT ![w] = "none"]
    /\ branch' \in {branch, IF tree[w] = "base" THEN branch ELSE tree[w]}
    /\ Goto(w, "report")
    /\ UNCHANGED <<fixed, history, server, runVars, token, container, workspace, mine, verdict,
                   flag, handle, reaper, webVars, faults, crashes>>

\* commit-tree and update-ref: nothing is made of a tree that is the base's.
CommitBranch(w) ==
    /\ pc[w] = "commit"
    /\ tree' = [tree EXCEPT ![w] = "none"]
    /\ \/ /\ branch' = IF tree[w] = "base" THEN branch ELSE tree[w]
          /\ Goto(w, "report")
          /\ UNCHANGED verdict
       \/ Conclude(w, "error") /\ UNCHANGED branch
    /\ UNCHANGED <<fixed, history, server, runVars, token, container, workspace, mine, flag,
                   handle, reaper, webVars, faults, crashes>>

\* The comment on the issue, and the job; the run's status comes after the
\* teardown.
ReportHandoff(w) ==
    /\ pc[w] = "report"
    /\ job' = "success"
    /\ Conclude(w, "success")
    /\ UNCHANGED <<fixed, history, server, row, turn, overage, leaseOver, turnLate, resVars, mine,
                   flag, tree, handle, reaper, webVars, faults, crashes>>

\* tearDownAgent.
TearDownAgent(w) ==
    /\ pc[w] = "teardown"
    /\ TearDown
    /\ Goto(w, "finish")
    /\ UNCHANGED <<fixed, history, tree, server, runVars, branch, mine, verdict, flag, handle,
                   reaper, webVars, faults, crashes>>

\* finish; failAgentRun errors the job first.  FinishRun has no guard.
FinishAgentRun(w) ==
    /\ pc[w] = "finish"
    /\ job' = IF verdict[w] = "error" THEN "error" ELSE job
    /\ row' = verdict[w]
    /\ Done(w)
    /\ UNCHANGED <<fixed, history, tree, server, turn, overage, leaseOver, turnLate, resVars,
                   handle, reaper, webVars, faults, crashes>>

\* finish(RunError) alone.
Abort(w) ==
    /\ pc[w] = "abort"
    /\ row' = "error"
    /\ Done(w)
    /\ UNCHANGED <<fixed, history, tree, server, job, turn, overage, leaseOver, turnLate, resVars,
                   handle, reaper, webVars, faults, crashes>>

-----------------------------------------------------------------------------
(* Time, shutdown, crash, startup                                          *)

\* The goroutine of the first turn is bounded by AgentTurnTimeout, well below
\* the cap on the session's lifetime.
PastFirstTurn ==
    \A w \in Workers : pc[w] \in {"idle", "handoff", "commit", "report"} \/ mine[w] # NoTurn

\* The session outlives AgentRunTimeout.
GrowOld ==
    /\ row \in Active \ {"queued"}
    /\ ~overage /\ PastFirstTurn
    /\ overage' = TRUE
    /\ UNCHANGED <<fixed, history, server, row, job, turn, leaseOver, turnLate, resVars, workVars,
                   reaper, webVars, faults, crashes>>

\* ... and then agentLease, five minutes later: a follow-up turn or a handoff
\* claimed just below the cap is still in flight.
LeaseExpires ==
    /\ scenario.leases
    /\ row = "running" /\ overage /\ ~leaseOver
    /\ PastFirstTurn
    /\ leaseOver' = TRUE
    /\ UNCHANGED <<fixed, history, server, row, job, turn, overage, turnLate, resVars, workVars,
                   reaper, webVars, faults, crashes>>

\* A turn whose goroutine is gone outlives turnLease.
TurnExpires(t) ==
    /\ scenario.leases
    /\ turn[t] = "running" /\ t \notin turnLate
    /\ \A w \in Workers : mine[w] # t
    /\ turnLate' = turnLate \cup {t}
    /\ UNCHANGED <<fixed, history, server, row, job, turn, overage, leaseOver, resVars, workVars,
                   reaper, webVars, faults, crashes>>

Shutdown ==
    /\ server = "up" /\ crashes < scenario.crashes
    /\ crashes' = crashes + 1
    /\ server' = "draining"
    /\ UNCHANGED <<fixed, history, runVars, resVars, workVars, reaper, webVars, faults>>

\* The runner has drained.  httpSrv.Shutdown has waited ten seconds for the
\* handlers: one that is still at work ends with the process.
Exit ==
    /\ server = "draining"
    /\ reaper = "idle"
    /\ \A w \in Workers : pc[w] = "idle"
    /\ server' = "down"
    /\ op' = [c \in Callers |-> "idle"]
    /\ sawJob' = [c \in Callers |-> FALSE]
    /\ UNCHANGED <<fixed, history, runVars, resVars, workVars, reaper, faults, crashes>>

Crash ==
    /\ server # "down" /\ crashes < scenario.crashes
    /\ crashes' = crashes + 1
    /\ server' = "down"
    /\ pc' = [w \in Workers |-> "idle"]
    /\ mine' = [w \in Workers |-> NoTurn]
    /\ verdict' = [w \in Workers |-> "error"]
    /\ flag' = [w \in Workers |-> FALSE]
    /\ tree' = [w \in Workers |-> "none"]
    /\ handle' = NoWorker
    /\ reaper' = "idle"
    /\ op' = [c \in Callers |-> "idle"]
    /\ sawJob' = [c \in Callers |-> FALSE]
    /\ UNCHANGED <<fixed, history, runVars, resVars, faults>>

\* Rows in one of the statuses of `orphans` are finalized with their job and
\* their open turns; tokens of agent runs and labelled containers go.
Sweep(orphans) ==
    /\ server = "down"
    /\ server' = "up"
    /\ row' = IF row \in orphans THEN "interrupted" ELSE row
    /\ job' = IF row \in orphans /\ job \in {"queued", "running"} THEN "interrupted" ELSE job
    /\ turn' = [t \in Turns |-> IF row \in orphans /\ turn[t] \in {"pending", "running"}
                                 THEN "error" ELSE turn[t]]
    /\ token' = FALSE
    /\ container' = FALSE
    /\ UNCHANGED <<fixed, history, overage, leaseOver, turnLate, workspace, branch, workVars,
                   reaper, webVars, faults, crashes>>

\* Slip: running runs are left to their leases.
StartupKeepsRunning == Sweep({"awaiting_input", "finishing"})

\* run's first lines: ReconcileOrphanRuns, RevokeAgentRunTokens,
\* sweepOrphanContainers.
Startup == Sweep({"running", "awaiting_input", "finishing"})

-----------------------------------------------------------------------------
Init ==
    /\ scenario \in Scenarios
    /\ server = "up"
    /\ kind \in Kinds
    /\ row = "absent" /\ job = "absent"
    /\ turn = [t \in Turns |-> "absent"]
    /\ overage = FALSE /\ leaseOver = FALSE /\ turnLate = {}
    /\ token = FALSE /\ container = FALSE /\ workspace = "none" /\ branch = "none"
    /\ pc = [w \in Workers |-> "idle"]
    /\ mine = [w \in Workers |-> NoTurn]
    /\ verdict = [w \in Workers |-> "error"]
    /\ flag = [w \in Workers |-> FALSE]
    /\ tree = [w \in Workers |-> "none"]
    /\ handle = NoWorker
    /\ reaper = "idle"
    /\ op = [c \in Callers |-> "idle"]
    /\ sawJob = [c \in Callers |-> FALSE]
    /\ left = "none" /\ withdrawn = FALSE
    /\ faults = 0 /\ crashes = 0

Work(w) ==
    \/ SetupFails(w) \/ Workspace(w) \/ CreateAgentJob(w) \/ CreateAgentJobFails(w)
    \/ MintToken(w) \/ OpenSession(w) \/ RegisterTurn(w) \/ RunTurn(w) \/ AfterTurn(w)
    \/ Park(w) \/ FinalizeVerify(w) \/ DispatchTurn(w) \/ DispatchFails(w)
    \/ ReadWorkspace(w) \/ CommitBranch(w) \/ ReportHandoff(w)
    \/ TearDownAgent(w) \/ FinishAgentRun(w) \/ Abort(w)

Claim(w) ==
    \/ ClaimRun(w) \/ ClaimNextFinishingRun(w)
    \/ \E t \in Turns : ClaimNextTurn(w, t)

Reap == ReapList \/ ReapTearDown \/ ReapFinish

Answer(c) ==
    \/ CancelFlag(c) \/ CancelJob(c) \/ CancelTearDown(c) \/ CancelRemoveAll(c)
    \/ EnqueueTurnFails(c)
    \/ \E t \in Turns : EnqueueTurn(c, t)

Next ==
    \/ Spawn \/ MarkRunFinishing \/ Reap \/ GrowOld \/ LeaseExpires
    \/ \E t \in Turns : TurnExpires(t)
    \/ \E w \in Workers : Work(w) \/ Claim(w)
    \/ \E c \in Callers : AskTurn(c) \/ CancelCAS(c) \/ Answer(c)
    \/ Shutdown \/ Exit \/ Crash \/ Startup

Spec == Init /\ [][Next]_vars

\* Goroutines and handlers in progress go on, the drain loop polls, the
\* process is restarted, and time passes.
Fairness ==
    /\ \A w \in Workers : WF_vars(Work(w)) /\ WF_vars(Claim(w))
    /\ \A c \in Callers : WF_vars(Answer(c))
    /\ WF_vars(Reap) /\ WF_vars(GrowOld) /\ WF_vars(LeaseExpires)
    /\ WF_vars(Exit) /\ WF_vars(Startup)

FairSpec == Spec /\ Fairness

-----------------------------------------------------------------------------
(* Properties                                                              *)

\* No goroutine and no handler is in the middle of something.
Quiet ==
    /\ server = "up" /\ reaper = "idle"
    /\ \A w \in Workers : pc[w] = "idle"
    /\ \A c \in Callers : op[c] = "idle"

\* However a run ended (verdict, cancel at any moment of any goroutine, reaper,
\* crash and startup sweep), once everybody is done its container is gone and
\* its token is revoked.
TerminalIsClean == Quiet /\ row \in Terminal => ~container /\ ~token

\* "finalize any such orphans now rather than leaving the UI with a job stuck
\* forever" (run, ReconcileOrphanRuns): the job of a run that has ended, with
\* nobody left to touch it, is not queued or running.  A crash in the middle of
\* an operator's cancel is excepted: its run is terminal before its job is, and
\* the reconciliation only looks at the jobs of active runs.
NoStuckJob ==
    Quiet /\ row \in Terminal /\ (row = "canceled" => crashes = 0) => job \notin {"queued", "running"}

\* A parked run can be resumed: container, token and job are there, the workspace
\* is as its last turn left it, and no goroutine works on it, unless the reaper is
\* taking it down.
ParkedIsWhole ==
    row = "awaiting_input" /\ reaper = "idle" /\ server = "up" =>
        /\ container /\ token /\ job = "running"
        /\ workspace = left /\ workspace \in {"base", "work"}
        /\ \A w \in Workers : pc[w] = "idle"

\* At rest a run is whole or it is gone: parked with everything it needs to go
\* on, or ended with nothing left behind.
WholeOrGone == Calm => TerminalIsClean /\ NoStuckJob /\ ParkedIsWhole

\* An agent run that ended in success has on its branch what its last turn left
\* in the workspace, all of it, and no branch if that was the checkout as it was,
\* although turns, reaper, restarts and a handoff of several steps shared the
\* workspace (finishAgentRun).  Unless a cancel was accepted: CancelAgentRun
\* removes the workspace under a handoff that does not know of it, which may then
\* commit what remains and write success over canceled.
SuccessHasBranch ==
    Calm /\ kind = "agent" /\ row = "success" /\ ~withdrawn =>
        /\ left \in {"base", "work"}
        /\ branch = IF left = "base" THEN "none" ELSE left

\* Two goroutines never drive the run at the same time, through claims, turns,
\* handoffs, cancels and restarts, as long as no claim outlives its lease.
OneDriver ==
    Calm => \A v, w \in Workers : pc[v] # "idle" /\ pc[w] # "idle" => v = w

\* A finished run never becomes active again, whatever is still in flight (with
\* a turn whose result could not be written it does: ClaimNextTurn).
NeverResurrected == [][Calm /\ row \in Terminal => row' \in Terminal]_vars

\* "CAS to canceled first so it's authoritative: a turn goroutine racing to
\* park ... then no-ops" (CancelAgentRun): a canceled run stays canceled.
CancelSticks == [][row = "canceled" => row' = "canceled"]_vars

\* A claimed run does not stay running for ever: it parks or it ends, also when
\* calls fail, leases run out and its claim is stolen.  A run whose finish was
\* accepted reaches a verdict.
RunSettles ==
    /\ row = "running" ~> row \in Terminal \cup {"awaiting_input"}
    /\ row = "finishing" ~> row \in Terminal

\* "an abandoned session can't hold a container forever" (AgentRunTimeout), as
\* long as dispatchTurn's lookups succeed (one of its error paths ends the run
\* without a teardown) and no claim outlives its lease.
ContainerReleased == [](faults = 0 /\ ~leaseOver) => (container ~> ~container)
=============================================================================
