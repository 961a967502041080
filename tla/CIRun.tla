-------------------------------- MODULE CIRun --------------------------------
(***************************************************************************)
(* The life of the CI runs of one ref: pushes that supersede older runs,   *)
(* operator cancels, the claim, the goroutine that executes a run          *)
(* (executeRun, runWave, runJob), deadline, graceful shutdown, crash and   *)
(* the startup reconciliation.                                             *)
(*                                                                         *)
(* SQLite has one writer connection, so every write of a storage function  *)
(* is one atomic step.  Between two of them anything else may happen.      *)
(*                                                                         *)
(* Source: cmd/codefortd/ci_runner.go, cmd/codefortd/agent_runner.go       *)
(* (CancelCIRun), internal/storage/ci.go, internal/server/ci_hook.go.      *)
(***************************************************************************)
EXTENDS Naturals, FiniteSets, RunStates

CONSTANTS
    Runs,              \* run ids, 1..n: EnqueueRun hands them out in order
    Jobs,              \* the job names of the pipeline
    Needs,             \* Needs[j]: the jobs j depends on
    Callers,           \* concurrent HTTP handlers: pushes and cancel requests
    CIJobConcurrency,  \* jobs of one run in flight at once
    MaxFaults,         \* bound: database writes that may fail
    MaxCrashes         \* bound: times the process dies or is restarted

ASSUME RunsAssumption == Runs \subseteq Nat \ {0}
ASSUME NeedsAssumption == Needs \in [Jobs -> SUBSET Jobs]
ASSUME LimitAssumption == CIJobConcurrency \in Nat \ {0}
ASSUME BoundsAssumption == MaxFaults \in Nat /\ MaxCrashes \in Nat

NoRun == 0

VARIABLES
    server,    \* the process: "starting", "up", "draining" or "down"
    \* ci_runs and ci_jobs
    row,       \* row[r]: ci_runs.status, or "absent"
    job,       \* job[r][j]: ci_jobs.status, or "absent"
    expired,   \* running rows whose claimed_at is older than the lease
    \* the goroutine of executeRun, one per claimed run
    pc,        \* pc[r]: where it is, "none" when there is no goroutine
    ctx,       \* ctx[r]: "ok", "canceled" or "deadline" (ctx.Err())
    handle,    \* handle[r]: r is registered in runCancels
    flag,      \* flag[r]: handle.canceled
    status,    \* status[r][j]: the in-memory map, "pending" when unresolved
    todo,      \* todo[r]: jobs the current scheduling pass has not looked at
    ready,     \* ready[r]: jobs of the wave (collected, then in flight)
    final,     \* final[r]: the verdict about to be written
    \* HTTP handlers
    caller,    \* caller[c]: an enqueueRefRun or a handleCancelRun in progress
    \* history
    stopped,   \* runs flagged by a cancel while their jobs were scheduled
    faults, crashes

dbVars     == <<row, job, expired>>
execVars   == <<pc, ctx, handle, flag, status, todo, ready, final>>
vars == <<server, dbVars, execVars, caller, stopped, faults, crashes>>

PC == {"none", "gate", "checkout", "create", "loop", "scan", "wave",
       "leftover", "verdict", "finish", "cleanup"}

\* The code between the scheduling loop's entry and the choice of the verdict.
Scheduling == {"loop", "scan", "wave", "leftover", "verdict"}

\* A handler: what it does, the runs it has yet to cancel, and the one whose
\* handle it looked up in vain.
Handler(what, stale, missed) ==
    [op |-> what, stale |-> stale, missed |-> missed]

Idle == Handler("idle", {}, NoRun)

-----------------------------------------------------------------------------
(* Enqueueing                                                              *)

\* EnqueueRun: the next id, in order.
NextRun(r) == row[r] = "absent" /\ \A q \in Runs : q < r => row[q] # "absent"

\* httpSrv.Shutdown turns new requests away as soon as the drain begins.
Serving == server \in {"starting", "up"}

\* handleTriggerCIRun, handleRerunCIRun and the cron scheduler's maybeFire:
\* a run is queued and nothing is superseded.
Trigger(r) ==
    /\ Serving
    /\ NextRun(r)
    /\ row' = [row EXCEPT ![r] = "queued"]
    /\ UNCHANGED <<server, job, expired, execVars, caller, stopped, faults, crashes>>

\* enqueueRefRun up to the supersede query (ActiveCIRunIDsForRef).
Push(c) ==
    /\ Serving
    /\ caller[c].op = "idle"
    /\ \E r \in Runs : row[r] = "absent"
    /\ LET active == {r \in Runs : row[r] \in {"queued", "running"}} IN
       caller' = [caller EXCEPT ![c] = Handler("push", active, NoRun)]
    /\ UNCHANGED <<server, dbVars, execVars, stopped, faults, crashes>>

\* enqueueRefRun's last call: every stale run has been told to stop.
EnqueuePushed(c, r) ==
    /\ caller[c].op = "push"
    /\ caller[c].stale = {}
    /\ NextRun(r)
    /\ row' = [row EXCEPT ![r] = "queued"]
    /\ caller' = [caller EXCEPT ![c] = Idle]
    /\ UNCHANGED <<server, job, expired, execVars, stopped, faults, crashes>>

\* The insert fails: the push is answered 500, its stale runs stay canceled.
EnqueuePushedFails(c) ==
    /\ caller[c].op = "push"
    /\ caller[c].stale = {}
    /\ caller' = [caller EXCEPT ![c] = Idle]
    /\ UNCHANGED <<server, dbVars, execVars, stopped, faults, crashes>>

-----------------------------------------------------------------------------
(* Cancelling: the runner's CancelCIRun, called by handleCancelRun and by  *)
(* the supersede loop of enqueueRefRun                                     *)

StopRequest(c, r) ==
    /\ Serving
    /\ caller[c].op = "idle"
    /\ row[r] # "absent"
    /\ caller' = [caller EXCEPT ![c] = Handler("stop", {r}, NoRun)]
    /\ UNCHANGED <<server, dbVars, execVars, stopped, faults, crashes>>

\* One call has returned; a push goes on with the next stale run.
Answered(c, r) ==
    [caller EXCEPT ![c] = IF @.op = "stop" THEN Idle
                          ELSE Handler("push", @.stale \ {r}, NoRun)]

\* A registered handle: raise its flag, cancel its context, report true.
CancelRunning(c, r) ==
    /\ r \in caller[c].stale
    /\ caller[c].missed = NoRun
    /\ handle[r]
    /\ flag' = [flag EXCEPT ![r] = TRUE]
    /\ ctx' = [ctx EXCEPT ![r] = IF @ = "ok" THEN "canceled" ELSE @]
    /\ stopped' = IF pc[r] \in Scheduling THEN stopped \cup {r} ELSE stopped
    /\ caller' = Answered(c, r)
    /\ UNCHANGED <<server, dbVars, pc, handle, status, todo, ready, final,
                   faults, crashes>>

\* No handle: the run is not executing yet, or not any more.
CancelLookupMisses(c, r) ==
    /\ r \in caller[c].stale
    /\ caller[c].missed = NoRun
    /\ ~handle[r]
    /\ caller' = [caller EXCEPT ![c] = Handler(@.op, @.stale, r)]
    /\ UNCHANGED <<server, dbVars, execVars, stopped, faults, crashes>>

\* Slip: the update without its status guard.
CancelQueuedBlindly(c) ==
    LET r == caller[c].missed IN
    /\ r # NoRun
    /\ row' = [row EXCEPT ![r] = "canceled"]
    /\ caller' = Answered(c, r)
    /\ UNCHANGED <<server, job, expired, execVars, stopped, faults, crashes>>

\* storage.CancelCIRun: compare-and-set queued -> canceled.
CancelQueued(c) ==
    LET r == caller[c].missed IN
    /\ r # NoRun
    /\ IF row[r] = "queued"
         THEN row' = [row EXCEPT ![r] = "canceled"]
         ELSE UNCHANGED row
    /\ caller' = Answered(c, r)
    /\ UNCHANGED <<server, job, expired, execVars, stopped, faults, crashes>>

-----------------------------------------------------------------------------
(* Executing a run                                                         *)

\* Slip: no recovery of runs whose claim went stale.
ClaimableQueued(r) == row[r] = "queued"

Claimable(r) == row[r] = "queued" \/ (row[r] = "running" /\ r \in expired)

\* drainKind: ClaimNextRunOfKind takes the oldest claimable run and its
\* goroutine starts.
ClaimNextRun(r) ==
    /\ server = "up"
    /\ Claimable(r)
    /\ \A q \in Runs : q < r => ~Claimable(q)
    /\ row' = [row EXCEPT ![r] = "running"]
    /\ expired' = expired \ {r}
    /\ pc' = [pc EXCEPT ![r] = "gate"]
    /\ UNCHANGED <<server, job, ctx, handle, flag, status, todo, ready, final,
                   caller, stopped, faults, crashes>>

\* The goroutine goes on to write a verdict.
Conclude(r, v) ==
    /\ pc' = [pc EXCEPT ![r] = "finish"]
    /\ final' = [final EXCEPT ![r] = v]

\* executeRun up to the workspace: an unreadable repository or pipeline, a bad
\* DAG or a full disk is an error, a disabled repository or a commit without a
\* pipeline is gated.
Gated(r) ==
    /\ pc[r] = "gate"
    /\ \E v \in {"error", "canceled"} : Conclude(r, v)
    /\ UNCHANGED <<server, dbVars, ctx, handle, flag, status, todo, ready,
                   caller, stopped, faults, crashes>>

\* The handle is registered under a context derived from the runner's.
Register(r) ==
    /\ pc[r] = "gate"
    /\ pc' = [pc EXCEPT ![r] = "checkout"]
    /\ handle' = [handle EXCEPT ![r] = TRUE]
    /\ flag' = [flag EXCEPT ![r] = FALSE]
    /\ ctx' = [ctx EXCEPT ![r] = IF server = "draining" THEN "canceled" ELSE "ok"]
    /\ UNCHANGED <<server, dbVars, status, todo, ready, final, caller, stopped, faults, crashes>>

\* git clone and checkout run under the context: a canceled one fails them.
Checkout(r) ==
    /\ pc[r] = "checkout"
    /\ ctx[r] = "ok"
    /\ pc' = [pc EXCEPT ![r] = "create"]
    /\ UNCHANGED <<server, dbVars, ctx, handle, flag, status, todo, ready, final,
                   caller, stopped, faults, crashes>>

CheckoutFails(r) ==
    /\ pc[r] = "checkout"
    /\ Conclude(r, "error")
    /\ UNCHANGED <<server, dbVars, ctx, handle, flag, status, todo, ready,
                   caller, stopped, faults, crashes>>

\* CreateJob for every job, in an order compatible with Needs; an existing row
\* is reset to queued.
CreateJobs(r) ==
    /\ pc[r] = "create"
    /\ job' = [job EXCEPT ![r] = [j \in Jobs |-> "queued"]]
    /\ status' = [status EXCEPT ![r] = [j \in Jobs |-> "pending"]]
    /\ pc' = [pc EXCEPT ![r] = "loop"]
    /\ UNCHANGED <<server, row, expired, ctx, handle, flag, todo, ready, final,
                   caller, stopped, faults, crashes>>

\* One of the inserts fails after those of `done`.
CreateJobFails(r) ==
    /\ pc[r] = "create"
    /\ faults < MaxFaults
    /\ faults' = faults + 1
    /\ \E done \in SUBSET Jobs :
          /\ done # Jobs
          /\ \A j \in done : Needs[j] \subseteq done
          /\ job' = [job EXCEPT ![r] = [j \in Jobs |-> IF j \in done THEN "queued" ELSE @[j]]]
    /\ Conclude(r, "error")
    /\ UNCHANGED <<server, row, expired, ctx, handle, flag, status, todo, ready,
                   caller, stopped, crashes>>

Pending(r) == {j \in Jobs : status[r][j] = "pending"}

\* Slip: a dependency that has no result yet does not hold its dependents back.
ClassifyReadyEarly(r, j) == \A d \in Needs[j] : status[r][d] \in {"pending", "success"}

\* classifyJob.
ClassifyReady(r, j) == \A d \in Needs[j] : status[r][d] = "success"
ClassifySkip(r, j) == \E d \in Needs[j] : status[r][d] \notin {"pending", "success"}

\* The loop's head: a new pass over the pending jobs...
StartPass(r) ==
    /\ pc[r] = "loop"
    /\ Pending(r) # {} /\ ctx[r] = "ok"
    /\ pc' = [pc EXCEPT ![r] = "scan"]
    /\ todo' = [todo EXCEPT ![r] = Pending(r)]
    /\ UNCHANGED <<server, dbVars, ctx, handle, flag, status, ready, final,
                   caller, stopped, faults, crashes>>

\* ... or out.
LeaveLoop(r) ==
    /\ pc[r] = "loop"
    /\ Pending(r) = {} \/ ctx[r] # "ok"
    /\ pc' = [pc EXCEPT ![r] = "leftover"]
    /\ UNCHANGED <<server, dbVars, ctx, handle, flag, status, todo, ready, final,
                   caller, stopped, faults, crashes>>

\* One iteration of `for jn := range pending`: Go visits a map in any order.
\* A dependency that did not succeed: the job is skipped.
SkipJob(r, j) ==
    /\ pc[r] = "scan"
    /\ j \in todo[r]
    /\ ClassifySkip(r, j)
    /\ todo' = [todo EXCEPT ![r] = @ \ {j}]
    /\ status' = [status EXCEPT ![r][j] = "skipped"]
    /\ job' = [job EXCEPT ![r][j] = "skipped"]
    /\ UNCHANGED <<server, row, expired, pc, ctx, handle, flag, ready, final,
                   caller, stopped, faults, crashes>>

\* Otherwise it joins the wave or waits for a later pass.
CollectJob(r, j) ==
    /\ pc[r] = "scan"
    /\ j \in todo[r]
    /\ ~ClassifySkip(r, j)
    /\ todo' = [todo EXCEPT ![r] = @ \ {j}]
    /\ ready' = [ready EXCEPT ![r] = IF ClassifyReady(r, j) THEN @ \cup {j} ELSE @]
    /\ UNCHANGED <<server, dbVars, pc, ctx, handle, flag, status, final,
                   caller, stopped, faults, crashes>>

\* The pass is over: launch the wave...
LaunchWave(r) ==
    /\ pc[r] = "scan"
    /\ todo[r] = {} /\ ready[r] # {}
    /\ pc' = [pc EXCEPT ![r] = "wave"]
    /\ UNCHANGED <<server, dbVars, ctx, handle, flag, status, todo, ready, final,
                   caller, stopped, faults, crashes>>

\* ... or, when it found nothing to run, give up on what is pending.
NothingReady(r) ==
    /\ pc[r] = "scan"
    /\ todo[r] = {} /\ ready[r] = {}
    /\ pc' = [pc EXCEPT ![r] = "leftover"]
    /\ status' = [status EXCEPT ![r] =
                    [j \in Jobs |-> IF j \in Pending(r) THEN "error" ELSE @[j]]]
    /\ job' = [job EXCEPT ![r] = [j \in Jobs |-> IF j \in Pending(r) THEN "error" ELSE @[j]]]
    /\ UNCHANGED <<server, row, expired, ctx, handle, flag, todo, ready, final,
                   caller, stopped, faults, crashes>>

\* runJob takes a semaphore slot and starts the job.
StartJob(r, j) ==
    /\ pc[r] = "wave"
    /\ j \in ready[r]
    /\ job[r][j] = "queued"
    /\ Cardinality({k \in ready[r] : job[r][k] = "running"}) < CIJobConcurrency
    /\ job' = [job EXCEPT ![r][j] = "running"]
    /\ UNCHANGED <<server, row, expired, execVars, caller, stopped, faults, crashes>>

\* runJob's outcomes.  A cut-short session is interrupted only when the
\* context was canceled; anything else that keeps the plan from running, a
\* passed deadline included, is an error.
FinishJob(r, j) ==
    /\ pc[r] = "wave"
    /\ j \in ready[r]
    /\ \E v \in {"success", "failed", "error", "interrupted"} :
          /\ \/ job[r][j] = "running"
             \/ job[r][j] = "queued" /\ v = "error"  \* no plan or no event log
          /\ v = "interrupted" => ctx[r] = "canceled"
          /\ job' = [job EXCEPT ![r][j] = v]
    /\ UNCHANGED <<server, row, expired, execVars, caller, stopped, faults, crashes>>

\* runWave returns once every goroutine of the wave has: the results are
\* merged into the map.
WaveDone(r) ==
    /\ pc[r] = "wave"
    /\ \A j \in ready[r] : job[r][j] \in JobTerminal
    /\ status' = [status EXCEPT ![r] =
                    [j \in Jobs |-> IF j \in ready[r] THEN job[r][j] ELSE @[j]]]
    /\ pc' = [pc EXCEPT ![r] = "loop"]
    /\ ready' = [ready EXCEPT ![r] = {}]
    /\ UNCHANGED <<server, dbVars, ctx, handle, flag, todo, final,
                   caller, stopped, faults, crashes>>

\* Slip: the jobs that never started keep their rows.
LeftoverForgotten(r) ==
    /\ pc[r] = "leftover"
    /\ pc' = [pc EXCEPT ![r] = "verdict"]
    /\ UNCHANGED <<server, dbVars, ctx, handle, flag, status, todo, ready, final,
                   caller, stopped, faults, crashes>>

\* Jobs that never started get a terminal status when the context ended.
Leftover(r) ==
    /\ pc[r] = "leftover"
    /\ pc' = [pc EXCEPT ![r] = "verdict"]
    /\ job' = [job EXCEPT ![r] =
                 [j \in Jobs |-> IF j \notin Pending(r) \/ ctx[r] = "ok" THEN @[j]
                                 ELSE IF ctx[r] = "canceled" THEN "interrupted" ELSE "error"]]
    /\ UNCHANGED <<server, row, expired, ctx, handle, flag, status, todo, ready, final,
                   caller, stopped, faults, crashes>>

\* Slip: the context is consulted before the operator's flag.
FinalByContext(r) ==
    IF ctx[r] = "canceled" THEN (IF flag[r] THEN "canceled" ELSE "interrupted")
    ELSE IF ctx[r] = "deadline" THEN "error"
    ELSE IF \A j \in Jobs : status[r][j] = "success" THEN "success"
    ELSE "failed"

\* executeRun's closing switch.
Final(r) ==
    IF flag[r] THEN "canceled"
    ELSE IF ctx[r] = "canceled" THEN "interrupted"
    ELSE IF ctx[r] = "deadline" THEN "error"
    ELSE IF \A j \in Jobs : status[r][j] = "success" THEN "success"
    ELSE "failed"

Verdict(r) ==
    /\ pc[r] = "verdict"
    /\ Conclude(r, Final(r))
    /\ UNCHANGED <<server, dbVars, ctx, handle, flag, status, todo, ready,
                   caller, stopped, faults, crashes>>

\* finish: FinishRun has no compare-and-set.
FinishRun(r) ==
    /\ pc[r] = "finish"
    /\ row' = [row EXCEPT ![r] = final[r]]
    /\ pc' = [pc EXCEPT ![r] = "cleanup"]
    /\ UNCHANGED <<server, job, expired, ctx, handle, flag, status, todo, ready, final,
                   caller, stopped, faults, crashes>>

\* The write fails: finish logs it and the goroutine ends all the same.
FinishRunFails(r) ==
    /\ pc[r] = "finish"
    /\ faults < MaxFaults
    /\ faults' = faults + 1
    /\ pc' = [pc EXCEPT ![r] = "cleanup"]
    /\ UNCHANGED <<server, dbVars, ctx, handle, flag, status, todo, ready, final,
                   caller, stopped, crashes>>

\* The deferred calls: the handle is dropped and the slot released.  The
\* goroutine's locals end with it.
Cleanup(r) ==
    /\ pc[r] = "cleanup"
    /\ pc' = [pc EXCEPT ![r] = "none"]
    /\ handle' = [handle EXCEPT ![r] = FALSE]
    /\ ctx' = [ctx EXCEPT ![r] = "ok"]
    /\ flag' = [flag EXCEPT ![r] = FALSE]
    /\ status' = [status EXCEPT ![r] = [j \in Jobs |-> "pending"]]
    /\ final' = [final EXCEPT ![r] = "error"]
    /\ UNCHANGED <<server, dbVars, todo, ready, caller, stopped, faults, crashes>>

-----------------------------------------------------------------------------
(* Time, shutdown, crash and restart                                       *)

\* CIRunTimeout fires.
Deadline(r) ==
    /\ handle[r]
    /\ ctx[r] = "ok"
    /\ ctx' = [ctx EXCEPT ![r] = "deadline"]
    /\ UNCHANGED <<server, dbVars, pc, handle, flag, status, todo, ready, final,
                   caller, stopped, faults, crashes>>

\* runLease is CIRunTimeout plus five minutes, so that only the row of a run
\* without a goroutine grows older than its lease.
LeaseExpires(r) ==
    /\ row[r] = "running"
    /\ pc[r] = "none"
    /\ r \notin expired
    /\ server = "up"
    /\ expired' = expired \cup {r}
    /\ UNCHANGED <<server, row, job, execVars, caller, stopped, faults, crashes>>

\* SIGTERM: the runner's context, the parent of every run's, is canceled.
Shutdown ==
    /\ server = "up"
    /\ crashes < MaxCrashes
    /\ crashes' = crashes + 1
    /\ server' = "draining"
    /\ ctx' = [r \in Runs |-> IF handle[r] /\ ctx[r] = "ok" THEN "canceled" ELSE ctx[r]]
    /\ UNCHANGED <<dbVars, pc, handle, flag, status, todo, ready, final,
                   caller, stopped, faults>>

\* runServe returns once the runner has drained.  httpSrv.Shutdown has waited ten
\* seconds for the handlers: one that is still at work ends with the process.
Exit ==
    /\ server = "draining"
    /\ \A r \in Runs : pc[r] = "none"
    /\ server' = "down"
    /\ caller' = [c \in Callers |-> Idle]
    /\ UNCHANGED <<dbVars, execVars, stopped, faults, crashes>>

\* SIGKILL (of a drain that hangs on a wedged step, too) or power loss: every
\* goroutine is gone, the rows stay.
Crash ==
    /\ server # "down"
    /\ crashes < MaxCrashes
    /\ crashes' = crashes + 1
    /\ server' = "down"
    /\ pc' = [r \in Runs |-> "none"]
    /\ ctx' = [r \in Runs |-> "ok"]
    /\ handle' = [r \in Runs |-> FALSE]
    /\ flag' = [r \in Runs |-> FALSE]
    /\ status' = [r \in Runs |-> [j \in Jobs |-> "pending"]]
    /\ todo' = [r \in Runs |-> {}]
    /\ ready' = [r \in Runs |-> {}]
    /\ final' = [r \in Runs |-> "error"]
    /\ caller' = [c \in Callers |-> Idle]
    /\ stopped' = {}
    /\ UNCHANGED <<dbVars, faults>>

\* runServe: the HTTP listener and the runner start side by side.
Restart ==
    /\ server = "down"
    /\ server' = "starting"
    /\ UNCHANGED <<dbVars, execVars, caller, stopped, faults, crashes>>

\* Slip: the reconciliation takes queued runs for orphans too.
ReconcileQueuedToo ==
    /\ server = "starting"
    /\ server' = "up"
    /\ row' = [r \in Runs |-> IF row[r] \in {"queued", "running"} THEN "interrupted" ELSE row[r]]
    /\ expired' = {}
    /\ UNCHANGED <<job, execVars, caller, stopped, faults, crashes>>

\* ReconcileOrphanRuns, one transaction before the first claim.
ReconcileOrphanRuns ==
    /\ server = "starting"
    /\ server' = "up"
    /\ row' = [r \in Runs |-> IF row[r] = "running" THEN "interrupted" ELSE row[r]]
    /\ job' = [r \in Runs |-> [j \in Jobs |->
                 IF row[r] = "running" /\ job[r][j] \in {"queued", "running"}
                   THEN "interrupted" ELSE job[r][j]]]
    /\ expired' = {}
    /\ UNCHANGED <<execVars, caller, stopped, faults, crashes>>

\* The transaction fails: logged, and the runner goes on.
ReconcileFails ==
    /\ server = "starting"
    /\ faults < MaxFaults
    /\ faults' = faults + 1
    /\ server' = "up"
    /\ UNCHANGED <<dbVars, execVars, caller, stopped, crashes>>

-----------------------------------------------------------------------------
Init ==
    /\ server = "up"
    /\ row = [r \in Runs |-> "absent"]
    /\ job = [r \in Runs |-> [j \in Jobs |-> "absent"]]
    /\ expired = {}
    /\ pc = [r \in Runs |-> "none"]
    /\ ctx = [r \in Runs |-> "ok"]
    /\ handle = [r \in Runs |-> FALSE]
    /\ flag = [r \in Runs |-> FALSE]
    /\ status = [r \in Runs |-> [j \in Jobs |-> "pending"]]
    /\ todo = [r \in Runs |-> {}]
    /\ ready = [r \in Runs |-> {}]
    /\ final = [r \in Runs |-> "error"]
    /\ caller = [c \in Callers |-> Idle]
    /\ stopped = {}
    /\ faults = 0 /\ crashes = 0

Execute(r) ==
    \/ Gated(r) \/ Register(r) \/ Checkout(r) \/ CheckoutFails(r)
    \/ CreateJobs(r) \/ CreateJobFails(r)
    \/ StartPass(r) \/ LeaveLoop(r) \/ LaunchWave(r) \/ NothingReady(r) \/ WaveDone(r)
    \/ Leftover(r) \/ Verdict(r) \/ FinishRun(r) \/ FinishRunFails(r) \/ Cleanup(r)
    \/ \E j \in Jobs : SkipJob(r, j) \/ CollectJob(r, j) \/ StartJob(r, j) \/ FinishJob(r, j)

Handle(c) ==
    \/ \E r \in Runs : EnqueuePushed(c, r) \/ CancelRunning(c, r) \/ CancelLookupMisses(c, r)
    \/ CancelQueued(c) \/ EnqueuePushedFails(c)

Next ==
    \/ \E r \in Runs : Trigger(r) \/ ClaimNextRun(r) \/ Execute(r)
                       \/ Deadline(r) \/ LeaseExpires(r)
    \/ \E c \in Callers : Push(c) \/ Handle(c) \/ \E r \in Runs : StopRequest(c, r)
    \/ Shutdown \/ Exit \/ Crash \/ Restart \/ ReconcileOrphanRuns \/ ReconcileFails

Spec == Init /\ [][Next]_vars

\* Goroutines that can run do; the runner's poll claims; the supervisor
\* (systemd) restarts the process; time passes for an abandoned row.  Nothing is assumed of deadlines,
\* shutdowns, requests or failures.
Fairness ==
    /\ \A r \in Runs : WF_vars(ClaimNextRun(r)) /\ WF_vars(Execute(r)) /\ WF_vars(LeaseExpires(r))
    /\ \A c \in Callers : WF_vars(Handle(c))
    /\ WF_vars(Exit) /\ WF_vars(Restart) /\ WF_vars(ReconcileOrphanRuns)

FairSpec == Spec /\ Fairness

-----------------------------------------------------------------------------
(* Properties                                                              *)

\* Every variable has its type.
TypeOK ==
    /\ server \in {"starting", "up", "draining", "down"}
    /\ row \in [Runs -> RunStatus \cup {"absent"}]
    /\ job \in [Runs -> [Jobs -> JobRow]]
    /\ expired \subseteq Runs
    /\ pc \in [Runs -> PC]
    /\ ctx \in [Runs -> {"ok", "canceled", "deadline"}]
    /\ handle \in [Runs -> BOOLEAN]
    /\ flag \in [Runs -> BOOLEAN]
    /\ status \in [Runs -> [Jobs -> JobTerminal \cup {"pending"}]]
    /\ todo \in [Runs -> SUBSET Jobs]
    /\ ready \in [Runs -> SUBSET Jobs]
    /\ final \in [Runs -> Terminal]
    /\ caller \in [Callers -> [op : {"idle", "push", "stop"}, stale : SUBSET Runs,
                                missed : Runs \cup {NoRun}]]
    /\ stopped \subseteq Runs
    /\ faults \in Nat /\ crashes \in Nat

\* A job in flight had every job it needs succeed in this execution: the wave
\* scheduler of executeRun honours `needs` across waves, skips and re-claims.
NeedsHonoured ==
    \A r \in Runs : pc[r] = "wave" =>
        \A j \in ready[r] : \A d \in Needs[j] : job[r][d] = "success"

\* "a terminal run has no dangling queued jobs" (executeRun): whatever ended
\* the run (verdict, cancel, deadline, shutdown, crash and reconciliation), no
\* job of it is left queued or running.  As long as no storage call fails: the
\* jobs inserted before a failing CreateJob do stay queued.
NoDanglingJobs ==
    faults = 0 => \A r \in Runs : row[r] \in Terminal =>
        \A j \in Jobs : job[r][j] \notin {"queued", "running"}

\* A cancel that reached a run while its jobs were being scheduled decides
\* the verdict, over a simultaneous shutdown, deadline or last job's result.
\* (When the verdict's write fails, the stop is lost with the goroutine: the
\* run is claimed again after its lease and executes from the start.)
StopHonoured ==
    faults = 0 => \A r \in stopped : row[r] \in Terminal => row[r] = "canceled"

\* The contract's rows are this module's rows: callers, goroutines, contexts and
\* the process behind them are hidden.
Contract == INSTANCE RunContract WITH Runs <- Runs, Jobs <- Jobs, row <- row, job <- job

\* A run gets one verdict, backed by its jobs, and nothing moves after it.
ImplementsContract == Contract!Spec

\* Every queued run gets a verdict, whatever crashes, shutdowns and failed
\* status writes come in between (their number is finite).
EveryRunConcludes == \A r \in Runs : row[r] = "queued" ~> row[r] \in Terminal
=============================================================================
