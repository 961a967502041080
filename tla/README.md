# A TLA+ verification of codefort

codefort is a self-hosted git forge for a fleet of agents: one Go process
(`codefortd`) with one SQLite file, bare repositories on disk, an in-process CI
and agent runner, and a small client (`cf`). This directory holds TLA+ models of
its stateful parts, the TLC configurations that check them, and TLAPS proofs.

- `tlc -config <X>.cfg <MC module>` checks a run; `PROJECT.json` lists them all,
  with what each shows, a mutation that breaks each property, and the source
  lines of every definition.
- `tlapm <X>Proofs.tla` checks a module of proofs.

## 1. The system

| Component | State it keeps | Operations | Interacts through |
|---|---|---|---|
| CI run executor (`ci_runner.go`, `storage/ci.go`, `server/ci_hook.go`) | `ci_runs`, `ci_jobs`, the `runCancels` table, one goroutine per run | push, trigger, rerun, claim, execute waves of jobs, cancel, reconcile | rows; contexts and handles; the work budget |
| Agent run lifecycle (`agent_runner.go`, `agent_handoff.go`, `agent_verify.go`, `storage/agent_turns.go`) | the run's row, job, turns; container, workspace, token, branch; `agentTurns` | spawn, turn, park, dispatch, finish (handoff), cancel, reap, verify | rows; docker; the bare repository; the budget |
| Work budget and drain loop (`budget.go`, `ciRunner.run`) | two token channels | try-acquire, release, drain stages | every dispatched goroutine |
| Issue graph (`storage/issues.go`, `dependencies.go`) | `issues`, `issue_dependencies` | create, delete, update, parent, add/remove dependency | the single writer connection |
| Issue claims (`storage/issues.go`, `runClaimReaper`) | `assignee`, `claimed_at` | claim, heartbeat, steal, unclaim, expire | clock; the reaper |
| Cron scheduler (`cron_scheduler.go`) | `cron_schedules`, a ticker | reconcile, fire, stamp | HEAD's pipeline; enqueues runs |
| Retention and token reapers (`main.go`) | old rows and log directories | prune, revoke | rows, disk |
| Pull requests, merge (`server/merge.go`, `pulls.go`, `storage/pulls.go`) | `pull_requests` with tips frozen at the merge, reviews, refs | open, close, reopen, review, merge (three methods), auto-close | refs (compare-and-swap), issues, CI runs |
| Git transport, hooks (`git.go`, `ssh.go`, `branches.go`, `ci_hook.go`) | refs | push, protected branches, post-receive | pull requests, CI |
| Event log and SSE tail (`internal/ci/events.go`, `server/ci.go`, the web page's reader) | an append-only file per job, its last sequence number | open, append, tail, reconnect | runner, row, reaper, readers |
| Fleet feed (`server/events.go`, `storage/events.go`, `cf events`) | `events` | append, stream, resume, prune | every handler; repository deletion |
| Access, tokens, members (`access.go`, `auth.go`, `tokens.go`, `users.go`, ...) | `users`, `tokens`, `ssh_keys`, `repo_members`, visibility | register, log in, mint, revoke, invite; the gates | every handler; the token reaper |
| Rate limiter (`ratelimit.go`) | buckets | allow | HTTP |
| Pipelines (`internal/ci/ci.go`) | none | validate, topological order, translate | executor |
| Repositories (`repos.go`) | a row, a git directory, a tree of run logs | create, delete, update | runs, schedules, retention |
| Specs, browsing, settings, client, web | rows, files | single writes and reads | |

What is hard in it, and where the properties aim (`hazards` in `PROJECT.json`
has each one at its line): goroutines that are claimed in one transaction and
become cancellable only later; three parties (operator, deadline, shutdown) that
end the same context; status writes without a compare-and-set; container, token
and workspace created by one goroutine and released by another; leases that are
measured in whole seconds and renewed by some paths only; check-then-write pairs
outside a transaction; crashes between two writes that startup has to make sense
of; a budget of two tokens taken one after the other; Go's random map order in
the scheduler; refs that pushes and requests move between a handler's reading of
them and its update, and rows and runs that are written after the ref has moved;
streams that end, drop and resume while what they read is appended to, pruned or
re-opened; rows and directories that come and go in separate steps; gates that
read the database several times while what they read changes.

## 2. Modules

SQLite is opened with one writer connection (`storage/sqlite.go`) and a pool of
readers, so a statement or a transaction is one atomic step, and everything between
two of one goroutine is interleaved with everybody else. Functions that make several
queries outside a transaction, such as `CanAccessRepo` and `CanWriteRepo`, are
several steps.

| Module | Models | State and actions |
|---|---|---|
| `RunStates` | the status enumerations | |
| `RunContract` | abstract: what a CI run promises to its readers | rows only: enqueue, withdraw, start, work, conclude |
| `CIRun` | the CI executor of one ref | rows, `pc` of `executeRun` per run, its context, handle and local map; HTTP handlers as small programs |
| `AgentRun` | one agent-family run under docker isolation | row, job, turns, container, token, workspace, branch; workers (budget slots), handlers, the reaper |
| `WorkBudget` | the budget and the drain loop | two counters, the loop's stage and step, the items |
| `IssueGraph` | numbers, parents, dependencies | rows; per handler the state of `dependsOnReaches` |
| `IssueClaims` | one issue's claim | assignee, `claimed_at` in seconds, a clock in ticks, what each agent believes |
| `PullMerge` | the pull requests of one base branch | the refs, the rows, the CI runs of the base; workers that are merges, pushes with their hooks, or spec commits |
| `Pipeline` | the `needs` of a codefort.yml | none: operators that follow the code, and what they are for |
| `Delivery` | abstract: what an event stream promises one reader | published, withdrawn, delivered |
| `EventFeed` | the fleet feed and one `cf events` client | the table and its counters; the handler's cursor; the wire; what was printed |
| `JobTail` | the log of one job and one viewer | file, partial line, the runner's log; the row; handler, wire, page |
| `Repository` | one repository name, its schedules, runs and logs | rows and directories; the scheduler, the sweep, creation and deletion as small programs |
| `Access` | accounts, tokens, keys, members and the gates of one repository | rows; requests with what they have read so far |
| `*Proofs` | theorems of the module they extend; `RunnerProofs` extends `CIRun` and `WorkBudget`, `IssueProofs` extends `IssueGraph` and `IssueClaims` | |
| `MC*` | small instances for TLC | |

Operators whose comment begins with "Slip" are plausible mistakes in the
definition that follows them. They are not part of any specification; the
mutation runs substitute them to show that a property is able to fail.

### CIRun

`Push` and `StopRequest` start handlers that call `CancelCIRun` for each stale
run: `CancelRunning` when a handle is registered, otherwise `CancelLookupMisses`
and then, in a later step, the compare-and-set `CancelQueued`. (Load of the
handle and raising its flag are one step: nothing that happens between them
depends on either.) `ClaimNextRun` starts `executeRun`: `Gated`, `Register`,
`Checkout`, `CreateJobs`, then passes over the pending jobs (`SkipJob` and
`CollectJob` in any order, as Go iterates maps), `LaunchWave`, `StartJob` and
`FinishJob` under `CIJobConcurrency`, `WaveDone`; then `Leftover`, `Verdict`,
`FinishRun`, `Cleanup`. `Deadline`, `Shutdown`, `Crash`, `Restart` and
`ReconcileOrphanRuns` happen at any time. Writes that fail: `CreateJob`,
`FinishRun` and the reconciliation (bounded by `MaxFaults`); a failing `StartJob`
or `FinishJob` is not modelled. `LeaseExpires` is only possible for a row without
a goroutine: `runLease` exceeds `CIRunTimeout`, which bounds the goroutine, by
five minutes. With `CIRunTimeout = 0` the code never re-claims; the liveness
results are for a positive timeout. `Exit` waits for the runs' goroutines and not
for handlers, which `httpSrv.Shutdown` abandons after ten seconds (`main.go:212`).

### AgentRun

One run, several workers. A worker is a goroutine of the drain loop:
`ClaimRun` (first turn), `ClaimNextTurn` (follow-up), `ClaimNextFinishingRun`
(handoff). The drain loop is one goroutine, so it does not claim while it reaps
(`Free`). The variable `kind` is chosen from `Kinds` in the initial state: an
agent session, or a spec-verify run, which has one turn, no follow-ups and no
handoff. A cancel is five steps (`CancelCAS`, `CancelFlag`, `CancelJob`,
`CancelTearDown`, `CancelRemoveAll`) as in `CancelAgentRun`: the last two bracket
`os.RemoveAll`, which takes the workspace away file by file. Resources:
`container`, `token`, `workspace` (`base` as checked out or with every edit undone,
`work` with edits, `partial` while it is being removed) and `branch`. A turn may
edit the workspace, undo what was edited, or leave it alone.

A handoff is three steps: `ReadWorkspace` (`read-tree`, `add -A`, `write-tree`:
the goroutine's `tree` is what it found), `CommitBranch` (`commit-tree`,
`update-ref`; nothing for a tree that is the base's), `ReportHandoff`; then
`TearDownAgent` and `FinishAgentRun`, which looks at nothing. The history variables
`left` and `withdrawn` say what the last turn left in the workspace and whether a
cancel was accepted.

The variable `scenario` is chosen from `Scenarios` in the initial state: whether
claims can outlive `agentLease` and `turnLease`, whether operators cancel, how many
calls fail and how often the process stops, which turns and handlers there are.
Most properties are about calm scenarios (`Calm`: no lapse, no failing call);
`RunSettles` is about all of them.

### WorkBudget

The channels of `workBudget` are counters; acquiring and releasing a CI slot
take two steps each. The loop walks the stages of `run` in their order. Items
recur: an item that has ended can be submitted again. The specification is
`BudgetSpec`, with `Budget` in the names that `CIRun` has too, because one module
proves about both; likewise `ClaimsSpec` in `IssueClaims`.

### IssueGraph

`AddDependency` keeps the connection from `BeginAdd` to `InsertEdge` or
`Refuse` (`Free` is false meanwhile), whereas `UpdateIssue` gives it up between
`CheckParent` and `WriteParent`. The stack of `dependsOnReaches` is a set: SQL
returns the rows of a dependency list in any order. `settled` abstracts the
states done and closed.

### IssueClaims

Time is in ticks, several to the second that `strftime('%s')` sees. `taken[a]`
is what agent a knows: when its last claim succeeded. The lease is chosen from
`Leases` in the initial state (0 means that claims never lapse). The reaper's
sweeps are on time. `finished` abstracts the states done and closed.

### PullMerge

A commit is the set of the entries reachable from it, so that "is an ancestor of"
is inclusion. An entry is a change and the stamp of the commit that carries it:
`<<k, k>>` for new work, `<<c, k>>` for a replay of c by a rebase, `<<0, k>>` for a
merge commit. `Changes` forgets the stamps, which is what a rebase keeps. A
branch that does not exist is the empty set.

A worker is one request or push and keeps what the code keeps in local
variables. A merge is `MergeRequest`, `GateBlocks` or `ResolveBase`,
`ResolveHead`, then `AlreadyJoined` or one of `FastForward` (followed by
`VerifyAdvanced`), `MergeCommit` and `Rebase`, or `JoinRefused`; then
`RecordMerge` and `CloseLinkedIssues`. A push to the base is `Push` (with the
pre-receive hook), `ReceivePack`, and the post-receive call: `OpenPRsForBase`,
`ScanPull` and `AutoClose` per pull request, `ScanDone`. Both end in
`enqueueRefRun`: `Supersede`, `EnqueueRun`. Only git's own compare-and-swap
(`updateRef`) protects the refs. `StepFails` and `Crash` end a request anywhere.

The base is protected or not by the constant `Protected`. Reviews are left to the
choice between `GateBlocks` and `ResolveBase`. CI is on, and a run stays active
until it is superseded (`CIRun` has its life). The mirror push, events, comments
and titles are left out.

### Pipeline

`Validate`, `findCycle` and `TopoOrder` operate on a function from job names to
needs lists, in which a name may be repeated or unknown. The loops over sorted
names are folds, and the closure `visit` is a RECURSIVE operator, so nothing is
proved about this module. `Sound` relates the three to one another and to
reachability; `MCCIRun` evaluates it for the pipelines of three jobs with up to
two needs each, since `CIRun` takes an acyclic `Needs` and the order of
`CreateJobs` for granted.

### Delivery, EventFeed and JobTail

`Delivery` is the promise of both streams: numbers appear in ascending order,
some may be withdrawn, and the reader gets them in order, once each, passing
over one only if it was withdrawn. Both detailed modules implement it.

`EventFeed`: `Emit` appends (SQLite shows rows in the order of their ids, since
there is one writer); `RunEventRetentionReaper` and `DeleteRepo` withdraw.
`List` is one turn of the handler's loop: a batch past the cursor, filtered,
written to the wire. `ListFails` is the query that fails: the handler returns, and
since its answer was 200 the client sees the same clean end (`StreamEnds`) as after
a snapshot. `Receive`, `StreamEnds`, `Drop` and `ResumeAt` are the client's; what was
on the wire at a drop is lost. A query is a scope, a type filter and `--once`.
`drops` and `faults` count connections lost and reads that failed, within one bound.

`JobTail`: a line is a unit; `torn` is a partial line at the end of the file, to
which the next append is glued. `RunnerStep` is what the executors do to the log
and to the row (`CIRun` and `AgentRun` have the rest): open, append, close, end,
park, claim, cancel, and the reaper's late writer. `Connect`, `ReadEvents`,
`CheckStatus` and `Drain` are `handleCIJobEvents`; `CheckStatus` may always
rotate the response, since `maxOpen` is two seconds. `PollRun` is the page's view
of the run, which re-subscribes when a parked run resumes. What a read sends
(`Sent`) is each readable line above the handler's last number and above all the
lines before it in that read; `Delivery` sees the numbers only, not the offsets.
Since the numbers on the wire ascend, `wire` is a set and `Receive` takes its
least.

### Repository

`Numbers` are `MAX(number) + 1`. The scheduler is `Ticker` (which drops a tick
when one waits), `Tick`, `ReadPipeline` with `UpsertCronSchedules`, `Fire` and
`Stamp`; an instant is the number of occurrences that each expression has had, so
that `sched.Next(from) <= now` is a comparison of counts (the server's clock and
the expressions are in one time zone). Retention is `PruneRuns` and one
`RemoveLogs` per directory. Deletion is `CountActiveRuns`, `DeleteRow`,
`RemoveGit`, `RemoveRepoLogs`; creation is `LookupConflict`, `InitBare`,
`EnsureRepo`. `Crash` drops whatever is between two steps.

### Access

A token is named after a user, a user's session or an agent. An API request goes
through `Authenticate` (with `TouchToken` when the debounce says so), `LookupRepo`,
the two queries of `CanAccessRepo` (`CheckAccess`, `CheckMember`) and of
`CanWriteRepo` (`CheckWrite`, `CheckRole`), and the handler's own lookup. A git
request goes through `WithBasicAuth` (a credential is a token, the shared pair of
`CODEFORT_BASIC_USER`, or nothing), `LookupRepo`, `RepoIsPrivate` and `GitIdentity`
before the same checks; an SSH session through `Handshake` and the directory. Any of
these queries may fail (`QueryFails`), as may the touch and the second write of
`handleCreateRepo`: a repository is created public and made private afterwards
(`HideRepo`). Other handlers that change accounts, tokens, members or the repository
are one step each: their own passage through a gate is that of any request.

History variables: `seen`, which facts have held since a request arrived; `quiet`, the
time since the token of an agent last passed `LookupToken`, which is its use; `lost`,
whose last touch was not written.

## 3. Runs

Passing runs (TLC explores all reachable states):

| Run | Checks | Bounds |
|---|---|---|
| `ci_dag` | `PipelineSound`, `NeedsHonoured`, `NoDanglingJobs`, `StopHonoured`, `EveryRunConcludes`, `ImplementsContract` | one run, two roots and a join, one handler, two faults, two shutdowns or crashes, fairness; 9261 pipelines |
| `ci_races` | `ImplementsContract` | two runs of a ref, one job, one handler, one fault |
| `agent_sessions` | `OneDriver`, `WholeOrGone`, `SuccessHasBranch`, `NeverResurrected`, `RunSettles`, `ContainerReleased` | both kinds, two workers; calm: two follow-up turns, two handlers and one shutdown or crash, or one of each and two; rough, with one turn and one handler: leases that lapse, with cancels or with one failing call; fairness; 199 thousand states |
| `budget_backlog` | `WithinBudget`, `ReservedReachable`, `TokensAccounted`, `SpawnServed` | two CI items, a spawn and a turn, two slots, one reserved, fairness |
| `issue_edges` | `Acyclic`, `RefusalJustified`, `NoDanglingEdges`, `BacklogMoves` | three numbers, two handlers (symmetric) |
| `claims_lease` | `Exclusive`, `OrphansDiscoverable` | two agents, ticks of a third of a second, a lease of seven ticks (two and a third seconds) or none, six seconds |
| `pull_merges` | `MergedMeansJoined`, `TipQueued`, `NothingLost` | one pull request into a protected base, two workers (symmetric), four commits, one failure or crash |
| `access_gates` | `AnswersJustified`, `ReaperSparesActive` | one request; four scenarios, the last three with one failing query or write: two accounts with a session and two registrations of the repository; sign-up with sessions and an SSH key; git behind the shared pair; an agent's token with a lifetime of four ticks and a debounce of two; 1.1 million states |
| `repo_upkeep` | `LogsAreOwn`, `NoDanglingRegistration`, `FiresOncePerOccurrence`, `DueFires` | two scenarios, each with one failing call and one crash: two registrations, two runs, one kept; one schedule with two occurrences, three runs, HEADs with and without it, unreadable or missing; fairness |
| `job_tail` | `CompleteAtRest`, `TailDelivers`, `TailSettles` | either kind, three lines, two openings, one short write, one drop, fairness |
| `event_feed` | `SnapshotComplete`, `FeedDelivers`, `CatchesUp` | two types, every query, batches of two, retention of two, three events, two registrations, one connection lost or one read failed, fairness; 649 thousand states |

Conditions under which properties are stated:

- `NoDanglingJobs` and `StopHonoured`: no failed write. The code only logs such a
  failure, and the last subsection says what is lost then. `ContainerReleased`
  likewise, and within the leases.
- `WholeOrGone` is three statements: a run that has ended has no container and no
  token left, its job is not left queued or running (a canceled run after a crash
  excepted), and a parked run has all it needs.
- `SuccessHasBranch`: calm scenarios, and no cancel was accepted. `CancelAgentRun`
  and `finishAgentRun` share the workspace without knowing of one another (see the
  last subsection).
- `SnapshotComplete`: no read of the database failed (likewise).
- `ReaperSparesActive`: a use counts at `LookupToken`; one whose touch is not written
  yet or was lost is excepted, since the reaper cannot know of it.
- `AnswersJustified`: the facts an answer rests on have all held between the request's
  arrival and its answer, not necessarily at one moment; `failed` (an internal error)
  is not an answer that needs a justification. What permits a write is what the code
  asks for, the owner or a member with the role.
- `TipQueued`: no failure; the code logs a failed `MarkMerged` or `EnqueueRun` and
  leaves the tip without a run.
- `LogsAreOwn` and `NoDanglingRegistration` except two situations, recorded by the
  history variables `overlap` and `adopted`: a creation that overlaps the cleanup of
  a deletion, and directories that a failed or interrupted deletion has left.
- `CompleteAtRest` is for CI jobs: an agent's log may be appended to after its run
  has ended.

`pull_merges` has no liveness property, so that nothing is assumed of its
scheduling. An unprotected base may be rewritten by design; its behaviours are
covered by the proofs (types, frozen tips and head branches) and not by a run.
CHECK_DEADLOCK is off where a bounded machine really stops: commits, events,
lines, occurrences, registrations, turns or runs run out, or the process is down.

Why the bounds suffice: the races are between one run (or issue) and one or two
other parties; a second run is needed only for superseding, a third job only for
a dependency that joins two others, a third issue only for a cycle that no
single edge closes. Four commits give a head, a concurrent push, a replay and a
merge commit; pull requests meet only in the base, where pushes stand for the
others. Two crashes give a crash during the recovery from a crash.
A feed needs one batch and one more event; a log two openings, so that numbering
continues; a schedule two occurrences, so that one follows the other; a
repository two registrations, so that the second meets what the first left. One
request suffices for the gates, because requests only meet in what they read,
which the other actions change. Counters of faults and crashes are bounds, not
behaviour.

The violation run states what a comment of the repository says and shows a
behaviour of the code that differs (`findings` quotes the line).

| Run | Statement | What happens |
|---|---|---|
| `agent_cancel` | `CancelSticks` | a failed park writes error over canceled |

### Divergences that the models contain and no run states

The following behaviours of the code are behaviours of the models too. They were
met while modelling; a property that forbids one of them is violated, and the
properties above are stated so that they are compatible with them.

- `CIRun`: a scheduling pass that only skips jobs takes the "stuck" branch, so
  that a dependent which the map iteration visits first is errored instead of
  skipped (`ci_runner.go:562`, although `:535` says "cascading"). A cancel is
  reported as accepted after the verdict is chosen, or
  while the checkout fails into an error (`agent_runner.go:521`). A run that is
  claimed and not yet registered is missed by the supersede loop of a newer push
  and executes (`storage/ci.go:62`). When one `CreateJob` fails, the jobs
  inserted before it stay queued under a finished run (`ci_runner.go:587`). When
  the verdict's write fails after an operator's stop, the re-claim starts the run
  over: the stop is forgotten.
- `AgentRun`: a follow-up turn or handoff in flight when the lease of the first
  claim lapses is claimed again, and two goroutines drive the run
  (`ci_runner.go:418`, although `:411` says "never stolen"). A turn posted to a run
  that has ended meanwhile stays pending (`server/agent.go:168`). Spec-verify runs
  cannot be cancelled through the API
  (`server/agent.go:227`). A turn cut by a shutdown is recorded as an error and
  not as interrupted (`storage/ci.go:30`). Once a lease has lapsed, a stale turn
  sets an ended run to running again (`agent_turns.go:103`). A crash between the
  two writes of a cancel leaves the job running under a canceled run
  (`ci_runner.go:239`). A finish that is accepted between the reaper's list and
  its write becomes a cancel (`agent_runner.go:447`), although
  `agent_turns.go:210` says "after which the runner performs handoff". A cancel that
  is accepted during a handoff removes the workspace while it is read
  (`agent_runner.go:546`, `agent_handoff.go:124-150`): the branch may then hold a part
  of the work, or all of it, although `agent_runner.go:492` says "no branch is
  materialized", and `finish` writes success over canceled (`agent_handoff.go:99`).
  `SuccessHasBranch` without its exception for cancels is violated by that.
- `WorkBudget`: agent work that recurs fast enough keeps a CI run queued
  (`budget.go:5`); only the reserved direction is protected.
- `IssueGraph`: deleting the issue with the highest number frees the number
  (`issues.go:18`). A parent deleted between `CheckParent` and `WriteParent` is
  stored nevertheless (`issues.go:152`).
- `IssueClaims`: a claim can be stolen up to a second before its lease is over,
  since both sides are cut to seconds (`issues.go:221`). `Claim` does not look at
  the state (`issues.go:229`), so that a done issue with an old claim can be
  claimed over, although its assignee "must survive indefinitely"
  (`issues.go:305`). Only the reaper leaves settled issues alone.
- `PullMerge`: of two concurrent merges of one pull request, or a merge and an
  auto-close, the second finds the head in the base and overwrites the frozen
  tips with the head twice, so that the recorded diff is empty (`merge.go:106`).
  A fast-forward that landed is reported as refused if a push follows before the
  verification (`merge.go:322`). `MarkMerged` has no guard on the state: a pull
  request closed meanwhile becomes merged (`storage/pulls.go:187`). A crash or a
  failed `MarkMerged` after the update-ref leaves an open pull request and a tip
  without a run (`merge.go:151`); a retried merge finds the head joined and
  completes the row. Two moves of the base may enqueue in the other order than
  they landed, and the run that is left is that of the older commit
  (`ci_hook.go:326`, although `storage/ci.go:60` says "never picks up work for a
  commit that's already obsolete").
- `EventFeed`: `cf events --once` takes a clean end of the stream for "drained the
  backlog cleanly" (`cmd/cf/events.go:61`), but the server ends the stream in the same
  way when a read fails (`server/events.go:73`): the client exits with success and an
  incomplete backlog.
- `JobTail`: a line that was glued to a partial one makes every later read fail,
  and the page shows the log as done (`internal/ci/events.go:166`). A run that
  resumes and comes to rest within one poll of the page is not re-subscribed
  (`AgentRunBody.tsx:59`). What is appended after an agent run was cancelled is
  not shown. The reaper's writer may number its line like one the run's own
  writer appends meanwhile, and the reader takes the second for a repetition.
- `Repository`: a crash or a failed write between `EnqueueRun` and
  `UpdateCronLastFired` repeats a firing (`cron_scheduler.go:141`). A schedule
  that never fired misses its first occurrence if the tick after it is late or
  dropped (`cron_scheduler.go:127`); occurrences missed meanwhile coalesce.
  Interrupted and stalled runs are never pruned (`storage/ci.go:562`). A crash
  between `PruneRuns` and the removal leaves directories that nothing returns to,
  although `main.go:346` says "retried implicitly". A creation that overlaps the
  cleanup of a deletion ends with a row and no directory (`repos.go:299`), and
  what a failed deletion leaves is adopted by the next repository of the name. A
  run enqueued between `CountActiveRuns` and `DeleteRepo` loses its row while it
  executes.
- `Access`: a second login of an account fails on the name of its session's token
  (`storage/users.go:112`), although the comment says "Each call produces a fresh
  token". Member management compares the owner with the token's name, not with its
  account. An SSH session goes by the key's token and the directory, and the later
  sessions of a connection reuse its handshake. Use over git or SSH leaves
  `last_used_at` alone.
  Writing to a public repository takes the owner or a member with the role
  (`access.go:109`), although `specs/access-control.md:60` and `:128`,
  `access_test.go:122` and the comment at `repos.go:255` let any valid token do it.
  With `CODEFORT_BASIC_USER` set, git is served to the shared pair alone
  (`server.go:97`, `auth.go:72`), which is no token, so that nobody reaches a private
  repository over git, although `access.go:135` means a token to do it. A repository
  that is created private is public until its second write, and stays so if that fails
  (`repos.go:88`). A caller who could read at every moment is told 404 when the
  repository was private at the first query of `CanAccessRepo`, and is made public and
  the membership removed before the second (`repo_members.go:107`). A name that is not
  registered passes the gate, and the handler may find it registered a moment later
  (`access.go:87`). A token that is in use is revoked if the reaper comes between
  `LookupToken` and `TouchToken`, or after a touch that failed (`auth.go:57`,
  `tokens.go:111`). `gitIdentity` answers 401 when the database fails
  (`access.go:238`).

## 4. Fairness

- `CIRun`, `AgentRun`: weak fairness of each goroutine and each started handler
  (Go's scheduler), of the claims (the drain loop polls), of the restart and the
  startup transaction (the service is supervised), and of the passing of time
  for abandoned rows. No fairness of requests, deadlines, faults or crashes. In
  `CIRun` a job may end in any way at any time; that it ends at all follows from
  the deadline or, at shutdown, from its cancelled context. A step is thereby assumed
  to heed its context. One that does not makes the drain hang, which the code accepts
  (`main.go:229`) until the service manager kills the process: that is `Crash` while
  the server is draining. That a drain ends by itself is not among the properties.
- `WorkBudget`: weak fairness of the loop; strong fairness of a claim that can
  succeed (a claim may fail now and then, not for ever); agent-family items end
  by themselves (`AgentTurnTimeout`), CI items only when the runner stops.
  `SpawnServed` assumes that the loop comes round (`LoopTurns`): within one stage
  it claims as long as it can.
- `EventFeed`, `JobTail`: weak fairness of the handler's loop, which polls, of the
  client's reading, and of its reconnecting, which both clients do without limit.
  None of appends, drops, failing reads or the end of a run.
- `Repository`: weak fairness of the ticker and of each step of the scheduler's
  goroutine. None of pushes, occurrences or requests.
- `Access`, `PullMerge`, `IssueGraph`, `IssueClaims`: safety only.

## 5. Proofs

TLAPS proves the following for every value of the constants, from the
assumptions named in the modules (`RunsAssumption`, `NeedsAssumption`,
`WorkAssumption`, ...).

Each proof module states its inductive invariant as a conjunction of named parts,
proves that the initial states satisfy it and that every action preserves it (one
lemma per part, one step per action that can disturb it; the other actions are
covered at once by the variables they leave alone), and derives the properties.
TLC agreed with each invariant on the instance of the module's run first.

- `RunnerProofs`, CI runs. The invariant is `TypeOK`, `Ownership` (a run with a
  goroutine is `running` and is not expired; a registered handle belongs to a
  goroutine), `WaveShape` (what `todo` and `ready` hold at each step; a job of a
  wave has all its dependencies `success` in the map) and `Agreement` (outside a
  wave the in-memory map and the job rows say the same; a verdict of success or
  failed is backed by the map). From it: `TypeCorrect`, `NeedsAlwaysHonoured`
  and `Implementation`, the refinement of `RunContract`. `Ownership` is what
  makes an unguarded `FinishRun` safe: only the goroutine that owns the row
  writes it, since queued rows alone can be cancelled behind its back. `Outcome` is
  inductive with it: at the verdict every job is final (`Resolved`); and without a
  failed write a running row has its goroutine or waits for the reconciliation, so
  that no run executes twice (`Undisturbed`), and a stop is in the flag, the verdict
  or the row (`StopCarried`). From it: `NoJobDangles` and `StopsAreHonoured`.
- `RunnerProofs`, the budget. `TokensAccounted` is inductive with `TypeOK` and `Shape`
  (which stage allows which step). The budget bounds follow by counting.
- `IssueProofs`, the graph. `Reach(n)` is the least set that contains n and is closed
  under the edges, so that no induction over paths is needed: during a walk,
  `visited` and `frontier` together are closed, and if the target is in neither
  when the frontier is empty, `visited` is a closed set that separates them.
  That an inserted edge keeps the graph acyclic is shown with unions and
  intersections of closed sets. `OneTx` says that at most one handler is in a
  transaction: it carries the walk over the steps of the others. Issues are
  inserted one by one, so there are finitely many, and an open issue whose
  `Reach` is least with respect to inclusion waits for nobody, since the reach of
  an unmet dependency would be a strict part of it: `BacklogAlwaysMoves`.
- `PullMergeProofs`. The invariant is `TypeOK`, `Shape` (what a worker
  has at each step; the old tip of a spec commit is within its parent) and
  `Joined` (what each worker has found to be in a protected base still is, and so
  are the frozen heads). `BaseGrows` is the heart of it: every writer compares
  the ref with a tip it extends. So only what a step changes needs an argument
  (`JoinedKept`), and the rebase needs `RebaseCarries`: the changes arrive
  although the commits do not. From it: `TypeCorrect`, `MergesAreJoined`,
  `NothingIsLost`. `TipsAreQueued` has an invariant of its own, `Pending`: as
  long as nothing failed, a tip of the base without a run is carried by some worker
  that moved the base to it and is on its way to `EnqueueRun` (`TipCarried`), and
  whoever left no active run is about to enqueue one (`Restarted`).
- `IssueProofs`, the claim. The invariant: `claimed_at` is the second in which the
  owner took the claim (`Stamped`); an agent that lost a claim without giving it
  back held it for all the seconds of a lease (`LostIsStale`); sweeps are on time
  (`Punctual`), and an open claim is younger than the last of them, or was fresh
  at it (`PastSweep`). The rest is arithmetic on a quotient: the difference of
  two instants cut to seconds is within a second of theirs. From it:
  `MutualExclusion` and `OrphansSurface`, for every lease and every number of ticks
  per second. A lease need not be a whole number of seconds:
  `int64(lease.Seconds())` drops the fraction, and `Trusts` does likewise.
- `EventFeedProofs`. The invariant: ids are unique and given in order (`Table`);
  what is on the wire lies between the client's last event and the handler's
  cursor (`Stream`); neither position has passed over a row that is wanted,
  unless it is on the wire or printed (`NothingSkipped`); the backlog of a
  snapshot is in the scope of its stream and, unless a read failed, passed over only
  when printed or on the wire (`Snapshot`). `BatchProperties` says what
  a batch cut by its size leaves behind. From it: `SnapshotsAreComplete`, and
  `FeedImplementsDelivery`, the refinement of `Delivery`: `Receive` delivers,
  `Emit` publishes, pruning and the cascade withdraw, the other steps stutter.
- `AgentRunProofs`, for calm scenarios (no lapsed lease, no failing call, but any
  number of cancels, finishes, posts, reaper sweeps, shutdowns and crashes). The
  goroutines exclude one another through the row: a claim takes a row that no
  goroutine works on (`Alone`). What a goroutine has built is known from its step
  while the row is `running` (`Built`); a raised flag belongs to a run that has
  ended (`Interrupts`); and once a run has ended with something left, somebody
  who will tear it down can be named while the process is up: its goroutine, unless
  it was interrupted, or the canceller that interrupted it (`Attended`). As long as
  no cancel was accepted, the workspace of a parked or finishing run is what its last
  turn left, a handoff at each of its steps has carried all of that in its tree or to
  the branch, and no other step touches either (`Kept`, `Carried`); it needs that
  only a process that was told to stop is not up (`Stopped`), since a crash in the
  middle leaves what startup makes an interrupted run of. From it: `DriverIsAlone`, `RestIsWholeOrGone`, `SuccessIsCommitted`, `FinishedIsFinal`.
- `RepositoryProofs`. A name that is registered, or about to be, has its
  directory and no deletion at work on it (`Registered`); runs are of the
  registration and have numbers of their own (`OwnRuns`); what a sweep has still
  to remove lies below the number of a run that stays (`OwnLogs`), because
  `PruneRuns` keeps the newest (`NewestStays`), so that `MAX(number) + 1` is past
  everything that ever had a directory. The scheduler's part: no firing is ahead
  of the instant a waiting tick looks back to (`Clock`), and a row that says when
  it fired says no less than the last firing on record (`OnRecord`). From it:
  `RegistrationsStand`, `LogsStayOwn`, `OncePerOccurrence`.
- `AccessProofs`. The invariant says what a request has met when it is at each
  step of its gate (`Passed`): at the second query of the read check the repository
  has been private since it arrived, at the write check it has been signed in and
  allowed to read, and so on. It holds because a check looks at
  the present, and whatever is true at present goes on the record `seen`
  (`Recorded`); what the other actions change later cannot take it away, and they
  change neither the scenario nor the account of a token that was minted (`Steady`). The two
  ways in which the code names a caller agree (`PrincipalIsAccount`). For the
  reaper: a use that leaves `last_used_at` alone finds it younger than the debounce,
  so the age of a token runs ahead of the time since its last use by less than that
  interval, or the touch is still to be written or was lost (`Debounced`). From it: `AnswersAreJustified`, `ReaperIsPatient`.
- `JobTailProofs`. The invariant: the numbers in the file never fall, even with the
  two writers that a reaped session has, and none exceeds the number of lines
  (`Log`); a CI job has one writer, while its run is running, so line i has number i
  (`CILog`); the page, the wire and the handler's position follow one another
  (`View`), and neither position has passed over a readable line that is not on the
  page or on the wire (`NothingSkipped`); a drain begins only when the run has ended
  (`Complete`). `SentProperties` is the key lemma: in a file whose numbers never
  fall, what a read sends is all that is published above the last number. From
  it: `TailImplementsDelivery`, the refinement of `Delivery`, and `RestIsComplete`.

Model-checked only: liveness (fairness is outside the prover's reach), so
`EveryRunConcludes`, `RunSettles`, `ContainerReleased`, `SpawnServed`,
`DueFires`, `CatchesUp` and `TailSettles`; and `PipelineSound` (recursive
operators). `CancelSticks` is false. Every other property of the passing runs is
proved.

## 6. Not modelled

Listed in `PROJECT.json` with the reason: text assembly and decoding, reads, the
git transport itself, the choice of a handoff ref (git's create-only update-ref
decides), reads of a log that fail without its being corrupt, the rate limiter (one mutex, no other state), server wiring, the client
commands other than `cf events`, and the web interface apart from its stream
reader. Within modelled components the notes there name what is left out.

## 7. Plan

Done: `RunStates`, `RunContract`, `CIRun`, `WorkBudget`, `AgentRun`, `IssueGraph`,
`IssueClaims`, `PullMerge`, `Pipeline`, `Delivery`, `EventFeed`, `JobTail`,
`Repository`, `Access`; every safety property of the passing runs except
`PipelineSound` is proved (those of `AgentRun` for calm scenarios), and so are the
three refinements.

The runs are kept few: as a rule one passing run per module that asks all its
questions of one instance. A new question displaces a weaker one.

What would come next:

1. `AgentRun`: what remains true in rough scenarios (a failing call, a lapsed
   lease), such as a container that always belongs to a run with a job.
2. The reference that `PipelineSound` compares with, stated as least closed sets
   (as in `IssueProofs`), so that its part about cycles can be proved.
