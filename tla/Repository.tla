----------------------------- MODULE Repository -----------------------------
(***************************************************************************)
(* The life of one repository name outside its content: registration and   *)
(* deletion (a row, a bare git directory, a tree of run logs), the cron    *)
(* scheduler that fires its pipeline's schedule entries, the numbers of    *)
(* its runs, and the retention that prunes old runs with their logs.  Rows *)
(* and directories change in separate steps and the process may die        *)
(* between any two of them.                                                *)
(*                                                                         *)
(* Time only matters through the occurrences of the cron expressions, so   *)
(* an instant is the number of occurrences that each expression has had.   *)
(*                                                                         *)
(* Source: cmd/codefortd/cron_scheduler.go, cmd/codefortd/main.go          *)
(* (sweepCIRetention), internal/server/repos.go, internal/storage/ci.go,   *)
(* internal/storage/repos.go.                                              *)
(***************************************************************************)
EXTENDS Naturals, FiniteSets, FiniteSetsExt

CONSTANTS
    Exprs,       \* cron expressions
    Scenarios    \* the settings and the bounds to consider, see Scenario

\* keep is cfg.CIRetainRuns, 0 disables retention; the others are bounds:
\* occurrences of one expression, run numbers, runs that leave the queue,
\* registrations of the name, failing calls, restarts, and the pushed HEADs.
ASSUME ScenariosAssumption ==
    \A s \in Scenarios :
        /\ {s.keep, s.occ, s.run, s.work, s.repo, s.faults, s.crashes} \subseteq Nat
        /\ \A h \in s.heads : h.at \in {"no_pipeline", "broken", "pipeline"} /\ h.exprs \subseteq Exprs

NoRepo == 0

\* HEAD of the bare repository: unborn, without codefort.yml, with one that does
\* not parse, or with a pipeline and its schedule entries.
Unborn == [at |-> "unborn", exprs |-> {}]

\* A cron_schedules row: none, one that never fired, or the instant it last did.
NoRow    == [at |-> "none", last |-> 0]
Never    == [at |-> "never", last |-> 0]
Fired(n) == [at |-> "fired", last |-> n]
NoExpr   == {}

VARIABLES
    scn,       \* the scenario
    repo,      \* repos.id under this name, or NoRepo
    enabled,   \* repos.ci_enabled
    ids,       \* the AUTOINCREMENT counter of repos
    git,       \* the bare git directory exists
    head,      \* its HEAD
    sched,     \* [Exprs -> NoRow, Never or an instant of the expression]
    runs,      \* ci_runs: [repo, number, status, log]; status "active", "ended"
               \* (success, failed, canceled, error) or "kept" (interrupted, stalled)
    logs,      \* run log directories: [number, repo], one per run that wrote there
    occ,       \* the present instant: [Exprs -> Nat]
    before,    \* the instant of the last tick of the ticker, or of its start
    chan,      \* the ticker's channel: ticks [now, from] waiting, at most one
    cron,      \* the scheduler: [pc, id, now, from, todo, expr]
    prune,     \* log directories the retention sweep has still to remove
    del,       \* handleDeleteRepo: [pc, id]
    create,    \* handleCreateRepo: "idle", "looked", "dir"
    lastFire,  \* history: [Exprs -> instant of the last run enqueued]
    forgot,    \* history: expressions whose firing is not on record
    overlap,   \* history: a creation overlapped a deletion or a sweep of the name
    adopted,   \* history: a creation found logs that a failed deletion left
    faults, crashes

vars == <<scn, repo, enabled, ids, git, head, sched, runs, logs, occ, before, chan, cron,
          prune, del, create, lastFire, forgot, overlap, adopted, faults, crashes>>
repoVars == <<scn, repo, enabled, ids, git, head>>
timeVars == <<occ, before, chan>>
fireVars == <<lastFire, forgot>>
handVars == <<del, create, overlap, adopted>>

IdleCron == [pc |-> "idle", id |-> NoRepo, now |-> [e \in Exprs |-> 0],
             from |-> [e \in Exprs |-> 0], todo |-> {}, expr |-> NoExpr]
IdleDel  == [pc |-> "idle", id |-> NoRepo]

-----------------------------------------------------------------------------
(* Runs                                                                    *)

Numbers == {r.number : r \in runs}

\* EnqueueRun: COALESCE(MAX(number), 0) + 1, in one transaction; an unknown
\* repository violates the foreign key.
EnqueueRun(id) ==
    /\ repo = id /\ id # NoRepo
    /\ Max({0} \cup Numbers) < scn.run
    /\ runs' = runs \cup {[repo |-> id, number |-> Max({0} \cup Numbers) + 1,
                           status |-> "active", log |-> FALSE]}

\* A push, a trigger or a spawn.
Trigger ==
    /\ EnqueueRun(repo)
    /\ UNCHANGED <<repoVars, sched, logs, timeVars, cron, prune, handVars, fireVars, faults, crashes>>

\* OpenEventLog of the run's first job creates RunLogDir.
StartLog(r) ==
    /\ r.status = "active" /\ ~r.log /\ r.number <= scn.work
    /\ runs' = (runs \ {r}) \cup {[r EXCEPT !.log = TRUE]}
    /\ logs' = logs \cup {[number |-> r.number, repo |-> r.repo]}
    /\ UNCHANGED <<repoVars, sched, timeVars, cron, prune, handVars, fireVars, faults, crashes>>

EndRun(r) ==
    /\ r.status = "active" /\ r.number <= scn.work
    /\ \E st \in {"ended", "kept"} : runs' = (runs \ {r}) \cup {[r EXCEPT !.status = st]}
    /\ UNCHANGED <<repoVars, sched, logs, timeVars, cron, prune, handVars, fireVars, faults, crashes>>

-----------------------------------------------------------------------------
(* Retention                                                               *)

Newer(r) == {x \in runs : x.number > r.number}

\* Slip: off by one in the window.
PrunableEarly == {r \in runs : r.status = "ended" /\ Cardinality(Newer(r)) + 1 >= scn.keep}

\* The rows PruneRuns selects: terminal, and at least keep newer ones.
Prunable == {r \in runs : r.status = "ended" /\ Cardinality(Newer(r)) >= scn.keep}

\* PruneRuns: one transaction; its result is the list of directories to go.
PruneRuns ==
    /\ scn.keep > 0 /\ prune = {} /\ Prunable # {}
    /\ runs' = runs \ Prunable
    /\ prune' = {r.number : r \in Prunable}
    /\ UNCHANGED <<repoVars, sched, logs, timeVars, cron, handVars, fireVars, faults, crashes>>

\* sweepCIRetention: one RemoveAll after the other, by owner, name and number.
RemoveLogs(n) ==
    /\ n \in prune
    /\ prune' = prune \ {n}
    /\ logs' = {d \in logs : d.number # n}
    /\ UNCHANGED <<repoVars, sched, runs, timeVars, cron, handVars, fireVars, faults, crashes>>

-----------------------------------------------------------------------------
(* The scheduler                                                           *)

\* An expression occurs.
Occur(e) ==
    /\ occ[e] < scn.occ
    /\ occ' = [occ EXCEPT ![e] = @ + 1]
    /\ UNCHANGED <<repoVars, sched, runs, logs, before, chan, cron, prune, handVars, fireVars, faults, crashes>>

\* Every cronTickInterval the ticker sends the time, unless the last tick is
\* still in its channel.  Its from is the instant one interval earlier.
Ticker ==
    /\ before' = occ
    /\ chan' = IF chan = {} THEN {[now |-> occ, from |-> before]} ELSE chan
    /\ UNCHANGED <<repoVars, sched, runs, logs, occ, cron, prune, handVars, fireVars, faults, crashes>>

\* tickCronScheduler: the repositories and their ci_enabled are listed once.
Tick ==
    /\ cron.pc = "idle" /\ chan # {}
    /\ \E t \in chan :
        cron' = IF repo # NoRepo /\ enabled
                THEN [IdleCron EXCEPT !.pc = "read", !.id = repo, !.now = t.now, !.from = t.from]
                ELSE IdleCron
    /\ chan' = {}
    /\ UNCHANGED <<repoVars, sched, runs, logs, occ, before, prune, handVars, fireVars, faults, crashes>>

\* Slip: the rows are deleted and inserted afresh.
UpsertForgets(exprs) == [e \in Exprs |-> IF e \in exprs THEN Never ELSE NoRow]

\* UpsertCronSchedules: an expression that stays keeps its last_fired_at.
UpsertCronSchedules(exprs) ==
    [e \in Exprs |-> IF e \notin exprs THEN NoRow
                     ELSE IF sched[e] = NoRow THEN Never ELSE sched[e]]

\* processRepoCron up to its loop.  An unborn HEAD, or no directory, and a
\* broken pipeline leave the schedules alone; a pipeline without entries and
\* none at all clear them; a row for a repository that is gone fails.
ReadPipeline ==
    /\ cron.pc = "read"
    /\ LET known == git /\ head.at \in {"no_pipeline", "pipeline"} /\ repo = cron.id IN
       /\ sched' = IF known THEN UpsertCronSchedules(head.exprs) ELSE sched
       /\ cron' = IF known /\ head.exprs # {}
                  THEN [cron EXCEPT !.pc = "fire", !.todo = head.exprs] ELSE IdleCron
    /\ UNCHANGED <<repoVars, runs, logs, timeVars, prune, handVars, fireVars, faults, crashes>>

\* maybeFire: is there an occurrence after the last firing, or for a schedule
\* that never fired within the last interval, and up to the tick's time?
Due(e) == cron.now[e] > (IF sched[e].at = "fired" THEN sched[e].last ELSE cron.from[e])

\* The loop is left when it has visited every schedule.
Visited(e) == IF cron.todo = {e} THEN IdleCron
              ELSE [cron EXCEPT !.todo = @ \ {e}, !.pc = "fire", !.expr = NoExpr]

\* maybeFire of one schedule: EnqueueRun, which may fail, then the stamp.
Fire(e) ==
    /\ cron.pc = "fire" /\ e \in cron.todo
    /\ IF Due(e) /\ repo = cron.id
       THEN \/ /\ EnqueueRun(cron.id)
               /\ cron' = [cron EXCEPT !.pc = "stamp", !.expr = e]
               /\ lastFire' = [lastFire EXCEPT ![e] = cron.now[e]]
               /\ forgot' = forgot \ {e}
               /\ UNCHANGED faults
            \/ /\ faults < scn.faults /\ faults' = faults + 1
               /\ cron' = Visited(e)
               /\ UNCHANGED <<runs, lastFire, forgot>>
       ELSE cron' = Visited(e) /\ UNCHANGED <<runs, lastFire, forgot, faults>>
    /\ UNCHANGED <<repoVars, sched, logs, timeVars, prune, handVars, crashes>>

\* Slip: the stamp is the time the tick looked back to.
StampFrom ==
    /\ cron.pc = "stamp"
    /\ sched' = IF repo = cron.id THEN [sched EXCEPT ![cron.expr] = Fired(cron.from[cron.expr])] ELSE sched
    /\ cron' = Visited(cron.expr)
    /\ UNCHANGED <<repoVars, runs, logs, timeVars, prune, handVars, fireVars, faults, crashes>>

\* UpdateCronLastFired with the tick's time, by the row's id.
Stamp ==
    /\ cron.pc = "stamp"
    /\ \/ /\ sched' = IF repo = cron.id
                      THEN [sched EXCEPT ![cron.expr] = Fired(cron.now[cron.expr])] ELSE sched
          /\ UNCHANGED <<forgot, faults>>
       \/ /\ faults < scn.faults /\ faults' = faults + 1
          /\ forgot' = forgot \cup {cron.expr}
          /\ UNCHANGED sched
    /\ cron' = Visited(cron.expr)
    /\ UNCHANGED <<repoVars, runs, logs, timeVars, prune, handVars, lastFire, crashes>>

-----------------------------------------------------------------------------
(* Registration                                                            *)

\* A push to the bare repository moves its HEAD.
PushHead(h) ==
    /\ git /\ repo # NoRepo
    /\ head' = h
    /\ UNCHANGED <<scn, repo, enabled, ids, git, sched, runs, logs, timeVars, cron, prune, handVars,
                   fireVars, faults, crashes>>

\* handleUpdateRepo: ci_enabled.
SetCIEnabled ==
    /\ repo # NoRepo
    /\ enabled' = ~enabled
    /\ UNCHANGED <<scn, repo, ids, git, head, sched, runs, logs, timeVars, cron, prune, handVars,
                   fireVars, faults, crashes>>

\* Directories that a deletion or a sweep has still to remove under this name.
Pending == del.pc \in {"row", "git"} \/ prune # {}

\* handleCreateRepo: the conflict check.
LookupConflict ==
    /\ create = "idle" /\ repo = NoRepo /\ ids < scn.repo
    /\ create' = "looked"
    /\ UNCHANGED <<repoVars, sched, runs, logs, timeVars, cron, prune, del, overlap, adopted, fireVars, faults, crashes>>

\* CreateRepo: a directory that exists is reused as it is.
InitBare ==
    /\ create = "looked"
    /\ overlap' = (overlap \/ Pending)
    /\ adopted' = (adopted \/ logs # {})
    /\ git' = TRUE
    /\ head' = IF git THEN head ELSE Unborn
    /\ create' = "dir"
    /\ UNCHANGED <<scn, repo, enabled, ids, sched, runs, logs, timeVars, cron, prune, del, fireVars, faults, crashes>>

\* EnsureRepo: INSERT OR IGNORE; CI is off until it is switched on.
EnsureRepo ==
    /\ create = "dir"
    /\ create' = "idle"
    /\ IF repo = NoRepo
       THEN repo' = ids + 1 /\ ids' = ids + 1 /\ enabled' = FALSE
       ELSE UNCHANGED <<repo, ids, enabled>>
    /\ UNCHANGED <<scn, git, head, sched, runs, logs, timeVars, cron, prune, del, overlap, adopted, fireVars, faults, crashes>>

\* handleDeleteRepo: the lookup, and the refusal while runs are in flight.
CountActiveRuns ==
    /\ del.pc = "idle" /\ repo # NoRepo
    /\ \A r \in runs : r.status # "active"
    /\ del' = [pc |-> "counted", id |-> repo]
    /\ UNCHANGED <<repoVars, sched, runs, logs, timeVars, cron, prune, create, overlap, adopted, fireVars, faults, crashes>>

\* Slip: the directory goes first.
DeleteGitFirst ==
    /\ del.pc = "counted"
    /\ git' = FALSE /\ head' = Unborn
    /\ del' = [del EXCEPT !.pc = "row"]
    /\ UNCHANGED <<scn, repo, enabled, ids, sched, runs, logs, timeVars, cron, prune, create, overlap, adopted,
                   fireVars, faults, crashes>>

\* DeleteRepo: the row, and by cascade its runs and schedules.
DeleteRow ==
    /\ del.pc = "counted"
    /\ IF repo = del.id
       THEN /\ repo' = NoRepo /\ runs' = {}
            /\ sched' = [e \in Exprs |-> NoRow]
            /\ forgot' = Exprs
            /\ del' = [del EXCEPT !.pc = "row"]
            /\ overlap' = (overlap \/ create # "idle")
       ELSE del' = IdleDel /\ UNCHANGED <<repo, runs, sched, forgot, overlap>>
    /\ UNCHANGED <<scn, enabled, ids, git, head, logs, timeVars, cron, prune, create, adopted, lastFire, faults, crashes>>

\* RemoveAll of the git directory, then of the log tree; each may fail, which
\* is only logged, and leave its directory behind.
RemoveGit ==
    /\ del.pc = "row"
    /\ \/ git' = FALSE /\ head' = Unborn /\ UNCHANGED faults
       \/ faults < scn.faults /\ faults' = faults + 1 /\ UNCHANGED <<git, head>>
    /\ del' = [del EXCEPT !.pc = "git"]
    /\ UNCHANGED <<scn, repo, enabled, ids, sched, runs, logs, timeVars, cron, prune, create, overlap, adopted,
                   fireVars, crashes>>

RemoveRepoLogs ==
    /\ del.pc = "git"
    /\ \/ logs' = {} /\ UNCHANGED faults
       \/ faults < scn.faults /\ faults' = faults + 1 /\ UNCHANGED logs
    /\ del' = IdleDel
    /\ UNCHANGED <<repoVars, sched, runs, timeVars, cron, prune, create, overlap, adopted, fireVars, crashes>>

\* The process dies: every goroutine is gone, and the next one starts its
\* ticker anew.
Crash ==
    /\ crashes < scn.crashes /\ crashes' = crashes + 1
    /\ cron' = IdleCron /\ chan' = {} /\ before' = occ
    /\ prune' = {} /\ del' = IdleDel /\ create' = "idle"
    /\ forgot' = forgot \cup (IF cron.pc = "stamp" THEN {cron.expr} ELSE {})
    /\ UNCHANGED <<repoVars, sched, runs, logs, occ, lastFire, overlap, adopted, faults>>

-----------------------------------------------------------------------------

Init ==
    /\ scn \in Scenarios
    /\ repo = NoRepo /\ enabled = FALSE /\ ids = 0 /\ git = FALSE /\ head = Unborn
    /\ sched = [e \in Exprs |-> NoRow]
    /\ runs = {} /\ logs = {}
    /\ occ = [e \in Exprs |-> 0] /\ before = occ /\ chan = {}
    /\ cron = IdleCron /\ prune = {} /\ del = IdleDel /\ create = "idle"
    /\ lastFire = [e \in Exprs |-> 0] /\ forgot = {} /\ overlap = FALSE /\ adopted = FALSE
    /\ faults = 0 /\ crashes = 0

Next ==
    \/ Trigger \/ \E r \in runs : StartLog(r) \/ EndRun(r)
    \/ PruneRuns \/ \E n \in prune : RemoveLogs(n)
    \/ \E e \in Exprs : Occur(e) \/ Fire(e)
    \/ Ticker \/ Tick \/ ReadPipeline \/ Stamp
    \/ SetCIEnabled \/ \E h \in scn.heads : PushHead(h)
    \/ LookupConflict \/ InitBare \/ EnsureRepo
    \/ CountActiveRuns \/ DeleteRow \/ RemoveGit \/ RemoveRepoLogs
    \/ Crash

Spec == Init /\ [][Next]_vars

\* The ticker ticks and the scheduler's goroutine goes on.
FairSpec ==
    /\ Spec
    /\ WF_vars(Ticker) /\ WF_vars(Tick) /\ WF_vars(ReadPipeline) /\ WF_vars(Stamp)
    /\ WF_vars(\E e \in Exprs : Fire(e))

-----------------------------------------------------------------------------
(* Properties                                                              *)

\* maybeFire enqueues one run per occurrence of its cron expression: between
\* two runs of a schedule lies an occurrence, however late the ticks, whatever
\* the pushes do to the pipeline.  Only a firing whose stamp was lost (a crash
\* or a failed write between EnqueueRun and UpdateCronLastFired), or
\* of an earlier registration of the name, may be repeated.
FiresOncePerOccurrence ==
    [][\A e \in Exprs :
         (cron.pc = "fire" /\ cron'.pc = "stamp" /\ cron'.expr = e /\ e \notin forgot)
             => lastFire'[e] > lastFire[e]]_vars

\* A schedule that has fired before fires again after its next occurrence,
\* unless its row goes, CI is switched off, or the pipeline cannot be read.
DueFires ==
    \A e \in Exprs, n \in 1..Max({s.occ : s \in Scenarios}) :
        (sched[e].at = "fired" /\ sched[e].last < n /\ occ[e] >= n)
            ~> \/ lastFire[e] >= n \/ sched[e] = NoRow
               \/ ~enabled \/ ~git \/ head.at # "pipeline" \/ e \notin head.exprs
               \/ Max({0} \cup Numbers) = scn.run

\* A run's log directory holds the events of that run and nothing else, for as
\* long as the run is listed: numbers are not handed out twice, and retention
\* and repository deletion remove only the logs of rows that are gone.
LogsAreOwn ==
    ~overlap /\ ~adopted => \A r \in runs : r.log => {d.repo : d \in {x \in logs : x.number = r.number}} = {r.repo}

\* "The DB row goes first so a half-failure leaves no dangling registration
\* pointing at a missing git dir": a crash or a failure between any two steps
\* of creation and deletion leaves no row without its directory.
NoDanglingRegistration == repo # NoRepo /\ ~overlap => git
=============================================================================
