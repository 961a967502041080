--------------------------- MODULE RepositoryProofs ---------------------------
(***************************************************************************)
(* For any cron expressions, and any number of registrations, runs, log    *)
(* directories, failing calls and restarts: the registration of a name     *)
(* stands on its directory, a listed run's log directory holds that run's  *)
(* events alone, and a schedule fires once per occurrence.                 *)
(*                                                                         *)
(* The argument: the newest run is never pruned, so that a new run's       *)
(* number exceeds every number that ever had a directory, those of the     *)
(* directories a sweep has still to remove included; and a tick looks back *)
(* to an instant that no firing so far lies behind.                        *)
(***************************************************************************)
EXTENDS Repository, FiniteSetTheorems, NaturalsInduction, WellFoundedInduction, TLAPS

Instants == [Exprs -> Nat]

RunShape == [repo : Nat, number : 1..scn.run, status : {"active", "ended", "kept"}, log : BOOLEAN]
CronShape == [pc : {"idle", "read", "fire", "stamp"}, id : Nat, now : Instants, from : Instants,
              todo : SUBSET Exprs, expr : Exprs \cup {NoExpr}]

TypeOK ==
    /\ scn \in Scenarios
    /\ repo \in Nat /\ ids \in Nat /\ repo <= ids
    /\ enabled \in BOOLEAN /\ git \in BOOLEAN /\ overlap \in BOOLEAN /\ adopted \in BOOLEAN
    /\ head.exprs \subseteq Exprs
    /\ sched \in [Exprs -> [at : {"none", "never", "fired"}, last : Nat]]
    /\ runs \subseteq RunShape
    /\ logs \subseteq [number : Nat, repo : Nat]
    /\ occ \in Instants /\ before \in Instants
    /\ chan \subseteq [now : Instants, from : Instants]
    /\ cron \in CronShape
    /\ cron.pc = "stamp" => cron.expr \in Exprs
    /\ prune \subseteq Nat
    /\ del \in [pc : {"idle", "counted", "row", "git"}, id : Nat]
    /\ create \in {"idle", "looked", "dir"}
    /\ lastFire \in Instants
    /\ forgot \subseteq Exprs
    /\ faults \in Nat /\ crashes \in Nat

\* A name that is registered, or about to be, has its directory, and no
\* deletion is still removing it.
Registered ==
    /\ create # "idle" => repo = NoRepo
    /\ del.pc = "counted" => repo # NoRepo
    /\ ~overlap /\ (repo # NoRepo \/ create = "dir") => git /\ del.pc \notin {"row", "git"}

\* Every run is of the name's registration, and has a number of its own.
OwnRuns ==
    /\ \A r \in runs : repo # NoRepo /\ r.repo = repo
    /\ \A r, x \in runs : r.number = x.number => r = x

\* The log tree is that of the registration; what a sweep has still to remove
\* lies below the number of a run that stays.
OwnLogs ==
    ~overlap /\ ~adopted =>
        /\ create = "dir" => logs = {} /\ prune = {}
        /\ \A r \in runs : r.log => \E d \in logs : d.number = r.number
        /\ repo # NoRepo =>
             /\ \A d \in logs : d.repo = repo
             /\ \A n \in prune : n \notin Numbers /\ \E r \in runs : r.number > n

\* What the scheduler knows of the time: neither a firing nor the tick in hand
\* is ahead of the ticker, nor of where a waiting tick looks back to.
Clock ==
    \A e \in Exprs :
        /\ lastFire[e] <= before[e] /\ cron.now[e] <= before[e] /\ before[e] <= occ[e]
        /\ \A t \in chan : /\ lastFire[e] <= t.from[e] /\ cron.now[e] <= t.from[e]
                           /\ t.now[e] <= before[e]

\* What it knows of the firings: no schedule it has still to visit fired after
\* the instant its tick looks back to, and a row that is stamped is stamped with
\* the last firing, or a later instant, unless that firing is not on record.
OnRecord ==
    /\ cron.pc = "stamp" => /\ lastFire[cron.expr] = cron.now[cron.expr]
                            /\ cron.id # repo => cron.expr \in forgot
    /\ cron.pc # "idle" => cron.id # NoRepo
    /\ \A e \in Exprs :
         /\ \/ cron.pc = "read"
            \/ cron.pc = "fire" /\ e \in cron.todo
            \/ cron.pc = "stamp" /\ e \in cron.todo /\ e # cron.expr
            => lastFire[e] <= cron.from[e]
         /\ sched[e].at = "fired" /\ e \notin forgot /\ ~(cron.pc = "stamp" /\ cron.expr = e)
              => lastFire[e] <= sched[e].last

\* The inductive invariant.
IInv == TypeOK /\ Registered /\ OwnRuns /\ OwnLogs /\ Clock /\ OnRecord

-----------------------------------------------------------------------------
(* Facts about the numbers of runs                                         *)

\* A set of numbers has a least one, and, when it has a bound, a greatest one.
LEMMA LeastElement ==
    ASSUME NEW S \in SUBSET Nat, S # {}
    PROVE  \E x \in S : \A y \in S : x <= y
<1>1. PICK x \in S : \A y \in S : ~(<<y, x>> \in OpToRel(<, Nat))
  BY NatLessThanWellFounded, WFMin
<1>2. \A y \in S : ~(y < x)
  BY <1>1 DEF OpToRel
<1> QED
  BY <1>2

LEMMA MaxProperties ==
    ASSUME NEW S \in SUBSET Nat, S # {}, NEW b \in Nat, \A x \in S : x <= b
    PROVE  Max(S) \in S /\ \A y \in S : y <= Max(S)
<1> DEFINE R == {b - x : x \in S}
<1>0. \A x \in S : b - x \in Nat
  BY SMT
<1>1. R \in SUBSET Nat /\ R # {}
  BY <1>0
<1>2. PICK d \in R : \A y \in R : d <= y
  BY <1>1, LeastElement
<1>3. PICK x \in S : d = b - x
  BY <1>2
<1>4. \A y \in S : b - y \in R
  OBVIOUS
<1>5. \A y \in S : y <= x
  <2> SUFFICES ASSUME NEW y \in S PROVE b - x <= b - y => y <= x
    BY <1>2, <1>3, <1>4
  <2> QED
    BY SMT
<1> QED
  BY <1>5 DEF Max

\* The number that EnqueueRun goes on from.
LEMMA LastNumber ==
    ASSUME TypeOK
    PROVE  LET last == Max({0} \cup Numbers) IN
           /\ last \in Nat /\ scn.run \in Nat
           /\ \A r \in runs : r.number <= last
           /\ last = 0 \/ \E r \in runs : r.number = last
<1> DEFINE S == {0} \cup Numbers
<1>1. scn.run \in Nat
  BY ScenariosAssumption DEF TypeOK
<1>2. S \in SUBSET Nat /\ S # {} /\ \A x \in S : x <= scn.run
  BY <1>1 DEF TypeOK, RunShape, Numbers
<1>3. Max(S) \in S /\ \A y \in S : y <= Max(S)
  BY <1>1, <1>2, MaxProperties
<1>4. \A r \in runs : r.number \in S
  BY DEF Numbers
<1>5. Max(S) = 0 \/ \E r \in runs : r.number = Max(S)
  BY <1>3 DEF Numbers
<1> QED
  BY <1>1, <1>2, <1>3, <1>4, <1>5

\* A run that is pruned leaves one with a greater number behind: the newest run
\* has none that are newer, and at least one is kept.
LEMMA NewestStays ==
    ASSUME TypeOK, OwnRuns, scn.keep > 0, NEW p \in Prunable
    PROVE  \E r \in runs \ Prunable : r.number > p.number
<1>1. PICK r \in runs : \A x \in runs : x.number <= r.number
  <2> DEFINE last == Max({0} \cup Numbers)
  <2>1. last = 0 \/ \E x \in runs : x.number = last
    BY LastNumber
  <2>2. p \in runs /\ p.number <= last /\ last \in Nat /\ scn.run \in Nat
    BY LastNumber DEF Prunable
  <2> HIDE DEF last
  <2>3. PICK x \in runs : x.number = last
    BY <2>1, <2>2 DEF TypeOK, RunShape
  <2> QED
    BY <2>3, LastNumber DEF last
<1>2. scn.keep \in Nat
  BY ScenariosAssumption DEF TypeOK
<1>3. \A x \in runs : x.number \in Nat
  BY DEF TypeOK, RunShape
<1>4. Newer(r) = {}
  BY <1>1, <1>3 DEF Newer
<1>5. r \notin Prunable
  BY <1>2, <1>4, FS_EmptySet DEF Prunable
<1>6. p \in runs /\ p # r
  BY <1>5 DEF Prunable
<1> QED
  BY <1>1, <1>3, <1>5, <1>6 DEF OwnRuns

\* The run that EnqueueRun inserts.
NewRun(id, n) == [repo |-> id, number |-> n, status |-> "active", log |-> FALSE]

LEMMA NewRunType ==
    ASSUME NEW id \in Nat, NEW n \in 1..scn.run
    PROVE  NewRun(id, n) \in RunShape
<1>1. NewRun(id, n).log \in BOOLEAN
  BY Zenon DEF NewRun
<1> QED
  BY <1>1 DEF NewRun, RunShape

\* It is numbered past all others.
LEMMA Enqueued ==
    ASSUME TypeOK, NEW id, EnqueueRun(id)
    PROVE  /\ repo = id /\ repo # NoRepo
           /\ \E n \in 1..scn.run : /\ \A x \in runs : x.number < n
                                   /\ runs' = runs \cup {NewRun(id, n)}
<1> DEFINE last == Max({0} \cup Numbers)
<1>1. /\ last \in Nat /\ scn.run \in Nat /\ last < scn.run
      /\ \A x \in runs : x.number <= last
      /\ runs' = runs \cup {NewRun(id, last + 1)} /\ repo = id /\ repo # NoRepo
  BY LastNumber DEF EnqueueRun, NewRun
<1>2. \A x \in runs : x.number \in Nat
  BY DEF TypeOK, RunShape
<1> HIDE DEF last
<1>3. last + 1 \in 1..scn.run /\ \A x \in runs : x.number < last + 1
  BY <1>1, <1>2
<1> QED
  BY <1>1, <1>3

-----------------------------------------------------------------------------
(* The steps                                                               *)

LEMMA InitInv == Init => IInv
<1> SUFFICES ASSUME Init PROVE IInv
  OBVIOUS
<1>1. TypeOK
  <2>1. enabled \in BOOLEAN /\ git \in BOOLEAN /\ overlap \in BOOLEAN /\ adopted \in BOOLEAN
    BY Zenon DEF Init
  <2>2. /\ repo \in Nat /\ ids \in Nat /\ repo <= ids /\ head.exprs \subseteq Exprs
        /\ sched \in [Exprs -> [at : {"none", "never", "fired"}, last : Nat]]
        /\ occ \in Instants /\ before \in Instants /\ lastFire \in Instants
    BY DEF Init, Instants, Unborn, NoRow, NoRepo
  <2>3. /\ cron \in CronShape
        /\ cron.pc # "stamp"
        /\ del \in [pc : {"idle", "counted", "row", "git"}, id : Nat]
    BY DEF Init, CronShape, Instants, NoRepo, IdleCron, IdleDel
  <2>4. /\ scn \in Scenarios /\ runs = {} /\ logs = {} /\ chan = {} /\ prune = {}
        /\ create \in {"idle", "looked", "dir"} /\ forgot \subseteq Exprs
        /\ faults \in Nat /\ crashes \in Nat
    BY DEF Init
  <2> QED
    BY <2>1, <2>2, <2>3, <2>4 DEF TypeOK
<1>2. Registered /\ OwnRuns /\ OwnLogs
  BY DEF Init, Registered, OwnRuns, OwnLogs, IdleDel
<1>3. Clock /\ OnRecord
  BY DEF Init, Clock, OnRecord, IdleCron, NoRow
<1> QED
  BY <1>1, <1>2, <1>3 DEF IInv

\* The scheduler goes on to the next schedule, or is done.
LEMMA VisitedType ==
    ASSUME TypeOK, NEW e \in Exprs, cron' = Visited(e)
    PROVE  /\ cron' \in CronShape
           /\ cron'.pc # "stamp" /\ cron'.pc # "read"
           /\ \A x \in Exprs : cron'.now[x] = 0 \/ cron'.now[x] = cron.now[x]
           /\ cron'.pc # "idle" =>
                /\ cron'.pc = "fire" /\ cron'.todo = cron.todo \ {e}
                /\ cron'.from = cron.from /\ cron'.id = cron.id
  BY DEF TypeOK, CronShape, Visited, IdleCron, Instants, NoRepo

LEMMA TypeStep == TypeOK /\ [Next]_vars => TypeOK'
<1> SUFFICES ASSUME TypeOK, [Next]_vars PROVE TypeOK'
  OBVIOUS
<1> USE DEF repoVars, timeVars, fireVars, handVars
<1>1. CASE Trigger
  <2>1. PICK n \in 1..scn.run : runs' = runs \cup {NewRun(repo, n)}
    BY <1>1, Enqueued DEF Trigger
  <2>2. NewRun(repo, n) \in RunShape
    BY NewRunType DEF TypeOK
  <2> QED
    BY <1>1, <2>1, <2>2 DEF Trigger, TypeOK, RunShape
<1>2. ASSUME NEW r \in runs, StartLog(r) PROVE TypeOK'
  <2>1. [r EXCEPT !.log = TRUE] \in RunShape
    <3>1. r \in RunShape /\ TRUE \in BOOLEAN
      BY DEF TypeOK
    <3> QED
      BY <3>1 DEF RunShape
  <2>2. [number |-> r.number, repo |-> r.repo] \in [number : Nat, repo : Nat]
    BY DEF TypeOK, RunShape
  <2> QED
    BY <1>2, <2>1, <2>2 DEF StartLog, TypeOK, RunShape
<1>3. ASSUME NEW r \in runs, EndRun(r) PROVE TypeOK'
  BY <1>3 DEF EndRun, TypeOK, RunShape
<1>4. CASE PruneRuns
  BY <1>4 DEF PruneRuns, Prunable, TypeOK, RunShape
<1>5. ASSUME NEW n \in prune, RemoveLogs(n) PROVE TypeOK'
  BY <1>5 DEF RemoveLogs, TypeOK, RunShape
<1>6. ASSUME NEW e \in Exprs, Occur(e) PROVE TypeOK'
  BY <1>6 DEF Occur, TypeOK, RunShape, Instants
<1>7. CASE Ticker
  BY <1>7 DEF Ticker, TypeOK, RunShape
<1>8. CASE Tick
  <2>1. IdleCron \in CronShape /\ IdleCron.pc = "idle"
    BY DEF IdleCron, CronShape, Instants, NoRepo
  <2>2. ASSUME NEW t \in chan
        PROVE  [IdleCron EXCEPT !.pc = "read", !.id = repo, !.now = t.now, !.from = t.from] \in CronShape
    BY <2>1 DEF CronShape, TypeOK, RunShape
  <2>3. cron' \in CronShape /\ cron'.pc # "stamp"
    BY <1>8, <2>1, <2>2 DEF Tick, CronShape
  <2> QED
    BY <1>8, <2>3 DEF Tick, TypeOK, RunShape
<1>9. CASE ReadPipeline
  BY <1>9 DEF ReadPipeline, TypeOK, CronShape, RunShape, IdleCron, Instants, NoRepo, UpsertCronSchedules, NoRow, Never
<1>10. ASSUME NEW e \in Exprs, Fire(e) PROVE TypeOK'
  <2>1. CASE cron' = Visited(e) /\ UNCHANGED <<runs, lastFire, forgot>> /\ faults' \in Nat
    BY <1>10, <2>1, VisitedType DEF Fire, TypeOK, RunShape
  <2>2. CASE /\ EnqueueRun(cron.id) /\ cron' = [cron EXCEPT !.pc = "stamp", !.expr = e]
             /\ lastFire' = [lastFire EXCEPT ![e] = cron.now[e]]
             /\ forgot' = forgot \ {e} /\ UNCHANGED faults
    <3>1. PICK n \in 1..scn.run : runs' = runs \cup {NewRun(cron.id, n)}
      BY <2>2, Enqueued
    <3>2. NewRun(cron.id, n) \in RunShape
      BY NewRunType DEF TypeOK, CronShape
    <3>3. cron' \in CronShape /\ cron'.expr = e
      BY <2>2 DEF TypeOK, CronShape
    <3>4. lastFire' \in Instants /\ forgot' \subseteq Exprs /\ faults' \in Nat
      BY <2>2 DEF TypeOK, CronShape, Instants
    <3> QED
      BY <1>10, <3>1, <3>2, <3>3, <3>4 DEF Fire, TypeOK, RunShape
  <2> QED
    BY <1>10, <2>1, <2>2 DEF Fire, TypeOK, RunShape
<1>11. CASE Stamp
  BY <1>11, VisitedType DEF Stamp, TypeOK, CronShape, RunShape, Fired, Instants
<1>12. CASE SetCIEnabled
  BY <1>12 DEF SetCIEnabled, TypeOK, RunShape
<1>13. ASSUME NEW h \in scn.heads, PushHead(h) PROVE TypeOK'
  BY <1>13, ScenariosAssumption DEF PushHead, TypeOK, RunShape
<1>14. CASE LookupConflict
  BY <1>14 DEF LookupConflict, TypeOK, RunShape
<1>15. CASE InitBare
  BY <1>15 DEF InitBare, TypeOK, RunShape, Unborn, Pending
<1>16. CASE EnsureRepo
  <2>1. enabled' \in BOOLEAN
    <3>1. CASE repo = NoRepo
      <4>1. enabled' = FALSE
        BY <1>16, <3>1, Zenon DEF EnsureRepo
      <4> QED
        BY <4>1, Zenon
    <3>2. CASE repo # NoRepo
      BY <1>16, <3>2 DEF EnsureRepo, TypeOK, RunShape
    <3> QED
      BY <3>1, <3>2
  <2>2. repo' \in Nat /\ ids' \in Nat /\ repo' <= ids'
    BY <1>16 DEF EnsureRepo, TypeOK, RunShape
  <2> QED
    BY <1>16, <2>1, <2>2 DEF EnsureRepo, TypeOK, RunShape
<1>17. CASE CountActiveRuns
  BY <1>17 DEF CountActiveRuns, TypeOK, RunShape
<1>18. CASE DeleteRow
  <2>1. /\ repo' \in Nat /\ repo' <= ids /\ runs' \subseteq RunShape /\ forgot' \subseteq Exprs
        /\ sched' \in [Exprs -> [at : {"none", "never", "fired"}, last : Nat]]
        /\ del' \in [pc : {"idle", "counted", "row", "git"}, id : Nat]
    BY <1>18 DEF DeleteRow, TypeOK, RunShape, NoRow, NoRepo, IdleDel
  <2>2. overlap' \in BOOLEAN
    BY <1>18, Zenon DEF DeleteRow, TypeOK, RunShape
  <2> QED
    BY <1>18, <2>1, <2>2 DEF DeleteRow, TypeOK, RunShape
<1>19. CASE RemoveGit
  <2>1. git' \in BOOLEAN
    <3>1. git' = FALSE \/ git' = git
      BY <1>19, Zenon DEF RemoveGit
    <3> QED
      BY <3>1, Zenon DEF TypeOK
  <2>2. /\ head'.exprs \subseteq Exprs /\ faults' \in Nat
        /\ del' \in [pc : {"idle", "counted", "row", "git"}, id : Nat]
    BY <1>19 DEF RemoveGit, TypeOK, RunShape, Unborn
  <2> QED
    BY <1>19, <2>1, <2>2 DEF RemoveGit, TypeOK, RunShape
<1>20. CASE RemoveRepoLogs
  BY <1>20 DEF RemoveRepoLogs, TypeOK, RunShape, IdleDel, NoRepo
<1>21. CASE Crash
  BY <1>21 DEF Crash, TypeOK, CronShape, RunShape, IdleCron, IdleDel, NoRepo, Instants
<1>22. CASE UNCHANGED vars
  BY <1>22 DEF vars, TypeOK, RunShape
<1> QED
  BY <1>1, <1>2, <1>3, <1>4, <1>5, <1>6, <1>7, <1>8, <1>9, <1>10, <1>11, <1>12, <1>13, <1>14, <1>15,
     <1>16, <1>17, <1>18, <1>19, <1>20, <1>21, <1>22 DEF Next

\* Only the handlers of creation and deletion, and a crash, touch what
\* Registered speaks of.
LEMMA RegisteredStep == TypeOK /\ Registered /\ [Next]_vars => Registered'
<1> SUFFICES ASSUME TypeOK, Registered, [Next]_vars PROVE Registered'
  OBVIOUS
<1> USE DEF repoVars, timeVars, fireVars, handVars
<1>1. CASE UNCHANGED <<repo, git, del, create, overlap>>
  BY <1>1 DEF Registered
<1>2. CASE LookupConflict
  BY <1>2 DEF LookupConflict, Registered
<1>3. CASE InitBare
  <2>1. repo = NoRepo /\ UNCHANGED <<repo, del>> /\ git' /\ create' = "dir" /\ del.pc # "counted"
    BY <1>3 DEF InitBare, Registered
  <2>2. ~overlap' => del.pc \notin {"row", "git"}
    BY <1>3 DEF InitBare, Pending
  <2> QED
    BY <2>1, <2>2 DEF Registered
<1>4. CASE EnsureRepo
  BY <1>4 DEF EnsureRepo, Registered, TypeOK, NoRepo
<1>5. CASE CountActiveRuns
  BY <1>5 DEF CountActiveRuns, Registered
<1>6. CASE DeleteRow
  BY <1>6 DEF DeleteRow, Registered, IdleDel, TypeOK
<1>7. CASE RemoveGit
  <2>1. UNCHANGED <<repo, create, overlap>> /\ del.pc = "row" /\ del'.pc = "git"
    BY <1>7 DEF RemoveGit, TypeOK
  <2> QED
    BY <2>1 DEF Registered
<1>8. CASE RemoveRepoLogs
  BY <1>8 DEF RemoveRepoLogs, Registered, IdleDel
<1>9. CASE Crash
  BY <1>9 DEF Crash, Registered, IdleDel
<1>10. \/ UNCHANGED <<repo, git, del, create, overlap>>
       \/ LookupConflict \/ InitBare \/ EnsureRepo \/ CountActiveRuns \/ DeleteRow
       \/ RemoveGit \/ RemoveRepoLogs \/ Crash
  BY DEF Next, vars, Trigger, StartLog, EndRun, PruneRuns, RemoveLogs, Occur, Ticker, Tick,
     ReadPipeline, Fire, Stamp, SetCIEnabled, PushHead
<1> QED
  BY <1>1, <1>2, <1>3, <1>4, <1>5, <1>6, <1>7, <1>8, <1>9, <1>10

\* How a step may change the runs.
LEMMA RunsStep ==
    ASSUME TypeOK, Registered, OwnRuns, [Next]_vars
    PROVE  \/ runs' = runs /\ (repo' = repo \/ runs = {})
           \/ /\ \E n \in 1..scn.run : /\ \A x \in runs : x.number < n
                                       /\ runs' = runs \cup {NewRun(repo, n)}
              /\ repo # NoRepo /\ repo' = repo
           \/ /\ \E r \in runs : \E x \in RunShape :
                    /\ x.number = r.number /\ x.repo = r.repo
                    /\ runs' = (runs \ {r}) \cup {x}
              /\ repo' = repo
           \/ runs' \subseteq runs /\ repo' = repo
           \/ runs' = {}
<1> USE DEF repoVars, timeVars, fireVars, handVars
<1>1. CASE Trigger
  BY <1>1, Enqueued DEF Trigger
<1>2. ASSUME NEW r \in runs, StartLog(r) \/ EndRun(r)
      PROVE  /\ repo' = repo
             /\ \E x \in RunShape : /\ x.number = r.number /\ x.repo = r.repo
                                    /\ runs' = (runs \ {r}) \cup {x}
  <2>1. r \in RunShape /\ TRUE \in BOOLEAN
    BY DEF TypeOK
  <2>2. [r EXCEPT !.log = TRUE] \in RunShape
    BY <2>1 DEF RunShape
  <2>3. ASSUME NEW st \in {"ended", "kept"} PROVE [r EXCEPT !.status = st] \in RunShape
    BY <2>1 DEF RunShape
  <2> QED
    BY <1>2, <2>1, <2>2, <2>3 DEF StartLog, EndRun, RunShape
<1>3. CASE PruneRuns
  BY <1>3 DEF PruneRuns
<1>4. ASSUME NEW e \in Exprs, Fire(e)
      PROVE  \/ runs' = runs /\ repo' = repo
             \/ /\ \E n \in 1..scn.run : /\ \A x \in runs : x.number < n
                                         /\ runs' = runs \cup {NewRun(repo, n)}
                /\ repo # NoRepo /\ repo' = repo
  BY <1>4, Enqueued DEF Fire
<1>5. CASE EnsureRepo
  BY <1>5 DEF EnsureRepo, Registered, OwnRuns
<1>6. CASE DeleteRow
  BY <1>6 DEF DeleteRow
<1>7. \/ UNCHANGED <<repo, runs>>
      \/ Trigger \/ (\E r \in runs : StartLog(r) \/ EndRun(r)) \/ PruneRuns
      \/ (\E e \in Exprs : Fire(e)) \/ EnsureRepo \/ DeleteRow
  BY DEF Next, vars, RemoveLogs, Occur, Ticker, Tick, ReadPipeline, Stamp, SetCIEnabled, PushHead,
     LookupConflict, InitBare, CountActiveRuns, RemoveGit, RemoveRepoLogs, Crash
<1> QED
  BY <1>1, <1>2, <1>3, <1>4, <1>5, <1>6, <1>7

LEMMA OwnRunsStep == TypeOK /\ Registered /\ OwnRuns /\ [Next]_vars => OwnRuns'
<1> SUFFICES ASSUME TypeOK, Registered, OwnRuns, [Next]_vars PROVE OwnRuns'
  OBVIOUS
<1>1. CASE runs' = runs /\ (repo' = repo \/ runs = {})
  BY <1>1 DEF OwnRuns
<1>2. ASSUME NEW n \in 1..scn.run, \A x \in runs : x.number < n,
             runs' = runs \cup {NewRun(repo, n)}, repo # NoRepo, repo' = repo
      PROVE  OwnRuns'
  <2>1. \A x \in runs : x.number # NewRun(repo, n).number
    BY <1>2, LastNumber DEF NewRun, TypeOK, RunShape
  <2>2. NewRun(repo, n).repo = repo
    BY DEF NewRun
  <2> QED
    BY <1>2, <2>1, <2>2 DEF OwnRuns
<1>3. ASSUME NEW r \in runs, NEW x \in RunShape, x.number = r.number, x.repo = r.repo,
             runs' = (runs \ {r}) \cup {x}, repo' = repo
      PROVE  OwnRuns'
  BY <1>3 DEF OwnRuns
<1>4. CASE runs' \subseteq runs /\ repo' = repo
  BY <1>4 DEF OwnRuns
<1>5. CASE runs' = {}
  BY <1>5 DEF OwnRuns
<1> QED
  BY <1>1, <1>2, <1>3, <1>4, <1>5, RunsStep

\* A new run's number is past that of every directory a sweep has still to
\* remove, and of every run.
LEMMA NumbersGrow ==
    ASSUME TypeOK, OwnLogs, ~overlap, ~adopted, repo # NoRepo, NEW n \in 1..scn.run,
           \A x \in runs : x.number < n
    PROVE  \A p \in prune : p < n
<1>1. \A x \in runs : x.number \in Nat
  BY DEF TypeOK, RunShape
<1>2. n \in Nat /\ prune \subseteq Nat
  BY LastNumber DEF TypeOK
<1>3. \A p \in prune : \E r \in runs : p < r.number
  BY <1>1, <1>2 DEF OwnLogs
<1> QED
  BY <1>1, <1>2, <1>3

\* The conjuncts of OwnLogs after a run was enqueued.
LEMMA EnqueueKeepsLogs ==
    ASSUME TypeOK, Registered, OwnLogs, NEW id, EnqueueRun(id),
           UNCHANGED <<repo, logs, prune, create, overlap, adopted>>
    PROVE  OwnLogs'
<1> SUFFICES ASSUME ~overlap, ~adopted PROVE OwnLogs'
  BY DEF OwnLogs
<1>1. PICK n \in 1..scn.run : /\ \A x \in runs : x.number < n
                              /\ runs' = runs \cup {NewRun(id, n)}
  BY Enqueued
<1>2. repo # NoRepo /\ create # "dir"
  BY Enqueued DEF Registered
<1>3. \A p \in prune : p < n
  BY <1>1, <1>2, NumbersGrow
<1>4. NewRun(id, n).log = FALSE /\ NewRun(id, n).number = n
  BY DEF NewRun
<1>5. \A p \in prune : p # n
  BY <1>3, LastNumber DEF TypeOK
<1>6. \A p \in prune : p \notin Numbers' /\ \E r \in runs' : r.number > p
  BY <1>1, <1>2, <1>4, <1>5 DEF OwnLogs, Numbers
<1>7. \A r \in runs' : r.log => \E d \in logs' : d.number = r.number
  BY <1>1, <1>4 DEF OwnLogs
<1> QED
  BY <1>2, <1>6, <1>7 DEF OwnLogs

\* A run that stays gives way to one of the same number.
LEMMA ReplaceKeepsNumbers ==
    ASSUME NEW r \in runs, NEW x, x.number = r.number, runs' = (runs \ {r}) \cup {x}
    PROVE  Numbers' = Numbers /\ \A p : (\E y \in runs : y.number > p) => \E y \in runs' : y.number > p
  BY DEF Numbers

LEMMA OwnLogsStep == TypeOK /\ Registered /\ OwnRuns /\ OwnLogs /\ [Next]_vars => OwnLogs'
<1> SUFFICES ASSUME TypeOK, Registered, OwnRuns, OwnLogs, [Next]_vars PROVE OwnLogs'
  OBVIOUS
<1> USE DEF repoVars, timeVars, fireVars, handVars
<1>1. CASE UNCHANGED <<repo, runs, logs, prune, create, overlap, adopted>>
  BY <1>1 DEF OwnLogs, Numbers
<1>2. CASE Trigger
  BY <1>2, EnqueueKeepsLogs DEF Trigger
<1>3. ASSUME NEW r \in runs, StartLog(r) PROVE OwnLogs'
  <2> SUFFICES ASSUME ~overlap, ~adopted PROVE OwnLogs'
    BY <1>3 DEF OwnLogs, StartLog
  <2> DEFINE x == [r EXCEPT !.log = TRUE]
             dir == [number |-> r.number, repo |-> r.repo]
  <2>1. x.number = r.number /\ dir.number = r.number /\ dir.repo = repo /\ repo # NoRepo
    BY DEF TypeOK, RunShape, OwnRuns
  <2>2. runs' = (runs \ {r}) \cup {x} /\ logs' = logs \cup {dir}
    BY <1>3 DEF StartLog
  <2>3. UNCHANGED <<repo, prune, create, overlap, adopted>> /\ create # "dir"
    BY <1>3, <2>1 DEF StartLog, Registered
  <2> HIDE DEF x, dir
  <2>4. \A y \in runs' : y.log => \E d \in logs' : d.number = y.number
    BY <2>1, <2>2 DEF OwnLogs
  <2>5. \A n \in prune' : n \notin Numbers' /\ \E y \in runs' : y.number > n
    BY <2>1, <2>2, <2>3, ReplaceKeepsNumbers DEF OwnLogs
  <2> QED
    BY <2>1, <2>2, <2>3, <2>4, <2>5 DEF OwnLogs
<1>4. ASSUME NEW r \in runs, EndRun(r) PROVE OwnLogs'
  <2>1. PICK st \in {"ended", "kept"} : runs' = (runs \ {r}) \cup {[r EXCEPT !.status = st]}
    BY <1>4 DEF EndRun
  <2> DEFINE x == [r EXCEPT !.status = st]
  <2>2. x.number = r.number /\ x.log = r.log
    BY DEF TypeOK, RunShape
  <2>3. UNCHANGED <<repo, logs, prune, create, overlap, adopted>>
    BY <1>4 DEF EndRun
  <2>4. runs' = (runs \ {r}) \cup {x}
    BY <2>1
  <2> HIDE DEF x
  <2>5. /\ \A n \in prune : (\E y \in runs : y.number > n) => \E y \in runs' : y.number > n
        /\ Numbers' = Numbers
    BY <2>2, <2>4, ReplaceKeepsNumbers
  <2> QED
    BY <2>2, <2>3, <2>4, <2>5 DEF OwnLogs
<1>5. CASE PruneRuns
  <2> SUFFICES ASSUME ~overlap, ~adopted PROVE OwnLogs'
    BY <1>5 DEF OwnLogs, PruneRuns
  <2>1. /\ runs' = runs \ Prunable /\ prune' = {r.number : r \in Prunable}
        /\ UNCHANGED <<repo, logs, create, overlap, adopted>> /\ scn.keep > 0
    BY <1>5 DEF PruneRuns
  <2>2. Prunable \subseteq runs /\ Prunable # {}
    BY <1>5 DEF PruneRuns, Prunable
  <2>3. repo # NoRepo /\ create # "dir"
    BY <2>2 DEF OwnRuns, Registered
  <2>4. \A p \in Prunable : \E r \in runs' : r.number > p.number
    BY <2>1, NewestStays
  <2>5. \A p \in Prunable : p.number \notin Numbers'
    BY <2>1, <2>2 DEF Numbers, OwnRuns
  <2>6. \A n \in prune' : n \notin Numbers' /\ \E r \in runs' : r.number > n
    BY <2>1, <2>4, <2>5
  <2> QED
    BY <2>1, <2>2, <2>3, <2>6 DEF OwnLogs
<1>6. ASSUME NEW n \in prune, RemoveLogs(n) PROVE OwnLogs'
  <2> SUFFICES ASSUME ~overlap, ~adopted PROVE OwnLogs'
    BY <1>6 DEF OwnLogs, RemoveLogs
  <2>1. /\ prune' = prune \ {n} /\ logs' = {d \in logs : d.number # n}
        /\ UNCHANGED <<repo, runs, create, overlap, adopted>> /\ Numbers' = Numbers
    BY <1>6 DEF RemoveLogs, Numbers
  <2>2. \A r \in runs : r.number # n
    BY DEF OwnLogs, OwnRuns, Numbers
  <2> QED
    BY <2>1, <2>2 DEF OwnLogs
<1>7. ASSUME NEW e \in Exprs, Fire(e) PROVE OwnLogs'
  <2>1. UNCHANGED <<repo, logs, prune, create, overlap, adopted>>
    BY <1>7 DEF Fire
  <2>2. runs' = runs \/ EnqueueRun(cron.id)
    BY <1>7 DEF Fire
  <2> QED
    BY <1>1, <2>1, <2>2, EnqueueKeepsLogs
<1>8. CASE LookupConflict
  BY <1>8 DEF LookupConflict, OwnLogs, Numbers
<1>9. CASE InitBare
  <2>1. /\ UNCHANGED <<repo, runs, logs, prune>> /\ repo = NoRepo /\ runs = {}
        /\ overlap' = (overlap \/ Pending) /\ adopted' = (adopted \/ logs # {})
    BY <1>9 DEF InitBare, Registered, OwnRuns
  <2>2. ~overlap' /\ ~adopted' => logs = {} /\ prune = {}
    BY <2>1 DEF Pending
  <2> QED
    BY <2>1, <2>2 DEF OwnLogs
<1>10. CASE EnsureRepo
  <2>1. /\ UNCHANGED <<runs, logs, prune, overlap, adopted>> /\ repo = NoRepo /\ runs = {}
        /\ create = "dir" /\ create' = "idle"
    BY <1>10 DEF EnsureRepo, Registered, OwnRuns
  <2> QED
    BY <2>1 DEF OwnLogs
<1>11. CASE DeleteRow
  <2>1. CASE repo = del.id
    BY <1>11, <2>1 DEF DeleteRow, OwnLogs, Registered
  <2>2. CASE repo # del.id
    BY <1>1, <1>11, <2>2 DEF DeleteRow
  <2> QED
    BY <2>1, <2>2
<1>12. CASE RemoveRepoLogs
  <2>1. /\ UNCHANGED <<repo, runs, prune, create, overlap, adopted>> /\ del.pc = "git"
        /\ (logs' = {} \/ logs' = logs) /\ Numbers' = Numbers
    BY <1>12 DEF RemoveRepoLogs, Numbers
  <2>2. ~overlap => repo = NoRepo /\ runs = {}
    BY <2>1 DEF Registered, OwnRuns
  <2> QED
    BY <2>1, <2>2 DEF OwnLogs
<1>13. CASE Crash
  BY <1>13 DEF Crash, OwnLogs
<1>14. \/ UNCHANGED <<repo, runs, logs, prune, create, overlap, adopted>>
       \/ Trigger \/ (\E r \in runs : StartLog(r) \/ EndRun(r))
       \/ PruneRuns \/ (\E n \in prune : RemoveLogs(n)) \/ (\E e \in Exprs : Fire(e))
       \/ LookupConflict \/ InitBare \/ EnsureRepo \/ DeleteRow \/ RemoveRepoLogs \/ Crash
  BY DEF Next, vars, Occur, Ticker, Tick, ReadPipeline, Stamp, SetCIEnabled, PushHead,
     CountActiveRuns, RemoveGit
<1> QED
  BY <1>1, <1>2, <1>3, <1>4, <1>5, <1>6, <1>7, <1>8, <1>9, <1>10, <1>11, <1>12, <1>13, <1>14

LEMMA ClockStep == TypeOK /\ Clock /\ [Next]_vars => Clock'
<1> SUFFICES ASSUME TypeOK, Clock, [Next]_vars PROVE Clock'
  OBVIOUS
<1> USE DEF repoVars, timeVars, fireVars, handVars
<1>0. \A e \in Exprs : /\ occ[e] \in Nat /\ before[e] \in Nat /\ lastFire[e] \in Nat /\ cron.now[e] \in Nat
                       /\ \A t \in chan : t.now[e] \in Nat /\ t.from[e] \in Nat
  BY DEF TypeOK, CronShape, Instants
<1>1. CASE UNCHANGED <<lastFire, before, occ, chan, cron>>
  BY <1>1 DEF Clock
<1>2. ASSUME NEW x \in Exprs, Occur(x) PROVE Clock'
  <2>1. \A e \in Exprs : occ[e] <= occ'[e]
    BY <1>0, <1>2 DEF Occur, TypeOK, Instants
  <2>2. \A e \in Exprs : occ'[e] \in Nat
    BY <1>0, <1>2 DEF Occur, TypeOK, Instants
  <2> QED
    BY <1>0, <1>2, <2>1, <2>2 DEF Occur, Clock
<1>3. CASE Ticker
  <2>1. /\ before' = occ /\ UNCHANGED <<lastFire, occ, cron>>
        /\ \A t \in chan' : t = [now |-> occ, from |-> before] \/ t \in chan
    BY <1>3 DEF Ticker
  <2> QED
    BY <1>0, <2>1 DEF Clock
<1>4. CASE Tick
  <2>1. /\ chan' = {} /\ UNCHANGED <<lastFire, before, occ>>
        /\ \E t \in chan : \A e \in Exprs : cron'.now[e] = t.now[e] \/ cron'.now[e] = 0
    BY <1>4 DEF Tick, IdleCron
  <2> QED
    BY <1>0, <2>1 DEF Clock
<1>5. CASE ReadPipeline
  <2>1. UNCHANGED <<lastFire, before, occ, chan>> /\ \A e \in Exprs : cron'.now[e] = cron.now[e] \/ cron'.now[e] = 0
    BY <1>5 DEF ReadPipeline, IdleCron, TypeOK, CronShape
  <2> QED
    BY <1>0, <2>1 DEF Clock
<1>6. ASSUME NEW x \in Exprs, Fire(x) PROVE Clock'
  <2>1. UNCHANGED <<before, occ, chan>>
    BY <1>6 DEF Fire
  <2>2. CASE cron' = Visited(x) /\ lastFire' = lastFire
    BY <1>0, <2>1, <2>2, VisitedType DEF Clock
  <2>3. CASE /\ cron' = [cron EXCEPT !.pc = "stamp", !.expr = x]
             /\ lastFire' = [lastFire EXCEPT ![x] = cron.now[x]]
    <3>1. cron'.now = cron.now /\ \A e \in Exprs : lastFire'[e] = lastFire[e] \/ lastFire'[e] = cron.now[e]
      BY <2>3 DEF TypeOK, CronShape, Instants
    <3> QED
      BY <1>0, <2>1, <3>1 DEF Clock
  <2> QED
    BY <1>6, <2>2, <2>3 DEF Fire
<1>7. CASE Stamp
  <2>1. UNCHANGED <<lastFire, before, occ, chan>> /\ cron' = Visited(cron.expr) /\ cron.expr \in Exprs
    BY <1>7 DEF Stamp, TypeOK
  <2> QED
    BY <1>0, <2>1, VisitedType DEF Clock
<1>8. CASE Crash
  <2>1. /\ chan' = {} /\ before' = occ /\ UNCHANGED <<lastFire, occ>>
        /\ \A e \in Exprs : cron'.now[e] = 0
    BY <1>8 DEF Crash, IdleCron
  <2> QED
    BY <1>0, <2>1 DEF Clock
<1>9. \/ UNCHANGED <<lastFire, before, occ, chan, cron>>
      \/ (\E e \in Exprs : Occur(e) \/ Fire(e)) \/ Ticker \/ Tick \/ ReadPipeline \/ Stamp \/ Crash
  BY DEF Next, vars, Trigger, StartLog, EndRun, PruneRuns, RemoveLogs, SetCIEnabled, PushHead,
     LookupConflict, InitBare, EnsureRepo, CountActiveRuns, DeleteRow, RemoveGit, RemoveRepoLogs
<1> QED
  BY <1>1, <1>2, <1>3, <1>4, <1>5, <1>6, <1>7, <1>8, <1>9

\* A firing is later than the last one, unless that one is not on record.
LEMMA FiresLater ==
    ASSUME TypeOK, OnRecord, NEW e \in Exprs, cron.pc = "fire", e \in cron.todo, Due(e), e \notin forgot
    PROVE  lastFire[e] < cron.now[e]
<1>1. lastFire[e] \in Nat /\ cron.now[e] \in Nat /\ cron.from[e] \in Nat /\ sched[e].last \in Nat
  BY DEF TypeOK, CronShape, Instants
<1>2. CASE sched[e].at = "fired"
  <2>1. lastFire[e] <= sched[e].last
    BY <1>2 DEF OnRecord
  <2>2. cron.now[e] > sched[e].last
    BY <1>2 DEF Due
  <2> QED
    BY <1>1, <2>1, <2>2
<1>3. CASE sched[e].at # "fired"
  <2>1. lastFire[e] <= cron.from[e]
    BY DEF OnRecord
  <2>2. cron.now[e] > cron.from[e]
    BY <1>3 DEF Due
  <2> QED
    BY <1>1, <2>1, <2>2
<1> QED
  BY <1>2, <1>3

LEMMA OnRecordStep == TypeOK /\ Registered /\ Clock /\ OnRecord /\ [Next]_vars => OnRecord'
<1> SUFFICES ASSUME TypeOK, Registered, Clock, OnRecord, [Next]_vars PROVE OnRecord'
  OBVIOUS
<1> USE DEF repoVars, timeVars, fireVars, handVars
<1>0. /\ \A e \in Exprs : lastFire[e] \in Nat /\ cron.from[e] \in Nat /\ cron.now[e] \in Nat /\ sched[e].last \in Nat
      /\ cron.pc \in {"idle", "read", "fire", "stamp"}
      /\ cron.pc = "stamp" => cron.expr \in Exprs
  BY DEF TypeOK, CronShape, Instants
<1>1. CASE UNCHANGED <<repo, sched, cron, lastFire, forgot>>
  BY <1>1 DEF OnRecord
<1>2. CASE Tick
  <2>1. UNCHANGED <<repo, sched, lastFire, forgot>> /\ cron.pc = "idle"
    BY <1>2 DEF Tick
  <2>2. CASE cron' = IdleCron
    BY <2>1, <2>2 DEF OnRecord, IdleCron
  <2>3. ASSUME NEW t \in chan, repo # NoRepo,
               cron' = [IdleCron EXCEPT !.pc = "read", !.id = repo, !.now = t.now, !.from = t.from]
        PROVE  OnRecord'
    <3>1. cron'.pc = "read" /\ cron'.id = repo /\ cron'.from = t.from
      BY <2>3 DEF IdleCron
    <3>2. \A e \in Exprs : lastFire[e] <= t.from[e]
      BY DEF Clock
    <3> QED
      BY <2>1, <2>3, <3>1, <3>2 DEF OnRecord
  <2> QED
    BY <1>2, <2>2, <2>3 DEF Tick
<1>3. CASE ReadPipeline
  <2>1. UNCHANGED <<repo, lastFire, forgot>> /\ cron.pc = "read"
    BY <1>3 DEF ReadPipeline
  <2>2. \A e \in Exprs : sched'[e].at = "fired" => sched'[e] = sched[e]
    BY <1>3 DEF ReadPipeline, UpsertCronSchedules, NoRow, Never, TypeOK
  <2>3. \/ cron'.pc = "idle"
        \/ cron'.pc = "fire" /\ cron'.id = cron.id /\ cron'.from = cron.from
    BY <1>3 DEF ReadPipeline, IdleCron, TypeOK, CronShape
  <2> QED
    BY <2>1, <2>2, <2>3 DEF OnRecord
<1>4. ASSUME NEW x \in Exprs, Fire(x) PROVE OnRecord'
  <2>1. UNCHANGED <<repo, sched>> /\ cron.pc = "fire" /\ x \in cron.todo
    BY <1>4 DEF Fire
  <2>2. CASE cron' = Visited(x) /\ UNCHANGED <<lastFire, forgot>>
    <3>1. /\ cron'.pc # "stamp" /\ cron'.pc # "read"
          /\ cron'.pc # "idle" => /\ cron'.pc = "fire" /\ cron'.todo = cron.todo \ {x}
                                  /\ cron'.from = cron.from /\ cron'.id = cron.id
      BY <2>2, VisitedType
    <3> QED
      BY <2>1, <2>2, <3>1 DEF OnRecord
  <2>3. CASE /\ repo = cron.id
             /\ cron' = [cron EXCEPT !.pc = "stamp", !.expr = x]
             /\ lastFire' = [lastFire EXCEPT ![x] = cron.now[x]]
             /\ forgot' = forgot \ {x}
    <3>1. /\ cron'.pc = "stamp" /\ cron'.expr = x /\ cron'.id = cron.id /\ cron'.now = cron.now
          /\ cron'.from = cron.from /\ cron'.todo = cron.todo
      BY <2>3 DEF TypeOK, CronShape
    <3>2. lastFire'[x] = cron.now[x] /\ \A e \in Exprs : e # x => lastFire'[e] = lastFire[e]
      BY <2>3 DEF TypeOK, Instants
    <3> QED
      BY <2>1, <2>3, <3>1, <3>2 DEF OnRecord
  <2> QED
    BY <1>4, <2>2, <2>3 DEF Fire
<1>5. CASE Stamp
  <2>1. /\ UNCHANGED <<repo, lastFire>> /\ cron.pc = "stamp" /\ cron.expr \in Exprs
        /\ lastFire[cron.expr] = cron.now[cron.expr]
        /\ cron.id # repo => cron.expr \in forgot
    BY <1>0, <1>5 DEF Stamp, OnRecord
  <2>2. /\ cron'.pc # "stamp" /\ cron'.pc # "read"
        /\ cron'.pc # "idle" => /\ cron'.pc = "fire" /\ cron'.todo = cron.todo \ {cron.expr}
                                /\ cron'.from = cron.from /\ cron'.id = cron.id
    BY <1>5, <2>1, VisitedType DEF Stamp
  <2>3. forgot \subseteq forgot' /\ \A e \in Exprs : e # cron.expr => sched'[e] = sched[e]
    BY <1>5 DEF Stamp, TypeOK
  <2>4. \/ cron.expr \in forgot'
        \/ sched'[cron.expr] = Fired(cron.now[cron.expr])
    BY <1>5, <2>1 DEF Stamp, TypeOK
  <2>5. \A e \in Exprs : sched'[e].at = "fired" /\ e \notin forgot' => lastFire[e] <= sched'[e].last
    <3> SUFFICES ASSUME NEW e \in Exprs, sched'[e].at = "fired", e \notin forgot'
                 PROVE  lastFire[e] <= sched'[e].last
      OBVIOUS
    <3>1. CASE e = cron.expr
      BY <1>0, <2>1, <2>4, <3>1 DEF Fired
    <3>2. CASE e # cron.expr
      BY <2>3, <3>2 DEF OnRecord
    <3> QED
      BY <3>1, <3>2
  <2> QED
    BY <2>1, <2>2, <2>5 DEF OnRecord
<1>6. CASE EnsureRepo
  <2>1. UNCHANGED <<sched, cron, lastFire, forgot>> /\ repo = NoRepo
    BY <1>6 DEF EnsureRepo, Registered
  <2> QED
    BY <2>1 DEF OnRecord
<1>7. CASE DeleteRow
  <2>1. CASE repo = del.id
    <3>1. /\ UNCHANGED <<cron, lastFire>> /\ sched' = [e \in Exprs |-> NoRow] /\ forgot' = Exprs
      BY <1>7, <2>1 DEF DeleteRow
    <3> QED
      BY <1>0, <3>1 DEF OnRecord
  <2>2. CASE repo # del.id
    BY <1>1, <1>7, <2>2 DEF DeleteRow
  <2> QED
    BY <2>1, <2>2
<1>8. CASE Crash
  <2>1. /\ cron'.pc = "idle" /\ UNCHANGED <<repo, sched, lastFire>>
        /\ forgot \subseteq forgot' /\ (cron.pc = "stamp" => cron.expr \in forgot')
    BY <1>8 DEF Crash, IdleCron
  <2> QED
    BY <2>1 DEF OnRecord
<1>9. \/ UNCHANGED <<repo, sched, cron, lastFire, forgot>>
      \/ Tick \/ ReadPipeline \/ (\E e \in Exprs : Fire(e)) \/ Stamp
      \/ EnsureRepo \/ DeleteRow \/ Crash
  BY DEF Next, vars, Trigger, StartLog, EndRun, PruneRuns, RemoveLogs, Occur, Ticker, SetCIEnabled,
     PushHead, LookupConflict, InitBare, CountActiveRuns, RemoveGit, RemoveRepoLogs
<1> QED
  BY <1>1, <1>2, <1>3, <1>4, <1>5, <1>6, <1>7, <1>8, <1>9

LEMMA InvStep == IInv /\ [Next]_vars => IInv'
  BY TypeStep, RegisteredStep, OwnRunsStep, OwnLogsStep, ClockStep, OnRecordStep DEF IInv

LEMMA Invariance == Spec => []IInv
<1>1. Init => IInv
  BY InitInv
<1>2. IInv /\ [Next]_vars => IInv'
  BY InvStep
<1> QED
  BY <1>1, <1>2, PTL DEF Spec

-----------------------------------------------------------------------------
(* The theorems                                                            *)

\* Every row, run, log directory and schedule keeps its type, a run's number
\* within the bound included (repos.go, ci.go, cron_scheduler.go).
THEOREM TypeCorrect == Spec => []TypeOK
<1>1. IInv => TypeOK
  BY DEF IInv
<1> QED
  BY <1>1, Invariance, PTL

\* handleCreateRepo makes the directory before the row and handleDeleteRepo
\* takes the row before the directory: whatever fails or crashes between, no
\* row is left without its directory, unless a creation overlapped a removal.
THEOREM RegistrationsStand == Spec => []NoDanglingRegistration
<1>1. IInv => NoDanglingRegistration
  BY DEF IInv, Registered, NoDanglingRegistration
<1> QED
  BY <1>1, Invariance, PTL

\* A listed run that opened its event log finds its directory, and in it no
\* other run's events: PruneRuns keeps the newest run, so EnqueueRun never
\* hands out a number twice, and RemoveAll meets only directories of runs
\* that are gone.
THEOREM LogsStayOwn == Spec => []LogsAreOwn
<1>1. IInv => LogsAreOwn
  <2> SUFFICES ASSUME IInv, ~overlap, ~adopted, NEW r \in runs, r.log
               PROVE  {d.repo : d \in {x \in logs : x.number = r.number}} = {r.repo}
    BY DEF LogsAreOwn
  <2>1. repo # NoRepo /\ r.repo = repo
    BY DEF IInv, OwnRuns
  <2>2. \E d \in logs : d.number = r.number
    BY DEF IInv, OwnLogs
  <2>3. \A d \in logs : d.repo = repo
    BY <2>1 DEF IInv, OwnLogs
  <2> QED
    BY <2>1, <2>2, <2>3
<1> QED
  BY <1>1, Invariance, PTL

\* maybeFire enqueues at most one run for an occurrence of its expression,
\* however ticks are delayed or dropped and whatever pushes, deletions and
\* crashes do to the rows, unless the stamp of the last firing was lost.
THEOREM OncePerOccurrence == Spec => FiresOncePerOccurrence
<1> DEFINE Later == \A e \in Exprs :
                      (cron.pc = "fire" /\ cron'.pc = "stamp" /\ cron'.expr = e /\ e \notin forgot)
                          => lastFire'[e] > lastFire[e]
<1>1. IInv /\ [Next]_vars => [Later]_vars
  <2> SUFFICES ASSUME IInv, Next, NEW e \in Exprs, cron.pc = "fire", cron'.pc = "stamp",
                      cron'.expr = e, e \notin forgot
               PROVE  lastFire'[e] > lastFire[e]
    OBVIOUS
  <2> USE DEF repoVars, timeVars, fireVars, handVars
  <2>1. TypeOK /\ OnRecord
    BY DEF IInv
  <2>2. (\E x \in Exprs : Fire(x)) \/ cron' = cron \/ cron'.pc = "idle" \/ cron.pc # "fire"
    BY DEF Next, Trigger, StartLog, EndRun, PruneRuns, RemoveLogs, Occur, Ticker, Tick, ReadPipeline,
       Stamp, SetCIEnabled, PushHead, LookupConflict, InitBare, EnsureRepo, CountActiveRuns,
       DeleteRow, RemoveGit, RemoveRepoLogs, Crash, IdleCron
  <2>3. PICK x \in Exprs : Fire(x)
    BY <2>2
  <2>4. cron' # Visited(x)
    BY <2>1, VisitedType
  <2>5. /\ x \in cron.todo /\ Due(x) /\ cron' = [cron EXCEPT !.pc = "stamp", !.expr = x]
        /\ lastFire' = [lastFire EXCEPT ![x] = cron.now[x]]
    BY <2>3, <2>4 DEF Fire
  <2>6. x = e
    BY <2>1, <2>5 DEF TypeOK, CronShape
  <2>7. lastFire'[e] = cron.now[e]
    BY <2>1, <2>5, <2>6 DEF TypeOK, Instants
  <2>8. lastFire[e] < cron.now[e]
    BY <2>1, <2>5, <2>6, FiresLater
  <2>9. lastFire[e] \in Nat /\ cron.now[e] \in Nat
    BY <2>1 DEF TypeOK, CronShape, Instants
  <2> QED
    BY <2>7, <2>8, <2>9
<1> QED
  BY <1>1, Invariance, PTL DEF Spec, FiresOncePerOccurrence
=============================================================================
