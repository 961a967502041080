---------------------------- MODULE RunnerProofs ----------------------------
(***************************************************************************)
(* The runner's proofs.  The work budget: its promises, for any            *)
(* configuration (negative and oversized values included) and any finite   *)
(* amount of work.  CI runs: for any set of runs and jobs, any dependency  *)
(* relation, any number of handlers, crashes and failed writes.            *)
(***************************************************************************)
EXTENDS CIRun, WorkBudget, FiniteSetTheorems, TLAPS

-----------------------------------------------------------------------------
(* The work budget                                                         *)

\* The clamps of newWorkBudget leave a pool of at least one slot and a
\* reservation that fits it.
LEMMA Clamped == Total \in Nat \ {0} /\ Reserved \in 0..Total
  BY ConfigAssumption DEF Total, Reserved

\* Where the drain loop can be, and who can be half released.
Shape ==
    /\ step \in {"half", "backHalf"} => stage = "ci"
    /\ step # "try" => stage \in Stages
    /\ \A w \in Work : item[w] = "half" => IsCI(w)

BudgetInv == BudgetTypeOK /\ Shape /\ TokensAccounted

\* The sets whose sizes the invariant speaks of are finite.
LEMMA Finite ==
    /\ IsFiniteSet(InFlight) /\ Cardinality(InFlight) \in Nat
    /\ IsFiniteSet(CIHolders) /\ Cardinality(CIHolders) \in Nat
<1>1. InFlight \in SUBSET Work /\ CIHolders \in SUBSET Work
  BY DEF InFlight, CIHolders
<1>2. IsFiniteSet(InFlight) /\ IsFiniteSet(CIHolders)
  BY <1>1, WorkAssumption, FS_Subset
<1> QED
  BY <1>2, FS_CardinalityType

LEMMA BudgetInitInv == BudgetInit => BudgetInv
<1> SUFFICES ASSUME BudgetInit PROVE BudgetInv
  OBVIOUS
<1>1. InFlight = {} /\ CIHolders = {}
  BY DEF BudgetInit, InFlight, CIHolders
<1>2. Cardinality(InFlight) = 0 /\ Cardinality(CIHolders) = 0
  BY <1>1, FS_EmptySet
<1>3. BudgetTypeOK
  <2>1. 0 \in 0..Total /\ 0 \in 0..(Total - Reserved)
    BY Clamped
  <2>2. item \in [Work -> {"idle", "queued", "running", "half"}]
    BY DEF BudgetInit
  <2> QED
    BY <2>1, <2>2 DEF BudgetInit, BudgetTypeOK, Stages
<1>4. Shape
  BY DEF BudgetInit, Shape
<1>5. TokensAccounted
  BY <1>2 DEF BudgetInit, TokensAccounted, LoopShared, LoopCI
<1> QED
  BY <1>3, <1>4, <1>5 DEF BudgetInv

\* A step of the drain loop that leaves the items alone moves the loop's own
\* tokens only.
LEMMA LoopStep ==
  ASSUME BudgetInv, UNCHANGED <<item, stopping>>,
         \/ SkipStage \/ TryCI \/ CIFull \/ TryCIShared \/ HandBack \/ TryAgent \/ AgentFull
         \/ NoClaim \/ GiveBackShared \/ GiveBackCI \/ Wake
  PROVE  BudgetInv'
<1> USE DEF BudgetInv, Shape
<1>1. InFlight' = InFlight /\ CIHolders' = CIHolders
  BY DEF InFlight, CIHolders, IsCI
<1>2. BudgetTypeOK'
  BY Clamped DEF BudgetTypeOK, SkipStage, TryCI, CIFull, TryCIShared, HandBack, TryAgent,
     AgentFull, NoClaim, GiveBackShared, GiveBackCI, Wake, NextStage, After, Stages
<1>3. Shape'
  BY DEF BudgetTypeOK, SkipStage, TryCI, CIFull, TryCIShared, HandBack, TryAgent, AgentFull,
     NoClaim, GiveBackShared, GiveBackCI, Wake, NextStage, After, Stages
<1>4. TokensAccounted'
  BY <1>1, Finite DEF BudgetTypeOK, TokensAccounted, LoopShared, LoopCI, SkipStage, TryCI, CIFull,
     TryCIShared, HandBack, TryAgent, AgentFull, NoClaim, GiveBackShared, GiveBackCI, Wake,
     NextStage, After, Stages
<1> QED
  BY <1>2, <1>3, <1>4

LEMMA BudgetNextInv == BudgetInv /\ [BudgetNext]_budgetVars => BudgetInv'
<1> SUFFICES ASSUME BudgetInv, [BudgetNext]_budgetVars PROVE BudgetInv'
  OBVIOUS
<1>1. CASE UNCHANGED budgetVars \/ Stop
  BY <1>1 DEF budgetVars, Stop, BudgetInv, BudgetTypeOK, Shape, TokensAccounted, InFlight, CIHolders, IsCI,
     LoopShared, LoopCI
<1>2. ASSUME NEW w \in Work, Submit(w) PROVE BudgetInv'
  <2>1. InFlight' = InFlight /\ CIHolders' = CIHolders
    BY <1>2 DEF Submit, BudgetInv, BudgetTypeOK, InFlight, CIHolders, IsCI
  <2> QED
    BY <1>2, <2>1 DEF Submit, BudgetInv, BudgetTypeOK, Shape, TokensAccounted, IsCI, LoopShared, LoopCI
<1>3. ASSUME NEW w \in Work, Dispatch(w) PROVE BudgetInv'
  <2>1. BudgetTypeOK' /\ Shape'
    BY <1>3 DEF Dispatch, BudgetInv, BudgetTypeOK, Shape, IsCI
  <2>2. InFlight' = InFlight \cup {w} /\ w \notin InFlight
    BY <1>3 DEF Dispatch, BudgetInv, BudgetTypeOK, InFlight
  <2>3. Cardinality(InFlight') = Cardinality(InFlight) + 1
    BY <2>2, Finite, FS_AddElement
  <2>4. CIHolders' = IF stage = "ci" THEN CIHolders \cup {w} ELSE CIHolders
    BY <1>3 DEF Dispatch, BudgetInv, BudgetTypeOK, CIHolders, IsCI
  <2>5. w \notin CIHolders
    BY <1>3 DEF Dispatch, CIHolders
  <2>6. Cardinality(CIHolders') = Cardinality(CIHolders) + (IF stage = "ci" THEN 1 ELSE 0)
    <3>1. CASE stage = "ci"
      BY <3>1, <2>4, <2>5, Finite, FS_AddElement
    <3>2. CASE stage # "ci"
      BY <3>2, <2>4, Finite
    <3> QED
      BY <3>1, <3>2
  <2>7. TokensAccounted'
    BY <1>3, <2>3, <2>6, Finite DEF Dispatch, BudgetInv, BudgetTypeOK, TokensAccounted, LoopShared, LoopCI
  <2> QED
    BY <2>1, <2>7 DEF BudgetInv
<1>4. ASSUME NEW w \in Work, Release(w) PROVE BudgetInv'
  <2>1. BudgetTypeOK' /\ Shape'
    BY <1>4, Clamped DEF Release, BudgetInv, BudgetTypeOK, Shape, IsCI
  <2>2. InFlight' = InFlight \ {w} /\ w \in InFlight
    BY <1>4 DEF Release, BudgetInv, BudgetTypeOK, InFlight
  <2>3. Cardinality(InFlight') = Cardinality(InFlight) - 1
    BY <2>2, Finite, FS_RemoveElement
  <2>4. CIHolders' = CIHolders
    BY <1>4 DEF Release, BudgetInv, BudgetTypeOK, CIHolders, IsCI
  <2> QED
    BY <1>4, <2>1, <2>3, <2>4, Finite DEF Release, BudgetInv, BudgetTypeOK, TokensAccounted, LoopShared, LoopCI
<1>5. ASSUME NEW w \in Work, ReleaseCI(w) PROVE BudgetInv'
  <2>1. BudgetTypeOK' /\ Shape'
    BY <1>5, Clamped DEF ReleaseCI, BudgetInv, BudgetTypeOK, Shape, IsCI
  <2>2. CIHolders' = CIHolders \ {w} /\ w \in CIHolders
    BY <1>5 DEF ReleaseCI, BudgetInv, BudgetTypeOK, Shape, CIHolders, IsCI
  <2>3. Cardinality(CIHolders') = Cardinality(CIHolders) - 1
    BY <2>2, Finite, FS_RemoveElement
  <2>4. InFlight' = InFlight
    BY <1>5 DEF ReleaseCI, BudgetInv, BudgetTypeOK, InFlight
  <2> QED
    BY <1>5, <2>1, <2>3, <2>4, Finite DEF ReleaseCI, BudgetInv, BudgetTypeOK, TokensAccounted, LoopShared, LoopCI
<1>6. CASE Drain
  <2>1. CASE \E w \in Work : Dispatch(w)
    BY <2>1, <1>3
  <2>2. CASE ~(\E w \in Work : Dispatch(w))
    BY <1>6, <2>2, LoopStep DEF Drain, SkipStage, TryCI, CIFull, TryCIShared, HandBack, TryAgent,
       AgentFull, NoClaim, GiveBackShared, GiveBackCI, Wake
  <2> QED
    BY <2>1, <2>2
<1> QED
  BY <1>1, <1>2, <1>4, <1>5, <1>6 DEF BudgetNext

LEMMA BudgetInvariance == BudgetSpec => []BudgetInv
  BY BudgetInitInv, BudgetNextInv, PTL DEF BudgetSpec

-----------------------------------------------------------------------------
(* Theorems                                                                *)

\* No token of the budget is ever lost or counted twice, so that no release
\* blocks, whatever the interleaving of the half-finished acquires and releases.
THEOREM TokensAlwaysAccounted == BudgetSpec => []TokensAccounted
<1>1. BudgetInv => TokensAccounted
  BY DEF BudgetInv
<1> QED
  BY <1>1, BudgetInvariance, PTL

\* The number of CI runs in flight is at most the number of CI tokens.
LEMMA CIInFlight ==
  ASSUME BudgetInv
  PROVE  /\ Cardinality({w \in InFlight : IsCI(w)}) \in Nat
         /\ Cardinality({w \in InFlight : IsCI(w)}) <= ciAllow - LoopCI
<1>1. {w \in InFlight : IsCI(w)} \in SUBSET CIHolders
  BY DEF InFlight, CIHolders
<1>2. IsFiniteSet({w \in InFlight : IsCI(w)})
      /\ Cardinality({w \in InFlight : IsCI(w)}) <= Cardinality(CIHolders)
  BY <1>1, Finite, FS_Subset
<1> QED
  BY <1>2, Finite, FS_CardinalityType DEF BudgetInv, BudgetTypeOK, TokensAccounted, LoopCI

\* "total in flight <= total, CI <= total-reserved".
THEOREM AlwaysWithinBudget == BudgetSpec => []WithinBudget
<1>1. BudgetInv => WithinBudget
  BY CIInFlight, Finite, Clamped DEF BudgetInv, BudgetTypeOK, TokensAccounted, WithinBudget, LoopShared, LoopCI
<1> QED
  BY <1>1, BudgetInvariance, PTL

\* "at least reserved shared slots are always reachable only by agents".
THEOREM ReservedAlwaysReachable == BudgetSpec => []ReservedReachable
<1>1. BudgetInv => ReservedReachable
  <2> SUFFICES ASSUME BudgetInv PROVE ReservedReachable
    OBVIOUS
  <2> DEFINE CI == {w \in InFlight : IsCI(w)}
             Agents == {w \in InFlight : ~IsCI(w)}
  <2>1. CI \in SUBSET InFlight /\ Agents \in SUBSET InFlight
    OBVIOUS
  <2>2. IsFiniteSet(CI) /\ IsFiniteSet(Agents)
    BY <2>1, Finite, FS_Subset
  <2>3. InFlight = CI \cup Agents /\ CI \cap Agents = {}
    OBVIOUS
  <2>4. Cardinality(CI) \in Nat /\ Cardinality(Agents) \in Nat
    BY <2>2, FS_CardinalityType
  <2>5. Cardinality(InFlight) = Cardinality(CI) + Cardinality(Agents)
    BY <2>2, <2>3, <2>4, FS_Union, FS_EmptySet
  <2>6. Cardinality(CI) <= ciAllow - LoopCI
    BY CIInFlight
  <2> HIDE DEF CI, Agents
  <2>7. Cardinality(Agents) + (IF stage = "ci" THEN 0 ELSE LoopShared) < Reserved => shared < Total
    BY <2>4, <2>5, <2>6, Clamped DEF BudgetInv, BudgetTypeOK, Shape, TokensAccounted, LoopShared, LoopCI
  <2> QED
    BY <2>7 DEF ReservedReachable, Agents
<1> QED
  BY <1>1, BudgetInvariance, PTL

-----------------------------------------------------------------------------
(* CI runs                                                                 *)

USE DEF dbVars, execVars, Handler, Idle, NoRun

\* Each action of a goroutine, of a handler or of the process keeps the types.
LEMMA TypeStep == TypeOK /\ [Next]_vars => TypeOK'
<1> SUFFICES ASSUME TypeOK, [Next]_vars PROVE TypeOK'
  OBVIOUS
<1>u. CASE UNCHANGED vars
  BY <1>u DEF TypeOK, vars
<1>1. ASSUME NEW r \in Runs, Trigger(r) PROVE TypeOK'
  BY <1>1 DEF Trigger, TypeOK, RunStatus, Active
<1>2. ASSUME NEW r \in Runs, ClaimNextRun(r) PROVE TypeOK'
  BY <1>2 DEF ClaimNextRun, TypeOK, RunStatus, Active, PC
<1>3. ASSUME NEW r \in Runs, Deadline(r) PROVE TypeOK'
  BY <1>3 DEF Deadline, TypeOK
<1>4. ASSUME NEW r \in Runs, LeaseExpires(r) PROVE TypeOK'
  BY <1>4 DEF LeaseExpires, TypeOK
<1>5. ASSUME NEW c \in Callers, Push(c) PROVE TypeOK'
  BY <1>5 DEF Push, TypeOK
<1>6. ASSUME NEW c \in Callers, NEW r \in Runs, StopRequest(c, r) PROVE TypeOK'
  BY <1>6 DEF StopRequest, TypeOK
<1>7. ASSUME NEW c \in Callers, NEW r \in Runs, EnqueuePushed(c, r) PROVE TypeOK'
  BY <1>7 DEF EnqueuePushed, TypeOK, RunStatus, Active
<1>8. ASSUME NEW c \in Callers, EnqueuePushedFails(c) PROVE TypeOK'
  BY <1>8 DEF EnqueuePushedFails, TypeOK
<1>9. ASSUME NEW c \in Callers, NEW r \in Runs, CancelRunning(c, r) PROVE TypeOK'
  BY <1>9 DEF CancelRunning, Answered, TypeOK
<1>10. ASSUME NEW c \in Callers, NEW r \in Runs, CancelLookupMisses(c, r) PROVE TypeOK'
  BY <1>10 DEF CancelLookupMisses, TypeOK
<1>11. ASSUME NEW c \in Callers, CancelQueued(c) PROVE TypeOK'
  BY <1>11 DEF CancelQueued, Answered, TypeOK, RunStatus, Terminal
<1>12. ASSUME NEW r \in Runs, Execute(r) PROVE TypeOK'
  <2>1. CASE Gated(r)
    BY <2>1 DEF Gated, Conclude, TypeOK, PC, Terminal
  <2>2. CASE Register(r)
    BY <2>2 DEF Register, TypeOK, PC
  <2>3. CASE Checkout(r)
    BY <2>3 DEF Checkout, TypeOK, PC
  <2>4. CASE CheckoutFails(r)
    BY <2>4 DEF CheckoutFails, Conclude, TypeOK, PC, Terminal
  <2>5. CASE CreateJobs(r)
    BY <2>5 DEF CreateJobs, TypeOK, PC, JobRow, JobStatus
  <2>6. CASE CreateJobFails(r)
    BY <2>6, BoundsAssumption DEF CreateJobFails, Conclude, TypeOK, PC, JobRow, JobStatus, Terminal
  <2>7. CASE StartPass(r)
    BY <2>7 DEF StartPass, Pending, TypeOK, PC
  <2>8. CASE LeaveLoop(r)
    BY <2>8 DEF LeaveLoop, TypeOK, PC
  <2>9. CASE LaunchWave(r)
    BY <2>9 DEF LaunchWave, TypeOK, PC
  <2>10. CASE NothingReady(r)
    BY <2>10 DEF NothingReady, TypeOK, PC, JobRow, JobStatus, JobTerminal
  <2>11. CASE WaveDone(r)
    BY <2>11 DEF WaveDone, TypeOK, PC
  <2>12. CASE Leftover(r)
    BY <2>12 DEF Leftover, TypeOK, PC, JobRow, JobStatus, JobTerminal
  <2>13. CASE Verdict(r)
    BY <2>13 DEF Verdict, Final, Conclude, TypeOK, PC, Terminal
  <2>14. CASE FinishRun(r)
    BY <2>14 DEF FinishRun, TypeOK, PC, RunStatus
  <2>15. CASE FinishRunFails(r)
    BY <2>15, BoundsAssumption DEF FinishRunFails, TypeOK, PC
  <2>16. CASE Cleanup(r)
    BY <2>16 DEF Cleanup, TypeOK, PC, Terminal
  <2>17. ASSUME NEW j \in Jobs, SkipJob(r, j) PROVE TypeOK'
    BY <2>17 DEF SkipJob, TypeOK, JobRow, JobStatus, JobTerminal
  <2>18. ASSUME NEW j \in Jobs, CollectJob(r, j) PROVE TypeOK'
    BY <2>18 DEF CollectJob, TypeOK
  <2>19. ASSUME NEW j \in Jobs, StartJob(r, j) PROVE TypeOK'
    BY <2>19 DEF StartJob, TypeOK, JobRow, JobStatus
  <2>20. ASSUME NEW j \in Jobs, FinishJob(r, j) PROVE TypeOK'
    BY <2>20 DEF FinishJob, TypeOK, JobRow, JobStatus, JobTerminal
  <2> QED
    BY <1>12, <2>1, <2>2, <2>3, <2>4, <2>5, <2>6, <2>7, <2>8, <2>9, <2>10, <2>11, <2>12, <2>13,
       <2>14, <2>15, <2>16, <2>17, <2>18, <2>19, <2>20 DEF Execute
<1>13. CASE Shutdown
  BY <1>13 DEF Shutdown, TypeOK
<1>14. CASE Exit
  BY <1>14 DEF Exit, TypeOK, Idle, Handler
<1>15. CASE Crash
  BY <1>15 DEF Crash, TypeOK, PC, Terminal
<1>16. CASE Restart
  BY <1>16 DEF Restart, TypeOK
<1>17. CASE ReconcileOrphanRuns
  BY <1>17 DEF ReconcileOrphanRuns, TypeOK, RunStatus, Terminal, JobRow, JobStatus, JobTerminal
<1>18. CASE ReconcileFails
  BY <1>18 DEF ReconcileFails, TypeOK
<1> QED
  BY <1>u, <1>1, <1>2, <1>3, <1>4, <1>5, <1>6, <1>7, <1>8, <1>9, <1>10, <1>11, <1>12, <1>13,
     <1>14, <1>15, <1>16, <1>17, <1>18 DEF Next, Handle

-----------------------------------------------------------------------------
(* The inductive invariant                                                 *)

\* A goroutine past its claim works on a running row until it has written the
\* verdict; a row that waits, or whose claim went stale, has no goroutine; and
\* nothing runs while the process is down or starting.
Ownership ==
    \A r \in Runs :
        /\ pc[r] \notin {"none", "cleanup"} => row[r] = "running"
        /\ row[r] \in {"absent", "queued"} => pc[r] = "none"
        /\ r \in expired => row[r] = "running" /\ pc[r] = "none"
        /\ server \in {"starting", "down"} => pc[r] = "none"

\* A wave holds unresolved jobs whose dependencies have all succeeded.
WaveShape ==
    \A r \in Runs :
        /\ pc[r] \notin {"scan", "wave"} => ready[r] = {}
        /\ pc[r] = "scan" => todo[r] \subseteq Pending(r) \ ready[r]
        /\ ready[r] \subseteq Pending(r)
        /\ \A j \in ready[r] : \A d \in Needs[j] : status[r][d] = "success"

\* While jobs are scheduled, the in-memory map of a run agrees with its rows;
\* a run that leaves the loop by itself has resolved every job; and a verdict
\* on its way to the row is backed by the jobs.
Agreement ==
    \A r \in Runs :
        /\ pc[r] \in Scheduling =>
              \A j \in Jobs : status[r][j] # "pending" => job[r][j] = status[r][j]
        /\ pc[r] \in {"leftover", "verdict"} /\ ctx[r] = "ok" => Pending(r) = {}
        /\ pc[r] = "finish" /\ final[r] = "success" => \A j \in Jobs : job[r][j] = "success"
        /\ pc[r] = "finish" /\ final[r] = "failed" =>
              \E j \in Jobs : job[r][j] \in JobTerminal \ {"success"}

IInv == TypeOK /\ Ownership /\ WaveShape /\ Agreement

\* Once a verdict is chosen every job has a final status.
Resolved ==
    \A r \in Runs : pc[r] = "verdict" => \A j \in Jobs : job[r][j] \in JobTerminal

\* As long as no storage call has failed, a running row has a goroutine or waits
\* for the reconciliation, so that no run executes twice: its jobs exist from
\* CreateJobs on, and are final when the verdict is on its way.
Undisturbed ==
    faults = 0 =>
        /\ expired = {}
        /\ \A r \in Runs :
            /\ row[r] = "running" /\ pc[r] \in {"none", "cleanup"} =>
                  pc[r] = "none" /\ server \in {"starting", "down"}
            /\ row[r] \in {"absent", "queued"} \/ pc[r] \in {"gate", "checkout", "create"} =>
                  \A j \in Jobs : job[r][j] = "absent"
            /\ pc[r] = "finish" \/ row[r] \in Terminal =>
                  \A j \in Jobs : job[r][j] \notin {"queued", "running"}

\* ... and a stop that reached the jobs is carried by the flag, then by the
\* verdict, then by the row.
StopCarried ==
    faults = 0 =>
        \A r \in stopped :
            \/ pc[r] \in Scheduling /\ flag[r]
            \/ pc[r] = "finish" /\ final[r] = "canceled"
            \/ pc[r] \in {"cleanup", "none"} /\ row[r] = "canceled"

Outcome == Resolved /\ Undisturbed /\ StopCarried

\* Claims, verdicts, crashes and the reconciliation keep Ownership.
LEMMA OwnershipStep == TypeOK /\ Ownership /\ [Next]_vars => Ownership'
<1> SUFFICES ASSUME TypeOK /\ Ownership, [Next]_vars PROVE Ownership'
  OBVIOUS
<1> USE DEF Ownership, TypeOK
<1>u. CASE UNCHANGED vars
  BY <1>u DEF vars
<1>1. ASSUME NEW r \in Runs, Trigger(r) PROVE Ownership'
  BY <1>1 DEF Trigger, NextRun
<1>2. ASSUME NEW r \in Runs, ClaimNextRun(r) PROVE Ownership'
  BY <1>2 DEF ClaimNextRun, Claimable
<1>3. ASSUME NEW r \in Runs, Deadline(r) PROVE Ownership'
  BY <1>3 DEF Deadline
<1>4. ASSUME NEW r \in Runs, LeaseExpires(r) PROVE Ownership'
  BY <1>4 DEF LeaseExpires
<1>5. ASSUME NEW c \in Callers, Push(c) PROVE Ownership'
  BY <1>5 DEF Push
<1>6. ASSUME NEW c \in Callers, NEW r \in Runs, StopRequest(c, r) PROVE Ownership'
  BY <1>6 DEF StopRequest
<1>7. ASSUME NEW c \in Callers, NEW r \in Runs, EnqueuePushed(c, r) PROVE Ownership'
  BY <1>7 DEF EnqueuePushed, NextRun
<1>8. ASSUME NEW c \in Callers, EnqueuePushedFails(c) PROVE Ownership'
  BY <1>8 DEF EnqueuePushedFails
<1>9. ASSUME NEW c \in Callers, NEW r \in Runs, CancelRunning(c, r) PROVE Ownership'
  BY <1>9 DEF CancelRunning
<1>10. ASSUME NEW c \in Callers, NEW r \in Runs, CancelLookupMisses(c, r) PROVE Ownership'
  BY <1>10 DEF CancelLookupMisses
<1>11. ASSUME NEW c \in Callers, CancelQueued(c) PROVE Ownership'
  BY <1>11 DEF CancelQueued
<1>12. ASSUME NEW r \in Runs, Execute(r) PROVE Ownership'
  <2>1. CASE Gated(r)
    BY <2>1 DEF Gated, Conclude
  <2>2. CASE Register(r)
    BY <2>2 DEF Register
  <2>3. CASE Checkout(r)
    BY <2>3 DEF Checkout
  <2>4. CASE CheckoutFails(r)
    BY <2>4 DEF CheckoutFails, Conclude
  <2>5. CASE CreateJobs(r)
    BY <2>5 DEF CreateJobs
  <2>6. CASE CreateJobFails(r)
    BY <2>6 DEF CreateJobFails, Conclude
  <2>7. CASE StartPass(r)
    BY <2>7 DEF StartPass
  <2>8. CASE LeaveLoop(r)
    BY <2>8 DEF LeaveLoop
  <2>9. CASE LaunchWave(r)
    BY <2>9 DEF LaunchWave
  <2>10. CASE NothingReady(r)
    BY <2>10 DEF NothingReady
  <2>11. CASE WaveDone(r)
    BY <2>11 DEF WaveDone
  <2>12. CASE Leftover(r)
    BY <2>12 DEF Leftover
  <2>13. CASE Verdict(r)
    BY <2>13 DEF Verdict, Conclude, Final
  <2>14. CASE FinishRun(r)
    BY <2>14 DEF FinishRun, Terminal
  <2>15. CASE FinishRunFails(r)
    BY <2>15 DEF FinishRunFails
  <2>16. CASE Cleanup(r)
    BY <2>16 DEF Cleanup
  <2>17. ASSUME NEW j \in Jobs, SkipJob(r, j) PROVE Ownership'
    BY <2>17 DEF SkipJob, ClassifySkip
  <2>18. ASSUME NEW j \in Jobs, CollectJob(r, j) PROVE Ownership'
    BY <2>18 DEF CollectJob, ClassifyReady
  <2>19. ASSUME NEW j \in Jobs, StartJob(r, j) PROVE Ownership'
    BY <2>19 DEF StartJob
  <2>20. ASSUME NEW j \in Jobs, FinishJob(r, j) PROVE Ownership'
    BY <2>20 DEF FinishJob
  <2> QED
    BY <1>12, <2>1, <2>2, <2>3, <2>4, <2>5, <2>6, <2>7, <2>8, <2>9, <2>10, <2>11, <2>12,
       <2>13, <2>14, <2>15, <2>16, <2>17, <2>18, <2>19, <2>20 DEF Execute
<1>13. CASE Shutdown
  BY <1>13 DEF Shutdown
<1>14. CASE Exit
  BY <1>14 DEF Exit
<1>15. CASE Crash
  BY <1>15 DEF Crash
<1>16. CASE Restart
  BY <1>16 DEF Restart
<1>17. CASE ReconcileOrphanRuns
  BY <1>17 DEF ReconcileOrphanRuns
<1>18. CASE ReconcileFails
  BY <1>18 DEF ReconcileFails
<1> QED
  BY <1>u, <1>1, <1>2, <1>3, <1>4, <1>5, <1>6, <1>7, <1>8, <1>9, <1>10, <1>11, <1>12,
     <1>13, <1>14, <1>15, <1>16, <1>17, <1>18 DEF Next, Handle

\* Scheduling passes and waves keep WaveShape.
LEMMA WaveStep == TypeOK /\ Ownership /\ WaveShape /\ [Next]_vars => WaveShape'
<1> SUFFICES ASSUME TypeOK /\ Ownership /\ WaveShape, [Next]_vars PROVE WaveShape'
  OBVIOUS
<1> USE DEF WaveShape, Ownership, TypeOK, Pending
<1>u. CASE UNCHANGED vars
  BY <1>u DEF vars
<1>1. ASSUME NEW r \in Runs, Trigger(r) PROVE WaveShape'
  BY <1>1 DEF Trigger, NextRun
<1>2. ASSUME NEW r \in Runs, ClaimNextRun(r) PROVE WaveShape'
  BY <1>2 DEF ClaimNextRun, Claimable
<1>3. ASSUME NEW r \in Runs, Deadline(r) PROVE WaveShape'
  BY <1>3 DEF Deadline
<1>4. ASSUME NEW r \in Runs, LeaseExpires(r) PROVE WaveShape'
  BY <1>4 DEF LeaseExpires
<1>5. ASSUME NEW c \in Callers, Push(c) PROVE WaveShape'
  BY <1>5 DEF Push
<1>6. ASSUME NEW c \in Callers, NEW r \in Runs, StopRequest(c, r) PROVE WaveShape'
  BY <1>6 DEF StopRequest
<1>7. ASSUME NEW c \in Callers, NEW r \in Runs, EnqueuePushed(c, r) PROVE WaveShape'
  BY <1>7 DEF EnqueuePushed, NextRun
<1>8. ASSUME NEW c \in Callers, EnqueuePushedFails(c) PROVE WaveShape'
  BY <1>8 DEF EnqueuePushedFails
<1>9. ASSUME NEW c \in Callers, NEW r \in Runs, CancelRunning(c, r) PROVE WaveShape'
  BY <1>9 DEF CancelRunning
<1>10. ASSUME NEW c \in Callers, NEW r \in Runs, CancelLookupMisses(c, r) PROVE WaveShape'
  BY <1>10 DEF CancelLookupMisses
<1>11. ASSUME NEW c \in Callers, CancelQueued(c) PROVE WaveShape'
  BY <1>11 DEF CancelQueued
<1>12. ASSUME NEW r \in Runs, Execute(r) PROVE WaveShape'
  <2>1. CASE Gated(r)
    BY <2>1 DEF Gated, Conclude
  <2>2. CASE Register(r)
    BY <2>2 DEF Register
  <2>3. CASE Checkout(r)
    BY <2>3 DEF Checkout
  <2>4. CASE CheckoutFails(r)
    BY <2>4 DEF CheckoutFails, Conclude
  <2>5. CASE CreateJobs(r)
    BY <2>5 DEF CreateJobs
  <2>6. CASE CreateJobFails(r)
    BY <2>6 DEF CreateJobFails, Conclude
  <2>7. CASE StartPass(r)
    BY <2>7 DEF StartPass
  <2>8. CASE LeaveLoop(r)
    BY <2>8 DEF LeaveLoop
  <2>9. CASE LaunchWave(r)
    BY <2>9 DEF LaunchWave
  <2>10. CASE NothingReady(r)
    BY <2>10 DEF NothingReady
  <2>11. CASE WaveDone(r)
    BY <2>11 DEF WaveDone
  <2>12. CASE Leftover(r)
    BY <2>12 DEF Leftover
  <2>13. CASE Verdict(r)
    BY <2>13 DEF Verdict, Conclude, Final
  <2>14. CASE FinishRun(r)
    BY <2>14 DEF FinishRun
  <2>15. CASE FinishRunFails(r)
    BY <2>15 DEF FinishRunFails
  <2>16. CASE Cleanup(r)
    BY <2>16 DEF Cleanup
  <2>17. ASSUME NEW j \in Jobs, SkipJob(r, j) PROVE WaveShape'
    BY <2>17 DEF SkipJob, ClassifySkip
  <2>18. ASSUME NEW j \in Jobs, CollectJob(r, j) PROVE WaveShape'
    BY <2>18 DEF CollectJob, ClassifyReady
  <2>19. ASSUME NEW j \in Jobs, StartJob(r, j) PROVE WaveShape'
    BY <2>19 DEF StartJob
  <2>20. ASSUME NEW j \in Jobs, FinishJob(r, j) PROVE WaveShape'
    BY <2>20 DEF FinishJob
  <2> QED
    BY <1>12, <2>1, <2>2, <2>3, <2>4, <2>5, <2>6, <2>7, <2>8, <2>9, <2>10, <2>11, <2>12,
       <2>13, <2>14, <2>15, <2>16, <2>17, <2>18, <2>19, <2>20 DEF Execute
<1>13. CASE Shutdown
  BY <1>13 DEF Shutdown
<1>14. CASE Exit
  BY <1>14 DEF Exit
<1>15. CASE Crash
  BY <1>15 DEF Crash
<1>16. CASE Restart
  BY <1>16 DEF Restart
<1>17. CASE ReconcileOrphanRuns
  BY <1>17 DEF ReconcileOrphanRuns
<1>18. CASE ReconcileFails
  BY <1>18 DEF ReconcileFails
<1> QED
  BY <1>u, <1>1, <1>2, <1>3, <1>4, <1>5, <1>6, <1>7, <1>8, <1>9, <1>10, <1>11, <1>12,
     <1>13, <1>14, <1>15, <1>16, <1>17, <1>18 DEF Next, Handle

\* Every write of a job or of the map keeps Agreement.
LEMMA AgreementStep == IInv /\ [Next]_vars => Agreement'
<1> SUFFICES ASSUME IInv, [Next]_vars PROVE Agreement'
  OBVIOUS
<1> USE DEF IInv, Agreement, WaveShape, Ownership, TypeOK, Pending, Scheduling, JobTerminal, Terminal
<1>u. CASE UNCHANGED vars
  BY <1>u DEF vars
<1>1. ASSUME NEW r \in Runs, Trigger(r) PROVE Agreement'
  BY <1>1 DEF Trigger, NextRun
<1>2. ASSUME NEW r \in Runs, ClaimNextRun(r) PROVE Agreement'
  BY <1>2 DEF ClaimNextRun, Claimable
<1>3. ASSUME NEW r \in Runs, Deadline(r) PROVE Agreement'
  BY <1>3 DEF Deadline
<1>4. ASSUME NEW r \in Runs, LeaseExpires(r) PROVE Agreement'
  BY <1>4 DEF LeaseExpires
<1>5. ASSUME NEW c \in Callers, Push(c) PROVE Agreement'
  BY <1>5 DEF Push
<1>6. ASSUME NEW c \in Callers, NEW r \in Runs, StopRequest(c, r) PROVE Agreement'
  BY <1>6 DEF StopRequest
<1>7. ASSUME NEW c \in Callers, NEW r \in Runs, EnqueuePushed(c, r) PROVE Agreement'
  BY <1>7 DEF EnqueuePushed, NextRun
<1>8. ASSUME NEW c \in Callers, EnqueuePushedFails(c) PROVE Agreement'
  BY <1>8 DEF EnqueuePushedFails
<1>9. ASSUME NEW c \in Callers, NEW r \in Runs, CancelRunning(c, r) PROVE Agreement'
  BY <1>9 DEF CancelRunning
<1>10. ASSUME NEW c \in Callers, NEW r \in Runs, CancelLookupMisses(c, r) PROVE Agreement'
  BY <1>10 DEF CancelLookupMisses
<1>11. ASSUME NEW c \in Callers, CancelQueued(c) PROVE Agreement'
  BY <1>11 DEF CancelQueued
<1>12. ASSUME NEW r \in Runs, Execute(r) PROVE Agreement'
  <2>1. CASE Gated(r)
    BY <2>1 DEF Gated, Conclude
  <2>2. CASE Register(r)
    BY <2>2 DEF Register
  <2>3. CASE Checkout(r)
    BY <2>3 DEF Checkout
  <2>4. CASE CheckoutFails(r)
    BY <2>4 DEF CheckoutFails, Conclude
  <2>5. CASE CreateJobs(r)
    BY <2>5 DEF CreateJobs
  <2>6. CASE CreateJobFails(r)
    BY <2>6 DEF CreateJobFails, Conclude
  <2>7. CASE StartPass(r)
    BY <2>7 DEF StartPass
  <2>8. CASE LeaveLoop(r)
    BY <2>8 DEF LeaveLoop
  <2>9. CASE LaunchWave(r)
    BY <2>9 DEF LaunchWave
  <2>10. CASE NothingReady(r)
    BY <2>10 DEF NothingReady
  <2>11. CASE WaveDone(r)
    BY <2>11 DEF WaveDone
  <2>12. CASE Leftover(r)
    BY <2>12 DEF Leftover
  <2>13. CASE Verdict(r)
    BY <2>13 DEF Verdict, Conclude, Final
  <2>14. CASE FinishRun(r)
    BY <2>14 DEF FinishRun
  <2>15. CASE FinishRunFails(r)
    BY <2>15 DEF FinishRunFails
  <2>16. CASE Cleanup(r)
    BY <2>16 DEF Cleanup
  <2>17. ASSUME NEW j \in Jobs, SkipJob(r, j) PROVE Agreement'
    BY <2>17 DEF SkipJob, ClassifySkip
  <2>18. ASSUME NEW j \in Jobs, CollectJob(r, j) PROVE Agreement'
    BY <2>18 DEF CollectJob, ClassifyReady
  <2>19. ASSUME NEW j \in Jobs, StartJob(r, j) PROVE Agreement'
    BY <2>19 DEF StartJob
  <2>20. ASSUME NEW j \in Jobs, FinishJob(r, j) PROVE Agreement'
    BY <2>20 DEF FinishJob
  <2> QED
    BY <1>12, <2>1, <2>2, <2>3, <2>4, <2>5, <2>6, <2>7, <2>8, <2>9, <2>10, <2>11, <2>12,
       <2>13, <2>14, <2>15, <2>16, <2>17, <2>18, <2>19, <2>20 DEF Execute
<1>13. CASE Shutdown
  BY <1>13 DEF Shutdown
<1>14. CASE Exit
  BY <1>14 DEF Exit
<1>15. CASE Crash
  BY <1>15 DEF Crash
<1>16. CASE Restart
  BY <1>16 DEF Restart
<1>17. CASE ReconcileOrphanRuns
  BY <1>17 DEF ReconcileOrphanRuns
<1>18. CASE ReconcileFails
  BY <1>18 DEF ReconcileFails
<1> QED
  BY <1>u, <1>1, <1>2, <1>3, <1>4, <1>5, <1>6, <1>7, <1>8, <1>9, <1>10, <1>11, <1>12,
     <1>13, <1>14, <1>15, <1>16, <1>17, <1>18 DEF Next, Handle

\* What a fault-free history leaves behind, action by action.
LEMMA OutcomeStep == IInv /\ Outcome /\ [Next]_vars => Outcome'
<1> SUFFICES ASSUME IInv, Outcome, [Next]_vars PROVE Outcome'
  OBVIOUS
<1> USE DEF Outcome, Resolved, Undisturbed, StopCarried, IInv, Agreement, WaveShape, Ownership, TypeOK, Pending, Scheduling, JobTerminal, Terminal
<1>u. CASE UNCHANGED vars
  BY <1>u DEF vars
<1>1. ASSUME NEW r \in Runs, Trigger(r) PROVE Outcome'
  BY <1>1 DEF Trigger, NextRun
<1>2. ASSUME NEW r \in Runs, ClaimNextRun(r) PROVE Outcome'
  BY <1>2 DEF ClaimNextRun, Claimable
<1>3. ASSUME NEW r \in Runs, Deadline(r) PROVE Outcome'
  BY <1>3 DEF Deadline
<1>4. ASSUME NEW r \in Runs, LeaseExpires(r) PROVE Outcome'
  BY <1>4 DEF LeaseExpires
<1>5. ASSUME NEW c \in Callers, Push(c) PROVE Outcome'
  BY <1>5 DEF Push
<1>6. ASSUME NEW c \in Callers, NEW r \in Runs, StopRequest(c, r) PROVE Outcome'
  BY <1>6 DEF StopRequest
<1>7. ASSUME NEW c \in Callers, NEW r \in Runs, EnqueuePushed(c, r) PROVE Outcome'
  BY <1>7 DEF EnqueuePushed, NextRun
<1>8. ASSUME NEW c \in Callers, EnqueuePushedFails(c) PROVE Outcome'
  BY <1>8 DEF EnqueuePushedFails
<1>9. ASSUME NEW c \in Callers, NEW r \in Runs, CancelRunning(c, r) PROVE Outcome'
  BY <1>9 DEF CancelRunning
<1>10. ASSUME NEW c \in Callers, NEW r \in Runs, CancelLookupMisses(c, r) PROVE Outcome'
  BY <1>10 DEF CancelLookupMisses
<1>11. ASSUME NEW c \in Callers, CancelQueued(c) PROVE Outcome'
  BY <1>11 DEF CancelQueued
<1>12. ASSUME NEW r \in Runs, Execute(r) PROVE Outcome'
  <2>1. CASE Gated(r)
    BY <2>1 DEF Gated, Conclude
  <2>2. CASE Register(r)
    BY <2>2 DEF Register
  <2>3. CASE Checkout(r)
    BY <2>3 DEF Checkout
  <2>4. CASE CheckoutFails(r)
    BY <2>4 DEF CheckoutFails, Conclude
  <2>5. CASE CreateJobs(r)
    BY <2>5 DEF CreateJobs
  <2>6. CASE CreateJobFails(r)
    BY <2>6 DEF CreateJobFails, Conclude
  <2>7. CASE StartPass(r)
    BY <2>7 DEF StartPass
  <2>8. CASE LeaveLoop(r)
    BY <2>8 DEF LeaveLoop
  <2>9. CASE LaunchWave(r)
    BY <2>9 DEF LaunchWave
  <2>10. CASE NothingReady(r)
    BY <2>10 DEF NothingReady
  <2>11. CASE WaveDone(r)
    BY <2>11 DEF WaveDone
  <2>12. CASE Leftover(r)
    BY <2>12 DEF Leftover
  <2>13. CASE Verdict(r)
    BY <2>13 DEF Verdict, Conclude, Final
  <2>14. CASE FinishRun(r)
    BY <2>14 DEF FinishRun
  <2>15. CASE FinishRunFails(r)
    BY <2>15 DEF FinishRunFails
  <2>16. CASE Cleanup(r)
    BY <2>16 DEF Cleanup
  <2>17. ASSUME NEW j \in Jobs, SkipJob(r, j) PROVE Outcome'
    BY <2>17 DEF SkipJob, ClassifySkip
  <2>18. ASSUME NEW j \in Jobs, CollectJob(r, j) PROVE Outcome'
    BY <2>18 DEF CollectJob, ClassifyReady
  <2>19. ASSUME NEW j \in Jobs, StartJob(r, j) PROVE Outcome'
    BY <2>19 DEF StartJob
  <2>20. ASSUME NEW j \in Jobs, FinishJob(r, j) PROVE Outcome'
    BY <2>20 DEF FinishJob
  <2> QED
    BY <1>12, <2>1, <2>2, <2>3, <2>4, <2>5, <2>6, <2>7, <2>8, <2>9, <2>10, <2>11, <2>12,
       <2>13, <2>14, <2>15, <2>16, <2>17, <2>18, <2>19, <2>20 DEF Execute
<1>13. CASE Shutdown
  BY <1>13 DEF Shutdown
<1>14. CASE Exit
  BY <1>14 DEF Exit
<1>15. CASE Crash
  BY <1>15 DEF Crash
<1>16. CASE Restart
  BY <1>16 DEF Restart
<1>17. CASE ReconcileOrphanRuns
  BY <1>17 DEF ReconcileOrphanRuns
<1>18. CASE ReconcileFails
  BY <1>18 DEF ReconcileFails
<1> QED
  BY <1>u, <1>1, <1>2, <1>3, <1>4, <1>5, <1>6, <1>7, <1>8, <1>9, <1>10, <1>11, <1>12,
     <1>13, <1>14, <1>15, <1>16, <1>17, <1>18 DEF Next, Handle

LEMMA InitInv == Init => IInv
  BY DEF Init, IInv, TypeOK, Ownership, WaveShape, Agreement, RunStatus, JobRow, PC, Terminal,
         Pending, Scheduling

\* The invariant holds in every reachable state.
LEMMA Invariance == Spec => []IInv
<1>1. IInv /\ [Next]_vars => IInv'
  BY TypeStep, OwnershipStep, WaveStep, AgreementStep DEF IInv
<1> QED
  BY <1>1, InitInv, PTL DEF Spec

-----------------------------------------------------------------------------
(* Theorems                                                                *)

\* The state of the runner, its database rows and its handlers stays well
\* formed whatever fails, crashes or races.
THEOREM TypeCorrect == Spec => []TypeOK
<1>1. IInv => TypeOK
  BY DEF IInv
<1> QED
  BY <1>1, Invariance, PTL

\* executeRun never has a job in flight whose dependencies have not all
\* succeeded in the same execution, for any dependency relation (a cyclic one
\* included: its jobs are given up, never started).
THEOREM NeedsAlwaysHonoured == Spec => []NeedsHonoured
<1>1. IInv => NeedsHonoured
  <2> SUFFICES ASSUME IInv, NEW r \in Runs, pc[r] = "wave",
                      NEW j \in ready[r], NEW d \in Needs[j]
               PROVE  job[r][d] = "success"
    BY DEF NeedsHonoured
  <2>1. j \in Jobs /\ d \in Jobs
    BY NeedsAssumption DEF IInv, TypeOK
  <2>2. status[r][d] = "success"
    BY DEF IInv, WaveShape
  <2> QED
    BY <2>1, <2>2 DEF IInv, Agreement, Scheduling
<1> QED
  BY <1>1, Invariance, PTL

\* The outcome of a fault-free history.
LEMMA OutcomeInvariance == Spec => []Outcome
<1>1. Init => Outcome
  BY DEF Init, Outcome, Resolved, Undisturbed, StopCarried, Terminal
<1> QED
  BY <1>1, OutcomeStep, Invariance, PTL DEF Spec

\* Verdict, cancel, deadline, shutdown, crash and reconciliation all leave a run
\* without a queued or running job, unless a write to the database failed.
THEOREM NoJobDangles == Spec => []NoDanglingJobs
<1>1. Outcome => NoDanglingJobs
  BY DEF Outcome, Undisturbed, NoDanglingJobs
<1> QED
  BY <1>1, OutcomeInvariance, PTL

\* A cancel that finds the jobs of a run being scheduled ends in a canceled row,
\* although the flag, the context and the verdict are written and read without a
\* common lock.
THEOREM StopsAreHonoured == Spec => []StopHonoured
<1>1. IInv /\ Outcome => StopHonoured
  <2> SUFFICES ASSUME IInv, Outcome, faults = 0, NEW r \in stopped, row[r] \in Terminal
               PROVE  row[r] = "canceled"
    BY DEF StopHonoured
  <2>1. r \in Runs /\ row[r] # "running"
    BY DEF IInv, TypeOK, Terminal
  <2>2. pc[r] \in {"none", "cleanup"}
    BY <2>1 DEF IInv, Ownership
  <2> QED
    BY <2>2 DEF Outcome, StopCarried, Scheduling
<1> QED
  BY <1>1, OutcomeInvariance, Invariance, PTL

\* The contract speaks of the same statuses as the runner.
LEMMA SameVocabulary ==
    /\ Contract!Active = Active /\ Contract!Terminal = Terminal
    /\ Contract!JobTerminal = JobTerminal /\ Contract!JobRow = JobRow
  BY DEF Contract!Active, Active, Contract!Terminal, Terminal, Contract!JobTerminal, JobTerminal,
         Contract!JobRow, JobRow, Contract!JobStatus, JobStatus

\* One step of the runner is, seen through the run and job rows, a step of the
\* contract.  Only the actions below write a row.
LEMMA ContractStep == IInv /\ IInv' /\ [Next]_vars => [Contract!Next]_(Contract!vars)
<1> SUFFICES ASSUME IInv, IInv', [Next]_vars, ~UNCHANGED <<row, job>>
             PROVE  \A q \in Runs : Contract!StepOf(q)
  BY SameVocabulary DEF Contract!Next, Contract!vars, Contract!Rows, IInv, TypeOK, RunStatus
<1> USE DEF Contract!StepOf, IInv, TypeOK, Ownership
<1>u. ~UNCHANGED vars
  BY DEF vars
<1>1. ASSUME NEW r \in Runs, Trigger(r) \/ \E c \in Callers : EnqueuePushed(c, r)
      PROVE  \A q \in Runs : Contract!StepOf(q)
  BY <1>1 DEF Trigger, EnqueuePushed, NextRun, Contract!Enqueue, Contract!Keep
<1>2. ASSUME NEW r \in Runs, ClaimNextRun(r)
      PROVE  \A q \in Runs : Contract!StepOf(q)
  BY <1>2 DEF ClaimNextRun, Claimable, Contract!Start, Contract!Work, Contract!Keep
<1>3. ASSUME NEW c \in Callers, CancelQueued(c)
      PROVE  \A q \in Runs : Contract!StepOf(q)
  BY <1>3 DEF CancelQueued, Contract!Withdraw, Contract!Keep
<1>4. ASSUME NEW r \in Runs,
             \/ CreateJobs(r) \/ CreateJobFails(r) \/ NothingReady(r) \/ Leftover(r)
             \/ \E j \in Jobs : SkipJob(r, j) \/ StartJob(r, j) \/ FinishJob(r, j)
      PROVE  \A q \in Runs : Contract!StepOf(q)
  <2>1. row' = row /\ row[r] = "running" /\ \A q \in Runs \ {r} : job'[q] = job[q]
    <3>1. CASE CreateJobs(r)
      BY <3>1 DEF CreateJobs
    <3>2. CASE CreateJobFails(r)
      BY <3>2 DEF CreateJobFails
    <3>3. CASE NothingReady(r)
      BY <3>3 DEF NothingReady
    <3>4. CASE Leftover(r)
      BY <3>4 DEF Leftover
    <3>5. ASSUME NEW j \in Jobs, SkipJob(r, j) \/ StartJob(r, j) \/ FinishJob(r, j)
          PROVE  row' = row /\ row[r] = "running" /\ \A q \in Runs \ {r} : job'[q] = job[q]
      BY <3>5 DEF SkipJob, StartJob, FinishJob
    <3> QED
      BY <1>4, <3>1, <3>2, <3>3, <3>4, <3>5
  <2> QED
    BY <2>1 DEF Contract!Work, Contract!Keep
<1>5. ASSUME NEW r \in Runs, FinishRun(r)
      PROVE  \A q \in Runs : Contract!StepOf(q)
  <2>a. row[r] = "running"
    BY <1>5 DEF FinishRun
  <2>b. final[r] \in Terminal
    OBVIOUS
  <2>c. row'[r] = final[r] /\ job' = job
    BY <1>5 DEF FinishRun
  <2>1. row[r] = "running" /\ row'[r] = final[r] /\ final[r] \in Terminal /\ job' = job
    BY <2>a, <2>b, <2>c
  <2>2. \A q \in Runs \ {r} : row'[q] = row[q]
    BY <1>5 DEF FinishRun
  <2>3. final[r] = "success" => \A j \in Jobs : job[r][j] = "success"
    BY <1>5 DEF FinishRun, Agreement
  <2>4. final[r] = "failed" => \E j \in Jobs : job[r][j] \in JobTerminal \ {"success"}
    BY <1>5 DEF FinishRun, Agreement
  <2> HIDE DEF IInv, TypeOK, Ownership
  <2>5. Contract!Conclude(r)
    BY <2>1, <2>3, <2>4, SameVocabulary DEF Contract!Conclude
  <2> QED
    BY <2>1, <2>2, <2>5 DEF Contract!Keep
<1>6. CASE ReconcileOrphanRuns
  BY <1>6, SameVocabulary DEF ReconcileOrphanRuns, Contract!Conclude, Contract!Keep, Terminal
<1>7. ASSUME NEW r \in Runs, Execute(r)
      PROVE  \A q \in Runs : Contract!StepOf(q)
  BY <1>4, <1>5, <1>7 DEF Execute, Gated, Register, Checkout, CheckoutFails, StartPass, LeaveLoop,
     LaunchWave, WaveDone, Verdict, FinishRunFails, Cleanup, CollectJob
<1>8. ASSUME NEW c \in Callers, Handle(c)
      PROVE  \A q \in Runs : Contract!StepOf(q)
  BY <1>1, <1>3, <1>8 DEF Handle, CancelRunning, CancelLookupMisses, EnqueuePushedFails
<1> QED
  BY <1>u, <1>1, <1>2, <1>6, <1>7, <1>8 DEF Next, Deadline, LeaseExpires, Push, StopRequest,
     Shutdown, Exit, Crash, Restart, ReconcileFails

\* A run gets one verdict, a green one only over green jobs, and neither it nor
\* its jobs change afterwards, although FinishRun has no compare-and-set: the
\* claim, the cancel path and the reconciliation leave it a single writer.
THEOREM Implementation == Spec => ImplementsContract
<1>1. Init => Contract!Init
  BY DEF Init, Contract!Init
<1> QED
  BY <1>1, Invariance, ContractStep, PTL DEF Spec, ImplementsContract, Contract!Spec
=============================================================================
