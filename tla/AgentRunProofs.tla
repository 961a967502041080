---------------------------- MODULE AgentRunProofs ----------------------------
(***************************************************************************)
(* For any number of agent slots, handlers, follow-up turns, shutdowns and *)
(* crashes, as long as no storage call fails and no claim outlives its     *)
(* lease: one goroutine drives the run, a finished run stays finished, a   *)
(* run at rest is whole or gone, and a success has its branch.             *)
(*                                                                         *)
(* The argument: a claim takes a row that no goroutine works on and makes  *)
(* it "running", so the goroutines exclude one another through the row.    *)
(* What a goroutine has built is then known from its step as long as the   *)
(* row is "running"; once it is not, somebody who will tear down what is   *)
(* left can be named: the goroutine, unless it was interrupted, or the     *)
(* canceller that interrupted it.                                          *)
(***************************************************************************)
EXTENDS AgentRun, TLAPS

Steps == {"idle", "setup", "job", "mint", "open", "register", "turn", "ended", "broken",
          "park", "verify", "tstart", "handoff", "commit", "report", "teardown", "finish", "abort"}

\* Every variable has its type.
TypeOK ==
    /\ scenario \in Scenarios /\ kind \in Kinds
    /\ server \in {"up", "draining", "down"}
    /\ row \in RunStatus \cup {"absent"} /\ job \in JobRow
    /\ turn \in [Turns -> TurnStatus \cup {"absent"}]
    /\ overage \in BOOLEAN /\ leaseOver \in BOOLEAN /\ turnLate \subseteq Turns
    /\ token \in BOOLEAN /\ container \in BOOLEAN
    /\ workspace \in Trees /\ branch \in Trees
    /\ pc \in [Workers -> Steps] /\ mine \in [Workers -> Turns \cup {NoTurn}]
    /\ verdict \in [Workers -> {"error", "failed", "success"}]
    /\ flag \in [Workers -> BOOLEAN] /\ tree \in [Workers -> Trees]
    /\ handle \in Workers \cup {NoWorker}
    /\ reaper \in {"idle", "listed", "torn"}
    /\ op \in [Callers -> {"idle", "post", "flag", "job", "teardown", "remove"}]
    /\ sawJob \in [Callers -> BOOLEAN]
    /\ left \in Trees /\ withdrawn \in BOOLEAN
    /\ faults \in Nat /\ crashes \in Nat

Busy(w) == pc[w] # "idle"
Nobody == \A w \in Workers : ~Busy(w)
Clean == ~container /\ ~token
Intact == workspace \in {"base", "work"} /\ workspace = left
Whole == container /\ token /\ job = "running" /\ Intact
JobOpen == job \in {"queued", "running"}

\* Nothing of what a calm scenario excludes has happened.
Mild == ~leaseOver /\ turnLate = {} /\ faults = 0

\* Who works on a row in which status.
Alone ==
    /\ \A v, w \in Workers : Busy(v) /\ Busy(w) => v = w
    /\ ~Nobody => row \in {"running", "canceled"}
    /\ reaper # "idle" => Nobody /\ row \in {"awaiting_input", "finishing"} \cup Terminal
    /\ server = "down" => Nobody /\ reaper = "idle"

\* An interrupted turn, and a canceller past its compare-and-set, belong to a
\* run that has ended.
Canceling(c) == op[c] \in {"flag", "job", "teardown", "remove"}

Interrupts ==
    /\ \A w \in Workers : flag[w] => row \in Terminal /\ pc[w] \in {"turn", "ended", "broken"}
    /\ \A w \in Workers : handle = w => pc[w] = "turn"
    /\ \A c \in Callers : Canceling(c) => row \in Terminal

\* What has been built when a goroutine is at step s with verdict v.
Built(s, v) ==
    /\ s \in {"setup", "job", "abort"} => Clean /\ job = "absent"
    /\ s \in {"mint", "finish"} => Clean
    /\ s \in {"mint", "open"} => job # "absent"
    /\ s = "open" => ~container
    /\ s = "verify" => kind # "agent"
    /\ s \in {"teardown", "finish"} /\ v # "error" => ~JobOpen
    /\ row = "running" =>
         /\ s \in {"job", "mint", "open"} => workspace = "base"
         /\ s \in {"mint", "open", "register", "turn"} => job = "running"
         /\ s \in {"open", "register", "turn"} => token
         /\ s \in {"register", "turn"} => container /\ workspace \in {"base", "work"}
         /\ s \in {"tstart", "ended", "park"} => Whole

Progress == \A w \in Workers : Built(pc[w], verdict[w])

\* What the row says of the run's resources and of its job.
Resources ==
    /\ row \in {"absent", "queued"} => job = "absent"
    /\ ~Clean => job # "absent"
    /\ row = "awaiting_input" /\ reaper = "idle" /\ server # "down" => Whole
    /\ reaper = "torn" => Clean
    /\ row \in Terminal \ {"canceled"} => ~JobOpen

\* Whoever will drop the container and the token of a run that has ended, and
\* end its job.
Tidies(w) == Busy(w) /\ ~flag[w]
Sweeps(c) == op[c] \in {"flag", "job"} \/ (op[c] = "teardown" /\ sawJob[c])

Attended ==
    /\ row \in Terminal /\ ~Clean /\ server # "down"
         => (\E w \in Workers : Tidies(w)) \/ (\E c \in Callers : Sweeps(c))
    /\ row = "canceled" /\ JobOpen /\ crashes = 0
         => (\E w \in Workers : Tidies(w)) \/ (\E c \in Callers : op[c] \in {"flag", "job"})

\* Only a process that was told to stop is not up.
Stopped == server # "up" => crashes # 0

\* What the last turn left is on the branch; there is none for a bare checkout.
Handed == left \in {"base", "work"} /\ branch = IF left = "base" THEN "none" ELSE left

\* What a handoff at step s with verdict v and tree x has carried of what the last
\* turn left.
Carried(s, v, x) ==
    /\ s = "handoff" => Intact
    /\ s = "commit" => left \in {"base", "work"} /\ x = left
    /\ s = "report" => Handed
    /\ s \in {"teardown", "finish"} /\ v = "success" => Handed
    /\ s \notin {"idle", "report", "teardown", "finish"} => branch = "none"

\* As long as no cancel was accepted, which every canceller knows of, what the
\* turns left is kept from the last turn to the branch.
Kept ==
    /\ \A c \in Callers : Canceling(c) => withdrawn
    /\ kind = "agent" /\ ~withdrawn =>
         /\ \A w \in Workers : Carried(pc[w], verdict[w], tree[w])
         /\ row \in {"absent", "queued", "awaiting_input", "finishing"} => branch = "none"
         /\ row \in {"awaiting_input", "finishing"} /\ reaper = "idle" /\ server # "down" => Intact
         /\ row = "success" => Handed

\* The inductive invariant.
CalmInv == Mild /\ Alone /\ Interrupts /\ Progress /\ Resources /\ Stopped /\ Attended /\ Kept
IInv == TypeOK /\ (Calm => CalmInv)

-----------------------------------------------------------------------------
(* Types                                                                   *)

LEMMA TypeStep == TypeOK /\ [Next]_vars => TypeOK'
<1> SUFFICES ASSUME TypeOK, [Next]_vars PROVE TypeOK'
  OBVIOUS
<1> USE NoWorkerAssumption
    DEF TypeOK, Steps, Trees, fixed, history, runVars, resVars, workVars, webVars, RunStatus, Active, Terminal,
        JobRow, JobStatus, JobTerminal, TurnStatus, Goto, Done, Conclude, TearDown, Fault, WriteTurn, NoTurn
<1>1. CASE Spawn
  BY <1>1 DEF Spawn
<1>2. CASE MarkRunFinishing
  BY <1>2 DEF MarkRunFinishing
<1>3. CASE ReapList
  BY <1>3 DEF ReapList
<1>4. CASE ReapTearDown
  <2>1. token' \in BOOLEAN /\ container' \in BOOLEAN
    BY <1>4 DEF ReapTearDown
  <2>2. /\ UNCHANGED <<fixed, history, server, runVars, branch, workVars, webVars, faults, crashes>>
        /\ workspace' = "none" /\ reaper' = "torn"
    BY <1>4 DEF ReapTearDown
  <2> QED
    BY <2>1, <2>2
<1>5. CASE ReapFinish
  BY <1>5 DEF ReapFinish
<1>6. CASE GrowOld
  BY <1>6 DEF GrowOld
<1>7. CASE LeaseExpires
  BY <1>7 DEF LeaseExpires
<1>8. ASSUME NEW t \in Turns, TurnExpires(t) PROVE TypeOK'
  BY <1>8 DEF TurnExpires
<1>9. ASSUME NEW w \in Workers, SetupFails(w) PROVE TypeOK'
  BY <1>9 DEF SetupFails
<1>10. ASSUME NEW w \in Workers, Workspace(w) PROVE TypeOK'
  BY <1>10 DEF Workspace
<1>11. ASSUME NEW w \in Workers, CreateAgentJob(w) PROVE TypeOK'
  BY <1>11 DEF CreateAgentJob
<1>12. ASSUME NEW w \in Workers, CreateAgentJobFails(w) PROVE TypeOK'
  BY <1>12 DEF CreateAgentJobFails
<1>13. ASSUME NEW w \in Workers, MintToken(w) PROVE TypeOK'
  <2>1. token' \in BOOLEAN
    BY <1>13 DEF MintToken
  <2>2. pc' \in [Workers -> Steps] /\ verdict' \in [Workers -> {"error", "failed", "success"}]
    BY <1>13 DEF MintToken
  <2>3. UNCHANGED <<fixed, history, server, runVars, container, workspace, branch, mine, flag, tree, handle, reaper, webVars, faults, crashes>>
    BY <1>13 DEF MintToken
  <2> QED
    BY <2>1, <2>2, <2>3
<1>14. ASSUME NEW w \in Workers, OpenSession(w) PROVE TypeOK'
  <2>1. container' \in BOOLEAN
    BY <1>14 DEF OpenSession
  <2>2. pc' \in [Workers -> Steps] /\ verdict' \in [Workers -> {"error", "failed", "success"}]
    BY <1>14 DEF OpenSession
  <2>3. UNCHANGED <<fixed, history, server, runVars, token, workspace, branch, mine, flag, tree, handle, reaper, webVars, faults, crashes>>
    BY <1>14 DEF OpenSession
  <2> QED
    BY <2>1, <2>2, <2>3
<1>15. ASSUME NEW w \in Workers, RegisterTurn(w) PROVE TypeOK'
  BY <1>15 DEF RegisterTurn
<1>16. ASSUME NEW w \in Workers, RunTurn(w) PROVE TypeOK'
  BY <1>16 DEF RunTurn
<1>17. ASSUME NEW w \in Workers, AfterTurn(w) PROVE TypeOK'
  <2>1. turn' \in [Turns -> TurnStatus \cup {"absent"}] /\ faults' \in Nat
    BY <1>17 DEF AfterTurn
  <2>2. /\ pc' \in [Workers -> Steps] /\ mine' \in [Workers -> Turns \cup {NoTurn}]
        /\ verdict' \in [Workers -> {"error", "failed", "success"}] /\ flag' \in [Workers -> BOOLEAN]
    BY <1>17 DEF AfterTurn
  <2>3. UNCHANGED <<fixed, history, server, row, job, overage, leaseOver, turnLate, resVars, tree, handle, reaper, webVars, crashes>>
    BY <1>17 DEF AfterTurn
  <2> QED
    BY <2>1, <2>2, <2>3
<1>18. ASSUME NEW w \in Workers, Park(w) PROVE TypeOK'
  <2>1. row' \in RunStatus \cup {"absent"}
    BY <1>18 DEF Park
  <2>2. /\ pc' \in [Workers -> Steps] /\ mine' \in [Workers -> Turns \cup {NoTurn}]
        /\ verdict' \in [Workers -> {"error", "failed", "success"}] /\ flag' \in [Workers -> BOOLEAN]
    BY <1>18 DEF Park
  <2>3. UNCHANGED <<fixed, history, server, job, turn, overage, leaseOver, turnLate, resVars, tree, handle, reaper, webVars, faults, crashes>>
    BY <1>18 DEF Park
  <2> QED
    BY <2>1, <2>2, <2>3
<1>19. ASSUME NEW w \in Workers, FinalizeVerify(w) PROVE TypeOK'
  BY <1>19 DEF FinalizeVerify
<1>20. ASSUME NEW w \in Workers, DispatchTurn(w) PROVE TypeOK'
  BY <1>20 DEF DispatchTurn
<1>21. ASSUME NEW w \in Workers, DispatchFails(w) PROVE TypeOK'
  <2>0. turn' = [turn EXCEPT ![mine[w]] = "error"] /\ faults' = faults + 1
    BY <1>21, Zenon DEF DispatchFails
  <2>1. turn' \in [Turns -> TurnStatus \cup {"absent"}] /\ faults' \in Nat
    <3>1. turn \in [Turns -> TurnStatus \cup {"absent"}] /\ faults \in Nat
      OBVIOUS
    <3> HIDE DEF TypeOK
    <3>2. turn' \in [Turns -> TurnStatus \cup {"absent"}]
      BY <2>0, <3>1
    <3> QED
      BY <2>0, <3>1, <3>2
  <2>2. /\ pc' \in [Workers -> Steps] /\ mine' \in [Workers -> Turns \cup {NoTurn}]
        /\ verdict' \in [Workers -> {"error", "failed", "success"}] /\ flag' \in [Workers -> BOOLEAN]
    BY <1>21 DEF DispatchFails
  <2>3. token' \in BOOLEAN /\ workspace' \in Trees
    BY <1>21 DEF DispatchFails
  <2>4. UNCHANGED <<fixed, history, server, row, job, overage, leaseOver, turnLate, container, branch, tree, handle, reaper, webVars, crashes>>
    BY <1>21 DEF DispatchFails
  <2> QED
    BY <2>1, <2>2, <2>3, <2>4
<1>22. ASSUME NEW w \in Workers, ReadWorkspace(w) \/ CommitBranch(w) \/ ReportHandoff(w) PROVE TypeOK'
  <2>1. CASE ReadWorkspace(w)
    BY <2>1 DEF ReadWorkspace
  <2>2. CASE CommitBranch(w)
    BY <2>2 DEF CommitBranch
  <2>3. CASE ReportHandoff(w)
    BY <2>3 DEF ReportHandoff
  <2> QED
    BY <1>22, <2>1, <2>2, <2>3
<1>23. ASSUME NEW w \in Workers, TearDownAgent(w) PROVE TypeOK'
  <2>1. token' \in BOOLEAN /\ container' \in BOOLEAN
    BY <1>23 DEF TearDownAgent
  <2>2. pc' \in [Workers -> Steps] /\ workspace' = "none"
    BY <1>23 DEF TearDownAgent
  <2>3. UNCHANGED <<fixed, history, server, runVars, branch, mine, verdict, flag, tree, handle, reaper, webVars, faults, crashes>>
    BY <1>23 DEF TearDownAgent
  <2> QED
    BY <2>1, <2>2, <2>3
<1>24. ASSUME NEW w \in Workers, FinishAgentRun(w) PROVE TypeOK'
  BY <1>24 DEF FinishAgentRun
<1>25. ASSUME NEW w \in Workers, Abort(w) PROVE TypeOK'
  BY <1>25 DEF Abort
<1>26. ASSUME NEW w \in Workers, ClaimRun(w) PROVE TypeOK'
  <2>1. leaseOver' \in BOOLEAN
    BY <1>26 DEF ClaimRun
  <2>2. pc' \in [Workers -> Steps] /\ row' = "running"
    BY <1>26 DEF ClaimRun
  <2>3. UNCHANGED <<fixed, history, server, job, turn, overage, turnLate, resVars, mine, verdict, flag, tree, handle, reaper, webVars, faults, crashes>>
    BY <1>26 DEF ClaimRun
  <2> QED
    BY <2>1, <2>2, <2>3
<1>27. ASSUME NEW w \in Workers, ClaimNextFinishingRun(w) PROVE TypeOK'
  BY <1>27 DEF ClaimNextFinishingRun
<1>28. ASSUME NEW w \in Workers, NEW t \in Turns, ClaimNextTurn(w, t) PROVE TypeOK'
  BY <1>28 DEF ClaimNextTurn
<1>29. ASSUME NEW c \in Callers, AskTurn(c) PROVE TypeOK'
  BY <1>29 DEF AskTurn
<1>30. ASSUME NEW c \in Callers, CancelCAS(c) PROVE TypeOK'
  <2>1. withdrawn' \in BOOLEAN
    BY <1>30, Zenon DEF CancelCAS, Calm
  <2>2. /\ row' = "canceled" /\ op' = [op EXCEPT ![c] = "flag"]
        /\ UNCHANGED <<fixed, left, server, job, turn, overage, leaseOver, turnLate, resVars, workVars,
                       reaper, sawJob, faults, crashes>>
    BY <1>30 DEF CancelCAS
  <2> QED
    BY <2>1, <2>2
<1>31. ASSUME NEW c \in Callers, CancelFlag(c) PROVE TypeOK'
  BY <1>31 DEF CancelFlag
<1>32. ASSUME NEW c \in Callers, CancelJob(c) PROVE TypeOK'
  BY <1>32 DEF CancelJob
<1>33. ASSUME NEW c \in Callers, CancelTearDown(c) PROVE TypeOK'
  <2>1. token' \in BOOLEAN /\ container' \in BOOLEAN
    BY <1>33 DEF CancelTearDown
  <2>2. /\ workspace' \in Trees /\ sawJob' \in [Callers -> BOOLEAN]
        /\ op' \in [Callers -> {"idle", "post", "flag", "job", "teardown", "remove"}]
    BY <1>33 DEF CancelTearDown
  <2>3. UNCHANGED <<fixed, history, server, runVars, branch, workVars, reaper, faults, crashes>>
    BY <1>33 DEF CancelTearDown
  <2> QED
    BY <2>1, <2>2, <2>3
<1>34. ASSUME NEW c \in Callers, CancelRemoveAll(c) \/ EnqueueTurnFails(c) PROVE TypeOK'
  BY <1>34 DEF CancelRemoveAll, EnqueueTurnFails
<1>35. ASSUME NEW c \in Callers, NEW t \in Turns, EnqueueTurn(c, t) PROVE TypeOK'
  BY <1>35 DEF EnqueueTurn
<1>36. CASE Shutdown
  BY <1>36 DEF Shutdown
<1>37. CASE Exit
  BY <1>37 DEF Exit
<1>38. CASE Crash
  BY <1>38 DEF Crash
<1>39. CASE Startup
  <2>1. /\ row' \in RunStatus \cup {"absent"} /\ job' \in JobRow
        /\ turn' \in [Turns -> TurnStatus \cup {"absent"}]
    BY <1>39 DEF Startup, Sweep
  <2>2. server' = "up" /\ token' \in BOOLEAN /\ container' \in BOOLEAN
    BY <1>39 DEF Startup, Sweep
  <2>3. UNCHANGED <<fixed, history, overage, leaseOver, turnLate, workspace, branch, workVars, reaper,
                    webVars, faults, crashes>>
    BY <1>39 DEF Startup, Sweep
  <2> QED
    BY <2>1, <2>2, <2>3
<1>40. CASE UNCHANGED vars
  BY <1>40 DEF vars
<1> QED
  BY <1>1, <1>2, <1>3, <1>4, <1>5, <1>6, <1>7, <1>8, <1>9, <1>10, <1>11, <1>12, <1>13, <1>14, <1>15, <1>16, <1>17, <1>18, <1>19, <1>20, <1>21, <1>22, <1>23, <1>24, <1>25, <1>26, <1>27, <1>28, <1>29, <1>30, <1>31, <1>32, <1>33, <1>34, <1>35, <1>36, <1>37, <1>38, <1>39, <1>40
  DEF Next, Reap, Work, Claim, Answer

-----------------------------------------------------------------------------
(* What single steps leave alone                                           *)

\* The goroutines other than w.
Others(w) ==
    \A v \in Workers \ {w} : pc'[v] = pc[v] /\ verdict'[v] = verdict[v] /\ flag'[v] = flag[v]

\* A step of a goroutine that is at work is nobody else's.
LEMMA WorkStep ==
    ASSUME TypeOK, NEW w \in Workers, Work(w)
    PROVE  Busy(w) /\ Others(w) /\ UNCHANGED <<fixed, server, reaper, webVars, crashes>>
<1> USE DEF TypeOK, Busy, Others, Goto, Done, Conclude
<1>1. CASE SetupFails(w) \/ Workspace(w) \/ CreateAgentJob(w) \/ CreateAgentJobFails(w)
  BY <1>1 DEF SetupFails, Workspace, CreateAgentJob, CreateAgentJobFails
<1>2. CASE MintToken(w)
  BY <1>2 DEF MintToken
<1>3. CASE OpenSession(w)
  BY <1>3 DEF OpenSession
<1>4. CASE RegisterTurn(w) \/ RunTurn(w)
  BY <1>4 DEF RegisterTurn, RunTurn
<1>5. CASE AfterTurn(w)
  BY <1>5 DEF AfterTurn
<1>6. CASE Park(w) \/ FinalizeVerify(w) \/ DispatchTurn(w) \/ ReadWorkspace(w) \/ CommitBranch(w) \/ ReportHandoff(w)
  BY <1>6 DEF Park, FinalizeVerify, DispatchTurn, ReadWorkspace, CommitBranch, ReportHandoff
<1>7. CASE DispatchFails(w)
  BY <1>7 DEF DispatchFails
<1>8. CASE TearDownAgent(w) \/ FinishAgentRun(w) \/ Abort(w)
  BY <1>8 DEF TearDownAgent, FinishAgentRun, Abort
<1> QED
  BY <1>1, <1>2, <1>3, <1>4, <1>5, <1>6, <1>7, <1>8 DEF Work

\* Whether a cancel was accepted is the cancellers' business.
LEMMA WorkHistory == ASSUME NEW w \in Workers, Work(w) PROVE UNCHANGED withdrawn
  BY DEF Work, SetupFails, Workspace, CreateAgentJob, CreateAgentJobFails, MintToken, OpenSession,
     RegisterTurn, RunTurn, AfterTurn, Park, FinalizeVerify, DispatchTurn, DispatchFails, ReadWorkspace,
     CommitBranch, ReportHandoff, TearDownAgent, FinishAgentRun, Abort, history

LEMMA ClaimHistory == ASSUME NEW w \in Workers, Claim(w) PROVE UNCHANGED <<history, tree>>
  BY DEF Claim, ClaimRun, ClaimNextFinishingRun, ClaimNextTurn

\* A claim takes an idle slot while the reaper rests.
LEMMA ClaimStep ==
    ASSUME TypeOK, NEW w \in Workers, Claim(w)
    PROVE  /\ Free(w) /\ Others(w) /\ row' = "running"
           /\ UNCHANGED <<fixed, server, job, resVars, verdict, flag, handle, reaper, webVars, faults, crashes>>
<1> USE DEF TypeOK, Others, Goto
<1>1. CASE ClaimRun(w)
  BY <1>1 DEF ClaimRun
<1>2. CASE ClaimNextFinishingRun(w)
  BY <1>2 DEF ClaimNextFinishingRun
<1>3. ASSUME NEW t \in Turns, ClaimNextTurn(w, t) PROVE Others(w)
  BY <1>3 DEF ClaimNextTurn
<1> QED
  BY <1>1, <1>2, <1>3 DEF Claim, ClaimNextTurn

\* The steps of the handlers, the reaper and the clock.
LEMMA BesideStep ==
    ASSUME \/ Spawn \/ MarkRunFinishing \/ Reap \/ GrowOld \/ LeaseExpires
           \/ \E t \in Turns : TurnExpires(t)
           \/ \E c \in Callers : AskTurn(c) \/ CancelCAS(c) \/ Answer(c)
           \/ Shutdown \/ Exit \/ UNCHANGED vars
    PROVE  UNCHANGED <<fixed, pc, verdict, handle>>
  BY DEF Spawn, MarkRunFinishing, Reap, ReapList, ReapTearDown, ReapFinish, GrowOld, LeaseExpires,
         TurnExpires, AskTurn, CancelCAS, Answer, CancelFlag, CancelJob, CancelTearDown, CancelRemoveAll,
         EnqueueTurnFails, EnqueueTurn, Shutdown, Exit, vars, workVars

LEMMA CalmStays == TypeOK /\ [Next]_vars => (Calm' <=> Calm)
<1> SUFFICES ASSUME TypeOK, [Next]_vars PROVE UNCHANGED fixed
  BY DEF fixed, Calm
<1> QED
  BY WorkStep, ClaimStep, BesideStep DEF Next, Crash, Startup, Sweep

\* No lease runs out and no call fails.
LEMMA MildStep == TypeOK /\ Calm /\ Mild /\ [Next]_vars => Mild'
<1> SUFFICES ASSUME TypeOK, Calm, Mild, [Next]_vars PROVE Mild'
  OBVIOUS
<1>1. ~Fault /\ ~LeaseExpires /\ \A t \in Turns : ~TurnExpires(t)
  BY ScenariosAssumption DEF TypeOK, ScenarioRecords, Calm, Mild, Fault, LeaseExpires, TurnExpires
<1> USE <1>1 DEF Mild, runVars
<1>2. ASSUME NEW w \in Workers, Work(w) PROVE Mild'
  BY <1>2 DEF Work, SetupFails, Workspace, CreateAgentJob, CreateAgentJobFails, MintToken, OpenSession,
     RegisterTurn, RunTurn, AfterTurn, WriteTurn, Park, FinalizeVerify, DispatchTurn, DispatchFails,
     ReadWorkspace, CommitBranch, ReportHandoff, TearDownAgent, FinishAgentRun, Abort
<1>3. ASSUME NEW w \in Workers, Claim(w) PROVE Mild'
  BY <1>3 DEF Claim, ClaimRun, ClaimNextFinishingRun, ClaimNextTurn
<1>4. ASSUME NEW c \in Callers, AskTurn(c) \/ CancelCAS(c) \/ Answer(c) PROVE Mild'
  <2>1. CASE AskTurn(c) \/ CancelFlag(c) \/ CancelJob(c)
    BY <2>1 DEF AskTurn, CancelFlag, CancelJob
  <2>3. CASE CancelCAS(c)
    <3>1. UNCHANGED <<leaseOver, turnLate, faults>>
      BY <2>3 DEF CancelCAS
    <3> QED
      BY <3>1
  <2>2. CASE CancelTearDown(c) \/ CancelRemoveAll(c) \/ EnqueueTurnFails(c) \/ \E t \in Turns : EnqueueTurn(c, t)
    BY <2>2 DEF CancelTearDown, CancelRemoveAll, EnqueueTurnFails, EnqueueTurn
  <2> QED
    BY <1>4, <2>1, <2>2, <2>3 DEF Answer
<1>5. CASE Spawn \/ MarkRunFinishing \/ Reap \/ GrowOld
  BY <1>5 DEF Spawn, MarkRunFinishing, Reap, ReapList, ReapTearDown, ReapFinish, GrowOld
<1>6. CASE Shutdown \/ Exit \/ Crash \/ Startup \/ UNCHANGED vars
  BY <1>6 DEF Shutdown, Exit, Crash, Startup, Sweep, vars
<1> QED
  BY <1>2, <1>3, <1>4, <1>5, <1>6 DEF Next

-----------------------------------------------------------------------------
(* Rows and goroutines                                                     *)

\* A finished run stays finished: claims, parking and the startup sweep look at
\* the row, and the writes that do not write a final status.
LEMMA StaysFinished == TypeOK /\ Mild /\ [Next]_vars /\ row \in Terminal => row' \in Terminal
<1> SUFFICES ASSUME TypeOK, Mild, [Next]_vars, row \in Terminal PROVE row' \in Terminal
  OBVIOUS
<1> USE DEF TypeOK, Mild, Terminal, runVars
<1>1. ASSUME NEW w \in Workers, Work(w) PROVE row' \in Terminal
  BY <1>1 DEF Work, SetupFails, Workspace, CreateAgentJob, CreateAgentJobFails, MintToken, OpenSession,
     RegisterTurn, RunTurn, AfterTurn, Park, FinalizeVerify, DispatchTurn, DispatchFails,
     ReadWorkspace, CommitBranch, ReportHandoff, TearDownAgent, FinishAgentRun, Abort
<1>2. ASSUME NEW w \in Workers, Claim(w) PROVE FALSE
  BY <1>2 DEF Claim, ClaimRun, ClaimNextFinishingRun, ClaimNextTurn, Dispatchable
<1>3. ASSUME NEW c \in Callers, AskTurn(c) \/ CancelCAS(c) \/ Answer(c) PROVE row' \in Terminal
  BY <1>3 DEF AskTurn, CancelCAS, Answer, CancelFlag, CancelJob, CancelTearDown, CancelRemoveAll, EnqueueTurnFails, EnqueueTurn
<1>4. CASE Spawn \/ MarkRunFinishing \/ Reap \/ GrowOld \/ LeaseExpires \/ \E t \in Turns : TurnExpires(t)
  BY <1>4 DEF Spawn, MarkRunFinishing, Reap, ReapList, ReapTearDown, ReapFinish, GrowOld, LeaseExpires, TurnExpires
<1>5. CASE Shutdown \/ Exit \/ Crash \/ Startup \/ UNCHANGED vars
  BY <1>5 DEF Shutdown, Exit, Crash, Startup, Sweep, vars
<1> QED
  BY <1>1, <1>2, <1>3, <1>4, <1>5 DEF Next

\* A goroutine that goes on without touching the row; one that ends.
LEMMA AloneKept ==
    ASSUME Alone, NEW w \in Workers, Busy(w), Others(w), UNCHANGED <<row, reaper, server>>
    PROVE  Alone'
  BY DEF Alone, Nobody, Busy, Others

LEMMA AloneEnds ==
    ASSUME Alone, NEW w \in Workers, Busy(w), Others(w), pc'[w] = "idle", UNCHANGED <<reaper, server>>
    PROVE  Nobody' /\ Alone'
  BY DEF Alone, Nobody, Busy, Others

\* No goroutine works on a row that can be claimed.
LEMMA AloneStep == TypeOK /\ Mild /\ Alone /\ [Next]_vars => Alone'
<1> SUFFICES ASSUME TypeOK, Mild, Alone, [Next]_vars PROVE Alone'
  OBVIOUS
<1>1. ASSUME NEW w \in Workers, Work(w) PROVE Alone'
  <2>1. Busy(w) /\ Others(w) /\ UNCHANGED <<reaper, server>>
    BY <1>1, WorkStep
  <2>2. ASSUME UNCHANGED row PROVE Alone'
    BY <2>1, <2>2, AloneKept
  <2>3. ASSUME Done(w) PROVE Alone'
    BY <2>1, <2>3, AloneEnds DEF Done, Goto, TypeOK
  <2> QED
    BY <1>1, <2>2, <2>3 DEF Work, SetupFails, Workspace, CreateAgentJob, CreateAgentJobFails, MintToken,
       OpenSession, RegisterTurn, RunTurn, AfterTurn, Park, FinalizeVerify, DispatchTurn, DispatchFails,
       ReadWorkspace, CommitBranch, ReportHandoff, TearDownAgent, FinishAgentRun, Abort, runVars
<1>2. ASSUME NEW w \in Workers, Claim(w) PROVE Alone'
  <2>1. Free(w) /\ Others(w) /\ row' = "running" /\ UNCHANGED <<reaper, server>>
    BY <1>2, ClaimStep
  <2>2. row \in {"queued", "awaiting_input", "finishing"}
    BY <1>2 DEF Claim, ClaimRun, ClaimNextFinishingRun, ClaimNextTurn, Dispatchable, Mild
  <2>3. Nobody
    BY <2>2 DEF Alone
  <2> QED
    BY <2>1, <2>3 DEF Alone, Nobody, Busy, Others, Free
<1>3. ASSUME NEW c \in Callers, AskTurn(c) \/ Answer(c) PROVE Alone'
  BY <1>3 DEF AskTurn, Answer, CancelFlag, CancelJob, CancelTearDown, CancelRemoveAll, EnqueueTurnFails, EnqueueTurn,
     Alone, Nobody, Busy, runVars, workVars
<1>4. ASSUME NEW c \in Callers, CancelCAS(c) PROVE Alone'
  BY <1>4 DEF CancelCAS, Alone, Nobody, Busy, workVars, Terminal
<1>5. CASE Spawn \/ MarkRunFinishing \/ GrowOld \/ LeaseExpires \/ \E t \in Turns : TurnExpires(t)
  BY <1>5 DEF Spawn, MarkRunFinishing, GrowOld, LeaseExpires, TurnExpires,
     Alone, Nobody, Busy, runVars, workVars, Terminal
<1>6. CASE Reap
  BY <1>6 DEF Reap, ReapList, ReapTearDown, ReapFinish, Alone, Nobody, Busy, runVars, workVars, Terminal
<1>7. CASE Shutdown \/ Exit \/ UNCHANGED vars
  BY <1>7 DEF Shutdown, Exit, Alone, Nobody, Busy, runVars, workVars, vars
<1>8. CASE Crash
  BY <1>8 DEF Crash, Alone, Nobody, Busy
<1>9. CASE Startup
  BY <1>9 DEF Startup, Sweep, Alone, Nobody, Busy, workVars
<1> QED
  BY <1>1, <1>2, <1>3, <1>4, <1>5, <1>6, <1>7, <1>8, <1>9 DEF Next

\* Only a turn in flight is interrupted, and only for a run that has ended.
LEMMA InterruptsStep == TypeOK /\ Mild /\ Alone /\ Interrupts /\ [Next]_vars => Interrupts'
<1> SUFFICES ASSUME TypeOK, Mild, Alone, Interrupts, [Next]_vars PROVE Interrupts'
  OBVIOUS
<1>f. row \in Terminal => row' \in Terminal
  BY StaysFinished
<1>1. ASSUME NEW w \in Workers, Work(w) PROVE Interrupts'
  <2>1. Busy(w) /\ Others(w) /\ UNCHANGED webVars
    BY <1>1, WorkStep
  <2>2. \A c \in Callers : Canceling(c)' => row' \in Terminal
    BY <1>f, <2>1 DEF Interrupts, Canceling, webVars
  <2>3. ASSUME flag'[w] => flag[w] /\ pc'[w] \in {"turn", "ended", "broken"},
               \A v \in Workers : handle' = v => pc'[v] = "turn"
        PROVE  Interrupts'
    BY <1>f, <2>1, <2>2, <2>3 DEF Interrupts, Others
  <2>4. ASSUME Done(w), UNCHANGED handle, pc[w] # "turn" PROVE Interrupts'
    BY <2>1, <2>3, <2>4 DEF Done, Goto, TypeOK, Interrupts, Others
  <2>5. ASSUME UNCHANGED <<flag, handle>>, pc[w] # "turn", ~flag[w] PROVE Interrupts'
    BY <2>1, <2>3, <2>5 DEF Interrupts, Others
  <2>6. CASE RegisterTurn(w)
    BY <2>1, <2>3, <2>6 DEF RegisterTurn, Goto, TypeOK, Interrupts, Others
  <2>7. CASE RunTurn(w)
    BY <2>1, <2>3, <2>7, NoWorkerAssumption DEF RunTurn, Goto, TypeOK, Interrupts, Others
  <2>8. CASE AfterTurn(w)
    BY <2>4, <2>5, <2>8 DEF AfterTurn, Conclude, Goto
  <2>9. ASSUME pc[w] \notin {"turn", "ended", "broken"}, Done(w) \/ UNCHANGED flag, UNCHANGED handle PROVE Interrupts'
    BY <2>4, <2>5, <2>9 DEF Interrupts
  <2> QED
    BY <1>1, <2>6, <2>7, <2>8, <2>9 DEF Work, SetupFails, Workspace, CreateAgentJob, CreateAgentJobFails, MintToken,
       OpenSession, Park, FinalizeVerify, DispatchTurn, DispatchFails,
       ReadWorkspace, CommitBranch, ReportHandoff, TearDownAgent, FinishAgentRun, Abort
<1>2. ASSUME NEW w \in Workers, Claim(w) PROVE Interrupts'
  <2>1. pc[w] = "idle" /\ Others(w) /\ UNCHANGED <<flag, handle, op>>
    BY <1>2, ClaimStep DEF Free, webVars
  <2>2. row \notin Terminal
    BY <1>2 DEF Claim, ClaimRun, ClaimNextFinishingRun, ClaimNextTurn, Dispatchable, Mild, Terminal
  <2> QED
    BY <2>1, <2>2 DEF Interrupts, Canceling, Others
<1>3. ASSUME NEW c \in Callers, CancelFlag(c) PROVE Interrupts'
  <2>1. row \in Terminal /\ row' = row
    BY <1>3 DEF CancelFlag, Interrupts, Canceling, runVars
  <2> QED
    BY <1>3, <2>1 DEF CancelFlag, Interrupts, Canceling, TypeOK
<1>4. ASSUME NEW c \in Callers, AskTurn(c) \/ CancelCAS(c) PROVE Interrupts'
  BY <1>4 DEF AskTurn, CancelCAS, Interrupts, Canceling, Terminal, TypeOK, workVars, runVars
<1>5. ASSUME NEW c \in Callers, CancelJob(c) \/ CancelTearDown(c) \/ CancelRemoveAll(c) \/ EnqueueTurnFails(c)
                                 \/ \E t \in Turns : EnqueueTurn(c, t) PROVE Interrupts'
  BY <1>5, <1>f DEF CancelJob, CancelTearDown, CancelRemoveAll, EnqueueTurnFails, EnqueueTurn, Interrupts, Canceling, TypeOK, workVars
<1>6. CASE Spawn \/ MarkRunFinishing \/ Reap \/ GrowOld \/ LeaseExpires \/ \E t \in Turns : TurnExpires(t)
  BY <1>6, <1>f DEF Spawn, MarkRunFinishing, Reap, ReapList, ReapTearDown, ReapFinish, GrowOld, LeaseExpires,
     TurnExpires, Interrupts, Canceling, webVars, workVars
<1>7. CASE Shutdown \/ Exit \/ Startup \/ UNCHANGED vars
  BY <1>7, <1>f DEF Shutdown, Exit, Startup, Sweep, vars, Interrupts, Canceling, webVars, workVars
<1>8. CASE Crash
  BY <1>8, NoWorkerAssumption DEF Crash, Interrupts, Canceling
<1> QED
  BY <1>1, <1>2, <1>3, <1>4, <1>5, <1>6, <1>7, <1>8 DEF Next, Answer

-----------------------------------------------------------------------------
(* What the goroutine in charge has built                                  *)

LEMMA NoFault == TypeOK /\ Calm /\ Mild => ~Fault
  BY ScenariosAssumption DEF TypeOK, ScenarioRecords, Calm, Mild, Fault

\* Only the goroutine that moves has anything to show.
LEMMA ProgressAt ==
    ASSUME Alone, NEW w \in Workers, Busy(w) \/ Nobody, Others(w), Built(pc[w], verdict[w])'
    PROVE  Progress'
<1>1. ASSUME NEW v \in Workers \ {w} PROVE pc'[v] = "idle"
  BY DEF Alone, Nobody, Busy, Others
<1> QED
  BY <1>1 DEF Progress, Built

LEMMA ProgressIdle == Nobody' => Progress'
  BY DEF Nobody, Busy, Progress, Built

LEMMA ProgressStep ==
    TypeOK /\ Calm /\ Mild /\ Alone /\ Interrupts /\ Progress /\ Resources /\ [Next]_vars => Progress'
<1> SUFFICES ASSUME TypeOK, Calm, Mild, Alone, Interrupts, Progress, Resources, [Next]_vars PROVE Progress'
  OBVIOUS
<1>1. ASSUME NEW w \in Workers, Work(w) PROVE Progress'
  <2>1. Busy(w) /\ Others(w)
    BY <1>1, WorkStep
  <2>2. SUFFICES Built(pc[w], verdict[w])'
    BY <2>1, ProgressAt
  <2>3. Built(pc[w], verdict[w])
    BY DEF Progress
  <2>4. pc \in [Workers -> Steps] /\ verdict \in [Workers -> {"error", "failed", "success"}]
    BY DEF TypeOK
  <2>5. ASSUME Done(w) PROVE Built(pc[w], verdict[w])'
    BY <2>4, <2>5 DEF Done, Goto, Built
  <2>6. ASSUME Conclude(w, "error") PROVE Built(pc[w], verdict[w])'
    BY <2>4, <2>6 DEF Conclude, Goto, Built
  <2> USE DEF Goto, Built, Clean, Whole, Intact, JobOpen, fixed, history, runVars, resVars
  <2>7. CASE SetupFails(w) \/ Workspace(w)
    BY <2>3, <2>4, <2>7 DEF SetupFails, Workspace
  <2>8. CASE CreateAgentJob(w)
    BY <2>3, <2>4, <2>8 DEF CreateAgentJob
  <2>9. CASE CreateAgentJobFails(w) \/ DispatchFails(w)
    BY <2>9, NoFault DEF CreateAgentJobFails, DispatchFails
  <2>10. CASE MintToken(w)
    BY <2>3, <2>4, <2>6, <2>10 DEF MintToken
  <2>11. CASE OpenSession(w)
    BY <2>3, <2>4, <2>6, <2>11 DEF OpenSession
  <2>12. CASE RegisterTurn(w)
    BY <2>3, <2>4, <2>12 DEF RegisterTurn
  <2>13. CASE RunTurn(w)
    BY <2>3, <2>4, <2>13 DEF RunTurn
  <2>14. CASE AfterTurn(w)
    BY <2>3, <2>4, <2>5, <2>6, <2>14 DEF AfterTurn
  <2>15. CASE Park(w)
    BY <2>5, <2>6, <2>15 DEF Park
  <2>16. CASE FinalizeVerify(w)
    BY <2>3, <2>4, <2>16 DEF FinalizeVerify, Conclude
  <2>17. CASE DispatchTurn(w)
    BY <2>3, <2>4, <2>17 DEF DispatchTurn
  <2>18. CASE ReadWorkspace(w) \/ CommitBranch(w) \/ ReportHandoff(w)
    <3>1. CASE ReadWorkspace(w)
      BY <2>3, <2>4, <2>6, <3>1 DEF ReadWorkspace
    <3>2. CASE CommitBranch(w)
      BY <2>3, <2>4, <2>6, <3>2 DEF CommitBranch
    <3>3. CASE ReportHandoff(w)
      BY <2>3, <2>4, <3>3 DEF ReportHandoff, Conclude
    <3> QED
      BY <2>18, <3>1, <3>2, <3>3
  <2>19. CASE TearDownAgent(w)
    BY <2>3, <2>4, <2>19 DEF TearDownAgent, TearDown
  <2>20. CASE FinishAgentRun(w) \/ Abort(w)
    BY <2>5, <2>20 DEF FinishAgentRun, Abort
  <2> QED
    BY <1>1, <2>7, <2>8, <2>9, <2>10, <2>11, <2>12, <2>13, <2>14, <2>15, <2>16, <2>17, <2>18, <2>19, <2>20 DEF Work
<1>2. ASSUME NEW w \in Workers, Claim(w) PROVE Progress'
  <2>1. /\ Free(w) /\ Others(w) /\ row' = "running"
        /\ UNCHANGED <<job, resVars, left, verdict>>
    BY <1>2, ClaimStep, ClaimHistory DEF history
  <2>2. Nobody
    BY <1>2 DEF Claim, ClaimRun, ClaimNextFinishingRun, ClaimNextTurn, Dispatchable, Mild, Alone
  <2>3. SUFFICES Built(pc[w], verdict[w])'
    BY <2>1, <2>2, ProgressAt
  <2>4. pc \in [Workers -> Steps]
    BY DEF TypeOK
  <2> USE DEF Goto, Built, Resources, Clean, Whole, Intact, JobOpen, resVars
  <2>5. CASE ClaimRun(w)
    BY <2>1, <2>4, <2>5 DEF ClaimRun, Mild
  <2>6. CASE ClaimNextFinishingRun(w)
    BY <2>1, <2>4, <2>6 DEF ClaimNextFinishingRun
  <2>7. ASSUME NEW t \in Turns, ClaimNextTurn(w, t) PROVE Built(pc[w], verdict[w])'
    BY <2>1, <2>4, <2>7 DEF ClaimNextTurn, Dispatchable, Mild, Free
  <2> QED
    BY <1>2, <2>5, <2>6, <2>7 DEF Claim
<1>3. ASSUME UNCHANGED <<kind, row, job, resVars, left, pc, verdict>> PROVE Progress'
  BY <1>3 DEF Progress, Built, Clean, Whole, Intact, JobOpen, resVars
<1>4. ASSUME NEW c \in Callers, AskTurn(c) \/ CancelFlag(c) \/ EnqueueTurnFails(c)
                                 \/ \E t \in Turns : EnqueueTurn(c, t) PROVE Progress'
  BY <1>3, <1>4 DEF AskTurn, CancelFlag, EnqueueTurnFails, EnqueueTurn, fixed, history, runVars, workVars
<1>5. ASSUME NEW c \in Callers, CancelCAS(c) PROVE Progress'
  BY <1>5 DEF CancelCAS, Progress, Built, Clean, Whole, Intact, JobOpen, fixed, history, resVars, workVars
<1>6. ASSUME NEW c \in Callers, CancelJob(c) PROVE Progress'
  <2>1. row \in Terminal
    BY <1>6 DEF CancelJob, Interrupts, Canceling
  <2> QED
    BY <1>6, <2>1 DEF CancelJob, Terminal, Progress, Built, Clean, Whole, Intact, JobOpen, fixed, history, resVars, workVars
<1>7. ASSUME NEW c \in Callers, CancelTearDown(c) PROVE Progress'
  <2>1. row \in Terminal
    BY <1>7 DEF CancelTearDown, Interrupts, Canceling
  <2>2. ~token' /\ (container' => container)
    BY <1>7 DEF CancelTearDown
  <2>3. UNCHANGED <<kind, row, job, branch, pc, verdict>>
    BY <1>7 DEF CancelTearDown, fixed, history, runVars, workVars
  <2> QED
    BY <2>1, <2>2, <2>3 DEF Terminal, Progress, Built, Clean, Whole, Intact, JobOpen
<1>11. ASSUME NEW c \in Callers, CancelRemoveAll(c) PROVE Progress'
  <2>1. row \in Terminal
    BY <1>11 DEF CancelRemoveAll, Interrupts, Canceling
  <2> QED
    BY <1>11, <2>1 DEF CancelRemoveAll, Terminal, Progress, Built, Clean, Whole, Intact, JobOpen, fixed, runVars, workVars
<1>8. CASE Spawn \/ MarkRunFinishing \/ ReapTearDown \/ ReapFinish
  <2>1. Nobody /\ UNCHANGED pc
    BY <1>8 DEF Spawn, MarkRunFinishing, ReapTearDown, ReapFinish, Alone, workVars
  <2> QED
    BY <2>1, ProgressIdle DEF Nobody, Busy
<1>9. CASE ReapList \/ GrowOld \/ LeaseExpires \/ (\E t \in Turns : TurnExpires(t)) \/ Shutdown \/ Exit \/ UNCHANGED vars
  BY <1>3, <1>9 DEF ReapList, GrowOld, LeaseExpires, TurnExpires, Shutdown, Exit, vars, fixed, history, runVars, workVars
<1>10. CASE Crash \/ Startup
  <2>1. Nobody'
    BY <1>10 DEF Crash, Startup, Sweep, Alone, Nobody, Busy, workVars
  <2> QED
    BY <2>1, ProgressIdle
<1> QED
  BY <1>1, <1>2, <1>4, <1>5, <1>6, <1>7, <1>8, <1>9, <1>10, <1>11 DEF Next, Answer, Reap

-----------------------------------------------------------------------------
(* The row and the resources                                               *)

LEMMA ResourcesStep ==
    TypeOK /\ Calm /\ Mild /\ Alone /\ Interrupts /\ Progress /\ Resources /\ [Next]_vars => Resources'
<1> SUFFICES ASSUME TypeOK, Calm, Mild, Alone, Interrupts, Progress, Resources, [Next]_vars PROVE Resources'
  OBVIOUS
<1> USE DEF Resources, Clean, Whole, Intact, JobOpen, fixed, history, runVars, resVars
<1>1. ASSUME NEW w \in Workers, Work(w) PROVE Resources'
  <2>1. reaper' = "idle" /\ row \in {"running", "canceled"} /\ UNCHANGED kind
    BY <1>1, WorkStep DEF Alone, Nobody, Terminal
  <2>2. Built(pc[w], verdict[w])
    BY DEF Progress
  <2>3. ASSUME UNCHANGED row, ~Clean' => job' # "absent" PROVE Resources'
    BY <2>1, <2>3 DEF Terminal
  <2>4. ASSUME UNCHANGED <<row, job, container, token>> PROVE Resources'
    BY <2>3, <2>4
  <2>5. CASE CreateAgentJob(w) \/ FinalizeVerify(w) \/ ReportHandoff(w)
    BY <2>3, <2>4, <2>5 DEF CreateAgentJob, FinalizeVerify, ReportHandoff
  <2>6. CASE MintToken(w)
    BY <2>2, <2>3, <2>6 DEF MintToken, Built
  <2>7. CASE OpenSession(w)
    BY <2>2, <2>3, <2>7 DEF OpenSession, Built
  <2>8. CASE CreateAgentJobFails(w) \/ DispatchFails(w)
    BY <2>8, NoFault DEF CreateAgentJobFails, DispatchFails
  <2>9. CASE TearDownAgent(w)
    <3>1. ~container' /\ ~token' /\ UNCHANGED row
      BY <2>9 DEF TearDownAgent, TearDown
    <3> QED
      BY <2>3, <3>1
  <2>10. CASE Park(w)
    <3>1. UNCHANGED <<job, container, token, workspace, left>>
      BY <2>10 DEF Park
    <3>2. CASE row = "running"
      BY <2>1, <2>2, <2>10, <3>1, <3>2 DEF Park, Built, Terminal
    <3>3. CASE row # "running"
      BY <2>4, <2>10, <3>1, <3>3 DEF Park
    <3> QED
      BY <3>2, <3>3
  <2>11. CASE FinishAgentRun(w)
    BY <2>1, <2>2, <2>11 DEF FinishAgentRun, Built, TypeOK
  <2>12. CASE Abort(w)
    BY <2>1, <2>2, <2>12 DEF Abort, Built
  <2> QED
    BY <1>1, <2>4, <2>5, <2>6, <2>7, <2>8, <2>9, <2>10, <2>11, <2>12 DEF Work, SetupFails, Workspace,
       RegisterTurn, RunTurn, AfterTurn, DispatchTurn, ReadWorkspace, CommitBranch
<1>2. ASSUME NEW w \in Workers, Claim(w) PROVE Resources'
  BY <1>2, ClaimStep DEF Free, Terminal
<1>3. ASSUME NEW c \in Callers, AskTurn(c) \/ CancelFlag(c) \/ EnqueueTurnFails(c)
                                 \/ \E t \in Turns : EnqueueTurn(c, t) PROVE Resources'
  BY <1>3 DEF AskTurn, CancelFlag, EnqueueTurnFails, EnqueueTurn
<1>4. ASSUME NEW c \in Callers, CancelCAS(c) PROVE Resources'
  BY <1>4 DEF CancelCAS, Terminal
<1>5. ASSUME NEW c \in Callers, CancelJob(c) PROVE Resources'
  <2>1. row \in Terminal
    BY <1>5 DEF CancelJob, Interrupts, Canceling
  <2> QED
    BY <1>5, <2>1 DEF CancelJob, Terminal
<1>6. ASSUME NEW c \in Callers, CancelTearDown(c) PROVE Resources'
  <2>1. row \in Terminal
    BY <1>6 DEF CancelTearDown, Interrupts, Canceling
  <2>2. ~token' /\ (container' => container)
    BY <1>6 DEF CancelTearDown
  <2>3. UNCHANGED <<kind, server, row, job, branch, reaper>>
    BY <1>6 DEF CancelTearDown
  <2> QED
    BY <2>1, <2>2, <2>3 DEF Terminal
<1>14. ASSUME NEW c \in Callers, CancelRemoveAll(c) PROVE Resources'
  <2>1. row \in Terminal
    BY <1>14 DEF CancelRemoveAll, Interrupts, Canceling
  <2> QED
    BY <1>14, <2>1 DEF CancelRemoveAll, Terminal
<1>7. CASE Spawn \/ MarkRunFinishing
  BY <1>7 DEF Spawn, MarkRunFinishing, Terminal
<1>8. CASE ReapList
  BY <1>8 DEF ReapList
<1>9. CASE ReapTearDown
  <2>1. ~container' /\ ~token' /\ workspace' = "none" /\ reaper' = "torn"
    BY <1>9 DEF ReapTearDown, TearDown
  <2>2. UNCHANGED <<kind, server, row, job, branch>>
    BY <1>9 DEF ReapTearDown
  <2> QED
    BY <2>1, <2>2
<1>10. CASE ReapFinish
  BY <1>10 DEF ReapFinish, Terminal
<1>11. CASE GrowOld \/ LeaseExpires \/ \E t \in Turns : TurnExpires(t)
  BY <1>11 DEF GrowOld, LeaseExpires, TurnExpires
<1>12. CASE Shutdown \/ Exit \/ Crash \/ UNCHANGED vars
  BY <1>12 DEF Shutdown, Exit, Crash, vars
<1>13. CASE Startup
  <2>1. ~container' /\ ~token'
    BY <1>13 DEF Startup, Sweep
  <2>2. reaper' = "idle" /\ UNCHANGED <<kind, workspace, branch>>
    BY <1>13 DEF Startup, Sweep, Alone
  <2>3. /\ row' = IF row \in {"running", "awaiting_input", "finishing"} THEN "interrupted" ELSE row
        /\ job' = IF row \in {"running", "awaiting_input", "finishing"} /\ job \in {"queued", "running"}
                  THEN "interrupted" ELSE job
    BY <1>13 DEF Startup, Sweep
  <2> QED
    BY <2>1, <2>2, <2>3 DEF Terminal
<1> QED
  BY <1>1, <1>2, <1>3, <1>4, <1>5, <1>6, <1>7, <1>8, <1>9, <1>10, <1>11, <1>12, <1>13, <1>14 DEF Next, Answer, Reap

\* What a finished run leaves has somebody to drop it.
LEMMA AttendedStep ==
    TypeOK /\ Calm /\ Mild /\ Alone /\ Interrupts /\ Progress /\ Resources /\ Stopped /\ Attended /\ [Next]_vars
        => Attended'
<1> SUFFICES ASSUME TypeOK, Calm, Mild, Alone, Interrupts, Progress, Resources, Stopped, Attended, [Next]_vars
             PROVE  Attended'
  OBVIOUS
<1> USE DEF Clean, JobOpen
<1>1. ASSUME NEW w \in Workers, Work(w) PROVE Attended'
  <2>1. Busy(w) /\ Others(w) /\ UNCHANGED <<server, op, sawJob, crashes>>
    BY <1>1, WorkStep DEF webVars
  <2>2. Built(pc[w], verdict[w]) /\ pc \in [Workers -> Steps] /\ flag \in [Workers -> BOOLEAN]
    BY DEF Progress, TypeOK
  <2>3. ASSUME Tidies(w)' PROVE Attended'
    BY <2>3 DEF Attended
  <2>4. ASSUME pc[w] \notin {"turn", "ended", "broken"}, UNCHANGED flag, pc'[w] # "idle" PROVE Attended'
    BY <2>3, <2>4 DEF Interrupts, Tidies, Busy
  <2>5. ASSUME UNCHANGED <<row, job, container, token>>, Tidies(w) => Tidies(w)' PROVE Attended'
    BY <2>1, <2>5 DEF Attended, Tidies, Busy, Others, Sweeps
  <2>6. ASSUME ~container', ~token', row' # "canceled" PROVE Attended'
    BY <2>6 DEF Attended
  <2> USE DEF Goto, Conclude, runVars, resVars
  <2>7. CASE SetupFails(w) \/ Workspace(w) \/ CreateAgentJob(w) \/ FinalizeVerify(w) \/ DispatchTurn(w) \/ ReadWorkspace(w) \/ CommitBranch(w) \/ ReportHandoff(w)
    BY <2>2, <2>4, <2>7 DEF SetupFails, Workspace, CreateAgentJob, FinalizeVerify, DispatchTurn, ReadWorkspace, CommitBranch, ReportHandoff
  <2>8. CASE MintToken(w)
    <3>1. pc[w] = "mint" /\ UNCHANGED flag /\ pc'[w] # "idle"
      BY <2>2, <2>8 DEF MintToken
    <3> QED
      BY <2>4, <3>1
  <2>9. CASE OpenSession(w)
    <3>1. pc[w] = "open" /\ UNCHANGED flag /\ pc'[w] # "idle"
      BY <2>2, <2>9 DEF OpenSession
    <3> QED
      BY <2>4, <3>1
  <2>10. CASE CreateAgentJobFails(w) \/ DispatchFails(w)
    BY <2>10, NoFault DEF CreateAgentJobFails, DispatchFails
  <2>11. CASE RegisterTurn(w)
    BY <2>2, <2>3, <2>11 DEF RegisterTurn, Tidies, Busy
  <2>12. CASE RunTurn(w)
    BY <2>2, <2>5, <2>12 DEF RunTurn, Tidies, Busy
  <2>13. CASE AfterTurn(w)
    BY <2>2, <2>5, <2>13 DEF AfterTurn, Tidies, Busy
  <2>14. CASE Park(w)
    <3>1. CASE row = "running"
      BY <2>14, <3>1 DEF Park, Attended, Terminal
    <3>2. CASE row # "running"
      BY <2>2, <2>4, <2>14, <3>2 DEF Park
    <3> QED
      BY <3>1, <3>2
  <2>15. CASE TearDownAgent(w)
    BY <2>2, <2>4, <2>15 DEF TearDownAgent
  <2>16. CASE FinishAgentRun(w) \/ Abort(w)
    BY <2>2, <2>6, <2>16 DEF FinishAgentRun, Abort, Built, TypeOK
  <2> QED
    BY <1>1, <2>7, <2>8, <2>9, <2>10, <2>11, <2>12, <2>13, <2>14, <2>15, <2>16 DEF Work
<1>2. ASSUME NEW w \in Workers, Claim(w) PROVE Attended'
  BY <1>2, ClaimStep DEF Attended, Terminal
<1> USE DEF runVars, resVars, workVars, webVars
<1>3. ASSUME UNCHANGED <<server, row, job, container, token, pc, flag, crashes>>,
             \A c \in Callers : op'[c] \in {"idle", "post"} => op[c] \in {"idle", "post"},
             \A c \in Callers : op[c] \in {"flag", "job", "teardown"} => op'[c] = op[c] /\ sawJob'[c] = sawJob[c]
      PROVE  Attended'
  BY <1>3 DEF Attended, Tidies, Busy, Sweeps
<1>4. ASSUME NEW c \in Callers, AskTurn(c) \/ EnqueueTurnFails(c) \/ \E t \in Turns : EnqueueTurn(c, t)
      PROVE  Attended'
  BY <1>4 DEF AskTurn, EnqueueTurnFails, EnqueueTurn, TypeOK, Attended, Tidies, Busy, Sweeps
<1>5. ASSUME NEW c \in Callers, CancelCAS(c) \/ CancelFlag(c) PROVE Attended'
  <2>1. op'[c] \in {"flag", "job"}
    BY <1>5 DEF CancelCAS, CancelFlag, TypeOK
  <2> QED
    BY <2>1 DEF Attended, Sweeps
<1>6. ASSUME NEW c \in Callers, CancelJob(c) PROVE Attended'
  <2>1. /\ op'[c] = "teardown" /\ (sawJob'[c] <=> job # "absent")
        /\ ~JobOpen'
    BY <1>6 DEF CancelJob, TypeOK
  <2>2. UNCHANGED <<container, token>>
    BY <1>6 DEF CancelJob
  <2> QED
    BY <2>1, <2>2 DEF Attended, Sweeps, Resources
<1>7. ASSUME NEW c \in Callers, CancelTearDown(c) PROVE Attended'
  <2>1. /\ op[c] = "teardown"
        /\ \A d \in Callers \ {c} : op'[d] = op[d] /\ sawJob'[d] = sawJob[d]
        /\ UNCHANGED <<server, row, job, pc, flag, crashes>>
    BY <1>7 DEF CancelTearDown, TypeOK
  <2>2. ~token' /\ (container' => container /\ ~sawJob[c])
    BY <1>7 DEF CancelTearDown
  <2> QED
    BY <2>1, <2>2 DEF Attended, Tidies, Busy, Sweeps
<1>14. ASSUME NEW c \in Callers, CancelRemoveAll(c) PROVE Attended'
  BY <1>14 DEF CancelRemoveAll, TypeOK, Attended, Tidies, Busy, Sweeps
<1>8. CASE Spawn \/ MarkRunFinishing
  BY <1>8 DEF Spawn, MarkRunFinishing, Attended, Terminal
<1>9. CASE ReapTearDown
  <2>1. ~container' /\ ~token'
    BY <1>9 DEF ReapTearDown, TearDown
  <2>2. UNCHANGED <<row, job, pc, flag, op, crashes>>
    BY <1>9 DEF ReapTearDown
  <2> QED
    BY <2>1, <2>2 DEF Attended, Tidies, Busy
<1>10. CASE ReapFinish
  BY <1>10 DEF ReapFinish, Resources, Attended
<1>11. CASE ReapList \/ GrowOld \/ LeaseExpires \/ (\E t \in Turns : TurnExpires(t)) \/ UNCHANGED vars
  BY <1>11 DEF ReapList, GrowOld, LeaseExpires, TurnExpires, vars, Attended, Tidies, Busy, Sweeps
<1>12. CASE Shutdown \/ Exit \/ Crash
  BY <1>12 DEF Shutdown, Exit, Crash, Stopped, TypeOK, Attended, Tidies, Busy, Sweeps
<1>13. CASE Startup
  <2>1. ~container' /\ ~token'
    BY <1>13 DEF Startup, Sweep
  <2>2. (row' = "canceled" => row = "canceled" /\ job' = job) /\ UNCHANGED <<pc, flag, op, crashes>>
    BY <1>13 DEF Startup, Sweep
  <2> QED
    BY <2>1, <2>2 DEF Attended, Tidies, Busy
<1> QED
  BY <1>1, <1>2, <1>4, <1>5, <1>6, <1>7, <1>8, <1>9, <1>10, <1>11, <1>12, <1>13, <1>14 DEF Next, Answer, Reap

LEMMA StoppedStep == TypeOK /\ Stopped /\ [Next]_vars => Stopped'
<1> SUFFICES ASSUME TypeOK, Stopped, [Next]_vars PROVE Stopped'
  OBVIOUS
<1> USE DEF Stopped
<1>1. ASSUME NEW w \in Workers, Work(w) \/ Claim(w) PROVE Stopped'
  BY <1>1, WorkStep, ClaimStep
<1>2. ASSUME NEW c \in Callers, AskTurn(c) \/ CancelCAS(c) \/ Answer(c) PROVE Stopped'
  BY <1>2 DEF AskTurn, CancelCAS, Answer, CancelFlag, CancelJob, CancelTearDown, CancelRemoveAll,
     EnqueueTurnFails, EnqueueTurn
<1>3. CASE Spawn \/ MarkRunFinishing \/ Reap \/ GrowOld \/ LeaseExpires \/ \E t \in Turns : TurnExpires(t)
  BY <1>3 DEF Spawn, MarkRunFinishing, Reap, ReapList, ReapTearDown, ReapFinish, GrowOld, LeaseExpires, TurnExpires
<1>4. CASE Shutdown \/ Exit \/ Crash \/ Startup \/ UNCHANGED vars
  BY <1>4 DEF Shutdown, Exit, Crash, Startup, Sweep, TypeOK, vars
<1> QED
  BY <1>1, <1>2, <1>3, <1>4 DEF Next

-----------------------------------------------------------------------------
(* From the last turn to the branch                                        *)

\* No goroutine, no branch to speak of.
LEMMA CarriedIdle == ASSUME NEW v, NEW x PROVE Carried("idle", v, x)
  BY DEF Carried

\* What the turns left reaches the branch as long as no cancel was accepted.
LEMMA KeptStep ==
    TypeOK /\ Calm /\ Mild /\ Alone /\ Interrupts /\ Progress /\ Resources /\ Kept /\ [Next]_vars => Kept'
<1> SUFFICES ASSUME TypeOK, Calm, Mild, Alone, Interrupts, Progress, Resources, Kept, [Next]_vars PROVE Kept'
  OBVIOUS
<1> USE DEF Intact, Handed, fixed, history, runVars, resVars, workVars, webVars
<1>1. ASSUME NEW w \in Workers, Work(w) PROVE Kept'
  <2>1. Busy(w) /\ Others(w) /\ UNCHANGED <<kind, server, reaper, op, withdrawn>>
    BY <1>1, WorkStep, WorkHistory
  <2>2. \A c \in Callers : Canceling(c)' => withdrawn'
    BY <2>1 DEF Kept, Canceling
  <2> SUFFICES ASSUME kind = "agent", ~withdrawn
               PROVE  /\ \A v \in Workers : Carried(pc[v], verdict[v], tree[v])'
                      /\ row' \in {"absent", "queued", "awaiting_input", "finishing"} => branch' = "none"
                      /\ row' \in {"awaiting_input", "finishing"} => Intact'
                      /\ row' = "success" => Handed'
    BY <2>1, <2>2 DEF Kept
  <2>3. /\ Carried(pc[w], verdict[w], tree[w]) /\ Built(pc[w], verdict[w])
        /\ row \in {"running", "canceled"}
    BY <2>1 DEF Kept, Progress, Alone, Nobody
  <2>4. \A v \in Workers \ {w} : Carried(pc[v], verdict[v], tree[v])'
    <3> SUFFICES ASSUME NEW v \in Workers \ {w} PROVE pc'[v] = "idle"
      BY DEF Carried
    <3> QED
      BY <2>1 DEF Alone, Busy, Others
  <2>5. /\ pc \in [Workers -> Steps] /\ tree \in [Workers -> Trees]
        /\ verdict \in [Workers -> {"error", "failed", "success"}]
    BY DEF TypeOK
  <2>6. ASSUME UNCHANGED row, Carried(pc[w], verdict[w], tree[w])'
        PROVE  /\ \A v \in Workers : Carried(pc[v], verdict[v], tree[v])'
               /\ row' \in {"absent", "queued", "awaiting_input", "finishing"} => branch' = "none"
               /\ row' \in {"awaiting_input", "finishing"} => Intact'
               /\ row' = "success" => Handed'
    BY <2>3, <2>4, <2>6
  <2>7. ASSUME Conclude(w, "error") PROVE Carried(pc[w], verdict[w], tree[w])'
    BY <2>5, <2>7 DEF Conclude, Goto, Carried
  <2>8. ASSUME UNCHANGED branch, pc[w] \notin {"idle", "report", "teardown", "finish"},
               pc'[w] \notin {"handoff", "commit", "report", "teardown", "finish"}
        PROVE  Carried(pc[w], verdict[w], tree[w])'
    BY <2>3, <2>8 DEF Carried
  <2> USE DEF Goto
  <2>9. CASE SetupFails(w) \/ Workspace(w) \/ CreateAgentJob(w) \/ RegisterTurn(w) \/ RunTurn(w) \/ DispatchTurn(w)
    BY <2>5, <2>6, <2>8, <2>9 DEF SetupFails, Workspace, CreateAgentJob, RegisterTurn, RunTurn, DispatchTurn
  <2>10. CASE CreateAgentJobFails(w) \/ DispatchFails(w)
    BY <2>10, NoFault DEF CreateAgentJobFails, DispatchFails
  <2>11. CASE MintToken(w)
    BY <2>5, <2>6, <2>7, <2>8, <2>11 DEF MintToken
  <2>12. CASE OpenSession(w)
    BY <2>5, <2>6, <2>7, <2>8, <2>12 DEF OpenSession
  <2>13. CASE AfterTurn(w)
    <3>1. ASSUME Done(w) PROVE Carried(pc[w], verdict[w], tree[w])'
      BY <2>5, <3>1 DEF Done, Carried
    <3> QED
      BY <2>5, <2>6, <2>7, <2>8, <2>13, <3>1 DEF AfterTurn
  <2>14. CASE Park(w)
    <3>1. CASE row = "running"
      <4>1. pc[w] = "park" /\ pc'[w] = "idle" /\ UNCHANGED <<branch, workspace, left>> /\ row' = "awaiting_input"
        BY <2>5, <2>14, <3>1 DEF Park, Done
      <4>2. Intact /\ branch = "none"
        BY <2>3, <3>1, <4>1 DEF Built, Whole, Carried
      <4>3. Carried(pc[w], verdict[w], tree[w])'
        BY <4>1 DEF Carried
      <4> QED
        BY <2>4, <4>1, <4>2, <4>3
    <3>2. CASE row # "running"
      BY <2>6, <2>7, <2>14, <3>2 DEF Park
    <3> QED
      BY <3>1, <3>2
  <2>15. CASE FinalizeVerify(w)
    BY <2>3, <2>15 DEF FinalizeVerify, Built
  <2>16. CASE ReadWorkspace(w)
    BY <2>3, <2>5, <2>6, <2>7, <2>16 DEF ReadWorkspace, Carried
  <2>17. CASE CommitBranch(w)
    BY <2>3, <2>5, <2>6, <2>7, <2>17 DEF CommitBranch, Carried
  <2>18. CASE ReportHandoff(w)
    BY <2>3, <2>5, <2>6, <2>18 DEF ReportHandoff, Conclude, Carried
  <2>19. CASE TearDownAgent(w)
    <3>1. pc[w] = "teardown" /\ pc'[w] = "finish" /\ UNCHANGED <<row, branch, left, verdict>>
      BY <2>5, <2>19 DEF TearDownAgent
    <3> QED
      BY <2>3, <2>6, <3>1 DEF Carried
  <2>20. CASE FinishAgentRun(w) \/ Abort(w)
    <3>1. pc'[w] = "idle" /\ UNCHANGED <<branch, left>>
      BY <2>5, <2>20 DEF FinishAgentRun, Abort, Done
    <3>2. row' \in {"error", "failed", "success"}
      BY <2>5, <2>20 DEF FinishAgentRun, Abort
    <3>3. row' = "success" => pc[w] = "finish" /\ verdict[w] = "success"
      BY <2>5, <2>20 DEF FinishAgentRun, Abort
    <3> QED
      BY <2>3, <2>4, <3>1, <3>2, <3>3 DEF Carried
  <2> QED
    BY <1>1, <2>9, <2>10, <2>11, <2>12, <2>13, <2>14, <2>15, <2>16, <2>17, <2>18, <2>19, <2>20 DEF Work
<1>2. ASSUME NEW w \in Workers, Claim(w) PROVE Kept'
  <2>1. /\ Free(w) /\ Others(w) /\ row' = "running"
        /\ UNCHANGED <<kind, server, branch, workspace, left, withdrawn, op>>
    BY <1>2, ClaimStep, ClaimHistory
  <2>2. Nobody /\ row \in {"queued", "awaiting_input", "finishing"}
    BY <1>2 DEF Claim, ClaimRun, ClaimNextFinishingRun, ClaimNextTurn, Dispatchable, Mild, Alone
  <2>3. ASSUME kind = "agent", ~withdrawn PROVE Carried(pc[w], verdict[w], tree[w])'
    <3>1. branch = "none"
      BY <2>2, <2>3 DEF Kept
    <3>2. pc \in [Workers -> Steps]
      BY DEF TypeOK
    <3>3. CASE ClaimRun(w)
      BY <2>1, <3>1, <3>2, <3>3 DEF ClaimRun, Goto, Carried
    <3>4. CASE ClaimNextFinishingRun(w)
      BY <2>1, <2>3, <3>1, <3>2, <3>4 DEF ClaimNextFinishingRun, Free, Goto, Carried, Kept
    <3>5. ASSUME NEW t \in Turns, ClaimNextTurn(w, t) PROVE Carried(pc[w], verdict[w], tree[w])'
      BY <2>1, <3>1, <3>2, <3>5 DEF ClaimNextTurn, Goto, Carried
    <3> QED
      BY <1>2, <3>3, <3>4, <3>5 DEF Claim
  <2>4. ASSUME NEW v \in Workers \ {w} PROVE pc'[v] = "idle"
    BY <2>1, <2>2 DEF Nobody, Busy, Others
  <2> QED
    BY <2>1, <2>3, <2>4 DEF Kept, Canceling, Carried
<1>3. ASSUME UNCHANGED <<kind, branch, workspace, pc, verdict, tree, left, withdrawn>>,
             \A c \in Callers : Canceling(c)' => Canceling(c),
             row' \in {"absent", "queued", "awaiting_input", "finishing"} =>
                 row \in {"absent", "queued", "awaiting_input", "finishing"},
             row' \in {"awaiting_input", "finishing"} /\ reaper' = "idle" /\ server' # "down" =>
                 row \in {"awaiting_input", "finishing"} /\ reaper = "idle" /\ server # "down",
             row' = "success" => row = "success"
      PROVE  Kept'
  BY <1>3 DEF Kept, Carried
<1>4. ASSUME NEW c \in Callers, AskTurn(c) \/ CancelFlag(c) \/ CancelJob(c) \/ EnqueueTurnFails(c)
                                 \/ \E t \in Turns : EnqueueTurn(c, t) PROVE Kept'
  BY <1>3, <1>4 DEF AskTurn, CancelFlag, CancelJob, EnqueueTurnFails, EnqueueTurn, Canceling, TypeOK
<1>5. ASSUME NEW c \in Callers, CancelCAS(c) PROVE Kept'
  BY <1>5 DEF CancelCAS, Kept
<1>6. ASSUME NEW c \in Callers, CancelTearDown(c) \/ CancelRemoveAll(c) PROVE Kept'
  <2>1. withdrawn /\ withdrawn'
    BY <1>6 DEF CancelTearDown, CancelRemoveAll, Kept, Canceling
  <2> QED
    BY <2>1 DEF Kept
<1>7. CASE Spawn \/ MarkRunFinishing \/ ReapList \/ GrowOld \/ LeaseExpires \/ (\E t \in Turns : TurnExpires(t))
           \/ Shutdown \/ UNCHANGED vars
  BY <1>3, <1>7 DEF Spawn, MarkRunFinishing, ReapList, GrowOld, LeaseExpires, TurnExpires, Shutdown, vars, Canceling
<1>8. CASE ReapTearDown
  <2>1. \A w \in Workers : pc'[w] = "idle"
    BY <1>8 DEF ReapTearDown, Alone, Nobody, Busy
  <2> QED
    BY <1>8, <2>1 DEF ReapTearDown, TearDown, Kept, Canceling, Carried
<1>9. CASE ReapFinish
  BY <1>3, <1>9 DEF ReapFinish, Canceling
<1>10. CASE Exit
  BY <1>10 DEF Exit, Kept, Canceling, Carried
<1>11. CASE Crash
  BY <1>11 DEF Crash, Kept, Canceling, Carried
<1>12. CASE Startup
  BY <1>3, <1>12 DEF Startup, Sweep, Canceling
<1> QED
  BY <1>1, <1>2, <1>4, <1>5, <1>6, <1>7, <1>8, <1>9, <1>10, <1>11, <1>12 DEF Next, Answer, Reap

LEMMA Start == Init => IInv
<1> SUFFICES ASSUME Init PROVE IInv
  OBVIOUS
<1>1. TypeOK
  BY DEF Init, TypeOK, RunStatus, JobRow, Steps, Trees
<1>2. Mild /\ Alone /\ Interrupts /\ Progress
  BY NoWorkerAssumption DEF Init, Mild, Alone, Nobody, Busy, Interrupts, Canceling, Progress, Built
<1>3. Resources /\ Stopped /\ Attended
  BY DEF Init, Resources, Clean, Stopped, Attended, Terminal
<1>4. Kept
  BY DEF Init, Kept, Canceling, Carried
<1> QED
  BY <1>1, <1>2, <1>3, <1>4 DEF IInv, CalmInv

LEMMA Invariance == Spec => []IInv
<1>1. IInv /\ [Next]_vars => IInv'
  BY TypeStep, CalmStays, MildStep, AloneStep, InterruptsStep, ProgressStep, ResourcesStep,
     StoppedStep, AttendedStep, KeptStep
  DEF IInv, CalmInv
<1> QED
  BY Start, <1>1, PTL DEF Spec

-----------------------------------------------------------------------------
(* The theorems                                                            *)

\* Every variable of AgentRun keeps its type, also when calls fail and leases
\* run out.
THEOREM TypeCorrect == Spec => []TypeOK
<1>1. IInv => TypeOK
  BY DEF IInv
<1> QED
  BY Invariance, <1>1, PTL

\* However many slots, handlers, turns, cancels, shutdowns and crashes there are,
\* at most one goroutine drives the run (ClaimNextRunOfKind, ClaimNextTurn,
\* ClaimNextFinishingRun).
THEOREM DriverIsAlone == Spec => []OneDriver
<1>1. IInv => OneDriver
  BY DEF IInv, CalmInv, Alone, Busy, OneDriver
<1> QED
  BY Invariance, <1>1, PTL

\* At rest a run is whole or gone: a parked one can be resumed, an ended one has
\* no container, no token and no open job (tearDownAgent, CancelAgentRun, the
\* lifetime reaper and the startup sweep, in every order).
THEOREM RestIsWholeOrGone == Spec => []WholeOrGone
<1>1. IInv => WholeOrGone
  <2> SUFFICES ASSUME TypeOK, Calm, CalmInv PROVE TerminalIsClean /\ NoStuckJob /\ ParkedIsWhole
    BY DEF IInv, WholeOrGone
  <2>1. Quiet => ~(\E w \in Workers : Tidies(w)) /\ ~(\E c \in Callers : Sweeps(c))
                 /\ ~(\E c \in Callers : op[c] \in {"flag", "job"}) /\ server # "down"
    BY DEF Quiet, Tidies, Busy, Sweeps
  <2>2. TerminalIsClean
    BY <2>1 DEF CalmInv, Attended, Clean, TerminalIsClean
  <2>3. NoStuckJob
    BY <2>1 DEF CalmInv, Attended, Resources, JobOpen, NoStuckJob, Terminal
  <2>4. ParkedIsWhole
    BY DEF CalmInv, Alone, Nobody, Busy, Resources, Whole, Intact, ParkedIsWhole
  <2> QED
    BY <2>2, <2>3, <2>4
<1> QED
  BY Invariance, <1>1, PTL

\* A success of an agent run that nobody cancelled has what its last turn left on
\* its branch, whole, although the workspace was shared with the reaper, restarts
\* and a handoff of several steps (finishAgentRun, materializeAgentBranch).
THEOREM SuccessIsCommitted == Spec => []SuccessHasBranch
<1>1. IInv => SuccessHasBranch
  BY DEF IInv, CalmInv, Kept, Handed, SuccessHasBranch
<1> QED
  BY Invariance, <1>1, PTL

\* A finished run never becomes active again (ClaimNextTurn, MarkRunAwaitingInput,
\* ReconcileOrphanRuns).
THEOREM FinishedIsFinal == Spec => NeverResurrected
<1>1. IInv /\ [Next]_vars => [Calm /\ row \in Terminal => row' \in Terminal]_vars
  BY StaysFinished DEF IInv, CalmInv
<1> QED
  BY Invariance, <1>1, PTL DEF Spec, NeverResurrected
=============================================================================
