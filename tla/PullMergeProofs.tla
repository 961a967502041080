--------------------------- MODULE PullMergeProofs ---------------------------
(***************************************************************************)
(* For any number of pull requests, workers, commits and failures: rows    *)
(* have frozen tips exactly when they are merged, no server-side write     *)
(* loses a commit, on a protected base what is marked merged is in it, and *)
(* the tip of the base is built unless a call failed.                      *)
(*                                                                         *)
(* The argument: a protected base only grows, because every writer of the  *)
(* ref compares and swaps and writes a descendant of what it compares      *)
(* with.  So what a worker has found to be in the base stays in it.  And   *)
(* whoever moves the base carries the new tip to enqueueRefRun.            *)
(***************************************************************************)
EXTENDS PullMerge, TLAPS

\* What a step of the handlers has established about its own job.
Shaped(j) ==
    /\ j.at \in {"gate", "head", "join", "verify", "mark", "close", "automark", "spec"}
         => j.pull \in Pulls
    /\ j.at \in {"join", "verify", "mark", "close", "automark"} => j.head # None
    /\ j.at = "spec" => j.old \subseteq j.head

\* What it has established about a protected base b.
Backed(j, b) ==
    /\ j.at \in {"head", "join"} => j.old \subseteq b
    /\ j.at \in {"verify", "mark", "close", "automark"} => Changes(j.head) \subseteq Changes(b)
    /\ j.at \in {"list", "scan", "automark"} => j.new \subseteq b
    /\ j.at = "receive" => j.new # None /\ (j.old = None \/ j.old \subseteq j.new)

Shape == \A w \in Workers : Shaped(work[w])

Joined ==
    Protected => /\ base # None
                 /\ \A p \in Pulls : Changes(pull[p].head) \subseteq Changes(base)
                 /\ \A w \in Workers : Backed(work[w], base)

\* The inductive invariant.
IInv == TypeOK /\ Shape /\ Joined

\* A worker on its way to enqueueRefRun with the commit b.
Carries(j, b) ==
    /\ b # None /\ j.new = b
    /\ j.at \in {"verify", "mark", "close", "list", "scan", "automark", "supersede", "enqueue"}

\* A fast-forward carries the head; unless a call failed, a tip no run was queued
\* for is carried by some worker, and a worker that superseded every run is about
\* to queue one.
Verified == \A w \in Workers : work[w].at = "verify" => work[w].new = work[w].head
TipCarried == base # None /\ ~queued => \E w \in Workers : Carries(work[w], base)
Restarted == active = {} => \E w \in Workers : work[w].at = "enqueue"
Pending == Verified /\ (faults = 0 => TipCarried /\ Restarted)

-----------------------------------------------------------------------------
(* Facts about commits                                                     *)

\* A descendant contains the changes of its ancestors.
LEMMA ChangesGrow ==
    ASSUME NEW c, NEW d, c \subseteq d
    PROVE  Changes(c) \subseteq Changes(d)
  BY DEF Changes

LEMMA NoChanges == Changes(None) = {}
  BY DEF Changes, None

\* A rebase brings the changes of the head although not its commits.
LEMMA RebaseCarries ==
    ASSUME NEW b \in Commit, NEW h \in Commit, NEW k
    PROVE  Changes(h) \subseteq Changes(rebaseOnto(b, h, k))
<1> DEFINE R == {<<e[1], k>> : e \in {f \in h \ b : f[1] # 0}}
<1> SUFFICES ASSUME NEW x \in Changes(h) PROVE x \in Changes(b \cup R)
  BY DEF rebaseOnto
<1>1. PICK e \in h : x = e[1] /\ x # 0
  BY DEF Changes
<1>2. CASE e \in b
  BY <1>1, <1>2 DEF Changes
<1>3. CASE e \notin b
  <2>1. <<e[1], k>> \in R
    BY <1>1, <1>3
  <2>2. <<e[1], k>>[1] = x
    BY <1>1
  <2> QED
    BY <1>1, <2>1, <2>2 DEF Changes
<1> QED
  BY <1>2, <1>3

\* The commits that are written have their type.
LEMMA StampTyped ==
    ASSUME TypeOK, stamp < MaxStamp
    PROVE  /\ Stamp \in 1..MaxStamp
           /\ <<Stamp, Stamp>> \in Entry
           /\ <<0, Stamp>> \in Entry
           /\ \A e \in Entry : <<e[1], Stamp>> \in Entry
<1>1. Stamp \in 1..MaxStamp
  BY StampAssumption DEF TypeOK, Stamp
<1>2. 0 \in 0..MaxStamp /\ Stamp \in 0..MaxStamp
  BY <1>1, StampAssumption
<1> QED
  BY <1>1, <1>2 DEF Entry

LEMMA RootTyped == Root \in Commit
  BY StampAssumption DEF Root, Commit, Entry

-----------------------------------------------------------------------------
(* Types and shapes                                                        *)

Jobs == [at: Steps, pull: Pulls \cup {NoPull}, old: Commit, head: Commit,
         new: Commit, todo: SUBSET Pulls]

LEMMA IdleTyped ==
    Idle \in Jobs /\ Shaped(Idle)
  BY DEF Idle, Jobs, Job, Steps, Commit, None, Shaped

\* A step that only changes one job.
LEMMA JobStep ==
    ASSUME TypeOK, Shape, NEW w \in Workers,
           UNCHANGED <<refs, rows, runs, stamp>>, faults' \in 0..MaxFaults,
           work'[w] \in Jobs, Shaped(work'[w]),
           work' = [work EXCEPT ![w] = work'[w]]
    PROVE  TypeOK' /\ Shape'
<1>1. work' \in [Workers -> Jobs]
  BY DEF TypeOK, Jobs
<1>2. Shape'
  BY DEF TypeOK, Shape
<1> QED
  BY <1>1, <1>2 DEF TypeOK, Jobs, refs, rows, runs

LEMMA TypeStep == TypeOK /\ Shape /\ [Next]_vars => TypeOK' /\ Shape'
<1> SUFFICES ASSUME TypeOK, Shape, [Next]_vars PROVE TypeOK' /\ Shape'
  OBVIOUS
<1> USE IdleTyped, StampTyped, RootTyped, FaultAssumption
    DEF TypeOK, Shape, Jobs, refs, rows, runs
<1>1. ASSUME NEW p \in Pulls, CreateBranch(p) PROVE TypeOK' /\ Shape'
  BY <1>1 DEF CreateBranch, updateRef
<1>2. ASSUME NEW p \in Pulls, PushHead(p) PROVE TypeOK' /\ Shape'
  <2>1. UNCHANGED <<base, rows, runs, work, faults>>
    BY <1>2 DEF PushHead
  <2>2. head' \in [Pulls -> Commit] /\ stamp' \in 1..MaxStamp
    <3>1. CASE stamp' = stamp /\ head' = [head EXCEPT ![p] = None]
      BY <3>1 DEF None, Commit
    <3>2. CASE Write /\ head' = [head EXCEPT ![p] = @ \cup {<<Stamp, Stamp>>}]
      BY <3>2 DEF Write, Commit
    <3>3. CASE Write /\ head' = [head EXCEPT ![p] = @ \cup base \cup {<<0, Stamp>>}]
      BY <3>3 DEF Write, Commit
    <3> QED
      BY <1>2, <3>1, <3>2, <3>3 DEF PushHead
  <2> QED
    BY <2>1, <2>2
<1>3. ASSUME NEW p \in Pulls, CreatePull(p) PROVE TypeOK' /\ Shape'
  BY <1>3 DEF CreatePull, Row, PullStates, None, Commit
<1>4. ASSUME NEW p \in Pulls, NEW s \in {"open", "closed"}, UpdatePull(p, s) PROVE TypeOK' /\ Shape'
  BY <1>4 DEF UpdatePull, Row, PullStates, None, Commit
<1>5. ASSUME NEW w \in Workers, NEW p \in Pulls, ResolveSpec(w, p) PROVE TypeOK' /\ Shape'
  BY <1>5 DEF ResolveSpec, Job, Shaped, Steps, None, Commit
<1>6. ASSUME NEW w \in Workers, NEW p \in Pulls, MergeRequest(w, p) PROVE TypeOK' /\ Shape'
  BY <1>6 DEF MergeRequest, Job, Shaped, Steps, None, Commit, Open
<1>7. ASSUME NEW w \in Workers, NEW p \in Pulls, ScanPull(w, p) PROVE TypeOK' /\ Shape'
  <2>1. CASE head[p] # None /\ isAncestor(head[p], work[w].new)
    BY <1>7, <2>1 DEF ScanPull, Shaped, Steps
  <2>2. CASE ~(head[p] # None /\ isAncestor(head[p], work[w].new))
    <3>1. work'[w] = [work[w] EXCEPT !.todo = @ \ {p}]
      BY <1>7, <2>2 DEF ScanPull
    <3>2. work' = [work EXCEPT ![w] = work'[w]]
      BY <1>7, <2>2 DEF ScanPull
    <3>3. work'[w] \in Jobs
      BY <1>7, <3>1 DEF ScanPull, Shaped, Steps
    <3>4. Shaped(work'[w])
      BY <1>7, <3>1 DEF ScanPull, Shaped, Steps
    <3>5. UNCHANGED <<refs, rows, runs, stamp>> /\ faults' \in 0..MaxFaults
      BY <1>7 DEF ScanPull
    <3> HIDE DEF TypeOK, Shape, Jobs, refs, rows, runs
    <3> QED
      BY <3>2, <3>3, <3>4, <3>5, JobStep
  <2> QED
    BY <2>1, <2>2
<1>8. ASSUME NEW w \in Workers, WriteSpec(w) PROVE TypeOK' /\ Shape'
  BY <1>8 DEF WriteSpec, Write, Return, Commit, Shaped
<1>9. ASSUME NEW w \in Workers, GateBlocks(w) PROVE TypeOK' /\ Shape'
  BY <1>9 DEF GateBlocks, Return
<1>10. ASSUME NEW w \in Workers, ResolveBase(w) PROVE TypeOK' /\ Shape'
  <2>1. CASE base = None
    BY <1>10, <2>1 DEF ResolveBase, Return
  <2>2. CASE base # None
    <3>1. work'[w] = [work[w] EXCEPT !.at = "head", !.old = base]
      BY <1>10, <2>2 DEF ResolveBase
    <3>2. work' = [work EXCEPT ![w] = work'[w]]
      BY <1>10, <2>2 DEF ResolveBase
    <3>3. work'[w] \in Jobs
      BY <1>10, <3>1 DEF ResolveBase, Shaped, Steps
    <3>4. Shaped(work'[w])
      BY <1>10, <3>1 DEF ResolveBase, Shaped, Steps
    <3>5. UNCHANGED <<refs, rows, runs, stamp>> /\ faults' \in 0..MaxFaults
      BY <1>10 DEF ResolveBase
    <3> HIDE DEF TypeOK, Shape, Jobs, refs, rows, runs
    <3> QED
      BY <3>2, <3>3, <3>4, <3>5, JobStep
  <2> QED
    BY <2>1, <2>2
<1>11. ASSUME NEW w \in Workers, ResolveHead(w) PROVE TypeOK' /\ Shape'
  <2>1. CASE head[work[w].pull] = None
    BY <1>11, <2>1 DEF ResolveHead, Return
  <2>2. CASE head[work[w].pull] # None
    <3>1. work'[w] = [work[w] EXCEPT !.at = "join", !.head = head[work[w].pull]]
      BY <1>11, <2>2 DEF ResolveHead
    <3>2. work' = [work EXCEPT ![w] = work'[w]]
      BY <1>11, <2>2 DEF ResolveHead
    <3>3. work'[w] \in Jobs
      BY <1>11, <2>2, <3>1 DEF ResolveHead, Shaped, Steps
    <3>4. Shaped(work'[w])
      BY <1>11, <2>2, <3>1 DEF ResolveHead, Shaped, Steps
    <3>5. UNCHANGED <<refs, rows, runs, stamp>> /\ faults' \in 0..MaxFaults
      BY <1>11 DEF ResolveHead
    <3> HIDE DEF TypeOK, Shape, Jobs, refs, rows, runs
    <3> QED
      BY <3>2, <3>3, <3>4, <3>5, JobStep
  <2> QED
    BY <2>1, <2>2
<1>12. ASSUME NEW w \in Workers, AlreadyJoined(w) PROVE TypeOK' /\ Shape'
  BY <1>12 DEF AlreadyJoined, Shaped, Steps
<1>13. ASSUME NEW w \in Workers, FastForward(w) PROVE TypeOK' /\ Shape'
  BY <1>13 DEF FastForward, Advance, MoveBase, Shaped, Steps
<1>14. ASSUME NEW w \in Workers, MergeCommit(w) PROVE TypeOK' /\ Shape'
  <2> DEFINE n == work[w].old \cup work[w].head \cup {<<0, Stamp>>}
  <2>1. n \in Commit /\ stamp' \in 1..MaxStamp
    BY <1>14 DEF MergeCommit, Write, Commit
  <2> HIDE DEF n
  <2>2. work[w].at = "join" /\ Advance(w, n, "mark")
    BY <1>14 DEF MergeCommit, n
  <2> QED
    BY <2>1, <2>2 DEF Advance, MoveBase, Shaped, Steps
<1>15. ASSUME NEW w \in Workers, Rebase(w) PROVE TypeOK' /\ Shape'
  <2> DEFINE n == rebaseOnto(work[w].old, work[w].head, Stamp)
  <2>1. n \in Commit /\ stamp' \in 1..MaxStamp
    BY <1>15 DEF Rebase, rebaseOnto, Write, Commit
  <2>2. work[w].at = "join" /\ Advance(w, n, "mark")
    BY <1>15 DEF Rebase
  <2> HIDE DEF n
  <2> QED
    BY <2>1, <2>2, <1>15 DEF Advance, MoveBase, Shaped, Steps
<1>16. ASSUME NEW w \in Workers, JoinRefused(w) PROVE TypeOK' /\ Shape'
  BY <1>16 DEF JoinRefused, Return
<1>17. ASSUME NEW w \in Workers, VerifyAdvanced(w) PROVE TypeOK' /\ Shape'
  <2>1. CASE base = work[w].head
    <3>1. work'[w] = [work[w] EXCEPT !.at = "mark"]
      BY <1>17, <2>1 DEF VerifyAdvanced, Goto
    <3>2. work' = [work EXCEPT ![w] = work'[w]]
      BY <1>17, <2>1 DEF VerifyAdvanced, Goto
    <3> QED
      BY <1>17, <3>1, <3>2, JobStep DEF VerifyAdvanced, Jobs, Shaped, Steps
  <2>2. CASE base # work[w].head
    BY <1>17, <2>2 DEF VerifyAdvanced, Return
  <2> QED
    BY <2>1, <2>2
<1>18. ASSUME NEW w \in Workers, RecordMerge(w) PROVE TypeOK' /\ Shape'
  BY <1>18 DEF RecordMerge, MarkMerged, Goto, Row, PullStates, Shaped, Steps
<1>19. ASSUME NEW w \in Workers, CloseLinkedIssues(w) PROVE TypeOK' /\ Shape'
  BY <1>19 DEF CloseLinkedIssues, Return, BuildTip, Job, Shaped, Steps, None, Commit
<1>20. ASSUME NEW w \in Workers, Push(w) PROVE TypeOK' /\ Shape'
  BY <1>20 DEF Push, Write, Job, Shaped, Steps, None, Commit
<1>21. ASSUME NEW w \in Workers, ReceivePack(w) PROVE TypeOK' /\ Shape'
  <2>1. base' \in Commit /\ queued' \in BOOLEAN
    BY <1>21 DEF ReceivePack, MoveBase
  <2>2. Return(w) \/ Goto(w, "list")
    BY <1>21 DEF ReceivePack
  <2>3. UNCHANGED <<head, rows, active, stamp, faults>>
    BY <1>21 DEF ReceivePack
  <2>4. CASE Return(w)
    BY <2>1, <2>3, <2>4 DEF Return
  <2>5. CASE Goto(w, "list")
    BY <2>1, <2>3, <2>5 DEF Goto, Shaped, Steps
  <2> QED
    BY <2>2, <2>4, <2>5
<1>22. ASSUME NEW w \in Workers, OpenPRsForBase(w) PROVE TypeOK' /\ Shape'
  BY <1>22 DEF OpenPRsForBase, Open, Shaped, Steps
<1>23. ASSUME NEW w \in Workers, AutoClose(w) PROVE TypeOK' /\ Shape'
  BY <1>23 DEF AutoClose, MarkMerged, ScanNext, Row, PullStates, Shaped, Steps, None, Commit
<1>24. ASSUME NEW w \in Workers, ScanDone(w) PROVE TypeOK' /\ Shape'
  BY <1>24 DEF ScanDone, BuildTip, Job, Shaped, Steps, None, Commit
<1>25. ASSUME NEW w \in Workers, Supersede(w) PROVE TypeOK' /\ Shape'
  BY <1>25 DEF Supersede, Goto, Shaped, Steps
<1>26. ASSUME NEW w \in Workers, EnqueueRun(w) PROVE TypeOK' /\ Shape'
  BY <1>26 DEF EnqueueRun, Return
<1>27. ASSUME NEW w \in Workers, StepFails(w) PROVE TypeOK' /\ Shape'
  <2>1. UNCHANGED <<refs, rows, runs, stamp>> /\ faults' \in 0..MaxFaults
    BY <1>27 DEF StepFails
  <2>2. CASE Return(w)
    BY <2>1, <2>2 DEF Return
  <2>3. CASE ScanNext(w)
    <3>1. work'[w] = [work[w] EXCEPT !.at = "scan", !.pull = NoPull, !.head = None]
      BY <2>3 DEF ScanNext
    <3>2. work' = [work EXCEPT ![w] = work'[w]]
      BY <2>3 DEF ScanNext
    <3>3. work'[w] \in Jobs
      BY <3>1 DEF Shaped, Steps, None, Commit
    <3>4. Shaped(work'[w])
      BY <3>1 DEF Shaped, Steps, None, Commit
    <3>5. UNCHANGED <<refs, rows, runs, stamp>> /\ faults' \in 0..MaxFaults
      BY <2>1
    <3> HIDE DEF TypeOK, Shape, Jobs, refs, rows, runs
    <3> QED
      BY <3>2, <3>3, <3>4, <3>5, JobStep
  <2>4. CASE BuildTip(w, work[w].new)
    BY <2>1, <2>4 DEF BuildTip, Job, Shaped, Steps, None, Commit
  <2>5. CASE Goto(w, "enqueue")
    BY <2>1, <2>5 DEF Goto, Shaped, Steps
  <2> QED
    BY <1>27, <2>2, <2>3, <2>4, <2>5 DEF StepFails
<1>28. CASE Crash
  BY <1>28 DEF Crash
<1>29. CASE UNCHANGED vars
  BY <1>29 DEF vars
<1> QED
  BY <1>1, <1>2, <1>3, <1>4, <1>5, <1>6, <1>7, <1>8, <1>9, <1>10, <1>11, <1>12, <1>13, <1>14, <1>15, <1>16, <1>17, <1>18, <1>19, <1>20, <1>21, <1>22, <1>23, <1>24, <1>25, <1>26, <1>27, <1>28, <1>29
  DEF Next, Branches, Merging, Pushing

-----------------------------------------------------------------------------
(* Refs                                                                    *)

\* A protected base only grows: each method of the merge, and receive-pack,
\* writes a descendant of the tip it has compared the ref with.
LEMMA BaseGrows == IInv /\ Protected /\ [Next]_vars => base \subseteq base'
<1> SUFFICES ASSUME IInv, Protected, [Next]_vars PROVE base \subseteq base'
  OBVIOUS
<1> USE DEF refs
<1>1. ASSUME NEW w \in Workers, NEW n, NEW at, work[w].old \subseteq n, Advance(w, n, at)
      PROVE  base \subseteq base'
  BY <1>1 DEF Advance, updateRef, MoveBase
<1>2. ASSUME NEW w \in Workers, FastForward(w) PROVE base \subseteq base'
  BY <1>1, <1>2 DEF FastForward, isAncestor
<1>3. ASSUME NEW w \in Workers, MergeCommit(w) PROVE base \subseteq base'
  BY <1>1, <1>3 DEF MergeCommit
<1>4. ASSUME NEW w \in Workers, Rebase(w) PROVE base \subseteq base'
  BY <1>1, <1>4 DEF Rebase, rebaseOnto
<1>5. ASSUME NEW w \in Workers, ReceivePack(w) PROVE base \subseteq base'
  BY <1>5 DEF ReceivePack, IInv, Joined, Backed, updateRef, MoveBase, None
<1>6. ASSUME UNCHANGED base PROVE base \subseteq base'
  BY <1>6
<1> QED
  BY <1>2, <1>3, <1>4, <1>5, <1>6 DEF Next, Branches, Merging, Pushing, CreateBranch, PushHead,
     CreatePull, UpdatePull, ResolveSpec, WriteSpec, MergeRequest, GateBlocks, ResolveBase,
     ResolveHead, AlreadyJoined, JoinRefused, VerifyAdvanced, RecordMerge, CloseLinkedIssues,
     Push, OpenPRsForBase, ScanPull, AutoClose, ScanDone, Supersede, EnqueueRun, StepFails,
     Crash, vars

\* The server's only write to a head branch, a spec commit, keeps what is there.
LEMMA HeadsGrow ==
    IInv /\ [Next]_vars /\ work' # work => \A p \in Pulls : head[p] \subseteq head'[p]
<1> SUFFICES ASSUME IInv, [Next]_vars, work' # work PROVE \A p \in Pulls : head[p] \subseteq head'[p]
  OBVIOUS
<1> USE DEF refs
<1>1. ASSUME NEW w \in Workers, WriteSpec(w) PROVE \A p \in Pulls : head[p] \subseteq head'[p]
  <2>1. work[w].pull \in Pulls /\ work[w].old \subseteq work[w].head
    BY <1>1 DEF WriteSpec, IInv, Shape, Shaped
  <2> QED
    BY <1>1, <2>1 DEF WriteSpec, updateRef, IInv, TypeOK
<1>2. ASSUME UNCHANGED head PROVE \A p \in Pulls : head[p] \subseteq head'[p]
  BY <1>2
<1> QED
  BY <1>1, <1>2 DEF Next, Branches, Merging, Pushing, CreateBranch, PushHead,
     CreatePull, UpdatePull, ResolveSpec, MergeRequest, GateBlocks, ResolveBase,
     ResolveHead, AlreadyJoined, FastForward, MergeCommit, Rebase, Advance, JoinRefused,
     VerifyAdvanced, RecordMerge, CloseLinkedIssues, Push, ReceivePack, OpenPRsForBase,
     ScanPull, AutoClose, ScanDone, Supersede, EnqueueRun, StepFails, Crash, vars

-----------------------------------------------------------------------------
(* What is marked merged is in a protected base                            *)

\* A base that grows keeps what rows and jobs rely on; only the ones that a
\* step changes need an argument.
LEMMA JoinedKept ==
    ASSUME Joined, Protected, base \subseteq base',
           \A p \in Pulls : \/ pull'[p].head = pull[p].head
                            \/ Changes(pull'[p].head) \subseteq Changes(base'),
           \A w \in Workers : work'[w] = work[w] \/ Backed(work'[w], base')
    PROVE  Joined'
<1>1. Changes(base) \subseteq Changes(base')
  BY ChangesGrow
<1>2. base' # None
  BY DEF Joined, None
<1>3. \A p \in Pulls : Changes(pull'[p].head) \subseteq Changes(base')
  BY <1>1 DEF Joined
<1>4. ASSUME NEW w \in Workers PROVE Backed(work'[w], base')
  <2>1. Backed(work[w], base)
    BY DEF Joined
  <2>2. Backed(work[w], base')
    BY <1>1, <2>1 DEF Backed
  <2> QED
    BY <2>2
<1> QED
  BY <1>2, <1>3, <1>4 DEF Joined

\* The jobs that rely on nothing.
LEMMA FreeJob ==
    ASSUME NEW j, NEW b,
           j.at \in {"idle", "gate", "supersede", "enqueue", "spec"}
    PROVE  Backed(j, b)
  BY DEF Backed

\* A merge method that moved the base to n brought the head's changes.
LEMMA AdvanceBacks ==
    ASSUME TypeOK, NEW w \in Workers, NEW n, NEW at \in {"verify", "mark"}, Advance(w, n, at),
           Changes(work[w].head) \subseteq Changes(n)
    PROVE  \A v \in Workers : work'[v] = work[v] \/ Backed(work'[v], base')
<1>1. base' = n
  BY DEF Advance, MoveBase
<1>2. work'[w].at = at /\ work'[w].head = work[w].head
  BY DEF Advance, TypeOK
<1>3. Backed(work'[w], n)
  BY <1>2 DEF Backed
<1>4. \A v \in Workers \ {w} : work'[v] = work[v]
  BY DEF Advance, TypeOK
<1> QED
  BY <1>1, <1>3, <1>4

LEMMA JoinedStep == IInv /\ [Next]_vars => Joined'
<1> SUFFICES ASSUME IInv, [Next]_vars, Protected PROVE Joined'
  BY DEF Joined
<1> DEFINE RowsKept == \A p \in Pulls : \/ pull'[p].head = pull[p].head
                                        \/ Changes(pull'[p].head) \subseteq Changes(base')
           JobsKept == \A w \in Workers : work'[w] = work[w] \/ Backed(work'[w], base')
<1>g. base \subseteq base' /\ Changes(base) \subseteq Changes(base')
  BY BaseGrows, ChangesGrow
<1>k. RowsKept /\ JobsKept => Joined'
  BY JoinedKept, <1>g DEF IInv
<1>t. TypeOK /\ Shape /\ Joined
  BY DEF IInv
<1>b. \A w \in Workers : Backed(work[w], base)
  BY <1>t DEF Joined
<1>i. ASSUME NEW w \in Workers, Return(w) PROVE JobsKept
  <2>1. work'[w].at = "idle"
    BY <1>i, <1>t DEF Return, Idle, Job, TypeOK
  <2> QED
    BY <1>i, <1>t, <2>1, FreeJob DEF Return, TypeOK
<1>n. ASSUME NEW w \in Workers, NEW c, BuildTip(w, c) PROVE JobsKept
  <2>1. work'[w].at = "supersede"
    BY <1>n, <1>t DEF BuildTip, Job, TypeOK
  <2> QED
    BY <1>n, <1>t, <2>1, FreeJob DEF BuildTip, TypeOK
<1>u. ASSUME UNCHANGED pull PROVE RowsKept
  BY <1>u
<1>v. ASSUME UNCHANGED work PROVE JobsKept
  BY <1>v
<1>m. ASSUME NEW w \in Workers, MarkMerged(w), Changes(work[w].head) \subseteq Changes(base') PROVE RowsKept
  BY <1>m, <1>t DEF MarkMerged, Row, TypeOK
<1> HIDE DEF RowsKept, JobsKept
<1> USE DEF refs, rows, runs
<1>1. ASSUME NEW p \in Pulls, Branches(p) PROVE Joined'
  <2>1. RowsKept
    <3>1. CASE CreatePull(p) \/ \E s \in {"open", "closed"} : UpdatePull(p, s)
      BY <1>t, <3>1, NoChanges DEF CreatePull, UpdatePull, Row, TypeOK, RowsKept
    <3>2. CASE CreateBranch(p) \/ PushHead(p)
      BY <1>u, <3>2 DEF CreateBranch, PushHead
    <3> QED
      BY <1>1, <3>1, <3>2 DEF Branches
  <2>2. JobsKept
    BY <1>v, <1>1 DEF Branches, CreateBranch, PushHead, CreatePull, UpdatePull
  <2> QED
    BY <1>k, <2>1, <2>2
<1>2. ASSUME NEW w \in Workers, NEW p \in Pulls, ResolveSpec(w, p) PROVE Joined'
  <2>1. work'[w].at = "spec" /\ \A v \in Workers \ {w} : work'[v] = work[v]
    BY <1>2, <1>t DEF ResolveSpec, Job, TypeOK
  <2> QED
    BY <1>2, <1>k, <1>u, <2>1, FreeJob DEF ResolveSpec, JobsKept
<1>3. ASSUME NEW w \in Workers, NEW p \in Pulls, MergeRequest(w, p) PROVE Joined'
  <2>1. work'[w].at = "gate" /\ \A v \in Workers \ {w} : work'[v] = work[v]
    BY <1>3, <1>t DEF MergeRequest, Job, TypeOK
  <2> QED
    BY <1>3, <1>k, <1>u, <2>1, FreeJob DEF MergeRequest, JobsKept
<1>4. ASSUME NEW w \in Workers, GateBlocks(w) \/ JoinRefused(w) \/ EnqueueRun(w) \/ WriteSpec(w) PROVE Joined'
  BY <1>4, <1>k, <1>u, <1>i DEF GateBlocks, JoinRefused, EnqueueRun, WriteSpec
<1>5. ASSUME NEW w \in Workers, ResolveBase(w) PROVE Joined'
  <2>1. CASE Return(w)
    BY <1>5, <1>k, <1>u, <1>i, <2>1 DEF ResolveBase
  <2>2. CASE work' = [work EXCEPT ![w].at = "head", ![w].old = base]
    <3>1. /\ work'[w].at = "head" /\ work'[w].old = base
          /\ \A v \in Workers \ {w} : work'[v] = work[v]
      BY <1>t, <2>2 DEF TypeOK
    <3> QED
      BY <1>5, <1>g, <1>k, <1>u, <3>1 DEF ResolveBase, Backed, JobsKept
  <2> QED
    BY <1>5, <2>1, <2>2 DEF ResolveBase
<1>6. ASSUME NEW w \in Workers, ResolveHead(w) PROVE Joined'
  <2>1. CASE Return(w)
    BY <1>6, <1>k, <1>u, <1>i, <2>1 DEF ResolveHead
  <2>2. CASE work' = [work EXCEPT ![w].at = "join", ![w].head = head[work[w].pull]]
    <3>1. /\ work'[w].at = "join" /\ work'[w].old = work[w].old
          /\ \A v \in Workers \ {w} : work'[v] = work[v]
      BY <1>t, <2>2 DEF TypeOK
    <3>2. work[w].old \subseteq base
      BY <1>6, <1>b DEF ResolveHead, Backed
    <3> QED
      BY <1>6, <1>g, <1>k, <1>u, <3>1, <3>2 DEF ResolveHead, Backed, JobsKept
  <2> QED
    BY <1>6, <2>1, <2>2 DEF ResolveHead
<1>7. ASSUME NEW w \in Workers, AlreadyJoined(w) PROVE Joined'
  <2>1. /\ work'[w].at = "mark" /\ work'[w].head = work[w].head
        /\ \A v \in Workers \ {w} : work'[v] = work[v]
    BY <1>7, <1>t DEF AlreadyJoined, TypeOK
  <2>2. Changes(work[w].head) \subseteq Changes(base)
    BY <1>7, <1>b, ChangesGrow DEF AlreadyJoined, isAncestor, Backed
  <2> QED
    BY <1>7, <1>g, <1>k, <1>u, <2>1, <2>2 DEF AlreadyJoined, Backed, JobsKept
<1>8. ASSUME NEW w \in Workers, FastForward(w) PROVE Joined'
  BY <1>8, <1>k, <1>t, <1>u, AdvanceBacks DEF FastForward, Advance, JobsKept
<1>9. ASSUME NEW w \in Workers, MergeCommit(w) PROVE Joined'
  <2> DEFINE n == work[w].old \cup work[w].head \cup {<<0, Stamp>>}
  <2>1. Changes(work[w].head) \subseteq Changes(n)
    BY ChangesGrow
  <2>2. Advance(w, n, "mark")
    BY <1>9 DEF MergeCommit
  <2> HIDE DEF n
  <2> QED
    BY <1>k, <1>t, <1>u, <2>1, <2>2, AdvanceBacks DEF Advance, JobsKept
<1>10. ASSUME NEW w \in Workers, Rebase(w) PROVE Joined'
  <2> DEFINE n == rebaseOnto(work[w].old, work[w].head, Stamp)
  <2>1. Changes(work[w].head) \subseteq Changes(n)
    <3>1. work[w].old \in Commit /\ work[w].head \in Commit
      BY <1>t DEF TypeOK
    <3> QED
      BY <3>1, RebaseCarries
  <2>2. Advance(w, n, "mark")
    BY <1>10 DEF Rebase
  <2> HIDE DEF n
  <2> QED
    BY <1>k, <1>t, <1>u, <2>1, <2>2, AdvanceBacks DEF Advance, JobsKept
<1>11. ASSUME NEW w \in Workers, VerifyAdvanced(w) PROVE Joined'
  <2>1. CASE Return(w)
    BY <1>11, <1>k, <1>u, <1>i, <2>1 DEF VerifyAdvanced
  <2>2. CASE Goto(w, "mark")
    <3>1. /\ work'[w].at = "mark" /\ work'[w].head = work[w].head
          /\ \A v \in Workers \ {w} : work'[v] = work[v]
      BY <1>t, <2>2 DEF Goto, TypeOK
    <3>2. Changes(work[w].head) \subseteq Changes(base)
      BY <1>11, <1>b DEF VerifyAdvanced, Backed
    <3> QED
      BY <1>11, <1>g, <1>k, <1>u, <3>1, <3>2 DEF VerifyAdvanced, Backed, JobsKept
  <2> QED
    BY <1>11, <2>1, <2>2 DEF VerifyAdvanced
<1>12. ASSUME NEW w \in Workers, RecordMerge(w) PROVE Joined'
  <2>1. /\ work'[w].at = "close" /\ work'[w].head = work[w].head
        /\ \A v \in Workers \ {w} : work'[v] = work[v]
    BY <1>12, <1>t DEF RecordMerge, Goto, TypeOK
  <2>2. Changes(work[w].head) \subseteq Changes(base')
    BY <1>12, <1>b, <1>g DEF RecordMerge, Backed
  <2>3. RowsKept
    BY <1>12, <1>m, <2>2 DEF RecordMerge
  <2> QED
    BY <1>k, <2>1, <2>2, <2>3 DEF Backed, JobsKept
<1>13. ASSUME NEW w \in Workers, CloseLinkedIssues(w) PROVE Joined'
  BY <1>13, <1>k, <1>u, <1>i, <1>n DEF CloseLinkedIssues
<1>14. ASSUME NEW w \in Workers, Push(w) PROVE Joined'
  <2>1. PICK new : /\ PreReceive(base, new)
                   /\ work' = [work EXCEPT ![w] = Job("receive", NoPull, base, None, new)]
    BY <1>14 DEF Push
  <2>2. /\ work'[w].at = "receive" /\ work'[w].old = base /\ work'[w].new = new
        /\ \A v \in Workers \ {w} : work'[v] = work[v]
    BY <1>t, <2>1 DEF Job, TypeOK
  <2>3. Backed(work'[w], base')
    BY <2>1, <2>2 DEF PreReceive, isAncestor, Backed
  <2> QED
    BY <1>14, <1>k, <1>u, <2>2, <2>3 DEF Push, JobsKept
<1>15. ASSUME NEW w \in Workers, ReceivePack(w) PROVE Joined'
  <2>1. CASE Return(w)
    BY <1>15, <1>k, <1>u, <1>i, <2>1 DEF ReceivePack
  <2>2. CASE MoveBase(work[w].new) /\ Goto(w, "list")
    <3>1. /\ work'[w].at = "list" /\ work'[w].new = work[w].new
          /\ \A v \in Workers \ {w} : work'[v] = work[v]
      BY <1>t, <2>2 DEF Goto, TypeOK
    <3>2. Backed(work'[w], base')
      BY <2>2, <3>1 DEF MoveBase, Backed
    <3> QED
      BY <1>15, <1>k, <1>u, <3>1, <3>2 DEF ReceivePack, JobsKept
  <2> QED
    BY <1>15, <2>1, <2>2 DEF ReceivePack
<1>16. ASSUME NEW w \in Workers, OpenPRsForBase(w) PROVE Joined'
  <2>1. /\ work'[w].at = "scan" /\ work'[w].new = work[w].new
        /\ \A v \in Workers \ {w} : work'[v] = work[v]
    BY <1>16, <1>t DEF OpenPRsForBase, TypeOK
  <2>2. work[w].new \subseteq base
    BY <1>16, <1>b DEF OpenPRsForBase, Backed
  <2>3. Backed(work'[w], base')
    BY <1>g, <2>1, <2>2 DEF Backed
  <2> QED
    BY <1>16, <1>k, <1>u, <2>1, <2>3 DEF OpenPRsForBase, JobsKept
<1>17. ASSUME NEW w \in Workers, NEW p \in Pulls, ScanPull(w, p) PROVE Joined'
  <2>1. work[w].new \subseteq base
    BY <1>17, <1>b DEF ScanPull, Backed
  <2>2. CASE head[p] # None /\ isAncestor(head[p], work[w].new)
    <3>1. /\ work'[w].at = "automark" /\ work'[w].new = work[w].new /\ work'[w].head = head[p]
          /\ \A v \in Workers \ {w} : work'[v] = work[v]
      BY <1>17, <1>t, <2>2 DEF ScanPull, TypeOK
    <3>2. Changes(head[p]) \subseteq Changes(base)
      BY <2>1, <2>2, ChangesGrow DEF isAncestor
    <3>3. Backed(work'[w], base')
      BY <1>g, <2>1, <3>1, <3>2 DEF Backed
    <3> QED
      BY <1>17, <1>k, <1>u, <3>1, <3>3 DEF ScanPull, JobsKept
  <2>3. CASE ~(head[p] # None /\ isAncestor(head[p], work[w].new))
    <3>1. /\ work'[w].at = "scan" /\ work'[w].new = work[w].new
          /\ \A v \in Workers \ {w} : work'[v] = work[v]
      BY <1>17, <1>t, <2>3 DEF ScanPull, TypeOK
    <3>2. Backed(work'[w], base')
      BY <1>g, <2>1, <3>1 DEF Backed
    <3> QED
      BY <1>17, <1>k, <1>u, <3>1, <3>2 DEF ScanPull, JobsKept
  <2> QED
    BY <2>2, <2>3
<1>18. ASSUME NEW w \in Workers, work[w].at = "automark", ScanNext(w) PROVE JobsKept
  <2>1. /\ work'[w].at = "scan" /\ work'[w].new = work[w].new
        /\ \A v \in Workers \ {w} : work'[v] = work[v]
    BY <1>18, <1>t DEF ScanNext, TypeOK
  <2>2. work[w].new \subseteq base
    BY <1>18, <1>b DEF Backed
  <2> QED
    BY <1>g, <2>1, <2>2 DEF Backed, JobsKept
<1>19. ASSUME NEW w \in Workers, AutoClose(w) PROVE Joined'
  <2>1. Changes(work[w].head) \subseteq Changes(base')
    BY <1>19, <1>b, <1>g DEF AutoClose, Backed
  <2> QED
    BY <1>19, <1>k, <1>m, <1>18, <2>1 DEF AutoClose
<1>20. ASSUME NEW w \in Workers, ScanDone(w) PROVE Joined'
  BY <1>20, <1>k, <1>u, <1>n DEF ScanDone
<1>e. ASSUME NEW w \in Workers, Goto(w, "enqueue") PROVE JobsKept
  <2>1. work'[w].at = "enqueue" /\ \A v \in Workers \ {w} : work'[v] = work[v]
    BY <1>e, <1>t DEF Goto, TypeOK
  <2> QED
    BY <2>1, FreeJob DEF JobsKept
<1>21. ASSUME NEW w \in Workers, Supersede(w) PROVE Joined'
  BY <1>21, <1>k, <1>u, <1>e DEF Supersede
<1>22. ASSUME NEW w \in Workers, StepFails(w) PROVE Joined'
  BY <1>22, <1>k, <1>u, <1>i, <1>n, <1>e, <1>18 DEF StepFails
<1>23. CASE Crash
  <2>1. \A w \in Workers : work'[w].at = "idle"
    BY <1>23 DEF Crash, Idle, Job
  <2> QED
    BY <1>23, <1>k, <1>u, <2>1, FreeJob DEF Crash, JobsKept
<1>24. CASE UNCHANGED vars
  BY <1>24, <1>k, <1>u, <1>v DEF vars
<1> QED
  BY <1>1, <1>2, <1>3, <1>4, <1>5, <1>6, <1>7, <1>8, <1>9, <1>10, <1>11, <1>12, <1>13, <1>14,
     <1>15, <1>16, <1>17, <1>19, <1>20, <1>21, <1>22, <1>23, <1>24
  DEF Next, Merging, Pushing

-----------------------------------------------------------------------------
(* The run of the tip                                                      *)

Others(w) == \A v \in Workers \ {w} : work'[v] = work[v]

\* A step of w that keeps the base and the runs, and drops nothing it carries.
LEMMA PendingKept ==
    ASSUME TypeOK, Pending, NEW w \in Workers, Others(w),
           UNCHANGED <<base, runs, faults>>,
           Carries(work[w], base) => Carries(work'[w], base),
           work[w].at # "enqueue",
           work'[w].at # "verify"
    PROVE  Pending'
<1>1. Verified'
  BY DEF Pending, Verified, Others
<1>2. ASSUME faults = 0, TipCarried PROVE TipCarried'
  BY <1>2 DEF TipCarried, Others, runs
<1>3. ASSUME faults = 0, Restarted PROVE Restarted'
  BY <1>3 DEF Restarted, Others, runs
<1> QED
  BY <1>1, <1>2, <1>3 DEF Pending

\* A step of w that moves the base and carries its new tip.
LEMMA PendingMoved ==
    ASSUME TypeOK, Pending, NEW w \in Workers, Others(w),
           UNCHANGED <<active, faults>>,
           base' # None => Carries(work'[w], base'),
           work[w].at # "enqueue",
           work'[w].at = "verify" => work'[w].new = work'[w].head
    PROVE  Pending'
<1>1. Verified'
  BY DEF Pending, Verified, Others
<1>2. TipCarried'
  BY DEF TipCarried
<1>3. ASSUME faults = 0, Restarted PROVE Restarted'
  BY <1>3 DEF Restarted, Others
<1> QED
  BY <1>1, <1>2, <1>3 DEF Pending

\* A merge method advances the base and carries what it wrote.
LEMMA AdvancePending ==
    ASSUME IInv, Pending, NEW w \in Workers, NEW n, NEW at \in {"verify", "mark"}, Advance(w, n, at),
           work[w].at = "join",
           at = "verify" => n = work[w].head
    PROVE  Pending'
<1>1. /\ Others(w)
      /\ work'[w].at = at /\ work'[w].new = n /\ work'[w].head = work[w].head
  BY DEF Advance, IInv, TypeOK, Others
<1>2. base' = n /\ UNCHANGED <<active, faults>>
  BY DEF Advance, MoveBase
<1>3. base' # None => Carries(work'[w], base')
  BY <1>1, <1>2 DEF Carries
<1> QED
  BY <1>1, <1>2, <1>3, PendingMoved DEF IInv

LEMMA PendingStep == IInv /\ Pending /\ [Next]_vars => Pending'
<1> SUFFICES ASSUME IInv, Pending, [Next]_vars PROVE Pending'
  OBVIOUS
<1>t. TypeOK /\ Shape
  BY DEF IInv
<1> USE DEF refs, runs
<1>r. ASSUME NEW w \in Workers, Return(w)
      PROVE  Others(w) /\ work'[w].at = "idle" /\ work'[w].at # "verify"
  BY <1>r, <1>t DEF Return, Idle, Job, TypeOK, Others
<1>n. ASSUME NEW w \in Workers, BuildTip(w, work[w].new)
      PROVE  Others(w) /\ work'[w].at = "supersede" /\ work'[w].new = work[w].new
  BY <1>n, <1>t DEF BuildTip, Job, TypeOK, Others
<1>g. ASSUME NEW w \in Workers, NEW at, Goto(w, at)
      PROVE  Others(w) /\ work'[w].at = at /\ work'[w].new = work[w].new
  BY <1>g, <1>t DEF Goto, TypeOK, Others
<1>s. ASSUME NEW w \in Workers, ScanNext(w)
      PROVE  Others(w) /\ work'[w].at = "scan" /\ work'[w].new = work[w].new
  BY <1>s, <1>t DEF ScanNext, TypeOK, Others
<1>1. ASSUME NEW p \in Pulls, Branches(p) PROVE Pending'
  BY <1>1 DEF Branches, CreateBranch, PushHead, CreatePull, UpdatePull,
     Pending, Verified, TipCarried, Restarted
<1>2. ASSUME NEW w \in Workers, NEW p \in Pulls, ResolveSpec(w, p) \/ MergeRequest(w, p) PROVE Pending'
  <2>1. Others(w) /\ work'[w].at \in {"spec", "gate"} /\ work[w].at = "idle"
    BY <1>2, <1>t DEF ResolveSpec, MergeRequest, Job, Idle, TypeOK, Others
  <2>2. UNCHANGED <<base, runs, faults>>
    BY <1>2 DEF ResolveSpec, MergeRequest
  <2> QED
    BY <1>t, <2>1, <2>2, PendingKept DEF Carries
<1>3. ASSUME NEW w \in Workers, GateBlocks(w) \/ JoinRefused(w) \/ WriteSpec(w) PROVE Pending'
  <2>1. work[w].at \in {"gate", "join", "spec"} /\ Return(w) /\ UNCHANGED <<base, runs, faults>>
    BY <1>3 DEF GateBlocks, JoinRefused, WriteSpec
  <2> QED
    BY <1>r, <1>t, <2>1, PendingKept DEF Carries
<1>4. ASSUME NEW w \in Workers, ResolveBase(w) \/ ResolveHead(w) PROVE Pending'
  <2>1. work[w].at \in {"gate", "head"} /\ UNCHANGED <<base, runs, faults>>
    BY <1>4 DEF ResolveBase, ResolveHead
  <2>2. Others(w) /\ work'[w].at # "verify"
    <3>1. CASE Return(w)
      BY <3>1, <1>r
    <3>2. CASE ~Return(w)
      BY <1>4, <1>t, <3>2 DEF ResolveBase, ResolveHead, Others, TypeOK
    <3> QED
      BY <3>1, <3>2
  <2> QED
    BY <1>t, <2>1, <2>2, PendingKept DEF Carries
<1>5. ASSUME NEW w \in Workers, AlreadyJoined(w) PROVE Pending'
  <2>1. /\ Others(w) /\ work[w].at = "join" /\ work'[w].at = "mark"
        /\ UNCHANGED <<base, runs, faults>>
    BY <1>5, <1>t DEF AlreadyJoined, Others, TypeOK
  <2> QED
    BY <1>t, <2>1, PendingKept DEF Carries
<1>6. ASSUME NEW w \in Workers, FastForward(w) PROVE Pending'
  BY <1>6, AdvancePending DEF FastForward
<1>7. ASSUME NEW w \in Workers, MergeCommit(w) PROVE Pending'
  BY <1>7, AdvancePending DEF MergeCommit
<1>8. ASSUME NEW w \in Workers, Rebase(w) PROVE Pending'
  BY <1>8, AdvancePending DEF Rebase
<1>9. ASSUME NEW w \in Workers, VerifyAdvanced(w) PROVE Pending'
  <2>1. work[w].at = "verify" /\ work[w].new = work[w].head /\ UNCHANGED <<base, runs, faults>>
    BY <1>9 DEF VerifyAdvanced, Pending, Verified
  <2>2. CASE base = work[w].head
    BY <1>9, <1>g, <1>t, <2>1, <2>2, PendingKept DEF VerifyAdvanced, Carries
  <2>3. CASE base # work[w].head
    BY <1>9, <1>r, <1>t, <2>1, <2>3, PendingKept DEF VerifyAdvanced, Carries
  <2> QED
    BY <2>2, <2>3
<1>10. ASSUME NEW w \in Workers, RecordMerge(w) PROVE Pending'
  BY <1>10, <1>g, <1>t, PendingKept DEF RecordMerge, Carries
<1>11. ASSUME NEW w \in Workers, CloseLinkedIssues(w) PROVE Pending'
  <2>1. work[w].at = "close" /\ UNCHANGED <<base, runs, faults>>
    BY <1>11 DEF CloseLinkedIssues
  <2>2. CASE work[w].new = None
    BY <1>11, <1>r, <1>t, <2>1, <2>2, PendingKept DEF CloseLinkedIssues, Carries
  <2>3. CASE work[w].new # None
    BY <1>11, <1>n, <1>t, <2>1, <2>3, PendingKept DEF CloseLinkedIssues, Carries
  <2> QED
    BY <2>2, <2>3
<1>12. ASSUME NEW w \in Workers, Push(w) PROVE Pending'
  <2>1. PICK new : work' = [work EXCEPT ![w] = Job("receive", NoPull, base, None, new)]
    BY <1>12 DEF Push
  <2>2. Others(w) /\ work'[w].at = "receive"
    BY <1>t, <2>1 DEF Job, TypeOK, Others
  <2>3. work[w].at = "idle" /\ UNCHANGED <<base, runs, faults>>
    BY <1>12 DEF Push, Idle, Job
  <2> QED
    BY <1>t, <2>2, <2>3, PendingKept DEF Carries
<1>13. ASSUME NEW w \in Workers, ReceivePack(w) PROVE Pending'
  <2>1. work[w].at = "receive" /\ UNCHANGED <<active, faults>>
    BY <1>13 DEF ReceivePack
  <2>2. CASE base # work[w].old
    <3>1. Return(w) /\ UNCHANGED <<base, runs, faults>>
      BY <1>13, <2>2 DEF ReceivePack, updateRef
    <3> QED
      BY <1>r, <1>t, <2>1, <3>1, PendingKept DEF Carries
  <2>3. CASE base = work[w].old /\ work[w].new = None
    <3>1. Return(w) /\ base' = None
      BY <1>13, <2>3 DEF ReceivePack, updateRef, MoveBase
    <3> QED
      BY <1>r, <1>t, <2>1, <3>1, PendingMoved
  <2>4. CASE base = work[w].old /\ work[w].new # None
    <3>1. Goto(w, "list") /\ base' = work[w].new
      BY <1>13, <2>4 DEF ReceivePack, updateRef, MoveBase
    <3> QED
      BY <1>g, <1>t, <2>1, <3>1, PendingMoved DEF Carries
  <2> QED
    BY <2>2, <2>3, <2>4
<1>14. ASSUME NEW w \in Workers, OpenPRsForBase(w) PROVE Pending'
  <2>1. /\ Others(w) /\ work[w].at = "list"
        /\ work'[w].at = "scan" /\ work'[w].new = work[w].new
        /\ UNCHANGED <<base, runs, faults>>
    BY <1>14, <1>t DEF OpenPRsForBase, Others, TypeOK
  <2> QED
    BY <1>t, <2>1, PendingKept DEF Carries
<1>15. ASSUME NEW w \in Workers, NEW p \in Pulls, ScanPull(w, p) PROVE Pending'
  <2>1. work[w].at = "scan" /\ UNCHANGED <<base, runs, faults>>
    BY <1>15 DEF ScanPull
  <2>2. Others(w) /\ work'[w].at \in {"scan", "automark"} /\ work'[w].new = work[w].new
    <3>1. CASE head[p] # None /\ isAncestor(head[p], work[w].new)
      BY <1>15, <1>t, <3>1 DEF ScanPull, Others, TypeOK
    <3>2. CASE ~(head[p] # None /\ isAncestor(head[p], work[w].new))
      BY <1>15, <1>t, <3>2 DEF ScanPull, Others, TypeOK
    <3> QED
      BY <3>1, <3>2
  <2> QED
    BY <1>t, <2>1, <2>2, PendingKept DEF Carries
<1>16. ASSUME NEW w \in Workers, AutoClose(w) PROVE Pending'
  BY <1>16, <1>s, <1>t, PendingKept DEF AutoClose, Carries
<1>17. ASSUME NEW w \in Workers, ScanDone(w) PROVE Pending'
  BY <1>17, <1>n, <1>t, PendingKept DEF ScanDone, Carries
<1>18. ASSUME NEW w \in Workers, Supersede(w) PROVE Pending'
  <2>1. /\ Others(w) /\ work[w].at = "supersede"
        /\ work'[w].at = "enqueue" /\ work'[w].new = work[w].new
        /\ UNCHANGED <<base, queued, faults>>
    BY <1>18, <1>g DEF Supersede
  <2>2. Verified' /\ Restarted'
    BY <2>1 DEF Pending, Verified, Restarted, Others
  <2>3. ASSUME TipCarried PROVE TipCarried'
    BY <2>1, <2>3 DEF TipCarried, Carries, Others
  <2> QED
    BY <2>1, <2>2, <2>3 DEF Pending
<1>19. ASSUME NEW w \in Workers, EnqueueRun(w) PROVE Pending'
  <2>1. /\ Others(w) /\ work[w].at = "enqueue" /\ work'[w].at = "idle"
        /\ UNCHANGED <<base, faults>>
        /\ active' # {} /\ queued' = (queued \/ work[w].new = base)
    BY <1>19, <1>r DEF EnqueueRun
  <2>2. Verified' /\ Restarted'
    BY <2>1 DEF Pending, Verified, Restarted, Others
  <2>3. ASSUME TipCarried PROVE TipCarried'
    BY <2>1, <2>3 DEF TipCarried, Carries, Others
  <2> QED
    BY <2>1, <2>2, <2>3 DEF Pending
<1>20. ASSUME NEW w \in Workers, StepFails(w) PROVE Pending'
  <2>1. faults' # 0
    BY <1>20, <1>t, FaultAssumption DEF StepFails, TypeOK
  <2>2. Others(w) /\ work'[w].at # "verify"
    BY <1>20, <1>g, <1>n, <1>r, <1>s DEF StepFails
  <2> QED
    BY <2>1, <2>2 DEF Pending, Verified, Others
<1>21. CASE Crash
  <2>1. faults' # 0
    BY <1>21, <1>t, FaultAssumption DEF Crash, TypeOK
  <2> QED
    BY <1>21, <2>1 DEF Crash, Pending, Verified, Idle, Job
<1>22. CASE UNCHANGED vars
  BY <1>22 DEF vars, Pending, Verified, TipCarried, Restarted
<1> QED
  BY <1>1, <1>2, <1>3, <1>4, <1>5, <1>6, <1>7, <1>8, <1>9, <1>10, <1>11, <1>12, <1>13, <1>14,
     <1>15, <1>16, <1>17, <1>18, <1>19, <1>20, <1>21, <1>22
  DEF Next, Merging, Pushing

-----------------------------------------------------------------------------
(* The theorems                                                            *)

LEMMA Start == Init => IInv
<1> SUFFICES ASSUME Init PROVE IInv
  OBVIOUS
<1>1. TypeOK
  BY IdleTyped, RootTyped, StampAssumption, FaultAssumption
  DEF Init, TypeOK, Row, PullStates, None, Commit, Jobs
<1>2. Shape
  BY IdleTyped DEF Init, Shape
<1>3. Root # None /\ \A p \in Pulls : pull[p].head = None
  BY DEF Init, Root, None, Row
<1>4. \A w \in Workers : work[w].at = "idle"
  BY DEF Init, Idle, Job
<1>5. Joined
  BY <1>3, <1>4, NoChanges, FreeJob DEF Init, Joined
<1> QED
  BY <1>1, <1>2, <1>5 DEF IInv

LEMMA Invariance == Spec => []IInv
<1>1. IInv /\ [Next]_vars => IInv'
  BY TypeStep, JoinedStep DEF IInv
<1> QED
  BY Start, <1>1, PTL DEF Spec

\* Every variable has its type, and a row has frozen tips exactly when it is
\* merged, through merges, auto-closes, closings and reopenings (storage
\* UpdatePull and MarkMerged).
THEOREM TypeCorrect == Spec => []TypeOK
<1>1. IInv => TypeOK
  BY DEF IInv
<1> QED
  BY Invariance, <1>1, PTL

\* On a protected base, the changes of a merged pull request's frozen head are
\* in the base, and so are those of one whose issues are being closed, however
\* merges, pushes, auto-closes, failures and crashes interleave (handleMergePull,
\* autoCloseMergedPRs).
THEOREM MergesAreJoined == Spec => []MergedMeansJoined
<1>1. IInv => MergedMeansJoined
  BY DEF IInv, Joined, Backed, MergedMeansJoined
<1> QED
  BY Invariance, <1>1, PTL

\* No merge and no push takes a commit from a protected base, and no write of
\* the server takes one from a head branch (doMerge, handleWriteSpec and the
\* pre-receive hook).
THEOREM NothingIsLost == Spec => NothingLost
<1> DEFINE Keeps == /\ Protected => base \subseteq base'
                    /\ work' # work => \A p \in Pulls : head[p] \subseteq head'[p]
<1>1. IInv /\ [Next]_vars => [Keeps]_vars
  BY BaseGrows, HeadsGrow
<1> QED
  BY Invariance, <1>1, PTL DEF Spec, NothingLost

\* When every request has ended and nothing has failed, a run was queued since the
\* base came to its tip and one run of the base is not superseded, however many
\* merges and pushes moved the base meanwhile (enqueueRefRun, handleCIEvents).
THEOREM TipsAreQueued == Spec => []TipQueued
<1>1. Init => Pending
  BY DEF Init, Pending, Verified, TipCarried, Restarted, Idle, Job
<1>2. IInv /\ Pending /\ [Next]_vars => Pending'
  BY PendingStep
<1>3. Pending => TipQueued
  BY DEF Pending, TipCarried, Restarted, Carries, TipQueued, Quiet, Idle, Job
<1> QED
  BY Invariance, <1>1, <1>2, <1>3, PTL DEF Spec
=============================================================================
