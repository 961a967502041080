------------------------------ MODULE PullMerge ------------------------------
(***************************************************************************)
(* The pull requests of one base branch: the merge endpoint, pushes to the *)
(* base with their two hooks, pushes and server-side commits to the head   *)
(* branches, and the CI runs of the base.                                  *)
(*                                                                         *)
(* A commit is the set of the entries reachable from it.  An entry is      *)
(* <<c, k>>: change c, written at stamp k; <<k, k>> is new work, <<c, k>>  *)
(* with c # k a replay of c by a rebase, <<0, k>> a merge commit.  "Is an  *)
(* ancestor of" is then inclusion, and the empty set stands for a branch   *)
(* that does not exist (the zero object id) and for a NULL column.         *)
(*                                                                         *)
(* Git commands and storage calls are atomic, nothing between them is; the *)
(* ones that create a branch or a row, or resolve a spec's parent, are one *)
(* step, since what could come between them may as well come before.       *)
(* Reviews only decide whether a merge is refused, so a merge may be       *)
(* refused at the gate at any time.  CI is on for the repository.          *)
(*                                                                         *)
(* Source: internal/server/merge.go, pulls.go, ci_hook.go, specs.go,       *)
(* branches.go, git.go, internal/storage/pulls.go.                         *)
(***************************************************************************)
EXTENDS Naturals, FiniteSets

CONSTANTS
    Pulls,       \* pull requests into the base, each with its head branch
    NoPull,
    Protected,   \* the base matches one of the repository's protected patterns
    Workers,     \* requests and pushes the server works on at once
    MaxStamp,    \* bound: commits written
    MaxFaults    \* bound: failing writes, lost hook calls and crashes

ASSUME PullAssumption == NoPull \notin Pulls
ASSUME ProtectedAssumption == Protected \in BOOLEAN
ASSUME StampAssumption == MaxStamp \in Nat \ {0}
ASSUME FaultAssumption == MaxFaults \in Nat

VARIABLES
    base,        \* refs/heads/<base>
    head,        \* head[p]: refs/heads/<head of p>
    pull,        \* pull[p]: the row, its state and the tips frozen at the merge
    done,        \* pull requests whose linked issues were moved to done
    active,      \* commits of the base whose CI run is not superseded
    queued,      \* history: a run was queued since the base came to its tip
    work,        \* work[w]: the request or push in progress
    stamp,       \* commits written so far
    faults

refs == <<base, head>>
rows == <<pull, done>>
runs == <<active, queued>>
vars == <<refs, rows, runs, work, stamp, faults>>

None == {}
Entry == (0..MaxStamp) \X (1..MaxStamp)
Commit == SUBSET Entry
Root == {<<1, 1>>}

PullStates == {"absent", "open", "closed", "merged"}
Row(s, b, h) == [state |-> s, base |-> b, head |-> h]

\* What a worker keeps between two steps: the pull request, the tip it expects
\* a ref to be at, the head it resolved, the tip it writes, and the pull
\* requests it has yet to look at.
Steps == {"idle", "gate", "head", "join", "verify", "mark", "close",
          "receive", "list", "scan", "automark", "supersede", "enqueue", "spec"}
Job(at, p, o, h, n) ==
    [at |-> at, pull |-> p, old |-> o, head |-> h, new |-> n, todo |-> {}]
Idle == Job("idle", NoPull, None, None, None)

Open == {p \in Pulls : pull[p].state = "open"}
Goto(w, at) == work' = [work EXCEPT ![w].at = at]
Return(w) == work' = [work EXCEPT ![w] = Idle]

\* commit-tree: the next commit.
Stamp == stamp + 1
Write == stamp < MaxStamp /\ stamp' = Stamp

\* The changes a commit contains, whatever commits carry them.
Changes(c) == {e[1] : e \in c} \ {0}

\* git merge-base --is-ancestor.
isAncestor(c, d) == c \subseteq d

\* Slip: update-ref without the old value.
updateRefBlindly(ref, old) == TRUE

\* git update-ref ref new old succeeds only if the ref still is at old.
updateRef(ref, old) == ref = old

MoveBase(n) == base' = n /\ queued' = FALSE

\* enqueueRefRun is called for the tip n; nothing else is needed any more.
BuildTip(w, n) == work' = [work EXCEPT ![w] = Job("supersede", NoPull, None, None, n)]

-----------------------------------------------------------------------------
(* Branches and rows                                                       *)

\* handleCreateBranch: at the tip of the base, if the name is free.
CreateBranch(p) ==
    /\ base # None
    /\ updateRef(head[p], None)
    /\ head' = [head EXCEPT ![p] = base]
    /\ UNCHANGED <<base, rows, runs, work, stamp, faults>>

\* A push to a head branch: new work, the base merged into it, or its deletion
\* (a forced push is a deletion and a new branch).  Heads are not protected.
PushHead(p) ==
    /\ head[p] # None
    /\ \/ /\ Write
          /\ head' = [head EXCEPT ![p] = @ \cup {<<Stamp, Stamp>>}]
       \/ /\ Write
          /\ ~isAncestor(base, head[p])
          /\ head' = [head EXCEPT ![p] = @ \cup base \cup {<<0, Stamp>>}]
       \/ /\ head' = [head EXCEPT ![p] = None]
          /\ UNCHANGED stamp
    /\ UNCHANGED <<base, rows, runs, work, faults>>

\* handleWriteSpec: the parent is resolved...
ResolveSpec(w, p) ==
    /\ work[w] = Idle
    /\ LET parent == IF head[p] = None THEN base ELSE head[p] IN
       /\ parent # None
       /\ work' = [work EXCEPT ![w] = Job("spec", p, head[p], parent, None)]
    /\ UNCHANGED <<refs, rows, runs, stamp, faults>>

\* ... and the branch moved to the new commit, unless somebody else has moved it,
\* the content is the old one or a git command fails.
WriteSpec(w) ==
    /\ work[w].at = "spec"
    /\ LET p == work[w].pull IN
       \/ /\ updateRef(head[p], work[w].old)
          /\ Write
          /\ head' = [head EXCEPT ![p] = work[w].head \cup {<<Stamp, Stamp>>}]
       \/ UNCHANGED <<head, stamp>>
    /\ Return(w)
    /\ UNCHANGED <<base, rows, runs, faults>>

\* handleCreatePull: both branches exist.
CreatePull(p) ==
    /\ pull[p].state = "absent"
    /\ base # None /\ head[p] # None
    /\ pull' = [pull EXCEPT ![p] = Row("open", None, None)]
    /\ UNCHANGED <<refs, done, runs, work, stamp, faults>>

\* handleUpdatePull: to closed or open, from any state, clearing the tips.
UpdatePull(p, s) ==
    /\ pull[p].state # "absent"
    /\ pull' = [pull EXCEPT ![p] = Row(s, None, None)]
    /\ UNCHANGED <<refs, done, runs, work, stamp, faults>>

-----------------------------------------------------------------------------
(* handleMergePull                                                         *)

\* GetPull: the pull request is open.
MergeRequest(w, p) ==
    /\ work[w] = Idle
    /\ p \in Open
    /\ work' = [work EXCEPT ![w] = Job("gate", p, None, None, None)]
    /\ UNCHANGED <<refs, rows, runs, stamp, faults>>

\* reviewGateBlocks.
GateBlocks(w) ==
    /\ work[w].at = "gate"
    /\ Return(w)
    /\ UNCHANGED <<refs, rows, runs, stamp, faults>>

\* The base is resolved, then the head; a missing branch ends the request.
ResolveBase(w) ==
    /\ work[w].at = "gate"
    /\ IF base = None THEN Return(w)
       ELSE work' = [work EXCEPT ![w].at = "head", ![w].old = base]
    /\ UNCHANGED <<refs, rows, runs, stamp, faults>>

ResolveHead(w) ==
    /\ work[w].at = "head"
    /\ LET tip == head[work[w].pull] IN
       IF tip = None THEN Return(w)
       ELSE work' = [work EXCEPT ![w].at = "join", ![w].head = tip]
    /\ UNCHANGED <<refs, rows, runs, stamp, faults>>

\* The head is in the base already: the pull request is marked with the head
\* as both its tips, and no ref moves.
AlreadyJoined(w) ==
    /\ work[w].at = "join"
    /\ isAncestor(work[w].head, work[w].old)
    /\ work' = [work EXCEPT ![w].at = "mark", ![w].old = work[w].head]
    /\ UNCHANGED <<refs, rows, runs, stamp, faults>>

\* The end of every method of doMerge: the base moves to n.
Advance(w, n, at) ==
    /\ ~isAncestor(work[w].head, work[w].old)
    /\ updateRef(base, work[w].old)
    /\ MoveBase(n)
    /\ work' = [work EXCEPT ![w].at = at, ![w].new = n]
    /\ UNCHANGED <<head, rows, active, faults>>

\* Fast-forward, also the rebase of a head that sits on the base.
FastForward(w) ==
    /\ work[w].at = "join"
    /\ isAncestor(work[w].old, work[w].head)
    /\ Advance(w, work[w].head, "verify")
    /\ UNCHANGED stamp

\* mergeTree and commitTree.
MergeCommit(w) ==
    /\ work[w].at = "join"
    /\ Write
    /\ Advance(w, work[w].old \cup work[w].head \cup {<<0, Stamp>>}, "mark")

\* rebaseOnto: every commit the head adds is replayed, merges are dropped.
rebaseOnto(b, h, k) == b \cup {<<e[1], k>> : e \in {f \in h \ b : f[1] # 0}}

Rebase(w) ==
    LET tip == rebaseOnto(work[w].old, work[w].head, Stamp) IN
    /\ work[w].at = "join"
    /\ ~isAncestor(work[w].old, work[w].head)
    /\ tip # work[w].old
    /\ Write
    /\ Advance(w, tip, "mark")

\* A conflict, a head that is not fast-forwardable or adds only merges, a
\* failing git command, or a base that has moved.
JoinRefused(w) ==
    /\ work[w].at = "join"
    /\ ~isAncestor(work[w].head, work[w].old)
    /\ Return(w)
    /\ UNCHANGED <<refs, rows, runs, stamp, faults>>

\* "Verify the ref actually advanced": anything but the head is a refusal.
VerifyAdvanced(w) ==
    /\ work[w].at = "verify"
    /\ IF base = work[w].head THEN Goto(w, "mark") ELSE Return(w)
    /\ UNCHANGED <<refs, rows, runs, stamp, faults>>

\* Slip: the tip to freeze is read when the row is written.
MarkMergedLive(w) ==
    LET tip == head[work[w].pull] IN
    pull' = [pull EXCEPT ![work[w].pull] =
               Row("merged", work[w].old, IF tip = None THEN work[w].head ELSE tip)]

\* storage.MarkMerged: whatever the state of the row.
MarkMerged(w) ==
    pull' = [pull EXCEPT ![work[w].pull] =
               Row("merged", work[w].old, work[w].head)]

RecordMerge(w) ==
    /\ work[w].at = "mark"
    /\ MarkMerged(w)
    /\ Goto(w, "close")
    /\ UNCHANGED <<refs, done, runs, stamp, faults>>

\* Slip: nobody builds the merged base.
CloseLinkedIssuesOnly(w) ==
    /\ work[w].at = "close"
    /\ done' = done \cup {work[w].pull}
    /\ Return(w)
    /\ UNCHANGED <<refs, pull, runs, stamp, faults>>

\* closeLinkedIssues; a base that has moved is built next (enqueueMergeRun).
CloseLinkedIssues(w) ==
    /\ work[w].at = "close"
    /\ done' = done \cup {work[w].pull}
    /\ IF work[w].new = None THEN Return(w) ELSE BuildTip(w, work[w].new)
    /\ UNCHANGED <<refs, pull, runs, stamp, faults>>

-----------------------------------------------------------------------------
(* A push to the base: pre-receive, receive-pack, post-receive             *)

\* The pre-receive hook: a protected branch is neither deleted nor rewritten.
PreReceive(old, new) ==
    Protected => new # None /\ (old = None \/ isAncestor(old, new))

\* A client pushes new work, a merge it made itself, a head branch, a deletion
\* (a head that is gone) or a rewritten history.
Push(w) ==
    /\ work[w] = Idle
    /\ \E new \in {base \cup {<<Stamp, Stamp>>}, Root \cup {<<Stamp, Stamp>>}}
               \cup {base \cup head[p] \cup {<<0, Stamp>>} : p \in {q \in Pulls : ~isAncestor(head[q], base)}}
               \cup {head[p] : p \in Pulls} :
          /\ new # base
          /\ PreReceive(base, new)
          /\ IF \E p \in Pulls : new = head[p] THEN UNCHANGED stamp ELSE Write
          /\ work' = [work EXCEPT ![w] = Job("receive", NoPull, base, None, new)]
    /\ UNCHANGED <<refs, rows, runs, faults>>

\* receive-pack moves the ref if it is where the push began.
ReceivePack(w) ==
    /\ work[w].at = "receive"
    /\ IF updateRef(base, work[w].old)
         THEN /\ MoveBase(work[w].new)
              /\ IF work[w].new = None THEN Return(w) ELSE Goto(w, "list")
         ELSE Return(w) /\ UNCHANGED <<base, queued>>
    /\ UNCHANGED <<head, rows, active, stamp, faults>>

\* handleCIEvents, autoCloseMergedPRs: the open pull requests into the base...
OpenPRsForBase(w) ==
    /\ work[w].at = "list"
    /\ work' = [work EXCEPT ![w].at = "scan", ![w].todo = Open]
    /\ UNCHANGED <<refs, rows, runs, stamp, faults>>

\* ... each with the head it has now...
ScanPull(w, p) ==
    /\ work[w].at = "scan"
    /\ p \in work[w].todo
    /\ IF head[p] # None /\ isAncestor(head[p], work[w].new)
         THEN work' = [work EXCEPT ![w].at = "automark", ![w].todo = @ \ {p},
                                   ![w].pull = p, ![w].head = head[p]]
         ELSE work' = [work EXCEPT ![w].todo = @ \ {p}]
    /\ UNCHANGED <<refs, rows, runs, stamp, faults>>

ScanNext(w) ==
    work' = [work EXCEPT ![w].at = "scan", ![w].pull = NoPull, ![w].head = None]

\* ... is marked merged if the push contains it.
AutoClose(w) ==
    /\ work[w].at = "automark"
    /\ MarkMerged(w)
    /\ ScanNext(w)
    /\ UNCHANGED <<refs, done, runs, stamp, faults>>

ScanDone(w) ==
    /\ work[w].at = "scan"
    /\ work[w].todo = {}
    /\ BuildTip(w, work[w].new)
    /\ UNCHANGED <<refs, rows, runs, stamp, faults>>

-----------------------------------------------------------------------------
(* enqueueRefRun, for a push and for a merge                               *)

\* The active runs of the base are cancelled (CIRun has the single steps).
Supersede(w) ==
    /\ work[w].at = "supersede"
    /\ active' = {}
    /\ Goto(w, "enqueue")
    /\ UNCHANGED <<refs, rows, queued, stamp, faults>>

EnqueueRun(w) ==
    /\ work[w].at = "enqueue"
    /\ active' = active \cup {work[w].new}
    /\ queued' = (queued \/ work[w].new = base)
    /\ Return(w)
    /\ UNCHANGED <<refs, rows, stamp, faults>>

-----------------------------------------------------------------------------
(* Failures                                                                *)

\* A storage call fails, or the hook's call is lost, and the request ends there;
\* but the auto-close goes on without its list and after a row it could not
\* write, and a run is queued although the older ones could not be listed.
StepFails(w) ==
    /\ faults < MaxFaults
    /\ faults' = faults + 1
    /\ \/ work[w].at \in {"mark", "supersede", "enqueue", "list"} /\ Return(w)
       \/ work[w].at = "list" /\ BuildTip(w, work[w].new)
       \/ work[w].at = "automark" /\ ScanNext(w)
       \/ work[w].at = "supersede" /\ Goto(w, "enqueue")
    /\ UNCHANGED <<refs, rows, runs, stamp>>

\* The process dies with everything it was doing.
Crash ==
    /\ faults < MaxFaults
    /\ faults' = faults + 1
    /\ work' = [w \in Workers |-> Idle]
    /\ UNCHANGED <<refs, rows, runs, stamp>>

-----------------------------------------------------------------------------
Init ==
    /\ base = Root
    /\ head = [p \in Pulls |-> None]
    /\ pull = [p \in Pulls |-> Row("absent", None, None)]
    /\ done = {}
    /\ active = {Root} /\ queued = TRUE
    /\ work = [w \in Workers |-> Idle]
    /\ stamp = 1 /\ faults = 0

Branches(p) ==
    CreateBranch(p) \/ PushHead(p) \/ CreatePull(p)
        \/ \E s \in {"open", "closed"} : UpdatePull(p, s)

Merging(w) ==
    \/ \E p \in Pulls : MergeRequest(w, p)
    \/ GateBlocks(w) \/ ResolveBase(w) \/ ResolveHead(w)
    \/ AlreadyJoined(w) \/ FastForward(w) \/ MergeCommit(w) \/ Rebase(w)
    \/ JoinRefused(w) \/ VerifyAdvanced(w) \/ RecordMerge(w) \/ CloseLinkedIssues(w)

Pushing(w) ==
    \/ Push(w) \/ ReceivePack(w) \/ OpenPRsForBase(w)
    \/ \E p \in Pulls : ScanPull(w, p)
    \/ AutoClose(w) \/ ScanDone(w)

Next ==
    \/ \E p \in Pulls : Branches(p)
    \/ \E w \in Workers : \/ Merging(w) \/ Pushing(w)
                          \/ Supersede(w) \/ EnqueueRun(w)
                          \/ \E p \in Pulls : ResolveSpec(w, p)
                          \/ WriteSpec(w)
                          \/ StepFails(w)
    \/ Crash

Spec == Init /\ [][Next]_vars

-----------------------------------------------------------------------------
(* Properties                                                              *)

\* Every variable has its type; a row has frozen tips exactly when it is merged
\* ("so the invariant ... always holds", UpdatePull), whoever wrote it last.
TypeOK ==
    /\ base \in Commit
    /\ head \in [Pulls -> Commit]
    /\ pull \in [Pulls -> [state: PullStates, base: Commit, head: Commit]]
    /\ \A p \in Pulls : pull[p].state = "merged" <=> pull[p].head # None
    /\ done \subseteq Pulls
    /\ active \subseteq Commit /\ queued \in BOOLEAN
    /\ work \in [Workers -> [at: Steps, pull: Pulls \cup {NoPull}, old: Commit,
                             head: Commit, new: Commit, todo: SUBSET Pulls]]
    /\ stamp \in 1..MaxStamp
    /\ faults \in 0..MaxFaults

\* "a concurrent push that moved base is detected and the merge is refused ...
\* rather than clobbering the push" (specs/pull-requests.md), and likewise for a
\* spec commit: a protected base never loses a commit, and no server-side write
\* takes one from a head branch.
NothingLost ==
    [][/\ Protected => base \subseteq base'
       /\ work' # work => \A p \in Pulls : head[p] \subseteq head'[p]]_vars

\* "so the branches are actually joined" (handleUpdatePull): on a protected base
\* the changes of a merged pull request's head, and of one whose issues are being
\* closed, are in the base, whoever else moved it or the head meanwhile.
MergedMeansJoined ==
    Protected =>
        /\ \A p \in Pulls : Changes(pull[p].head) \subseteq Changes(base)
        /\ \A w \in Workers : work[w].at = "close" => Changes(work[w].head) \subseteq Changes(base)

Quiet == faults = 0 /\ base # None /\ \A w \in Workers : work[w] = Idle

\* "without this the canonical branch would land merges with no CI at all"
\* (enqueueRefRun): when all requests have ended and nothing has failed, a run
\* was queued for the tip of the base, whichever way it got there, and the runs
\* that superseded one another have left one standing.
TipQueued == Quiet => queued /\ active # {}
=============================================================================
