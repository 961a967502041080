---------------------------- MODULE IssueProofs -----------------------------
(***************************************************************************)
(* The issues' proofs.  The dependency graph, for any set of numbers and   *)
(* any number of handlers: it stays acyclic and free of dangling edges, an *)
(* edge is refused only if it would have closed a cycle, and some open     *)
(* issue always waits for none.                                            *)
(*                                                                         *)
(* Reachability is the least closed set, so no induction over paths is     *)
(* needed: that a is out of b's reach means that some closed set holds b   *)
(* and not a.  When the walk ends, its visited set is such a set.  And an  *)
(* issue reaches strictly more than what it depends on, so that among      *)
(* finitely many open issues one whose reach is least waits for none.      *)
(*                                                                         *)
(* The claim, for any number of agents, any lease and any length of a      *)
(* second: it is exclusive while it is trusted, an orphan surfaces in time,*)
(* and a settled issue keeps its assignee.                                 *)
(*                                                                         *)
(* An agent that has lost its claim without giving it back lost it to      *)
(* somebody who found it stale, and a stale claim stays stale; and each    *)
(* sweep leaves an open claim only if it is not stale, so that what is     *)
(* claimed now was renewed, taken or reopened after the last sweep or was  *)
(* fresh at it.                                                            *)
(***************************************************************************)
EXTENDS IssueGraph, IssueClaims, FiniteSetTheorems, WellFoundedInduction, TLAPS

-----------------------------------------------------------------------------
(* The dependency graph                                                    *)

ClosedIn(D, S) == \A e \in D : e[1] \in S => e[2] \in S

\* a is out of the reach of b in the graph D.
Apart(D, a, b) == \E S \in SUBSET Numbers : b \in S /\ a \notin S /\ ClosedIn(D, S)

InTx == {"walk", "cycle"}

\* The one connection: at most one handler is inside a transaction.
OneTx == \A v, w \in Writers : op[v] \in InTx /\ op[w] \in InTx => v = w

\* What dependsOnReaches keeps true while it walks.
WalkOf(w) ==
    LET n == arg[w][1]
        d == arg[w][2]
        seen == visited[w] \cup frontier[w] IN
    /\ n \in live /\ d \in live
    /\ d \in seen
    /\ n \notin visited[w]
    /\ \A e \in deps : e[1] \in visited[w] => e[2] \in seen
    /\ seen \subseteq Reach(d)
    /\ op[w] = "cycle" => n \in frontier[w]

Walk == \A w \in Writers : op[w] \in InTx => WalkOf(w)

\* The inductive invariant.
IInv == TypeOK /\ OneTx /\ Walk /\ NoDanglingEdges /\ Acyclic

-----------------------------------------------------------------------------
(* Facts about the graph                                                   *)

\* Being acyclic is having every edge's ends apart.
LEMMA AcyclicApart ==
    ASSUME TypeOK
    PROVE  Acyclic <=> \A e \in deps : Apart(deps, e[1], e[2])
  BY DEF TypeOK, Acyclic, Reach, Closed, Apart, ClosedIn

\* An edge less keeps apart what was apart.
LEMMA ApartShrinks ==
    ASSUME NEW D, NEW C \in SUBSET D, NEW a, NEW b, Apart(D, a, b)
    PROVE  Apart(C, a, b)
  BY DEF Apart, ClosedIn

\* An edge n -> d more keeps the ends of an edge apart, if n was out of the
\* reach of d.
LEMMA ApartGrows ==
    ASSUME NEW D \in SUBSET (Numbers \X Numbers),
           NEW n \in Numbers, NEW d \in Numbers, Apart(D, n, d),
           NEW a \in Numbers, NEW b \in Numbers, <<a, b>> \in D, Apart(D, a, b)
    PROVE  Apart(D \cup {<<n, d>>}, a, b)
<1>1. PICK S \in SUBSET Numbers : d \in S /\ n \notin S /\ ClosedIn(D, S)
  BY DEF Apart
<1>2. PICK T \in SUBSET Numbers : b \in T /\ a \notin T /\ ClosedIn(D, T)
  BY DEF Apart
<1>3. CASE a \in S
  <2>1. b \in S \cap T /\ a \notin S \cap T
    BY <1>1, <1>2, <1>3 DEF ClosedIn
  <2>2. ClosedIn(D \cup {<<n, d>>}, S \cap T)
    BY <1>1, <1>2 DEF ClosedIn
  <2> QED
    BY <2>1, <2>2 DEF Apart
<1>4. CASE a \notin S
  <2>1. b \in S \cup T /\ a \notin S \cup T
    BY <1>2, <1>4
  <2>2. ClosedIn(D \cup {<<n, d>>}, S \cup T)
    BY <1>1, <1>2 DEF ClosedIn
  <2> QED
    BY <2>1, <2>2 DEF Apart
<1> QED
  BY <1>3, <1>4

\* What is reached stays within reach one edge further.
LEMMA ReachStep ==
    ASSUME TypeOK, NEW x, NEW m \in Reach(x), NEW k \in Numbers, <<m, k>> \in deps
    PROVE  k \in Reach(x)
<1>1. \A S \in SUBSET Numbers : x \in S /\ Closed(S) => k \in S
  BY DEF Reach, Closed
<1> QED
  BY <1>1 DEF Reach

-----------------------------------------------------------------------------
(* The invariant                                                           *)

LEMMA TypeStep == TypeOK /\ Walk /\ [Next]_vars => TypeOK'
<1> SUFFICES ASSUME TypeOK, Walk, [Next]_vars PROVE TypeOK'
  OBVIOUS
<1> USE NumbersAssumption DEF TypeOK, NoIssue, NoCall, rowVars, callVars
<1>1. ASSUME NEW n \in Numbers, NEW p \in Numbers \cup {NoIssue}, CreateIssue(n, p)
      PROVE  TypeOK'
  BY <1>1 DEF CreateIssue
<1>2. ASSUME NEW n \in Numbers, DeleteIssue(n) PROVE TypeOK'
  BY <1>2 DEF DeleteIssue
<1>3. ASSUME NEW n \in Numbers, UpdateState(n) PROVE TypeOK'
  BY <1>3 DEF UpdateState
<1>4. ASSUME NEW n \in Numbers, ClearParent(n) PROVE TypeOK'
  BY <1>4 DEF ClearParent
<1>5. ASSUME NEW n \in Numbers, NEW d \in Numbers, RemoveDependency(n, d) PROVE TypeOK'
  BY <1>5 DEF RemoveDependency
<1>6. ASSUME NEW w \in Writers, NEW n \in Numbers, NEW p \in Numbers, CheckParent(w, n, p)
      PROVE  TypeOK'
  BY <1>6 DEF CheckParent
<1>7. ASSUME NEW w \in Writers, NEW n \in Numbers, NEW d \in Numbers, BeginAdd(w, n, d)
      PROVE  TypeOK'
  BY <1>7 DEF BeginAdd
<1>8. ASSUME NEW w \in Writers, NEW cur \in Numbers, Expand(w, cur) PROVE TypeOK'
  BY <1>8 DEF Expand, DependsOn
<1>9. ASSUME NEW w \in Writers, WriteParent(w) PROVE TypeOK'
  BY <1>9 DEF WriteParent
<1>10. ASSUME NEW w \in Writers, WriteParentMisses(w) PROVE TypeOK'
  BY <1>10 DEF WriteParentMisses
<1>11. ASSUME NEW w \in Writers, Arrive(w) PROVE TypeOK'
  BY <1>11 DEF Arrive
<1>12. ASSUME NEW w \in Writers, InsertEdge(w) PROVE TypeOK'
  <2>1. arg[w] \in Numbers \X Numbers
    BY <1>12 DEF InsertEdge, Walk, WalkOf, InTx
  <2> QED
    BY <1>12, <2>1 DEF InsertEdge
<1>13. ASSUME NEW w \in Writers, Refuse(w) PROVE TypeOK'
  BY <1>13 DEF Refuse
<1>14. CASE UNCHANGED vars
  BY <1>14 DEF vars
<1> QED
  BY <1>1, <1>2, <1>3, <1>4, <1>5, <1>6, <1>7, <1>8, <1>9, <1>10, <1>11, <1>12, <1>13, <1>14
     DEF Next

\* Only one handler at a time enters a transaction.
LEMMA OneTxStep == TypeOK /\ OneTx /\ [Next]_vars => OneTx'
<1> SUFFICES ASSUME TypeOK, OneTx, [Next]_vars PROVE OneTx'
  OBVIOUS
<1> USE DEF TypeOK, OneTx, InTx, rowVars, callVars
<1>1. ASSUME NEW w \in Writers, NEW n \in Numbers, NEW d \in Numbers, BeginAdd(w, n, d)
      PROVE  OneTx'
  BY <1>1 DEF BeginAdd, Free
<1>2. ASSUME NEW w \in Writers, NEW n \in Numbers, NEW p \in Numbers, CheckParent(w, n, p)
      PROVE  OneTx'
  BY <1>2 DEF CheckParent
<1>3. ASSUME NEW w \in Writers,
             WriteParent(w) \/ WriteParentMisses(w) \/ Arrive(w) \/ InsertEdge(w) \/ Refuse(w)
      PROVE  OneTx'
  BY <1>3 DEF WriteParent, WriteParentMisses, Arrive, InsertEdge, Refuse
<1>4. CASE UNCHANGED op
  BY <1>4
<1> QED
  BY <1>1, <1>2, <1>3, <1>4
     DEF Next, vars, CreateIssue, DeleteIssue, UpdateState, ClearParent, RemoveDependency, Expand

\* While a transaction is open nobody else writes, so that the walk's graph
\* stands still.
LEMMA WalkStep == IInv /\ [Next]_vars => Walk'
<1> SUFFICES ASSUME IInv, [Next]_vars, NEW v \in Writers, (op[v] \in InTx)' PROVE WalkOf(v)'
  BY DEF Walk
<1> USE DEF IInv
<1>1. ASSUME UNCHANGED <<live, deps, op[v], arg[v], frontier[v], visited[v]>> PROVE WalkOf(v)'
  BY <1>1 DEF Walk, WalkOf, Reach, Closed, InTx
<1>2. ASSUME Free, op[v] = op'[v] PROVE FALSE
  BY <1>2 DEF Free, InTx
<1>3. ASSUME NEW n \in Numbers, NEW d \in Numbers, BeginAdd(v, n, d) PROVE WalkOf(v)'
  <2> USE <1>3 DEF BeginAdd, TypeOK, rowVars
  <2>1. d \in Reach(d)
    BY DEF Reach
  <2>2. Reach(d)' = Reach(d)
    BY DEF Reach, Closed
  <2>3. /\ arg'[v] = <<n, d>> /\ frontier'[v] = {d} /\ visited'[v] = {}
        /\ op'[v] = "walk" /\ live' = live /\ deps' = deps
    OBVIOUS
  <2> QED
    BY <2>1, <2>2, <2>3 DEF WalkOf
<1>4. ASSUME Arrive(v) PROVE WalkOf(v)'
  BY <1>4 DEF Arrive, Walk, WalkOf, Reach, Closed, InTx, TypeOK, rowVars
<1>5. ASSUME NEW cur \in Numbers, Expand(v, cur) PROVE WalkOf(v)'
  <2> DEFINE n == arg[v][1]
             d == arg[v][2]
  <2>1. WalkOf(v)
    BY <1>5 DEF Expand, Walk, InTx
  <2>2. /\ op[v] = "walk" /\ op' = op /\ arg' = arg /\ live' = live /\ deps' = deps
        /\ cur \in frontier[v] /\ cur # n
        /\ visited'[v] = visited[v] \cup {cur}
        /\ frontier'[v] = (frontier[v] \ {cur}) \cup
                            (IF cur \in visited[v] THEN {} ELSE DependsOn(cur))
    BY <1>5 DEF Expand, TypeOK, rowVars
  <2>3. Reach(d)' = Reach(d)
    BY <2>2 DEF Reach, Closed
  <2>4. DependsOn(cur) \subseteq Reach(d)
    BY <2>1, <2>2, ReachStep DEF DependsOn, WalkOf
  <2>5. \A e \in deps : e[1] \in visited'[v] => e[2] \in visited'[v] \cup frontier'[v]
    BY <2>1, <2>2 DEF WalkOf, DependsOn, TypeOK
  <2>6. (visited[v] \cup frontier[v])' \subseteq Reach(d)
    BY <2>1, <2>2, <2>4 DEF WalkOf
  <2>7. /\ n \in live /\ d \in live /\ d \in visited'[v] \cup frontier'[v]
        /\ n \notin visited'[v]
    BY <2>1, <2>2 DEF WalkOf
  <2> QED
    BY <2>2, <2>3, <2>5, <2>6, <2>7 DEF WalkOf
\* The steps taken on an idle connection leave no other transaction to disturb.
<1>6. ASSUME NEW n \in Numbers,
             \/ \E q \in Numbers \cup {NoIssue} : CreateIssue(n, q)
             \/ DeleteIssue(n) \/ UpdateState(n) \/ ClearParent(n)
             \/ \E d \in Numbers : RemoveDependency(n, d)
      PROVE  FALSE
  BY <1>2, <1>6 DEF CreateIssue, DeleteIssue, UpdateState, ClearParent, RemoveDependency, callVars
<1>7. ASSUME NEW u \in Writers,
             \/ WriteParent(u) \/ WriteParentMisses(u)
             \/ \E n, p \in Numbers : CheckParent(u, n, p)
             \/ u # v /\ \E n, d \in Numbers : BeginAdd(u, n, d)
      PROVE  FALSE
  <2>1. Free
    BY <1>7 DEF WriteParent, WriteParentMisses, CheckParent, BeginAdd
  <2>2. op'[v] = op[v] \/ op'[v] \in {"idle", "parent"}
    BY <1>7 DEF WriteParent, WriteParentMisses, CheckParent, BeginAdd, TypeOK
  <2> QED
    BY <1>2, <2>1, <2>2 DEF InTx
<1>8. ASSUME NEW u \in Writers, u # v,
             Arrive(u) \/ InsertEdge(u) \/ Refuse(u) \/ \E cur \in Numbers : Expand(u, cur)
      PROVE  FALSE
  <2>1. op[u] \in InTx /\ op'[v] = op[v]
    BY <1>8 DEF Arrive, InsertEdge, Refuse, Expand, InTx, TypeOK
  <2> QED
    BY <1>8, <2>1 DEF OneTx
<1>9. ASSUME InsertEdge(v) \/ Refuse(v) PROVE FALSE
  BY <1>9 DEF InsertEdge, Refuse, InTx, TypeOK
<1>10. CASE UNCHANGED vars
  BY <1>1, <1>10 DEF vars, rowVars, callVars
<1> QED
  BY <1>3, <1>4, <1>5, <1>6, <1>7, <1>8, <1>9, <1>10 DEF Next

\* Edges are added between live issues and go with them.
LEMMA EdgeStep == IInv /\ [Next]_vars => NoDanglingEdges'
<1> SUFFICES ASSUME IInv, [Next]_vars PROVE NoDanglingEdges'
  OBVIOUS
<1> USE DEF IInv, NoDanglingEdges
<1>1. ASSUME deps' \subseteq deps, live \subseteq live' PROVE NoDanglingEdges'
  BY <1>1
<1>2. ASSUME NEW n \in Numbers, DeleteIssue(n) PROVE NoDanglingEdges'
  BY <1>2 DEF DeleteIssue
<1>3. ASSUME NEW w \in Writers, InsertEdge(w) PROVE NoDanglingEdges'
  <2>1. arg[w][1] \in live /\ arg[w][2] \in live
    BY <1>3 DEF InsertEdge, Walk, WalkOf, InTx
  <2> QED
    BY <1>3, <2>1 DEF InsertEdge
<1> QED
  BY <1>1, <1>2, <1>3
     DEF Next, vars, rowVars, CreateIssue, UpdateState, ClearParent, RemoveDependency, CheckParent,
         BeginAdd, Expand, WriteParent, WriteParentMisses, Arrive, Refuse

\* The walk that ended with an empty stack has closed its visited set around
\* the new edge's target, leaving its source out.
LEMMA AcyclicStep == IInv /\ [Next]_vars => Acyclic'
<1> SUFFICES ASSUME IInv, [Next]_vars PROVE Acyclic'
  OBVIOUS
<1>0. TypeOK'
  BY TypeStep DEF IInv
<1>1. SUFFICES \A e \in deps' : Apart(deps', e[1], e[2])
  BY <1>0 DEF TypeOK, Acyclic, Reach, Closed, Apart, ClosedIn
<1>2. \A e \in deps : Apart(deps, e[1], e[2])
  BY AcyclicApart DEF IInv
<1>3. ASSUME deps' \subseteq deps PROVE \A e \in deps' : Apart(deps', e[1], e[2])
  BY <1>2, <1>3, ApartShrinks
<1>4. ASSUME NEW w \in Writers, InsertEdge(w) PROVE \A e \in deps' : Apart(deps', e[1], e[2])
  <2> DEFINE n == arg[w][1]
             d == arg[w][2]
  <2>1. /\ n \in Numbers /\ d \in Numbers /\ arg[w] = <<n, d>>
        /\ visited[w] \in SUBSET Numbers /\ d \in visited[w] /\ n \notin visited[w]
        /\ ClosedIn(deps, visited[w])
    BY <1>4 DEF IInv, InsertEdge, Walk, WalkOf, InTx, TypeOK, ClosedIn
  <2>2. deps' = deps \cup {<<n, d>>}
    BY <1>4, <2>1 DEF InsertEdge
  <2>3. Apart(deps, n, d)
    BY <2>1 DEF Apart
  <2>4. Apart(deps', n, d)
    <3>1. ClosedIn(deps', visited[w])
      BY <2>1, <2>2 DEF ClosedIn
    <3> QED
      BY <2>1, <3>1 DEF Apart
  <2>5. ASSUME NEW e \in deps PROVE Apart(deps', e[1], e[2])
    <3>1. /\ deps \in SUBSET (Numbers \X Numbers) /\ e[1] \in Numbers /\ e[2] \in Numbers
          /\ <<e[1], e[2]>> \in deps
      BY <2>5 DEF IInv, TypeOK
    <3> QED
      BY <1>2, <2>1, <2>2, <2>3, <3>1, ApartGrows
  <2> QED
    BY <2>2, <2>4, <2>5
<1> QED
  BY <1>3, <1>4
     DEF Next, vars, rowVars, CreateIssue, DeleteIssue, UpdateState, ClearParent, RemoveDependency,
         CheckParent, BeginAdd, Expand, WriteParent, WriteParentMisses, Arrive, Refuse

LEMMA InitInv == Init => IInv
  BY DEF Init, IInv, TypeOK, OneTx, Walk, InTx, NoDanglingEdges, Acyclic, NoIssue, NoCall

LEMMA Invariance == Spec => []IInv
<1>1. IInv /\ [Next]_vars => IInv'
  BY TypeStep, OneTxStep, WalkStep, EdgeStep, AcyclicStep DEF IInv
<1> QED
  BY InitInv, <1>1, PTL DEF Spec

-----------------------------------------------------------------------------
(* The backlog                                                             *)

\* Only finitely many issues were ever created and not deleted.
Finite == IsFiniteSet(live)

LEMMA FiniteStep == Finite /\ [Next]_vars => Finite'
<1> SUFFICES ASSUME IsFiniteSet(live), [Next]_vars PROVE IsFiniteSet(live')
  BY DEF Finite
<1>1. ASSUME NEW n \in Numbers, live' = live \cup {n} PROVE IsFiniteSet(live')
  BY <1>1, FS_AddElement
<1>2. ASSUME live' \subseteq live PROVE IsFiniteSet(live')
  BY <1>2, FS_Subset
<1> QED
  BY <1>1, <1>2
     DEF Next, vars, rowVars, CreateIssue, DeleteIssue, UpdateState, ClearParent, RemoveDependency,
         CheckParent, BeginAdd, Expand, WriteParent, WriteParentMisses, Arrive, InsertEdge, Refuse

\* What a live issue reaches is live, and more than what its dependency reaches.
LEMMA ReachLive ==
    ASSUME TypeOK, NoDanglingEdges, NEW n \in live
    PROVE  n \in Reach(n) /\ Reach(n) \subseteq live
<1>1. live \in SUBSET Numbers /\ Closed(live)
  BY DEF TypeOK, NoDanglingEdges, Closed
<1> QED
  BY <1>1 DEF TypeOK, Reach

LEMMA ReachShrinks ==
    ASSUME TypeOK, Acyclic, NEW n \in live, NEW d \in live, <<n, d>> \in deps
    PROVE  Reach(d) \subseteq Reach(n) /\ n \notin Reach(d)
<1>1. n \notin Reach(d)
  BY DEF Acyclic
<1>2. ASSUME NEW m \in Reach(d), NEW S \in SUBSET Numbers, n \in S, Closed(S) PROVE m \in S
  BY <1>2 DEF Reach, Closed
<1>3. Reach(d) \subseteq Reach(n)
  BY <1>2 DEF Reach
<1> QED
  BY <1>1, <1>3

\* Of the open issues one has a least reach, and that one is ready.
LEMMA SomeoneReady ==
    ASSUME TypeOK, NoDanglingEdges, Acyclic, IsFiniteSet(live)
    PROVE  BacklogMoves
<1> DEFINE Waiting == live \ settled
           Reaches == {Reach(n) : n \in Waiting}
<1> SUFFICES ASSUME Waiting # {} PROVE \E n \in Waiting : ~HasUnmetDep(n)
  BY DEF TypeOK, BacklogMoves
<1>1. \A n \in Waiting : n \in Reach(n) /\ Reach(n) \in SUBSET live
  BY ReachLive
<1>2. Reaches \subseteq FiniteSubsetsOf(live)
  BY <1>1, FS_Subset DEF FiniteSubsetsOf
<1>3. PICK R \in Reaches : \A Q \in Reaches : <<Q, R>> \notin StrictSubsetOrdering(live)
  <2>1. Reaches # {}
    OBVIOUS
  <2> HIDE DEF Reaches
  <2> QED
    BY <1>2, <2>1, FS_StrictSubsetOrderingWellFounded, WFMin
<1>4. PICK n \in Waiting : R = Reach(n)
  OBVIOUS
<1>5. ASSUME NEW t \in live, <<n, t>> \in deps, t \notin settled PROVE FALSE
  <2>1. Reach(t) \subseteq Reach(n) /\ n \notin Reach(t)
    BY <1>5, ReachShrinks
  <2>2. <<Reach(t), R>> \in StrictSubsetOrdering(live)
    BY <1>1, <1>4, <1>5, <2>1 DEF StrictSubsetOrdering
  <2> QED
    BY <1>3, <1>5, <2>2
<1> QED
  BY <1>4, <1>5 DEF HasUnmetDep

-----------------------------------------------------------------------------
(* The theorems                                                            *)

\* Every variable of IssueGraph keeps its type.
THEOREM TypeCorrect == Spec => []TypeOK
<1>1. IInv => TypeOK
  BY DEF IInv
<1> QED
  BY Invariance, <1>1, PTL

\* AddDependency and DeleteIssue keep the dependency graph acyclic, for any
\* number of issues and concurrent requests.
THEOREM AlwaysAcyclic == Spec => []Acyclic
<1>1. IInv => Acyclic
  BY DEF IInv
<1> QED
  BY Invariance, <1>1, PTL

\* DeleteIssue never leaves an edge with a missing end, and no insert does.
THEOREM NeverDangling == Spec => []NoDanglingEdges
<1>1. IInv => NoDanglingEdges
  BY DEF IInv
<1> QED
  BY Invariance, <1>1, PTL

\* dependsOnReaches answers true only when the target is in reach: together
\* with AlwaysAcyclic, AddDependency refuses exactly the edges it must.
THEOREM RefusalsJustified == Spec => []RefusalJustified
<1>1. IInv => RefusalJustified
  BY DEF IInv, Walk, WalkOf, RefusalJustified, InTx
<1> QED
  BY Invariance, <1>1, PTL

\* While an issue is open, one of them waits for no other: whatever edges were
\* added and whatever was deleted and settled, the ready view (ListIssues) can
\* always offer an issue of those that are left, claims and epics apart.
THEOREM BacklogAlwaysMoves == Spec => []BacklogMoves
<1>1. Init => Finite
  BY FS_EmptySet DEF Init, Finite
<1>2. IInv /\ Finite => BacklogMoves
  BY SomeoneReady DEF IInv, Finite
<1> QED
  BY Invariance, <1>1, <1>2, FiniteStep, PTL DEF Spec

-----------------------------------------------------------------------------
(* The claim on an issue                                                   *)

Parameters == /\ TicksPerSecond \in Nat \ {0} /\ ReaperFloor \in Nat \ {0}
              /\ NoAgent \notin Agents
              /\ Leases \subseteq Nat /\ MaxTime \in Nat

\* The claim of the assignee carries the second it was taken in.
Stamped ==
    /\ assignee = NoAgent => claimedAt = Never
    /\ \A a \in Agents : assignee = a => taken[a] # Never /\ claimedAt = Second(taken[a])

\* Whoever thinks it holds a claim that it lost held it for a whole lease.
LostIsStale ==
    \A a \in Agents : taken[a] # Never /\ assignee # a =>
        lease > 0 /\ Second(now) - Second(taken[a]) >= LeaseSeconds

\* The reaper is never late, and its last sweep was one interval before the next.
LastSweep == sweepAt - Interval
Punctual == lease > 0 => LastSweep \in 0..now /\ now <= sweepAt

\* An open claim got past the last sweep for a reason.
PastSweep ==
    lease > 0 /\ assignee # NoAgent /\ ~finished =>
        \/ opened >= LastSweep
        \/ taken[assignee] >= LastSweep
        \/ claimedAt > Second(LastSweep) - LeaseSeconds

\* The inductive invariant.
ClaimsInv == ClaimsTypeOK /\ Stamped /\ LostIsStale /\ Punctual /\ PastSweep

-----------------------------------------------------------------------------
(* Facts about seconds                                                     *)

LEMMA Params == Parameters
  BY AgentAssumption, TimeAssumption, LeaseAssumption DEF Parameters

LEMMA ProductMonotone ==
    ASSUME NEW k \in Nat, NEW a \in Int, NEW b \in Int, a <= b
    PROVE  k * a <= k * b
<1>1. k * (b - a) >= 0
  BY SMT
<1>2. k * b = k * a + k * (b - a)
  BY SMT
<1> QED
  BY <1>1, <1>2

\* A second begins at most a second before the tick it is cut from.
LEMMA SecondBounds ==
    ASSUME NEW t \in Nat
    PROVE  /\ Second(t) \in Nat
           /\ TicksPerSecond * Second(t) <= t
           /\ t < TicksPerSecond * Second(t) + TicksPerSecond
  BY Params DEF Second, Parameters

LEMMA SecondMonotone ==
    ASSUME NEW t \in Nat, NEW u \in Nat, t <= u
    PROVE  Second(t) <= Second(u)
<1> SUFFICES ASSUME Second(u) + 1 <= Second(t) PROVE FALSE
  BY SecondBounds
<1>1. TicksPerSecond * (Second(u) + 1) <= TicksPerSecond * Second(t)
  BY SecondBounds, ProductMonotone, Params DEF Parameters
<1>2. TicksPerSecond * (Second(u) + 1) = TicksPerSecond * Second(u) + TicksPerSecond
  BY SecondBounds, Params DEF Parameters
<1> QED
  BY <1>1, <1>2, SecondBounds, Params DEF Parameters

LEMMA IntervalType ==
    ASSUME lease \in Nat
    PROVE  /\ Interval \in Nat
           /\ Interval <= lease \div 2 + ReaperFloor
           /\ LeaseSeconds \in Nat /\ TicksPerSecond * LeaseSeconds <= lease
  BY Params, SecondBounds DEF Interval, LeaseSeconds, Parameters, Second

-----------------------------------------------------------------------------
(* The steps                                                               *)

LEMMA ClaimsInitInv == ClaimsInit => ClaimsInv
<1> SUFFICES ASSUME ClaimsInit PROVE ClaimsInv
  OBVIOUS
<1>1. lease \in Nat /\ Interval \in Nat
  BY Params, IntervalType DEF ClaimsInit, Parameters
<1>2. Second(0) \in Nat
  BY SecondBounds
<1>3. ClaimsTypeOK
  <2>1. taken \in [Agents -> {Never} \cup 0..now]
    BY DEF ClaimsInit
  <2>2. now \in 0..MaxTime /\ opened \in 0..now
    BY Params DEF ClaimsInit, Parameters
  <2>3. lease \in Leases /\ finished \in BOOLEAN /\ assignee \in Agents \cup {NoAgent}
        /\ claimedAt \in {Never} \cup 0..Second(now)
    BY Zenon DEF ClaimsInit
  <2>4. sweepAt \in Nat
    BY <1>1 DEF ClaimsInit
  <2> QED
    BY <2>1, <2>2, <2>3, <2>4 DEF ClaimsTypeOK
<1>4. Stamped /\ LostIsStale
  BY Params DEF ClaimsInit, Stamped, LostIsStale, Parameters
<1>5. Punctual /\ PastSweep
  BY <1>1 DEF ClaimsInit, Punctual, PastSweep, LastSweep
<1> QED
  BY <1>3, <1>4, <1>5 DEF ClaimsInv

\* A step of one of the handlers or of the clock keeps the invariant.
LEMMA ClaimsNextInv == ClaimsInv /\ [ClaimsNext]_claimsVars => ClaimsInv'
<1> SUFFICES ASSUME ClaimsInv, [ClaimsNext]_claimsVars PROVE ClaimsInv'
  OBVIOUS
<1> USE DEF Never
<1>t. /\ lease \in Nat /\ now \in Nat /\ Interval \in Nat /\ LeaseSeconds \in Nat
      /\ Second(now) \in Nat
      /\ NoAgent \notin Agents /\ assignee \in Agents \cup {NoAgent}
      /\ \A a \in Agents : taken[a] # -1 => taken[a] \in Nat /\ taken[a] <= now
      /\ sweepAt \in Nat /\ LastSweep \in Int
      /\ MaxTime \in Nat
  BY Params, IntervalType, SecondBounds DEF ClaimsInv, ClaimsTypeOK, Parameters, LastSweep
<1>s. \A a \in Agents : taken[a] # -1 => Second(taken[a]) \in 0..Second(now)
  BY <1>t, SecondBounds, SecondMonotone
<1>u. CASE UNCHANGED claimsVars
  BY <1>u DEF claimsVars, ClaimsInv, ClaimsTypeOK, Stamped, LostIsStale, Punctual, PastSweep, LastSweep,
     Interval, LeaseSeconds, Second
<1>1. CASE Tick
  <2>1. Second(now) <= Second(now') /\ Second(now') \in Nat
    BY <1>1, <1>t, SecondMonotone, SecondBounds DEF Tick
  <2>2. LeaseSeconds' = LeaseSeconds /\ Interval' = Interval /\ LastSweep' = LastSweep
    BY <1>1 DEF Tick, LeaseSeconds, Interval, LastSweep
  <2>3. ClaimsTypeOK'
    BY <1>1, <2>1, <1>t DEF Tick, ClaimsInv, ClaimsTypeOK
  <2>4. Stamped' /\ LostIsStale'
    BY <1>1, <2>1, <2>2, <1>s, <1>t DEF Tick, ClaimsInv, Stamped, LostIsStale, Second
  <2>5. Punctual' /\ PastSweep'
    BY <1>1, <2>2, <1>t DEF Tick, ClaimsInv, Punctual, PastSweep, Second
  <2> QED
    BY <2>3, <2>4, <2>5 DEF ClaimsInv
<1>2. CASE ExpireClaims
  <2>1. LeaseSeconds' = LeaseSeconds /\ Interval' = Interval /\ LastSweep' = now
        /\ now' = now /\ taken' = taken /\ lease' = lease
    BY <1>2, <1>t DEF ExpireClaims, LeaseSeconds, Interval, LastSweep
  <2>2. CASE assignee # NoAgent /\ ~finished /\ Stale
    <3>1. assignee' = NoAgent /\ claimedAt' = -1
      BY <1>2, <2>2 DEF ExpireClaims
    <3>2. ClaimsTypeOK'
      BY <1>2, <2>1, <3>1, <1>t DEF ExpireClaims, ClaimsInv, ClaimsTypeOK, Second
    <3>3. Stamped' /\ Punctual' /\ PastSweep'
      BY <1>2, <2>1, <3>1, <1>t DEF ExpireClaims, ClaimsInv, Stamped, Punctual, PastSweep
    <3>4. LostIsStale'
      <4>1. claimedAt = Second(taken[assignee]) /\ taken[assignee] # -1
        BY <2>2, <1>t DEF ClaimsInv, Stamped
      <4> QED
        BY <2>1, <2>2, <3>1, <4>1, <1>s, <1>t DEF ClaimsInv, LostIsStale, Stale, Second
    <3> QED
      BY <3>2, <3>3, <3>4 DEF ClaimsInv
  <2>3. CASE ~(assignee # NoAgent /\ ~finished /\ Stale)
    <3>1. assignee' = assignee /\ claimedAt' = claimedAt /\ finished' = finished
      BY <1>2, <2>3 DEF ExpireClaims
    <3>2. ClaimsTypeOK'
      BY <1>2, <2>1, <3>1, <1>t DEF ExpireClaims, ClaimsInv, ClaimsTypeOK, Second
    <3>3. Stamped' /\ LostIsStale' /\ Punctual'
      BY <1>2, <2>1, <3>1, <1>t DEF ExpireClaims, ClaimsInv, Stamped, LostIsStale, Punctual, Second
    <3>4. assignee # NoAgent /\ ~finished /\ lease > 0 => claimedAt > Second(now) - LeaseSeconds
      BY <2>3, <1>t, <1>s DEF Stale, ClaimsInv, Stamped
    <3>5. PastSweep'
      BY <2>1, <3>1, <3>4 DEF PastSweep, Second
    <3> QED
      BY <3>2, <3>3, <3>5 DEF ClaimsInv
  <2> QED
    BY <2>2, <2>3
<1>3. CASE ChangeState
  <2>1. LeaseSeconds' = LeaseSeconds /\ Interval' = Interval /\ LastSweep' = LastSweep
    BY <1>3 DEF ChangeState, LeaseSeconds, Interval, LastSweep
  <2> QED
    BY <1>3, <2>1, <1>t DEF ChangeState, ClaimsInv, ClaimsTypeOK, Stamped, LostIsStale, Punctual, PastSweep, Second
<1>4. ASSUME NEW a \in Agents, Claim(a) PROVE ClaimsInv'
  <2>1. LeaseSeconds' = LeaseSeconds /\ Interval' = Interval /\ LastSweep' = LastSweep
        /\ now' = now /\ lease' = lease /\ sweepAt' = sweepAt
    BY <1>4 DEF Claim, LeaseSeconds, Interval, LastSweep
  <2>2. ClaimsTypeOK'
    BY <1>4, <2>1, <1>t DEF Claim, ClaimsInv, ClaimsTypeOK, Second
  <2>3. assignee' = a /\ taken'[a] = now /\ claimedAt' = Second(now)
        /\ \A b \in Agents \ {a} : taken'[b] = taken[b]
    BY <1>4 DEF Claim, ClaimsInv, ClaimsTypeOK
  <2>4. Stamped'
    BY <2>3, <1>t DEF Stamped, Second
  <2>5. LostIsStale'
    <3> SUFFICES ASSUME NEW b \in Agents \ {a}, taken[b] # -1
                 PROVE  lease > 0 /\ Second(now) - Second(taken[b]) >= LeaseSeconds
      BY <2>1, <2>3 DEF LostIsStale, Second
    <3>1. CASE assignee = b
      BY <1>4, <3>1, <1>s, <1>t DEF Claim, Stale, ClaimsInv, Stamped
    <3>2. CASE assignee # b
      BY <3>2 DEF ClaimsInv, LostIsStale
    <3> QED
      BY <3>1, <3>2
  <2>6. Punctual'
    BY <2>1 DEF ClaimsInv, Punctual
  <2>7. PastSweep'
    BY <2>1, <2>3, <1>t DEF ClaimsInv, Punctual, PastSweep
  <2> QED
    BY <2>2, <2>4, <2>5, <2>6, <2>7 DEF ClaimsInv
<1>5. ASSUME NEW a \in Agents, Unclaim(a) PROVE ClaimsInv'
  <2>1. LeaseSeconds' = LeaseSeconds /\ Interval' = Interval /\ LastSweep' = LastSweep
        /\ now' = now /\ lease' = lease /\ sweepAt' = sweepAt
    BY <1>5 DEF Unclaim, LeaseSeconds, Interval, LastSweep
  <2>2. ClaimsTypeOK' /\ Stamped' /\ Punctual' /\ PastSweep'
    BY <1>5, <2>1, <1>t DEF Unclaim, ClaimsInv, ClaimsTypeOK, Stamped, Punctual, PastSweep, Second
  <2>3. LostIsStale'
    BY <1>5, <2>1, <1>t DEF Unclaim, ClaimsInv, ClaimsTypeOK, LostIsStale, Second
  <2> QED
    BY <2>2, <2>3 DEF ClaimsInv
<1> QED
  BY <1>u, <1>1, <1>2, <1>3, <1>4, <1>5 DEF ClaimsNext

LEMMA ClaimsInvariance == ClaimsSpec => []ClaimsInv
  BY ClaimsInitInv, ClaimsNextInv, PTL DEF ClaimsSpec

-----------------------------------------------------------------------------
(* Theorems                                                                *)

\* Every variable keeps its type, and no claim is stamped in the future.
THEOREM ClaimsTypeCorrect == ClaimsSpec => []ClaimsTypeOK
<1>1. ClaimsInv => ClaimsTypeOK
  BY DEF ClaimsInv
<1> QED
  BY <1>1, ClaimsInvariance, PTL

\* The claim is a lock for whoever renews it in time: Claim's staleness test, a
\* steal and a sweep of the reaper never give an issue to a second agent while
\* the first may trust its claim.
THEOREM MutualExclusion == ClaimsSpec => []Exclusive
<1>1. ClaimsInv => Exclusive
  <2> SUFFICES ASSUME ClaimsInv, NEW a \in Agents, Trusts(a) PROVE assignee = a
    BY DEF Exclusive
  <2> SUFFICES ASSUME assignee # a PROVE FALSE
    OBVIOUS
  <2> DEFINE s == Second(now)
             c == Second(taken[a])
  <2>1. /\ now \in Nat /\ taken[a] \in Nat /\ lease > 0 /\ lease \in Nat
        /\ s - c >= LeaseSeconds
    BY Params DEF ClaimsInv, ClaimsTypeOK, LostIsStale, Trusts, Never, Parameters
  <2>2. /\ s \in Nat /\ c \in Nat /\ LeaseSeconds \in Nat
        /\ TicksPerSecond * s <= now /\ taken[a] < TicksPerSecond * c + TicksPerSecond
    BY <2>1, SecondBounds, IntervalType
  <2>3. now - taken[a] <= TicksPerSecond * (LeaseSeconds - 1)
    BY <2>1 DEF Trusts
  <2> HIDE DEF s, c
  <2>4. TicksPerSecond * (c + LeaseSeconds) <= TicksPerSecond * s
    BY <2>1, <2>2, ProductMonotone, Params DEF Parameters
  <2>5. /\ TicksPerSecond * (c + LeaseSeconds) = TicksPerSecond * c + TicksPerSecond * LeaseSeconds
        /\ TicksPerSecond * (LeaseSeconds - 1) = TicksPerSecond * LeaseSeconds - TicksPerSecond
    BY <2>2, Params DEF Parameters
  <2>6. /\ TicksPerSecond * c \in Int /\ TicksPerSecond * s \in Int
        /\ TicksPerSecond * LeaseSeconds \in Int /\ TicksPerSecond \in Nat
    BY <2>2, Params DEF Parameters
  <2> QED
    BY <2>1, <2>2, <2>3, <2>4, <2>5, <2>6
<1> QED
  BY <1>1, ClaimsInvariance, PTL

\* An open issue is unassigned, or its assignee was heard of, within a lease and
\* the interval of the reaper; or it was reopened since the last sweep.
THEOREM OrphansSurface == ClaimsSpec => []OrphansDiscoverable
<1>1. ClaimsInv => OrphansDiscoverable
  <2> SUFFICES ASSUME ClaimsInv, lease > 0, assignee # NoAgent, ~finished
               PROVE  \/ now - taken[assignee] <= lease + (lease \div 2 + ReaperFloor)
                      \/ now - opened <= lease \div 2 + ReaperFloor
    BY DEF OrphansDiscoverable
  <2>1. /\ lease \in Nat /\ now \in Nat /\ opened \in Nat /\ taken[assignee] \in Nat
        /\ claimedAt = Second(taken[assignee])
    BY Params DEF ClaimsInv, ClaimsTypeOK, Stamped, Never, Parameters
  <2>2. lease \div 2 + ReaperFloor \in Nat
    BY <2>1, Params DEF Parameters
  <2>3. LastSweep \in Nat /\ now - LastSweep <= lease \div 2 + ReaperFloor
    BY <2>1, <2>2, IntervalType DEF ClaimsInv, ClaimsTypeOK, Punctual, LastSweep
  <2>4. CASE opened >= LastSweep \/ taken[assignee] >= LastSweep
    BY <2>1, <2>2, <2>3, <2>4
  <2>5. CASE claimedAt > Second(LastSweep) - LeaseSeconds
    <3> DEFINE c == Second(taken[assignee])
               p == Second(LastSweep)
    <3>1. /\ c \in Nat /\ p \in Nat /\ LeaseSeconds \in Nat
          /\ TicksPerSecond * c <= taken[assignee]
          /\ LastSweep < TicksPerSecond * p + TicksPerSecond
          /\ TicksPerSecond * LeaseSeconds <= lease
      BY <2>1, <2>3, SecondBounds, IntervalType
    <3>2. c + LeaseSeconds >= p + 1
      BY <2>1, <2>5, <3>1
    <3> HIDE DEF c, p
    <3>3. TicksPerSecond * (p + 1) <= TicksPerSecond * (c + LeaseSeconds)
      BY <3>1, <3>2, ProductMonotone, Params DEF Parameters
    <3>4. /\ TicksPerSecond * (c + LeaseSeconds) = TicksPerSecond * c + TicksPerSecond * LeaseSeconds
          /\ TicksPerSecond * (p + 1) = TicksPerSecond * p + TicksPerSecond
      BY <3>1, Params DEF Parameters
    <3>5. /\ TicksPerSecond * c \in Int /\ TicksPerSecond * p \in Int
          /\ TicksPerSecond * LeaseSeconds \in Int /\ TicksPerSecond \in Nat
      BY <3>1, Params DEF Parameters
    <3>6. LastSweep < taken[assignee] + lease
      BY <2>1, <2>3, <3>1, <3>3, <3>4, <3>5
    <3> QED
      BY <2>1, <2>2, <2>3, <3>6
  <2> QED
    BY <2>4, <2>5 DEF ClaimsInv, PastSweep
<1> QED
  BY <1>1, ClaimsInvariance, PTL
=============================================================================
