------------------------------ MODULE IssueGraph ------------------------------
(***************************************************************************)
(* The issues of one repository as a graph: the numbers CreateIssue hands  *)
(* out, the parent link that makes an issue a child of an epic, and the    *)
(* depends-on edges behind the ready and blocked views.                    *)
(*                                                                         *)
(* All writes share one connection.  A transaction keeps it from its first *)
(* to its last statement, so the search for a cycle runs on a graph that   *)
(* nobody changes; UpdateIssue is no transaction, and gives the connection *)
(* up between its check of the parent and its write.                       *)
(*                                                                         *)
(* Source: internal/storage/issues.go, internal/storage/dependencies.go.   *)
(***************************************************************************)
EXTENDS Naturals, FiniteSets

CONSTANTS
    Numbers,   \* issue numbers (bound: no issue gets a number outside)
    Writers    \* concurrent HTTP handlers

ASSUME NumbersAssumption == Numbers \subseteq Nat \ {0}

NoIssue == 0

VARIABLES
    live,      \* the numbers of the rows of issues
    settled,   \* of those, the ones in state done or closed
    parent,    \* parent[n]: parent_number of row n, or NoIssue
    deps,      \* the rows of issue_dependencies, as <<issue, depends on>>
    op,        \* op[w]: "idle", "parent", "walk" or "cycle"
    arg,       \* arg[w]: <<issue, parent or dependency>> of the call in progress
    frontier,  \* frontier[w]: what is on the stack of dependsOnReaches
    visited    \* visited[w]: its visited map

NoCall == <<NoIssue, NoIssue>>

rowVars  == <<live, settled, parent, deps>>
callVars == <<op, arg, frontier, visited>>
vars == <<rowVars, callVars>>

\* Slip: more than one connection.
FreeAlways == TRUE

\* Nobody is inside a transaction: SetMaxOpenConns(1).
Free == \A w \in Writers : op[w] \notin {"walk", "cycle"}

-----------------------------------------------------------------------------
(* Issues                                                                  *)

\* COALESCE(MAX(number), 0) + 1: the number of a deleted last issue comes back.
IsNextNumber(n) ==
    \/ live = {} /\ n = 1
    \/ \E m \in live : n = m + 1 /\ \A k \in live : k <= m

\* One transaction: the number, the check of the parent, the insert.
CreateIssue(n, p) ==
    /\ Free
    /\ IsNextNumber(n)
    /\ p \in live \cup {NoIssue}
    /\ live' = live \cup {n}
    /\ parent' = [parent EXCEPT ![n] = p]
    /\ UNCHANGED <<settled, deps, callVars>>

\* Slip: only the edges of the deleted issue go, not those that point at it.
DeleteIssueOneWay(n) ==
    /\ Free
    /\ n \in live
    /\ live' = live \ {n}
    /\ settled' = settled \ {n}
    /\ deps' = {e \in deps : e[1] # n}
    /\ UNCHANGED <<parent, callVars>>

\* The edges go in both directions; the parent_number of its children stays.
DeleteIssue(n) ==
    /\ Free
    /\ n \in live
    /\ live' = live \ {n}
    /\ settled' = settled \ {n}
    /\ deps' = {e \in deps : e[1] # n /\ e[2] # n}
    /\ UNCHANGED <<parent, callVars>>

\* UpdateIssue without a parent: only whether the state is done/closed matters.
UpdateState(n) ==
    /\ Free
    /\ n \in live
    /\ settled' = IF n \in settled THEN settled \ {n} ELSE settled \cup {n}
    /\ UNCHANGED <<live, parent, deps, callVars>>

ClearParent(n) ==
    /\ Free
    /\ n \in live
    /\ parent' = [parent EXCEPT ![n] = NoIssue]
    /\ UNCHANGED <<live, settled, deps, callVars>>

\* UpdateIssue with a parent: the SELECT...
CheckParent(w, n, p) ==
    /\ Free
    /\ op[w] = "idle"
    /\ p \in live /\ p # n
    /\ op' = [op EXCEPT ![w] = "parent"]
    /\ arg' = [arg EXCEPT ![w] = <<n, p>>]
    /\ UNCHANGED <<rowVars, frontier, visited>>

\* ... and the UPDATE, which may set the state as well.
WriteParent(w) ==
    LET n == arg[w][1] IN
    /\ Free
    /\ op[w] = "parent"
    /\ n \in live
    /\ parent' = [parent EXCEPT ![n] = arg[w][2]]
    /\ settled' \in {settled, settled \cup {n}, settled \ {n}}
    /\ op' = [op EXCEPT ![w] = "idle"]
    /\ arg' = [arg EXCEPT ![w] = NoCall]
    /\ UNCHANGED <<live, deps, frontier, visited>>

\* The issue itself is gone by now: ErrNotFound.
WriteParentMisses(w) ==
    /\ Free
    /\ op[w] = "parent"
    /\ arg[w][1] \notin live
    /\ op' = [op EXCEPT ![w] = "idle"]
    /\ arg' = [arg EXCEPT ![w] = NoCall]
    /\ UNCHANGED <<rowVars, frontier, visited>>

-----------------------------------------------------------------------------
(* Dependencies                                                            *)

\* AddDependency: not itself, both exist; then the search from dependsOn.
BeginAdd(w, n, d) ==
    /\ Free
    /\ op[w] = "idle"
    /\ n # d
    /\ n \in live /\ d \in live
    /\ op' = [op EXCEPT ![w] = "walk"]
    /\ arg' = [arg EXCEPT ![w] = <<n, d>>]
    /\ frontier' = [frontier EXCEPT ![w] = {d}]
    /\ visited' = [visited EXCEPT ![w] = {}]
    /\ UNCHANGED rowVars

\* Slip: the edges are followed from the dependency to its dependents.
Dependents(n) == {m \in Numbers : <<m, n>> \in deps}

\* SELECT depends_on_number ... WHERE issue_number = n, in any order.
DependsOn(n) == {m \in Numbers : <<n, m>> \in deps}

\* dependsOnReaches pops the target: the edge would close a cycle.
Arrive(w) ==
    /\ op[w] = "walk"
    /\ arg[w][1] \in frontier[w]
    /\ op' = [op EXCEPT ![w] = "cycle"]
    /\ UNCHANGED <<rowVars, arg, frontier, visited>>

\* Slip: the search looks one level deep.
ExpandOnce(w, cur) ==
    /\ op[w] = "walk"
    /\ cur \in frontier[w] /\ cur # arg[w][1]
    /\ visited' = [visited EXCEPT ![w] = @ \cup {cur}]
    /\ frontier' = [frontier EXCEPT ![w] = (@ \ {cur}) \cup
                      (IF cur = arg[w][2] THEN DependsOn(cur) ELSE {})]
    /\ UNCHANGED <<rowVars, op, arg>>

\* It pops another issue, and pushes what that one depends on unless it has
\* been visited before.
Expand(w, cur) ==
    /\ op[w] = "walk"
    /\ cur \in frontier[w] /\ cur # arg[w][1]
    /\ visited' = [visited EXCEPT ![w] = @ \cup {cur}]
    /\ frontier' = [frontier EXCEPT ![w] = (@ \ {cur}) \cup
                      (IF cur \in visited[w] THEN {} ELSE DependsOn(cur))]
    /\ UNCHANGED <<rowVars, op, arg>>

\* The stack is empty: INSERT OR IGNORE and commit.
InsertEdge(w) ==
    /\ op[w] = "walk"
    /\ frontier[w] = {}
    /\ deps' = deps \cup {arg[w]}
    /\ op' = [op EXCEPT ![w] = "idle"]
    /\ arg' = [arg EXCEPT ![w] = NoCall]
    /\ visited' = [visited EXCEPT ![w] = {}]
    /\ UNCHANGED <<live, settled, parent, frontier>>

\* ErrDependencyCycle, and the transaction is rolled back.
Refuse(w) ==
    /\ op[w] = "cycle"
    /\ op' = [op EXCEPT ![w] = "idle"]
    /\ arg' = [arg EXCEPT ![w] = NoCall]
    /\ frontier' = [frontier EXCEPT ![w] = {}]
    /\ visited' = [visited EXCEPT ![w] = {}]
    /\ UNCHANGED rowVars

RemoveDependency(n, d) ==
    /\ Free
    /\ <<n, d>> \in deps
    /\ deps' = deps \ {<<n, d>>}
    /\ UNCHANGED <<live, settled, parent, callVars>>

-----------------------------------------------------------------------------
Init ==
    /\ live = {} /\ settled = {} /\ deps = {}
    /\ parent = [n \in Numbers |-> NoIssue]
    /\ op = [w \in Writers |-> "idle"]
    /\ arg = [w \in Writers |-> NoCall]
    /\ frontier = [w \in Writers |-> {}]
    /\ visited = [w \in Writers |-> {}]

Next ==
    \/ \E n \in Numbers, p \in Numbers \cup {NoIssue} : CreateIssue(n, p)
    \/ \E n \in Numbers : DeleteIssue(n) \/ UpdateState(n) \/ ClearParent(n)
    \/ \E n, d \in Numbers : RemoveDependency(n, d)
    \/ \E w \in Writers :
          \/ \E n, m \in Numbers : CheckParent(w, n, m) \/ BeginAdd(w, n, m)
          \/ \E cur \in Numbers : Expand(w, cur)
          \/ WriteParent(w) \/ WriteParentMisses(w)
          \/ Arrive(w) \/ InsertEdge(w) \/ Refuse(w)

Spec == Init /\ [][Next]_vars

-----------------------------------------------------------------------------
(* Properties                                                              *)

\* Every variable has its type.
TypeOK ==
    /\ live \subseteq Numbers /\ settled \subseteq live
    /\ parent \in [Numbers -> Numbers \cup {NoIssue}]
    /\ deps \subseteq Numbers \X Numbers
    /\ op \in [Writers -> {"idle", "parent", "walk", "cycle"}]
    /\ arg \in [Writers -> (Numbers \cup {NoIssue}) \X (Numbers \cup {NoIssue})]
    /\ frontier \in [Writers -> SUBSET Numbers]
    /\ visited \in [Writers -> SUBSET Numbers]

\* S is closed under depends-on.
Closed(S) == \A e \in deps : e[1] \in S => e[2] \in S

\* Everything n transitively depends on, n included: the least closed set.
Reach(n) == {m \in Numbers : \A S \in SUBSET Numbers : n \in S /\ Closed(S) => m \in S}

\* "the dependency graph is kept acyclic" (specs/issues.md, AddDependency),
\* although it is checked by a walk over rows that other requests also change.
Acyclic == \A e \in deps : e[1] \notin Reach(e[2])

\* An edge is refused only if it would have closed a cycle (dependsOnReaches).
RefusalJustified == \A w \in Writers : op[w] = "cycle" => arg[w][1] \in Reach(arg[w][2])

\* "a deleted issue never leaves a dangling edge" (DeleteIssue), whatever was
\* being added when it was deleted.
NoDanglingEdges == \A e \in deps : e[1] \in live /\ e[2] \in live

HasUnmetDep(n) == \E t \in live : <<n, t>> \in deps /\ t \notin settled

\* The ready view is "well-defined" (specs/issues.md): open issues never all
\* wait for one another.
BacklogMoves ==
    live # settled => \E n \in live \ settled : ~HasUnmetDep(n)
=============================================================================
