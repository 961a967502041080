------------------------------ MODULE Pipeline ------------------------------
(***************************************************************************)
(* The job graph of a codefort.yml: what Parse accepts, the cycle it       *)
(* reports, and the order in which the runner creates the jobs.  A         *)
(* pipeline is a function from job names to their needs lists, in which a  *)
(* name may be repeated or unknown; names are numbers, in sorted order.    *)
(*                                                                         *)
(* The operators follow the code; the definitions at the end say what they *)
(* are for.  RECURSIVE makes this a module for TLC only.                   *)
(*                                                                         *)
(* Source: internal/ci/ci.go.                                              *)
(***************************************************************************)
EXTENDS Integers, SequencesExt, Relation

\* JobNames: sorted.
JobNames(needs) == SetToSortSeq(DOMAIN needs, <)

-----------------------------------------------------------------------------
(* TopoOrder                                                               *)

\* Slip: a need that is listed twice is counted off once.
EmitOnce(needs, st, name) ==
    [order |-> Append(st.order, name),
     indegree |-> [j \in DOMAIN needs |->
        IF j = name THEN 0 - 1
        ELSE IF name \in ToSet(needs[j]) THEN st.indegree[j] - 1 ELSE st.indegree[j]]]

\* A job leaves the graph: it is appended, marked, and counted off in every
\* needs list as often as it stands there.
Emit(needs, st, name) ==
    [order |-> Append(st.order, name),
     indegree |-> [j \in DOMAIN needs |->
        IF j = name THEN 0 - 1
        ELSE st.indegree[j] - Cardinality({i \in DOMAIN needs[j] : needs[j][i] = name})]]

\* One pass over the names: a job that becomes ready behind the current one is
\* emitted in the same pass.
Pass(needs, start) ==
    FoldLeft(LAMBDA st, name : IF st.indegree[name] = 0 THEN Emit(needs, st, name) ELSE st,
             start, JobNames(needs))

\* The passes go on while jobs are missing and progress is made, which takes at
\* most one per job.  A result that is too short is the error.
TopoOrder(needs) ==
    LET start == [order |-> <<>>, indegree |-> [j \in DOMAIN needs |-> Len(needs[j])]]
    IN  FoldLeft(LAMBDA st, pass : Pass(needs, st), start, JobNames(needs)).order

-----------------------------------------------------------------------------
(* findCycle                                                               *)

\* The back edge's cycle: the stack from dep on, and dep again.
CycleFrom(stack, dep) ==
    LET at == CHOOSE i \in DOMAIN stack :
                stack[i] = dep /\ \A k \in 1..i-1 : stack[k] # dep
    IN  Append(SubSeq(stack, at, Len(stack)), dep)

\* visit: a depth-first search that colours the jobs and stops at the first
\* back edge.  The colours and the cycle found are threaded through.
RECURSIVE Visit(_, _, _, _)
Visit(needs, st, stack, name) ==
    LET here  == Append(stack, name)
        Step(s, dep) ==
            IF s.cycle # <<>> THEN s
            ELSE CASE s.color[dep] = "gray"  -> [s EXCEPT !.cycle = CycleFrom(here, dep)]
                   [] s.color[dep] = "white" -> Visit(needs, s, here, dep)
                   [] OTHER                  -> s
        end   == FoldLeft(Step, [st EXCEPT !.color[name] = "gray"], needs[name])
    IN  IF end.cycle # <<>> THEN end ELSE [end EXCEPT !.color[name] = "black"]

findCycle(needs) ==
    FoldLeft(LAMBDA s, name : IF s.cycle = <<>> /\ s.color[name] = "white"
                              THEN Visit(needs, s, <<>>, name) ELSE s,
             [color |-> [j \in DOMAIN needs |-> "white"], cycle |-> <<>>],
             JobNames(needs)).cycle

\* Validate: every need is a job, and another one; then no cycle.
Validate(needs) ==
    /\ DOMAIN needs # {}
    /\ \A j \in DOMAIN needs : ToSet(needs[j]) \subseteq DOMAIN needs \ {j}
    /\ findCycle(needs) = <<>>

-----------------------------------------------------------------------------
(* What they are for                                                       *)

Pairs(needs) == (DOMAIN needs) \X (DOMAIN needs)
Edges(needs) == {p \in Pairs(needs) : p[2] \in ToSet(needs[p[1]])}

\* No job needs itself, directly or through others.
Acyclic(needs) ==
    LET reaches == TransitiveClosure([p \in Pairs(needs) |-> p \in Edges(needs)], DOMAIN needs)
    IN  IsIrreflexive(reaches, DOMAIN needs)

\* A path along needs that ends where it begins.
IsCycle(needs, path) ==
    /\ Len(path) > 1 /\ path[1] = path[Len(path)]
    /\ \A i \in 1..Len(path)-1 : <<path[i], path[i+1]>> \in Edges(needs)

\* Every job once, behind all jobs it needs.
IsOrder(needs, order) ==
    /\ ToSet(order) = DOMAIN needs /\ Len(order) = Cardinality(DOMAIN needs)
    /\ \A i, k \in DOMAIN order : <<order[k], order[i]>> \in Edges(needs) => i < k

\* A pipeline that Validate accepts has an order and TopoOrder finds it, needs
\* that are repeated or listed in any order notwithstanding ("Parse guarantees
\* this"); one it refuses for a cycle has that cycle, and TopoOrder reports it
\* too ("a cycle yields an error defensively").
Sound(needs) ==
    LET known == \A j \in DOMAIN needs : ToSet(needs[j]) \subseteq DOMAIN needs \ {j}
        cycle == findCycle(needs)
    IN  /\ Validate(needs) => known /\ Acyclic(needs) /\ IsOrder(needs, TopoOrder(needs))
        /\ known /\ ~Validate(needs) =>
              IsCycle(needs, cycle) /\ Len(TopoOrder(needs)) < Cardinality(DOMAIN needs)
        /\ known /\ Acyclic(needs) => Validate(needs)
=============================================================================
