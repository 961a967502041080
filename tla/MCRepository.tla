---------------------------- MODULE MCRepository ----------------------------
(* Two scenarios: a name that is registered, deleted and registered again  *)
(* while runs come, end and are pruned; and one whose schedules fire while *)
(* its pipeline changes.                                                   *)
EXTENDS Repository

CONSTANT nightly

Pipeline(S) == [at |-> "pipeline", exprs |-> S]

Registry == [keep |-> 1, occ |-> 0, run |-> 2, work |-> 2, repo |-> 2, faults |-> 1, crashes |-> 1,
             heads |-> {Pipeline({})}]
Cron == [keep |-> 0, occ |-> 2, run |-> 3, work |-> 0, repo |-> 1, faults |-> 1, crashes |-> 1,
         heads |-> {Pipeline({nightly}), Pipeline({}), [at |-> "no_pipeline", exprs |-> {}],
                    [at |-> "broken", exprs |-> {}]}]
Both == {Registry, Cron}
=============================================================================
