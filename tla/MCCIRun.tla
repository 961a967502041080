------------------------------- MODULE MCCIRun -------------------------------
(* Small instances of CIRun.                                               *)
EXTENDS CIRun, TLC

CONSTANTS a, b, c

\* c joins a and b.
JoinNeeds == (a :> {}) @@ (b :> {}) @@ (c :> {a, b})

NoNeeds == (a :> {})

-----------------------------------------------------------------------------
(* The pipelines behind Needs                                              *)

P == INSTANCE Pipeline

\* Three jobs with up to two needs each; 0 is no job.
Pipelines == [1..3 -> UNION {[1..n -> 0..3] : n \in 0..2}]

AllSound == \A needs \in Pipelines : P!Sound(needs)

\* When a run comes to create its jobs, it does so from what Parse accepted, in
\* TopoOrder's order: internal/ci's Validate, findCycle and TopoOrder agree with
\* one another and with their purpose (Sound) on every pipeline it could be.
PipelineSound == (\E r \in Runs : pc[r] = "create") => AllSound
=============================================================================
