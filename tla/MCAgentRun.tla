------------------------------ MODULE MCAgentRun ------------------------------
(* Calm: sessions of up to three turns with two handlers, and a shutdown or   *)
(* crash at any step.  Killed: two of them, so that a drain is cut short too. *)
(* Lapse: leases that run out.  Fault: a failing call as well, and a claim    *)
(* that is stolen from a goroutine, without cancels.                          *)
EXTENDS AgentRun

One == {CHOOSE c \in Callers : TRUE}

Scenario(leases, cancels, failing, stops, turns, callers) ==
    [leases |-> leases, cancels |-> cancels, faults |-> failing, crashes |-> stops,
     turns |-> turns, callers |-> callers]

CalmScenario   == Scenario(FALSE, TRUE, 0, 1, Turns, Callers)
KilledScenario == Scenario(FALSE, TRUE, 0, 2, {1}, One)
LapseScenario  == Scenario(TRUE, TRUE, 0, 0, {1}, One)
FaultScenario  == Scenario(TRUE, FALSE, 1, 0, {1}, One)
CancelScenario == Scenario(FALSE, TRUE, 0, 0, Turns, Callers)

Sessions == {CalmScenario, KilledScenario, LapseScenario, FaultScenario}
Cancels == {CancelScenario}
=============================================================================
