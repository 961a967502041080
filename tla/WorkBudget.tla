----------------------------- MODULE WorkBudget -----------------------------
(***************************************************************************)
(* The runner's concurrency budget and the drain loop that spends it: one  *)
(* pool of slots for CI and agent-family work, part of it reserved for     *)
(* agents, taken by try-acquire and given back by the goroutine of each    *)
(* dispatched item.                                                        *)
(*                                                                         *)
(* The two channels are counters.  A CI run holds a token of each, so its  *)
(* acquire and its release take two steps, between which everybody else    *)
(* may move.                                                               *)
(*                                                                         *)
(* Source: cmd/codefortd/budget.go; run, drainKind, drainTurns and         *)
(* drainFinishing of cmd/codefortd/ci_runner.go.                           *)
(***************************************************************************)
EXTENDS Integers, FiniteSets

CONSTANTS
    Work,            \* recurring pieces of work: a CI run, a spawn, a turn...
    Source,          \* Source[w]: the drain stage that claims w
    MaxConcurrency,  \* configuration: slots in all
    AgentReserved    \* configuration: slots only agents may take

Stages == {"ci", "agent", "spec-verify", "turns", "finishing"}

ASSUME WorkAssumption == IsFiniteSet(Work) /\ Source \in [Work -> Stages]
ASSUME ConfigAssumption == MaxConcurrency \in Int /\ AgentReserved \in Int

\* newWorkBudget clamps what the configuration says.
Total == IF MaxConcurrency < 1 THEN 1 ELSE MaxConcurrency
Reserved == IF AgentReserved < 0 THEN 0
            ELSE IF AgentReserved > Total THEN Total ELSE AgentReserved

VARIABLES
    shared,   \* tokens in the shared channel, of capacity Total
    ciAllow,  \* tokens in the ciAllow channel, of capacity Total - Reserved
    item,     \* item[w]: "idle", "queued", "running" or "half" released
    stage,    \* where the drain loop is: a stage, "sleep" or "gone"
    step,     \* within a stage: "try", "half" acquired, "claim", "back", "backHalf"
    stopping  \* the runner's context is canceled

budgetVars == <<shared, ciAllow, item, stage, step, stopping>>

IsCI(w) == Source[w] = "ci"

\* The order of the calls in run's loop.
After(s) == IF s = "ci" THEN "agent"
            ELSE IF s = "agent" THEN "spec-verify"
            ELSE IF s = "spec-verify" THEN "turns"
            ELSE IF s = "turns" THEN "finishing" ELSE "sleep"

NextStage == stage' = After(stage) /\ step' = "try"

-----------------------------------------------------------------------------
\* A run is enqueued, a turn posted, a finish accepted.
Submit(w) ==
    /\ ~stopping
    /\ item[w] = "idle"
    /\ item' = [item EXCEPT ![w] = "queued"]
    /\ UNCHANGED <<shared, ciAllow, stage, step, stopping>>

\* Every drain returns at once when the context is canceled.
SkipStage ==
    /\ stage \in Stages /\ step = "try"
    /\ stopping
    /\ NextStage
    /\ UNCHANGED <<shared, ciAllow, item, stopping>>

\* Slip: CI takes any free slot.
TryCIUnbounded ==
    /\ stage = "ci" /\ step = "try"
    /\ ~stopping
    /\ ciAllow' = ciAllow + 1 /\ step' = "half"
    /\ UNCHANGED <<stage, shared, item, stopping>>

\* tryAcquireCI: first ciAllow...
TryCI ==
    /\ stage = "ci" /\ step = "try"
    /\ ~stopping
    /\ ciAllow < Total - Reserved
    /\ ciAllow' = ciAllow + 1
    /\ step' = "half"
    /\ UNCHANGED <<shared, item, stage, stopping>>

CIFull ==
    /\ stage = "ci" /\ step = "try"
    /\ ~stopping
    /\ ciAllow = Total - Reserved
    /\ NextStage
    /\ UNCHANGED <<shared, ciAllow, item, stopping>>

\* ... then shared...
TryCIShared ==
    /\ step = "half"
    /\ shared < Total
    /\ shared' = shared + 1
    /\ step' = "claim"
    /\ UNCHANGED <<ciAllow, item, stage, stopping>>

\* Slip: a refused CI acquire keeps its ciAllow token.
HandBackForgotten ==
    /\ step = "half"
    /\ shared = Total
    /\ NextStage
    /\ UNCHANGED <<shared, ciAllow, item, stopping>>

\* ... or hand the first token back.
HandBack ==
    /\ step = "half"
    /\ shared = Total
    /\ ciAllow > 0
    /\ ciAllow' = ciAllow - 1
    /\ NextStage
    /\ UNCHANGED <<shared, item, stopping>>

\* tryAcquireAgent.
TryAgent ==
    /\ stage \in Stages \ {"ci"} /\ step = "try"
    /\ ~stopping
    /\ shared < Total
    /\ shared' = shared + 1
    /\ step' = "claim"
    /\ UNCHANGED <<ciAllow, item, stage, stopping>>

AgentFull ==
    /\ stage \in Stages \ {"ci"} /\ step = "try"
    /\ ~stopping
    /\ shared = Total
    /\ NextStage
    /\ UNCHANGED <<shared, ciAllow, item, stopping>>

\* The claim succeeds, the item's goroutine owns the slot, and the stage tries
\* for more.
Dispatch(w) ==
    /\ step = "claim"
    /\ item[w] = "queued" /\ Source[w] = stage
    /\ item' = [item EXCEPT ![w] = "running"]
    /\ step' = "try"
    /\ UNCHANGED <<shared, ciAllow, stage, stopping>>

\* Nothing to claim, or the claim fails: the slot goes back.
NoClaim ==
    /\ step = "claim"
    /\ step' = "back"
    /\ UNCHANGED <<shared, ciAllow, item, stage, stopping>>

\* release, by the drain loop: receiving from an empty channel would block.
GiveBackShared ==
    /\ step = "back"
    /\ shared > 0
    /\ shared' = shared - 1
    /\ stage' = IF stage = "ci" THEN stage ELSE After(stage)
    /\ step' = IF stage = "ci" THEN "backHalf" ELSE "try"
    /\ UNCHANGED <<ciAllow, item, stopping>>

GiveBackCI ==
    /\ step = "backHalf"
    /\ ciAllow > 0
    /\ ciAllow' = ciAllow - 1
    /\ NextStage
    /\ UNCHANGED <<shared, item, stopping>>

\* The item's goroutine ends: releaseAgent, or the first half of releaseCI.
Release(w) ==
    /\ item[w] = "running"
    /\ shared > 0
    /\ shared' = shared - 1
    /\ item' = [item EXCEPT ![w] = IF IsCI(w) THEN "half" ELSE "idle"]
    /\ UNCHANGED <<ciAllow, stage, step, stopping>>

ReleaseCI(w) ==
    /\ item[w] = "half"
    /\ ciAllow > 0
    /\ ciAllow' = ciAllow - 1
    /\ item' = [item EXCEPT ![w] = "idle"]
    /\ UNCHANGED <<shared, stage, step, stopping>>

\* The ticker fires, or the canceled context ends the loop.
Wake ==
    /\ stage = "sleep"
    /\ stage' = IF stopping THEN "gone" ELSE "ci"
    /\ UNCHANGED <<shared, ciAllow, item, step, stopping>>

Stop ==
    /\ ~stopping
    /\ stopping' = TRUE
    /\ UNCHANGED <<shared, ciAllow, item, stage, step>>

BudgetInit ==
    /\ shared = 0 /\ ciAllow = 0
    /\ item = [w \in Work |-> "idle"]
    /\ stage = "ci" /\ step = "try"
    /\ stopping = FALSE

Drain ==
    \/ SkipStage \/ TryCI \/ CIFull \/ TryCIShared \/ HandBack \/ TryAgent \/ AgentFull
    \/ NoClaim \/ GiveBackShared \/ GiveBackCI \/ Wake
    \/ \E w \in Work : Dispatch(w)

BudgetNext == Drain \/ Stop \/ \E w \in Work : Submit(w) \/ Release(w) \/ ReleaseCI(w)

BudgetSpec == BudgetInit /\ [][BudgetNext]_budgetVars

\* The loop runs; a claim that can succeed does not fail for ever; agent-family
\* work ends by itself; CI runs are only sure to end once the runner stops.
BudgetFairness ==
    /\ WF_budgetVars(Drain)
    /\ \A w \in Work : SF_budgetVars(Dispatch(w))
    /\ \A w \in Work : WF_budgetVars(ReleaseCI(w)) /\ WF_budgetVars((stopping \/ ~IsCI(w)) /\ Release(w))

BudgetFairSpec == BudgetSpec /\ BudgetFairness

-----------------------------------------------------------------------------
(* Properties                                                              *)

InFlight == {w \in Work : item[w] = "running"}

\* CI items that have not given back their ciAllow token.
CIHolders == {w \in Work : IsCI(w) /\ item[w] \in {"running", "half"}}

\* Tokens the drain loop itself holds.
LoopShared == IF step \in {"claim", "back"} THEN 1 ELSE 0
LoopCI == IF step \in {"half", "backHalf"} \/ (stage = "ci" /\ step \in {"claim", "back"}) THEN 1 ELSE 0

\* Every variable has its type: the channels never exceed their capacities.
BudgetTypeOK ==
    /\ shared \in 0..Total /\ ciAllow \in 0..(Total - Reserved)
    /\ item \in [Work -> {"idle", "queued", "running", "half"}]
    /\ stage \in Stages \cup {"sleep", "gone"}
    /\ step \in {"try", "half", "claim", "back", "backHalf"}
    /\ stopping \in BOOLEAN

\* "total in flight <= total, CI <= total-reserved" (workBudget).
WithinBudget ==
    /\ Cardinality(InFlight) <= Total
    /\ Cardinality({w \in InFlight : IsCI(w)}) <= Total - Reserved

\* "at least reserved shared slots are always reachable only by agents"
\* (workBudget): as long as fewer than `reserved` agent-family items are in
\* flight, counting one the drain loop is about to claim, an agent finds a slot.
ReservedReachable ==
    Cardinality({w \in InFlight : ~IsCI(w)}) + (IF stage = "ci" THEN 0 ELSE LoopShared) < Reserved
        => shared < Total

\* Whoever has to give a token back finds one: no release blocks its goroutine
\* or the drain loop, and no token is lost (an idle runner has them all).
TokensAccounted ==
    /\ shared = Cardinality(InFlight) + LoopShared
    /\ ciAllow = Cardinality(CIHolders) + LoopCI

\* The drain loop keeps coming round: no stage is fed for ever as fast as its
\* items end.
LoopTurns == []<>(stage = "sleep")

Served(w) == item[w] = "queued" ~> item[w] = "running" \/ stopping

\* Other agent-family work comes to rest.
OthersRest(w) == <>[](\A v \in Work \ {w} : ~IsCI(v) => item[v] = "idle")

\* "a CI backlog can never lock out an agent spawn" (workBudget), although CI
\* runs keep coming and may hold their slots for ever.  (Other agents can: two
\* items that recur may take the free slot ahead of it at every pass.)
SpawnServed ==
    \A w \in Work : Source[w] = "agent" /\ LoopTurns /\ OthersRest(w) => Served(w)
=============================================================================
