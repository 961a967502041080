----------------------------- MODULE MCWorkBudget -----------------------------
(* Small instances of WorkBudget.                                          *)
EXTENDS WorkBudget, TLC

CONSTANTS c1, c2, a1, t1

\* More CI runs than CI slots, a spawn and a follow-up turn.
Backlog == (c1 :> "ci") @@ (c2 :> "ci") @@ (a1 :> "agent") @@ (t1 :> "turns")
=============================================================================
