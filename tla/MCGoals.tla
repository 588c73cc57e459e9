------------------------------- MODULE MCGoals -------------------------------
(* A small instance of Goals: two goals, two categories, two months and a     *)
(* few plans that compete for the underspend.                                 *)
EXTENDS Goals, TLC

Settings(t, s, e, p, a, r, l) ==
    [target |-> t, start |-> s, targetMonth |-> e, monthly |-> p,
     auto |-> a, priority |-> r, linked |-> l]

\* An urgent goal, its cheaper and its later form, one that is not auto-funded,
\* and an open-ended one that prefers the second category.
FewPlans == {Settings(3, 1, 3, 2, TRUE, 1, 0), Settings(2, 1, 0, 1, TRUE, 2, 2),
             Settings(5, 2, 3, 2, TRUE, 1, 2)}

FirstBudgets == 1 :> 2 @@ 2 :> 1
==============================================================================
