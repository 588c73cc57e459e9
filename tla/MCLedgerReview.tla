---------------------------- MODULE MCLedgerReview ----------------------------
(* Small instances of what reviewers decide about the ledger: what a credit    *)
(* means (PositiveFlows), and what a purchase was for (ProposedActions).  The  *)
(* modules keep their own state; a behaviour explores one of them and leaves   *)
(* the other in its initial state.                                             *)
EXTENDS LedgerReview, TLC

CONSTANTS s1, s2, c1, c2, whole, left, right, shop, mixed

VARIABLE part

\* A credit of a card and one of a bank account that is as large, a charge of
\* the card that both may offset in part, and one that is exactly as large: the
\* first credit may reverse it, the second may be its other leg.  The charges
\* were posted a month before the statements.
Accounts == s1 :> "card" @@ s2 :> "bank" @@ c1 :> "card" @@ c2 :> "card"
Amounts == s1 :> 1 @@ s2 :> 1 @@ c1 :> 2 @@ c2 :> 1
PostingMonths == s1 :> 2 @@ s2 :> 2 @@ c1 :> 1 @@ c2 :> 1
Statements == s1 :> 2 @@ s2 :> 2
Offered == s1 :> {"income", "refund", "reversal"} @@ s2 :> {"refund", "card_payment"}
Manual == {[flow |-> "fee", amount |-> 1, category |-> "Groceries"]}

\* A purchase of one split, still to be booked, and one of two splits whose
\* account is that of a provider.
Owners == whole :> shop @@ left :> mixed @@ right :> mixed
Scopes == shop :> {"account"} @@ mixed :> {"account", "provider"}
PurchaseMonths == shop :> 1 @@ mixed :> 2
Asked == {<<whole, "food">>, <<left, "food">>, <<right, "fun">>}
Edited == {<<whole, "food">>}

MCInit == Init /\ ActionsInit /\ part \in {"credits", "purposes"}

MCNext ==
    /\ \/ part = "credits" /\ Next /\ UNCHANGED actionVars
       \/ part = "purposes" /\ ActionsNext /\ UNCHANGED vars
    /\ UNCHANGED part

MCSpec == MCInit /\ [][MCNext]_<<vars, actionVars, part>>
==============================================================================
