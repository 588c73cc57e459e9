----------------------------- MODULE LedgerReview -----------------------------
(***************************************************************************)
(* What reviewers decide about the ledger: what a credit means and what a  *)
(* purchase was for.  Both stop at a month that is closed                  *)
(* (app/db/repo_close.py, guard_transaction_write).                       *)
(***************************************************************************)
EXTENDS PositiveFlows, ProposedActions

\* A closed month keeps its credits, rows, categories and claims: no decision
\* about an open month changes the other end of a pair or what it taught.
ClosedMonthsStand == ClosedStands /\ ClosedCategoriesStand
=============================================================================
