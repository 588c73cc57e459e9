---------------------------- MODULE Reconciliation ----------------------------
(***************************************************************************)
(* Reconciling reviewed statements with the ledger (app/reconcile/apply.py,*)
(* engine.py, app/db/repo_statements.py, app/web/routes/recon.py), composed*)
(* with StatementReview.                                                   *)
(*                                                                         *)
(* A transaction is a receipt's, or one that was promoted from a row and   *)
(* is named by the row's hash, its external id.  Automatic matching is     *)
(* switched off by the policy of automation_policy.py, so the job leaves   *)
(* every row to the operator.  Statements whose account is unknown are not *)
(* reconciled here.                                                        *)
(***************************************************************************)
EXTENDS StatementReview

CONSTANTS
    Receipts,      \* transactions that receipts booked
    Credits,       \* contents of rows with money coming in
    StalePages     \* operators submit pages that no longer show the row's status

VARIABLES
    ledger,        \* ledger[t]: recon_status of the transaction t
    audited        \* transactions with accounting decisions on record

ledgerVars == <<ledger, audited>>
vars == <<reviewVars, ledgerVars>>

Transactions == Receipts \cup Contents

ASSUME LedgerAssumption ==
    /\ Receipts \cap Contents = {}
    /\ NoTransaction \notin Transactions
    /\ StalePages \in BOOLEAN

TypeOK ==
    /\ policies \in Seq([from : Months, kind : Kinds \cup {"unconfigured"}])
    /\ expectations \in [Months -> Expectation]
    /\ links \in [Docs -> Months \cup {0}]
    /\ reviews \in [Docs -> Review]
    /\ DOMAIN lines = Docs
    /\ \A d \in Docs : lines[d] \in
          [Rows[d] -> [disposition : Dispositions, content : Contents,
                       status : {"unmatched", "needs_review"} \cup Resolved,
                       txn : Transactions \cup {NoTransaction}]]
    /\ queued \subseteq Docs
    /\ locked \subseteq Months
    /\ ledger \in [Transactions -> {"none", "uncleared", "cleared"}]
    /\ audited \subseteq Transactions

AllLines == UNION {{<<d, r>> : r \in Active(d, lines)} : d \in Docs}
Claims(t) == {l \in AllLines : lines[l[1]][l[2]].txn = t}

\* sync_document_reconciliation for d, once its rows are those of table.
SyncDocument(d, table) ==
    /\ SyncAccepted(expectations, Evidence(links[d]), links[d], table, reviews)
    /\ expectations' = Synced(expectations, Evidence(links[d]), links[d], table, reviews)

\* The triggers on statement_lines and transactions refuse a closed month.
TriggersAllow(d) == reviews[d].period \notin locked

\* _get_line; the pages offer the rows that need a review.
Offered(d, r) ==
    /\ r \in Active(d, lines)
    /\ reviews[d].owned
    /\ StalePages \/ lines[d][r].status = "needs_review"

SetMatch(d, r, status, t) == [lines EXCEPT ![d][r].status = status, ![d][r].txn = t]

\* The job reconcile_document, after an approval or a rerun: every row is
\* left to the operator.
reconcile_document(d) ==
    LET table == [lines EXCEPT ![d] = [r \in Rows[d] |->
                      IF lines[d][r].disposition = "active" /\ lines[d][r].status = "unmatched"
                      THEN [lines[d][r] EXCEPT !.status = "needs_review"] ELSE lines[d][r]]]
    IN /\ reviews[d].state # "none"
       /\ reviews[d].owned
       /\ TriggersAllow(d)
       /\ lines' = table
       /\ SyncDocument(d, table)
       /\ queued' = queued \ {d}
       /\ UNCHANGED <<policies, links, reviews, locked, ledgerVars>>

confirm_match(d, r, t) ==
    /\ Offered(d, r)
    /\ TriggersAllow(d)
    /\ ledger[t] = "uncleared"
    /\ Claims(t) = {}
    /\ lines' = SetMatch(d, r, "matched", t)
    /\ ledger' = [ledger EXCEPT ![t] = "cleared"]
    /\ SyncDocument(d, SetMatch(d, r, "matched", t))
    /\ UNCHANGED <<policies, links, reviews, queued, locked, audited>>

\* insert_transaction: a new (source, external_id)
Books(c) == ledger[c] = "none"

\* promote_from_line: a row whose transaction exists goes back to review.
promote_line(d, r) ==
    LET c == lines[d][r].content
        table == IF Books(c) THEN SetMatch(d, r, "promoted", c)
                 ELSE SetMatch(d, r, "needs_review", NoTransaction)
    IN /\ Offered(d, r)
       /\ TriggersAllow(d)
       /\ lines' = table
       /\ ledger' = IF Books(c) THEN [ledger EXCEPT ![c] = "cleared"] ELSE ledger
       /\ SyncDocument(d, table)
       /\ UNCHANGED <<policies, links, reviews, queued, locked, audited>>

ignore_line(d, r) ==
    /\ Offered(d, r)
    /\ TriggersAllow(d)
    /\ lines[d][r].content \notin Credits
    /\ lines' = SetMatch(d, r, "ignored", NoTransaction)
    /\ SyncDocument(d, SetMatch(d, r, "ignored", NoTransaction))
    /\ UNCHANGED <<policies, links, reviews, queued, locked, ledgerVars>>

\* What undoing the claim of a line on t makes of t: a match and a promotion
\* with decisions are kept, any other promotion is removed.
Released(line, t) ==
    IF line.status = "promoted" /\ t \notin audited THEN "none" ELSE "uncleared"

unreconcile_document(d) ==
    LET claiming == {r \in Active(d, lines) : lines[d][r].txn # NoTransaction}
    IN /\ reviews[d].state # "none"
       /\ reviews[d].owned
       /\ TriggersAllow(d)
       /\ lines' = [lines EXCEPT ![d] = [r \in Rows[d] |->
                       IF lines[d][r].disposition = "active" THEN NewLine(lines[d][r].content)
                       ELSE lines[d][r]]]
       /\ ledger' = [t \in Transactions |->
                       IF \E r \in claiming : lines[d][r].txn = t
                       THEN Released(lines[d][CHOOSE r \in claiming : lines[d][r].txn = t], t)
                       ELSE ledger[t]]
       /\ expectations' = IF links[d] # 0 /\ expectations[links[d]].lifecycle = "reconciled"
                          THEN [expectations EXCEPT ![links[d]].lifecycle = "reviewed"]
                          ELSE expectations
       /\ UNCHANGED <<policies, links, reviews, queued, locked, audited>>

\* A decision on a transaction that is kept for good: a flow decision, a bank
\* association, a receipt's evidence.
Decide(t) ==
    /\ ledger[t] # "none"
    /\ audited' = audited \cup {t}
    /\ UNCHANGED <<reviewVars, ledger>>

-----------------------------------------------------------------------------
Init ==
    /\ InitReview
    /\ ledger = [t \in Transactions |-> IF t \in Receipts THEN "uncleared" ELSE "none"]
    /\ audited = {}

LedgerSteps ==
    \/ \E d \in Docs :
          \/ reconcile_document(d)
          \/ unreconcile_document(d)
          \/ \E r \in Rows[d] : \/ promote_line(d, r)
                             \/ ignore_line(d, r)
                             \/ \E t \in Transactions : confirm_match(d, r, t)
    \/ \E t \in Transactions : Decide(t)

Next ==
    \/ (PolicySteps \/ StagingSteps \/ ReviewSteps) /\ UNCHANGED ledgerVars
    \/ LedgerSteps

Spec == Init /\ [][Next]_vars

-----------------------------------------------------------------------------
(* Properties *)

\* A statement is evidence of the month that its review identifies, and that
\* month asks for statements, however identities, policies and rows change
\* (attach_exact_document, update_metadata, refresh_from_policy).
EvidenceBelongs == \A d \in Docs : links[d] # 0 =>
    /\ reviews[d].owned
    /\ reviews[d].period = links[d]
    /\ expectations[links[d]].requirement = "required"

\* A month is past "expected" exactly while a statement is linked to it
\* (attach_document, detach_document).
LifecycleHasEvidence == \A m \in Months :
    expectations[m].lifecycle \in {"received", "reviewed", "reconciled"} <=> Evidence(m) # {}

\* A month counts as reviewed only while one of its statements is approved:
\* every way to change an approved statement takes the month back first
\* (_reopen_projection_if_needed, reopen_document_review).
ReviewedByApproval == \A m \in Months :
    expectations[m].lifecycle \in {"reviewed", "reconciled"} =>
        \E d \in Evidence(m) : reviews[d].state = "approved"

\* The rows of an approved statement are the ones that its balances prove,
\* after any order of corrections, exclusions and approvals (completeness).
ApprovedBalances == \A d \in Docs \cap Checkable :
    reviews[d].state = "approved" => ActiveContents(d, lines) = Printed[d]

\* In a reconciled month every row of an approved statement is decided, unless the
\* statement's job still waits, and some statement of the month has a decided row or
\* proves that there were none (mark_reconciled, sync_document_reconciliation).
ReconciledIsProven == \A m \in Months : expectations[m].lifecycle = "reconciled" =>
    /\ \A d \in Evidence(m) \ queued : reviews[d].state = "approved" =>
           \A r \in Active(d, lines) : Settled(lines[d][r])
    /\ \E d \in Evidence(m) : \/ \E r \in Active(d, lines) : Settled(lines[d][r])
                              \/ ZeroProof(d, lines, reviews)

\* No two statements of the account hold the same row (UNIQUE(account_id,
\* row_hash), correct_row, restore_row, resolve_document_account).
RowsCountedOnce == \A d, e \in Docs : d # e /\ reviews[d].owned /\ reviews[e].owned =>
    ActiveContents(d, lines) \cap ActiveContents(e, lines) = {}

\* A transaction that a row claims is cleared, by that row alone
\* (confirm_match, promote_from_line, unreconcile_document).
ClaimsAreCleared == \A l \in AllLines : LET line == lines[l[1]][l[2]] IN
    /\ line.status \in {"matched", "promoted"} <=> line.txn # NoTransaction
    /\ line.txn # NoTransaction => ledger[line.txn] = "cleared" /\ Claims(line.txn) = {l}

\* A cleared transaction is claimed by a row.
ClearedIsClaimed == \A t \in Transactions : ledger[t] = "cleared" => Claims(t) # {}

\* A transaction with a decision on record is never removed
\* (unreconcile_document).
DecidedStays == \A t \in audited : ledger[t] # "none"

\* How far a month has come is what its statements say: every change of a
\* policy, an identity, a row or an approval takes the month back with it.
LifecycleFollows ==
    /\ TypeOK
    /\ EvidenceBelongs
    /\ LifecycleHasEvidence
    /\ ReviewedByApproval
    /\ ReconciledIsProven

\* The rows of the statements add up to what was printed, each counted once.
RowsAddUp == ApprovedBalances /\ RowsCountedOnce

\* Rows and transactions know of each other, and what was decided is kept,
\* whatever is confirmed, promoted or undone, in which order.
ClaimsHold == ClaimsAreCleared /\ ClearedIsClaimed /\ DecidedStays

\* What a closed month rests on does not change while it is closed: its
\* policy, its expectation, its evidence and the rows of its statements.
ClosedStands == [][\A m \in locked :
    /\ PolicyFor(m)' = PolicyFor(m)
    /\ expectations'[m] = expectations[m]
    /\ Evidence(m)' = Evidence(m)
    /\ \A d \in Docs : reviews[d].state # "none" /\ reviews[d].period = m => lines'[d] = lines[d]]_vars
=============================================================================
