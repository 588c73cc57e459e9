---------------------------- MODULE StatementReview ----------------------------
(***************************************************************************)
(* Which statements a household owes itself, and how one is reviewed       *)
(* (app/db/repo_statement_expectations.py, app/db/repo_statement_reviews.py*)
(* and the statement branch of app/ingest/pipeline.py), for one account.   *)
(*                                                                         *)
(* A month that was prepared has an expectation; a statement that belongs  *)
(* to it is linked to it.  A statement has a review and rows; a row is a   *)
(* line with a content (date, amount, description, occurrence), its row    *)
(* hash.  Every handler is one write transaction.  The dates of a          *)
(* statement agree with the month it declares, and its rows are posted in  *)
(* that month.  Blockers that an operator may override with a reason stop  *)
(* only the automatic approval.  A submission that names an old revision   *)
(* is refused, and changes nothing: the actions are the accepted ones.     *)
(***************************************************************************)
EXTENDS Integers, Sequences, FiniteSets

CONSTANTS
    Months,        \* the account's calendar months, as numbers
    Anchor,        \* the month in which an annual statement is due
    Docs,          \* statement documents
    Rows,          \* Rows[d]: places for the rows of d
    Contents,      \* what a row can say
    Sayable,       \* Sayable[d]: what an operator writes into a row of d
    Awaiting,      \* contents of rows that are still pending at the bank
    Printed,       \* Printed[d]: the rows that d's two balances prove
    Checkable,     \* documents whose balances were both read
    Readings,      \* Readings[d]: the rows an extraction of d may return
    Kinds,         \* kinds of policy that are recorded
    NoTransaction, \* a line without a ledger transaction
    MaxPolicies,   \* bound on policy versions
    Activities,    \* bound: the kinds of activity that a correction declares
    Closable       \* bound: the months that are closed

ASSUME StatementAssumption ==
    /\ Months \subseteq Nat \ {0} /\ Months # {}
    /\ Contents # {}
    /\ Printed \in [Docs -> SUBSET Contents]
    /\ Awaiting \subseteq Contents
    /\ Sayable \in [Docs -> SUBSET Contents]
    /\ Readings \in [Docs -> SUBSET SUBSET Contents]
    /\ \A d \in Docs : \A read \in Readings[d] : IsFiniteSet(read)
    /\ Kinds \subseteq {"monthly", "annual", "no_statement", "unconfigured"}
    /\ Activities \subseteq {"transactions", "zero_activity", "unknown"}
    /\ MaxPolicies \in Nat

VARIABLES
    policies,      \* the versions of account_statement_policies, oldest first
    expectations,  \* expectations[m]: the row of account_statement_expectations
    links,         \* links[d]: the month whose expectation d is evidence of, or 0
    reviews,       \* reviews[d]: the row of statement_reviews
    lines,         \* lines[d][r]: the row of statement_lines
    queued,        \* documents whose job reconcile_document waits
    locked         \* closed months

expected == <<policies, expectations, links>>
staged == <<reviews, lines, queued>>
reviewVars == <<expected, staged, locked>>

Lifecycles == {"none", "expected", "received", "reviewed", "reconciled"}
Requirements == {"absent", "required", "waived", "not_due", "exempt", "unconfigured"}
Resolved == {"matched", "promoted", "ignored"}
Expectation == [requirement : Requirements, lifecycle : Lifecycles]
Review == [state : {"none", "pending", "approved"}, owned : BOOLEAN,
           period : Months, activity : {"transactions", "zero_activity", "unknown"}]

NoLine == [disposition |-> "absent", content |-> CHOOSE c \in Contents : TRUE,
           status |-> "unmatched", txn |-> NoTransaction]
NewLine(c) == [disposition |-> "active", content |-> c,
               status |-> "unmatched", txn |-> NoTransaction]
Dispositions == {"absent", "active", "excluded"}

-----------------------------------------------------------------------------
(* Policies and expectations *)

\* Defect: the newest version applies, whatever month it starts in.
NewestPolicy(m) == policies[Len(policies)]

\* policy_for_month: the version with the latest effective month, then the
\* latest of those.
PolicyFor(m) ==
    LET effective == {i \in 1..Len(policies) : policies[i].from <= m}
    IN policies[CHOOSE i \in effective : \A j \in effective :
                   \/ policies[j].from < policies[i].from
                   \/ policies[j].from = policies[i].from /\ j <= i]

RequirementFor(m) ==
    CASE PolicyFor(m).kind = "monthly" -> "required"
      [] PolicyFor(m).kind = "annual" -> IF m = Anchor THEN "required" ELSE "not_due"
      [] PolicyFor(m).kind = "no_statement" -> "exempt"
      [] PolicyFor(m).kind = "unconfigured" -> "unconfigured"

Snapshot(requirement) ==
    [requirement |-> requirement,
     lifecycle |-> IF requirement = "required" THEN "expected" ELSE "none"]

Evidence(m) == {d \in Docs : links[d] = m}

\* record_policy refuses a version that reaches a closed month.
record_policy(m, kind) ==
    /\ Len(policies) < MaxPolicies
    /\ \A closed \in locked : closed < m
    /\ policies' = Append(policies, [from |-> m, kind |-> kind])
    /\ UNCHANGED <<expectations, links, staged, locked>>

prepare_account_period(m) ==
    /\ expectations[m].requirement = "absent"
    /\ m \notin locked
    /\ expectations' = [expectations EXCEPT ![m] = Snapshot(RequirementFor(m))]
    /\ UNCHANGED <<policies, links, staged, locked>>

waive(m) ==
    /\ m \notin locked
    /\ expectations[m] = Snapshot("required")
    /\ Evidence(m) = {}
    /\ expectations' = [expectations EXCEPT ![m] = Snapshot("waived")]
    /\ UNCHANGED <<policies, links, staged, locked>>

restore_waiver(m) ==
    /\ m \notin locked
    /\ expectations[m].requirement = "waived"
    /\ expectations' = [expectations EXCEPT ![m] = Snapshot("required")]
    /\ UNCHANGED <<policies, links, staged, locked>>

refresh_from_policy(m) ==
    /\ m \notin locked
    /\ Evidence(m) = {}
    /\ expectations[m].requirement \notin {"absent", "waived"}
    /\ expectations[m].lifecycle \in {"none", "expected"}
    /\ expectations' = [expectations EXCEPT ![m] = Snapshot(RequirementFor(m))]
    /\ UNCHANGED <<policies, links, staged, locked>>

-----------------------------------------------------------------------------
(* Evidence of a month: each operator maps the table of expectations on    *)
(* which a handler's earlier steps left off.                               *)

Active(d, table) == {r \in Rows[d] : table[d][r].disposition = "active"}
ActiveContents(d, table) == {table[d][r].content : r \in Active(d, table)}

\* exact_document_identity: the month that the evidence of d proves, or 0.
\* All the rows carry the account and the period of the review.
Identity(d, review, table) ==
    IF review.owned /\ (Active(d, table) # {} \/ review.activity = "zero_activity")
    THEN review.period ELSE 0

\* The month that attach_exact_document links d to, or 0: a prepared month
\* keeps its requirement, an unprepared one has its policy's.
Attachable(d, m) ==
    IF m # 0 /\ (\/ expectations[m].requirement = "required"
                 \/ expectations[m].requirement = "absent" /\ RequirementFor(m) = "required")
    THEN m ELSE 0

AttachTo(table, m) ==
    [table EXCEPT ![m] = [requirement |-> "required", lifecycle |-> "received"]]

\* detach_document
Detach(table, d) ==
    IF links[d] # 0 /\ Evidence(links[d]) = {d}
    THEN [table EXCEPT ![links[d]].lifecycle = "expected"] ELSE table

\* Defect: a taken back approval leaves the month alone.
ReopenNothing(table, d) == table

\* reopen_document_review
ReopenEvidence(table, d) ==
    IF links[d] # 0 /\ table[links[d]].lifecycle \in {"reviewed", "reconciled"}
    THEN [table EXCEPT ![links[d]].lifecycle = "received"] ELSE table

\* _validate_document_identity, for a document that is linked to m.
Agrees(d, m, table, opinions) ==
    \/ Active(d, table) # {}
    \/ opinions[d].activity = "zero_activity" /\ opinions[d].owned /\ opinions[d].period = m

\* _reconciliation_evidence_summary
Settled(line) == line.status \in Resolved /\ line.content \notin Awaiting
ZeroProof(d, table, opinions) ==
    /\ opinions[d].state = "approved"
    /\ opinions[d].activity = "zero_activity"
    /\ d \in Checkable
    /\ Active(d, table) = {}

Complete(docs, table, opinions) ==
    LET rows == UNION {{table[d][r] : r \in Active(d, table)} : d \in docs}
    IN IF rows # {} THEN \A line \in rows : Settled(line)
       ELSE docs # {} /\ \A d \in docs : ZeroProof(d, table, opinions)

\* sync_document_reconciliation; mark_reconciled refuses evidence that lost
\* its identity, and with it the whole handler.
Synced(table, docs, m, rows, opinions) ==
    IF m = 0 THEN table
    ELSE CASE table[m].lifecycle = "reviewed" /\ Complete(docs, rows, opinions) ->
                  [table EXCEPT ![m].lifecycle = "reconciled"]
           [] table[m].lifecycle = "reconciled" /\ ~Complete(docs, rows, opinions) ->
                  [table EXCEPT ![m].lifecycle = "reviewed"]
           [] OTHER -> table

SyncAccepted(table, docs, m, rows, opinions) ==
    m # 0 /\ table[m].lifecycle = "reviewed" /\ Complete(docs, rows, opinions)
        => \A d \in docs : Agrees(d, m, rows, opinions)

\* mark_document_reviewed
Reviewed(table, m) ==
    IF table[m].lifecycle = "received" THEN [table EXCEPT ![m].lifecycle = "reviewed"]
    ELSE table

-----------------------------------------------------------------------------
(* Staging *)

\* Contents that are taken: UNIQUE(account_id, row_hash) over the account's
\* rows.  Rows without an account never collide, and an excluded row has
\* given its hash back.
Taken(d) == UNION {ActiveContents(e, lines) : e \in {x \in Docs \ {d} : reviews[x].owned}}

\* stage_lines: INSERT OR IGNORE; the rows take the first places, in order.
StageLines(d, kept) ==
    LET placed == CHOOSE f \in [1..Cardinality(kept) -> kept] : \A i, j \in DOMAIN f : f[i] = f[j] => i = j
    IN [r \in Rows[d] |-> IF r \in DOMAIN placed THEN NewLine(placed[r]) ELSE NoLine]

\* is_exact_duplicate_reexport
ExactReexport(d, m, read) ==
    /\ read # {}
    /\ \A c \in read : \E e \in Docs \ {d} :
           reviews[e].owned /\ reviews[e].period = m /\ c \in ActiveContents(e, lines)

\* completeness: the blockers that no reason overrides.
HardBlocked(d, review, table) ==
    \/ ~review.owned
    \/ review.activity = "zero_activity" /\ Active(d, table) # {}
    \/ d \in Checkable /\ ActiveContents(d, table) # Printed[d]

\* The job of an approved statement with activity.
Enqueued(d, needed) == IF needed THEN queued \cup {d} ELSE queued

\* create_from_extraction
NewReview(owned, m, read, zero) ==
    [state |-> "pending", owned |-> owned, period |-> m,
     activity |-> IF read # {} THEN "transactions"
                  ELSE IF zero THEN "zero_activity" ELSE "unknown"]

\* _process_statement: the worker stages an extraction, links it and,
\* when nothing at all blocks it, approves it.
extract_statement(d, owned, m, read, zero, clean) ==
    LET kept == IF owned THEN read \ Taken(d) ELSE read
        review == NewReview(owned, m, read, zero)
        table == [lines EXCEPT ![d] = StageLines(d, kept)]
        linked == Attachable(d, Identity(d, review, table))
        attached == owned /\ ~ExactReexport(d, m, read) /\ linked # 0
        approved == attached /\ clean /\ d \in Checkable /\ ~HardBlocked(d, review, table)
        opinions == [reviews EXCEPT ![d] = [review EXCEPT !.state =
                                               IF approved THEN "approved" ELSE "pending"]]
        received == IF attached THEN AttachTo(expectations, m) ELSE expectations
        docs == Evidence(m) \cup {d}
    IN /\ reviews[d].state = "none"
       /\ m \notin locked
       /\ approved => \A e \in docs : Agrees(e, m, table, opinions)
       /\ reviews' = opinions
       /\ lines' = table
       /\ links' = [links EXCEPT ![d] = IF attached THEN m ELSE 0]
       /\ expectations' =
             IF ~approved THEN received
             ELSE IF review.activity = "zero_activity"
                  THEN Synced(Reviewed(received, m), docs, m, table, opinions)
                  ELSE Reviewed(received, m)
       /\ queued' = Enqueued(d, approved /\ review.activity # "zero_activity")
       /\ UNCHANGED <<policies, locked>>

-----------------------------------------------------------------------------
(* Review: every correction of a document whose rows are not reconciled    *)
(* takes its approval back.                                                *)

\* Defect: reconciled rows may be corrected.
CorrectableAnyhow(d) == reviews[d].state # "none" /\ reviews[d].period \notin locked

\* _guard_review_month and _assert_document_unresolved
Correctable(d) ==
    /\ reviews[d].state # "none"
    /\ reviews[d].period \notin locked
    /\ \A r \in Active(d, lines) : /\ lines[d][r].status \notin Resolved
                                   /\ lines[d][r].txn = NoTransaction

\* _reopen_projection_if_needed
WasApproved(d) == reviews[d].state = "approved"
Reopened(d) == [reviews EXCEPT ![d].state = "pending"]
ReopenProjection(d) ==
    IF WasApproved(d) THEN ReopenEvidence(expectations, d) ELSE expectations

\* _sync_expectation_identity, after the rows of d became those of table.
SyncIdentity(d, base, table) ==
    LET m == Identity(d, reviews[d], table)
        target == Attachable(d, m)
    IN IF m = 0
       THEN /\ links[d] # 0 => links[d] \notin locked
            /\ links' = [links EXCEPT ![d] = 0]
            /\ expectations' = Detach(base, d)
       ELSE IF links[d] = 0 /\ target # 0
       THEN /\ target \notin locked
            /\ links' = [links EXCEPT ![d] = target]
            /\ expectations' = AttachTo(base, target)
       ELSE /\ links' = links
            /\ expectations' = base

\* resolve_document_account: rows that another statement of the account
\* already has are excluded when the account becomes known.
ResolveAccount(d) ==
    [r \in Rows[d] |-> IF ~reviews[d].owned /\ lines[d][r].disposition = "active"
                         /\ lines[d][r].content \in Taken(d)
                    THEN [lines[d][r] EXCEPT !.disposition = "excluded"] ELSE lines[d][r]]

\* identity_changed in update_metadata
Moves(d, review) == review.owned # reviews[d].owned \/ review.period # reviews[d].period

\* A correction of the metadata; account is whether it names the account.
\* A changed identity is detached before the new one is attached.
update_metadata(d, account, m, activity) ==
    LET review == [reviews[d] EXCEPT !.state = "pending", !.owned = @ \/ account,
                                     !.period = m, !.activity = activity]
        table == IF account THEN [lines EXCEPT ![d] = ResolveAccount(d)] ELSE lines
        detached == links[d] # 0 /\ Moves(d, review)
        base == IF detached THEN Detach(ReopenProjection(d), d) ELSE ReopenProjection(d)
        target == IF links[d] = 0 \/ detached THEN Attachable(d, Identity(d, review, table)) ELSE 0
    IN /\ Correctable(d)
       /\ account => \A r \in Active(d, lines) : lines[d][r].status = "unmatched"
       /\ detached => links[d] \notin locked
       /\ m \notin locked
       /\ reviews' = [reviews EXCEPT ![d] = review]
       /\ lines' = table
       /\ links' = [links EXCEPT ![d] = IF target # 0 THEN target
                                        ELSE IF detached THEN 0 ELSE @]
       /\ expectations' = IF target # 0 THEN AttachTo(base, target) ELSE base
       /\ UNCHANGED <<policies, queued, locked>>

\* Defect: rows of other statements are not looked for.
CollidesNever(d, c) == FALSE

\* Another statement of the account, or another one without an account, has
\* an active row with the content c.
Collides(d, c) == \E e \in Docs \ {d} :
    reviews[e].owned = reviews[d].owned /\ c \in ActiveContents(e, lines)

\* The rows of one statement differ.
Fits(d, r, c) == \A q \in Active(d, lines) \ {r} : lines[d][q].content # c

correct_row(d, r, c) ==
    /\ Correctable(d)
    /\ r \in Active(d, lines)
    /\ Fits(d, r, c) /\ ~Collides(d, c)
    /\ lines' = [lines EXCEPT ![d][r] = NewLine(c)]
    /\ reviews' = Reopened(d)
    /\ expectations' = ReopenProjection(d)
    /\ UNCHANGED <<policies, links, queued, locked>>

add_row(d, r, c) ==
    /\ Correctable(d)
    /\ lines[d][r].disposition = "absent"
    /\ Fits(d, r, c) /\ ~(reviews[d].owned /\ Collides(d, c))
    /\ lines' = [lines EXCEPT ![d][r] = NewLine(c)]
    /\ reviews' = Reopened(d)
    /\ SyncIdentity(d, ReopenProjection(d), [lines EXCEPT ![d][r] = NewLine(c)])
    /\ UNCHANGED <<policies, queued, locked>>

\* _set_row_disposition
SetDisposition(d, r, disposition) ==
    LET table == [lines EXCEPT ![d][r] = [NewLine(lines[d][r].content)
                                             EXCEPT !.disposition = disposition]]
    IN /\ Correctable(d)
       /\ lines' = table
       /\ reviews' = Reopened(d)
       /\ SyncIdentity(d, ReopenProjection(d), table)
       /\ UNCHANGED <<policies, queued, locked>>

exclude_row(d, r) ==
    /\ lines[d][r].disposition = "active"
    /\ SetDisposition(d, r, "excluded")

restore_row(d, r) ==
    /\ lines[d][r].disposition = "excluded"
    /\ Fits(d, r, lines[d][r].content) /\ ~Collides(d, lines[d][r].content)
    /\ SetDisposition(d, r, "active")

\* archive_source: every row is excluded and the evidence detached.
archive_source(d) ==
    /\ Correctable(d)
    /\ links[d] # 0 => links[d] \notin locked
    /\ lines' = [lines EXCEPT ![d] = [r \in Rows[d] |->
                    IF lines[d][r].disposition = "active"
                    THEN [lines[d][r] EXCEPT !.disposition = "excluded", !.status = "unmatched"]
                    ELSE lines[d][r]]]
    /\ reviews' = Reopened(d)
    /\ links' = [links EXCEPT ![d] = 0]
    /\ expectations' = Detach(ReopenProjection(d), d)
    /\ UNCHANGED <<policies, queued, locked>>

\* approve
approve(d) ==
    LET target == IF links[d] # 0 THEN links[d]
                  ELSE Attachable(d, Identity(d, reviews[d], lines))
        opinions == [reviews EXCEPT ![d].state = "approved"]
        base == IF links[d] = 0 THEN AttachTo(expectations, target) ELSE expectations
        docs == Evidence(target) \cup {d}
    IN /\ reviews[d].state = "pending"
       /\ reviews[d].period \notin locked
       /\ ~HardBlocked(d, reviews[d], lines)
       /\ target # 0
       /\ base[target].lifecycle = "received" =>
             \A e \in docs : Agrees(e, target, lines, opinions)
       /\ reviews[d].activity = "zero_activity" =>
             SyncAccepted(Reviewed(base, target), docs, target, lines, opinions)
       /\ reviews' = opinions
       /\ links' = [links EXCEPT ![d] = target]
       /\ expectations' =
             IF reviews[d].activity = "zero_activity"
             THEN Synced(Reviewed(base, target), docs, target, lines, opinions)
             ELSE Reviewed(base, target)
       /\ queued' = Enqueued(d, reviews[d].activity # "zero_activity")
       /\ UNCHANGED <<policies, lines, locked>>

\* Closing and reopening a month (MonthLock, PeriodPolicy).
Close(m) == locked' = locked \cup {m} /\ m \notin locked
            /\ UNCHANGED <<expected, staged>>
Reopen(m) == locked' = locked \ {m} /\ m \in locked
             /\ UNCHANGED <<expected, staged>>

-----------------------------------------------------------------------------
InitReview ==
    LET first == CHOOSE m \in Months : \A n \in Months : m <= n IN
        /\ policies = <<[from |-> first, kind |-> "unconfigured"]>>
        /\ expectations = [m \in Months |-> [requirement |-> "absent", lifecycle |-> "none"]]
        /\ links = [d \in Docs |-> 0]
        /\ reviews = [d \in Docs |-> [state |-> "none", owned |-> FALSE, period |-> first,
                                      activity |-> "unknown"]]
        /\ lines = [d \in Docs |-> [r \in Rows[d] |-> NoLine]]
        /\ queued = {}
        /\ locked = {}

PolicySteps == \E m \in Months :
    \/ \E kind \in Kinds : record_policy(m, kind)
    \/ prepare_account_period(m)
    \/ waive(m)
    \/ restore_waiver(m)
    \/ refresh_from_policy(m)
    \/ m \in Closable /\ Close(m)
    \/ Reopen(m)

StagingSteps == \E d \in Docs, m \in Months, owned, zero, clean \in BOOLEAN :
    \E read \in Readings[d] : extract_statement(d, owned, m, read, zero, clean)

RowSteps(d) ==
    \/ \E r \in Rows[d], c \in Sayable[d] : correct_row(d, r, c) \/ add_row(d, r, c)
    \/ \E r \in Rows[d] : exclude_row(d, r) \/ restore_row(d, r)

SourceSteps(d) == archive_source(d) \/ approve(d)

ReviewSteps == \E d \in Docs :
    \/ \E account \in BOOLEAN, m \in Months, activity \in Activities :
           update_metadata(d, account, m, activity)
    \/ RowSteps(d)
    \/ SourceSteps(d)
=============================================================================
