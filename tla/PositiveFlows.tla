----------------------------- MODULE PositiveFlows -----------------------------
(***************************************************************************)
(* What a credit means (app/reconcile/positive_flows.py and               *)
(* app/accounting/flows.py, with the triggers of migrations 028 and 034).  *)
(*                                                                         *)
(* A credit row of a reviewed statement becomes a transaction whose flow   *)
(* is unknown; an operator rejects proposals about it, accepts one, and    *)
(* may undo that.  A page carries the evidence it was rendered from and an *)
(* operation key.  A submission with other than the current evidence is    *)
(* refused and changes nothing, so the actions are the submissions of      *)
(* pages, however old, whose evidence is the current one.  The history of  *)
(* events is the only record of decisions.  A transaction has one split,   *)
(* and every debit is in the currency and the window of every credit.      *)
(***************************************************************************)
EXTENDS Integers, Sequences, FiniteSets, FiniteSetsExt, Functions

CONSTANTS
    Subjects,      \* credits: each is one row of a statement
    Candidates,    \* debits in the ledger
    Account,       \* Account[t]
    CreditCards,   \* accounts of kind credit
    Start,         \* Start[t]: amount, without its sign
    Posted,        \* Posted[t]: month of posting
    Statement,     \* Statement[s]: month of the statement that lists s
    Editable,      \* bound: transactions with manual edits
    Edits,         \* bound: the flows, amounts and categories of manual edits
    Closable,      \* bound: months that are closed
    Considered,    \* bound: Considered[s], flows whose proposals are acted on
    MaxEvents      \* bound on the history

Transactions == Subjects \cup Candidates
Nothing == "none"

VARIABLES
    txns,          \* txns[t]: flow, amount and category of a transaction
    edges,         \* active transaction_relationships
    rows,          \* rows[s]: whether the row of s claims s
    events,        \* positive_flow_decision_events, oldest first
    edited,        \* transactions with manual edits
    locked         \* closed months

vars == <<txns, edges, rows, events, edited, locked>>

\* FlowKind: the flows of credits and of debits
Earned == {"income", "interest"}
Offsets == {"refund", "reimbursement", "reversal"}
Transfers == {"internal_transfer", "card_payment"}
Spending == {"purchase", "fee"}
Flows == {"absent", "unknown"} \cup Earned \cup Offsets \cup Transfers \cup Spending
Expenses == {"Uncategorized", "Groceries"}
Categories == Expenses \cup {"Uncategorized Income", "Internal Transfers"}

ASSUME FlowAssumption ==
    /\ Subjects \cap Candidates = {} /\ Nothing \notin Transactions
    /\ Start \in [Transactions -> Nat \ {0}]
    /\ Editable \subseteq Transactions
    /\ Edits \subseteq [flow : Flows \ {"absent"}, amount : Nat, category : Categories]
    /\ MaxEvents \in Nat

\* RelationshipKind, by the flow of the credit
Relationship(flow) ==
    CASE flow = "refund" -> "refund_of"
      [] flow = "reimbursement" -> "reimbursement_for"
      [] flow = "reversal" -> "reversal_of"
      [] flow \in Transfers -> "transfer_pair"
      [] OTHER -> Nothing

-----------------------------------------------------------------------------
(* Relationships; an edge names its credit and its debit *)

\* validate_flow_amount
FlowFits(t, flow) == flow \notin (IF t \in Subjects THEN Spending ELSE Earned \cup Offsets)

\* _relationship_error
EdgeFits(kind, s, c, ledger) ==
    CASE kind = "transfer_pair" ->
             /\ ledger[s].flow = ledger[c].flow /\ ledger[s].flow \in Transfers
             /\ Account[s] # Account[c]
             /\ ledger[s].amount = ledger[c].amount
      [] OTHER ->
             /\ Relationship(ledger[s].flow) = kind
             /\ ledger[c].flow \in Spending
             /\ IF kind = "reversal_of" THEN ledger[s].amount = ledger[c].amount
                ELSE ledger[s].amount <= ledger[c].amount

Partial == {"refund_of", "reimbursement_for"}
Into(c, kinds) == {e \in edges : e.debit = c /\ e.kind \in kinds}
Applied(c) == SumFunction([e \in Into(c, Partial) |-> txns[e.credit].amount])
Reversed(c) == Into(c, {"reversal_of"}) # {}
Paired(t) == \E e \in edges : e.kind = "transfer_pair" /\ t \in {e.credit, e.debit}

\* _relationship_set_error
Room(kind, s, c, ledger) ==
    CASE kind = "transfer_pair" -> ~Paired(s) /\ ~Paired(c)
      [] kind \in Partial -> ~Reversed(c) /\ Applied(c) + ledger[s].amount <= ledger[c].amount
      [] kind = "reversal_of" -> Into(c, Partial \cup {"reversal_of"}) = {}

\* Defect: the other leg of an edge is not looked at.
KeepsOwnEdges(t, ledger, kept) == \A e \in kept :
    t = e.credit => EdgeFits(e.kind, e.credit, e.debit, ledger)

\* set_flow_kind, and the triggers on an update of a transaction: every
\* active edge of t still fits.
KeepsEdges(t, ledger, kept) == \A e \in kept : t \in {e.credit, e.debit} =>
    /\ EdgeFits(e.kind, e.credit, e.debit, ledger)
    /\ e.kind \in Partial =>
          SumFunction([f \in Into(e.debit, Partial) \cap kept |-> ledger[f.credit].amount])
              <= ledger[e.debit].amount

-----------------------------------------------------------------------------
(* Queries over the events *)

Accepts(s) == {i \in DOMAIN events : events[i].kind = "accept" /\ events[i].subject = s}
Undone(i) == \E j \in DOMAIN events : events[j].kind = "undo" /\ events[j].reverts = i

\* _live_acceptance: the latest that was not undone, or 0.
LiveAcceptance(s) ==
    LET open == {i \in Accepts(s) : ~Undone(i)}
    IN IF open = {} THEN 0 ELSE Max(open)

\* _proposal_state
ProposalState(s, p) ==
    LET about == {i \in DOMAIN events : events[i].subject = s /\ events[i].proposal = p}
        last == events[Max(about)].kind
    IN IF about = {} \/ last \in {"restore", "undo"} THEN "available"
       ELSE IF last = "reject" THEN "suppressed" ELSE "resolved"

Proposal(flow, c, debitFlow) == [flow |-> flow, debit |-> c, debitFlow |-> debitFlow]

\* _classification_proposals
ClassificationProposals == {Proposal(flow, Nothing, Nothing) : flow \in Earned}

\* _pair_proposals
TransferFlow(s, c) == IF (Account[s] \in CreditCards) # (Account[c] \in CreditCards)
                      THEN "card_payment" ELSE "internal_transfer"
SpendingFlow(c) == IF txns[c].flow \in Spending THEN txns[c].flow ELSE "purchase"
Exact(s, c) == txns[s].amount = txns[c].amount
Offsettable(c) == txns[c].flow \in {"unknown"} \cup Spending /\ ~Reversed(c)
TransferFlows(s, c) ==
    IF /\ Exact(s, c) /\ Account[s] # Account[c] /\ ~Paired(c)
       /\ txns[c].flow \in {"unknown"} \cup Transfers
    THEN {TransferFlow(s, c)} ELSE {}
PartialFlows(s, c) ==
    IF Offsettable(c) /\ txns[s].amount <= txns[c].amount - Applied(c)
    THEN {"refund", "reimbursement"} ELSE {}
ReversalFlows(s, c) ==
    IF Offsettable(c) /\ Exact(s, c) /\ Account[s] = Account[c] /\ Applied(c) = 0
    THEN {"reversal"} ELSE {}
PairProposals(s) == UNION {
    {Proposal(flow, c, flow) : flow \in TransferFlows(s, c)} \cup
    {Proposal(flow, c, SpendingFlow(c)) : flow \in PartialFlows(s, c) \cup ReversalFlows(s, c)}
        : c \in Candidates}

AllProposals(s) == ClassificationProposals \cup PairProposals(s)

\* _intake_rows and _subject_rows
Intake == Proposal("unknown", Nothing, Nothing)
Listed(s) == \/ rows[s] = "claimed"
             \/ rows[s] = "loose" /\ LiveAcceptance(s) # 0

-----------------------------------------------------------------------------
(* Submissions.  The key of a page is new, or that of an event when the    *)
(* page is submitted again; that one is answered with its event and        *)
(* changes nothing.                                                        *)

\* _operation_replay and UNIQUE(operation_key)
Fresh(k) == \A i \in DOMAIN events : events[i].key # k

\* Defect: only the statement's month is guarded.
StatementOnly(s, p) == Statement[s] \notin locked

\* _guard_statement_and_endpoint_months
Guarded(s, p) ==
    /\ Statement[s] \notin locked
    /\ \A t \in Transactions \cap {s, p.debit} : Posted[t] \notin locked

\* positive_flow_event_statement_scope_insert
InScope(s) == rows[s] = "claimed" /\ txns[s].amount = Start[s]

Event(k, kind, s, p, reverts, category) ==
    [key |-> k, kind |-> kind, subject |-> s, proposal |-> p, reverts |-> reverts,
     prior |-> txns[s], category |-> category,
     priorDebit |-> IF p.debit = Nothing THEN Nothing ELSE txns[p.debit].flow]

\* promote_from_line: rows start out promoted, and no flow is known.
Booked(t) == [flow |-> "unknown", amount |-> Start[t], category |-> "Uncategorized"]

\* The event of a recovery, which decides nothing
IntakeEvent(s, k) == Event(k, "intake", s, Intake, 0, Nothing)

\* The row claims its transaction again, if the ledger kept it.
recover_positive_line(s, k) ==
    LET live == LiveAcceptance(s) IN
       /\ rows[s] = "loose"
       /\ Fresh(k)
       /\ Guarded(s, Intake)
       /\ IF txns[s].flow = "absent"
          THEN txns' = [txns EXCEPT ![s] = Booked(s)]
          ELSE /\ txns[s].amount = Start[s]
               /\ IF txns[s].flow = "unknown" THEN live = 0
                  ELSE live # 0 /\ events[live].proposal.flow = txns[s].flow
               /\ txns' = txns
       /\ rows' = [rows EXCEPT ![s] = "claimed"]
       /\ events' = Append(events, IntakeEvent(s, k))
       /\ UNCHANGED <<edges, edited, locked>>

\* What a submission about a proposal requires
Current(s, p, k, state) ==
    /\ Fresh(k)
    /\ Listed(s) /\ InScope(s)
    /\ p \in AllProposals(s) /\ p.flow \in Considered[s]
    /\ ProposalState(s, p) = state
    /\ Guarded(s, p)

reject_proposal(s, p, k) ==
    /\ Current(s, p, k, "available")
    /\ events' = Append(events, Event(k, "reject", s, p, 0, Nothing))
    /\ UNCHANGED <<txns, edges, rows, edited, locked>>

restore_proposal(s, p, k) ==
    /\ Current(s, p, k, "suppressed")
    /\ events' = Append(events, Event(k, "restore", s, p, 0, Nothing))
    /\ UNCHANGED <<txns, edges, rows, edited, locked>>

\* _retag_subject_splits
Retagged(flow, category) ==
    CASE flow \in Earned -> "Uncategorized Income"
      [] flow \in Transfers -> "Internal Transfers"
      [] OTHER -> category

Undecided(s) == LiveAcceptance(s) = 0

accept_classification(s, p, k) ==
    /\ p.debit = Nothing
    /\ Current(s, p, k, "available")
    /\ Undecided(s)
    /\ txns' = [txns EXCEPT ![s].flow = p.flow, ![s].category = Retagged(p.flow, Nothing)]
    /\ KeepsEdges(s, txns', edges)
    /\ events' = Append(events, Event(k, "accept", s, p, 0, Retagged(p.flow, Nothing)))
    /\ UNCHANGED <<edges, rows, edited, locked>>

\* _resolve_offset_category: an offset takes the category of its debit.
Categorised(c) == txns[c].category \in Expenses

\* The event of an accepted pair, with the category that the credit takes
PairEvent(s, p, k) == Event(k, "accept", s, p, 0, Retagged(p.flow, txns[p.debit].category))

accept_pair(s, p, k) ==
    LET c == p.debit
        edge == [kind |-> Relationship(p.flow), credit |-> s, debit |-> c,
                 event |-> Len(events) + 1]
    IN /\ c # Nothing
       /\ Current(s, p, k, "available")
       /\ Undecided(s)
       /\ p.flow \in Offsets => Categorised(c)
       /\ txns' = [txns EXCEPT ![c].flow = p.debitFlow, ![s].flow = p.flow,
                               ![s].category = Retagged(p.flow, txns[c].category)]
       /\ KeepsEdges(c, txns', edges) /\ KeepsEdges(s, txns', edges)
       /\ EdgeFits(edge.kind, s, c, txns') /\ Room(edge.kind, s, c, txns')
       /\ edges' = edges \cup {edge}
       /\ events' = Append(events, PairEvent(s, p, k))
       /\ UNCHANGED <<rows, edited, locked>>

\* revoke_relationship
Revoked(i) == {e \in edges : e.event # i}

\* Defect: an acceptance may be undone twice.
UndoneAgain(i) == TRUE

\* uq_positive_flow_event_undo
UndoneFirst(i) == ~Undone(i)

\* _restore_subject_splits and the prior flows
Restored(i) ==
    LET restored == [txns EXCEPT ![events[i].subject] = events[i].prior]
    IN IF events[i].proposal.debit = Nothing THEN restored
       ELSE [restored EXCEPT ![events[i].proposal.debit].flow = events[i].priorDebit]

\* positive_flow_event_undo_state_insert, and the splits that undo_acceptance
\* compares before it restores them
Unchanged(i) == LET s == events[i].subject IN
    txns[s].category = events[i].category /\ txns[s].amount = events[i].prior.amount

UndoEvent(i, k) == Event(k, "undo", events[i].subject, events[i].proposal, i, Nothing)

\* A page that undoes the acceptance i showed it while it stood, and the
\* evidence is the same again; so is the relationship's status.
undo_acceptance(i, k) ==
    LET s == events[i].subject  p == events[i].proposal IN
    /\ events[i].kind = "accept" /\ Fresh(k)
    /\ LiveAcceptance(s) # 0
    /\ UndoneFirst(i)
    /\ p.debit # Nothing => \E e \in edges : e.event = i
    /\ Guarded(s, p)
    /\ Unchanged(i)
    /\ edges' = Revoked(i)
    /\ txns' = Restored(i)
    /\ KeepsEdges(s, txns', edges')
    /\ p.debit # Nothing => KeepsEdges(p.debit, txns', edges')
    /\ events' = Append(events, UndoEvent(i, k))
    /\ UNCHANGED <<rows, edited, locked>>

-----------------------------------------------------------------------------
(* Other writers *)

\* positive_flow_live_decision_line_guard
CorrectableRow(s) == rows[s] = "loose" /\ LiveAcceptance(s) = 0

\* A correction of the statement (StatementReview): the row describes another
\* transaction from then on.
correct_row(s) ==
    /\ CorrectableRow(s)
    /\ Statement[s] \notin locked
    /\ rows' = [rows EXCEPT ![s] = "corrected"]
    /\ UNCHANGED <<txns, edges, events, edited, locked>>

\* unreconcile_document: a transaction with events or edits on record is kept.
unreconcile(s) ==
    LET audited == s \in edited \/ \E i \in DOMAIN events : events[i].subject = s IN
    /\ rows[s] = "claimed"
    /\ Statement[s] \notin locked /\ Posted[s] \notin locked
    /\ rows' = [rows EXCEPT ![s] = "loose"]
    /\ txns' = IF audited THEN txns ELSE [txns EXCEPT ![s].flow = "absent"]
    /\ UNCHANGED <<edges, events, edited, locked>>

\* update_txn: a manual edit, which keeps the sign.
update_txn(t, edit) ==
    /\ txns[t].flow # "absent" /\ txns[t] # edit
    /\ Posted[t] \notin locked
    /\ FlowFits(t, edit.flow)
    /\ txns' = [txns EXCEPT ![t] = edit]
    /\ KeepsEdges(t, txns', edges)
    /\ edited' = edited \cup {t}
    /\ UNCHANGED <<edges, rows, events, locked>>

Close(m) ==
    /\ m \notin locked
    /\ locked' = locked \cup {m}
    /\ UNCHANGED <<txns, edges, rows, events, edited>>

-----------------------------------------------------------------------------
Init ==
    /\ txns = [t \in Transactions |-> Booked(t)]
    /\ edges = {}
    /\ rows = [s \in Subjects |-> "claimed"]
    /\ events = << >>
    /\ edited = {} /\ locked = {}

\* Submissions
Decide(k) ==
    \/ \E s \in Subjects : \/ recover_positive_line(s, k)
                           \/ \E p \in AllProposals(s) : \/ reject_proposal(s, p, k)
                                                        \/ restore_proposal(s, p, k)
                                                        \/ accept_classification(s, p, k)
                                                        \/ accept_pair(s, p, k)
    \/ \E i \in DOMAIN events : undo_acceptance(i, k)

Next ==
    \/ Len(events) < MaxEvents /\ \E k \in 1..(Len(events) + 1) : Decide(k)
    \/ \E s \in Subjects : correct_row(s) \/ unreconcile(s)
    \/ \E t \in Editable, edit \in Edits : update_txn(t, edit)
    \/ \E m \in Closable : Close(m)

Spec == Init /\ [][Next]_vars

-----------------------------------------------------------------------------
(* Properties *)

TypeOK ==
    /\ txns \in [Transactions -> [flow : Flows, amount : Nat, category : Categories]]
    /\ edges \subseteq [kind : {Relationship(flow) : flow \in Offsets \cup Transfers},
                        credit : Subjects, debit : Candidates, event : DOMAIN events]
    /\ rows \in [Subjects -> {"loose", "claimed", "corrected"}]
    /\ \A i \in DOMAIN events : events[i].reverts \in 0..(i - 1)
    /\ edited \subseteq Transactions

\* A credit has at most one decision that stands, whatever is submitted late
\* or again (_live_acceptance, positive_flow_event_transition_insert).
OneDecision == \A s \in Subjects : Cardinality({i \in Accepts(s) : ~Undone(i)}) <= 1

\* Every active relationship fits its two transactions, partial offsets never
\* exceed the charge, a reversed charge has no other offset, and a leg has one
\* transfer, after manual edits too (accounting/flows.py, migration 028).
EdgesFit == \A e \in edges :
    /\ EdgeFits(e.kind, e.credit, e.debit, txns)
    /\ Applied(e.debit) <= txns[e.debit].amount
    /\ e.kind = "reversal_of" => Into(e.debit, Partial \cup {"reversal_of"}) = {e}
    /\ e.kind = "transfer_pair" =>
          \A f \in edges \ {e} : f.kind = "transfer_pair" =>
              f.credit # e.credit /\ f.debit # e.debit

\* The active relationships are those of the pairs that are accepted and not
\* undone (accept_pair, undo_acceptance).
EdgesAreDecisions ==
    {e.event : e \in edges} = {i \in DOMAIN events :
        events[i].kind = "accept" /\ events[i].proposal.debit # Nothing /\ ~Undone(i)}

\* The row of a decided credit still describes it: it is not corrected until
\* the decision is undone (positive_flow_live_decision_line_guard).
DecidedRowsStay == \A s \in Subjects : LiveAcceptance(s) # 0 => rows[s] # "corrected"

\* When all decisions about a transaction are undone, in whatever order they
\* were made and undone, nothing is left of them (undo_acceptance).
UndoneLeavesNoTrace == \A t \in Transactions \ edited :
    (\A i \in DOMAIN events : events[i].kind = "accept"
        /\ t \in {events[i].subject, events[i].proposal.debit} => Undone(i))
    => txns[t].flow \in {"absent", "unknown"} /\ txns[t].category \in Expenses

\* A resubmitted or delayed request never decides a second time
\* (_operation_replay).
DecidedOnce == \A i, j \in DOMAIN events : events[i].key = events[j].key => i = j

\* An undo takes back the decision that stood when it was made, not an
\* earlier one that a stale page still names (uq_positive_flow_event_undo).
UndoesStandingDecision == \A j \in DOMAIN events : events[j].kind = "undo" =>
    \A i \in Accepts(events[j].subject) : ~(events[j].reverts < i /\ i < j)

\* However late or often requests arrive, a credit has one decision at a time,
\* and an undo takes back the one that stands.
DecisionsHold == TypeOK /\ OneDecision /\ DecidedOnce /\ UndoesStandingDecision

\* Relationships, rows and flows are what the standing decisions make of them,
\* in whatever order decisions that share a debit were made and undone.
FlowsFollowDecisions ==
    /\ EdgesFit
    /\ EdgesAreDecisions
    /\ DecidedRowsStay
    /\ UndoneLeavesNoTrace

\* No decision changes a transaction of a closed month, on either end of a
\* pair, or a row of a closed statement (_guard_statement_and_endpoint_months).
ClosedStands == [][
    /\ \A t \in Transactions : Posted[t] \in locked => txns'[t] = txns[t]
    /\ \A s \in Subjects : Statement[s] \in locked => rows'[s] = rows[s]]_vars
=============================================================================
