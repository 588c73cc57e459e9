---------------------------- MODULE ProposedActions ----------------------------
(***************************************************************************)
(* Category proposals, the human decisions on them, and the merchant       *)
(* knowledge that the decisions leave (app/db/repo_actions.py,             *)
(* app/web/routes/actions.py, app/actions/recategorization.py,             *)
(* app/db/repo_merchant_knowledge.py, app/reconcile/merchant_resolution.py,*)
(* app/backlog/batch.py, migrations 035, 036 and 040).                     *)
(*                                                                         *)
(* Booking a movement, a batch over the backlog and a machine client make  *)
(* proposals; an operator approves, edits, rejects or undoes them.  Every  *)
(* handler is one transaction; only the batch reads in one and writes in   *)
(* another.  All transactions carry the descriptor of one merchant, and a  *)
(* scope is the set of the dimensions that it fixes.                       *)
(***************************************************************************)
EXTENDS Integers, Sequences, FiniteSets

CONSTANTS
    Splits,
    TxnOf,         \* TxnOf[s]: the transaction of a split
    Scope,         \* Scope[t]: account and provider of a transaction
    Month,         \* Month[t]: the month it is posted in
    Imported,      \* transactions that are booked from the start
    Learns,        \* transactions whose flow kind is an expense or its return
    Purposes,      \* expense categories other than Uncategorized
    Requests,      \* bound: <<split, category>> that the machine client proposes
    Guesses,       \* bound: categories that the receipt model guesses
    CategoryEdits,         \* bound: <<split, category>> that the ledger page edits
    Delays,        \* bound: statuses that a proposal is postponed to
    Unsettling,    \* bound: transactions whose source is unsettled
    ClosableMonths,      \* bound: months that are closed
    MaxProposals   \* bound on proposals

Unset == "none"
Uncategorized == "Uncategorized"
SplitCategories == Purposes \cup {Uncategorized}
Txns == {TxnOf[s] : s \in Splits}
SplitsOf(t) == {s \in Splits : TxnOf[s] = t}
Single(t) == Cardinality(SplitsOf(t)) = 1

ASSUME ActionAssumption ==
    /\ IsFiniteSet(Splits)
    /\ Learns \subseteq Txns /\ Imported \subseteq Txns
    /\ {Unset, Uncategorized} \cap Purposes = {} /\ Guesses \subseteq Purposes
    /\ Requests \cup CategoryEdits \subseteq Splits \X SplitCategories
    /\ Delays \subseteq {"needs_evidence", "snoozed"}

VARIABLES
    category,      \* transaction_splits: category[s], Unset before it is booked
    settled,       \* transactions whose source evidence is reviewed
    proposals,     \* proposed_actions, oldest first
    audit,         \* proposed_action_audit, without the rows that keep a status
    claims,        \* merchant_resolution_claims with their latest event
    labels,        \* classification_labels: labels[t] = <<action, category>>
    suggested,     \* what the running batch is about to propose
    closedMonths   \* the closed months

actionVars == <<category, settled, proposals, audit, claims, labels, suggested, closedMonths>>

Waiting == {"proposed", "needs_evidence", "snoozed"}
InForce == {"approved", "edited_approved"}
Trusted == {"accepted", "corrected"}
IsBooked(t) == \A s \in SplitsOf(t) : category[s] # Unset
Open(t) == Month[t] \notin closedMonths

-----------------------------------------------------------------------------
(* Merchant knowledge *)

\* scope_for_transaction
ScopeOf(s) == Scope[TxnOf[s]]

Claim(s, k, kind) == [split |-> s, category |-> k, scope |-> ScopeOf(s), kind |-> kind]

\* v_active_merchant_resolution_claims, by split
TrustedOf(s) == {c \in DOMAIN claims : claims[c].split = s /\ claims[c].kind \in Trusted}

\* The transitions of merchant_event_transition_insert, taken together by a set of claims.
Turned(known, chosen, kind) ==
    [c \in DOMAIN known |-> IF c \in chosen THEN [known[c] EXCEPT !.kind = kind] ELSE known[c]]

\* The event that takes a trusted claim back: it stays on record, trusted no more.
ReversedClaims(known, chosen, kind) == Turned(known, chosen, kind)

\* accept_proposal, retire_claim and undo_claim, for a set of claims
Accepted(known, chosen) == Turned(known, chosen, "accepted")
Retired(known, chosen) == ReversedClaims(known, chosen, "retired")
Withdrawn(known, chosen) == ReversedClaims(known, chosen, "undo")

\* Claims that are made with their first event: propose_category, confirm_category
\* and correct_category.
Proposed(known, s, k) == Append(known, Claim(s, k, "proposed"))
Confirmed(known, s, k) == Append(known, Claim(s, k, "accepted"))
Corrected(known, s, k) == Append(known, Claim(s, k, "corrected"))

\* current_claims_for_descriptor
Applicable(t) == {c \in DOMAIN claims :
    /\ claims[c].kind \in Trusted \cup {"rejected"}
    /\ claims[c].scope \subseteq Scope[t]}

\* _dominates: left fixes everything that right does, and more.
Dominates(left, right) == right \subseteq left /\ left # right

\* _resolve_claim_kind: the narrowest scope has to be one, without a rejection,
\* and of one mind.
Resolved(t) ==
    LET scopes == {claims[c].scope : c \in Applicable(t)}
        narrowest == {x \in scopes : \A y \in scopes : ~Dominates(y, x)}
        chosen == {c \in Applicable(t) : claims[c].scope \in narrowest}
        targets == {claims[c].category : c \in chosen}
    IN  IF /\ Cardinality(narrowest) = 1
           /\ \A c \in chosen : claims[c].kind \in Trusted
           /\ Cardinality(targets) = 1
        THEN CHOOSE k \in targets : TRUE
        ELSE Unset

\* v_expense_resolution_status
Unresolved(s) ==
    \/ category[s] \notin Purposes
    \/ {claims[c].category : c \in TrustedOf(s)} # {category[s]}

-----------------------------------------------------------------------------
(* Proposals *)

\* Defect: the digest leaves the knowledge events out.
ShallowDigest(t, cats, known) == <<[s \in SplitsOf(t) |-> cats[s]], t \in settled, {}>>

\* state_digest(category_state(...)): the splits, the evidence, and the claims that
\* have events about the transaction.
Digest(t, cats, known) ==
    <<[s \in SplitsOf(t) |-> cats[s]], t \in settled,
      {<<c, known[c].kind>> : c \in {d \in DOMAIN known : TxnOf[known[d].split] = t}}>>

Unseen == <<>>
Unlabelled == <<>>

\* revert_json: nothing to undo, or what the split held, the claim, the digest.
NoRevert == [undo |-> FALSE, from |-> Uncategorized, claim |-> 0, exact |-> Unseen]

Logged(p, status) == audit' = Append(audit, <<p, status>>)

\* enqueue_proposal: `split_id` is given by the machine client only, with the digest.
Enqueued(queue, s, k, seen, claim, origin) ==
    Append(queue, [split |-> s, to |-> k, seen |-> seen, claim |-> claim,
                   origin |-> origin, status |-> "proposed", revert |-> NoRevert])

RoomForProposal == Len(proposals) < MaxProposals

\* RecategorizationHandler.validate
Valid(a, k) ==
    LET t == TxnOf[a.split] IN
    /\ IsBooked(t)
    /\ t \in Learns => k \in SplitCategories
    /\ a.seen = Unseen => Single(t)
    /\ a.seen # Unseen => /\ a.seen = Digest(t, category, claims)
                           /\ t \in settled /\ t \in Learns

-----------------------------------------------------------------------------
(* Where proposals come from *)

\* promote_receipt of a machine extraction.  Trusted knowledge comes before the
\* guess of the model, and neither is more than a proposal.
BookReceipt(s, guess) ==
    LET t == TxnOf[s]
        chosen == IF Resolved(t) # Unset THEN Resolved(t) ELSE guess
    IN
    /\ Open(t) /\ Single(t) /\ category[s] = Unset /\ RoomForProposal
    /\ category' = [category EXCEPT ![s] = Uncategorized]
    /\ IF chosen = Unset
       THEN UNCHANGED <<proposals, audit, claims>>
       ELSE /\ claims' = Proposed(claims, s, chosen)
            /\ proposals' = Enqueued(proposals, s, chosen, Unseen, Len(claims'), "receipt")
            /\ Logged(Len(proposals'), "proposed")
    /\ UNCHANGED <<settled, labels, suggested, closedMonths>>

\* The review page books a receipt with the category that the operator chose.
BookReviewedReceipt(s, k) ==
    /\ Open(TxnOf[s]) /\ Single(TxnOf[s]) /\ category[s] = Unset
    /\ category' = [category EXCEPT ![s] = k]
    /\ claims' = IF k = Uncategorized THEN claims ELSE Confirmed(claims, s, k)
    /\ UNCHANGED <<settled, proposals, audit, labels, suggested, closedMonths>>

\* promote_from_line: knowledge is proposed, without a claim of its own.
BookLine(s) ==
    LET t == TxnOf[s] IN
    /\ Open(t) /\ Single(t) /\ category[s] = Unset /\ RoomForProposal
    /\ category' = [category EXCEPT ![s] = Uncategorized]
    /\ IF Resolved(t) = Unset
       THEN UNCHANGED <<proposals, audit>>
       ELSE /\ proposals' = Enqueued(proposals, s, Resolved(t), Unseen, 0, "line")
            /\ Logged(Len(proposals'), "proposed")
    /\ UNCHANGED <<settled, claims, labels, suggested, closedMonths>>

\* finance.propose_category, under a key that was not used; a known key answers
\* with its proposal.
ProposeCategory(s, k) ==
    LET t == TxnOf[s]
        seen == Digest(t, category, claims)
    IN
    /\ Open(t) /\ RoomForProposal
    /\ proposals' = Enqueued(proposals, s, k, seen, 0, "machine")
    /\ Valid(proposals'[Len(proposals')], k)
    /\ Logged(Len(proposals'), "proposed")
    /\ UNCHANGED <<category, settled, claims, labels, suggested, closedMonths>>

\* has_active_recategorization_proposal
Active(t) == \E p \in DOMAIN proposals :
    TxnOf[proposals[p].split] = t /\ proposals[p].status \in Waiting

\* run_batch lists, skips what has a proposal, and lets a vote, the knowledge or the
\* model suggest a category.
Suggest(s, k) ==
    LET t == TxnOf[s] IN
    /\ Open(t) /\ Single(t) /\ t \in Learns
    /\ category[s] # Unset /\ Unresolved(s)
    /\ ~Active(t) /\ k \in Purposes
    /\ suggested' = suggested \cup {<<s, k>>}
    /\ Cardinality(suggested') <= 2
    /\ UNCHANGED <<category, settled, proposals, audit, claims, labels, closedMonths>>

\* The second transaction of run_batch.  A closed month refuses the row.
EnqueueSuggestion(s, k) ==
    LET t == TxnOf[s] IN
    /\ <<s, k>> \in suggested /\ RoomForProposal
    /\ suggested' = suggested \ {<<s, k>>}
    /\ IF Active(t) \/ ~Open(t)
       THEN UNCHANGED <<proposals, audit>>
       ELSE /\ proposals' = Enqueued(proposals, s, k, Unseen, 0, "backlog")
            /\ Logged(Len(proposals'), "proposed")
    /\ UNCHANGED <<category, settled, claims, labels, closedMonths>>

-----------------------------------------------------------------------------
(* Decisions *)

\* guard_transaction_write and the triggers on proposals, splits and events: an
\* override reopens the month.
Unlocked(t, override) ==
    /\ Open(t) \/ override
    /\ closedMonths' = IF override THEN closedMonths \ {Month[t]} ELSE closedMonths

\* Defect: only the first is retired.
FirstConflicting(s, k) == {c \in TrustedOf(s) :
    claims[c].category # k /\ \A d \in TrustedOf(s) : claims[d].category # k => c >= d /\ c # d}

\* The claims that an approval retires.
Conflicting(s, k) == {c \in TrustedOf(s) : claims[c].category # k}

\* _accept_category_decision: the linked claim is accepted or rejected, conflicting
\* claims are retired, and a decision without an accepted link makes its own claim.
Decided(a, s, k) ==
    LET linked == {c \in {a.claim} \ {0} : claims[c].kind = "proposed"}
        accepted == {c \in linked : claims[c].category = k}
        reviewed == Turned(Accepted(claims, accepted), linked \ accepted, "rejected")
        retired == Retired(reviewed, Conflicting(s, k))
    IN  CASE accepted # {} -> retired
          [] accepted = {} /\ Conflicting(s, k) = {} -> Confirmed(retired, s, k)
          [] OTHER -> Corrected(retired, s, k)

\* The claim that _accept_category_decision returns.
ClaimOf(a, k, known) ==
    IF a.claim # 0 /\ known[a.claim].kind = "accepted" /\ claims[a.claim].kind = "proposed"
    THEN a.claim ELSE Len(known)

\* Decisions that are evidence for the resolver.
Teaches(t, k) == t \in Learns /\ k \in Purposes

\* _record_recategorization_label
Labelled(p, t, k, noop) ==
    CASE ~Single(t) -> [labels EXCEPT ![t] = Unlabelled]
      [] Single(t) /\ (noop \/ k = Uncategorized) -> labels
      [] OTHER -> [labels EXCEPT ![t] = <<p, k>>]

\* approve_action, with the category of the form.
Approve(p, k, override) ==
    LET a == proposals[p]
        s == a.split
        t == TxnOf[s]
        noop == category[s] = k
        claim == IF Teaches(t, k) THEN ClaimOf(a, k, claims') ELSE 0
        exact == IF a.seen = Unseen THEN Unseen ELSE Digest(t, category', claims')
        revert == IF noop /\ claim = 0 THEN NoRevert
                  ELSE [undo |-> TRUE, from |-> category[s], claim |-> claim, exact |-> exact]
    IN
    /\ a.status \in Waiting /\ Valid(a, k) /\ Unlocked(t, override)
    /\ category' = [category EXCEPT ![s] = k]
    /\ claims' = IF Teaches(t, k) THEN Decided(a, s, k) ELSE claims
    /\ proposals' = [proposals EXCEPT ![p].to = k, ![p].revert = revert,
                        ![p].status = IF k = a.to THEN "approved" ELSE "edited_approved"]
    /\ labels' = Labelled(p, t, k, noop)
    /\ Logged(p, "approved")
    /\ UNCHANGED <<settled, suggested>>

\* revert_action forgets the label of the transaction, whoever recorded it.
Forgotten(t) == [labels EXCEPT ![t] = Unlabelled]

\* What a revert compares: with a digest, everything; without, the category only.
\* Undoing the claim needs it to be trusted still.
Revertible(a) ==
    LET t == TxnOf[a.split] IN
    /\ a.status \in InForce /\ a.revert.undo
    /\ IF a.revert.exact # Unseen
       THEN a.revert.exact = Digest(t, category, claims)
       ELSE Single(t)
    /\ category[a.split] = a.to
    /\ a.revert.claim # 0 => claims[a.revert.claim].kind \in Trusted

\* revert_action with RecategorizationHandler.revert
Revert(p, override) ==
    LET a == proposals[p]
        t == TxnOf[a.split]
    IN
    /\ Revertible(a) /\ Unlocked(t, override)
    /\ category' = [category EXCEPT ![a.split] = a.revert.from]
    /\ claims' = Withdrawn(claims, {a.revert.claim})
    /\ proposals' = [proposals EXCEPT ![p].status = "reverted"]
    /\ labels' = Forgotten(t)
    /\ Logged(p, "reverted")
    /\ UNCHANGED <<settled, suggested>>

\* reject_claim of the linked claim, which has to be proposed still.
RejectedWith(a) == Turned(claims, {a.claim}, "rejected")

\* reject_action
Reject(p) ==
    LET a == proposals[p] IN
    /\ a.status \in Waiting /\ Open(TxnOf[a.split])
    /\ a.claim # 0 => claims[a.claim].kind = "proposed"
    /\ claims' = RejectedWith(a)
    /\ proposals' = [proposals EXCEPT ![p].status = "rejected"]
    /\ Logged(p, "rejected")
    /\ UNCHANGED <<category, settled, labels, suggested, closedMonths>>

\* request_evidence and snooze: the proposal waits on.
Postpone(p, status) ==
    /\ proposals[p].status \in Waiting \ {status} /\ Open(TxnOf[proposals[p].split])
    /\ proposals' = [proposals EXCEPT ![p].status = status]
    /\ UNCHANGED <<category, settled, audit, claims, labels, suggested, closedMonths>>

-----------------------------------------------------------------------------
(* What changes besides *)

\* update_txn of the ledger page, which edits the category of a single split.
EditTransaction(s, k, override) ==
    LET t == TxnOf[s] IN
    /\ category[s] \notin {Unset, k} /\ Single(t) /\ Unlocked(t, override)
    /\ category' = [category EXCEPT ![s] = k]
    /\ UNCHANGED <<settled, proposals, audit, claims, labels, suggested>>

\* A review of the source is reopened, or a pending record arrives.
Unsettle(t) ==
    /\ Open(t) /\ t \in settled
    /\ settled' = settled \ {t}
    /\ UNCHANGED <<category, proposals, audit, claims, labels, suggested, closedMonths>>

CloseMonth(mo) ==
    /\ mo \in ClosableMonths \ closedMonths
    /\ closedMonths' = closedMonths \cup {mo}
    /\ UNCHANGED <<category, settled, proposals, audit, claims, labels, suggested>>

ActionsInit ==
    /\ category = [s \in Splits |-> IF TxnOf[s] \in Imported THEN Uncategorized ELSE Unset]
    /\ settled = Txns
    /\ proposals = <<>> /\ audit = <<>> /\ claims = <<>>
    /\ labels = [t \in Txns |-> Unlabelled]
    /\ suggested = {} /\ closedMonths = {}

ActionsNext ==
    \/ \E s \in Splits : \/ \E k \in Guesses \cup {Unset} : BookReceipt(s, k)
                         \/ \E k \in SplitCategories : BookReviewedReceipt(s, k)
                         \/ BookLine(s)
                         \/ \E k \in Purposes : Suggest(s, k) \/ EnqueueSuggestion(s, k)
    \/ \E r \in Requests : ProposeCategory(r[1], r[2])
    \/ \E e \in CategoryEdits, o \in BOOLEAN : EditTransaction(e[1], e[2], o)
    \/ \E p \in DOMAIN proposals :
        \/ \E k \in SplitCategories, o \in BOOLEAN : Approve(p, k, o)
        \/ \E o \in BOOLEAN : Revert(p, o)
        \/ Reject(p)
        \/ \E status \in Delays : Postpone(p, status)
    \/ \E t \in Unsettling : Unsettle(t)
    \/ \E mo \in ClosableMonths : CloseMonth(mo)

ActionsSpec == ActionsInit /\ [][ActionsNext]_actionVars

-----------------------------------------------------------------------------
CategoryProposal == [split : Splits, to : SplitCategories, claim : Nat,
    seen : {Unseen} \cup {proposals[p].seen : p \in DOMAIN proposals},
    origin : {"receipt", "line", "machine", "backlog"},
    status : Waiting \cup InForce \cup {"rejected", "reverted"},
    revert : [undo : BOOLEAN, from : SplitCategories, claim : Nat,
              exact : {Unseen} \cup {proposals[p].revert.exact : p \in DOMAIN proposals}]]

\* The rows are of their kinds, and proposals and undo payloads name claims that
\* exist and belong to their split.
ActionsTypeOK ==
    /\ category \in [Splits -> SplitCategories \cup {Unset}]
    /\ settled \subseteq Txns /\ suggested \subseteq Splits \X Purposes
    /\ closedMonths \subseteq ClosableMonths
    /\ \A p \in DOMAIN proposals :
        /\ proposals[p] \in CategoryProposal
        /\ \A c \in {proposals[p].claim, proposals[p].revert.claim} :
               c # 0 => c \in DOMAIN claims /\ claims[c].split = proposals[p].split
    /\ \A i \in DOMAIN audit : audit[i][1] \in DOMAIN proposals
    /\ \A c \in DOMAIN claims :
        claims[c].kind \in Trusted \cup {"proposed", "rejected", "retired", "undo"}
        /\ claims[c].category \in Purposes
    /\ \A t \in Txns : labels[t] = Unlabelled \/ labels[t] \in (DOMAIN proposals) \X Purposes

\* The knowledge that stands about a split is of one mind, however many approvals,
\* corrections and undos made it: an approval retires what it contradicts.
OneTrustedCategory == \A s \in Splits : Cardinality({claims[c].category : c \in TrustedOf(s)}) <= 1

\* The claim that came with a proposal waits exactly as long as the proposal does,
\* unless the operator's decision teaches nothing.
DecidedTogether == \A p \in DOMAIN proposals :
    LET a == proposals[p] IN
    a.claim # 0 => /\ a.status \in Waiting => claims[a.claim].kind = "proposed"
                   /\ \/ a.status = "rejected"
                      \/ a.status \notin Waiting /\ Teaches(TxnOf[a.split], a.to)
                      => claims[a.claim].kind # "proposed"

\* A label for the evaluations is the target of an approval that stands, on a
\* transaction that has one split.
LabelOfApproval == \A t \in Txns : labels[t] # Unlabelled =>
    LET a == proposals[labels[t][1]] IN
    a.status \in InForce /\ a.to = labels[t][2] /\ TxnOf[a.split] = t /\ Single(t)

\* However many batches run, a transaction has one waiting proposal of theirs.
OneBacklogProposal == \A p, q \in DOMAIN proposals :
    /\ proposals[p].origin = "backlog" /\ proposals[p].status \in Waiting
    /\ proposals[q].origin = "backlog" /\ proposals[q].status \in Waiting
    /\ TxnOf[proposals[p].split] = TxnOf[proposals[q].split]
    => p = q

\* Approvals after the one of p, still standing, that had an effect.
LaterApprovals(p) == {q \in DOMAIN proposals :
    /\ proposals[q].status \in InForce /\ proposals[q].revert.undo
    /\ \E i, j \in DOMAIN audit : i < j /\ audit[i] = <<p, "approved">> /\ audit[j] = <<q, "approved">>}

\* An undo does not sweep a later approval away: with a digest, none stands on the
\* transaction; without one, none stands that chose another category for the split.
UndoneInOrder == [][\A p \in DOMAIN proposals :
    LET a == proposals[p] IN
    a.status \in InForce /\ proposals'[p].status = "reverted" /\ a.revert.claim # 0 =>
        \A q \in LaterApprovals(p) :
            LET b == proposals[q] IN
            /\ a.revert.exact # Unseen /\ b.revert.claim # 0 => TxnOf[b.split] # TxnOf[a.split]
            /\ b.split = a.split /\ b.revert.claim # 0 => b.to = a.to]_actionVars

\* A proposal of the machine client is approved only while nobody has decided
\* anything else about the transaction since the client looked at it.
ApprovedAsInspected == [][\A p \in DOMAIN proposals :
    LET a == proposals[p] IN
    a.origin = "machine" /\ a.status \in Waiting /\ proposals'[p].status \in InForce =>
        ~\E i, j \in DOMAIN audit :
            LET b == proposals[audit[j][1]] IN
            /\ i < j /\ audit[i] = <<p, "proposed">> /\ TxnOf[b.split] = TxnOf[a.split]
            /\ audit[j][2] \in {"approved", "reverted"}
            /\ b.revert.claim # 0]_actionVars

\* What the household has taught and what waits for it agree, whatever order
\* approvals, edits, rejections, undos and batches come in.
KnowledgeHolds ==
    /\ ActionsTypeOK
    /\ OneTrustedCategory
    /\ DecidedTogether
    /\ LabelOfApproval
    /\ OneBacklogProposal

\* An approval or an undo acts on what its author saw: neither sweeps away what
\* somebody decided in between.
NothingSweptAway == UndoneInOrder /\ ApprovedAsInspected

\* What is booked, claimed and proposed about a month that stays closed stands.
ClosedCategoriesStand == [][\A t \in Txns : ~Open(t) /\ Month[t] \in closedMonths' =>
    /\ \A s \in SplitsOf(t) : category'[s] = category[s]
    /\ \A c \in DOMAIN claims : TxnOf[claims[c].split] = t => claims'[c] = claims[c]
    /\ \A p \in DOMAIN proposals : TxnOf[proposals[p].split] = t => proposals'[p] = proposals[p]]_actionVars
=============================================================================
