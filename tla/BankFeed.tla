------------------------------- MODULE BankFeed -------------------------------
(***************************************************************************)
(* The review of the bank feed (app/reconcile/feed.py, the bindings of     *)
(* app/banking/service.py, receipt promotion in app/ingest/promote.py, and *)
(* the triggers of migration 041): provider evidence arrives and changes,  *)
(* an operator binds accounts and decides about each provider transaction  *)
(* on a page that may be old, receipts arrive before or after, the ledger  *)
(* is edited and months are closed.                                        *)
(*                                                                         *)
(* Every action is one write transaction.  An operation key that is sent   *)
(* again is answered from bank_operations and changes nothing.  There is   *)
(* one currency, a provider transaction stays on its account, and the      *)
(* deletion of transactions is left out: the foreign keys refuse it for    *)
(* whatever was ever associated.                                           *)
(***************************************************************************)
EXTENDS Integers, Sequences, FiniteSets

CONSTANTS
    Feeds,            \* bank_accounts: accounts at the provider
    Accounts,         \* accounts of the ledger
    Subjects,         \* provider transactions
    FeedOf,           \* FeedOf[s]: the provider's account of a subject
    Evidence,         \* bound: what an observation may say
    Bindings,         \* bound: bindings that the operator may choose
    Receipts,
    Paper,            \* Paper[r]: amount and day of a receipt
    DefaultAccount,   \* where receipts are booked
    Arriving,         \* bound: transactions that statements book
    Edits,            \* bound: <<amount, day>> that the ledger page writes
    MonthOf,          \* MonthOf[d]: the month of a day
    MaxObservations,  \* bound on observations
    MaxBindings,      \* bound on binding revisions
    MaxLedger,        \* bound on transactions
    MaxAssociations,  \* bound on associations
    Closable          \* bound: months that are closed

FeedMonths == {MonthOf[d] : d \in DOMAIN MonthOf}

ASSUME FeedAssumption ==
    /\ FeedOf \in [Subjects -> Feeds]
    /\ \A e \in Evidence : e.pending \in BOOLEAN /\ {e.amount, e.day} \subseteq Int
    /\ \A b \in Bindings : /\ b.feed \in Feeds /\ b.account \in Accounts
                           /\ b.included \in BOOLEAN /\ b.role \in {"primary", "secondary"}
    /\ \A r \in Receipts : {Paper[r].amount, Paper[r].day} \subseteq Int
    /\ \A x \in Arriving : x.account \in Accounts /\ {x.amount, x.day} \subseteq Int
    /\ Edits \subseteq Int \X Int
    /\ DefaultAccount \in Accounts
    /\ Closable \subseteq FeedMonths
    /\ {MaxObservations, MaxBindings, MaxLedger, MaxAssociations} \subseteq Nat

VARIABLES
    observations,   \* bank_observations, in the order of their ids
    current,        \* current[s]: the observation that bank_subjects points to, or 0
    bindings,       \* bank_bindings, in the order of their ids
    ledger,         \* transactions, in the order of their ids
    associations,   \* bank_associations, each with its revocation
    exclusions,     \* bank_exclusions: <<subject, observation>>
    receipts,       \* receipts[r]: the review state of its extraction
    pages,          \* pages[s]: the plan that the operator looks at
    closed,         \* locked months
    closedAt        \* history: observations when a month was closed last

feedVars == <<observations, current, bindings, ledger, associations, exclusions,
              receipts, pages, closed, closedAt>>

-----------------------------------------------------------------------------
(* Views *)

\* v_bank_bindings: the latest revision, or 0
BindingOf(f) ==
    LET rows == {i \in DOMAIN bindings : bindings[i].feed = f}
    IN  IF rows = {} THEN 0 ELSE CHOOSE i \in rows : \A j \in rows : j <= i

Included(f) == BindingOf(f) # 0 /\ bindings[BindingOf(f)].included

\* v_bank_associations
Standing == {i \in DOMAIN associations : ~associations[i].revoked}
AssociationOf(s) == {i \in Standing : associations[i].subject = s}

MonthOfSubject(s) == MonthOf[observations[current[s]].day]
Posted(o) == o.kind # "removed" /\ ~o.pending
Near(d, e) == d - e \in -7..7

\* v_bank_feed_blockers: <<subject, month>>
Blockers ==
    {<<s, MonthOfSubject(s)>> : s \in {x \in Subjects :
        /\ current[x] # 0 /\ Included(FeedOf[x]) /\ Posted(observations[current[x]])
        /\ AssociationOf(x) = {} /\ <<x, current[x]>> \notin exclusions}}
    \cup
    UNION {{<<associations[i].subject, MonthOf[observations[o].day]>> :
                o \in {associations[i].observation, current[associations[i].subject]}} :
           i \in {j \in Standing : associations[j].observation # current[associations[j].subject]}}

\* Equal transactions of the account within a week, whatever they have been matched to
Candidates(account, amount, day) == {t \in DOMAIN ledger :
    ledger[t].account = account /\ ledger[t].amount = amount /\ Near(ledger[t].day, day)}

\* Defect: what a statement booked is no candidate.
UnclearedCandidates(amount, day) == {t \in DOMAIN ledger :
    /\ ledger[t].source = "bank_feed" /\ ledger[t].amount = amount /\ Near(ledger[t].day, day)}

\* receipt_candidates: whatever the bank or a statement knows, on any account
ReceiptCandidates(amount, day) == {t \in DOMAIN ledger :
    /\ ledger[t].source \in {"bank_feed", "statement"} \/ \E i \in DOMAIN associations : associations[i].transaction = t
    /\ ledger[t].amount = amount /\ Near(ledger[t].day, day)}

-----------------------------------------------------------------------------
(* Plans *)

NoPlan == [observation |-> 0, binding |-> 0, associated |-> {}, candidates |-> {}]

\* A candidate as the page shows it.
Shown(t) == <<t, ledger[t].account, ledger[t].amount, ledger[t].day>>

\* plan: what the page shows and what its fingerprint covers.
Plan(s) ==
    LET o == observations[current[s]]
        b == BindingOf(FeedOf[s])
    IN  [observation |-> current[s], binding |-> b, associated |-> AssociationOf(s),
         candidates |-> IF b = 0 THEN {}
                        ELSE {Shown(t) : t \in Candidates(bindings[b].account, o.amount, o.day)}]

\* Defect: the plan of the page is not compared with the present one.
AnyPlan(s) == pages[s] # NoPlan

\* The fingerprint of the request is the one of the present plan.
UpToDate(s) == pages[s] # NoPlan /\ pages[s] = Plan(s)

\* No blocker of the plan: the account is included, the evidence is posted, and
\* nothing is associated.
Decidable(s) ==
    /\ Included(FeedOf[s]) /\ Posted(observations[current[s]]) /\ AssociationOf(s) = {}
    /\ MonthOfSubject(s) \notin closed

\* The operator opens the page of a subject, and looks at one page at a time.
LoadPlan(s) ==
    /\ current[s] # 0 /\ pages[s] # Plan(s)
    /\ pages' = [x \in Subjects |-> IF x = s THEN Plan(s) ELSE NoPlan]
    /\ UNCHANGED <<observations, current, bindings, ledger, associations, exclusions, receipts, closed, closedAt>>

-----------------------------------------------------------------------------
(* Decisions *)

Booking(account, amount, day, source, origin, declared) ==
    [account |-> account, amount |-> amount, day |-> day, source |-> source,
     origin |-> origin, declared |-> declared, edited |-> FALSE]

\* The row of bank_associations that a decision leaves.
Associate(s, t) ==
    associations' = Append(associations, [subject |-> s, observation |-> current[s],
        binding |-> BindingOf(FeedOf[s]), transaction |-> t, revoked |-> FALSE])

\* decide, action 'match'
Match(s, t) ==
    /\ current[s] # 0 /\ UpToDate(s) /\ Decidable(s)
    /\ Len(associations) < MaxAssociations
    /\ \E c \in Plan(s).candidates : c[1] = t
    /\ MonthOf[ledger[t].day] \notin closed
    /\ Associate(s, t)
    /\ UNCHANGED <<observations, current, bindings, ledger, exclusions, receipts, pages, closed, closedAt>>

\* insert_transaction: UNIQUE(source, external_id)
NotBooked(source, origin) ==
    \A t \in DOMAIN ledger : ledger[t].source # source \/ ledger[t].origin # origin

\* decide, action 'new'
BookNew(s, acknowledged) ==
    LET o == observations[current[s]]
        b == bindings[BindingOf(FeedOf[s])]
    IN
    /\ current[s] # 0 /\ UpToDate(s) /\ Decidable(s)
    /\ Len(ledger) < MaxLedger /\ Len(associations) < MaxAssociations
    /\ b.role = "primary"
    /\ Plan(s).candidates # {} => acknowledged
    /\ NotBooked("bank_feed", s)
    /\ ledger' = Append(ledger, Booking(b.account, o.amount, o.day, "bank_feed", s, acknowledged))
    /\ Associate(s, Len(ledger'))
    /\ UNCHANGED <<observations, current, bindings, exclusions, receipts, pages, closed, closedAt>>

\* decide, action 'exclude'
Exclude(s) ==
    /\ current[s] # 0 /\ UpToDate(s) /\ AssociationOf(s) = {}
    /\ MonthOfSubject(s) \notin closed
    /\ exclusions' = exclusions \cup {<<s, current[s]>>}
    /\ UNCHANGED <<observations, current, bindings, ledger, associations, receipts, pages, closed, closedAt>>

\* guard_transaction_write and bank_revocation_period: the transaction's month and
\* the months of the accepted and of the present evidence are open.
Revocable(i) ==
    LET a == associations[i]
    IN  {MonthOf[ledger[a.transaction].day], MonthOf[observations[a.observation].day],
         MonthOfSubject(a.subject)} \cap closed = {}

\* decide, action 'revoke'
RevokeAssociation(s) == \E i \in AssociationOf(s) :
    /\ UpToDate(s) /\ Revocable(i)
    /\ associations' = [associations EXCEPT ![i].revoked = TRUE]
    /\ UNCHANGED <<observations, current, bindings, ledger, exclusions, receipts, pages, closed, closedAt>>

-----------------------------------------------------------------------------
(* Evidence and bindings *)

\* A window of sync is activated: a new observation becomes the present one, in a
\* closed month too.  A removal repeats what was known.
Observe(s, e) ==
    /\ Len(observations) < MaxObservations
    /\ current[s] # 0 => observations[current[s]].kind # "removed"
    /\ observations' = Append(observations, [subject |-> s, pending |-> e.pending, amount |-> e.amount,
           day |-> e.day, kind |-> IF current[s] = 0 THEN "added" ELSE "modified"])
    /\ current' = [current EXCEPT ![s] = Len(observations')]
    /\ UNCHANGED <<bindings, ledger, associations, exclusions, receipts, pages, closed, closedAt>>

Remove(s) ==
    /\ Len(observations) < MaxObservations /\ current[s] # 0
    /\ observations[current[s]].kind # "removed"
    /\ observations' = Append(observations, [observations[current[s]] EXCEPT !.kind = "removed"])
    /\ current' = [current EXCEPT ![s] = Len(observations')]
    /\ UNCHANGED <<bindings, ledger, associations, exclusions, receipts, pages, closed, closedAt>>

\* bank_primary_unique
PrimaryFree(b) == b.included /\ b.role = "primary" =>
    \A f \in Feeds \ {b.feed} :
        ~(Included(f) /\ bindings[BindingOf(f)].role = "primary"
                      /\ bindings[BindingOf(f)].account = b.account)

\* bank_binding_evidence_guard: no accepted evidence rests on the feed's binding.
EvidenceFree(f) == \A i \in Standing : bindings[associations[i].binding].feed # f

\* guard_months and bank_binding_activation_period, when an account becomes included
Activable(f) == {MonthOf[observations[o].day] : o \in {x \in DOMAIN observations :
    FeedOf[observations[x].subject] = f}} \cap closed = {}

\* bind, with the revision that the page shows
Bind(b) ==
    /\ Len(bindings) < MaxBindings
    /\ BindingOf(b.feed) # 0 => bindings[BindingOf(b.feed)] # b
    /\ b.included /\ ~Included(b.feed) => Activable(b.feed)
    /\ PrimaryFree(b) /\ EvidenceFree(b.feed)
    /\ bindings' = Append(bindings, b)
    /\ UNCHANGED <<observations, current, ledger, associations, exclusions, receipts, pages, closed, closedAt>>

-----------------------------------------------------------------------------
(* Receipts, statements, the ledger and months *)

\* promote_receipt for the worker: a possible match waits for review.
ProcessReceipt(r) ==
    LET p == Paper[r] IN
    /\ receipts[r] = "absent" /\ Len(ledger) < MaxLedger
    /\ IF ReceiptCandidates(p.amount, p.day) # {}
       THEN receipts' = [receipts EXCEPT ![r] = "pending"] /\ UNCHANGED ledger
       ELSE /\ MonthOf[p.day] \notin closed
            /\ receipts' = [receipts EXCEPT ![r] = "booked"]
            /\ ledger' = Append(ledger, Booking(DefaultAccount, p.amount, p.day, "receipt", r, FALSE))
    /\ UNCHANGED <<observations, current, bindings, associations, exclusions, pages, closed, closedAt>>

\* An extraction that the worker is not sure of waits for review.
DoubtReceipt(r) ==
    /\ receipts[r] = "absent"
    /\ receipts' = [receipts EXCEPT ![r] = "pending"]
    /\ UNCHANGED <<observations, current, bindings, ledger, associations, exclusions, pages, closed, closedAt>>

\* approve of the review page, where the operator may declare a separate purchase.
ApproveReceipt(r, account, declared) ==
    LET p == Paper[r] IN
    /\ receipts[r] = "pending" /\ Len(ledger) < MaxLedger
    /\ MonthOf[p.day] \notin closed
    /\ ReceiptCandidates(p.amount, p.day) # {} => declared
    /\ receipts' = [receipts EXCEPT ![r] = "booked"]
    /\ ledger' = Append(ledger, Booking(account, p.amount, p.day, "receipt", r, declared))
    /\ UNCHANGED <<observations, current, bindings, associations, exclusions, pages, closed, closedAt>>

\* attach_receipt
AttachReceipt(r, t) ==
    /\ receipts[r] = "pending" /\ t \in ReceiptCandidates(Paper[r].amount, Paper[r].day)
    /\ {MonthOf[ledger[t].day], MonthOf[Paper[r].day]} \cap closed = {}
    /\ receipts' = [receipts EXCEPT ![r] = "attached"]
    /\ UNCHANGED <<observations, current, bindings, ledger, associations, exclusions, pages, closed, closedAt>>

\* promote_from_line: an operator books a statement line.
BookStatementLine(x) ==
    /\ Len(ledger) < MaxLedger /\ MonthOf[x.day] \notin closed
    /\ NotBooked("statement", x.line)
    /\ ledger' = Append(ledger, Booking(x.account, x.amount, x.day, "statement", x.line, FALSE))
    /\ UNCHANGED <<observations, current, bindings, associations, exclusions, receipts, pages, closed, closedAt>>

\* Defect: a transaction is edited under its evidence.
EditableAlways(t) == TRUE

\* bank_transaction_evidence_guard
Editable(t) == \A i \in Standing : associations[i].transaction # t

\* guard_transaction_write: an override reopens the months.
Unlocks(months, override) ==
    /\ months \cap closed = {} \/ override
    /\ closed' = IF override THEN closed \ months ELSE closed

\* update_txn of the ledger page
EditLedger(t, amount, day, override) ==
    /\ <<ledger[t].amount, ledger[t].day>> # <<amount, day>> /\ Editable(t)
    /\ Unlocks({MonthOf[ledger[t].day], MonthOf[day]}, override)
    /\ ledger' = [ledger EXCEPT ![t].amount = amount, ![t].day = day, ![t].edited = TRUE]
    /\ UNCHANGED <<observations, current, bindings, associations, exclusions, receipts, pages, closedAt>>

\* mark_cleared with the account of the statement
ClearInto(t, account) ==
    /\ ledger[t].source = "receipt" /\ ledger[t].account # account /\ Editable(t)
    /\ MonthOf[ledger[t].day] \notin closed
    /\ ledger' = [ledger EXCEPT ![t].account = account, ![t].edited = TRUE]
    /\ UNCHANGED <<observations, current, bindings, associations, exclusions, receipts, pages, closed, closedAt>>

\* bank_close_guard
Seal(mo) ==
    /\ mo \notin closed /\ \A x \in Blockers : x[2] # mo
    /\ closed' = closed \cup {mo}
    /\ closedAt' = [closedAt EXCEPT ![mo] = Len(observations)]
    /\ UNCHANGED <<observations, current, bindings, ledger, associations, exclusions, receipts, pages>>

Unseal(mo) ==
    /\ mo \in closed /\ closed' = closed \ {mo}
    /\ UNCHANGED <<observations, current, bindings, ledger, associations, exclusions, receipts, pages, closedAt>>

FeedInit ==
    /\ observations = <<>> /\ current = [s \in Subjects |-> 0]
    /\ bindings = <<>> /\ ledger = <<>> /\ associations = <<>> /\ exclusions = {}
    /\ receipts = [r \in Receipts |-> "absent"]
    /\ pages = [s \in Subjects |-> NoPlan]
    /\ closed = {} /\ closedAt = [mo \in FeedMonths |-> 0]

FeedNext ==
    \/ \E s \in Subjects :
        \/ LoadPlan(s) \/ Exclude(s) \/ RevokeAssociation(s) \/ Remove(s)
        \/ \E e \in Evidence : Observe(s, e)
        \/ \E t \in DOMAIN ledger : Match(s, t)
        \/ \E k \in BOOLEAN : BookNew(s, k)
    \/ \E b \in Bindings : Bind(b)
    \/ \E r \in Receipts :
        \/ ProcessReceipt(r) \/ DoubtReceipt(r)
        \/ \E account \in Accounts, k \in BOOLEAN : ApproveReceipt(r, account, k)
        \/ \E t \in DOMAIN ledger : AttachReceipt(r, t)
    \/ \E x \in Arriving : BookStatementLine(x)
    \/ \E t \in DOMAIN ledger :
        \/ \E e \in Edits, k \in BOOLEAN : EditLedger(t, e[1], e[2], k)
        \/ \E account \in Accounts : ClearInto(t, account)
    \/ \E mo \in Closable : Seal(mo) \/ Unseal(mo)

FeedSpec == FeedInit /\ [][FeedNext]_feedVars

-----------------------------------------------------------------------------
\* The rows are of their kinds and name rows that exist.
FeedTypeOK ==
    /\ \A o \in DOMAIN observations : /\ observations[o].subject \in Subjects
                                      /\ observations[o].kind \in {"added", "modified", "removed"}
    /\ \A s \in Subjects : current[s] # 0 => current[s] \in DOMAIN observations
                                             /\ observations[current[s]].subject = s
    /\ \A i \in DOMAIN bindings : bindings[i] \in Bindings
    /\ \A t \in DOMAIN ledger : /\ ledger[t].account \in Accounts
                                /\ ledger[t].source \in {"bank_feed", "statement", "receipt"}
    /\ \A i \in DOMAIN associations :
        /\ associations[i].transaction \in DOMAIN ledger
        /\ associations[i].binding \in DOMAIN bindings
        /\ observations[associations[i].observation].subject = associations[i].subject
    /\ receipts \in [Receipts -> {"absent", "pending", "booked", "attached"}]
    /\ closed \subseteq FeedMonths

\* A provider transaction is booked once, whatever was decided, revoked, changed or
\* decided again, and one association of it stands.
SubjectBookedOnce == \A s \in Subjects :
    /\ Cardinality({t \in DOMAIN ledger : ledger[t].source = "bank_feed" /\ ledger[t].origin = s}) <= 1
    /\ Cardinality(AssociationOf(s)) <= 1

\* Accepted evidence goes on to agree with the ledger: the transaction keeps the
\* amount and the days of the accepted observation, and the account of the binding,
\* which is the feed's present one.
AcceptedEvidenceStands == \A i \in Standing :
    LET a == associations[i]
        t == ledger[a.transaction]
        o == observations[a.observation]
    IN  /\ t.amount = o.amount /\ Near(t.day, o.day)
        /\ t.account = bindings[a.binding].account
        /\ BindingOf(FeedOf[a.subject]) = a.binding /\ Included(FeedOf[a.subject])

\* Two feeds of a joint account cannot both book: one of them is primary.
OnePrimary == \A f, g \in Feeds :
    /\ Included(f) /\ bindings[BindingOf(f)].role = "primary"
    /\ Included(g) /\ bindings[BindingOf(g)].role = "primary"
    /\ bindings[BindingOf(f)].account = bindings[BindingOf(g)].account
    => f = g

\* Receipt, feed and statement may come in any order: nobody books a feed entry or
\* a receipt next to an equal transaction without declaring it a separate one.
NoSilentTwin == \A i, j \in DOMAIN ledger :
    /\ i < j /\ ledger[j].source # "statement"
    /\ ~ledger[i].edited /\ ~ledger[j].edited
    /\ ledger[i].amount = ledger[j].amount /\ Near(ledger[i].day, ledger[j].day)
    /\ \/ ledger[j].source = "bank_feed" /\ ledger[i].account = ledger[j].account
       \/ ledger[j].source = "receipt" /\ ledger[i].source \in {"bank_feed", "statement"}
    => ledger[j].declared

\* While a month is closed, the only evidence in it that waits for review arrived
\* after it was closed: no decision, binding or edit brings old evidence back.
ClosedIsReviewed == \A x \in Blockers : x[2] \in closed => current[x[1]] > closedAt[x[2]]

\* What was decided about the feed goes on to hold: bookings, associations and
\* bindings agree with each other and with the evidence, whatever is edited,
\* revised, rebound, closed or reopened afterwards.
FeedHolds ==
    /\ FeedTypeOK
    /\ SubjectBookedOnce
    /\ AcceptedEvidenceStands
    /\ OnePrimary
    /\ ClosedIsReviewed

\* A booking or match rests on the evidence and on every equal transaction that the
\* operator was shown.
DecidedAsShown == [][\A i \in DOMAIN associations' \ DOMAIN associations :
    LET a == associations'[i]
        o == observations[a.observation]
    IN  /\ a.observation = pages[a.subject].observation
        /\ \A t \in Candidates(bindings[a.binding].account, o.amount, o.day) :
               Shown(t) \in pages[a.subject].candidates]_feedVars
=============================================================================
