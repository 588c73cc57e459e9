--------------------------- MODULE CloseReadiness ---------------------------
(* What keeps a month from closing clean: the typed exceptions that are        *)
(* derived from statements, their lines, the ledger and the balance checks,    *)
(* the inbox and the checklist that show the same rows, the forced adjustment  *)
(* of a balance, and the database triggers that hold every writer off a        *)
(* closed month.  A close freezes the exceptions of its month; what the        *)
(* reviewers do with them is the subject of PeriodPolicy.                      *)
(*                                                                             *)
(* A month has two days, so that a write can come before, on or after the day  *)
(* of a closing balance.  Only the account Main has postings and statements;   *)
(* the others are there for the statement matrix.                              *)
EXTENDS Integers, FiniteSets, Functions

CONSTANTS
    Periods,        \* months, numbered from 1
    Ledger,         \* transactions that people and importers book
    Lines,          \* statement lines
    Papers,         \* statement documents
    PaperOf,        \* the document of each line
    Credit,         \* the lines that bring money in
    Stated,         \* the month that each document states at first, or Nothing
    Accounts, Main, \* the accounts, and the one with postings
    Known,          \* the accounts that exist from the start
    Cents,          \* amounts of transactions and of closing balances
    MaxCents,       \* bound on the size of an adjustment
    Nothing

ASSUME ReadyAssumption ==
    /\ IsFiniteSet(Periods) /\ Periods = 1 .. Cardinality(Periods)
    /\ IsFiniteSet(Ledger)
    /\ PaperOf \in [Lines -> Papers] /\ Credit \subseteq Lines
    /\ Stated \in [Papers -> Periods \cup {Nothing}]
    /\ Main \in Known /\ Known \subseteq Accounts
    /\ Cents \subseteq Int /\ MaxCents \in Nat
    /\ Nothing \notin Int \cup Ledger \cup Lines \cup Papers

VARIABLES
    accounts,   \* the accounts that exist
    matrix,     \* what is expected of each account in each month
    entries,    \* the transactions of Main, booked adjustments among them
    lines,      \* the statement lines
    papers,     \* the statement documents: review and link to a month
    asserted,   \* the closing balances on record, one for each day
    sealed,     \* the closed months
    frozen      \* what the close that stands saw: the exceptions, the accounts

readyVars == <<accounts, matrix, entries, lines, papers, asserted, sealed, frozen>>

Days == 1 .. 2 * Cardinality(Periods)
MonthOf(day) == (day + 1) \div 2

\* The key of the one adjustment that a balance on this day may have; a
\* negative number, so that no day is taken for it.
Adjustment(day) == -day
EntryIds == Ledger \cup {Adjustment(day) : day \in Days}

Flows == {"unknown", "income", "refund", "purchase", "adjustment"}
Matched == {"matched", "promoted"}
Settled == Matched \cup {"ignored"}
States == Settled \cup {"unmatched", "needs_review"}
Requirements == {"unconfigured", "not_required", "expected", "reconciled"}

Entry == [day : Days, cents : Int, flow : Flows, offsets : Ledger \cup {Nothing},
          paired : BOOLEAN, claim : {"never", "accepted", "retired"}]
Line == [day : Days, state : States, manual : BOOLEAN, pending : BOOLEAN,
         active : BOOLEAN, entry : EntryIds \cup {Nothing}]
Paper == [review : Periods \cup {Nothing}, stated : Periods \cup {Nothing},
          link : Periods \cup {Nothing}, approved : BOOLEAN, ends : Days \cup {Nothing}]
Assertion == [cents : Int, paper : Papers, month : Periods]

ASSUME NothingIsNoRow == Nothing \notin Entry \cup Line \cup Assertion

Booked == {e \in EntryIds : entries[e] # Nothing}
Registered == {l \in Lines : lines[l] # Nothing}
LinesOf(p) == {l \in Registered : PaperOf[l] = p}
ActiveLines == {l \in Registered : lines[l].active}

-----------------------------------------------------------------------------
(* The exceptions of a month.                                                *)

FlowFits(flow, cents) ==
    /\ cents # 0
    /\ flow = "purchase" => cents < 0
    /\ flow \in {"income", "refund"} => cents > 0

Semantic(e) ==
    CASE entries[e].flow = "unknown" -> "unknown"
      [] entries[e].flow = "refund" /\ ~entries[e].paired -> "missing_relationship"
      [] OTHER -> "complete"

UnconfirmedExpense(e) == entries[e].flow = "purchase" /\ entries[e].claim # "accepted"

\* The expectation's month, else the review's, else the one the document
\* states, else the one the line was posted in.
EffectiveMonth(l) ==
    LET p == papers[PaperOf[l]]
    IN  CASE p.link # Nothing -> p.link
          [] p.link = Nothing /\ p.review # Nothing -> p.review
          [] p.link = Nothing /\ p.review = Nothing /\ p.stated # Nothing -> p.stated
          [] OTHER -> MonthOf(lines[l].day)

Exception(type, subject) == [type |-> type, subject |-> subject]

PeriodMatrix(m) == [a \in accounts |-> matrix[a][m]]
OpenRequirements == {"unconfigured", "expected"}
StatementExceptions(m) ==
    {Exception("missing_statement", a) :
        a \in {a \in accounts : PeriodMatrix(m)[a] \in OpenRequirements}}

Unresolved(l) == lines[l].pending \/ lines[l].state \notin Settled

UnresolvedLineExceptions(m) ==
    {Exception("unresolved_line", l) :
        l \in {l \in ActiveLines : EffectiveMonth(l) = m /\ Unresolved(l)}}

AutomaticAuthorityExceptions(m) ==
    {Exception("automatic_match", l) :
        l \in {l \in ActiveLines : /\ EffectiveMonth(l) = m
                              /\ lines[l].state \in Matched /\ ~lines[l].manual}}

\* A matched line whose transaction is gone compares with no flow at all: the
\* condition is neither true nor false, and the row is left out.
Unexplained(l) ==
    /\ l \in Credit
    /\ \/ lines[l].state \notin Matched
       \/ lines[l].entry # Nothing /\ Semantic(lines[l].entry) # "complete"

PositiveFlowExceptions(m) ==
    {Exception("positive_flow", l) :
        l \in {l \in ActiveLines : EffectiveMonth(l) = m /\ Unexplained(l)}}

\* Defect: any line stands in for its transaction, whatever its sign.
CoveredByAnyLine(e) == \E l \in ActiveLines : lines[l].entry = e

CoveredByLine(e) ==
    /\ entries[e].cents > 0
    /\ \E l \in ActiveLines : lines[l].entry = e /\ l \in Credit

TransactionFlowExceptions(m) ==
    {Exception("transaction_flow", e) :
        e \in {e \in Booked : /\ MonthOf(entries[e].day) = m
                              /\ Semantic(e) # "complete" /\ ~CoveredByLine(e)}}

CategoryExceptions(m) ==
    {Exception("unconfirmed_category", e) :
        e \in {e \in Booked : MonthOf(entries[e].day) = m /\ UnconfirmedExpense(e)}}

LedgerBalance(day) ==
    SumFunctionOnSet([e \in Booked |-> entries[e].cents], {e \in Booked : entries[e].day <= day})

Delta(day) == LedgerBalance(day) - asserted[day].cents
Ties(day) == asserted[day] # Nothing => Delta(day) = 0

FailingAssertions(m) ==
    {day \in Days : MonthOf(day) = m /\ asserted[day] # Nothing /\ Delta(day) # 0}

\* A reconciled statement whose closing balance is not on record as its own.
LacksBalance(p, m) ==
    LET paper == papers[p]
    IN  \/ ~paper.approved
        \/ asserted[paper.ends] = Nothing
        \/ asserted[paper.ends].paper # p
        \/ asserted[paper.ends].month # m

AssertionExceptions(m) ==
    {Exception("balance_delta", day) : day \in FailingAssertions(m)}
    \cup {Exception("balance_evidence", p) :
            p \in {p \in Papers : /\ papers[p].link = m /\ matrix[Main][m] = "reconciled"
                                  /\ LacksBalance(p, m)}}

ManualAdjustmentExceptions(m) ==
    {Exception("manual_adjustment", e) :
        e \in {e \in Booked : entries[e].flow = "adjustment" /\ MonthOf(entries[e].day) = m}}

Exceptions(m) ==
    StatementExceptions(m) \cup UnresolvedLineExceptions(m)
        \cup AutomaticAuthorityExceptions(m) \cup PositiveFlowExceptions(m)
        \cup TransactionFlowExceptions(m) \cup CategoryExceptions(m)
        \cup AssertionExceptions(m) \cup ManualAdjustmentExceptions(m)

-----------------------------------------------------------------------------
(* The inbox and the checklist, which read the same rows on their own.       *)

\* The month of a credit where an unstated period is taken as it is: such a
\* line is in no month of the inbox.
DisplayedMonth(l) ==
    LET p == papers[PaperOf[l]]
    IN  IF p.link # Nothing THEN p.link
        ELSE IF p.review # Nothing THEN p.review ELSE p.stated

StatementLineItems(m) ==
    {l \in ActiveLines \ Credit : /\ lines[l].state \in {"unmatched", "needs_review"}
                             /\ papers[PaperOf[l]].link = m}
PositiveFlowItems(m) == {l \in ActiveLines : DisplayedMonth(l) = m /\ Unexplained(l)}
ExpenseResolutionItems(m) == {e \in Booked : MonthOf(entries[e].day) = m /\ UnconfirmedExpense(e)}
StatementExpectationItems(m) == {a \in accounts : PeriodMatrix(m)[a] \in OpenRequirements}
AssertionItems(m) == FailingAssertions(m)

Inbox(m) ==
    StatementLineItems(m) \cup PositiveFlowItems(m) \cup ExpenseResolutionItems(m)
        \cup StatementExpectationItems(m) \cup AssertionItems(m)

CoverageBlockers(m) == {a \in accounts : PeriodMatrix(m)[a] \in OpenRequirements}
ExpenseBlockers(m) == {e \in Booked : MonthOf(entries[e].day) = m /\ UnconfirmedExpense(e)}

\* One entry for a transaction, however many of its rows are open.
FlowBlockers(m) ==
    {e \in Booked : MonthOf(entries[e].day) = m /\ Semantic(e) # "complete"}
        \cup {IF lines[l].entry # Nothing THEN lines[l].entry ELSE l :
                l \in {l \in ActiveLines : DisplayedMonth(l) = m /\ Unexplained(l)}}

ChecklistComplete(m) ==
    CoverageBlockers(m) = {} /\ ExpenseBlockers(m) = {} /\ FlowBlockers(m) = {}

-----------------------------------------------------------------------------
(* The guards of the closed months, one for each table.                      *)

Open(months) == months \cap sealed = {}

TransactionGuard(old, new) == Open({MonthOf(old), MonthOf(new)})
SplitGuard(e) == Open({MonthOf(entries[e].day)})
RelationshipGuard(source, target) ==
    Open({MonthOf(entries[source].day), MonthOf(entries[target].day)})
ClaimGuard(e) == Open({MonthOf(entries[e].day)})

LineMonths(l, day) == {MonthOf(day), papers[PaperOf[l]].stated}
LineInsertGuard(l, day) == Open(LineMonths(l, day))

\* Defect: a line belongs to the month it was posted in, whatever its statement.
GuardedByPosting(l, day) == Open({MonthOf(lines[l].day), MonthOf(day)})

LineGuard(l, day) == Open(LineMonths(l, lines[l].day) \cup LineMonths(l, day))

EndMonth(p) == IF papers[p].ends = Nothing THEN Nothing ELSE MonthOf(papers[p].ends)
ReviewGuard(p, months) ==
    Open({papers[p].review, EndMonth(p)} \cup months
         \cup UNION {LineMonths(l, lines[l].day) : l \in LinesOf(p)})

ExpectationGuard(m) == Open({m})
LinkGuard(m) == Open({m})
AssertionGuard(day, m) ==
    Open({MonthOf(day), m} \cup (IF asserted[day] = Nothing THEN {} ELSE {asserted[day].month}))

-----------------------------------------------------------------------------
(* The ledger.                                                               *)

\* What the relationship triggers keep of every active refund.
PairsHold(book) ==
    \A e \in Ledger :
        book[e] # Nothing /\ book[e].paired =>
            LET t == book[e].offsets
            IN  /\ book[e].flow = "refund" /\ book[e].cents > 0
                /\ book[t].flow = "purchase" /\ book[t].cents < 0
                /\ book[e].cents <= -book[t].cents

NewEntry(day, cents, flow) ==
    [day |-> day, cents |-> cents, flow |-> flow, offsets |-> Nothing,
     paired |-> FALSE, claim |-> "never"]

CreateTxn(e, day, cents, flow) ==
    /\ e \in Ledger /\ entries[e] = Nothing
    /\ FlowFits(flow, cents)
    /\ Open({MonthOf(day)})
    /\ entries' = [entries EXCEPT ![e] = NewEntry(day, cents, flow)]
    /\ UNCHANGED <<accounts, matrix, lines, papers, asserted, sealed, frozen>>

UpdateTxn(e, day, cents, flow) ==
    /\ entries[e] # Nothing
    /\ FlowFits(flow, cents)
    /\ TransactionGuard(entries[e].day, day)
    /\ entries' = [entries EXCEPT ![e].day = day, ![e].cents = cents, ![e].flow = flow]
    /\ PairsHold(entries')
    /\ UNCHANGED <<accounts, matrix, lines, papers, asserted, sealed, frozen>>

\* The rows that keep a transaction: relationships, revoked ones too, and the
\* history of its claims.  Matched lines only lose the reference.
DeleteTxn(e) ==
    /\ entries[e] # Nothing
    /\ TransactionGuard(entries[e].day, entries[e].day)
    /\ entries[e].claim = "never" /\ entries[e].offsets = Nothing
    /\ \A other \in Booked : entries[other].offsets # e
    /\ \A l \in Registered : lines[l].entry = e => LineGuard(l, lines[l].day)
    /\ entries' = [entries EXCEPT ![e] = Nothing]
    /\ lines' = [l \in Lines |-> IF l \in Registered /\ lines[l].entry = e
                                 THEN [lines[l] EXCEPT !.entry = Nothing] ELSE lines[l]]
    /\ UNCHANGED <<accounts, matrix, papers, asserted, sealed, frozen>>

CreateRelationship(e, t) ==
    /\ {e, t} \subseteq Ledger /\ entries[e] # Nothing /\ entries[t] # Nothing
    /\ ~entries[e].paired /\ entries[e].offsets \in {Nothing, t}
    /\ \A other \in Booked : entries[other].paired => entries[other].offsets # t
    /\ RelationshipGuard(e, t)
    /\ entries' = [entries EXCEPT ![e].offsets = t, ![e].paired = TRUE]
    /\ PairsHold(entries')
    /\ UNCHANGED <<accounts, matrix, lines, papers, asserted, sealed, frozen>>

RevokeRelationship(e) ==
    /\ entries[e] # Nothing /\ entries[e].paired
    /\ RelationshipGuard(e, entries[e].offsets)
    /\ entries' = [entries EXCEPT ![e].paired = FALSE]
    /\ UNCHANGED <<accounts, matrix, lines, papers, asserted, sealed, frozen>>

SetClaim(e, claim) ==
    /\ entries[e] # Nothing /\ entries[e].flow = "purchase"
    /\ \/ claim = "accepted" /\ entries[e].claim # "accepted"
       \/ claim = "retired" /\ entries[e].claim = "accepted"
    /\ ClaimGuard(e)
    /\ entries' = [entries EXCEPT ![e].claim = claim]
    /\ UNCHANGED <<accounts, matrix, lines, papers, asserted, sealed, frozen>>

-----------------------------------------------------------------------------
(* The forced adjustment of a balance.                                       *)

OldAmount(day) ==
    IF entries[Adjustment(day)] = Nothing THEN 0 ELSE entries[Adjustment(day)].cents

\* Defect: the correction replaces the earlier one instead of adding to it.
CorrectionAlone(day) == -Delta(day)

\* The difference was measured with any earlier adjustment in the ledger.
BookedAmount(day) == OldAmount(day) - Delta(day)

\* The override reopens the month first; on an open month nothing changes.
Reopened(m) ==
    /\ sealed' = sealed \ {m}
    /\ frozen' = [frozen EXCEPT ![m] = Nothing]

\* An existing adjustment is found by its key and changed where it is now.
CreateAdjustment(day, override) ==
    LET e == Adjustment(day)
    IN  /\ asserted[day] # Nothing /\ Delta(day) # 0
        /\ BookedAmount(day) \in -MaxCents .. MaxCents
        /\ MonthOf(day) \in sealed => override
        /\ Reopened(MonthOf(day))
        /\ \/ /\ entries[e] = Nothing
              /\ entries' = [entries EXCEPT ![e] = NewEntry(day, BookedAmount(day), "adjustment")]
           \/ /\ entries[e] # Nothing
              /\ MonthOf(entries[e].day) \notin sealed'
              /\ entries' = [entries EXCEPT ![e].cents = BookedAmount(day)]
        /\ UNCHANGED <<accounts, matrix, lines, papers, asserted>>

\* From the page of an open month, and from that of a closed one.
AdjustAssertion(day) == CreateAdjustment(day, FALSE)
AdjustLockedBalance(day) == MonthOf(day) \in sealed /\ CreateAdjustment(day, TRUE)

-----------------------------------------------------------------------------
(* Statements, their lines and what is expected of a month.                  *)

Proven(m, ls, ps) ==
    LET linked == {p \in Papers : ps[p].link = m}
        rows   == {l \in Lines : ls[l] # Nothing /\ ls[l].active /\ PaperOf[l] \in linked}
    IN  /\ linked # {} /\ \A p \in linked : ps[p].approved
        /\ \A l \in rows : ls[l].state \in Settled /\ ~ls[l].pending

\* After a change of lines or documents the month is reconciled exactly when
\* its evidence proves it; a month that would change has to be open.
Synced(m, ls, ps) ==
    LET proven == m # Nothing /\ Proven(m, ls, ps)
        now    == IF m = Nothing THEN Nothing ELSE matrix[Main][m]
        then   == IF now \notin {"expected", "reconciled"} THEN now
                  ELSE IF proven THEN "reconciled" ELSE "expected"
    IN  /\ now # then => ExpectationGuard(m)
        /\ matrix' = IF m = Nothing THEN matrix ELSE [matrix EXCEPT ![Main][m] = then]

SetLine(l, line) ==
    /\ lines' = [lines EXCEPT ![l] = line]
    /\ Synced(papers[PaperOf[l]].link, lines', papers)
    /\ UNCHANGED <<accounts, entries, papers, asserted, sealed, frozen>>

InsertLine(l, day, pending) ==
    /\ lines[l] = Nothing
    /\ LineInsertGuard(l, day)
    /\ SetLine(l, [day |-> day, state |-> "unmatched", manual |-> FALSE,
                   pending |-> pending, active |-> TRUE, entry |-> Nothing])

\* Matching marks the transaction as cleared, so its month has to be open too.
MatchLine(l, e, state, manual) ==
    /\ l \in ActiveLines /\ ~lines[l].pending /\ lines[l].state \notin Settled
    /\ entries[e] # Nothing /\ \A other \in Registered : lines[other].entry # e
    /\ l \in Credit <=> entries[e].cents > 0
    /\ LineGuard(l, lines[l].day) /\ TransactionGuard(entries[e].day, entries[e].day)
    /\ SetLine(l, [lines[l] EXCEPT !.state = state, !.manual = manual, !.entry = e])

\* To another status without a transaction: sent to review, ignored, released.
SetLineMatch(l, state) ==
    /\ l \in ActiveLines /\ lines[l].state # state
    /\ LineGuard(l, lines[l].day)
    /\ lines[l].entry # Nothing => SplitGuard(lines[l].entry)
    /\ SetLine(l, [lines[l] EXCEPT !.state = state, !.manual = FALSE, !.entry = Nothing])

\* Rows are corrected and excluded while no line of the document is decided.
Undecided(p) == \A l \in LinesOf(p) : lines[l].state \notin Settled

CorrectRow(l, day, pending, active) ==
    /\ l \in Registered /\ Undecided(PaperOf[l])
    /\ Open({papers[PaperOf[l]].review})
    /\ LineGuard(l, day)
    /\ SetLine(l, [lines[l] EXCEPT !.day = day, !.pending = pending, !.active = active,
                                   !.state = "unmatched"])

SetPaper(p, paper) ==
    /\ papers' = [papers EXCEPT ![p] = paper]
    /\ UNCHANGED <<accounts, entries, lines, sealed, frozen>>

\* The month of the review is written to the lines; a document that is linked
\* to another month loses its link.
UpdateMetadata(p, m) ==
    /\ m # papers[p].review /\ Undecided(p)
    /\ ReviewGuard(p, {m})
    /\ papers[p].link \notin {Nothing, m} => LinkGuard(papers[p].link)
    /\ SetPaper(p, [papers[p] EXCEPT !.review = m, !.stated = m, !.approved = FALSE,
                        !.link = IF @ = m THEN m ELSE Nothing])
    /\ Synced(papers[p].link, lines, papers')
    /\ UNCHANGED asserted

\* The approval links the document to the month it proves and records its
\* closing balance, over whatever is on record for that day.
ApproveReview(p, day, cents) ==
    LET m == papers[p].review
    IN  /\ m = MonthOf(day) /\ ~papers[p].approved
        /\ matrix[Main][m] \in {"expected", "reconciled"}
        /\ papers[p].link \in {Nothing, m}
        /\ papers[p].link = Nothing => papers[p].stated = m
        /\ ReviewGuard(p, {m}) /\ LinkGuard(m) /\ ExpectationGuard(m) /\ AssertionGuard(day, m)
        /\ SetPaper(p, [papers[p] EXCEPT !.approved = TRUE, !.ends = day, !.link = m])
        /\ asserted' = [asserted EXCEPT ![day] = [cents |-> cents, paper |-> p, month |-> m]]
        /\ Synced(m, lines, papers')

ReopenReview(p) ==
    /\ papers[p].approved
    /\ ReviewGuard(p, {})
    /\ SetPaper(p, [papers[p] EXCEPT !.approved = FALSE])
    /\ Synced(papers[p].link, lines, papers')
    /\ UNCHANGED asserted

AttachDocument(p, m) ==
    /\ papers[p].link = Nothing /\ LinesOf(p) \cap ActiveLines # {}
    /\ matrix[Main][m] \in {"expected", "reconciled"}
    /\ papers[p].stated \in {Nothing, m}
    /\ LinkGuard(m)
    /\ SetPaper(p, [papers[p] EXCEPT !.link = m])
    /\ Synced(m, lines, papers')
    /\ UNCHANGED asserted

DetachDocument(p) ==
    /\ papers[p].link # Nothing
    /\ LinkGuard(papers[p].link)
    /\ SetPaper(p, [papers[p] EXCEPT !.link = Nothing])
    /\ Synced(papers[p].link, lines, papers')
    /\ UNCHANGED asserted

\* The policy of an account, a waiver and its return.
SetRequirement(a, m, requirement) ==
    /\ a \in accounts
    /\ \/ requirement = "expected" /\ matrix[a][m] \in {"unconfigured", "not_required"}
       \/ requirement = "not_required" /\ matrix[a][m] \in {"unconfigured", "expected"}
    /\ ExpectationGuard(m)
    /\ matrix' = [matrix EXCEPT ![a][m] = requirement]
    /\ UNCHANGED <<accounts, entries, lines, papers, asserted, sealed, frozen>>

\* No table of the closed months is written.
AddAccount(a) ==
    /\ a \notin accounts
    /\ accounts' = accounts \cup {a}
    /\ UNCHANGED <<matrix, entries, lines, papers, asserted, sealed, frozen>>

-----------------------------------------------------------------------------
BuildCloseSnapshot(m) == [items |-> Exceptions(m), accounts |-> accounts]

Seal(m) ==
    /\ m \notin sealed
    /\ sealed' = sealed \cup {m}
    /\ frozen' = [frozen EXCEPT ![m] = BuildCloseSnapshot(m)]
    /\ UNCHANGED <<accounts, matrix, entries, lines, papers, asserted>>

Unseal(m) ==
    /\ m \in sealed
    /\ Reopened(m)
    /\ UNCHANGED <<accounts, matrix, entries, lines, papers, asserted>>

ReadyInit ==
    /\ accounts = Known
    /\ matrix = [a \in Accounts |-> [m \in Periods |-> "unconfigured"]]
    /\ entries = [e \in EntryIds |-> Nothing]
    /\ lines = [l \in Lines |-> Nothing]
    /\ papers = [p \in Papers |-> [review |-> Stated[p], stated |-> Stated[p], link |-> Nothing,
                                   approved |-> FALSE, ends |-> Nothing]]
    /\ asserted = [day \in Days |-> Nothing]
    /\ sealed = {}
    /\ frozen = [m \in Periods |-> Nothing]

LedgerNext ==
    \E e \in EntryIds :
        \/ \E day \in Days, cents \in Cents, flow \in Flows :
              \/ CreateTxn(e, day, cents, flow)
              \/ UpdateTxn(e, day, cents, flow)
        \/ DeleteTxn(e)
        \/ \E t \in Ledger : CreateRelationship(e, t)
        \/ RevokeRelationship(e)
        \/ \E claim \in {"accepted", "retired"} : SetClaim(e, claim)

StatementNext ==
    \/ \E l \in Lines :
          \/ \E day \in Days, pending \in BOOLEAN :
                \/ InsertLine(l, day, pending)
                \/ \E active \in BOOLEAN : CorrectRow(l, day, pending, active)
          \/ \E e \in EntryIds, state \in Matched, manual \in BOOLEAN :
                MatchLine(l, e, state, manual)
          \/ \E state \in States \ Matched : SetLineMatch(l, state)
    \/ \E p \in Papers :
          \/ \E m \in Periods : UpdateMetadata(p, m) \/ AttachDocument(p, m)
          \/ \E day \in Days, cents \in Cents \cup {0} : ApproveReview(p, day, cents)
          \/ ReopenReview(p)
          \/ DetachDocument(p)
    \/ \E a \in Accounts, m \in Periods, r \in Requirements : SetRequirement(a, m, r)
    \/ \E a \in Accounts : AddAccount(a)

ReadyNext ==
    \/ LedgerNext
    \/ StatementNext
    \/ \E day \in Days : AdjustAssertion(day) \/ AdjustLockedBalance(day)
    \/ \E m \in Periods : Seal(m) \/ Unseal(m)

ReadySpec == ReadyInit /\ [][ReadyNext]_readyVars
-----------------------------------------------------------------------------
(* Properties.                                                               *)

\* The type invariant.
ReadyTypeOK ==
    /\ Known \subseteq accounts /\ accounts \subseteq Accounts
    /\ matrix \in [Accounts -> [Periods -> Requirements]]
    /\ entries \in [EntryIds -> Entry \cup {Nothing}]
    /\ lines \in [Lines -> Line \cup {Nothing}]
    /\ papers \in [Papers -> Paper]
    /\ asserted \in [Days -> Assertion \cup {Nothing}]
    /\ sealed \subseteq Periods
    /\ DOMAIN frozen = Periods

\* Which of a closed month's exceptions the triggers can answer for.  A balance
\* sums up earlier months, a credit is explained by its transaction in another
\* month, an account can be opened later, and the triggers know a line that
\* states no month by its posting date only.
Answerable(x, m) ==
    CASE x.type = "balance_delta" -> FALSE
      [] x.type = "missing_statement" -> x.subject \in frozen[m].accounts
      [] x.type \in {"unresolved_line", "automatic_match"} ->
            papers[PaperOf[x.subject]].stated # Nothing
      [] x.type = "positive_flow" ->
            /\ papers[PaperOf[x.subject]].stated # Nothing
            /\ \/ lines[x.subject].entry = Nothing
               \/ MonthOf(entries[lines[x.subject].entry].day) = m
      [] OTHER -> TRUE

\* While a month stays closed, its live exceptions are the ones that its close
\* froze: no writer, job or cascade that the triggers of 036_period_policy.sql
\* let through adds one or makes one disappear.
FrozenStands ==
    \A m \in sealed : \A x \in Exceptions(m) \cup frozen[m].items :
        Answerable(x, m) => (x \in Exceptions(m) <=> x \in frozen[m].items)

\* Nothing falls between two checks: a transaction without a meaning and an
\* active line that nobody has decided are an exception of some month, and the
\* credit that stands for its transaction is one where the other is not.
NothingFallsBetween ==
    /\ \A e \in Booked :
          Semantic(e) # "complete" =>
              \E m \in Periods :
                  \/ Exception("transaction_flow", e) \in Exceptions(m)
                  \/ \E l \in ActiveLines : /\ lines[l].entry = e
                                            /\ Exception("positive_flow", l) \in Exceptions(m)
    /\ \A l \in ActiveLines :
          Unresolved(l) => \E m \in Periods : Exception("unresolved_line", l) \in Exceptions(m)

\* The pages and the close agree: the checklist calls a month complete only if
\* no exception of its kinds is left, and an open debit of a linked statement,
\* a credit, an expense, a balance or a requirement that the close reports is
\* an item of the inbox.
SurfacesAgree ==
    \A m \in Periods : \A x \in Exceptions(m) :
        LET l == x.subject
            stated == l \in Lines => papers[PaperOf[l]].stated # Nothing
            linked == l \in Lines => papers[PaperOf[l]].link # Nothing
        IN  /\ x.type \in {"missing_statement", "positive_flow", "transaction_flow",
                           "unconfirmed_category"} /\ stated => ~ChecklistComplete(m)
            /\ \/ x.type \in {"missing_statement", "unconfirmed_category", "balance_delta"}
               \/ x.type = "positive_flow" /\ stated
               \/ x.type = "unresolved_line" /\ linked /\ ~lines[l].pending
               => l \in Inbox(m)

\* What nobody has decided is reported: no check leaves it to another that
\* excludes it too, and the pages show what the close would ask for.
RowsAreReported == ReadyTypeOK /\ NothingFallsBetween /\ SurfacesAgree

\* An adjustment ties the balance it was asked for, on top of any earlier one,
\* as long as the earlier one is still posted up to that day.
AdjustmentTies ==
    [][\A day \in Days, override \in BOOLEAN :
          LET old == entries[Adjustment(day)]
          IN  /\ CreateAdjustment(day, override)
              /\ old # Nothing => old.day <= day
              => Ties(day)']_readyVars

\* What adjust.py promises of every adjustment, one that was edited included.
AdjustmentAlwaysTies ==
    [][\A day \in Days, override \in BOOLEAN :
          CreateAdjustment(day, override) => Ties(day)']_readyVars
=============================================================================
