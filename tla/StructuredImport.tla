--------------------------- MODULE StructuredImport ---------------------------
(***************************************************************************)
(* Statements that arrive as CSV or OFX rows                               *)
(* (app/ingest/structured/service.py, app/db/repo_structured_imports.py,   *)
(* the triggers of migration 033).                                         *)
(*                                                                         *)
(* A preview stores a file and an attempt to import it into an account;    *)
(* an attempt is evaluated once: its rows are staged together, it is a     *)
(* duplicate, or it is blocked.  A posted row replaces the pending row of  *)
(* the same provider identity in an earlier statement.  Corrections,       *)
(* approval and booking are those of StatementReview and Reconciliation,   *)
(* cut down to what they do to a row.  A row has a day, which stands for   *)
(* its date and amount, and a text, which counts equal rows of a file.     *)
(***************************************************************************)
EXTENDS Integers, Sequences, FiniteSets

CONSTANTS
    Files,
    Rows,          \* Rows[f]: records of fitid, day, text, pending
    Provider,      \* Provider[f]: identity that the provider states, or Nothing
    Month,         \* Month[f]: closing month of the statement
    Complete,      \* files whose rows and metadata leave nothing to review
    Accounts,
    Forms,         \* bound: files, accounts and forms (mapping, metadata) submitted
    Texts,         \* bound: what a description is corrected to
    Closable,      \* bound: months that are closed
    MaxImports     \* bound on attempts

Nothing == "none"

\* Equal rows of a file are told apart by their text, which counts them.
ASSUME ImportAssumption ==
    /\ Complete \subseteq Files
    /\ \A f \in Files : Rows[f] # {} /\ IsFiniteSet(Rows[f])
    /\ \A f \in Files : \A row, other \in Rows[f] :
          row.day = other.day /\ row.text = other.text => row = other
    /\ Nothing \notin Accounts
    /\ \A form \in Forms : form.file \in Files /\ form.account \in Accounts

VARIABLES
    imports,       \* structured_statement_imports, oldest first
    lines,         \* statement_lines by identity: the import and its row
    replaced,      \* structured_statement_row_supersessions
    bindings,      \* structured_provider_account_bindings
    reviews,       \* reviews[f]: review_state, or Nothing
    signed,        \* signed[f]: the lines that the last approval saw
    documents,     \* documents[f]: status
    locked         \* closed months

importsVars == <<imports, lines, replaced, bindings, reviews, signed, documents, locked>>

File(i) == imports[i.import].attempt.file
Account(i) == imports[i.import].attempt.account
Key(row) == <<row.day, row.text>>
Weak(row) == <<row.day, row.text, row.pending>>
LinesOf(f) == {i \in DOMAIN lines : File(i) = f}
Active(f, ledger) == {<<i, ledger[i].key>> : i \in {j \in LinesOf(f) : ledger[j].state # "excluded"}}
ActiveKey(a, key) == \E i \in DOMAIN lines :
    Account(i) = a /\ lines[i].state # "excluded" /\ lines[i].key = key

-----------------------------------------------------------------------------
(* Statement review, seen from the rows *)

\* Defect: closed months are not looked at.
Anytime(f) == TRUE

\* _guard_review_month
Writable(f) == Month[f] \notin locked

\* _assert_document_unresolved
Correctable(f) == Writable(f) /\ \A i \in LinesOf(f) : lines[i].state # "booked"

\* _reopen_projection_if_needed
Reopened(changed) == [f \in Files |->
    IF f \in changed /\ reviews[f] = "approved" THEN "pending" ELSE reviews[f]]
Requeued(changed) == [f \in Files |->
    IF f \in changed /\ reviews[f] = "approved" THEN "needs_review" ELSE documents[f]]

ChangeRow(i, line) ==
    /\ Correctable(File(i))
    /\ lines' = [lines EXCEPT ![i] = line]
    /\ reviews' = Reopened({File(i)}) /\ documents' = Requeued({File(i)})
    /\ UNCHANGED <<imports, replaced, bindings, signed, locked>>

correct_row(i, text) ==
    LET key == <<i.row.day, text>> IN
    /\ lines[i].state = "open" /\ lines[i].key # key
    /\ ~ActiveKey(Account(i), key)
    /\ ChangeRow(i, [key |-> key, state |-> "open"])

exclude_row(i) ==
    /\ lines[i].state = "open"
    /\ ChangeRow(i, [key |-> lines[i].key, state |-> "excluded"])

\* Defect: a restored row may repeat an active one.
RestorableAnyhow(i) == TRUE

Restorable(i) == ~ActiveKey(Account(i), lines[i].key)

restore_row(i) ==
    /\ lines[i].state = "excluded"
    /\ Restorable(i)
    /\ ChangeRow(i, [key |-> lines[i].key, state |-> "open"])

\* An operator may complete the metadata first.
approve_review(f) ==
    /\ reviews[f] = "pending" /\ Writable(f)
    /\ reviews' = [reviews EXCEPT ![f] = "approved"]
    /\ signed' = [signed EXCEPT ![f] = Active(f, lines)]
    /\ documents' = [documents EXCEPT ![f] = "processed"]
    /\ UNCHANGED <<imports, lines, replaced, bindings, locked>>

\* Reconciliation matches the open rows of an approved statement, or takes
\* that back.
Settle(f, from, to) ==
    /\ reviews[f] = "approved" /\ Writable(f)
    /\ \E i \in LinesOf(f) : lines[i].state = from
    /\ lines' = [i \in DOMAIN lines |-> IF File(i) = f /\ lines[i].state = from
                                        THEN [lines[i] EXCEPT !.state = to] ELSE lines[i]]
    /\ UNCHANGED <<imports, replaced, bindings, reviews, signed, documents, locked>>

-----------------------------------------------------------------------------
(* Preview *)

Conflict(f, a) == Provider[f] # Nothing /\ bindings[Provider[f]] \notin {Nothing, a}

create_preview(attempt) ==
    IF \E n \in DOMAIN imports : imports[n].attempt = attempt THEN imports' = imports
    ELSE /\ Len(imports) < MaxImports /\ Month[attempt.file] \notin locked
         /\ imports' = Append(imports, [attempt |-> attempt, status |-> "preview"])

\* The binding is read before the transaction; bindings are only added, so an
\* attempt that is stored late is one that was stored early.
preview_import(form) ==
    /\ create_preview([file |-> form.file, account |-> form.account, form |-> form.form,
                       conflict |-> Conflict(form.file, form.account)])
    /\ documents' = [documents EXCEPT ![form.file] = "needs_review"]
    /\ UNCHANGED <<lines, replaced, bindings, reviews, signed, locked>>

-----------------------------------------------------------------------------
(* Confirmation *)

Live == {i \in DOMAIN lines : \A r \in replaced : r.pending # i}

\* _exact_prior_import
Exact(n) == {m \in DOMAIN imports :
    /\ m # n /\ imports[m].status = "confirmed" /\ imports[m].attempt.account = imports[n].attempt.account
    /\ Month[imports[m].attempt.file] = Month[imports[n].attempt.file]
    /\ Cardinality(Rows[imports[m].attempt.file]) = Cardinality(Rows[imports[n].attempt.file])
    /\ {Weak(i.row) : i \in {j \in Live : j.import = m}} = {Weak(row) : row \in Rows[imports[n].attempt.file]}}

\* An exact prior import makes every row of the file a duplicate.
IsDuplicate(n) == Exact(n) # {}

Identified(f, row) == Provider[f] # Nothing /\ row.fitid # Nothing
Repeated(f, row) == \E other \in Rows[f] \ {row} : other.fitid = row.fitid
SameFitid(f, row) == {i \in Live : Provider[File(i)] = Provider[f] /\ i.row.fitid = row.fitid}

\* can_supersede
CanSupersede(row, i) == /\ i.row.pending /\ ~row.pending
                        /\ lines[i].state = "open"
                        /\ Month[File(i)] \notin locked

\* The weak key includes the coarse one.
Coincides(a, row) == \E i \in Live : Account(i) = a /\ i.row.day = row.day

\* _identity_rows: what import n finds of a row
Overlap(n, row) ==
    LET f == imports[n].attempt.file  a == imports[n].attempt.account  known == SameFitid(f, row) IN
    IF Identified(f, row) /\ Repeated(f, row) THEN "ambiguous"
    ELSE IF Identified(f, row) /\ known # {}
    THEN IF \A i \in known : CanSupersede(row, i) THEN "supersede_pending" ELSE "ambiguous"
    ELSE IF Coincides(a, row) \/ ActiveKey(a, Key(row)) THEN "ambiguous" ELSE "new"

\* get_for_document
AlreadyReviewed(f) == reviews[f] # Nothing

\* Defect: the binding is the one that the preview read.
PreviewedConflict(n) == imports[n].attempt.conflict

\* Review reasons of the preview and of the binding as it is now
Conflicts(n) == imports[n].attempt.conflict \/ Conflict(imports[n].attempt.file, imports[n].attempt.account)

Blocked(n) ==
    \/ Conflicts(n)
    \/ /\ ~IsDuplicate(n)
       /\ \/ AlreadyReviewed(imports[n].attempt.file)
          \/ \E row \in Rows[imports[n].attempt.file] : Overlap(n, row) = "ambiguous"

\* finish_import; the revision that the page names is that of the one evaluation.
Evaluated(n, status) == imports' = [imports EXCEPT ![n].status = status]

Confirmable(n) == imports[n].status = "preview" /\ Month[imports[n].attempt.file] \notin locked

confirm_duplicate(n) ==
    /\ Confirmable(n) /\ ~Blocked(n) /\ IsDuplicate(n)
    /\ Evaluated(n, "duplicate")
    /\ documents' = [documents EXCEPT ![imports[n].attempt.file] = "processed"]
    /\ UNCHANGED <<lines, replaced, bindings, reviews, signed, locked>>

confirm_blocked(n) ==
    /\ Confirmable(n) /\ Blocked(n)
    /\ Evaluated(n, "blocked")
    /\ documents' = [documents EXCEPT ![imports[n].attempt.file] = "needs_review"]
    /\ UNCHANGED <<lines, replaced, bindings, reviews, signed, locked>>

\* _create_review, and approval if nothing is left to review
NewReview(f) == IF f \in Complete THEN "approved" ELSE "pending"

\* A statement that is complete is approved in the same transaction.
FiledAs(f) == IF f \in Complete THEN "processed" ELSE "needs_review"

\* The rows are staged after their predecessors are excluded.  Excluding fails
\* on a booked statement, and staging on a row that repeats an active one, or
\* an identity on record: then the whole confirmation fails.
confirm_staged(n) ==
    LET f == imports[n].attempt.file
        a == imports[n].attempt.account
        new == {[import |-> n, row |-> row] : row \in Rows[f]}
        old == UNION {SameFitid(f, row) : row \in {r \in Rows[f] : Overlap(n, r) = "supersede_pending"}}
        staged == [i \in DOMAIN lines \cup new |->
                      IF i \in new THEN [key |-> Key(i.row), state |-> "open"]
                      ELSE IF i \in old THEN [lines[i] EXCEPT !.state = "excluded"] ELSE lines[i]]
        priors == {File(i) : i \in old}
    IN /\ Confirmable(n) /\ ~Blocked(n) /\ ~IsDuplicate(n)
       /\ \A g \in priors : Correctable(g)
       /\ \A i \in DOMAIN lines : Account(i) = a =>
             \A j \in new : /\ staged[i].state # "excluded" => staged[i].key # staged[j].key
                            /\ Weak(i.row) # Weak(j.row)
       /\ Evaluated(n, "confirmed")
       /\ lines' = staged
       /\ replaced' = replaced \cup {r \in [pending : old, posted : new] :
                                        r.pending.row.fitid = r.posted.row.fitid}
       /\ bindings' = IF Provider[f] = Nothing THEN bindings ELSE [bindings EXCEPT ![Provider[f]] = a]
       /\ reviews' = [Reopened(priors) EXCEPT ![f] = NewReview(f)]
       /\ documents' = [Requeued(priors) EXCEPT ![f] = FiledAs(f)]
       /\ signed' = IF f \in Complete THEN [signed EXCEPT ![f] = {<<i, Key(i.row)>> : i \in new}] ELSE signed
       /\ UNCHANGED locked

mark_closed(m) ==
    /\ m \notin locked
    /\ locked' = locked \cup {m}
    /\ UNCHANGED <<imports, lines, replaced, bindings, reviews, signed, documents>>

-----------------------------------------------------------------------------
ImportsInit ==
    /\ imports = << >> /\ lines = << >> /\ replaced = {} /\ locked = {}
    /\ bindings = [p \in {Provider[f] : f \in Files} \ {Nothing} |-> Nothing]
    /\ reviews = [f \in Files |-> Nothing]
    /\ signed = [f \in Files |-> {}]
    /\ documents = [f \in Files |-> Nothing]

ImportsNext ==
    \/ \E form \in Forms : preview_import(form)
    \/ \E n \in DOMAIN imports : confirm_duplicate(n) \/ confirm_blocked(n) \/ confirm_staged(n)
    \/ \E i \in DOMAIN lines : \/ exclude_row(i) \/ restore_row(i)
                               \/ \E text \in Texts : correct_row(i, text)
    \/ \E f \in Files : approve_review(f) \/ Settle(f, "open", "booked") \/ Settle(f, "booked", "open")
    \/ \E m \in Closable : mark_closed(m)

ImportsSpec == ImportsInit /\ [][ImportsNext]_importsVars

-----------------------------------------------------------------------------
(* Properties *)

ImportsTypeOK ==
    /\ \A n \in DOMAIN imports : /\ imports[n].attempt.file \in Files /\ imports[n].attempt.account \in Accounts
                                 /\ imports[n].status \in {"preview", "blocked", "confirmed", "duplicate"}
    /\ \A i \in DOMAIN lines : i.row \in Rows[File(i)] /\ lines[i].state \in {"open", "booked", "excluded"}
    /\ \A r \in replaced : {r.pending, r.posted} \subseteq DOMAIN lines
    /\ \A p \in DOMAIN bindings : bindings[p] \in Accounts \cup {Nothing}
    /\ reviews \in [Files -> {Nothing, "pending", "approved"}]
    /\ documents \in [Files -> {Nothing, "needs_review", "processed"}]

\* What a provider states about one account is never imported into two, even
\* if both imports were previewed before either was confirmed (confirm_import).
ProviderOneAccount == \A m, n \in DOMAIN imports :
    /\ imports[m].status = "confirmed" /\ imports[n].status = "confirmed"
    /\ Provider[imports[m].attempt.file] = Provider[imports[n].attempt.file] /\ Provider[imports[m].attempt.file] # Nothing
    => imports[m].attempt.account = imports[n].attempt.account

\* A file is staged at most once, whatever attempts there are about it
\* (source_already_confirmed).
StagedOnce == \A m, n \in DOMAIN imports :
    imports[m].status = "confirmed" /\ imports[n].status = "confirmed"
        /\ imports[m].attempt.file = imports[n].attempt.file => m = n

\* Two rows of an account that were not replaced and agree on date and amount
\* come from one file, unless the later one replaced a pending row of its own
\* (_identity_rows).
NewRowsAreNew == \A i, j \in Live :
    Account(i) = Account(j) /\ i.import # j.import /\ i.row.day = j.row.day
        => \E r \in replaced : r.posted \in {i, j}

\* No two active rows of an account describe the same movement, after
\* corrections, restorations and replacements too (_set_row_disposition).
ActiveRowsDiffer == \A i, j \in DOMAIN lines :
    /\ Account(i) = Account(j) /\ lines[i].key = lines[j].key
    /\ lines[i].state # "excluded" /\ lines[j].state # "excluded"
    => i = j

\* An approved statement has the rows that were approved: a statement that
\* takes a row out of it reopens it (_reopen_projection_if_needed).
ApprovedAsSeen == \A f \in Files : reviews[f] = "approved" => signed[f] = Active(f, lines)

\* Every row of a duplicate was staged from another import (_exact_prior_import).
DuplicateIsHeld == \A n \in DOMAIN imports : imports[n].status = "duplicate" =>
    \A row \in Rows[imports[n].attempt.file] : \E i \in DOMAIN lines :
        Account(i) = imports[n].attempt.account /\ Weak(i.row) = Weak(row)

\* A file, its account and its provider are imported once, in whatever order
\* overlapping previews are confirmed.
ImportedOnce == ImportsTypeOK /\ ProviderOneAccount /\ StagedOnce /\ DuplicateIsHeld

\* A movement has one active row, and an approval covers the rows it saw.
RowsHold == NewRowsAreNew /\ ActiveRowsDiffer /\ ApprovedAsSeen

\* No row of a statement of a closed month changes or appears, and none is
\* replaced from an open month (_guard_review_month, can_supersede).
ClosedStands == [][\A f \in Files : Month[f] \in locked => Active(f, lines)' = Active(f, lines)]_importsVars
=============================================================================
