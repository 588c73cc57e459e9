--------------------------- MODULE MCPeriodPolicy ---------------------------
(* Small instances of PeriodPolicy and of CloseReadiness for TLC.  The modules *)
(* keep their own state; a behaviour explores one of them, in one of the       *)
(* scopes below, and leaves the other in its initial state.                    *)
(*                                                                             *)
(* PeriodPolicy: one month in depth, with three reviews, two resolutions and   *)
(* three close cycles, or two months with balances and writes that touch both. *)
(* CloseReadiness: the balances of two months and their adjustments; two       *)
(* transactions and a line of one statement; or the reviews, links and         *)
(* requirements of two statements.                                             *)
EXTENDS PeriodPolicy, CloseReadiness, TLC

CONSTANT t2     \* the transaction that is a purchase in the scope of rows

VARIABLE scope

PolicyScopes == {"one month", "two months"}
ReadyScopes == {"balances", "rows", "papers"}

\* Operation keys are only compared, so they are interchangeable.
KeySymmetry == Permutations(Keys)

UnitAmounts == {-1, 1}

UsedKeys == closeKeys \cup {o[1] : o \in overrides}

\* Balances agree, nothing happens to the months but the first, and that one has
\* one override.
OneMonthInDepth ==
    /\ Cardinality(overrides) <= 1
    /\ \A m \in Months : drift[m] = 0
    /\ \A m \in Months \ {1} :
          /\ status[m] = "open" /\ gap[m] = [r \in Rows |-> 0]
          /\ \A k \in Keys : <<k, m>> \notin overrides
          /\ \A i \in DOMAIN preacks : preacks[i].month # m

\* One payload, balances that are short of nothing, two operation keys, two
\* reviews and no resolution.
TwoMonths ==
    /\ gap \in [Months -> [Rows -> {0, 1}]]
    /\ \A m \in Months : drift[m] >= 0
    /\ Cardinality(UsedKeys) <= 2
    /\ Len(preacks) <= 2
    /\ resolutions = <<>>

-----------------------------------------------------------------------------
FirstStatement == [l \in Lines |-> 1]
OneMonthEach == [p \in Papers |-> p]

FirstDays == {day \in Days : day % 2 = 1}
Untouched(p) ==
    papers[p] = [review |-> Stated[p], stated |-> Stated[p], link |-> Nothing,
                 approved |-> FALSE, ends |-> Nothing]

\* One income and the adjustments against the closing balances at the ends of months.
Balances ==
    /\ accounts = Known /\ Registered = {} /\ entries[t2] = Nothing
    /\ \A e \in Booked : entries[e].flow = IF e \in Ledger THEN "income" ELSE "adjustment"
    /\ \A p \in Papers :
          /\ papers[p].review = Stated[p]
          /\ papers[p].link # Nothing \/ papers[p].ends # Nothing => papers[p].approved
          /\ papers[p].ends \notin FirstDays
    /\ \A day \in Days : asserted[day] # Nothing => asserted[day].cents = 1
    /\ \A m \in Periods : matrix[Main][m] # "not_required"

\* A transaction, a purchase that it may offset, and a line; the statements
\* stay as they were read.
RowsOfOneStatement ==
    /\ accounts = Known
    /\ \A e \in Booked : entries[e].flow # "adjustment" /\ entries[e].day \in FirstDays
    /\ entries[t2] # Nothing => entries[t2].flow = "purchase" /\ entries[t2].claim = "never"
    /\ Cardinality(Registered) <= 1
    /\ \A l \in Registered : lines[l].day \in FirstDays
    /\ \A p \in Papers : Untouched(p)
    /\ \A m \in Periods : matrix[Main][m] = "unconfigured"

\* Statements with one line at most and no transaction; of an account that is
\* opened later nothing is required.
PapersOfTwoMonths ==
    /\ Booked = {}
    /\ \A p \in Papers : papers[p].ends \notin FirstDays
    /\ \A day \in Days : asserted[day] # Nothing => asserted[day].cents = 0
    /\ \A m \in Periods : matrix[Main][m] # "not_required"
    /\ \A m \in Periods, a \in Accounts \ Known : matrix[a][m] = "unconfigured"
    /\ Cardinality(Registered) <= 1
    /\ \A l \in Registered :
          /\ lines[l].state \in {"unmatched", IF l \in Credit THEN "ignored" ELSE "needs_review"}
          /\ lines[l].day = IF l \in Credit THEN 1 ELSE 3
          /\ ~lines[l].pending /\ lines[l].active

ClosePolicy ==
    /\ scope \in PolicyScopes
    /\ Next
    /\ scope = "one month" => OneMonthInDepth'
    /\ scope = "two months" => TwoMonths'
    /\ UNCHANGED readyVars

Readiness ==
    /\ scope \in ReadyScopes
    /\ ReadyNext
    /\ scope = "balances" => Balances'
    /\ scope = "rows" => RowsOfOneStatement'
    /\ scope = "papers" => PapersOfTwoMonths'
    /\ UNCHANGED vars

MCInit == Init /\ ReadyInit /\ scope \in PolicyScopes \cup ReadyScopes

MCNext == (ClosePolicy \/ Readiness) /\ UNCHANGED scope

MCSpec == MCInit /\ [][MCNext]_<<vars, readyVars, scope>>
=============================================================================
