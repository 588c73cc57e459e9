-------------------------------- MODULE Goals --------------------------------
(***************************************************************************)
(* Goals and their monthly funding (app/db/repo_goals.py,                   *)
(* app/web/routes/goals.py).  A goal is funded by closing a month: the      *)
(* underspend of the month's budgets is handed out by priority, one ledger  *)
(* row per goal and month.  Months are closed in any order and again         *)
(* whenever late transactions or budget edits change the underspend, so     *)
(* what is hard is that rows of different months bound each other, that a   *)
(* plan once recorded stands, and that a locked period keeps its rows.      *)
(*                                                                         *)
(* Months are numbers and amounts units of money.  Every month of the model *)
(* lies in the span of the ledger (v_month_spine).  The code writes no      *)
(* ledger row but the applied underspend rows of a close; rows of other     *)
(* sources exist in its tests only and are not modelled.                    *)
(***************************************************************************)
EXTENDS Integers, Sequences, FiniteSets, Functions, SequencesExt

CONSTANTS
    GoalIds,       \* ids of goals, numbers: ties in priority go to the lower
    Cats,          \* ids of expense categories, numbers
    Today,         \* the current month; months are 1..Today
    Plans,         \* what the form of a goal may carry
    Amounts,       \* amounts a budget or the spending of a month may take
    InitBudget,    \* InitBudget[c]: the default budget of c at first
    MaxEdits,      \* bound on edits of goals
    MaxChanges,    \* bound on changes of budgets and spending
    MaxLocks       \* bound on locks and reopenings of periods

Months == 1..Today
NoMonth == 0       \* a goal without target month
Default == 0       \* the period of a default budget
NoCat == 0         \* a goal without linked category

Plan == [target : Nat \ {0}, start : Nat \ {0}, targetMonth : Nat,
         monthly : Nat, auto : BOOLEAN, priority : Nat, linked : Nat]

ASSUME GoalAssumption ==
    /\ GoalIds \subseteq Nat \ {0} /\ IsFiniteSet(GoalIds)
    /\ Cats \subseteq Nat \ {0} /\ IsFiniteSet(Cats)
    /\ Today \in Nat \ {0}
    /\ Plans \subseteq Plan
    /\ Amounts \subseteq Nat /\ InitBudget \in [Cats -> Nat]
    /\ {MaxEdits, MaxChanges, MaxLocks} \subseteq Nat

VARIABLES
    plan,          \* plan[g]: the settings of goal g, or NoPlan
    status,        \* status[g]: active, paused, completed or cancelled
    ledger,        \* ledger[g][m]: the row of goal_ledger, or NoRow
    budget,        \* budget[c][p]: budget of c for month p or as default
    spent,         \* spent[m][c]: classified expenses of the month
    lockedMonths,  \* months whose period is closed
    edits, changes, locks

goalsVars == <<plan, status, ledger, budget, spent, lockedMonths, edits, changes, locks>>

NoPlan == [target |-> 0]
NoRow == [planned |-> 0, actual |-> 0, sources |-> <<>>, applied |-> FALSE]
Statuses == {"active", "paused", "completed", "cancelled"}

Exists(g) == plan[g] # NoPlan
HasRow(g, m) == ledger[g][m] # NoRow

(* Every variable keeps its type: a completed goal without a plan or a     *)
(* ledger row of a goal that was never made cannot come up.                *)
GoalsTypeOK ==
    /\ \A g \in GoalIds : plan[g] \in Plan \cup {NoPlan}
    /\ status \in [GoalIds -> Statuses]
    /\ \A g \in GoalIds, m \in Months :
         HasRow(g, m) =>
            /\ Exists(g) /\ ledger[g][m].applied
            /\ {ledger[g][m].planned, ledger[g][m].actual} \subseteq Nat
            /\ ledger[g][m].sources \in [Cats -> Nat]
    /\ \A c \in Cats : DOMAIN budget[c] \subseteq Months \cup {Default}
    /\ spent \in [Months -> [Cats -> Nat]]
    /\ lockedMonths \subseteq Months
    /\ edits \in 0..MaxEdits /\ changes \in 0..MaxChanges /\ locks \in 0..MaxLocks

GoalsInit ==
    /\ plan = [g \in GoalIds |-> NoPlan]
    /\ status = [g \in GoalIds |-> "active"]
    /\ ledger = [g \in GoalIds |-> [m \in Months |-> NoRow]]
    /\ budget = [c \in Cats |-> [p \in {Default} |-> InitBudget[c]]]
    /\ spent = [m \in Months |-> [c \in Cats |-> 0]]
    /\ lockedMonths = {}
    /\ edits = 0 /\ changes = 0 /\ locks = 0

Least(a, b) == IF a <= b THEN a ELSE b
Most(a, b) == IF a >= b THEN a ELSE b
Minus(a, b) == IF a <= b THEN 0 ELSE a - b
CeilDiv(a, b) == (a + b - 1) \div b

-----------------------------------------------------------------------------
(* The underspend of a month *)

Budgeted(c, m) ==
    IF m \in DOMAIN budget[c] THEN budget[c][m]
    ELSE IF Default \in DOMAIN budget[c] THEN budget[c][Default] ELSE 0

\* Categories with something left, and how much.
Underspend(m) ==
    LET left(c) == Minus(Budgeted(c, m), spent[m][c])
    IN  [c \in {c \in Cats : left(c) > 0} |-> left(c)]

\* The elements of S, one before the other.
Ordered(S, before(_, _)) ==
    CHOOSE s \in SetToSeqs(S) : \A i, j \in DOMAIN s : i < j => before(s[i], s[j])

\* The buckets a close draws from: the largest first.
PoolOrder(pool) ==
    Ordered(DOMAIN pool,
            LAMBDA c, e : pool[c] > pool[e] \/ (pool[c] = pool[e] /\ c < e))

PoolLeft(pool) == SumFunctionOnSet(pool, DOMAIN pool)

-----------------------------------------------------------------------------
(* What a goal has received *)

Given(rows) == [k \in Months |-> rows[k].actual]

\* Defect: the month's own row counts as already given.
OwnRowToo(rows, m) == SumFunctionOnSet(Given(rows), Months)

\* What the other months gave, later ones included.
ContributedOther(rows, m) == SumFunctionOnSet(Given(rows), Months \ {m})

ContributedThrough(g, m) == SumFunctionOnSet(Given(ledger[g]), {k \in Months : k <= m})

Remaining(p, contributed) == Minus(p.target, contributed)

Contributed(g) == SumFunctionOnSet(Given(ledger[g]), Months)

-----------------------------------------------------------------------------
(* Payoff math *)

DiffMonths(a, b) == Minus(b + 1, a)

PlannedTotalMonths(p) ==
    IF p.targetMonth # NoMonth THEN Most(1, DiffMonths(p.start, p.targetMonth))
    ELSE IF p.monthly > 0 THEN Most(1, CeilDiv(p.target, p.monthly)) ELSE 1

ImpliedTargetMonth(p) == p.start + PlannedTotalMonths([p EXCEPT !.targetMonth = NoMonth]) - 1

\* Defect: the current month may always still be funded.
CurrentMonthOpen(p, m, funded) == Minus(DiffMonths(p.start, m), 1)

\* Months that have had their chance: the current one only once it is funded.
EffectiveElapsed(p, m, funded) ==
    IF funded THEN DiffMonths(p.start, m) ELSE Minus(DiffMonths(p.start, m), 1)

ExpectedByNow(p, elapsed) ==
    LET total == PlannedTotalMonths(p)
    IN  IF elapsed = 0 THEN 0
        ELSE Least(p.target, CeilDiv(p.target * Least(elapsed, total), total))

\* Months of full pace until the goal is reached, and the last of them.
ProjectedTargetMonth(p, remaining, m, funded) ==
    LET needed == CeilDiv(remaining, p.monthly)
    IN  CASE remaining = 0 -> m
          [] remaining > 0 /\ p.monthly = 0 -> NoMonth
          [] OTHER -> IF DiffMonths(p.start, m) = 0 THEN p.start - 1 + needed
                      ELSE IF funded THEN m + needed ELSE m + needed - 1

PayoffStatus(p, contributed, m, funded) ==
    LET remaining == Remaining(p, contributed)
        elapsed == EffectiveElapsed(p, m, funded)
        monthsLeft == Most(1, Minus(PlannedTotalMonths(p), elapsed))
        expected == ExpectedByNow(p, elapsed)
    IN  [remaining |-> remaining,
         required |-> CeilDiv(remaining, monthsLeft),
         projected |-> ProjectedTargetMonth(p, remaining, m, funded),
         state |-> CASE contributed >= p.target -> "completed"
                     [] contributed < p.target /\ contributed + 1 < expected -> "behind"
                     [] contributed < p.target /\ contributed > expected + 1 -> "ahead"
                     [] OTHER -> "on_track"]

Payoff(g, m) == PayoffStatus(plan[g], ContributedThrough(g, m), m, HasRow(g, m))

-----------------------------------------------------------------------------
(* Closing a month *)

ParticipatesGiven(g, m, rows, states) ==
    /\ Exists(g) /\ plan[g].auto /\ plan[g].start <= m
    /\ states[g] = "active" \/ rows[g][m] # NoRow

Participates(g, m) == ParticipatesGiven(g, m, ledger, status)

ByPriority(goals) ==
    Ordered(goals, LAMBDA g, h : \/ plan[g].priority < plan[h].priority
                                 \/ plan[g].priority = plan[h].priority /\ g < h)

\* One draw from one bucket.
Draw(d, c) ==
    IF c \notin DOMAIN d.pool THEN d
    ELSE LET take == Least(d.pool[c], d.left)
         IN  [pool |-> [d.pool EXCEPT ![c] = d.pool[c] - take], left |-> d.left - take,
              sources |-> [d.sources EXCEPT ![c] = d.sources[c] + take]]

\* A fresh row records the plan of the day; an existing one keeps its own.
PlannedOf(row, monthly, remaining) ==
    IF row = NoRow THEN Least(monthly, remaining) ELSE row.planned

\* Defect: a goal once completed stays so.
CompletedForGood(p, total, old) == IF total >= p.target THEN "completed" ELSE old

StatusAfterClose(p, total, old) ==
    CASE total >= p.target -> "completed"
      [] total < p.target /\ old = "completed" -> "active"
      [] OTHER -> old

(* The share of one goal: s has what the close has done so far.            *)
Fund(s, g, m) ==
    LET row == s.ledger[g][m]
        other == ContributedOther(s.ledger[g], m)
        remaining == Remaining(plan[g], other)
        planned == PlannedOf(row, plan[g].monthly, remaining)
        basis == IF row = NoRow THEN plan[g].monthly ELSE planned
        alloc == Least(Least(basis, PoolLeft(s.pool)), remaining)
        order == IF plan[g].linked = NoCat THEN s.order ELSE <<plan[g].linked>> \o s.order
        drawn == FoldLeft(Draw, [pool |-> s.pool, left |-> alloc,
                                 sources |-> [c \in Cats |-> 0]], order)
    IN  [s EXCEPT !.pool = drawn.pool,
                  !.ledger = [s.ledger EXCEPT ![g][m] =
                                [planned |-> planned, actual |-> alloc,
                                 sources |-> drawn.sources, applied |-> TRUE]],
                  !.status = [s.status EXCEPT ![g] =
                                StatusAfterClose(plan[g], other + alloc, s.status[g])]]

close_month(m, rows, states) ==
    LET pool == Underspend(m)
        goals == {g \in GoalIds : ParticipatesGiven(g, m, rows, states)}
    IN  FoldLeft(LAMBDA s, g : Fund(s, g, m),
                 [pool |-> pool, order |-> PoolOrder(pool), ledger |-> rows, status |-> states],
                 ByPriority(goals))

\* The triggers on goal_ledger: a row of a locked month is neither inserted
\* nor updated, and the whole close is rolled back.
LedgerGuard(m) == (\E g \in GoalIds : Participates(g, m)) => m \notin lockedMonths

RunClose(m) ==
    /\ LedgerGuard(m)
    /\ ledger' = close_month(m, ledger, status).ledger
    /\ status' = close_month(m, ledger, status).status
    /\ UNCHANGED <<plan, budget, spent, lockedMonths, edits, changes, locks>>

-----------------------------------------------------------------------------
(* Edits of a goal *)

ValidTarget(p) == p.targetMonth # NoMonth => p.targetMonth >= p.start

Edited ==
    /\ edits < MaxEdits
    /\ edits' = edits + 1
    /\ UNCHANGED <<ledger, budget, spent, lockedMonths, changes, locks>>

CreateGoal(g, p) ==
    /\ ~Exists(g) /\ ValidTarget(p)
    /\ plan' = [plan EXCEPT ![g] = p]
    /\ Edited /\ UNCHANGED status

UpdateGoal(g, p) ==
    /\ Exists(g) /\ ValidTarget(p) /\ plan[g] # p
    /\ plan' = [plan EXCEPT ![g] = p]
    /\ Edited /\ UNCHANGED status

SetGoalStatus(g, s) ==
    /\ Exists(g) /\ status[g] # s
    /\ status' = [status EXCEPT ![g] = s]
    /\ Edited /\ UNCHANGED plan

\* Raise or lower the monthly contribution to the one the target month needs.
CatchUp(g, m) ==
    LET timed == [plan[g] EXCEPT !.targetMonth =
                    IF plan[g].targetMonth = NoMonth THEN ImpliedTargetMonth(plan[g])
                    ELSE plan[g].targetMonth]
        payoff == PayoffStatus(timed, ContributedThrough(g, m), m, HasRow(g, m))
    IN  /\ Exists(g) /\ status[g] # "completed" /\ Payoff(g, m).remaining > 0
        /\ plan' = [plan EXCEPT ![g] = [timed EXCEPT !.monthly = payoff.required]]
        /\ Edited /\ UNCHANGED status

\* Push the target month out to where the present contribution arrives.
Extend(g, m) ==
    /\ Exists(g) /\ Payoff(g, m).remaining > 0
    /\ Payoff(g, m).projected # NoMonth
    /\ plan' = [plan EXCEPT ![g].targetMonth =
                    Most(plan[g].targetMonth, Payoff(g, m).projected)]
    /\ Edited /\ UNCHANGED status

-----------------------------------------------------------------------------
(* Budgets, spending and periods *)

Changed ==
    /\ changes < MaxChanges
    /\ changes' = changes + 1
    /\ UNCHANGED <<plan, status, ledger, lockedMonths, edits, locks>>

\* A budget is set for a month or as default; no period guards it.
SetCategoryBudget(c, p, a) ==
    /\ budget' = [budget EXCEPT ![c] = [k \in DOMAIN budget[c] \cup {p} |->
                                          IF k = p THEN a ELSE budget[c][k]]]
    /\ Changed /\ UNCHANGED spent

\* The classified expenses of an open month change, by import or by edit.
Spend(m, c, a) ==
    /\ m \notin lockedMonths /\ spent[m][c] # a
    /\ spent' = [spent EXCEPT ![m][c] = a]
    /\ Changed /\ UNCHANGED budget

TurnLock(m) ==
    /\ locks < MaxLocks
    /\ locks' = locks + 1
    /\ lockedMonths' = IF m \in lockedMonths THEN lockedMonths \ {m} ELSE lockedMonths \cup {m}
    /\ UNCHANGED <<plan, status, ledger, budget, spent, edits, changes>>

GoalsNext ==
    \/ \E m \in Months : RunClose(m) \/ TurnLock(m)
    \/ \E g \in GoalIds, p \in Plans : CreateGoal(g, p) \/ UpdateGoal(g, p)
    \/ \E g \in GoalIds, s \in Statuses : SetGoalStatus(g, s)
    \/ \E g \in GoalIds, m \in Months : CatchUp(g, m) \/ Extend(g, m)
    \/ \E c \in Cats, p \in Months \cup {Default}, a \in Amounts : SetCategoryBudget(c, p, a)
    \/ \E m \in Months, c \in Cats, a \in Amounts : Spend(m, c, a)

GoalsSpec == GoalsInit /\ [][GoalsNext]_goalsVars

-----------------------------------------------------------------------------
(* Properties *)

(* Closing a month again changes nothing while nothing else has changed:   *)
(* close_month() is run whenever somebody presses the button, so its own   *)
(* rows and the statuses it sets must not feed back into it.               *)
ClosingAgainChangesNothing ==
    \A m \in Months :
        LET once == close_month(m, ledger, status)
            twice == close_month(m, once.ledger, once.status)
        IN  twice.ledger = once.ledger /\ twice.status = once.status

(* No step gives a goal more than its target, whatever the order in which  *)
(* its months are closed and closed again.                                  *)
NeverOverfunded ==
    [][\A g \in GoalIds :
         Contributed(g)' > Contributed(g) => Contributed(g)' <= plan'[g].target]_goalsVars

(* What a close hands out from a category is at most its underspend, and   *)
(* the note of a row accounts for every unit the row received.             *)
UnderspendSpentOnce ==
    [][\A m \in Months :
         LET goals == {g \in GoalIds : Participates(g, m)}
             drawn(c) == SumFunctionOnSet([g \in goals |-> ledger'[g][m].sources[c]], goals)
         IN  (\E g \in GoalIds : ledger'[g][m] # ledger[g][m]) =>
                /\ \A c \in Cats : drawn(c) <= Minus(Budgeted(c, m), spent[m][c])
                /\ \A g \in goals : ledger'[g][m].actual =
                     SumFunctionOnSet(ledger'[g][m].sources, Cats)]_goalsVars

(* The plan of a row is history: neither a later edit of the goal nor a    *)
(* corrective close changes what the month was planned to give, and no row  *)
(* disappears.                                                             *)
PlanFrozen ==
    [][\A g \in GoalIds, m \in Months :
         HasRow(g, m) => /\ ledger'[g][m].applied
                         /\ ledger'[g][m].planned = ledger[g][m].planned]_goalsVars

(* A goal completes by its money only, and a close that takes money back    *)
(* from a completed goal reopens it.                                        *)
CompletionFollowsMoney ==
    [][\A g \in GoalIds :
         /\ (status[g] # "completed" /\ status'[g] = "completed" /\ edits' = edits) =>
                Contributed(g)' >= plan[g].target
         /\ (Exists(g) /\ Contributed(g) >= plan[g].target /\ edits' = edits
                /\ Contributed(g)' < plan[g].target) => status'[g] # "completed"]_goalsVars

(* A locked period keeps every ledger row it had and gets no other.         *)
LockedMonthsKept ==
    [][\A g \in GoalIds, m \in lockedMonths : ledger'[g][m] = ledger[g][m]]_goalsVars

\* The first month that may still be funded when looking from month m.
FirstFundable(g, m) == Most(plan[g].start, IF HasRow(g, m) THEN m + 1 ELSE m)

(* After catching up or extending, paying the monthly contribution from the *)
(* first month that can still be funded reaches the target by the target    *)
(* month, or with that one payment where the target month is over.          *)
ReplannedGoalArrives ==
    [][\A g \in GoalIds, m \in Months :
         (CatchUp(g, m) \/ Extend(g, m)) =>
            LET payments == Most(1, DiffMonths(FirstFundable(g, m), plan'[g].targetMonth))
            IN  ContributedThrough(g, m) + payments * plan'[g].monthly >= plan'[g].target]_goalsVars

(* A goal that got its full monthly contribution in every month so far is   *)
(* not reported behind, if that contribution suffices for its target at all.*)
PaidUpIsNotBehind ==
    \A g \in GoalIds, m \in Months :
        (/\ Exists(g) /\ m >= plan[g].start
         /\ plan[g].monthly * PlannedTotalMonths(plan[g]) >= plan[g].target
         /\ \A k \in plan[g].start..(m - 1) : ledger[g][k].actual >= plan[g].monthly
         /\ HasRow(g, m) => ledger[g][m].actual >= plan[g].monthly) =>
            Payoff(g, m).state # "behind"

(* The ledger of the goals says what was paid: closing a month once more with *)
(* nothing new changes no row, and who has paid what is due is not behind.    *)
LedgerHolds == GoalsTypeOK /\ ClosingAgainChangesNothing /\ PaidUpIsNotBehind

(* Every unit of underspend goes to one goal once, in whatever order months   *)
(* are closed, edited, locked and closed again: none is spent twice, put into *)
(* a goal past its target or a locked month, or taken from a row's history.   *)
MoneyAccounted ==
    /\ NeverOverfunded
    /\ UnderspendSpentOnce
    /\ PlanFrozen
    /\ CompletionFollowsMoney
    /\ LockedMonthsKept
==============================================================================
