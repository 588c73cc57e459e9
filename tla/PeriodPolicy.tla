---------------------------- MODULE PeriodPolicy ----------------------------
(***************************************************************************)
(* The close lifecycle of a posting month (app/db/repo_period_policy.py,   *)
(* migrations/036_period_policy.sql) together with the handlers that drive *)
(* it (app/web/routes/close.py) and the guarded ledger writers.            *)
(*                                                                         *)
(* Every action is one write transaction: BEGIN IMMEDIATE and the process  *)
(* write lock make transactions atomic and totally ordered                 *)
(* (app/db/engine.py), and an error rolls the whole transaction back, so a *)
(* refused request is a step that is not taken.                            *)
(*                                                                         *)
(* A typed close exception is identified by its subject (the lineage key)  *)
(* and an evidence version, the payload: a non-zero integer that stands    *)
(* for the digest of everything the exception token covers.  The payload 0 *)
(* means that the subject raises no exception.                             *)
(***************************************************************************)
EXTENDS Integers, Sequences, FiniteSets

CONSTANTS
    Months,           \* posting months, a set of naturals: earlier is smaller
    Rows,             \* subjects of exceptions that a month's own rows raise
    Balance,          \* the subject of the month's balance assertion
    Versions,         \* payloads that a row subject can take
    Amounts,          \* amounts of posted transactions
    Keys,             \* operation keys; also bounds closes and overrides
    MaxDrift,         \* bound on the assertion delta that is explored
    MaxPreacks,       \* bound on the rows of the pre-acknowledgement table
    MaxResolutions    \* bound on the rows of the resolution table

ASSUME MonthsAssumption == Months \subseteq Nat
ASSUME PayloadAssumption ==
    /\ Versions \subseteq Int \ {0}
    /\ Amounts \subseteq Int
    /\ MaxDrift \in Nat
ASSUME SubjectAssumption == Balance \notin Rows
ASSUME BoundAssumption == MaxPreacks \in Nat /\ MaxResolutions \in Nat

VARIABLES
    gap,          \* gap[m][r]: payload of row subject r in month m, from live evidence
    drift,        \* drift[m]: ledger balance through m minus the asserted balance
    status,       \* status[m]: the state named by the latest close event of m
    cycles,       \* cycles[m]: the close cycles of m with what each froze
    preacks,      \* rows of period_close_preacknowledgements
    acked,        \* acked[m]: subjects of m's last cycle with a current acknowledgement
    resolutions,  \* rows of period_close_resolutions
    closeKeys,    \* operation keys of recorded closes
    overrides     \* <<key, month>> pairs of recorded write overrides

evidence == <<gap, drift>>
vars == <<gap, drift, status, cycles, preacks, acked, resolutions, closeKeys, overrides>>

Subjects == Rows \cup {Balance}
ClosedStates == {"clean_closed", "closed_with_exceptions"}

Cycle == [state : ClosedStates, own : [Rows -> Int],
          frozen : [Subjects -> Int], source : [Subjects -> Nat]]
Preack == [month : Months, subject : Subjects, payload : Int, withdrawn : BOOLEAN]
Resolution == [month : Months, cycle : Nat, subject : Subjects, reversed : BOOLEAN]

TypeOK ==
    /\ gap \in [Months -> [Rows -> Int]]
    /\ drift \in [Months -> Int]
    /\ status \in [Months -> ClosedStates \cup {"open", "reopened"}]
    /\ cycles \in [Months -> Seq(Cycle)]
    /\ preacks \in Seq(Preack)
    /\ acked \in [Months -> SUBSET Subjects]
    /\ resolutions \in Seq(Resolution)
    /\ closeKeys \subseteq Keys
    /\ overrides \subseteq Keys \X Months

Init ==
    /\ gap = [m \in Months |-> [r \in Rows |-> 0]]
    /\ drift = [m \in Months |-> 0]
    /\ status = [m \in Months |-> "open"]
    /\ cycles = [m \in Months |-> <<>>]
    /\ preacks = <<>>
    /\ acked = [m \in Months |-> {}]
    /\ resolutions = <<>>
    /\ closeKeys = {}
    /\ overrides = {}

-----------------------------------------------------------------------------
(* Views over the tables *)

Locked(m) == status[m] \in ClosedStates

\* The typed exceptions that the live evidence of m raises now.
Live(m, s) == IF s = Balance THEN drift[m] ELSE gap[m][s]

\* Defect: only the last cycle is searched for carried exceptions.
LastCycleOnly(m, s) ==
    {c \in DOMAIN cycles[m] : c = Len(cycles[m]) /\ cycles[m][c].frozen[s] # 0}

\* Cycles of m that froze an exception on s and have no later one for it.
LatestCycles(m, s) ==
    {c \in DOMAIN cycles[m] :
        /\ cycles[m][c].frozen[s] # 0
        /\ \A d \in DOMAIN cycles[m] : d > c => cycles[m][d].frozen[s] = 0}

Resolved(m, c, s) ==
    \E i \in DOMAIN resolutions :
        /\ resolutions[i].month = m
        /\ resolutions[i].cycle = c
        /\ resolutions[i].subject = s
        /\ ~resolutions[i].reversed

UnresolvedCycles(m, s) == {c \in LatestCycles(m, s) : ~Resolved(m, c, s)}

\* Live exceptions overlay the unresolved ones that earlier cycles carry forward.
Effective(m, s) ==
    IF Live(m, s) # 0 THEN Live(m, s)
    ELSE IF UnresolvedCycles(m, s) # {}
         THEN cycles[m][CHOOSE c \in UnresolvedCycles(m, s) : TRUE].frozen[s]
         ELSE 0

Consumed(i) ==
    \E m \in Months : \E c \in DOMAIN cycles[m] :
        \E s \in Subjects : cycles[m][c].source[s] = i

PreacksFor(m, s, p) ==
    {i \in DOMAIN preacks :
        /\ preacks[i].month = m
        /\ preacks[i].subject = s
        /\ preacks[i].payload = p}

\* Defect: an acknowledgement that a close already used still counts.
PreacksUsedToo(m, s, p) == {i \in PreacksFor(m, s, p) : ~preacks[i].withdrawn}

\* Pre-acknowledgements of exactly this exception, not withdrawn and not used.
CurrentPreacks(m, s, p) ==
    {i \in PreacksFor(m, s, p) : ~preacks[i].withdrawn /\ ~Consumed(i)}

Newest(ids) == CHOOSE i \in ids : \A j \in ids : j <= i

-----------------------------------------------------------------------------
(* Review of exceptions while the month is writable *)

AddPreack(m, s) ==
    /\ ~Locked(m)
    /\ Effective(m, s) # 0
    /\ Len(preacks) < MaxPreacks
    /\ preacks' = Append(preacks, [month |-> m, subject |-> s,
                                   payload |-> Effective(m, s), withdrawn |-> FALSE])
    /\ UNCHANGED <<evidence, status, cycles, acked, resolutions, closeKeys, overrides>>

AcknowledgePreclose(m, s) ==
    /\ CurrentPreacks(m, s, Effective(m, s)) = {}
    /\ AddPreack(m, s)

\* The compensating row of an acknowledgement that is neither withdrawn nor used.
CompensatePreack(i) ==
    /\ ~preacks[i].withdrawn /\ ~Consumed(i)
    /\ preacks' = [preacks EXCEPT ![i].withdrawn = TRUE]

\* Only the acknowledgement of an exception that is effective now is withdrawn.
WithdrawPreclose(i) ==
    /\ ~Locked(preacks[i].month)
    /\ i \in CurrentPreacks(preacks[i].month, preacks[i].subject,
                            Effective(preacks[i].month, preacks[i].subject))
    /\ CompensatePreack(i)
    /\ UNCHANGED <<evidence, status, cycles, acked, resolutions, closeKeys, overrides>>

-----------------------------------------------------------------------------
(* Close and reopen *)

Acknowledged(m, s) == CurrentPreacks(m, s, Effective(m, s)) # {}

Excepted(m) == {s \in Subjects : Effective(m, s) # 0}

CloseState(m) == IF Excepted(m) = {} THEN "clean_closed" ELSE "closed_with_exceptions"

\* A key signs one writable month off, once each of its exceptions is reviewed.
MaySignOff(m, k) ==
    /\ k \notin closeKeys
    /\ ~Locked(m)
    /\ \A s \in Excepted(m) : Acknowledged(m, s)

\* The rows a close inserts: its exceptions, and the acknowledgements they consume.
FrozenPayloads(m) == [s \in Subjects |-> Effective(m, s)]

FrozenSources(m) ==
    [s \in Subjects |->
        IF s \in Excepted(m) THEN Newest(CurrentPreacks(m, s, Effective(m, s))) ELSE 0]

NewCycle(m) ==
    [state  |-> CloseState(m),
     own    |-> gap[m],
     frozen |-> FrozenPayloads(m),
     source |-> FrozenSources(m)]

\* A request that repeats a recorded key returns the recorded snapshot: no step.
Close(m, k) ==
    /\ MaySignOff(m, k)
    /\ cycles' = [cycles EXCEPT ![m] = Append(@, NewCycle(m))]
    /\ status' = [status EXCEPT ![m] = CloseState(m)]
    /\ acked' = [acked EXCEPT ![m] = Excepted(m)]
    /\ closeKeys' = closeKeys \cup {k}
    /\ UNCHANGED <<evidence, preacks, resolutions, overrides>>

\* The reopen event: it invalidates the snapshot and leaves the cycle as it is.
ReopenCycle(m) ==
    /\ Locked(m)
    /\ status' = [status EXCEPT ![m] = "reopened"]

Reopen(m) ==
    /\ ReopenCycle(m)
    /\ UNCHANGED <<evidence, cycles, preacks, acked, resolutions, closeKeys, overrides>>

-----------------------------------------------------------------------------
(* Review of the exceptions that the current close froze *)

Active(m, s) ==
    /\ status[m] = "closed_with_exceptions"
    /\ cycles[m][Len(cycles[m])].frozen[s] # 0
    /\ ~Resolved(m, Len(cycles[m]), s)

\* The acknowledgement row of a frozen exception, and the row that reverses it.
AddAcknowledgement(m, s) == acked' = [acked EXCEPT ![m] = @ \cup {s}]

CompensateAcknowledgement(m, s) == acked' = [acked EXCEPT ![m] = @ \ {s}]

AcknowledgeException(m, s) ==
    /\ Active(m, s)
    /\ s \notin acked[m]
    /\ AddAcknowledgement(m, s)
    /\ UNCHANGED <<evidence, status, cycles, preacks, resolutions, closeKeys, overrides>>

WithdrawAcknowledgement(m, s) ==
    /\ Active(m, s)
    /\ s \in acked[m]
    /\ CompensateAcknowledgement(m, s)
    /\ UNCHANGED <<evidence, status, cycles, preacks, resolutions, closeKeys, overrides>>

\* Any frozen exception of any cycle, whether or not it is already resolved.
ResolveException(m, c, s) ==
    /\ cycles[m][c].frozen[s] # 0
    /\ Len(resolutions) < MaxResolutions
    /\ resolutions' = Append(resolutions, [month |-> m, cycle |-> c,
                                           subject |-> s, reversed |-> FALSE])
    /\ UNCHANGED <<evidence, status, cycles, preacks, acked, closeKeys, overrides>>

ReverseResolution(i) ==
    /\ ~resolutions[i].reversed
    /\ resolutions' = [resolutions EXCEPT ![i].reversed = TRUE]
    /\ UNCHANGED <<evidence, status, cycles, preacks, acked, closeKeys, overrides>>

-----------------------------------------------------------------------------
(* Guarded writers *)

\* What the writers do to the evidence: edit a row of one month, restate its
\* balance assertion, post an amount (every later balance includes it), or move
\* a row with its amount to another month.
EditRow(m, r, v) ==
    /\ gap' = [gap EXCEPT ![m][r] = v]
    /\ UNCHANGED drift

AssertBalance(m, d) ==
    /\ drift' = [drift EXCEPT ![m] = d]
    /\ UNCHANGED gap

Post(m, a) ==
    /\ drift' = [n \in Months |-> IF n >= m THEN drift[n] + a ELSE drift[n]]
    /\ UNCHANGED gap

Redate(m, n, r, a) ==
    /\ m # n
    /\ gap[m][r] # 0
    /\ gap' = [gap EXCEPT ![m][r] = 0, ![n][r] = gap[m][r]]
    /\ drift' = [d \in Months |->
                   IF d >= m /\ d < n THEN drift[d] - a
                   ELSE IF d >= n /\ d < m THEN drift[d] + a ELSE drift[d]]

Mutation(ms) ==
    /\ \/ \E m \in Months : /\ ms = {m}
                            /\ \/ \E r \in Rows, v \in Versions \cup {0} : EditRow(m, r, v)
                               \/ \E d \in {0} \cup Amounts : AssertBalance(m, d)
                               \/ \E a \in Amounts : Post(m, a)
       \/ \E m, n \in Months : /\ ms = {m, n}
                               /\ \E r \in Rows, a \in Amounts : Redate(m, n, r, a)
    /\ \A m \in Months : drift'[m] \in -MaxDrift..MaxDrift

\* Defect: a trigger looks at one of the affected months.
TriggersOnOneMonth(ms, st) == \E m \in ms : st[m] \notin ClosedStates

\* The database triggers, evaluated against the status the statement runs under.
TriggersAllow(ms, st) == \A m \in ms : st[m] \notin ClosedStates

\* guard_months without override: a locked month raises PeriodLockedError.  The
\* triggers hold writers that reach the tables without the guard to the same rule.
Write(ms) ==
    /\ \A m \in ms : ~Locked(m)
    /\ TriggersAllow(ms, status)
    /\ Mutation(ms)
    /\ UNCHANGED <<status, cycles, preacks, acked, resolutions, closeKeys, overrides>>

\* guard_months with an audited override.  A month whose receipt under this key
\* exists is taken as done and is not reopened again; the triggers see it locked.
OverriddenMonths(k, ms) == {m \in ms : Locked(m) /\ <<k, m>> \notin overrides}

WriteWithOverride(k, ms) ==
    /\ \E m \in ms : Locked(m)
    /\ status' = [m \in Months |->
                    IF m \in OverriddenMonths(k, ms) THEN "reopened" ELSE status[m]]
    /\ overrides' = overrides \cup ({k} \X OverriddenMonths(k, ms))
    /\ TriggersAllow(ms, status')
    /\ Mutation(ms)
    /\ UNCHANGED <<cycles, preacks, acked, resolutions, closeKeys>>

-----------------------------------------------------------------------------
WriteSets == {{m, n} : m, n \in Months}

Review ==
    \/ \E m \in Months, s \in Subjects : AcknowledgePreclose(m, s)
    \/ \E i \in DOMAIN preacks : WithdrawPreclose(i)
    \/ \E m \in Months, s \in Subjects :
           AcknowledgeException(m, s) \/ WithdrawAcknowledgement(m, s)
    \/ \E m \in Months : \E c \in DOMAIN cycles[m] :
           \E s \in Subjects : ResolveException(m, c, s)
    \/ \E i \in DOMAIN resolutions : ReverseResolution(i)

Next ==
    \/ Review
    \/ \E m \in Months, k \in Keys : Close(m, k)
    \/ \E m \in Months : Reopen(m)
    \/ \E ms \in WriteSets : Write(ms)
    \/ \E ms \in WriteSets, k \in Keys : WriteWithOverride(k, ms)

Spec == Init /\ [][Next]_vars

-----------------------------------------------------------------------------
(* Safety *)

LastCycle(m) == cycles[m][Len(cycles[m])]

(* Every exception that a close froze, and nothing else, carries an          *)
(* acknowledgement of exactly that exception: same month, same subject, same *)
(* evidence, and never withdrawn, before the close or after it.              *)
FrozenAcknowledged ==
    \A m \in Months : \A c \in DOMAIN cycles[m] : \A s \in Subjects :
        LET e == cycles[m][c] IN
        IF e.frozen[s] = 0 THEN e.source[s] = 0
        ELSE /\ e.source[s] \in DOMAIN preacks
             /\ preacks[e.source[s]] = [month |-> m, subject |-> s,
                                        payload |-> e.frozen[s], withdrawn |-> FALSE]

(* A pre-close acknowledgement is consumed by one frozen exception of one    *)
(* cycle only: closing again after a reopen needs a fresh review.            *)
PreackUsedOnce ==
    \A m, n \in Months : \A c \in DOMAIN cycles[m], d \in DOMAIN cycles[n] :
        \A s, t \in Subjects :
            /\ cycles[m][c].source[s] # 0
            /\ cycles[m][c].source[s] = cycles[n][d].source[t]
            => m = n /\ c = d /\ s = t

(* Reviewing an exception twice, withdrawing and reviewing again never       *)
(* leaves two unused acknowledgements of the same exception, of which one    *)
(* would outlive the close.                                                  *)
OneCurrentPreack ==
    \A i, j \in DOMAIN preacks :
        /\ preacks[i] = preacks[j]
        /\ ~preacks[i].withdrawn
        /\ ~Consumed(i) /\ ~Consumed(j)
        => i = j

(* The current snapshot of a closed month describes the month: its state is  *)
(* the recorded one, clean exactly when nothing was frozen, and the rows it  *)
(* was taken from have not changed since.                                    *)
SnapshotDescribesMonth ==
    \A m \in Months : Locked(m) =>
        /\ cycles[m] # <<>>
        /\ LastCycle(m).state = status[m]
        /\ LastCycle(m).own = gap[m]
        /\ (status[m] = "clean_closed") <=> (\A s \in Subjects : LastCycle(m).frozen[s] = 0)

(* Closed cycles are append-only: no later close, reopen, override or review *)
(* rewrites what an earlier cycle froze.                                     *)
HistoryAppendOnly ==
    [][\A m \in Months : \A c \in DOMAIN cycles[m] :
           c \in DOMAIN cycles'[m] /\ cycles'[m][c] = cycles[m][c]]_vars

(* A close freezes every live exception as it is now, and every exception of *)
(* an earlier cycle that nobody resolved: reopening and closing again is no  *)
(* way to lose one, and a clean close means that none is left.               *)
CloseDropsNothing ==
    [][\A m \in Months : Len(cycles'[m]) > Len(cycles[m]) =>
         \A s \in Subjects :
           LET now == cycles'[m][Len(cycles'[m])].frozen[s] IN
           /\ Live(m, s) # 0 => now = Live(m, s)
           /\ \A c \in DOMAIN cycles[m] :
                /\ cycles[m][c].frozen[s] # 0
                /\ ~Resolved(m, c, s)
                /\ \A d \in DOMAIN cycles[m] : d > c => cycles[m][d].frozen[s] = 0
                => now # 0]_vars

(* The rows of a locked month change only in a transaction that reopens the  *)
(* month and records an override receipt for it.                             *)
LockedRowsNeedOverride ==
    [][\A m \in Months : gap'[m] # gap[m] =>
         /\ status'[m] \notin ClosedStates
         /\ Locked(m) => \E k \in Keys : <<k, m>> \in overrides' \ overrides]_vars

(* What every state of the close tables keeps together: a close may rely on   *)
(* its reviews and a reader on its snapshots, whatever reviews, withdrawals,  *)
(* closes, reopenings and overrides came before.  No part is inductive alone. *)
PolicyInv ==
    /\ TypeOK
    /\ FrozenAcknowledged
    /\ PreackUsedOnce
    /\ OneCurrentPreack
    /\ SnapshotDescribesMonth

(* The history that reports replay is complete: cycles are only added, none   *)
(* drops an exception that nobody resolved, and where rows of a closed month  *)
(* changed there is a reopening with its receipt.                             *)
HistoryKept == HistoryAppendOnly /\ CloseDropsNothing /\ LockedRowsNeedOverride

(* Read as sealed months and their rows, the policy is a month lock: the     *)
(* tables, keys and reviews add nothing a reader could mistake for a change  *)
(* of a sealed month.                                                        *)
Lock == INSTANCE MonthLock
            WITH Contents <- [Rows -> Int],
                 sealed <- {m \in Months : Locked(m)}, rows <- gap

ImplementsMonthLock == Lock!Spec
=============================================================================
