------------------------- MODULE ReconciliationProofs -------------------------
(* How far a month has come is what its statements say, rows are counted     *)
(* once, and rows and transactions know of each other: for any statements,   *)
(* rows, months, policies and receipts, in any order of the operations.      *)
EXTENDS Reconciliation, FiniteSetTheorems, WellFoundedInduction, TLAPS

Policy == [from : Months, kind : Kinds \cup {"unconfigured"}]
Line == [disposition : Dispositions, content : Contents,
         status : {"unmatched", "needs_review"} \cup Resolved,
         txn : Transactions \cup {NoTransaction}]
LinesOf(d) == [Rows[d] -> Line]

(* The table of lines with the rows tb for d, and with the review rv.        *)
With(d, tb) == [lines EXCEPT ![d] = tb]
ReviewedAs(d, rv) == [reviews EXCEPT ![d] = rv]

ActiveIn(d, tb) == {r \in Rows[d] : tb[r].disposition = "active"}
ContentsIn(d, tb) == {tb[r].content : r \in ActiveIn(d, tb)}

(* There is a policy that was in force before every month.                   *)
Seeded == Len(policies) >= 1 /\ \A m \in Months : policies[1].from <= m

(* A document without a review has no rows and is evidence of nothing.       *)
Untouched == \A d \in Docs : reviews[d].state = "none" =>
    links[d] = 0 /\ Active(d, lines) = {}

(* Every document has its rows.                                              *)
Tabled == lines = [d \in Docs |-> lines[d]]

Belongs(d) == links[d] # 0 => reviews[d].owned /\ reviews[d].period = links[d]

(* The rows of e are decided, and e decides something.                       *)
Cleared(e) == reviews[e].state = "approved" => \A r \in Active(e, lines) : Settled(lines[e][r])
Decisive(e) == \/ \E r \in Active(e, lines) : Settled(lines[e][r])
               \/ ZeroProof(e, lines, reviews)

Proven(m) ==
    /\ \A e \in Evidence(m) \ queued : Cleared(e)
    /\ \E e \in Evidence(m) : Decisive(e)

(* What a month says of itself is what its evidence says.                    *)
MonthHolds(m) ==
    /\ expectations[m].lifecycle \in {"received", "reviewed", "reconciled"} <=> Evidence(m) # {}
    /\ Evidence(m) # {} => expectations[m].requirement = "required"
    /\ expectations[m].lifecycle \in {"reviewed", "reconciled"} =>
          \E d \in Evidence(m) : reviews[d].state = "approved"
    /\ expectations[m].lifecycle = "reconciled" => Proven(m)

(* The rows tb of d name no row of another statement of the account.         *)
Fresh(d, rv, tb) == rv.owned => ContentsIn(d, tb) \cap Taken(d) = {}
Balanced(d, rv, tb) == rv.state = "approved" /\ d \in Checkable => ContentsIn(d, tb) = Printed[d]
RowsHold == \A d \in Docs : Fresh(d, reviews[d], lines[d]) /\ Balanced(d, reviews[d], lines[d])

StatementInv ==
    /\ TypeOK
    /\ Seeded
    /\ Tabled
    /\ Untouched
    /\ \A d \in Docs : Belongs(d)
    /\ \A m \in Months : MonthHolds(m)
    /\ RowsHold

-----------------------------------------------------------------------------
(* The kinds of steps *)

(* A month without evidence gets a requirement.                              *)
Asked(m, requirement) ==
    /\ m \notin locked /\ Evidence(m) = {}
    /\ expectations' = [expectations EXCEPT ![m] = Snapshot(requirement)]
    /\ UNCHANGED <<policies, links, staged, locked, ledgerVars>>

(* The rows tb are not reconciled.                                           *)
Open(d, tb) == \A r \in ActiveIn(d, tb) : tb[r].status \notin Resolved /\ tb[r].txn = NoTransaction

(* The document d goes from the month links[d], if any, to target, if any.   *)
Relinked(d, base, target) ==
    /\ links' = [links EXCEPT ![d] = target]
    /\ expectations' = IF target = 0 THEN Detach(base, d) ELSE AttachTo(Detach(base, d), target)
    /\ links[d] # 0 => links[d] \notin locked
    /\ target \notin locked

Corrected(d, rv, tb) ==
    /\ Correctable(d) /\ Open(d, tb) /\ Fresh(d, rv, tb)
    /\ rv.state = "pending"
    /\ reviews' = ReviewedAs(d, rv) /\ lines' = With(d, tb)
    /\ \/ /\ links' = links /\ expectations' = ReopenProjection(d)
          /\ links[d] # 0 => rv.owned /\ rv.period = links[d]
       \/ Relinked(d, ReopenProjection(d), 0)
       \/ \E target \in Months : /\ Relinked(d, ReopenProjection(d), target)
                                 /\ rv.owned /\ rv.period = target
    /\ UNCHANGED <<policies, queued, locked, ledgerVars>>

(* The first review of d.                                                    *)
Arrived(d, rv, tb) ==
    /\ reviews[d].state = "none" /\ Open(d, tb) /\ Fresh(d, rv, tb)
    /\ rv.state = "pending"
    /\ reviews' = ReviewedAs(d, rv) /\ lines' = With(d, tb)
    /\ \/ links' = links /\ expectations' = expectations
       \/ \E m \in Months \ locked :
             /\ links' = [links EXCEPT ![d] = m] /\ expectations' = AttachTo(expectations, m)
             /\ rv.owned /\ rv.period = m
    /\ UNCHANGED <<policies, queued, locked, ledgerVars>>

Approving(d, rv, tb, m) ==
    LET base == IF links[d] = 0 THEN AttachTo(expectations, m) ELSE expectations
    IN  /\ m \notin locked
        /\ links[d] \in {0, m}
        /\ \/ reviews[d].state = "none" /\ Open(d, tb)
           \/ reviews[d].state = "pending" /\ tb = lines[d] /\ rv.owned = reviews[d].owned
        /\ Fresh(d, rv, tb) /\ Balanced(d, rv, tb)
        /\ rv.state = "approved" /\ rv.owned /\ rv.period = m
        /\ rv.activity = "zero_activity" => ActiveIn(d, tb) = {}
        /\ reviews' = ReviewedAs(d, rv) /\ lines' = With(d, tb)
        /\ links' = [links EXCEPT ![d] = m]
        /\ expectations' =
              IF rv.activity = "zero_activity"
              THEN Synced(Reviewed(base, m), Evidence(m) \cup {d}, m, lines', reviews')
              ELSE Reviewed(base, m)
        /\ queued' = Enqueued(d, rv.activity # "zero_activity")
        /\ UNCHANGED <<policies, locked, ledgerVars>>

(* Rows of d are decided or put back, and its month follows.                 *)
Same(d, tb) == \A r \in Rows[d] : /\ tb[r].disposition = lines[d][r].disposition
                                  /\ tb[r].content = lines[d][r].content

Decided(d, tb) ==
    /\ reviews[d].period \notin locked /\ reviews[d].state # "none"
    /\ Same(d, tb) /\ lines' = With(d, tb)
    /\ expectations' = Synced(expectations, Evidence(links[d]), links[d], lines', reviews)
    /\ queued' \in {queued, queued \ {d}}
    /\ UNCHANGED <<policies, links, reviews, locked, audited>>

Undone(d, tb) ==
    /\ reviews[d].period \notin locked /\ reviews[d].state # "none"
    /\ Same(d, tb) /\ lines' = With(d, tb)
    /\ expectations' = IF links[d] # 0 /\ expectations[links[d]].lifecycle = "reconciled"
                       THEN [expectations EXCEPT ![links[d]].lifecycle = "reviewed"]
                       ELSE expectations
    /\ UNCHANGED <<policies, links, reviews, queued, locked, audited>>

-----------------------------------------------------------------------------
(* Rows *)

LEMMA RowsOfReplaced ==
    ASSUME TypeOK, NEW d \in Docs, NEW tb
    PROVE  /\ DOMAIN With(d, tb) = Docs
           /\ With(d, tb)[d] = tb
           /\ \A e \in Docs : e # d => With(d, tb)[e] = lines[e]
           /\ Active(d, With(d, tb)) = ActiveIn(d, tb)
           /\ ActiveContents(d, With(d, tb)) = ContentsIn(d, tb)
           /\ \A e \in Docs : e # d => /\ Active(e, With(d, tb)) = Active(e, lines)
                                       /\ ActiveContents(e, With(d, tb)) = ActiveContents(e, lines)
<1>1. /\ DOMAIN With(d, tb) = Docs
      /\ With(d, tb)[d] = tb
      /\ \A e \in Docs : e # d => With(d, tb)[e] = lines[e]
  BY DEF TypeOK, With
<1>2. /\ Active(d, With(d, tb)) = ActiveIn(d, tb)
      /\ \A e \in Docs : e # d => Active(e, With(d, tb)) = Active(e, lines)
  BY <1>1 DEF Active, ActiveIn
<1>3. ActiveContents(d, With(d, tb)) = ContentsIn(d, tb)
  BY <1>1, <1>2 DEF ActiveContents, ContentsIn
<1>4. \A e \in Docs : e # d => ActiveContents(e, With(d, tb)) = ActiveContents(e, lines)
  BY <1>1, <1>2 DEF ActiveContents
<1> QED BY <1>1, <1>2, <1>3, <1>4

LEMMA RowsOfDocument ==
    ASSUME NEW d
    PROVE  Active(d, lines) = ActiveIn(d, lines[d]) /\ ActiveContents(d, lines) = ContentsIn(d, lines[d])
  BY DEF Active, ActiveIn, ActiveContents, ContentsIn

LEMMA LinesAreLines == NoLine \in Line /\ \A c \in Contents : NewLine(c) \in Line
<1>1. (CHOOSE x \in Contents : TRUE) \in Contents
  BY StatementAssumption
<1> QED BY <1>1 DEF NewLine, NoLine, Line, Dispositions, Transactions

LEMMA StagedRows ==
    ASSUME NEW d \in Docs, NEW kept \in SUBSET Contents, IsFiniteSet(kept)
    PROVE  /\ StageLines(d, kept) \in LinesOf(d)
           /\ ContentsIn(d, StageLines(d, kept)) \subseteq kept
           /\ Open(d, StageLines(d, kept))
<1> DEFINE IsPlacing(f) == \A i, j \in DOMAIN f : f[i] = f[j] => i = j
           placed == CHOOSE f \in [1..Cardinality(kept) -> kept] : IsPlacing(f)
           tb == [r \in Rows[d] |-> IF r \in DOMAIN placed THEN NewLine(placed[r]) ELSE NoLine]
<1>1. \E f \in [1..Cardinality(kept) -> kept] : IsPlacing(f)
  BY FS_CardinalityType DEF ExistsBijection, Bijection, Injection, IsInjective
<1>2. placed \in [1..Cardinality(kept) -> kept]
  BY <1>1
<1>3. StageLines(d, kept) = tb
  BY DEF StageLines
<1> HIDE DEF placed
<1>4. \A r \in Rows[d] : \/ \E c \in kept : tb[r] = NewLine(c)
                         \/ tb[r] = NoLine
  BY <1>2
<1>5. tb = [r \in Rows[d] |-> tb[r]]
  OBVIOUS
<1>6. NoLine.disposition = "absent"
  BY DEF NoLine
<1> HIDE DEF tb
<1>7. tb \in LinesOf(d)
  <2>1. \A r \in Rows[d] : tb[r] \in Line
    BY <1>4, LinesAreLines
  <2> QED BY <1>5, <2>1 DEF LinesOf
<1>8. ASSUME NEW r \in ActiveIn(d, tb)
      PROVE  \E c \in kept : tb[r] = NewLine(c)
  BY <1>4, <1>6 DEF ActiveIn
<1>9. ContentsIn(d, tb) \subseteq kept
  <2>1. \A c : NewLine(c).content = c
    BY DEF NewLine
  <2> QED BY <1>8, <2>1 DEF ContentsIn
<1>10. Open(d, tb)
  <2>1. \A c : NewLine(c).status \notin Resolved /\ NewLine(c).txn = NoTransaction
    BY DEF NewLine, Resolved
  <2> QED BY <1>8, <2>1 DEF Open
<1> QED BY <1>3, <1>7, <1>9, <1>10

-----------------------------------------------------------------------------
(* Policies *)

EffectiveAt(ps, m) == {i \in 1..Len(ps) : ps[i].from <= m}

(* The version i of ps is the one in force in m.                             *)
InForce(ps, m, i) ==
    /\ i \in EffectiveAt(ps, m)
    /\ \A j \in EffectiveAt(ps, m) : \/ ps[j].from < ps[i].from
                                     \/ ps[j].from = ps[i].from /\ j <= i

LEMMA SomeInForce ==
    ASSUME NEW ps \in Seq(Policy), NEW m \in Months, Len(ps) >= 1, ps[1].from <= m
    PROVE  \E i : InForce(ps, m, i)
<1> DEFINE E == EffectiveAt(ps, m)
           F == {k \in Nat : \E i \in E : k = m - ps[i].from}
<1>0. m \in Nat /\ \A i \in 1..Len(ps) : ps[i].from \in Nat
  <2>1. \A i \in 1..Len(ps) : ps[i] \in Policy
    OBVIOUS
  <2> QED BY <2>1, StatementAssumption DEF Policy
<1>1. 1 \in E /\ E \subseteq 1..Len(ps) /\ Len(ps) \in Nat
  BY <1>0 DEF EffectiveAt
<1>2. \A i \in E : ps[i].from <= m
  BY DEF EffectiveAt
<1>3. F \subseteq Nat /\ F # {}
  <2>1. m - ps[1].from \in F
    BY <1>0, <1>1, <1>2
  <2> QED BY <2>1
<1>4. PICK k \in F : \A n \in F : ~ (<<n, k>> \in OpToRel(<, Nat))
  BY <1>3, WFMin, NatLessThanWellFounded
<1>5. \A n \in F : ~(n < k)
  BY <1>3, <1>4 DEF OpToRel
<1>6. PICK a \in E : k = m - ps[a].from
  BY <1>4
<1>7. \A j \in E : ps[j].from <= ps[a].from
  <2> SUFFICES ASSUME NEW j \in E PROVE ps[j].from <= ps[a].from
    OBVIOUS
  <2>1. m - ps[j].from \in F
    BY <1>0, <1>1, <1>2
  <2>2. ps[j].from \in Nat /\ ps[a].from \in Nat
    BY <1>0, <1>1
  <2>3. ~(m - ps[j].from < m - ps[a].from)
    BY <2>1, <1>5, <1>6
  <2> QED BY <2>2, <2>3, <1>0
<1> DEFINE G == {n \in Nat : \E i \in E : ps[i].from = ps[a].from /\ n = Len(ps) - i}
<1>8. G \subseteq Nat /\ G # {}
  <2>1. Len(ps) - a \in G
    BY <1>1, <1>6
  <2> QED BY <2>1
<1>9. PICK l \in G : \A n \in G : ~ (<<n, l>> \in OpToRel(<, Nat))
  BY <1>8, WFMin, NatLessThanWellFounded
<1>10. \A n \in G : ~(n < l)
  BY <1>8, <1>9 DEF OpToRel
<1>11. PICK i \in E : ps[i].from = ps[a].from /\ l = Len(ps) - i
  BY <1>9
<1>12. \A j \in E : ps[j].from < ps[i].from \/ (ps[j].from = ps[i].from /\ j <= i)
  <2> SUFFICES ASSUME NEW j \in E, ps[j].from = ps[i].from PROVE j <= i
    BY <1>0, <1>1, <1>7, <1>11
  <2>1. Len(ps) - j \in G
    BY <1>1, <1>11
  <2> QED BY <2>1, <1>10, <1>11, <1>1
<1> QED BY <1>12 DEF InForce

LEMMA OneInForce ==
    ASSUME NEW ps \in Seq(Policy), NEW m \in Months, NEW i, NEW j, InForce(ps, m, i), InForce(ps, m, j)
    PROVE  i = j
<1>1. i \in 1..Len(ps) /\ j \in 1..Len(ps) /\ Len(ps) \in Nat
  BY DEF InForce, EffectiveAt
<1>2. ps[i].from \in Nat /\ ps[j].from \in Nat
  <2>1. ps[i] \in Policy /\ ps[j] \in Policy
    BY <1>1
  <2> QED BY <2>1, StatementAssumption DEF Policy
<1> QED BY <1>1, <1>2 DEF InForce

Chosen(ps, m) == ps[CHOOSE i \in EffectiveAt(ps, m) : \A j \in EffectiveAt(ps, m) :
                       \/ ps[j].from < ps[i].from
                       \/ ps[j].from = ps[i].from /\ j <= i]

LEMMA ChosenIsInForce ==
    ASSUME NEW ps \in Seq(Policy), NEW m \in Months, Len(ps) >= 1, ps[1].from <= m
    PROVE  \E i : InForce(ps, m, i) /\ Chosen(ps, m) = ps[i]
<1> DEFINE i == CHOOSE x \in EffectiveAt(ps, m) : \A j \in EffectiveAt(ps, m) :
                       \/ ps[j].from < ps[x].from
                       \/ ps[j].from = ps[x].from /\ j <= x
<1>1. \E x \in EffectiveAt(ps, m) : \A j \in EffectiveAt(ps, m) :
                       \/ ps[j].from < ps[x].from
                       \/ ps[j].from = ps[x].from /\ j <= x
  BY SomeInForce DEF InForce
<1>2. InForce(ps, m, i)
  BY <1>1 DEF InForce
<1>3. Chosen(ps, m) = ps[i]
  BY DEF Chosen
<1> QED BY <1>2, <1>3

LEMMA PolicyForIsChosen == \A m : PolicyFor(m) = Chosen(policies, m)
  BY DEF PolicyFor, Chosen, EffectiveAt

LEMMA RequirementIsOne ==
    ASSUME TypeOK, Seeded, NEW m \in Months
    PROVE  RequirementFor(m) \in Requirements
<1>1. policies \in Seq(Policy) /\ Len(policies) >= 1 /\ policies[1].from <= m
  BY DEF TypeOK, Policy, Seeded
<1>2. PICK i : InForce(policies, m, i) /\ Chosen(policies, m) = policies[i]
  BY <1>1, ChosenIsInForce
<1>3. policies[i] \in Policy
  BY <1>1, <1>2 DEF InForce, EffectiveAt
<1>4. PolicyFor(m).kind \in Kinds \cup {"unconfigured"}
  BY <1>2, <1>3, PolicyForIsChosen DEF Policy
<1>5. PolicyFor(m).kind \in {"monthly", "annual", "no_statement", "unconfigured"}
  BY <1>4, StatementAssumption
<1> QED BY <1>5 DEF RequirementFor, Requirements

LEMMA PolicyKept ==
    ASSUME TypeOK, Seeded, NEW n \in Months, NEW kind, policies' = Append(policies, [from |-> n, kind |-> kind]),
           kind \in Kinds, NEW m \in Months, m < n
    PROVE  PolicyFor(m)' = PolicyFor(m)
<1>0. PICK ps : ps = policies'
  OBVIOUS
<1>1. policies \in Seq(Policy) /\ Len(policies) >= 1 /\ policies[1].from <= m
  BY DEF TypeOK, Policy, Seeded
<1>2. /\ ps \in Seq(Policy) /\ Len(ps) = Len(policies) + 1
      /\ \A i \in 1..Len(policies) : ps[i] = policies[i]
      /\ ps[Len(policies) + 1].from = n
  BY <1>0, <1>1 DEF Policy
<1>3. EffectiveAt(ps, m) = EffectiveAt(policies, m)
  BY <1>1, <1>2, StatementAssumption DEF EffectiveAt
<1>4. PICK i : InForce(policies, m, i) /\ Chosen(policies, m) = policies[i]
  BY <1>1, ChosenIsInForce
<1>5. PICK j : InForce(ps, m, j) /\ Chosen(ps, m) = ps[j]
  <2>1. ps[1].from <= m /\ Len(ps) >= 1
    BY <1>1, <1>2
  <2> QED BY <1>2, <2>1, ChosenIsInForce
<1>6. InForce(policies, m, j) /\ ps[j] = policies[j]
  <2>1. \A x \in EffectiveAt(policies, m) : ps[x] = policies[x]
    BY <1>2 DEF EffectiveAt
  <2> QED BY <1>3, <1>5, <2>1 DEF InForce
<1>7. i = j
  BY <1>1, <1>4, <1>6, OneInForce
<1>8. PolicyFor(m)' = Chosen(ps, m)
  BY <1>0 DEF PolicyFor, Chosen, EffectiveAt
<1> QED BY <1>4, <1>5, <1>6, <1>7, <1>8, PolicyForIsChosen

-----------------------------------------------------------------------------
(* Corrections *)

LEMMA ParametersAreTyped ==
    ASSUME StatementInv, NEW d \in Docs
    PROVE  /\ reviews[d] \in Review /\ links[d] \in Months \cup {0} /\ 0 \notin Months
           /\ lines[d] \in LinesOf(d) /\ With(d, lines[d]) = lines
           /\ locked \subseteq Months
<1>1. lines = [e \in Docs |-> lines[e]]
  BY DEF StatementInv, Tabled
<1>2. [lines EXCEPT ![d] = lines[d]] = lines
  BY <1>1
<1> QED BY <1>2, StatementAssumption DEF StatementInv, TypeOK, LinesOf, Line, With

LEMMA RowIsReplaced ==
    ASSUME StatementInv, NEW d \in Docs, NEW r \in Rows[d], NEW l \in Line
    PROVE  /\ [lines[d] EXCEPT ![r] = l] \in LinesOf(d)
           /\ [lines EXCEPT ![d][r] = l] = With(d, [lines[d] EXCEPT ![r] = l])
           /\ \A q \in Rows[d] : [lines[d] EXCEPT ![r] = l][q] = IF q = r THEN l ELSE lines[d][q]
<1>1. lines[d] \in [Rows[d] -> Line]
  BY ParametersAreTyped DEF LinesOf
<1> QED BY <1>1 DEF LinesOf, With

LEMMA ReopenedIsReview ==
    ASSUME StatementInv, NEW d \in Docs
    PROVE  /\ Reopened(d) = ReviewedAs(d, [reviews[d] EXCEPT !.state = "pending"])
           /\ [reviews[d] EXCEPT !.state = "pending"] \in Review
  BY ParametersAreTyped DEF Reopened, ReviewedAs, Review

(* A row that is open and collides with no other statement is put in.        *)
LEMMA RowIsOpenAndFresh ==
    ASSUME StatementInv, NEW d \in Docs, NEW r \in Rows[d], NEW l \in Line, Correctable(d),
           l.disposition = "active" =>
              /\ l.status \notin Resolved /\ l.txn = NoTransaction
              /\ reviews[d].owned => l.content \notin Taken(d)
    PROVE  /\ Open(d, [lines[d] EXCEPT ![r] = l])
           /\ Fresh(d, [reviews[d] EXCEPT !.state = "pending"], [lines[d] EXCEPT ![r] = l])
<1> DEFINE tb == [lines[d] EXCEPT ![r] = l]
<1>1. \A q \in Rows[d] : tb[q] = IF q = r THEN l ELSE lines[d][q]
  <2>1. lines[d] \in [Rows[d] -> Line]
    BY ParametersAreTyped DEF LinesOf
  <2> QED BY <2>1
<1>2. \A q \in ActiveIn(d, lines[d]) : lines[d][q].status \notin Resolved /\ lines[d][q].txn = NoTransaction
  BY DEF Correctable, Active, ActiveIn
<1> HIDE DEF tb
<1>3. \A q \in ActiveIn(d, tb) : \/ q = r /\ tb[q] = l /\ l.disposition = "active"
                                 \/ q \in ActiveIn(d, lines[d]) /\ tb[q] = lines[d][q]
  BY <1>1 DEF ActiveIn
<1>4. Open(d, tb)
  BY <1>2, <1>3 DEF Open
<1>5. ASSUME reviews[d].owned
      PROVE  ContentsIn(d, tb) \cap Taken(d) = {}
  <2>1. ContentsIn(d, lines[d]) \cap Taken(d) = {}
    BY <1>5 DEF StatementInv, RowsHold, Fresh
  <2>2. \A q \in ActiveIn(d, tb) : tb[q].content \notin Taken(d)
    BY <1>3, <1>5, <2>1 DEF ContentsIn
  <2> QED BY <2>2 DEF ContentsIn
<1>6. [reviews[d] EXCEPT !.state = "pending"].owned = reviews[d].owned
  BY ParametersAreTyped DEF Review
<1> QED BY <1>4, <1>5, <1>6 DEF Fresh, tb

(* _sync_expectation_identity relinks a document or leaves its link alone.   *)
LEMMA IdentityRelinks ==
    ASSUME StatementInv, NEW d \in Docs, NEW table, SyncIdentity(d, ReopenProjection(d), table)
    PROVE  \/ links' = links /\ expectations' = ReopenProjection(d)
           \/ Relinked(d, ReopenProjection(d), 0)
           \/ \E target \in Months : /\ Relinked(d, ReopenProjection(d), target)
                                     /\ reviews[d].owned /\ reviews[d].period = target
<1> DEFINE m == Identity(d, reviews[d], table)
           target == Attachable(d, m)
<1>0. reviews[d].period \in Months /\ 0 \notin locked /\ 0 \notin Months
  BY ParametersAreTyped DEF Review
<1>1. CASE m = 0
  <2>1. Relinked(d, ReopenProjection(d), 0)
    BY <1>0, <1>1 DEF SyncIdentity, Relinked
  <2> QED BY <2>1
<1>2. CASE m # 0 /\ links[d] = 0 /\ target # 0
  <2>1. target = reviews[d].period /\ reviews[d].owned /\ target \in Months
    BY <1>0, <1>2 DEF Attachable, Identity
  <2>2. Detach(ReopenProjection(d), d) = ReopenProjection(d)
    BY <1>2 DEF Detach
  <2>3. Relinked(d, ReopenProjection(d), target)
    <3>1. /\ target \notin locked /\ links' = [links EXCEPT ![d] = target]
          /\ expectations' = AttachTo(ReopenProjection(d), target)
      BY <1>2 DEF SyncIdentity
    <3> QED BY <1>2, <2>2, <3>1 DEF Relinked
  <2> QED BY <2>1, <2>3
<1>3. CASE m # 0 /\ ~(links[d] = 0 /\ target # 0)
  BY <1>3 DEF SyncIdentity
<1> QED BY <1>1, <1>2, <1>3

(* A row is put in, and the document keeps its identity.                     *)
LEMMA RowIsCorrected ==
    ASSUME StatementInv, NEW d \in Docs, NEW r \in Rows[d], NEW l \in Line, Correctable(d),
           l.disposition = "active" =>
              /\ l.status \notin Resolved /\ l.txn = NoTransaction
              /\ reviews[d].owned => l.content \notin Taken(d),
           lines' = [lines EXCEPT ![d][r] = l], reviews' = Reopened(d),
           \/ links' = links /\ expectations' = ReopenProjection(d)
           \/ \E table : SyncIdentity(d, ReopenProjection(d), table),
           UNCHANGED <<policies, queued, locked, ledgerVars>>
    PROVE  \E rv \in Review, tb \in LinesOf(d) : Corrected(d, rv, tb)
<1> DEFINE rv == [reviews[d] EXCEPT !.state = "pending"]
           tb == [lines[d] EXCEPT ![r] = l]
<1>1. reviews' = ReviewedAs(d, rv) /\ rv \in Review
  BY ReopenedIsReview
<1>2. lines' = With(d, tb) /\ tb \in LinesOf(d)
  BY RowIsReplaced
<1>3. Open(d, tb) /\ Fresh(d, rv, tb)
  BY RowIsOpenAndFresh
<1>4. rv.state = "pending" /\ rv.owned = reviews[d].owned /\ rv.period = reviews[d].period
  BY ParametersAreTyped DEF Review
<1> HIDE DEF rv, tb
<1>5. \/ links' = links /\ expectations' = ReopenProjection(d)
      \/ Relinked(d, ReopenProjection(d), 0)
      \/ \E target \in Months : /\ Relinked(d, ReopenProjection(d), target)
                                /\ rv.owned /\ rv.period = target
  BY <1>4, IdentityRelinks
<1>6. links[d] # 0 => rv.owned /\ rv.period = links[d]
  BY <1>4 DEF StatementInv, Belongs
<1>7. Corrected(d, rv, tb)
  BY <1>1, <1>2, <1>3, <1>4, <1>5, <1>6 DEF Corrected
<1> QED BY <1>1, <1>2, <1>7

LEMMA NoCollision ==
    ASSUME NEW d \in Docs, NEW c, reviews[d].owned, ~Collides(d, c)
    PROVE  c \notin Taken(d)
<1>1. \A e \in Docs \ {d} : reviews[e].owned => c \notin ActiveContents(e, lines)
  <2> SUFFICES ASSUME NEW e \in Docs \ {d}, reviews[e].owned, c \in ActiveContents(e, lines) PROVE FALSE
    OBVIOUS
  <2>1. reviews[e].owned = reviews[d].owned \/ (reviews[e].owned /\ reviews[d].owned)
    OBVIOUS
  <2> QED BY <2>1 DEF Collides
<1> QED BY <1>1 DEF Taken

LEMMA CorrectionOfRow ==
    ASSUME StatementInv, NEW d \in Docs, NEW r \in Rows[d], NEW c \in Sayable[d],
           correct_row(d, r, c) \/ add_row(d, r, c), UNCHANGED ledgerVars
    PROVE  \E rv \in Review, tb \in LinesOf(d) : Corrected(d, rv, tb)
<1>1. c \in Contents
  BY StatementAssumption
<1>2. NewLine(c) \in Line
  BY <1>1, LinesAreLines
<1>3. /\ NewLine(c).status \notin Resolved /\ NewLine(c).txn = NoTransaction
      /\ NewLine(c).content = c
  BY DEF NewLine, Resolved
<1>4. Correctable(d) /\ (reviews[d].owned => c \notin Taken(d))
  BY NoCollision DEF correct_row, add_row
<1>5. lines' = [lines EXCEPT ![d][r] = NewLine(c)] /\ reviews' = Reopened(d)
  BY DEF correct_row, add_row
<1>6. /\ \/ links' = links /\ expectations' = ReopenProjection(d)
         \/ \E table : SyncIdentity(d, ReopenProjection(d), table)
      /\ UNCHANGED <<policies, queued, locked, ledgerVars>>
  BY DEF correct_row, add_row
<1> QED BY <1>2, <1>3, <1>4, <1>5, <1>6, RowIsCorrected

LEMMA CorrectionOfDisposition ==
    ASSUME StatementInv, NEW d \in Docs, NEW r \in Rows[d],
           exclude_row(d, r) \/ restore_row(d, r), UNCHANGED ledgerVars
    PROVE  \E rv \in Review, tb \in LinesOf(d) : Corrected(d, rv, tb)
<1> DEFINE c == lines[d][r].content
<1>1. c \in Contents
  BY ParametersAreTyped DEF LinesOf, Line
<1>2. PICK x \in {"active", "excluded"} :
         /\ SetDisposition(d, r, x)
         /\ x = "active" => ~Collides(d, c)
  BY DEF exclude_row, restore_row
<1> DEFINE l == [NewLine(c) EXCEPT !.disposition = x]
<1>3. l \in Line /\ l.status \notin Resolved /\ l.txn = NoTransaction /\ l.content = c /\ l.disposition = x
  <2>1. NewLine(c) \in Line
    BY <1>1, LinesAreLines
  <2> QED BY <1>1, <2>1 DEF NewLine, Line, Resolved, Dispositions
<1>4. /\ Correctable(d) /\ reviews' = Reopened(d)
      /\ lines' = [lines EXCEPT ![d][r] = l]
      /\ \E table : SyncIdentity(d, ReopenProjection(d), table)
      /\ UNCHANGED <<policies, queued, locked, ledgerVars>>
  BY <1>2 DEF SetDisposition
<1>5. x = "active" => (reviews[d].owned => c \notin Taken(d))
  BY <1>2, NoCollision
<1> HIDE DEF l, c
<1> QED BY <1>3, <1>4, <1>5, RowIsCorrected

LEMMA CorrectionOfSource ==
    ASSUME StatementInv, NEW d \in Docs, archive_source(d), UNCHANGED ledgerVars
    PROVE  \E rv \in Review, tb \in LinesOf(d) : Corrected(d, rv, tb)
<1> DEFINE rv == [reviews[d] EXCEPT !.state = "pending"]
           tb == [r \in Rows[d] |-> IF lines[d][r].disposition = "active"
                    THEN [lines[d][r] EXCEPT !.disposition = "excluded", !.status = "unmatched"]
                    ELSE lines[d][r]]
<1>1. reviews' = ReviewedAs(d, rv) /\ rv \in Review /\ rv.state = "pending"
  BY ReopenedIsReview, ParametersAreTyped DEF archive_source, Review
<1>2. lines' = With(d, tb)
  BY DEF archive_source, With
<1>3. \A r \in Rows[d] : lines[d][r] \in Line
  BY ParametersAreTyped DEF LinesOf
<1>4. \A r \in Rows[d] : tb[r] \in Line /\ tb[r].disposition # "active"
  BY <1>3 DEF Line, Dispositions
<1>5. tb \in LinesOf(d)
  BY <1>4 DEF LinesOf
<1> HIDE DEF rv, tb
<1>6. ActiveIn(d, tb) = {}
  BY <1>4 DEF ActiveIn
<1>7. Open(d, tb) /\ Fresh(d, rv, tb)
  BY <1>6 DEF Open, Fresh, ContentsIn
<1>8. Relinked(d, ReopenProjection(d), 0)
  BY ParametersAreTyped DEF archive_source, Relinked
<1>9. Corrected(d, rv, tb)
  BY <1>1, <1>2, <1>7, <1>8 DEF Corrected, archive_source
<1> QED BY <1>1, <1>5, <1>9

(* Rows that another statement has are excluded when the account is known.   *)
LEMMA ResolvedRows ==
    ASSUME StatementInv, NEW d \in Docs
    PROVE  /\ ResolveAccount(d) \in LinesOf(d)
           /\ \A r \in ActiveIn(d, ResolveAccount(d)) :
                 /\ r \in ActiveIn(d, lines[d]) /\ ResolveAccount(d)[r] = lines[d][r]
                 /\ reviews[d].owned \/ lines[d][r].content \notin Taken(d)
<1> DEFINE tb == ResolveAccount(d)
<1>1. \A r \in Rows[d] : lines[d][r] \in Line
  BY ParametersAreTyped DEF LinesOf
<1>2. /\ tb = [r \in Rows[d] |-> tb[r]]
      /\ \A r \in Rows[d] :
            tb[r] = IF ~reviews[d].owned /\ lines[d][r].disposition = "active"
                       /\ lines[d][r].content \in Taken(d)
                    THEN [lines[d][r] EXCEPT !.disposition = "excluded"] ELSE lines[d][r]
  BY DEF ResolveAccount
<1> HIDE DEF tb
<1>3. \A r \in Rows[d] : [lines[d][r] EXCEPT !.disposition = "excluded"] \in Line
  BY <1>1 DEF Line, Dispositions
<1>4. \A r \in Rows[d] : [lines[d][r] EXCEPT !.disposition = "excluded"].disposition # "active"
  BY <1>1 DEF Line
<1>5. \A r \in Rows[d] : tb[r] \in Line
  BY <1>1, <1>2, <1>3
<1>6. tb \in LinesOf(d)
  BY <1>2, <1>5 DEF LinesOf
<1>7. ASSUME NEW r \in ActiveIn(d, tb)
      PROVE  /\ r \in ActiveIn(d, lines[d]) /\ tb[r] = lines[d][r]
             /\ reviews[d].owned \/ lines[d][r].content \notin Taken(d)
  <2>1. r \in Rows[d] /\ tb[r].disposition = "active"
    BY DEF ActiveIn
  <2> QED BY <1>2, <1>4, <2>1 DEF ActiveIn
<1> QED BY <1>6, <1>7 DEF tb

LEMMA CorrectionOfMetadata ==
    ASSUME StatementInv, NEW d \in Docs, NEW account \in BOOLEAN, NEW m \in Months,
           NEW activity \in Activities, update_metadata(d, account, m, activity), UNCHANGED ledgerVars
    PROVE  \E rv \in Review, tb \in LinesOf(d) : Corrected(d, rv, tb)
<1> DEFINE rv == [reviews[d] EXCEPT !.state = "pending", !.owned = @ \/ account,
                                    !.period = m, !.activity = activity]
           tb == IF account THEN ResolveAccount(d) ELSE lines[d]
           table == IF account THEN [lines EXCEPT ![d] = ResolveAccount(d)] ELSE lines
           detached == links[d] # 0 /\ Moves(d, rv)
           base == IF detached THEN Detach(ReopenProjection(d), d) ELSE ReopenProjection(d)
           target == IF links[d] = 0 \/ detached THEN Attachable(d, Identity(d, rv, table)) ELSE 0
<1>1. /\ rv \in Review /\ rv.state = "pending" /\ rv.period = m
      /\ rv.owned <=> (reviews[d].owned \/ account)
  <2>1. activity \in {"transactions", "zero_activity", "unknown"}
    BY StatementAssumption
  <2> QED BY <2>1, ParametersAreTyped DEF Review
<1>2. tb \in LinesOf(d) /\ lines' = With(d, tb)
  <2>1. lines' = IF account THEN [lines EXCEPT ![d] = ResolveAccount(d)] ELSE lines
    BY DEF update_metadata
  <2> QED BY <2>1, ResolvedRows, ParametersAreTyped DEF With
<1>3. /\ Correctable(d) /\ m \notin locked /\ reviews' = ReviewedAs(d, rv)
      /\ detached => links[d] \notin locked
      /\ links' = [links EXCEPT ![d] = IF target # 0 THEN target ELSE IF detached THEN 0 ELSE @]
      /\ expectations' = IF target # 0 THEN AttachTo(base, target) ELSE base
      /\ UNCHANGED <<policies, queued, locked, ledgerVars>>
  BY DEF update_metadata, ReviewedAs
<1>4. target # 0 => target = m /\ rv.owned
  <2>1. Identity(d, rv, table) # 0 => Identity(d, rv, table) = rv.period /\ rv.owned
    BY DEF Identity
  <2>2. Attachable(d, Identity(d, rv, table)) # 0 =>
           /\ Attachable(d, Identity(d, rv, table)) = Identity(d, rv, table)
           /\ Identity(d, rv, table) # 0
    BY DEF Attachable
  <2> HIDE DEF rv, table
  <2> QED BY <1>1, <2>1, <2>2
<1> HIDE DEF target, table
<1>5. \A r \in ActiveIn(d, tb) : /\ r \in ActiveIn(d, lines[d]) /\ tb[r] = lines[d][r]
                                 /\ rv.owned => reviews[d].owned \/ tb[r].content \notin Taken(d)
  <2>1. CASE account
    BY <2>1, ResolvedRows
  <2>2. CASE ~account
    BY <1>1, <2>2
  <2> QED BY <2>1, <2>2
<1>6. Moves(d, rv) <=> rv.owned # reviews[d].owned \/ rv.period # reviews[d].period
  BY DEF Moves
<1> HIDE DEF rv, tb
<1>7. Open(d, tb)
  BY <1>3, <1>5 DEF Open, Correctable, Active, ActiveIn
<1>8. Fresh(d, rv, tb)
  <2> SUFFICES ASSUME rv.owned, NEW r \in ActiveIn(d, tb) PROVE tb[r].content \notin Taken(d)
    BY DEF Fresh, ContentsIn
  <2>1. CASE reviews[d].owned
    <3>1. ContentsIn(d, lines[d]) \cap Taken(d) = {}
      BY <2>1 DEF StatementInv, RowsHold, Fresh
    <3> QED BY <1>5, <3>1 DEF ContentsIn
  <2> QED BY <1>5, <2>1
<1>9. \/ /\ links' = links /\ expectations' = ReopenProjection(d)
         /\ links[d] # 0 => rv.owned /\ rv.period = links[d]
      \/ Relinked(d, ReopenProjection(d), 0)
      \/ \E t \in Months : Relinked(d, ReopenProjection(d), t) /\ rv.owned /\ rv.period = t
  <2>0. /\ 0 \notin locked /\ links \in [Docs -> Months \cup {0}]
        /\ links[d] = 0 => Detach(ReopenProjection(d), d) = ReopenProjection(d)
    BY ParametersAreTyped DEF Detach, StatementInv, TypeOK
  <2>1. CASE target # 0
    <3>1. target = m /\ rv.owned /\ (links[d] = 0 \/ detached)
      BY <1>4, <2>1 DEF target
    <3>2. Relinked(d, ReopenProjection(d), m)
      BY <1>3, <2>0, <2>1, <3>1 DEF Relinked
    <3> QED BY <1>1, <3>1, <3>2
  <2>2. CASE target = 0 /\ detached
    BY <1>3, <2>0, <2>2 DEF Relinked
  <2>3. CASE target = 0 /\ ~detached
    <3>1. links' = links /\ expectations' = ReopenProjection(d)
      BY <1>3, <2>0, <2>3
    <3>2. links[d] # 0 => ~Moves(d, rv)
      BY <2>3
    <3>3. links[d] # 0 => reviews[d].owned /\ reviews[d].period = links[d]
      BY DEF StatementInv, Belongs
    <3> QED BY <1>1, <1>6, <3>1, <3>2, <3>3
  <2> QED BY <2>1, <2>2, <2>3
<1>10. Corrected(d, rv, tb)
  BY <1>1, <1>3, <1>2, <1>7, <1>8, <1>9 DEF Corrected
<1> QED BY <1>1, <1>2, <1>10

-----------------------------------------------------------------------------
(* Arrivals and approvals *)

LEMMA ArrivalOrApproval ==
    ASSUME StatementInv, NEW d \in Docs, NEW m \in Months, NEW owned \in BOOLEAN, NEW zero \in BOOLEAN,
           NEW clean \in BOOLEAN, NEW read \in Readings[d],
           extract_statement(d, owned, m, read, zero, clean), UNCHANGED ledgerVars
    PROVE  \E rv \in Review, tb \in LinesOf(d) :
              Arrived(d, rv, tb) \/ Approving(d, rv, tb, m)
<1> DEFINE kept == IF owned THEN read \ Taken(d) ELSE read
           review == NewReview(owned, m, read, zero)
           tb == StageLines(d, kept)
           table == [lines EXCEPT ![d] = StageLines(d, kept)]
           linked == Attachable(d, Identity(d, review, table))
           attached == owned /\ ~ExactReexport(d, m, read) /\ linked # 0
           approved == attached /\ clean /\ d \in Checkable /\ ~HardBlocked(d, review, table)
           rv == [review EXCEPT !.state = IF approved THEN "approved" ELSE "pending"]
           received == IF attached THEN AttachTo(expectations, m) ELSE expectations
           docs == Evidence(m) \cup {d}
<1>1. read \in SUBSET Contents /\ IsFiniteSet(read) /\ kept \in SUBSET Contents /\ IsFiniteSet(kept)
  <2>1. read \in SUBSET Contents /\ IsFiniteSet(read)
    BY StatementAssumption
  <2>2. IsFiniteSet(read \ Taken(d))
    BY <2>1, FS_Difference
  <2> QED BY <2>1, <2>2
<1>2. /\ tb \in LinesOf(d) /\ ContentsIn(d, tb) \subseteq kept /\ Open(d, tb)
  BY <1>1, StagedRows
<1>3. review \in Review /\ review.owned = owned /\ review.period = m
  BY DEF NewReview, Review
<1>4. /\ rv \in Review /\ rv.owned = owned /\ rv.period = m /\ rv.activity = review.activity
      /\ rv.state = IF approved THEN "approved" ELSE "pending"
  BY <1>3 DEF Review
<1>5. Fresh(d, rv, tb)
  BY <1>2, <1>4 DEF Fresh
<1>6. table = With(d, tb)
  BY DEF With
<1>7. /\ reviews[d].state = "none" /\ m \notin locked /\ links[d] = 0
      /\ reviews' = ReviewedAs(d, rv)
      /\ lines' = table
      /\ links' = [links EXCEPT ![d] = IF attached THEN m ELSE 0]
      /\ expectations' = IF ~approved THEN received
                         ELSE IF review.activity = "zero_activity"
                              THEN Synced(Reviewed(received, m), docs, m, table, reviews')
                              ELSE Reviewed(received, m)
      /\ queued' = Enqueued(d, approved /\ review.activity # "zero_activity")
      /\ UNCHANGED <<policies, locked, ledgerVars>>
  BY DEF extract_statement, ReviewedAs, StatementInv, Untouched
<1>8. /\ Active(d, table) = ActiveIn(d, tb) /\ ActiveContents(d, table) = ContentsIn(d, tb)
  BY <1>6, RowsOfReplaced DEF StatementInv
<1> HIDE DEF rv, tb, table, review, kept, linked, attached
<1>9. CASE ~approved
  <2>1. queued' = queued /\ lines' = With(d, tb) /\ rv.state = "pending"
    BY <1>4, <1>6, <1>7, <1>9 DEF Enqueued
  <2>2. \/ links' = links /\ expectations' = expectations
        \/ \E n \in Months \ locked :
             /\ links' = [links EXCEPT ![d] = n] /\ expectations' = AttachTo(expectations, n)
             /\ rv.owned /\ rv.period = n
    <3>1. CASE attached
      <4>1. rv.owned /\ rv.period = m
        BY <1>4, <3>1 DEF attached
      <4> QED BY <1>7, <1>9, <3>1, <4>1
    <3>2. CASE ~attached
      <4>1. links \in [Docs -> Months \cup {0}]
        BY DEF StatementInv, TypeOK
      <4> QED BY <1>7, <1>9, <3>2, <4>1
    <3> QED BY <3>1, <3>2
  <2>3. Arrived(d, rv, tb)
    BY <1>2, <1>5, <1>7, <2>1, <2>2 DEF Arrived
  <2> QED BY <1>2, <1>4, <2>3
<1>10. CASE approved
  <2>1. attached /\ ~HardBlocked(d, review, table)
    BY <1>10
  <2>2. rv.state = "approved" /\ rv.owned /\ rv.period = m
    BY <1>4, <1>10, <2>1 DEF attached
  <2>3. /\ rv.activity = "zero_activity" => ActiveIn(d, tb) = {}
        /\ Balanced(d, rv, tb)
    BY <1>4, <1>8, <2>1 DEF HardBlocked, Balanced
  <2>4. links' = [links EXCEPT ![d] = m] /\ received = AttachTo(expectations, m)
    BY <1>7, <2>1
  <2>5. expectations' = IF rv.activity = "zero_activity"
                        THEN Synced(Reviewed(AttachTo(expectations, m), m), Evidence(m) \cup {d}, m, lines', reviews')
                        ELSE Reviewed(AttachTo(expectations, m), m)
    BY <1>4, <1>7, <1>10, <2>4
  <2>6. queued' = Enqueued(d, rv.activity # "zero_activity")
    BY <1>4, <1>7, <1>10
  <2>7. lines' = With(d, tb)
    BY <1>6, <1>7
  <2>8. Approving(d, rv, tb, m)
    BY <1>2, <1>5, <1>7, <2>2, <2>3, <2>4, <2>5, <2>6, <2>7 DEF Approving
  <2> QED BY <1>2, <1>4, <2>8
<1> QED BY <1>9, <1>10

LEMMA ApprovalIsApproval ==
    ASSUME StatementInv, NEW d \in Docs, approve(d), UNCHANGED ledgerVars
    PROVE  \E m \in Months, rv \in Review, tb \in LinesOf(d) : Approving(d, rv, tb, m)
<1> DEFINE rv == [reviews[d] EXCEPT !.state = "approved"]
           tb == lines[d]
           target == IF links[d] # 0 THEN links[d] ELSE Attachable(d, Identity(d, reviews[d], lines))
           base == IF links[d] = 0 THEN AttachTo(expectations, target) ELSE expectations
<1>1. /\ rv \in Review /\ rv.state = "approved" /\ rv.owned = reviews[d].owned
      /\ rv.period = reviews[d].period /\ rv.activity = reviews[d].activity
      /\ reviews[d].period \in Months
  BY ParametersAreTyped DEF Review
<1>2. tb \in LinesOf(d) /\ With(d, tb) = lines
  BY ParametersAreTyped
<1>3. /\ reviews[d].state = "pending" /\ reviews[d].period \notin locked
      /\ ~HardBlocked(d, reviews[d], lines) /\ target # 0
      /\ reviews' = ReviewedAs(d, rv)
      /\ links' = [links EXCEPT ![d] = target]
      /\ expectations' = IF reviews[d].activity = "zero_activity"
                         THEN Synced(Reviewed(base, target), Evidence(target) \cup {d}, target, lines, reviews')
                         ELSE Reviewed(base, target)
      /\ queued' = Enqueued(d, reviews[d].activity # "zero_activity")
      /\ UNCHANGED <<policies, lines, locked, ledgerVars>>
  BY DEF approve, ReviewedAs
<1>4. target = reviews[d].period /\ reviews[d].owned
  <2>1. links[d] # 0 => reviews[d].owned /\ reviews[d].period = links[d]
    BY DEF StatementInv, Belongs
  <2>2. links[d] = 0 => target = reviews[d].period
    BY <1>3 DEF Attachable, Identity
  <2> QED BY <1>3, <2>1, <2>2 DEF HardBlocked
<1> HIDE DEF target
<1>5. links[d] \in {0, target}
  BY <1>4 DEF StatementInv, Belongs
<1>6. Fresh(d, rv, tb)
  BY <1>1 DEF StatementInv, RowsHold, Fresh
<1>7. /\ rv.activity = "zero_activity" => ActiveIn(d, tb) = {}
      /\ Balanced(d, rv, tb)
  BY <1>1, <1>3, RowsOfDocument DEF HardBlocked, Balanced
<1> HIDE DEF rv, tb
<1>8. lines' = With(d, tb)
  BY <1>2, <1>3
<1>9. expectations' = IF rv.activity = "zero_activity"
                      THEN Synced(Reviewed(base, target), Evidence(target) \cup {d}, target, lines', reviews')
                      ELSE Reviewed(base, target)
  BY <1>1, <1>3
<1>10. Approving(d, rv, tb, target)
  <2>1. tb = lines[d]
    BY DEF tb
  <2> QED BY <1>1, <1>3, <1>4, <1>5, <1>6, <1>7, <1>8, <1>9, <2>1 DEF Approving
<1> QED BY <1>1, <1>2, <1>4, <1>10

-----------------------------------------------------------------------------
(* Decisions about rows *)

LedgerStates == [Transactions -> {"none", "uncleared", "cleared"}]
Statuses == {"unmatched", "needs_review"} \cup Resolved

(* What is set on a row by the operator.                                     *)
Set(d, r, status, t) ==
    [lines[d] EXCEPT ![r] = [lines[d][r] EXCEPT !.status = status, !.txn = t]]

LEMMA MatchIsSet ==
    ASSUME StatementInv, NEW d \in Docs, NEW r \in Active(d, lines), NEW status \in Statuses,
           NEW t \in Transactions \cup {NoTransaction}
    PROVE  /\ SetMatch(d, r, status, t) = With(d, Set(d, r, status, t))
           /\ Set(d, r, status, t) \in LinesOf(d) /\ Same(d, Set(d, r, status, t))
           /\ Set(d, r, status, t)[r].status = status /\ Set(d, r, status, t)[r].txn = t
           /\ \A q \in Rows[d] : q # r => Set(d, r, status, t)[q] = lines[d][q]
<1> DEFINE l == [lines[d][r] EXCEPT !.status = status, !.txn = t]
           tb == [lines[d] EXCEPT ![r] = l]
<1>1. r \in Rows[d] /\ lines[d][r].disposition = "active" /\ lines[d] \in [Rows[d] -> Line]
  BY ParametersAreTyped DEF Active, LinesOf
<1>2. lines[d][r] \in Line
  BY <1>1
<1>3. /\ l \in Line /\ l.status = status /\ l.txn = t /\ l.disposition = "active"
      /\ l.content = lines[d][r].content
  BY <1>1, <1>2 DEF Line, Statuses
<1>4. SetMatch(d, r, status, t) = With(d, tb)
  <2>1. DOMAIN lines = Docs /\ DOMAIN lines[d] = Rows[d]
    BY <1>1 DEF StatementInv, TypeOK
  <2>2. [lines EXCEPT ![d][r].status = status]
           = [lines EXCEPT ![d] = [lines[d] EXCEPT ![r] = [lines[d][r] EXCEPT !.status = status]]]
    OBVIOUS
  <2>3. [[lines EXCEPT ![d] = [lines[d] EXCEPT ![r] = [lines[d][r] EXCEPT !.status = status]]] EXCEPT ![d][r].txn = t]
           = [lines EXCEPT ![d] = [lines[d] EXCEPT ![r] = [[lines[d][r] EXCEPT !.status = status] EXCEPT !.txn = t]]]
    BY <1>1, <2>1
  <2> QED BY <1>1, <1>2, <2>1, <2>2, <2>3 DEF SetMatch, With
<1> HIDE DEF l
<1>5. \A q \in Rows[d] : tb[q] = IF q = r THEN l ELSE lines[d][q]
  BY <1>1
<1>6. tb \in LinesOf(d)
  BY <1>1, <1>3 DEF LinesOf
<1> HIDE DEF tb
<1>7. Same(d, tb)
  BY <1>1, <1>3, <1>5 DEF Same
<1>8. tb = Set(d, r, status, t)
  BY DEF tb, l, Set
<1> QED BY <1>1, <1>3, <1>4, <1>5, <1>6, <1>7, <1>8

(* Rows that a job leaves to the operator.                                   *)
LeftOver(d) == [r \in Rows[d] |->
    IF lines[d][r].disposition = "active" /\ lines[d][r].status = "unmatched"
    THEN [lines[d][r] EXCEPT !.status = "needs_review"] ELSE lines[d][r]]

LEMMA JobDecides ==
    ASSUME StatementInv, NEW d \in Docs, reconcile_document(d)
    PROVE  /\ LeftOver(d) \in LinesOf(d) /\ Decided(d, LeftOver(d)) /\ ledger' = ledger
           /\ \A r \in Rows[d] : /\ LeftOver(d)[r].txn = lines[d][r].txn
                                 /\ LeftOver(d)[r].status \in {"matched", "promoted"}
                                       <=> lines[d][r].status \in {"matched", "promoted"}
<1> DEFINE tb == LeftOver(d)
<1>1. \A r \in Rows[d] : lines[d][r] \in Line
  BY ParametersAreTyped DEF LinesOf
<1>2. /\ tb = [r \in Rows[d] |-> tb[r]]
      /\ \A r \in Rows[d] : tb[r] = IF lines[d][r].disposition = "active" /\ lines[d][r].status = "unmatched"
                                    THEN [lines[d][r] EXCEPT !.status = "needs_review"] ELSE lines[d][r]
  BY DEF LeftOver
<1>3. lines' = With(d, tb) /\ SyncDocument(d, With(d, tb))
  BY DEF reconcile_document, LeftOver, With
<1> HIDE DEF tb
<1>4. \A r \in Rows[d] : /\ tb[r] \in Line /\ tb[r].txn = lines[d][r].txn
                         /\ tb[r].disposition = lines[d][r].disposition /\ tb[r].content = lines[d][r].content
                         /\ tb[r].status \in {"matched", "promoted"} <=> lines[d][r].status \in {"matched", "promoted"}
  BY <1>1, <1>2 DEF Line
<1>5. tb \in LinesOf(d) /\ Same(d, tb)
  BY <1>2, <1>4 DEF LinesOf, Same
<1>6. Decided(d, tb)
  BY <1>3, <1>5 DEF reconcile_document, TriggersAllow, SyncDocument, Decided, ledgerVars
<1> QED BY <1>4, <1>5, <1>6 DEF reconcile_document, ledgerVars, tb

LEMMA OperatorDecides ==
    ASSUME StatementInv, NEW d \in Docs, NEW r \in Rows[d], NEW status \in Statuses,
           NEW t \in Transactions \cup {NoTransaction},
           Offered(d, r), TriggersAllow(d), lines' = SetMatch(d, r, status, t),
           SyncDocument(d, SetMatch(d, r, status, t)),
           UNCHANGED <<policies, links, reviews, queued, locked, audited>>
    PROVE  Set(d, r, status, t) \in LinesOf(d) /\ Decided(d, Set(d, r, status, t))
<1> DEFINE tb == Set(d, r, status, t)
<1>1. r \in Active(d, lines)
  BY DEF Offered
<1>2. SetMatch(d, r, status, t) = With(d, tb) /\ tb \in LinesOf(d) /\ Same(d, tb)
  BY <1>1, MatchIsSet
<1>3. reviews[d].state # "none"
  BY <1>1 DEF StatementInv, Untouched
<1> HIDE DEF tb
<1>4. expectations' = Synced(expectations, Evidence(links[d]), links[d], lines', reviews)
  BY <1>2 DEF SyncDocument
<1> QED BY <1>2, <1>3, <1>4 DEF Decided, TriggersAllow, tb

(* Rows that are put back.                                                   *)
PutBack(d) == [r \in Rows[d] |->
    IF lines[d][r].disposition = "active" THEN NewLine(lines[d][r].content) ELSE lines[d][r]]

LEMMA UndoingUndoes ==
    ASSUME StatementInv, NEW d \in Docs, unreconcile_document(d)
    PROVE  /\ PutBack(d) \in LinesOf(d) /\ Undone(d, PutBack(d))
           /\ \A r \in ActiveIn(d, PutBack(d)) : /\ PutBack(d)[r].txn = NoTransaction
                                                 /\ PutBack(d)[r].status = "unmatched"
<1> DEFINE tb == PutBack(d)
<1>1. \A r \in Rows[d] : lines[d][r] \in Line
  BY ParametersAreTyped DEF LinesOf
<1>2. \A c : NewLine(c).disposition = "active" /\ NewLine(c).content = c
             /\ NewLine(c).status = "unmatched" /\ NewLine(c).txn = NoTransaction
  BY DEF NewLine
<1>3. /\ tb = [r \in Rows[d] |-> tb[r]]
      /\ \A r \in Rows[d] : tb[r] = IF lines[d][r].disposition = "active"
                                    THEN NewLine(lines[d][r].content) ELSE lines[d][r]
  BY DEF PutBack
<1>4. lines' = With(d, tb)
  BY DEF unreconcile_document, PutBack, With
<1> HIDE DEF tb
<1>5. \A r \in Rows[d] : lines[d][r].content \in Contents
  BY <1>1 DEF Line
<1>6. \A r \in Rows[d] : tb[r] \in Line
  BY <1>1, <1>3, <1>5, LinesAreLines
<1>7. tb \in LinesOf(d)
  BY <1>3, <1>6 DEF LinesOf
<1>8. Same(d, tb)
  BY <1>2, <1>3 DEF Same
<1>9. Undone(d, tb)
  BY <1>4, <1>8 DEF unreconcile_document, TriggersAllow, Undone
<1>10. \A r \in ActiveIn(d, tb) : tb[r].txn = NoTransaction /\ tb[r].status = "unmatched"
  BY <1>2, <1>3 DEF ActiveIn
<1> QED BY <1>7, <1>9, <1>10 DEF tb

-----------------------------------------------------------------------------
(* Every step is of one of these kinds *)

Recorded(m, kind) ==
    /\ policies' = Append(policies, [from |-> m, kind |-> kind])
    /\ \A closed \in locked : closed < m
    /\ UNCHANGED <<expectations, links, staged, locked, ledgerVars>>

Rested == UNCHANGED <<policies, expectations, links, reviews, lines, queued>>

LEMMA AskingAsks ==
    ASSUME StatementInv, NEW m \in Months, UNCHANGED ledgerVars,
           \/ prepare_account_period(m) \/ waive(m) \/ restore_waiver(m) \/ refresh_from_policy(m)
    PROVE  \E requirement \in Requirements : Asked(m, requirement)
<1>0. MonthHolds(m) /\ RequirementFor(m) \in Requirements
  BY RequirementIsOne DEF StatementInv
<1>1. CASE prepare_account_period(m)
  <2>1. Evidence(m) = {}
    BY <1>0, <1>1 DEF prepare_account_period, MonthHolds
  <2>2. Asked(m, RequirementFor(m))
    BY <1>1, <2>1 DEF prepare_account_period, Asked
  <2> QED BY <1>0, <2>2
<1>2. CASE waive(m)
  <2>1. Asked(m, "waived") /\ "waived" \in Requirements
    BY <1>2 DEF waive, Asked, Requirements
  <2> QED BY <2>1
<1>3. CASE restore_waiver(m)
  <2>1. Evidence(m) = {}
    BY <1>0, <1>3 DEF restore_waiver, MonthHolds
  <2>2. Asked(m, "required") /\ "required" \in Requirements
    BY <1>3, <2>1 DEF restore_waiver, Asked, Requirements
  <2> QED BY <2>2
<1>4. CASE refresh_from_policy(m)
  <2>1. Asked(m, RequirementFor(m))
    BY <1>4 DEF refresh_from_policy, Asked
  <2> QED BY <1>0, <2>1
<1> QED BY <1>1, <1>2, <1>3, <1>4

LEMMA OperatorMoves ==
    ASSUME StatementInv, NEW d \in Docs, NEW r \in Rows[d],
           \/ promote_line(d, r) \/ ignore_line(d, r) \/ \E t \in Transactions : confirm_match(d, r, t)
    PROVE  \E tb \in LinesOf(d) : Decided(d, tb)
<1>1. ASSUME NEW t \in Transactions, confirm_match(d, r, t) PROVE \E tb \in LinesOf(d) : Decided(d, tb)
  <2>1. "matched" \in Statuses /\ t \in Transactions \cup {NoTransaction}
    BY DEF Statuses, Resolved
  <2> QED BY <1>1, <2>1, OperatorDecides DEF confirm_match
<1>2. CASE ignore_line(d, r)
  <2>1. "ignored" \in Statuses /\ NoTransaction \in Transactions \cup {NoTransaction}
    BY DEF Statuses, Resolved
  <2>2. UNCHANGED <<policies, links, reviews, queued, locked, audited>>
    BY <1>2 DEF ignore_line, ledgerVars
  <2> QED BY <1>2, <2>1, <2>2, OperatorDecides DEF ignore_line
<1>3. CASE promote_line(d, r)
  <2> DEFINE c == lines[d][r].content
  <2>1. c \in Transactions \cup {NoTransaction}
    BY ParametersAreTyped DEF LinesOf, Line, Transactions
  <2>2. "promoted" \in Statuses /\ "needs_review" \in Statuses /\ NoTransaction \in Transactions \cup {NoTransaction}
    BY DEF Statuses, Resolved
  <2>3. /\ Offered(d, r) /\ TriggersAllow(d)
        /\ UNCHANGED <<policies, links, reviews, queued, locked, audited>>
    BY <1>3 DEF promote_line
  <2>4. CASE Books(c)
    <3>1. lines' = SetMatch(d, r, "promoted", c) /\ SyncDocument(d, SetMatch(d, r, "promoted", c))
      BY <1>3, <2>4 DEF promote_line
    <3> QED BY <2>1, <2>2, <2>3, <3>1, OperatorDecides
  <2>5. CASE ~Books(c)
    <3>1. /\ lines' = SetMatch(d, r, "needs_review", NoTransaction)
          /\ SyncDocument(d, SetMatch(d, r, "needs_review", NoTransaction))
      BY <1>3, <2>5 DEF promote_line
    <3> QED BY <2>2, <2>3, <3>1, OperatorDecides
  <2> QED BY <2>4, <2>5
<1> QED BY <1>1, <1>2, <1>3

(* Steps that leave the ledger alone.                                        *)
LEMMA ReviewMoves ==
    ASSUME StatementInv, PolicySteps \/ StagingSteps \/ ReviewSteps, UNCHANGED ledgerVars
    PROVE  \/ \E m \in Months, kind \in Kinds : Recorded(m, kind)
           \/ \E m \in Months, requirement \in Requirements : Asked(m, requirement)
           \/ Rested /\ locked' \in SUBSET Months
           \/ \E d \in Docs : \E rv \in Review, tb \in LinesOf(d) :
                 \/ Corrected(d, rv, tb)
                 \/ Arrived(d, rv, tb)
                 \/ \E m \in Months : Approving(d, rv, tb, m)
<1>1. CASE PolicySteps
  <2>1. PICK m \in Months : \/ \E kind \in Kinds : record_policy(m, kind)
                            \/ prepare_account_period(m) \/ waive(m) \/ restore_waiver(m) \/ refresh_from_policy(m)
                            \/ m \in Closable /\ Close(m)
                            \/ Reopen(m)
    BY <1>1 DEF PolicySteps
  <2>2. ASSUME NEW kind \in Kinds, record_policy(m, kind) PROVE Recorded(m, kind)
    BY <2>2 DEF record_policy, Recorded
  <2>3. CASE Close(m) \/ Reopen(m)
    <3>1. Rested /\ locked' \in SUBSET Months
      BY <2>3, ParametersAreTyped DEF Close, Reopen, Rested, expected, staged, StatementInv, TypeOK
    <3> QED BY <3>1
  <2> QED BY <2>1, <2>2, <2>3, AskingAsks
<1>2. CASE StagingSteps
  <2>1. PICK d \in Docs, m \in Months, owned \in BOOLEAN, zero \in BOOLEAN, clean \in BOOLEAN :
           \E read \in Readings[d] : extract_statement(d, owned, m, read, zero, clean)
    BY <1>2 DEF StagingSteps
  <2> QED BY <2>1, ArrivalOrApproval
<1>3. CASE ReviewSteps
  <2>1. PICK d \in Docs :
         \/ \E account \in BOOLEAN, m \in Months, activity \in Activities : update_metadata(d, account, m, activity)
         \/ \E r \in Rows[d], c \in Sayable[d] : correct_row(d, r, c) \/ add_row(d, r, c)
         \/ \E r \in Rows[d] : exclude_row(d, r) \/ restore_row(d, r)
         \/ archive_source(d)
         \/ approve(d)
    BY <1>3 DEF ReviewSteps, RowSteps, SourceSteps
  <2>2. CASE approve(d)
    BY <2>2, ApprovalIsApproval
  <2> QED BY <2>1, <2>2, CorrectionOfMetadata, CorrectionOfRow, CorrectionOfDisposition, CorrectionOfSource
<1> QED BY <1>1, <1>2, <1>3

LEMMA StatementMoves ==
    ASSUME StatementInv, Next
    PROVE  \/ \E m \in Months, kind \in Kinds : Recorded(m, kind)
           \/ \E m \in Months, requirement \in Requirements : Asked(m, requirement)
           \/ Rested /\ locked' \in SUBSET Months
           \/ \E d \in Docs : \E rv \in Review, tb \in LinesOf(d) :
                 \/ Corrected(d, rv, tb)
                 \/ Arrived(d, rv, tb)
                 \/ \E m \in Months : Approving(d, rv, tb, m)
           \/ \E d \in Docs : \E tb \in LinesOf(d) : Decided(d, tb) \/ Undone(d, tb)
<1>1. ASSUME NEW d \in Docs, reconcile_document(d) PROVE \E tb \in LinesOf(d) : Decided(d, tb)
  BY <1>1, JobDecides
<1>2. ASSUME NEW d \in Docs, unreconcile_document(d) PROVE \E tb \in LinesOf(d) : Undone(d, tb)
  BY <1>2, UndoingUndoes
<1>3. ASSUME NEW t \in Transactions, Decide(t) PROVE Rested /\ locked' \in SUBSET Months
  BY <1>3 DEF Decide, Rested, reviewVars, expected, staged, StatementInv, TypeOK
<1>4. CASE LedgerSteps
  BY <1>1, <1>2, <1>3, <1>4, OperatorMoves DEF LedgerSteps
<1> QED BY <1>4, ReviewMoves DEF Next

LEMMA LedgerStaysLedger ==
    ASSUME StatementInv, Next
    PROVE  ledger' \in LedgerStates /\ audited' \subseteq Transactions
<1>1. ledger \in LedgerStates /\ audited \subseteq Transactions
  BY DEF StatementInv, TypeOK, LedgerStates
<1>2. CASE UNCHANGED ledgerVars
  BY <1>1, <1>2 DEF ledgerVars
<1>3. ASSUME NEW d \in Docs, NEW r \in Rows[d], NEW t \in Transactions, confirm_match(d, r, t)
      PROVE  ledger' \in LedgerStates /\ audited' \subseteq Transactions
  BY <1>1, <1>3 DEF confirm_match, LedgerStates
<1>4. ASSUME NEW d \in Docs, NEW r \in Rows[d], promote_line(d, r)
      PROVE  ledger' \in LedgerStates /\ audited' \subseteq Transactions
  BY <1>1, <1>4 DEF promote_line, LedgerStates
<1>5. ASSUME NEW d \in Docs, unreconcile_document(d)
      PROVE  ledger' \in LedgerStates /\ audited' \subseteq Transactions
  <2> DEFINE claiming == {r \in Active(d, lines) : lines[d][r].txn # NoTransaction}
             one(t) == CHOOSE r \in claiming : lines[d][r].txn = t
  <2>1. ledger' = [t \in Transactions |-> IF \E r \in claiming : lines[d][r].txn = t
                                          THEN Released(lines[d][one(t)], t) ELSE ledger[t]]
    BY <1>5 DEF unreconcile_document
  <2>2. \A line, t : Released(line, t) \in {"none", "uncleared"}
    BY DEF Released
  <2> HIDE DEF claiming, one
  <2>3. ledger' \in LedgerStates
    BY <1>1, <2>1, <2>2 DEF LedgerStates
  <2> QED BY <1>1, <1>5, <2>3 DEF unreconcile_document
<1>6. ASSUME NEW t \in Transactions, Decide(t)
      PROVE  ledger' \in LedgerStates /\ audited' \subseteq Transactions
  BY <1>1, <1>6 DEF Decide
<1> QED BY <1>2, <1>3, <1>4, <1>5, <1>6 DEF Next, LedgerSteps, reconcile_document, ignore_line

-----------------------------------------------------------------------------
(* The tables of expectations that handlers make *)

Tables == [Months -> Expectation]

(* The table t2 is t but for the lifecycle of m.                             *)
Turned(t2, t, m, l) ==
    /\ t2 \in Tables /\ t2[m].lifecycle = l /\ t2[m].requirement = t[m].requirement
    /\ \A n \in Months : n # m => t2[n] = t[n]

LEMMA LifecycleSet ==
    ASSUME NEW table \in Tables, NEW m \in Months, NEW l \in Lifecycles
    PROVE  Turned([table EXCEPT ![m].lifecycle = l], table, m, l)
<1> DEFINE e == [table[m] EXCEPT !.lifecycle = l]
<1>1. table[m] \in Expectation
  BY DEF Tables
<1>2. e \in Expectation /\ e.lifecycle = l /\ e.requirement = table[m].requirement
  BY <1>1 DEF Expectation
<1>3. [table EXCEPT ![m].lifecycle = l] = [table EXCEPT ![m] = e]
  OBVIOUS
<1> HIDE DEF e
<1>4. [table EXCEPT ![m] = e] \in Tables
  BY <1>2 DEF Tables
<1>5. [table EXCEPT ![m] = e][m] = e /\ \A n \in Months : n # m => [table EXCEPT ![m] = e][n] = table[n]
  BY DEF Tables
<1> QED BY <1>2, <1>3, <1>4, <1>5 DEF Turned

LEMMA AttachedTable ==
    ASSUME NEW table \in Tables, NEW m \in Months
    PROVE  /\ AttachTo(table, m) \in Tables
           /\ AttachTo(table, m)[m].requirement = "required"
           /\ AttachTo(table, m)[m].lifecycle = "received"
           /\ \A n \in Months : n # m => AttachTo(table, m)[n] = table[n]
<1>1. [requirement |-> "required", lifecycle |-> "received"] \in Expectation
  BY DEF Expectation, Requirements, Lifecycles
<1> QED BY <1>1 DEF AttachTo, Tables

LEMMA DetachedTable ==
    ASSUME StatementInv, NEW table \in Tables, NEW d \in Docs
    PROVE  IF links[d] # 0 /\ Evidence(links[d]) = {d}
           THEN Turned(Detach(table, d), table, links[d], "expected")
           ELSE Detach(table, d) = table
<1>1. links[d] # 0 => links[d] \in Months
  BY ParametersAreTyped
<1>2. "expected" \in Lifecycles
  BY DEF Lifecycles
<1> QED BY <1>1, <1>2, LifecycleSet DEF Detach

LEMMA ReopenedTable ==
    ASSUME StatementInv, NEW table \in Tables, NEW d \in Docs
    PROVE  IF links[d] # 0 /\ table[links[d]].lifecycle \in {"reviewed", "reconciled"}
           THEN Turned(ReopenEvidence(table, d), table, links[d], "received")
           ELSE ReopenEvidence(table, d) = table
<1>1. links[d] # 0 => links[d] \in Months
  BY ParametersAreTyped
<1>2. "received" \in Lifecycles
  BY DEF Lifecycles
<1> QED BY <1>1, <1>2, LifecycleSet DEF ReopenEvidence

LEMMA ReviewedTable ==
    ASSUME NEW table \in Tables, NEW m \in Months
    PROVE  IF table[m].lifecycle = "received"
           THEN Turned(Reviewed(table, m), table, m, "reviewed")
           ELSE Reviewed(table, m) = table
<1>1. "reviewed" \in Lifecycles
  BY DEF Lifecycles
<1> QED BY <1>1, LifecycleSet DEF Reviewed

(* A month becomes reconciled when its evidence is complete, and only stays  *)
(* so while it is.                                                           *)
LEMMA SyncedTable ==
    ASSUME NEW table \in Tables, NEW m \in Months, NEW docs, NEW rows, NEW opinions
    PROVE  \/ /\ table[m].lifecycle = "reviewed" /\ Complete(docs, rows, opinions)
              /\ Turned(Synced(table, docs, m, rows, opinions), table, m, "reconciled")
           \/ /\ table[m].lifecycle = "reconciled" /\ ~Complete(docs, rows, opinions)
              /\ Turned(Synced(table, docs, m, rows, opinions), table, m, "reviewed")
           \/ /\ Synced(table, docs, m, rows, opinions) = table
              /\ table[m].lifecycle = "reconciled" => Complete(docs, rows, opinions)
<1>1. m # 0 /\ "reviewed" \in Lifecycles /\ "reconciled" \in Lifecycles
  BY StatementAssumption DEF Lifecycles
<1>2. CASE table[m].lifecycle = "reviewed" /\ Complete(docs, rows, opinions)
  <2>1. Synced(table, docs, m, rows, opinions) = [table EXCEPT ![m].lifecycle = "reconciled"]
    BY <1>1, <1>2 DEF Synced
  <2>2. Turned(Synced(table, docs, m, rows, opinions), table, m, "reconciled")
    BY <1>1, <2>1, LifecycleSet
  <2> QED BY <1>2, <2>2
<1>3. CASE table[m].lifecycle = "reconciled" /\ ~Complete(docs, rows, opinions)
  <2>1. Synced(table, docs, m, rows, opinions) = [table EXCEPT ![m].lifecycle = "reviewed"]
    BY <1>1, <1>3 DEF Synced
  <2>2. Turned(Synced(table, docs, m, rows, opinions), table, m, "reviewed")
    BY <1>1, <2>1, LifecycleSet
  <2> QED BY <1>3, <2>2
<1>4. CASE /\ ~(table[m].lifecycle = "reviewed" /\ Complete(docs, rows, opinions))
           /\ ~(table[m].lifecycle = "reconciled" /\ ~Complete(docs, rows, opinions))
  <2>1. Synced(table, docs, m, rows, opinions) = table
    BY <1>1, <1>4 DEF Synced
  <2> QED BY <1>4, <2>1
<1> QED BY <1>2, <1>3, <1>4

-----------------------------------------------------------------------------
(* Types *)

LEMMA TypesOfStep ==
    ASSUME StatementInv, Next, NEW d \in Docs, NEW tb \in LinesOf(d),
           lines' = With(d, tb), expectations' \in Tables, links' \in [Docs -> Months \cup {0}],
           reviews' \in [Docs -> Review], queued' \subseteq Docs, UNCHANGED <<policies, locked>>
    PROVE  TypeOK' /\ Seeded' /\ Tabled'
<1>1. /\ DOMAIN lines' = Docs /\ \A e \in Docs : lines'[e] \in LinesOf(e)
      /\ lines' = [e \in Docs |-> lines'[e]]
  <2>1. lines = [e \in Docs |-> lines[e]] /\ \A e \in Docs : lines[e] \in LinesOf(e)
    BY ParametersAreTyped DEF StatementInv, Tabled
  <2> QED BY <2>1 DEF With
<1>2. ledger' \in LedgerStates /\ audited' \subseteq Transactions
  BY LedgerStaysLedger
<1> QED BY <1>1, <1>2 DEF TypeOK, Seeded, Tabled, LinesOf, Line, LedgerStates, Tables, StatementInv

LEMMA StateIsTyped ==
    ASSUME StatementInv
    PROVE  /\ expectations \in Tables /\ links \in [Docs -> Months \cup {0}]
           /\ reviews \in [Docs -> Review] /\ queued \subseteq Docs /\ 0 \notin Months
  BY StatementAssumption DEF StatementInv, TypeOK, Tables

LEMMA ProjectionIsTable ==
    ASSUME StatementInv, NEW d \in Docs
    PROVE  /\ ReopenProjection(d) \in Tables
           /\ Detach(ReopenProjection(d), d) \in Tables
<1>1. ReopenEvidence(expectations, d) \in Tables
  BY StateIsTyped, ReopenedTable DEF Turned
<1>2. ReopenProjection(d) \in Tables
  BY <1>1, StateIsTyped DEF ReopenProjection
<1> QED BY <1>2, DetachedTable DEF Turned

LEMMA TypesKept ==
    ASSUME StatementInv, Next
    PROVE  TypeOK' /\ Seeded' /\ Tabled'
<1>0. ledger' \in LedgerStates /\ audited' \subseteq Transactions
  BY LedgerStaysLedger
<1>1. ASSUME NEW m \in Months, NEW kind \in Kinds, Recorded(m, kind)
      PROVE  TypeOK' /\ Seeded' /\ Tabled'
  <2>1. [from |-> m, kind |-> kind] \in Policy /\ policies \in Seq(Policy)
    BY DEF Policy, StatementInv, TypeOK
  <2>2. policies' \in Seq(Policy) /\ Len(policies') >= 1 /\ policies'[1] = policies[1]
    BY <1>1, <2>1 DEF Recorded, StatementInv, Seeded
  <2>3. Seeded'
    BY <2>2 DEF StatementInv, Seeded
  <2>4. TypeOK'
    BY <1>0, <1>1, <2>2 DEF Recorded, staged, StatementInv, TypeOK, Policy, LedgerStates
  <2> QED BY <1>1, <2>3, <2>4 DEF Recorded, staged, StatementInv, Tabled
<1>2. ASSUME NEW m \in Months, NEW requirement \in Requirements, Asked(m, requirement)
      PROVE  TypeOK' /\ Seeded' /\ Tabled'
  <2>1. Snapshot(requirement) \in Expectation
    BY DEF Snapshot, Expectation, Lifecycles
  <2>2. expectations' \in Tables
    BY <1>2, <2>1, StateIsTyped DEF Asked, Tables
  <2> QED BY <1>0, <1>2, <2>2 DEF Asked, staged, StatementInv, TypeOK, Seeded, Tabled, LedgerStates, Tables
<1>3. CASE Rested /\ locked' \in SUBSET Months
  BY <1>0, <1>3 DEF Rested, StatementInv, TypeOK, Seeded, Tabled, LedgerStates
<1>4. ASSUME NEW d \in Docs, NEW rv \in Review, NEW tb \in LinesOf(d), Corrected(d, rv, tb)
      PROVE  TypeOK' /\ Seeded' /\ Tabled'
  <2>1. /\ reviews' \in [Docs -> Review] /\ queued' \subseteq Docs
        /\ lines' = With(d, tb) /\ UNCHANGED <<policies, locked>>
    BY <1>4, StateIsTyped DEF Corrected, ReviewedAs
  <2>2. CASE links' = links /\ expectations' = ReopenProjection(d)
    BY <2>1, <2>2, StateIsTyped, ProjectionIsTable, TypesOfStep
  <2>3. ASSUME NEW target \in Months \cup {0}, Relinked(d, ReopenProjection(d), target)
        PROVE  TypeOK' /\ Seeded' /\ Tabled'
    <3>1. links' \in [Docs -> Months \cup {0}]
      BY <2>3, StateIsTyped DEF Relinked
    <3>2. expectations' \in Tables
      BY <2>3, StateIsTyped, ProjectionIsTable, AttachedTable DEF Relinked
    <3> QED BY <2>1, <3>1, <3>2, TypesOfStep
  <2> QED BY <1>4, <2>2, <2>3 DEF Corrected
<1>5. ASSUME NEW d \in Docs, NEW rv \in Review, NEW tb \in LinesOf(d), Arrived(d, rv, tb)
      PROVE  TypeOK' /\ Seeded' /\ Tabled'
  <2>1. /\ reviews' \in [Docs -> Review] /\ queued' \subseteq Docs
        /\ lines' = With(d, tb) /\ UNCHANGED <<policies, locked>>
    BY <1>5, StateIsTyped DEF Arrived, ReviewedAs
  <2>2. links' \in [Docs -> Months \cup {0}] /\ expectations' \in Tables
    BY <1>5, StateIsTyped, AttachedTable DEF Arrived
  <2> QED BY <2>1, <2>2, TypesOfStep
<1>6. ASSUME NEW d \in Docs, NEW rv \in Review, NEW tb \in LinesOf(d), NEW m \in Months, Approving(d, rv, tb, m)
      PROVE  TypeOK' /\ Seeded' /\ Tabled'
  <2> DEFINE base == IF links[d] = 0 THEN AttachTo(expectations, m) ELSE expectations
  <2>1. /\ reviews' \in [Docs -> Review] /\ queued' \subseteq Docs
        /\ lines' = With(d, tb) /\ UNCHANGED <<policies, locked>>
        /\ links' \in [Docs -> Months \cup {0}]
    BY <1>6, StateIsTyped DEF Approving, ReviewedAs, Enqueued
  <2>2. base \in Tables
    BY StateIsTyped, AttachedTable
  <2> HIDE DEF base
  <2>3. Reviewed(base, m) \in Tables
    BY <2>2, ReviewedTable DEF Turned
  <2>4. \A docs, rows, opinions : Synced(Reviewed(base, m), docs, m, rows, opinions) \in Tables
    BY <2>3, SyncedTable DEF Turned
  <2>5. expectations' \in Tables
    BY <1>6, <2>3, <2>4 DEF Approving, base
  <2> QED BY <2>1, <2>5, TypesOfStep
<1>7. ASSUME NEW d \in Docs, NEW tb \in LinesOf(d), Decided(d, tb) \/ Undone(d, tb)
      PROVE  TypeOK' /\ Seeded' /\ Tabled'
  <2>1. /\ lines' = With(d, tb) /\ UNCHANGED <<policies, locked, links, reviews>> /\ queued' \subseteq Docs
    BY <1>7, StateIsTyped DEF Decided, Undone
  <2>2. links[d] # 0 => links[d] \in Months
    BY ParametersAreTyped
  <2>3. CASE Decided(d, tb)
    <3>1. links[d] = 0 => expectations' = expectations
      BY <2>3 DEF Decided, Synced
    <3>2. links[d] # 0 => \A docs, rows, opinions :
             Synced(expectations, docs, links[d], rows, opinions) \in Tables
      BY <2>2, StateIsTyped, SyncedTable DEF Turned
    <3> QED BY <2>1, <2>3, <3>1, <3>2, StateIsTyped, TypesOfStep DEF Decided
  <2>4. CASE Undone(d, tb)
    <3>1. links[d] # 0 => [expectations EXCEPT ![links[d]].lifecycle = "reviewed"] \in Tables
      BY <2>2, StateIsTyped, LifecycleSet DEF Turned, Lifecycles
    <3> QED BY <2>1, <2>4, <3>1, StateIsTyped, TypesOfStep DEF Undone
  <2> QED BY <1>7, <2>3, <2>4
<1> QED BY <1>1, <1>2, <1>3, <1>4, <1>5, <1>6, <1>7, StatementMoves

-----------------------------------------------------------------------------
(* Rows *)

(* A step that replaces the rows and the review of one document.             *)
Replaces(d, rv, tb) == reviews' = ReviewedAs(d, rv) /\ lines' = With(d, tb)

LEMMA RowsAfter ==
    ASSUME StatementInv, NEW d \in Docs, NEW rv \in Review, NEW tb \in LinesOf(d), Replaces(d, rv, tb)
    PROVE  /\ reviews'[d] = rv /\ lines'[d] = tb
           /\ Active(d, lines)' = ActiveIn(d, tb) /\ ActiveContents(d, lines)' = ContentsIn(d, tb)
           /\ Taken(d)' = Taken(d)
           /\ \A e \in Docs : e # d =>
                 /\ reviews'[e] = reviews[e] /\ lines'[e] = lines[e]
                 /\ Active(e, lines)' = Active(e, lines)
                 /\ ActiveContents(e, lines)' = ActiveContents(e, lines)
<1>1. reviews'[d] = rv /\ lines'[d] = tb
  BY DEF Replaces, ReviewedAs, With, StatementInv, TypeOK
<1>2. \A e \in Docs : e # d => reviews'[e] = reviews[e] /\ lines'[e] = lines[e]
  BY DEF Replaces, ReviewedAs, With, StatementInv, TypeOK
<1>3. Active(d, lines)' = ActiveIn(d, tb)
  BY <1>1 DEF Active, ActiveIn
<1>4. ActiveContents(d, lines)' = ContentsIn(d, tb)
  BY <1>1, <1>3 DEF ActiveContents, ContentsIn
<1>5. \A e \in Docs : e # d => Active(e, lines)' = Active(e, lines)
  BY <1>2 DEF Active
<1>6. \A e \in Docs : e # d => ActiveContents(e, lines)' = ActiveContents(e, lines)
  BY <1>2, <1>5 DEF ActiveContents
<1>7. Taken(d)' = Taken(d)
  <2>1. {x \in Docs \ {d} : reviews[x].owned}' = {x \in Docs \ {d} : reviews[x].owned}
    BY <1>2
  <2>2. \A e \in Docs \ {d} : ActiveContents(e, lines)' = ActiveContents(e, lines)
    BY <1>6
  <2> QED BY <2>1, <2>2 DEF Taken
<1> QED BY <1>1, <1>2, <1>3, <1>4, <1>5, <1>6, <1>7

LEMMA RowsKept ==
    ASSUME StatementInv, NEW d \in Docs, NEW rv \in Review, NEW tb \in LinesOf(d), Replaces(d, rv, tb),
           Fresh(d, rv, tb), Balanced(d, rv, tb)
    PROVE  RowsHold'
<1>1. Fresh(d, reviews[d], lines[d])' /\ Balanced(d, reviews[d], lines[d])'
  <2>1. ContentsIn(d, lines[d])' = ContentsIn(d, tb)
    BY RowsAfter, RowsOfDocument DEF ContentsIn, ActiveIn
  <2> QED BY <2>1, RowsAfter DEF Fresh, Balanced
<1>2. ASSUME NEW e \in Docs, e # d
      PROVE  Fresh(e, reviews[e], lines[e])' /\ Balanced(e, reviews[e], lines[e])'
  <2>1. reviews'[e] = reviews[e] /\ ContentsIn(e, lines[e])' = ContentsIn(e, lines[e])
    BY <1>2, RowsAfter DEF ContentsIn, ActiveIn
  <2>2. Balanced(e, reviews[e], lines[e])'
    BY <2>1 DEF StatementInv, RowsHold, Balanced
  <2>3. ASSUME reviews[e].owned, NEW c \in ContentsIn(e, lines[e]), NEW f \in Docs \ {e}, reviews'[f].owned,
               c \in ActiveContents(f, lines)'
        PROVE  FALSE
    <3>1. CASE f # d
      <4>1. reviews[f].owned /\ c \in ActiveContents(f, lines)
        BY <2>3, <3>1, RowsAfter
      <4>2. c \in Taken(e)
        BY <4>1 DEF Taken
      <4> QED BY <2>3, <4>2 DEF StatementInv, RowsHold, Fresh
    <3>2. CASE f = d
      <4>1. rv.owned /\ c \in ContentsIn(d, tb)
        BY <2>3, <3>2, RowsAfter
      <4>2. c \in ActiveContents(e, lines)
        BY <2>3, RowsOfDocument
      <4>3. c \in Taken(d)
        BY <1>2, <2>3, <4>2 DEF Taken
      <4> QED BY <4>1, <4>3 DEF Fresh
    <3> QED BY <3>1, <3>2
  <2>4. reviews[e].owned => ContentsIn(e, lines[e]) \cap Taken(e)' = {}
    BY <2>3 DEF Taken
  <2> QED BY <2>1, <2>2, <2>4 DEF Fresh
<1> QED BY <1>1, <1>2 DEF RowsHold

(* Decisions name no contents anew.                                          *)
LEMMA SameRows ==
    ASSUME StatementInv, NEW d \in Docs, NEW tb \in LinesOf(d), Same(d, tb)
    PROVE  /\ ActiveIn(d, tb) = Active(d, lines) /\ ContentsIn(d, tb) = ActiveContents(d, lines)
           /\ Fresh(d, reviews[d], tb) /\ Balanced(d, reviews[d], tb)
           /\ ReviewedAs(d, reviews[d]) = reviews
<1>1. ActiveIn(d, tb) = Active(d, lines)
  BY DEF Same, ActiveIn, Active
<1>2. ContentsIn(d, tb) = ActiveContents(d, lines)
  BY <1>1 DEF Same, ContentsIn, ActiveContents, ActiveIn
<1>3. Fresh(d, reviews[d], lines[d]) /\ Balanced(d, reviews[d], lines[d])
  BY DEF StatementInv, RowsHold
<1>4. Fresh(d, reviews[d], tb) /\ Balanced(d, reviews[d], tb)
  BY <1>2, <1>3, RowsOfDocument DEF Fresh, Balanced
<1>5. ReviewedAs(d, reviews[d]) = reviews
  BY StateIsTyped DEF ReviewedAs
<1> QED BY <1>1, <1>2, <1>4, <1>5

LEMMA RowsHoldKept ==
    ASSUME StatementInv, Next
    PROVE  RowsHold'
<1>1. CASE UNCHANGED <<reviews, lines>>
  <2>1. reviews' = reviews /\ lines' = lines
    BY <1>1
  <2>2. \A e \in Docs : ContentsIn(e, lines[e])' = ContentsIn(e, lines[e])
    BY <2>1 DEF ContentsIn, ActiveIn
  <2>3. \A e \in Docs : Taken(e)' = Taken(e)
    BY <2>1 DEF Taken, ActiveContents, Active
  <2> QED BY <2>1, <2>2, <2>3 DEF StatementInv, RowsHold, Fresh, Balanced
<1>2. ASSUME NEW d \in Docs, NEW rv \in Review, NEW tb \in LinesOf(d),
             Corrected(d, rv, tb) \/ Arrived(d, rv, tb) \/ \E m \in Months : Approving(d, rv, tb, m)
      PROVE  RowsHold'
  <2>1. Replaces(d, rv, tb) /\ Fresh(d, rv, tb)
    BY <1>2 DEF Corrected, Arrived, Approving, Replaces
  <2>2. Balanced(d, rv, tb)
    BY <1>2 DEF Corrected, Arrived, Approving, Balanced
  <2> QED BY <2>1, <2>2, RowsKept
<1>3. ASSUME NEW d \in Docs, NEW tb \in LinesOf(d), Decided(d, tb) \/ Undone(d, tb)
      PROVE  RowsHold'
  <2>1. Same(d, tb) /\ lines' = With(d, tb) /\ reviews' = reviews
    BY <1>3 DEF Decided, Undone
  <2>2. Replaces(d, reviews[d], tb) /\ reviews[d] \in Review
    BY <2>1, SameRows, StateIsTyped DEF Replaces
  <2>3. Fresh(d, reviews[d], tb) /\ Balanced(d, reviews[d], tb)
    BY <2>1, SameRows
  <2> QED BY <2>2, <2>3, RowsKept
<1> QED BY <1>1, <1>2, <1>3, StatementMoves DEF Recorded, Asked, Rested, staged

-----------------------------------------------------------------------------
(* Documents and their months *)

LEMMA EvidenceAfter ==
    ASSUME StatementInv, NEW d \in Docs, NEW t \in Months \cup {0}, links' = [links EXCEPT ![d] = t], NEW m \in Months
    PROVE  /\ t = m => Evidence(m)' = Evidence(m) \cup {d}
           /\ t # m => Evidence(m)' = Evidence(m) \ {d}
           /\ links'[d] = t
<1>1. links'[d] = t /\ \A e \in Docs : e # d => links'[e] = links[e]
  BY StateIsTyped
<1> QED BY <1>1 DEF Evidence

LEMMA DocumentsKept ==
    ASSUME StatementInv, Next
    PROVE  Untouched' /\ \A d \in Docs : Belongs(d)'
<1>0. Untouched /\ \A d \in Docs : Belongs(d)
  BY DEF StatementInv
<1>1. CASE UNCHANGED <<reviews, lines, links>>
  BY <1>0, <1>1 DEF Untouched, Active, Belongs
<1>2. ASSUME NEW d \in Docs, NEW rv \in Review, NEW tb \in LinesOf(d), Replaces(d, rv, tb), rv.state # "none",
             \A e \in Docs : e # d => links'[e] = links[e],
             links'[d] # 0 => rv.owned /\ rv.period = links'[d]
      PROVE  Untouched' /\ \A e \in Docs : Belongs(e)'
  <2>1. Belongs(d)'
    BY <1>2, RowsAfter DEF Belongs
  <2>2. \A e \in Docs : e # d => Belongs(e)'
    BY <1>0, <1>2, RowsAfter DEF Belongs
  <2>3. \A e \in Docs : reviews'[e].state = "none" => links'[e] = 0 /\ Active(e, lines)' = {}
    BY <1>0, <1>2, RowsAfter DEF Untouched
  <2> QED BY <2>1, <2>2, <2>3 DEF Untouched
<1>3. ASSUME NEW d \in Docs, NEW rv \in Review, NEW tb \in LinesOf(d), Corrected(d, rv, tb)
      PROVE  Untouched' /\ \A e \in Docs : Belongs(e)'
  <2>1. Replaces(d, rv, tb) /\ rv.state # "none"
    BY <1>3 DEF Corrected, Replaces
  <2>2. CASE links' = links /\ (links[d] # 0 => rv.owned /\ rv.period = links[d])
    BY <1>2, <2>1, <2>2
  <2>3. CASE Relinked(d, ReopenProjection(d), 0)
    <3>1. links'[d] = 0 /\ \A e \in Docs : e # d => links'[e] = links[e]
      BY <2>3, StateIsTyped DEF Relinked
    <3> QED BY <1>2, <2>1, <3>1
  <2>4. ASSUME NEW target \in Months, Relinked(d, ReopenProjection(d), target), rv.owned, rv.period = target
        PROVE  Untouched' /\ \A e \in Docs : Belongs(e)'
    <3>1. links'[d] = target /\ \A e \in Docs : e # d => links'[e] = links[e]
      BY <2>4, StateIsTyped DEF Relinked
    <3> QED BY <1>2, <2>1, <2>4, <3>1
  <2> QED BY <1>3, <2>2, <2>3, <2>4 DEF Corrected
<1>4. ASSUME NEW d \in Docs, NEW rv \in Review, NEW tb \in LinesOf(d), Arrived(d, rv, tb)
      PROVE  Untouched' /\ \A e \in Docs : Belongs(e)'
  <2>1. Replaces(d, rv, tb) /\ rv.state # "none" /\ links[d] = 0
    BY <1>0, <1>4 DEF Arrived, Replaces, Untouched
  <2>2. CASE links' = links
    BY <1>2, <2>1, <2>2
  <2>3. ASSUME NEW m \in Months, links' = [links EXCEPT ![d] = m], rv.owned, rv.period = m
        PROVE  Untouched' /\ \A e \in Docs : Belongs(e)'
    <3>1. links'[d] = m /\ \A e \in Docs : e # d => links'[e] = links[e]
      BY <2>3, StateIsTyped
    <3> QED BY <1>2, <2>1, <2>3, <3>1
  <2> QED BY <1>4, <2>2, <2>3 DEF Arrived
<1>5. ASSUME NEW d \in Docs, NEW rv \in Review, NEW tb \in LinesOf(d), NEW m \in Months, Approving(d, rv, tb, m)
      PROVE  Untouched' /\ \A e \in Docs : Belongs(e)'
  <2>1. Replaces(d, rv, tb) /\ rv.state # "none" /\ rv.owned /\ rv.period = m
    BY <1>5 DEF Approving, Replaces
  <2>2. links'[d] = m /\ \A e \in Docs : e # d => links'[e] = links[e]
    BY <1>5, StateIsTyped DEF Approving
  <2> QED BY <1>2, <2>1, <2>2
<1>6. ASSUME NEW d \in Docs, NEW tb \in LinesOf(d), Decided(d, tb) \/ Undone(d, tb)
      PROVE  Untouched' /\ \A e \in Docs : Belongs(e)'
  <2>1. /\ Same(d, tb) /\ lines' = With(d, tb) /\ reviews' = reviews /\ links' = links
        /\ reviews[d].state # "none"
    BY <1>6 DEF Decided, Undone
  <2>2. Replaces(d, reviews[d], tb) /\ reviews[d] \in Review
    BY <2>1, SameRows, StateIsTyped DEF Replaces
  <2>3. links'[d] # 0 => reviews[d].owned /\ reviews[d].period = links'[d]
    BY <1>0, <2>1 DEF Belongs
  <2> QED BY <1>2, <2>1, <2>2, <2>3
<1> QED BY <1>1, <1>3, <1>4, <1>5, <1>6, StatementMoves DEF Recorded, Asked, Rested, staged

-----------------------------------------------------------------------------
(* What the months say *)

(* The document e is as it was.                                              *)
Stays(e) == reviews'[e] = reviews[e] /\ lines'[e] = lines[e] /\ (e \in queued' <=> e \in queued)

LEMMA JudgedAsBefore ==
    ASSUME NEW e \in Docs, Stays(e)
    PROVE  (Cleared(e)' <=> Cleared(e)) /\ (Decisive(e)' <=> Decisive(e))
<1>1. Active(e, lines)' = Active(e, lines)
  BY DEF Active, Stays
<1>2. ZeroProof(e, lines, reviews)' <=> ZeroProof(e, lines, reviews)
  BY <1>1 DEF ZeroProof, Stays, Active
<1>3. \A r \in Active(e, lines) : Settled(lines[e][r])' <=> Settled(lines[e][r])
  BY DEF Stays
<1> QED BY <1>1, <1>2, <1>3 DEF Cleared, Decisive, Stays

(* Nothing happens to a month.                                               *)
LEMMA MonthRests ==
    ASSUME NEW m \in Months, MonthHolds(m), expectations'[m] = expectations[m], Evidence(m)' = Evidence(m),
           \A e \in Evidence(m) : Stays(e)
    PROVE  MonthHolds(m)'
<1>1. \A e \in Evidence(m) : e \in Docs
  BY DEF Evidence
<1>2. \A e \in Evidence(m) : (Cleared(e)' <=> Cleared(e)) /\ (Decisive(e)' <=> Decisive(e))
  BY <1>1, JudgedAsBefore
<1>3. Proven(m) => Proven(m)'
  BY <1>2 DEF Proven, Stays
<1>4. \A e \in Evidence(m) : reviews'[e] = reviews[e]
  BY DEF Stays
<1> QED BY <1>3, <1>4 DEF MonthHolds

(* A document d that decides nothing and is not approved joins, leaves or    *)
(* stays with the evidence of a month that is left as it was.                *)
LEMMA MonthKeeps ==
    ASSUME NEW m \in Months, NEW d \in Docs, MonthHolds(m), expectations'[m] = expectations[m],
           Evidence(m)' \ {d} = Evidence(m) \ {d}, Evidence(m)' = {} <=> Evidence(m) = {},
           \A e \in Evidence(m) : e # d => Stays(e),
           d \in Evidence(m) => reviews[d].state # "approved" /\ ~Decisive(d),
           d \in Evidence(m)' => reviews'[d].state # "approved"
    PROVE  MonthHolds(m)'
<1>1. \A e \in Evidence(m) : e \in Docs
  BY DEF Evidence
<1>2. \A e \in Evidence(m) : e # d => (Cleared(e)' <=> Cleared(e)) /\ (Decisive(e)' <=> Decisive(e))
  BY <1>1, JudgedAsBefore
<1>3. d \in Evidence(m)' => Cleared(d)'
  BY DEF Cleared
<1>4. Proven(m) => Proven(m)'
  <2> SUFFICES ASSUME Proven(m) PROVE Proven(m)'
    OBVIOUS
  <2>1. \A e \in (Evidence(m) \ queued)' : Cleared(e)'
    BY <1>2, <1>3 DEF Proven, Stays
  <2>2. PICK e \in Evidence(m) : Decisive(e)
    BY DEF Proven
  <2>3. e # d /\ e \in Evidence(m)' /\ Decisive(e)'
    BY <1>2, <2>2
  <2> QED BY <2>1, <2>3 DEF Proven
<1>5. (\E e \in Evidence(m) : reviews[e].state = "approved") => \E e \in Evidence(m)' : reviews'[e].state = "approved"
  BY DEF Stays
<1> QED BY <1>4, <1>5 DEF MonthHolds

LEMMA MonthReceives ==
    ASSUME NEW m \in Months, Evidence(m)' # {}, expectations'[m].lifecycle = "received",
           expectations'[m].requirement = "required"
    PROVE  MonthHolds(m)'
  BY DEF MonthHolds

LEMMA MonthIsEmpty ==
    ASSUME NEW m \in Months, Evidence(m)' = {},
           expectations'[m].lifecycle \notin {"received", "reviewed", "reconciled"}
    PROVE  MonthHolds(m)'
  BY DEF MonthHolds

(* What the operators call complete is proven.                               *)
LEMMA CompleteIsProven ==
    ASSUME NEW m, Complete(Evidence(m)', lines', reviews')
    PROVE  Proven(m)'
<1>0. PICK E, L, O : E = Evidence(m)' /\ L = lines' /\ O = reviews'
  OBVIOUS
<1> DEFINE rows == UNION {{L[d][r] : r \in Active(d, L)} : d \in E}
<1>1. \A d \in E : \A r \in Active(d, L) : L[d][r] \in rows
  OBVIOUS
<1>2. \A line \in rows : \E d \in E : \E r \in Active(d, L) : line = L[d][r]
  OBVIOUS
<1>3. /\ rows # {} => \A line \in rows : Settled(line)
      /\ rows = {} => E # {} /\ \A d \in E : ZeroProof(d, L, O)
  <2>1. Complete(E, L, O)
    BY <1>0
  <2> QED BY <2>1 DEF Complete
<1> HIDE DEF rows
<1>4. \A d \in E : \A r \in Active(d, L) : Settled(L[d][r])
  BY <1>1, <1>3
<1>5. \E d \in E : (\E r \in Active(d, L) : Settled(L[d][r])) \/ ZeroProof(d, L, O)
  BY <1>2, <1>3
<1>6. \A d \in E : Cleared(d)'
  BY <1>0, <1>4 DEF Cleared, Active, Settled
<1>7. \E d \in E : Decisive(d)'
  BY <1>0, <1>5 DEF Decisive, Active, Settled, ZeroProof
<1> QED BY <1>0, <1>6, <1>7 DEF Proven

LEMMA ReopenedMonth ==
    ASSUME StatementInv, NEW d \in Docs, NEW m \in Months
    PROVE  /\ m # links[d] \/ reviews[d].state # "approved" => ReopenProjection(d)[m] = expectations[m]
           /\ m = links[d] /\ reviews[d].state = "approved" =>
                 /\ ReopenProjection(d)[m].lifecycle = "received"
                 /\ ReopenProjection(d)[m].requirement = "required"
<1>1. CASE reviews[d].state # "approved"
  BY <1>1 DEF ReopenProjection, WasApproved
<1>2. CASE reviews[d].state = "approved"
  <2>1. ReopenProjection(d) = ReopenEvidence(expectations, d)
    BY <1>2 DEF ReopenProjection, WasApproved
  <2>2. CASE m # links[d]
    <3>1. ReopenEvidence(expectations, d)[m] = expectations[m]
      BY <2>2, StateIsTyped, ReopenedTable DEF Turned
    <3> QED BY <2>1, <2>2, <3>1
  <2>3. CASE m = links[d]
    <3>1. d \in Evidence(m) /\ MonthHolds(m) /\ m # 0
      BY <2>3, StateIsTyped DEF Evidence, StatementInv
    <3>2. /\ expectations[m].lifecycle \in {"received", "reviewed", "reconciled"}
          /\ expectations[m].requirement = "required"
      BY <3>1 DEF MonthHolds
    <3>3. CASE expectations[m].lifecycle = "received"
      <4>1. ReopenProjection(d) = expectations
        BY <2>1, <2>3, <3>3 DEF ReopenEvidence
      <4>2. ReopenProjection(d)[m].lifecycle = "received" /\ ReopenProjection(d)[m].requirement = "required"
        BY <3>2, <3>3, <4>1
      <4> QED BY <1>2, <2>3, <4>2
    <3>4. CASE expectations[m].lifecycle # "received"
      <4>1. Turned(ReopenProjection(d), expectations, m, "received")
        BY <2>1, <2>3, <3>1, <3>2, <3>4, StateIsTyped, ReopenedTable
      <4>2. ReopenProjection(d)[m].lifecycle = "received" /\ ReopenProjection(d)[m].requirement = "required"
        BY <3>2, <4>1 DEF Turned
      <4> QED BY <1>2, <2>3, <4>2
    <3> QED BY <3>3, <3>4
  <2> QED BY <2>2, <2>3
<1> QED BY <1>1, <1>2

LEMMA DetachedMonth ==
    ASSUME StatementInv, NEW d \in Docs, NEW m \in Months, NEW table \in Tables
    PROVE  /\ m = links[d] /\ Evidence(m) = {d} => Detach(table, d)[m].lifecycle = "expected"
           /\ m # links[d] \/ Evidence(m) # {d} => Detach(table, d)[m] = table[m]
<1>1. m # 0
  BY StateIsTyped
<1>2. CASE m = links[d] /\ Evidence(m) = {d}
  BY <1>1, <1>2, DetachedTable DEF Turned
<1>3. CASE m # links[d] \/ Evidence(m) # {d}
  BY <1>1, <1>3, DetachedTable DEF Turned
<1> QED BY <1>2, <1>3

LEMMA CorrectionKeepsMonths ==
    ASSUME StatementInv, NEW d \in Docs, NEW rv \in Review, NEW tb \in LinesOf(d), Corrected(d, rv, tb),
           NEW m \in Months
    PROVE  MonthHolds(m)'
<1>0. MonthHolds(m) /\ m # 0 /\ Replaces(d, rv, tb) /\ queued' = queued
  BY StateIsTyped DEF StatementInv, Corrected, Replaces
<1>1. \A e \in Docs : e # d => Stays(e)
  BY <1>0, RowsAfter DEF Stays
<1>2. reviews'[d].state # "approved"
  BY <1>0, RowsAfter DEF Corrected
<1>3. reviews[d].state # "approved" => ~Decisive(d)
  BY DEF Corrected, Correctable, Decisive, ZeroProof, Settled
<1>4. \A e \in Evidence(m) : e \in Docs
  BY DEF Evidence
<1>5. d \in Evidence(m) <=> m = links[d]
  BY DEF Evidence
<1>6. CASE links' = links /\ expectations' = ReopenProjection(d)
  <2>1. Evidence(m)' = Evidence(m)
    BY <1>6 DEF Evidence
  <2>2. CASE m # links[d]
    <3>1. expectations'[m] = expectations[m]
      BY <1>6, <2>2, ReopenedMonth
    <3>2. \A e \in Evidence(m) : Stays(e)
      BY <1>1, <1>4, <1>5, <2>2
    <3> QED BY <1>0, <2>1, <3>1, <3>2, MonthRests
  <2>3. CASE m = links[d] /\ reviews[d].state = "approved"
    <3>1. expectations'[m].lifecycle = "received" /\ expectations'[m].requirement = "required"
      BY <1>6, <2>3, ReopenedMonth
    <3>2. Evidence(m)' # {}
      BY <1>5, <2>1, <2>3
    <3> QED BY <3>1, <3>2, MonthReceives
  <2>4. CASE m = links[d] /\ reviews[d].state # "approved"
    <3>1. expectations'[m] = expectations[m]
      BY <1>6, <2>4, ReopenedMonth
    <3> QED BY <1>0, <1>1, <1>2, <1>3, <1>4, <2>1, <2>4, <3>1, MonthKeeps
  <2> QED BY <2>2, <2>3, <2>4
<1>7. ASSUME NEW t \in Months \cup {0}, Relinked(d, ReopenProjection(d), t)
      PROVE  MonthHolds(m)'
  <2> DEFINE table == Detach(ReopenProjection(d), d)
  <2>0. table \in Tables
    BY ProjectionIsTable
  <2>1. /\ t = m => Evidence(m)' = Evidence(m) \cup {d}
        /\ t # m => Evidence(m)' = Evidence(m) \ {d}
    BY <1>7, EvidenceAfter DEF Relinked
  <2>2. CASE t = m
    <3>1. expectations' = AttachTo(table, m)
      BY <1>0, <1>7, <2>2 DEF Relinked
    <3>2. expectations'[m].lifecycle = "received" /\ expectations'[m].requirement = "required"
      BY <2>0, <3>1, AttachedTable
    <3> QED BY <2>1, <2>2, <3>2, MonthReceives
  <2>3. CASE t # m
    <3>1. expectations'[m] = table[m]
      BY <1>7, <2>0, <2>3, AttachedTable DEF Relinked
    <3>2. CASE m # links[d]
      <4>1. expectations'[m] = expectations[m]
        BY <3>1, <3>2, ProjectionIsTable, DetachedMonth, ReopenedMonth
      <4>2. Evidence(m)' = Evidence(m)
        BY <1>5, <2>1, <2>3, <3>2
      <4>3. \A e \in Evidence(m) : Stays(e)
        BY <1>1, <1>4, <1>5, <3>2
      <4> QED BY <1>0, <4>1, <4>2, <4>3, MonthRests
    <3>3. CASE m = links[d] /\ Evidence(m) = {d}
      <4>1. expectations'[m].lifecycle = "expected" /\ Evidence(m)' = {}
        BY <2>1, <2>3, <3>1, <3>3, ProjectionIsTable, DetachedMonth
      <4> QED BY <4>1, MonthIsEmpty
    <3>4. CASE m = links[d] /\ Evidence(m) # {d}
      <4>1. expectations'[m] = ReopenProjection(d)[m]
        BY <3>1, <3>4, ProjectionIsTable, DetachedMonth
      <4>2. Evidence(m)' # {} /\ Evidence(m) # {} /\ Evidence(m)' = Evidence(m) \ {d}
        BY <1>5, <2>1, <2>3, <3>4
      <4>3. CASE reviews[d].state = "approved"
        <5>1. expectations'[m].lifecycle = "received" /\ expectations'[m].requirement = "required"
          BY <3>4, <4>1, <4>3, ReopenedMonth
        <5> QED BY <4>2, <5>1, MonthReceives
      <4>4. CASE reviews[d].state # "approved"
        <5>1. expectations'[m] = expectations[m]
          BY <3>4, <4>1, <4>4, ReopenedMonth
        <5>2. Evidence(m)' \ {d} = Evidence(m) \ {d} /\ (Evidence(m)' = {} <=> Evidence(m) = {})
          BY <4>2
        <5> QED BY <1>0, <1>1, <1>2, <1>3, <1>4, <4>4, <5>1, <5>2, MonthKeeps
      <4> QED BY <4>3, <4>4
    <3> QED BY <3>2, <3>3, <3>4
  <2> QED BY <2>2, <2>3
<1> QED BY <1>6, <1>7 DEF Corrected

LEMMA ArrivalKeepsMonths ==
    ASSUME StatementInv, NEW d \in Docs, NEW rv \in Review, NEW tb \in LinesOf(d), Arrived(d, rv, tb),
           NEW m \in Months
    PROVE  MonthHolds(m)'
<1>0. MonthHolds(m) /\ m # 0 /\ Replaces(d, rv, tb) /\ queued' = queued /\ links[d] = 0
  BY StateIsTyped DEF StatementInv, Arrived, Replaces, Untouched
<1>1. \A e \in Docs : e # d => Stays(e)
  BY <1>0, RowsAfter DEF Stays
<1>2. d \notin Evidence(m) /\ \A e \in Evidence(m) : e \in Docs
  BY <1>0 DEF Evidence
<1>3. \A e \in Evidence(m) : Stays(e)
  BY <1>1, <1>2
<1>4. CASE links' = links /\ expectations' = expectations
  <2>1. Evidence(m)' = Evidence(m)
    BY <1>4 DEF Evidence
  <2> QED BY <1>0, <1>3, <1>4, <2>1, MonthRests
<1>5. ASSUME NEW n \in Months, links' = [links EXCEPT ![d] = n], expectations' = AttachTo(expectations, n)
      PROVE  MonthHolds(m)'
  <2>0. n \in Months \cup {0}
    OBVIOUS
  <2>1. CASE n = m
    <3>1. Evidence(m)' = Evidence(m) \cup {d}
      BY <1>5, <2>0, <2>1, EvidenceAfter
    <3>2. expectations'[m].lifecycle = "received" /\ expectations'[m].requirement = "required"
      BY <1>5, <2>1, StateIsTyped, AttachedTable
    <3> QED BY <3>1, <3>2, MonthReceives
  <2>2. CASE n # m
    <3>0. Evidence(m)' = Evidence(m) \ {d}
      BY <1>5, <2>0, <2>2, EvidenceAfter
    <3>1. Evidence(m)' = Evidence(m)
      BY <1>2, <3>0
    <3>2. expectations'[m] = expectations[m]
      BY <1>5, <2>2, StateIsTyped, AttachedTable
    <3> QED BY <1>0, <1>3, <3>1, <3>2, MonthRests
  <2> QED BY <2>1, <2>2
<1> QED BY <1>4, <1>5 DEF Arrived

LEMMA ApprovalKeepsMonths ==
    ASSUME StatementInv, NEW d \in Docs, NEW rv \in Review, NEW tb \in LinesOf(d), NEW n \in Months,
           Approving(d, rv, tb, n), NEW m \in Months
    PROVE  MonthHolds(m)'
<1> DEFINE base == IF links[d] = 0 THEN AttachTo(expectations, n) ELSE expectations
<1>0. /\ MonthHolds(m) /\ MonthHolds(n) /\ m # 0 /\ n # 0 /\ Replaces(d, rv, tb) /\ rv.state = "approved"
      /\ links[d] \in {0, n} /\ links' = [links EXCEPT ![d] = n]
      /\ queued' = Enqueued(d, rv.activity # "zero_activity")
      /\ expectations' = IF rv.activity = "zero_activity"
                         THEN Synced(Reviewed(base, n), Evidence(n) \cup {d}, n, lines', reviews')
                         ELSE Reviewed(base, n)
  BY StateIsTyped DEF StatementInv, Approving, Replaces
<1>1. \A e \in Docs : e # d => Stays(e)
  BY <1>0, RowsAfter DEF Stays, Enqueued
<1>2. /\ base \in Tables /\ \A x \in Months : x # n => base[x] = expectations[x]
      /\ base[n].lifecycle \in {"received", "reviewed", "reconciled"}
      /\ base[n].requirement = "required"
      /\ base[n].lifecycle = "reconciled" => links[d] = n /\ expectations[n].lifecycle = "reconciled"
  <2>1. CASE links[d] = 0
    BY <2>1, StateIsTyped, AttachedTable
  <2>2. CASE links[d] = n
    <3>1. d \in Evidence(n) /\ base = expectations
      BY <1>0, <2>2 DEF Evidence
    <3> QED BY <1>0, <2>2, <3>1, StateIsTyped DEF MonthHolds
  <2> QED BY <1>0, <2>1, <2>2
<1> HIDE DEF base
<1>3. PICK table : table = Reviewed(base, n)
  OBVIOUS
<1>4. /\ table \in Tables /\ \A x \in Months : x # n => table[x] = expectations[x]
      /\ table[n].lifecycle \in {"reviewed", "reconciled"}
      /\ table[n].requirement = "required"
      /\ table[n].lifecycle = "reconciled" => links[d] = n /\ expectations[n].lifecycle = "reconciled"
  <2>1. CASE base[n].lifecycle = "received"
    <3>1. Turned(table, base, n, "reviewed")
      BY <1>2, <1>3, <2>1, ReviewedTable
    <3> QED BY <1>2, <3>1 DEF Turned
  <2>2. CASE base[n].lifecycle # "received"
    <3>1. table = base
      BY <1>2, <1>3, <2>2, ReviewedTable
    <3> QED BY <1>2, <2>2, <3>1
  <2> QED BY <2>1, <2>2
<1>5. /\ \A x \in Months : x # n => expectations'[x] = expectations[x]
      /\ expectations'[n].lifecycle \in {"reviewed", "reconciled"}
      /\ expectations'[n].requirement = "required"
      /\ expectations'[n].lifecycle = "reconciled" =>
            \/ Complete(Evidence(n) \cup {d}, lines', reviews')
            \/ /\ rv.activity # "zero_activity"
               /\ links[d] = n /\ expectations[n].lifecycle = "reconciled"
  <2>1. CASE rv.activity # "zero_activity"
    BY <1>0, <1>3, <1>4, <2>1
  <2>2. CASE rv.activity = "zero_activity"
    <3>1. expectations' = Synced(table, Evidence(n) \cup {d}, n, lines', reviews')
      BY <1>0, <1>3, <2>2
    <3>2. \/ /\ Complete(Evidence(n) \cup {d}, lines', reviews')
             /\ Turned(expectations', table, n, "reconciled")
          \/ Turned(expectations', table, n, "reviewed")
          \/ /\ expectations' = table
             /\ table[n].lifecycle = "reconciled" => Complete(Evidence(n) \cup {d}, lines', reviews')
      BY <1>4, <3>1, SyncedTable
    <3>3. CASE Complete(Evidence(n) \cup {d}, lines', reviews') /\ Turned(expectations', table, n, "reconciled")
      BY <1>4, <3>3 DEF Turned
    <3>4. CASE Turned(expectations', table, n, "reviewed")
      BY <1>4, <3>4 DEF Turned
    <3>5. CASE expectations' = table /\ (table[n].lifecycle = "reconciled" => Complete(Evidence(n) \cup {d}, lines', reviews'))
      BY <1>4, <3>5
    <3> QED BY <3>2, <3>3, <3>4, <3>5
  <2> QED BY <2>1, <2>2
<1>6. n \in Months \cup {0}
  OBVIOUS
<1>7. CASE m # n
  <2>1. d \notin Evidence(m) /\ \A e \in Evidence(m) : e \in Docs
    BY <1>0, <1>7 DEF Evidence
  <2>2. Evidence(m)' = Evidence(m) \ {d}
    BY <1>0, <1>6, <1>7, EvidenceAfter
  <2>3. Evidence(m)' = Evidence(m)
    BY <2>1, <2>2
  <2>4. \A e \in Evidence(m) : Stays(e)
    BY <1>1, <2>1
  <2>5. expectations'[m] = expectations[m]
    BY <1>5, <1>7
  <2> QED BY <1>0, <2>3, <2>4, <2>5, MonthRests
<1>8. CASE m = n
  <2>1. Evidence(m)' = Evidence(m) \cup {d} /\ \A e \in Evidence(m) : e \in Docs
    <3>1. Evidence(n)' = Evidence(n) \cup {d}
      BY <1>0, <1>6, EvidenceAfter
    <3> QED BY <1>8, <3>1 DEF Evidence
  <2>2. reviews'[d].state = "approved"
    BY <1>0, RowsAfter
  <2>3. expectations'[m].lifecycle = "reconciled" => Proven(m)'
    <3>1. CASE Complete(Evidence(m) \cup {d}, lines', reviews')
      <4>1. Complete(Evidence(m)', lines', reviews')
        BY <2>1, <3>1
      <4> QED BY <4>1, CompleteIsProven
    <3>2. CASE rv.activity # "zero_activity" /\ links[d] = m /\ expectations[m].lifecycle = "reconciled"
      <4>1. d \in queued' /\ d \in Evidence(m)
        BY <1>0, <3>2 DEF Enqueued, Evidence
      <4>2. reviews[d].state = "pending" /\ lines'[d] = lines[d]
        <5>1. reviews[d].state # "none"
          BY <1>0, <1>8, <3>2 DEF StatementInv, Untouched
        <5>2. tb = lines[d] /\ reviews[d].state = "pending"
          BY <5>1 DEF Approving
        <5> QED BY <1>0, <5>2, RowsAfter
      <4>3. Decisive(d) => Decisive(d)'
        <5>1. ~ZeroProof(d, lines, reviews)
          BY <4>2 DEF ZeroProof
        <5>2. Active(d, lines)' = Active(d, lines)
          BY <4>2 DEF Active
        <5> QED BY <4>2, <5>1, <5>2 DEF Decisive, Settled
      <4>4. \A e \in Evidence(m) : e # d => (Cleared(e)' <=> Cleared(e)) /\ (Decisive(e)' <=> Decisive(e))
        BY <1>1, <2>1, JudgedAsBefore
      <4>5. Proven(m)
        BY <1>0, <3>2 DEF MonthHolds
      <4>6. \E e \in Evidence(m)' : Decisive(e)'
        BY <2>1, <4>3, <4>4, <4>5 DEF Proven
      <4>7. \A e \in (Evidence(m) \ queued)' : Cleared(e)'
        BY <1>1, <2>1, <4>1, <4>4, <4>5 DEF Proven, Stays
      <4> QED BY <4>6, <4>7 DEF Proven
    <3> QED BY <1>5, <1>8, <3>1, <3>2
  <2> QED BY <1>5, <1>8, <2>1, <2>2, <2>3 DEF MonthHolds
<1> QED BY <1>7, <1>8

(* Decisions leave the approvals and the evidence alone.                     *)
LEMMA DecisionsLeave ==
    ASSUME StatementInv, NEW d \in Docs, NEW tb \in LinesOf(d), Decided(d, tb) \/ Undone(d, tb), NEW m \in Months
    PROVE  /\ Evidence(m)' = Evidence(m) /\ reviews' = reviews
           /\ \A e \in Evidence(m) : e \in Docs
           /\ \A e \in Docs : e # d => Stays(e)
           /\ m # links[d] => \A e \in Evidence(m) : Stays(e)
<1>1. /\ Same(d, tb) /\ lines' = With(d, tb) /\ reviews' = reviews /\ links' = links
      /\ \A e \in Docs : e # d => (e \in queued' <=> e \in queued)
  BY DEF Decided, Undone
<1>2. Replaces(d, reviews[d], tb) /\ reviews[d] \in Review
  BY <1>1, SameRows, StateIsTyped DEF Replaces
<1>3. \A e \in Docs : e # d => Stays(e)
  BY <1>1, <1>2, RowsAfter DEF Stays
<1>4. Evidence(m)' = Evidence(m) /\ \A e \in Evidence(m) : e \in Docs /\ links[e] = m
  BY <1>1 DEF Evidence
<1> QED BY <1>1, <1>3, <1>4

LEMMA DecisionKeepsMonths ==
    ASSUME StatementInv, NEW d \in Docs, NEW tb \in LinesOf(d), Decided(d, tb), NEW m \in Months
    PROVE  MonthHolds(m)'
<1>0. MonthHolds(m) /\ m # 0
  BY StateIsTyped DEF StatementInv
<1>1. /\ Evidence(m)' = Evidence(m) /\ reviews' = reviews
      /\ m # links[d] => \A e \in Evidence(m) : Stays(e)
  BY DecisionsLeave
<1>2. CASE m # links[d]
  <2>1. CASE links[d] = 0
    <3>1. expectations' = expectations
      BY <2>1 DEF Decided, Synced
    <3> QED BY <1>0, <1>1, <1>2, <3>1, MonthRests
  <2>2. CASE links[d] # 0
    <3>1. links[d] \in Months
      BY <2>2, ParametersAreTyped
    <3>2. expectations'[m] = expectations[m]
      BY <1>2, <3>1, StateIsTyped, SyncedTable DEF Decided, Turned
    <3> QED BY <1>0, <1>1, <1>2, <3>2, MonthRests
  <2> QED BY <2>1, <2>2
<1>3. CASE m = links[d]
  <2>1. expectations' = Synced(expectations, Evidence(m)', m, lines', reviews')
    BY <1>1, <1>3 DEF Decided
  <2>2. \/ /\ expectations[m].lifecycle = "reviewed" /\ Complete(Evidence(m)', lines', reviews')
           /\ Turned(expectations', expectations, m, "reconciled")
        \/ /\ expectations[m].lifecycle = "reconciled"
           /\ Turned(expectations', expectations, m, "reviewed")
        \/ /\ expectations' = expectations
           /\ expectations[m].lifecycle = "reconciled" => Complete(Evidence(m)', lines', reviews')
    BY <2>1, StateIsTyped, SyncedTable
  <2>3. expectations'[m].requirement = expectations[m].requirement
    BY <2>2 DEF Turned
  <2>4. expectations'[m].lifecycle = "reconciled" => Complete(Evidence(m)', lines', reviews')
    BY <2>2 DEF Turned
  <2>5. expectations'[m].lifecycle = "reconciled" => Proven(m)'
    BY <2>4, CompleteIsProven
  <2>6. /\ expectations'[m].lifecycle \in {"received", "reviewed", "reconciled"}
              <=> expectations[m].lifecycle \in {"received", "reviewed", "reconciled"}
        /\ expectations'[m].lifecycle \in {"reviewed", "reconciled"}
              <=> expectations[m].lifecycle \in {"reviewed", "reconciled"}
    BY <2>2 DEF Turned
  <2> QED BY <1>0, <1>1, <2>3, <2>5, <2>6 DEF MonthHolds
<1> QED BY <1>2, <1>3

LEMMA UndoingKeepsMonths ==
    ASSUME StatementInv, NEW d \in Docs, NEW tb \in LinesOf(d), Undone(d, tb), NEW m \in Months
    PROVE  MonthHolds(m)'
<1>0. MonthHolds(m) /\ m # 0
  BY StateIsTyped DEF StatementInv
<1>1. /\ Evidence(m)' = Evidence(m) /\ reviews' = reviews
      /\ m # links[d] => \A e \in Evidence(m) : Stays(e)
  BY DecisionsLeave
<1>2. CASE links[d] # 0 /\ expectations[links[d]].lifecycle = "reconciled"
  <2>1. links[d] \in Months /\ "reviewed" \in Lifecycles
    BY <1>2, ParametersAreTyped DEF Lifecycles
  <2>2. Turned(expectations', expectations, links[d], "reviewed")
    BY <1>2, <2>1, StateIsTyped, LifecycleSet DEF Undone
  <2>3. CASE m = links[d]
    <3>1. expectations'[m].lifecycle = "reviewed" /\ expectations'[m].requirement = expectations[m].requirement
      BY <2>2, <2>3 DEF Turned
    <3>2. expectations[m].lifecycle = "reconciled"
      BY <1>2, <2>3
    <3> QED BY <1>0, <1>1, <3>1, <3>2 DEF MonthHolds
  <2>4. CASE m # links[d]
    <3>1. expectations'[m] = expectations[m]
      BY <2>2, <2>4 DEF Turned
    <3> QED BY <1>0, <1>1, <2>4, <3>1, MonthRests
  <2> QED BY <2>3, <2>4
<1>3. CASE ~(links[d] # 0 /\ expectations[links[d]].lifecycle = "reconciled")
  <2>1. expectations' = expectations
    BY <1>3 DEF Undone
  <2>2. CASE m = links[d]
    <3>1. expectations[m].lifecycle # "reconciled"
      BY <1>0, <1>3, <2>2
    <3> QED BY <1>0, <1>1, <2>1, <3>1 DEF MonthHolds
  <2>3. CASE m # links[d]
    BY <1>0, <1>1, <2>1, <2>3, MonthRests
  <2> QED BY <2>2, <2>3
<1> QED BY <1>2, <1>3

LEMMA MonthsKept ==
    ASSUME StatementInv, Next, NEW m \in Months
    PROVE  MonthHolds(m)'
<1>0. MonthHolds(m)
  BY DEF StatementInv
<1>1. CASE UNCHANGED <<expectations, links, reviews, lines, queued>>
  <2>1. Evidence(m)' = Evidence(m) /\ expectations'[m] = expectations[m]
    BY <1>1 DEF Evidence
  <2>2. \A e \in Evidence(m) : Stays(e)
    BY <1>1 DEF Stays
  <2> QED BY <1>0, <2>1, <2>2, MonthRests
<1>2. ASSUME NEW n \in Months, NEW requirement \in Requirements, Asked(n, requirement)
      PROVE  MonthHolds(m)'
  <2>1. Evidence(m)' = Evidence(m)
    BY <1>2 DEF Asked, Evidence
  <2>2. CASE m = n
    <3>1. expectations'[m] = Snapshot(requirement) /\ Evidence(m)' = {}
      BY <1>2, <2>1, <2>2, StateIsTyped DEF Asked, Tables
    <3>2. expectations'[m].lifecycle \in {"expected", "none"}
      BY <3>1 DEF Snapshot
    <3> QED BY <3>1, <3>2, MonthIsEmpty
  <2>3. CASE m # n
    <3>1. expectations'[m] = expectations[m]
      BY <1>2, <2>3, StateIsTyped DEF Asked, Tables
    <3>2. \A e \in Evidence(m) : Stays(e)
      BY <1>2 DEF Asked, staged, Stays
    <3> QED BY <1>0, <2>1, <3>1, <3>2, MonthRests
  <2> QED BY <2>2, <2>3
<1> QED BY <1>1, <1>2, StatementMoves, CorrectionKeepsMonths, ArrivalKeepsMonths, ApprovalKeepsMonths,
           DecisionKeepsMonths, UndoingKeepsMonths DEF Recorded, Rested, staged

-----------------------------------------------------------------------------
(* The inductive invariant *)

LEMMA StatementInvStarts == Init => StatementInv
<1> SUFFICES ASSUME Init PROVE StatementInv
  OBVIOUS
<1> DEFINE first == CHOOSE m \in Months : \A n \in Months : m <= n
<1>1. first \in Months /\ \A n \in Months : first <= n
  <2>1. Months \subseteq Nat /\ Months # {}
    BY StatementAssumption
  <2>2. PICK k \in Months : \A n \in Months : ~ (<<n, k>> \in OpToRel(<, Nat))
    BY <2>1, WFMin, NatLessThanWellFounded
  <2>3. \A n \in Months : ~(n < k)
    BY <2>1, <2>2 DEF OpToRel
  <2>4. \A n \in Months : k <= n
    BY <2>1, <2>3
  <2> QED BY <2>4
<1>2. /\ policies = <<[from |-> first, kind |-> "unconfigured"]>>
      /\ expectations = [m \in Months |-> [requirement |-> "absent", lifecycle |-> "none"]]
      /\ links = [d \in Docs |-> 0]
      /\ reviews = [d \in Docs |-> [state |-> "none", owned |-> FALSE, period |-> first, activity |-> "unknown"]]
      /\ lines = [d \in Docs |-> [r \in Rows[d] |-> NoLine]]
      /\ queued = {} /\ locked = {} /\ audited = {}
      /\ ledger = [t \in Transactions |-> IF t \in Receipts THEN "uncleared" ELSE "none"]
  BY DEF Init, InitReview
<1> HIDE DEF first
<1>3. TypeOK
  <2>1. policies \in Seq(Policy)
    BY <1>1, <1>2 DEF Policy
  <2>2. expectations \in Tables /\ links \in [Docs -> Months \cup {0}]
    BY <1>2 DEF Tables, Expectation, Requirements, Lifecycles
  <2>3. reviews \in [Docs -> Review]
    BY <1>1, <1>2 DEF Review
  <2>4. DOMAIN lines = Docs /\ \A d \in Docs : lines[d] \in LinesOf(d)
    BY <1>2, LinesAreLines DEF LinesOf
  <2> QED BY <1>2, <2>1, <2>2, <2>3, <2>4 DEF TypeOK, Policy, Tables, LinesOf, Line
<1>4. Seeded /\ Tabled
  BY <1>1, <1>2 DEF Seeded, Tabled
<1>5. \A d \in Docs : reviews[d].state = "none" /\ Active(d, lines) = {} /\ links[d] = 0 /\ ~reviews[d].owned
  BY <1>2 DEF Active, NoLine
<1>6. Untouched /\ \A d \in Docs : Belongs(d)
  BY <1>5 DEF Untouched, Belongs
<1>7. \A m \in Months : MonthHolds(m)
  <2>1. \A m \in Months : Evidence(m) = {} /\ expectations[m].lifecycle = "none"
    BY <1>2, <1>5, StatementAssumption DEF Evidence
  <2> QED BY <2>1 DEF MonthHolds
<1>8. RowsHold
  BY <1>5 DEF RowsHold, Fresh, Balanced
<1> QED BY <1>3, <1>4, <1>6, <1>7, <1>8 DEF StatementInv

LEMMA StatementInvKept == StatementInv /\ [Next]_vars => StatementInv'
<1> SUFFICES ASSUME StatementInv, [Next]_vars PROVE StatementInv'
  OBVIOUS
<1>1. CASE Next
  <2>1. TypeOK' /\ Seeded' /\ Tabled'
    BY <1>1, TypesKept
  <2>2. Untouched' /\ \A d \in Docs : Belongs(d)'
    BY <1>1, DocumentsKept
  <2>3. \A m \in Months : MonthHolds(m)'
    BY <1>1, MonthsKept
  <2>4. RowsHold'
    BY <1>1, RowsHoldKept
  <2> QED BY <2>1, <2>2, <2>3, <2>4 DEF StatementInv
<1>2. CASE UNCHANGED vars
  <2>1. UNCHANGED <<policies, expectations, links, reviews, lines, queued, locked, ledger, audited>>
    BY <1>2 DEF vars, reviewVars, expected, staged, ledgerVars
  <2>2. TypeOK' /\ Seeded' /\ Tabled'
    BY <2>1 DEF StatementInv, TypeOK, Seeded, Tabled
  <2>3. Untouched' /\ \A d \in Docs : Belongs(d)'
    BY <2>1 DEF StatementInv, Untouched, Active, Belongs
  <2>4. ASSUME NEW m \in Months PROVE MonthHolds(m)'
    <3>1. Evidence(m)' = Evidence(m) /\ expectations'[m] = expectations[m] /\ MonthHolds(m)
      BY <2>1 DEF Evidence, StatementInv
    <3>2. \A e \in Evidence(m) : Stays(e)
      BY <2>1 DEF Stays
    <3> QED BY <3>1, <3>2, MonthRests
  <2>5. RowsHold'
    <3>1. \A e \in Docs : ContentsIn(e, lines[e])' = ContentsIn(e, lines[e])
      BY <2>1 DEF ContentsIn, ActiveIn
    <3>2. \A e \in Docs : Taken(e)' = Taken(e)
      BY <2>1 DEF Taken, ActiveContents, Active
    <3> QED BY <2>1, <3>1, <3>2 DEF StatementInv, RowsHold, Fresh, Balanced
  <2> QED BY <2>2, <2>3, <2>4, <2>5 DEF StatementInv
<1> QED BY <1>1, <1>2

LEMMA StatementInvHolds == Spec => []StatementInv
  BY StatementInvStarts, StatementInvKept, PTL DEF Spec

-----------------------------------------------------------------------------
(* How far a month has come is what its statements say: for any documents,   *)
(* rows, months and policies, in any order of extractions, corrections,      *)
(* approvals, jobs and decisions (repo_statement_expectations.py,            *)
(* repo_statement_reviews.py, sync_document_reconciliation).                 *)
THEOREM MonthsSayWhatIsShown == Spec => []LifecycleFollows
<1>1. StatementInv => LifecycleFollows
  <2> SUFFICES ASSUME StatementInv PROVE LifecycleFollows
    OBVIOUS
  <2>0. TypeOK /\ \A m \in Months : MonthHolds(m)
    BY DEF StatementInv
  <2>1. EvidenceBelongs
    <3> SUFFICES ASSUME NEW d \in Docs, links[d] # 0
                 PROVE  /\ reviews[d].owned /\ reviews[d].period = links[d]
                        /\ expectations[links[d]].requirement = "required"
      BY DEF EvidenceBelongs
    <3>1. reviews[d].owned /\ reviews[d].period = links[d]
      BY DEF StatementInv, Belongs
    <3>2. links[d] \in Months /\ d \in Evidence(links[d])
      BY ParametersAreTyped DEF Evidence
    <3>3. MonthHolds(links[d])
      BY <2>0, <3>2
    <3> QED BY <3>1, <3>2, <3>3 DEF MonthHolds
  <2>2. LifecycleHasEvidence /\ ReviewedByApproval
    BY <2>0 DEF MonthHolds, LifecycleHasEvidence, ReviewedByApproval
  <2>3. ReconciledIsProven
    BY <2>0 DEF MonthHolds, Proven, Cleared, Decisive, ReconciledIsProven
  <2> QED BY <2>0, <2>1, <2>2, <2>3 DEF LifecycleFollows
<1> QED BY <1>1, StatementInvHolds, PTL

(* The rows of an approved statement are the ones its balances prove, and no *)
(* two statements of the account hold one row, whatever was corrected,       *)
(* excluded, restored or moved in between (completeness, UNIQUE(account_id,  *)
(* row_hash), resolve_document_account).                                     *)
THEOREM RowsAreCountedOnce == Spec => []RowsAddUp
<1>1. StatementInv => RowsAddUp
  <2> SUFFICES ASSUME StatementInv PROVE RowsAddUp
    OBVIOUS
  <2>0. \A d \in Docs : Fresh(d, reviews[d], lines[d]) /\ Balanced(d, reviews[d], lines[d])
    BY DEF StatementInv, RowsHold
  <2>1. ApprovedBalances
    BY <2>0, RowsOfDocument DEF ApprovedBalances, Balanced
  <2>2. ASSUME NEW d \in Docs, NEW e \in Docs, d # e, reviews[d].owned, reviews[e].owned
        PROVE  ActiveContents(d, lines) \cap ActiveContents(e, lines) = {}
    <3>1. ActiveContents(d, lines) \cap Taken(d) = {}
      BY <2>0, <2>2, RowsOfDocument DEF Fresh
    <3>2. ActiveContents(e, lines) \subseteq Taken(d)
      BY <2>2 DEF Taken
    <3> QED BY <3>1, <3>2
  <2> QED BY <2>1, <2>2 DEF RowsAddUp, RowsCountedOnce
<1> QED BY <1>1, StatementInvHolds, PTL

(* What a closed month rests on stays as it is while the month is closed:    *)
(* its policy, its expectation, its evidence and the rows of its statements  *)
(* (_guard_review_month, require_month_open, the triggers of                 *)
(* statement_lines).                                                         *)
THEOREM ClosedMonthsStand == Spec => ClosedStands
<1>1. ASSUME StatementInv, Next, NEW m \in locked
      PROVE  /\ PolicyFor(m)' = PolicyFor(m)
             /\ expectations'[m] = expectations[m]
             /\ Evidence(m)' = Evidence(m)
             /\ \A d \in Docs : reviews[d].state # "none" /\ reviews[d].period = m => lines'[d] = lines[d]
  <2>0. m \in Months /\ m # 0
    BY <1>1, StateIsTyped DEF StatementInv, TypeOK
  <2>1. ASSUME UNCHANGED <<expectations, links, lines>>
        PROVE  /\ expectations'[m] = expectations[m]
               /\ Evidence(m)' = Evidence(m)
               /\ \A d \in Docs : reviews[d].state # "none" /\ reviews[d].period = m => lines'[d] = lines[d]
    BY <2>1 DEF Evidence
  <2>2. ASSUME policies' = policies PROVE PolicyFor(m)' = PolicyFor(m)
    BY <2>2 DEF PolicyFor
  <2>3. ASSUME NEW n \in Months, NEW kind \in Kinds, Recorded(n, kind)
        PROVE  PolicyFor(m)' = PolicyFor(m) /\ UNCHANGED <<expectations, links, lines>>
    <3>1. m < n /\ policies' = Append(policies, [from |-> n, kind |-> kind])
      BY <1>1, <2>3 DEF Recorded
    <3>2. PolicyFor(m)' = PolicyFor(m)
      BY <1>1, <2>0, <3>1, PolicyKept DEF StatementInv
    <3> QED BY <2>3, <3>2 DEF Recorded, staged
  <2>4. ASSUME NEW n \in Months, NEW requirement \in Requirements, Asked(n, requirement)
        PROVE  /\ policies' = policies /\ expectations'[m] = expectations[m]
               /\ Evidence(m)' = Evidence(m) /\ lines' = lines
    <3>1. n # m
      BY <1>1, <2>4 DEF Asked
    <3> QED BY <1>1, <2>0, <2>4, <3>1, StateIsTyped DEF Asked, staged, Evidence, Tables
  <2>5. ASSUME NEW d \in Docs, NEW rv \in Review, NEW tb \in LinesOf(d), Replaces(d, rv, tb),
               reviews[d].state # "none" => reviews[d].period # m \/ tb = lines[d]
        PROVE  \A e \in Docs : reviews[e].state # "none" /\ reviews[e].period = m => lines'[e] = lines[e]
    BY <1>1, <2>5, RowsAfter
  <2>6. ASSUME NEW d \in Docs, reviews[d].period \notin locked
        PROVE  links[d] # m /\ reviews[d].period # m /\ d \notin Evidence(m)
    BY <1>1, <2>0, <2>6 DEF StatementInv, Belongs, Evidence
  <2>7. ASSUME NEW d \in Docs, NEW rv \in Review, NEW tb \in LinesOf(d), Corrected(d, rv, tb)
        PROVE  /\ policies' = policies /\ expectations'[m] = expectations[m] /\ Evidence(m)' = Evidence(m)
               /\ \A e \in Docs : reviews[e].state # "none" /\ reviews[e].period = m => lines'[e] = lines[e]
    <3>1. links[d] # m /\ reviews[d].period # m /\ d \notin Evidence(m)
      BY <2>6, <2>7 DEF Corrected, Correctable
    <3>2. Replaces(d, rv, tb) /\ policies' = policies
      BY <2>7 DEF Corrected, Replaces
    <3>3. \A e \in Docs : reviews[e].state # "none" /\ reviews[e].period = m => lines'[e] = lines[e]
      BY <2>5, <3>1, <3>2
    <3>4. ReopenProjection(d)[m] = expectations[m]
      BY <1>1, <2>0, <3>1, ReopenedMonth
    <3>5. CASE links' = links /\ expectations' = ReopenProjection(d)
      BY <3>2, <3>3, <3>4, <3>5 DEF Evidence
    <3>6. ASSUME NEW t \in Months \cup {0}, Relinked(d, ReopenProjection(d), t)
          PROVE  expectations'[m] = expectations[m] /\ Evidence(m)' = Evidence(m)
      <4>1. t # m
        BY <1>1, <3>6 DEF Relinked
      <4>2. Evidence(m)' = Evidence(m) \ {d}
        BY <1>1, <2>0, <3>6, <4>1, EvidenceAfter DEF Relinked
      <4>3. Detach(ReopenProjection(d), d) \in Tables /\ ReopenProjection(d) \in Tables
        BY <1>1, ProjectionIsTable
      <4>4. Detach(ReopenProjection(d), d)[m] = expectations[m]
        BY <1>1, <2>0, <3>1, <3>4, <4>3, DetachedMonth
      <4>5. expectations'[m] = Detach(ReopenProjection(d), d)[m]
        BY <2>0, <3>6, <4>1, <4>3, AttachedTable DEF Relinked
      <4> QED BY <3>1, <4>2, <4>4, <4>5
    <3> QED BY <2>7, <3>2, <3>3, <3>5, <3>6 DEF Corrected
  <2>8. ASSUME NEW d \in Docs, NEW rv \in Review, NEW tb \in LinesOf(d), Arrived(d, rv, tb)
        PROVE  /\ policies' = policies /\ expectations'[m] = expectations[m] /\ Evidence(m)' = Evidence(m)
               /\ \A e \in Docs : reviews[e].state # "none" /\ reviews[e].period = m => lines'[e] = lines[e]
    <3>1. Replaces(d, rv, tb) /\ policies' = policies /\ reviews[d].state = "none"
      BY <2>8 DEF Arrived, Replaces
    <3>2. \A e \in Docs : reviews[e].state # "none" /\ reviews[e].period = m => lines'[e] = lines[e]
      BY <2>5, <3>1
    <3>3. d \notin Evidence(m)
      BY <1>1, <2>0, <3>1 DEF StatementInv, Untouched, Evidence
    <3>4. ASSUME NEW n \in Months \ locked, links' = [links EXCEPT ![d] = n], expectations' = AttachTo(expectations, n)
          PROVE  expectations'[m] = expectations[m] /\ Evidence(m)' = Evidence(m)
      <4>1. n # m /\ n \in Months \cup {0}
        BY <1>1
      <4>2. Evidence(m)' = Evidence(m) \ {d}
        BY <1>1, <2>0, <3>4, <4>1, EvidenceAfter
      <4> QED BY <1>1, <2>0, <3>3, <3>4, <4>1, <4>2, StateIsTyped, AttachedTable
    <3> QED BY <2>8, <3>1, <3>2, <3>4 DEF Arrived, Evidence
  <2>9. ASSUME NEW d \in Docs, NEW rv \in Review, NEW tb \in LinesOf(d), NEW n \in Months, Approving(d, rv, tb, n)
        PROVE  /\ policies' = policies /\ expectations'[m] = expectations[m] /\ Evidence(m)' = Evidence(m)
               /\ \A e \in Docs : reviews[e].state # "none" /\ reviews[e].period = m => lines'[e] = lines[e]
    <3> DEFINE base == IF links[d] = 0 THEN AttachTo(expectations, n) ELSE expectations
    <3>1. /\ Replaces(d, rv, tb) /\ policies' = policies /\ n # m /\ n \in Months \cup {0}
          /\ links' = [links EXCEPT ![d] = n] /\ links[d] # m
          /\ reviews[d].state # "none" => tb = lines[d]
      BY <1>1, <2>0, <2>9 DEF Approving, Replaces
    <3>2. \A e \in Docs : reviews[e].state # "none" /\ reviews[e].period = m => lines'[e] = lines[e]
      BY <2>5, <3>1
    <3>3. Evidence(m)' = Evidence(m) \ {d} /\ d \notin Evidence(m)
      BY <1>1, <2>0, <3>1, EvidenceAfter DEF Evidence
    <3>4. base \in Tables /\ base[m] = expectations[m]
      BY <1>1, <2>0, <3>1, StateIsTyped, AttachedTable
    <3> HIDE DEF base
    <3>5. Reviewed(base, n) \in Tables /\ Reviewed(base, n)[m] = expectations[m]
      BY <2>0, <3>1, <3>4, ReviewedTable DEF Turned
    <3>6. \A docs, rows, opinions : Synced(Reviewed(base, n), docs, n, rows, opinions)[m] = expectations[m]
      BY <2>0, <3>1, <3>5, SyncedTable DEF Turned
    <3>7. expectations'[m] = expectations[m]
      BY <2>9, <3>5, <3>6 DEF Approving, base
    <3> QED BY <3>1, <3>2, <3>3, <3>7
  <2>10. ASSUME NEW d \in Docs, NEW tb \in LinesOf(d), Decided(d, tb) \/ Undone(d, tb)
         PROVE  /\ policies' = policies /\ expectations'[m] = expectations[m] /\ Evidence(m)' = Evidence(m)
                /\ \A e \in Docs : reviews[e].state # "none" /\ reviews[e].period = m => lines'[e] = lines[e]
    <3>1. links[d] # m /\ reviews[d].period # m
      BY <2>6, <2>10 DEF Decided, Undone
    <3>2. /\ policies' = policies /\ Replaces(d, reviews[d], tb) /\ reviews[d] \in Review
          /\ Evidence(m)' = Evidence(m)
      BY <1>1, <2>10, SameRows, StateIsTyped DEF Decided, Undone, Replaces, Evidence
    <3>3. links[d] = 0 => expectations' = expectations
      BY <2>10 DEF Decided, Undone, Synced
    <3>4. links[d] # 0 => links[d] \in Months /\ "reviewed" \in Lifecycles
      BY <1>1, ParametersAreTyped DEF Lifecycles
    <3>5. CASE links[d] # 0 /\ Decided(d, tb)
      <4>1. expectations'[m] = expectations[m]
        BY <1>1, <2>0, <3>1, <3>4, <3>5, StateIsTyped, SyncedTable DEF Decided, Turned
      <4> QED BY <2>5, <3>1, <3>2, <4>1
    <3>6. CASE links[d] # 0 /\ Undone(d, tb)
      <4>1. expectations'[m] = expectations[m]
        BY <1>1, <2>0, <3>1, <3>4, <3>6, StateIsTyped, LifecycleSet DEF Undone, Turned
      <4> QED BY <2>5, <3>1, <3>2, <4>1
    <3> QED BY <2>5, <2>10, <3>1, <3>2, <3>3, <3>5, <3>6
  <2>11. CASE Rested
    BY <2>1, <2>2, <2>11 DEF Rested
  <2> QED BY <1>1, <2>1, <2>2, <2>3, <2>4, <2>7, <2>8, <2>9, <2>10, <2>11, StatementMoves
<1>2. StatementInv /\ [Next]_vars =>
        [\A m \in locked :
            /\ PolicyFor(m)' = PolicyFor(m)
            /\ expectations'[m] = expectations[m]
            /\ Evidence(m)' = Evidence(m)
            /\ \A d \in Docs : reviews[d].state # "none" /\ reviews[d].period = m => lines'[d] = lines[d]]_vars
  BY <1>1
<1> QED BY <1>2, StatementInvHolds, PTL DEF Spec, ClosedStands

-----------------------------------------------------------------------------
(* Rows and transactions                                                     *)
(*                                                                           *)
(* The invariant names the document and the row that claim a transaction.    *)

Txn(d, r) == lines[d][r].txn
Linked(line) == line.txn # NoTransaction
Marked(line) == line.status \in {"matched", "promoted"}

MarkedAreLinked == \A d \in Docs : \A r \in Active(d, lines) : Marked(lines[d][r]) <=> Linked(lines[d][r])
LinkedAreCleared == \A d \in Docs : \A r \in Active(d, lines) :
    Linked(lines[d][r]) => ledger[Txn(d, r)] = "cleared"
LinkedByOne == \A d \in Docs : \A r \in Active(d, lines) : \A e \in Docs : \A q \in Active(e, lines) :
    Linked(lines[d][r]) /\ Txn(e, q) = Txn(d, r) => d = e /\ r = q
ClearedIsLinked == \A t \in Transactions : ledger[t] = "cleared" =>
    \E d \in Docs : \E r \in Active(d, lines) : Txn(d, r) = t

ClaimInv == StatementInv /\ MarkedAreLinked /\ LinkedAreCleared /\ LinkedByOne /\ ClearedIsLinked /\ DecidedStays

LEMMA ClaimsAreRows ==
    ASSUME NEW t
    PROVE  /\ \A l \in Claims(t) : \E d \in Docs : \E r \in Active(d, lines) : l = <<d, r>> /\ Txn(d, r) = t
           /\ \A d \in Docs : \A r \in Active(d, lines) : Txn(d, r) = t => <<d, r>> \in Claims(t)
<1>1. \A l \in AllLines : \E d \in Docs : \E r \in Active(d, lines) : l = <<d, r>>
  BY DEF AllLines
<1>2. \A d \in Docs : \A r \in Active(d, lines) : <<d, r>> \in AllLines
  BY DEF AllLines
<1> QED BY <1>1, <1>2 DEF Claims, Txn

LEMMA RowsAreTyped ==
    ASSUME StatementInv, NEW d \in Docs, NEW r \in Rows[d]
    PROVE  /\ lines[d][r] \in Line /\ Txn(d, r) \in Transactions \cup {NoTransaction}
           /\ lines[d][r].content \in Transactions /\ NoTransaction \notin Transactions
<1>1. lines[d][r] \in Line
  BY ParametersAreTyped DEF LinesOf
<1> QED BY <1>1, LedgerAssumption DEF Line, Txn, Transactions

LEMMA ClaimsFollow == ClaimInv => ClaimsHold
<1> SUFFICES ASSUME ClaimInv PROVE ClaimsHold
  OBVIOUS
<1>0. MarkedAreLinked /\ LinkedAreCleared /\ LinkedByOne /\ ClearedIsLinked /\ DecidedStays
  BY DEF ClaimInv
<1>1. ClaimsAreCleared
  <2> SUFFICES ASSUME NEW l \in AllLines
               PROVE  /\ Marked(lines[l[1]][l[2]]) <=> Linked(lines[l[1]][l[2]])
                      /\ Linked(lines[l[1]][l[2]]) =>
                            /\ ledger[Txn(l[1], l[2])] = "cleared"
                            /\ Claims(Txn(l[1], l[2])) = {l}
    BY DEF ClaimsAreCleared, Marked, Linked, Txn
  <2>1. PICK d \in Docs : \E r \in Active(d, lines) : l = <<d, r>>
    BY DEF AllLines
  <2>2. PICK r \in Active(d, lines) : l = <<d, r>>
    BY <2>1
  <2>3. Marked(lines[d][r]) <=> Linked(lines[d][r])
    BY <1>0 DEF MarkedAreLinked
  <2>4. ASSUME Linked(lines[d][r]) PROVE ledger[Txn(d, r)] = "cleared" /\ Claims(Txn(d, r)) = {l}
    <3>1. ledger[Txn(d, r)] = "cleared"
      BY <1>0, <2>4 DEF LinkedAreCleared
    <3>2. \A e \in Docs : \A q \in Active(e, lines) : Txn(e, q) = Txn(d, r) => d = e /\ r = q
      BY <1>0, <2>4 DEF LinkedByOne
    <3>3. \A k \in Claims(Txn(d, r)) : k = l
      BY <2>2, <3>2, ClaimsAreRows
    <3>4. l \in Claims(Txn(d, r))
      BY <2>2, ClaimsAreRows
    <3> QED BY <3>1, <3>3, <3>4
  <2> QED BY <2>2, <2>3, <2>4
<1>2. ClearedIsClaimed
  <2> SUFFICES ASSUME NEW t \in Transactions, ledger[t] = "cleared" PROVE Claims(t) # {}
    BY DEF ClearedIsClaimed
  <2>1. \E d \in Docs : \E r \in Active(d, lines) : Txn(d, r) = t
    BY <1>0 DEF ClearedIsLinked
  <2> QED BY <2>1, ClaimsAreRows
<1> QED BY <1>0, <1>1, <1>2 DEF ClaimsHold

(* The rows tb of d claim what the rows of d claimed.                        *)
ClaimsAlike(d, tb) ==
    /\ \A r \in ActiveIn(d, tb) : Marked(tb[r]) <=> Linked(tb[r])
    /\ \A r \in ActiveIn(d, tb) : Linked(tb[r]) => r \in Active(d, lines) /\ tb[r].txn = Txn(d, r)
    /\ \A r \in Active(d, lines) : Linked(lines[d][r]) => r \in ActiveIn(d, tb) /\ tb[r].txn = Txn(d, r)

LEMMA RowsBefore ==
    ASSUME ClaimInv, NEW d \in Docs, NEW tb \in LinesOf(d), lines' = With(d, tb)
    PROVE  /\ \A r \in Active(d, lines)' : r \in ActiveIn(d, tb) /\ lines'[d][r] = tb[r] /\ Txn(d, r)' = tb[r].txn
           /\ \A r \in ActiveIn(d, tb) : r \in Active(d, lines)'
           /\ \A e \in Docs : e # d => /\ Active(e, lines)' = Active(e, lines)
                                       /\ \A q : lines'[e][q] = lines[e][q] /\ Txn(e, q)' = Txn(e, q)
<1>1. lines'[d] = tb /\ \A e \in Docs : e # d => lines'[e] = lines[e]
  BY DEF ClaimInv, StatementInv, TypeOK, With
<1> QED BY <1>1 DEF Active, ActiveIn, Txn

LEMMA ClaimsKept ==
    ASSUME ClaimInv, NEW d \in Docs, NEW tb \in LinesOf(d), lines' = With(d, tb), ClaimsAlike(d, tb),
           UNCHANGED ledgerVars
    PROVE  /\ MarkedAreLinked' /\ LinkedAreCleared' /\ LinkedByOne' /\ ClearedIsLinked' /\ DecidedStays'
<1>0. /\ MarkedAreLinked /\ LinkedAreCleared /\ LinkedByOne /\ ClearedIsLinked /\ DecidedStays
      /\ ledger' = ledger /\ audited' = audited
  BY DEF ClaimInv, ledgerVars
<1>1. ASSUME NEW e \in Docs, NEW r \in Active(e, lines)'
      PROVE  /\ Marked(lines[e][r])' <=> Linked(lines[e][r])'
             /\ Linked(lines[e][r])' =>
                   r \in Active(e, lines) /\ Linked(lines[e][r]) /\ Txn(e, r)' = Txn(e, r)
  <2>1. CASE e # d
    <3>1. r \in Active(e, lines) /\ lines'[e][r] = lines[e][r] /\ Txn(e, r)' = Txn(e, r)
      BY <1>1, <2>1, RowsBefore
    <3>2. Marked(lines[e][r]) <=> Linked(lines[e][r])
      BY <1>0, <3>1 DEF MarkedAreLinked
    <3> QED BY <3>1, <3>2 DEF Marked, Linked
  <2>2. CASE e = d
    <3>1. r \in ActiveIn(d, tb) /\ lines'[d][r] = tb[r] /\ Txn(d, r)' = tb[r].txn
      BY <1>1, <2>2, RowsBefore
    <3> QED BY <2>2, <3>1 DEF ClaimsAlike, Marked, Linked, Txn
  <2> QED BY <2>1, <2>2
<1>2. ASSUME NEW e \in Docs, NEW r \in Active(e, lines), Linked(lines[e][r])
      PROVE  r \in Active(e, lines)' /\ Txn(e, r)' = Txn(e, r)
  <2>1. CASE e # d
    BY <2>1, RowsBefore
  <2>2. CASE e = d
    <3>1. r \in ActiveIn(d, tb) /\ tb[r].txn = Txn(d, r)
      BY <1>2, <2>2 DEF ClaimsAlike
    <3> QED BY <2>2, <3>1, RowsBefore
  <2> QED BY <2>1, <2>2
<1>3. MarkedAreLinked'
  BY <1>1 DEF MarkedAreLinked
<1>4. LinkedAreCleared'
  BY <1>0, <1>1 DEF LinkedAreCleared
<1>5. LinkedByOne'
  <2> SUFFICES ASSUME NEW e \in Docs, NEW r \in Active(e, lines)', NEW f \in Docs, NEW q \in Active(f, lines)',
                      Linked(lines[e][r])', Txn(f, q)' = Txn(e, r)'
               PROVE  e = f /\ r = q
    BY DEF LinkedByOne
  <2>1. Linked(lines[f][q])'
    BY DEF Linked, Txn
  <2>2. /\ r \in Active(e, lines) /\ q \in Active(f, lines) /\ Linked(lines[e][r])
        /\ Txn(f, q) = Txn(e, r)
    BY <1>1, <2>1
  <2> QED BY <1>0, <2>2 DEF LinkedByOne
<1>6. ClearedIsLinked'
  <2> SUFFICES ASSUME NEW t \in Transactions, ledger[t] = "cleared"
               PROVE  \E e \in Docs : \E r \in Active(e, lines)' : Txn(e, r)' = t
    BY <1>0 DEF ClearedIsLinked
  <2>1. PICK e \in Docs : \E r \in Active(e, lines) : Txn(e, r) = t
    BY <1>0 DEF ClearedIsLinked
  <2>2. PICK r \in Active(e, lines) : Txn(e, r) = t
    BY <2>1
  <2>3. Linked(lines[e][r])
    BY <2>2, LedgerAssumption DEF Linked, Txn
  <2> QED BY <1>2, <2>2, <2>3
<1>7. DecidedStays'
  BY <1>0 DEF DecidedStays
<1> QED BY <1>3, <1>4, <1>5, <1>6, <1>7

(* The row r of d claims a transaction t that nobody claims.                 *)
LEMMA ClaimIsMade ==
    ASSUME ClaimInv, NEW d \in Docs, NEW r \in Active(d, lines), NEW status \in {"matched", "promoted"},
           NEW t \in Transactions, ~Linked(lines[d][r]),
           \A e \in Docs : \A q \in Active(e, lines) : Txn(e, q) # t,
           lines' = SetMatch(d, r, status, t), ledger' = [ledger EXCEPT ![t] = "cleared"], audited' = audited
    PROVE  /\ MarkedAreLinked' /\ LinkedAreCleared' /\ LinkedByOne' /\ ClearedIsLinked' /\ DecidedStays'
<1> DEFINE tb == Set(d, r, status, t)
<1>0. /\ MarkedAreLinked /\ LinkedAreCleared /\ LinkedByOne /\ ClearedIsLinked /\ DecidedStays /\ StatementInv
      /\ t # NoTransaction /\ r \in Rows[d]
  BY LedgerAssumption DEF ClaimInv, Active
<1>1. /\ lines' = With(d, tb) /\ tb \in LinesOf(d) /\ Same(d, tb)
      /\ tb[r].status = status /\ tb[r].txn = t /\ \A q \in Rows[d] : q # r => tb[q] = lines[d][q]
  <2>1. status \in Statuses /\ t \in Transactions \cup {NoTransaction}
    BY DEF Statuses, Resolved
  <2> QED BY <1>0, <2>1, MatchIsSet
<1> HIDE DEF tb
<1>2. ledger'[t] = "cleared" /\ \A u \in Transactions : u # t => ledger'[u] = ledger[u]
  BY <1>0 DEF StatementInv, TypeOK
<1>3. ActiveIn(d, tb) = Active(d, lines)
  BY <1>0, <1>1, SameRows
<1>4. \A e \in Docs : Active(e, lines)' = Active(e, lines)
  BY <1>1, <1>3, RowsBefore
<1>5. ASSUME NEW e \in Docs, NEW q \in Active(e, lines)'
      PROVE  \/ e = d /\ q = r /\ Txn(e, q)' = t /\ Marked(lines[e][q])' /\ Linked(lines[e][q])'
             \/ /\ ~(e = d /\ q = r) /\ lines'[e][q] = lines[e][q] /\ Txn(e, q)' = Txn(e, q)
                /\ Txn(e, q) # t
  <2>0. q \in Active(e, lines) /\ q \in Rows[e]
    BY <1>4 DEF Active
  <2>1. CASE e # d
    <3>1. lines'[e][q] = lines[e][q] /\ Txn(e, q)' = Txn(e, q)
      BY <1>1, <2>1, RowsBefore
    <3> QED BY <2>0, <2>1, <3>1
  <2>2. CASE e = d /\ q # r
    <3>1. lines'[d][q] = tb[q] /\ Txn(d, q)' = tb[q].txn
      BY <1>1, <2>2, RowsBefore
    <3>2. tb[q] = lines[d][q]
      BY <1>1, <2>0, <2>2
    <3> QED BY <2>0, <2>2, <3>1, <3>2 DEF Txn
  <2>3. CASE e = d /\ q = r
    <3>1. lines'[d][r] = tb[r] /\ Txn(d, r)' = t
      BY <1>1, <2>3, RowsBefore
    <3> QED BY <1>0, <1>1, <2>3, <3>1 DEF Marked, Linked
  <2> QED BY <2>1, <2>2, <2>3
<1>6. MarkedAreLinked'
  BY <1>0, <1>4, <1>5 DEF MarkedAreLinked, Marked, Linked
<1>7. LinkedAreCleared'
  <2> SUFFICES ASSUME NEW e \in Docs, NEW q \in Active(e, lines)', Linked(lines[e][q])'
               PROVE  ledger'[Txn(e, q)'] = "cleared"
    BY DEF LinkedAreCleared
  <2>1. CASE e = d /\ q = r
    BY <1>2, <1>5, <2>1
  <2>2. CASE ~(e = d /\ q = r)
    <3>1. lines'[e][q] = lines[e][q] /\ Txn(e, q)' = Txn(e, q) /\ Txn(e, q) # t /\ q \in Active(e, lines)
      BY <1>4, <1>5, <2>2
    <3>2. Linked(lines[e][q]) /\ q \in Rows[e]
      BY <3>1 DEF Linked, Active
    <3>3. ledger[Txn(e, q)] = "cleared"
      BY <1>0, <3>1, <3>2 DEF LinkedAreCleared
    <3>4. Txn(e, q) \in Transactions
      BY <1>0, <3>2, RowsAreTyped DEF Linked, Txn
    <3> QED BY <1>2, <3>1, <3>3, <3>4
  <2> QED BY <2>1, <2>2
<1>8. LinkedByOne'
  <2> SUFFICES ASSUME NEW e \in Docs, NEW q \in Active(e, lines)', NEW f \in Docs, NEW p \in Active(f, lines)',
                      Linked(lines[e][q])', Txn(f, p)' = Txn(e, q)'
               PROVE  e = f /\ q = p
    BY DEF LinkedByOne
  <2>1. CASE (e = d /\ q = r) \/ (f = d /\ p = r)
    BY <1>5, <2>1
  <2>2. CASE ~(e = d /\ q = r) /\ ~(f = d /\ p = r)
    <3>1. /\ lines'[e][q] = lines[e][q] /\ Txn(e, q) = Txn(f, p)
          /\ q \in Active(e, lines) /\ p \in Active(f, lines)
      BY <1>4, <1>5, <2>2
    <3>2. Linked(lines[e][q])
      BY <3>1 DEF Linked
    <3> QED BY <1>0, <3>1, <3>2 DEF LinkedByOne
  <2> QED BY <2>1, <2>2
<1>9. ClearedIsLinked'
  <2> SUFFICES ASSUME NEW u \in Transactions, ledger'[u] = "cleared"
               PROVE  \E e \in Docs : \E q \in Active(e, lines)' : Txn(e, q)' = u
    BY DEF ClearedIsLinked
  <2>1. CASE u = t
    <3>1. r \in Active(d, lines)'
      BY <1>4
    <3> QED BY <1>5, <2>1, <3>1
  <2>2. CASE u # t
    <3>1. PICK e \in Docs : \E q \in Active(e, lines) : Txn(e, q) = u
      BY <1>0, <1>2, <2>2 DEF ClearedIsLinked
    <3>2. PICK q \in Active(e, lines) : Txn(e, q) = u
      BY <3>1
    <3>3. ~(e = d /\ q = r)
      BY <3>2, LedgerAssumption DEF Linked, Txn
    <3>4. q \in Active(e, lines)'
      BY <1>4
    <3> QED BY <1>5, <3>2, <3>3, <3>4
  <2> QED BY <2>1, <2>2
<1>10. DecidedStays'
  BY <1>0, <1>2 DEF DecidedStays, StatementInv, TypeOK
<1> QED BY <1>6, <1>7, <1>8, <1>9, <1>10

LEMMA ClaimsAreUndone ==
    ASSUME ClaimInv, NEW d \in Docs, unreconcile_document(d)
    PROVE  /\ MarkedAreLinked' /\ LinkedAreCleared' /\ LinkedByOne' /\ ClearedIsLinked' /\ DecidedStays'
<1> DEFINE tb == PutBack(d)
           claiming == {r \in Active(d, lines) : lines[d][r].txn # NoTransaction}
           one(t) == CHOOSE r \in claiming : lines[d][r].txn = t
<1>0. /\ MarkedAreLinked /\ LinkedAreCleared /\ LinkedByOne /\ ClearedIsLinked /\ DecidedStays /\ StatementInv
  BY DEF ClaimInv
<1>1. /\ lines' = With(d, tb) /\ tb \in LinesOf(d)
      /\ \A r \in ActiveIn(d, tb) : tb[r].txn = NoTransaction /\ tb[r].status = "unmatched"
  BY <1>0, UndoingUndoes DEF Undone
<1>2. /\ ledger' = [t \in Transactions |-> IF \E r \in claiming : lines[d][r].txn = t
                                           THEN Released(lines[d][one(t)], t) ELSE ledger[t]]
      /\ audited' = audited
  BY DEF unreconcile_document
<1>3. \A line, t : Released(line, t) \in {"none", "uncleared"} /\ (t \in audited => Released(line, t) = "uncleared")
  BY DEF Released
<1>4. \A t \in Transactions : (\E r \in claiming : Txn(d, r) = t) =>
         ledger'[t] \in {"none", "uncleared"} /\ (t \in audited => ledger'[t] = "uncleared")
  <2> HIDE DEF claiming, one
  <2> QED BY <1>2, <1>3 DEF Txn
<1>5. \A t \in Transactions : ~(\E r \in claiming : Txn(d, r) = t) => ledger'[t] = ledger[t]
  <2> HIDE DEF claiming, one
  <2> QED BY <1>2 DEF Txn
<1>6. claiming = {r \in Active(d, lines) : Linked(lines[d][r])}
  BY DEF Linked
<1> HIDE DEF tb, claiming, one
<1>7. ASSUME NEW e \in Docs, NEW r \in Active(e, lines)'
      PROVE  \/ e = d /\ ~Linked(lines[e][r])' /\ ~Marked(lines[e][r])'
             \/ /\ e # d /\ r \in Active(e, lines) /\ lines'[e][r] = lines[e][r] /\ Txn(e, r)' = Txn(e, r)
  <2>1. CASE e # d
    BY <1>1, <1>7, <2>1, RowsBefore
  <2>2. CASE e = d
    <3>1. r \in ActiveIn(d, tb) /\ lines'[d][r] = tb[r]
      BY <1>1, <1>7, <2>2, RowsBefore
    <3> QED BY <1>1, <2>2, <3>1 DEF Marked, Linked
  <2> QED BY <2>1, <2>2
<1>8. MarkedAreLinked'
  BY <1>0, <1>7 DEF MarkedAreLinked, Marked, Linked
<1>9. LinkedAreCleared'
  <2> SUFFICES ASSUME NEW e \in Docs, NEW r \in Active(e, lines)', Linked(lines[e][r])'
               PROVE  ledger'[Txn(e, r)'] = "cleared"
    BY DEF LinkedAreCleared
  <2>1. /\ e # d /\ r \in Active(e, lines) /\ lines'[e][r] = lines[e][r] /\ Txn(e, r)' = Txn(e, r)
    BY <1>7
  <2>2. Linked(lines[e][r]) /\ r \in Rows[e]
    BY <2>1 DEF Linked, Active
  <2>3. ledger[Txn(e, r)] = "cleared"
    BY <1>0, <2>1, <2>2 DEF LinkedAreCleared
  <2>4. Txn(e, r) \in Transactions
    BY <1>0, <2>2, RowsAreTyped DEF Linked, Txn
  <2>5. ~\E q \in claiming : Txn(d, q) = Txn(e, r)
    BY <1>0, <1>6, <2>1, <2>2 DEF LinkedByOne
  <2> QED BY <1>5, <2>1, <2>3, <2>4, <2>5
<1>10. LinkedByOne'
  <2> SUFFICES ASSUME NEW e \in Docs, NEW r \in Active(e, lines)', NEW f \in Docs, NEW q \in Active(f, lines)',
                      Linked(lines[e][r])', Txn(f, q)' = Txn(e, r)'
               PROVE  e = f /\ r = q
    BY DEF LinkedByOne
  <2>1. Linked(lines[f][q])'
    BY DEF Linked, Txn
  <2>2. /\ r \in Active(e, lines) /\ q \in Active(f, lines) /\ lines'[e][r] = lines[e][r]
        /\ Txn(e, r) = Txn(f, q)
    BY <1>7, <2>1
  <2>3. Linked(lines[e][r])
    BY <2>2 DEF Linked
  <2> QED BY <1>0, <2>2, <2>3 DEF LinkedByOne
<1>11. ClearedIsLinked'
  <2> SUFFICES ASSUME NEW t \in Transactions, ledger'[t] = "cleared"
               PROVE  \E e \in Docs : \E r \in Active(e, lines)' : Txn(e, r)' = t
    BY DEF ClearedIsLinked
  <2>1. ~\E r \in claiming : Txn(d, r) = t
    BY <1>4
  <2>2. ledger[t] = "cleared"
    BY <1>5, <2>1
  <2>3. PICK e \in Docs : \E r \in Active(e, lines) : Txn(e, r) = t
    BY <1>0, <2>2 DEF ClearedIsLinked
  <2>4. PICK r \in Active(e, lines) : Txn(e, r) = t
    BY <2>3
  <2>5. Linked(lines[e][r])
    BY <2>4, LedgerAssumption DEF Linked, Txn
  <2>6. e # d
    BY <1>6, <2>1, <2>4, <2>5
  <2>7. r \in Active(e, lines)' /\ Txn(e, r)' = Txn(e, r)
    BY <1>1, <2>6, RowsBefore
  <2> QED BY <2>4, <2>7
<1>12. DecidedStays'
  <2> SUFFICES ASSUME NEW t \in audited PROVE ledger'[t] # "none"
    BY <1>2 DEF DecidedStays
  <2>1. t \in Transactions /\ ledger[t] # "none"
    BY <1>0 DEF StatementInv, TypeOK, DecidedStays
  <2> QED BY <1>4, <1>5, <2>1
<1> QED BY <1>8, <1>9, <1>10, <1>11, <1>12

LEMMA ClaimsOfReview ==
    ASSUME ClaimInv, PolicySteps \/ StagingSteps \/ ReviewSteps, UNCHANGED ledgerVars
    PROVE  /\ MarkedAreLinked' /\ LinkedAreCleared' /\ LinkedByOne' /\ ClearedIsLinked' /\ DecidedStays'
<1>0. StatementInv /\ MarkedAreLinked
  BY DEF ClaimInv
<1>1. CASE lines' = lines
  BY <1>1 DEF ClaimInv, ledgerVars, MarkedAreLinked, LinkedAreCleared, LinkedByOne, ClearedIsLinked, DecidedStays,
              Active, Txn, Marked, Linked
<1>2. ASSUME NEW d \in Docs, NEW tb \in LinesOf(d), lines' = With(d, tb), Open(d, tb),
             \A r \in Active(d, lines) : ~Linked(lines[d][r])
      PROVE  /\ MarkedAreLinked' /\ LinkedAreCleared' /\ LinkedByOne' /\ ClearedIsLinked' /\ DecidedStays'
  <2>1. ClaimsAlike(d, tb)
    BY <1>2 DEF ClaimsAlike, Open, Marked, Linked, Resolved
  <2> QED BY <1>2, <2>1, ClaimsKept
<1>3. ASSUME NEW d \in Docs, NEW rv \in Review, NEW tb \in LinesOf(d), Corrected(d, rv, tb)
      PROVE  /\ MarkedAreLinked' /\ LinkedAreCleared' /\ LinkedByOne' /\ ClearedIsLinked' /\ DecidedStays'
  BY <1>2, <1>3 DEF Corrected, Correctable, Linked
<1>4. ASSUME NEW d \in Docs, NEW rv \in Review, NEW tb \in LinesOf(d), Arrived(d, rv, tb)
      PROVE  /\ MarkedAreLinked' /\ LinkedAreCleared' /\ LinkedByOne' /\ ClearedIsLinked' /\ DecidedStays'
  BY <1>0, <1>2, <1>4 DEF Arrived, StatementInv, Untouched
<1>5. ASSUME NEW d \in Docs, NEW rv \in Review, NEW tb \in LinesOf(d), NEW m \in Months, Approving(d, rv, tb, m)
      PROVE  /\ MarkedAreLinked' /\ LinkedAreCleared' /\ LinkedByOne' /\ ClearedIsLinked' /\ DecidedStays'
  <2>1. CASE reviews[d].state = "none" /\ Open(d, tb)
    BY <1>0, <1>2, <1>5, <2>1 DEF Approving, StatementInv, Untouched
  <2>2. CASE tb = lines[d]
    <3>1. lines' = lines
      BY <1>0, <1>5, <2>2, ParametersAreTyped DEF Approving
    <3> QED BY <1>1, <3>1
  <2> QED BY <1>5, <2>1, <2>2 DEF Approving
<1> QED BY <1>0, <1>1, <1>3, <1>4, <1>5, ReviewMoves DEF Recorded, Asked, Rested, staged

LEMMA ClaimsOfDecisions ==
    ASSUME StalePages = FALSE, ClaimInv, NEW d \in Docs, NEW r \in Rows[d],
           \/ promote_line(d, r) \/ ignore_line(d, r) \/ \E t \in Transactions : confirm_match(d, r, t)
    PROVE  /\ MarkedAreLinked' /\ LinkedAreCleared' /\ LinkedByOne' /\ ClearedIsLinked' /\ DecidedStays'
<1>0. /\ StatementInv /\ MarkedAreLinked /\ LinkedAreCleared
      /\ r \in Active(d, lines) /\ lines[d][r].status = "needs_review"
  BY DEF ClaimInv, promote_line, ignore_line, confirm_match, Offered
<1>1. ~Linked(lines[d][r])
  <2>1. ~Marked(lines[d][r])
    BY <1>0 DEF Marked
  <2> QED BY <1>0, <2>1 DEF MarkedAreLinked
<1>2. ASSUME NEW t \in Transactions, ledger[t] # "cleared"
      PROVE  \A e \in Docs : \A q \in Active(e, lines) : Txn(e, q) # t
  BY <1>0, <1>2, LedgerAssumption DEF LinkedAreCleared, Linked, Txn
<1>3. ASSUME NEW t \in Transactions, confirm_match(d, r, t)
      PROVE  /\ MarkedAreLinked' /\ LinkedAreCleared' /\ LinkedByOne' /\ ClearedIsLinked' /\ DecidedStays'
  <2>1. /\ ledger[t] # "cleared" /\ lines' = SetMatch(d, r, "matched", t)
        /\ ledger' = [ledger EXCEPT ![t] = "cleared"] /\ audited' = audited
    BY <1>3 DEF confirm_match
  <2> QED BY <1>0, <1>1, <1>2, <2>1, ClaimIsMade
<1>4. ASSUME NEW status \in {"ignored", "needs_review"}, lines' = SetMatch(d, r, status, NoTransaction),
             UNCHANGED ledgerVars
      PROVE  /\ MarkedAreLinked' /\ LinkedAreCleared' /\ LinkedByOne' /\ ClearedIsLinked' /\ DecidedStays'
  <2> DEFINE tb == Set(d, r, status, NoTransaction)
  <2>1. status \in Statuses /\ NoTransaction \in Transactions \cup {NoTransaction}
    BY DEF Statuses, Resolved
  <2>2. /\ lines' = With(d, tb) /\ tb \in LinesOf(d) /\ Same(d, tb)
        /\ tb[r].status = status /\ tb[r].txn = NoTransaction
        /\ \A q \in Rows[d] : q # r => tb[q] = lines[d][q]
    BY <1>0, <1>4, <2>1, MatchIsSet
  <2> HIDE DEF tb
  <2>3. ActiveIn(d, tb) = Active(d, lines) /\ \A q \in Active(d, lines) : q \in Rows[d]
    BY <1>0, <2>2, SameRows DEF Active
  <2>4. \A q \in ActiveIn(d, tb) : Marked(tb[q]) <=> Linked(tb[q])
    <3> SUFFICES ASSUME NEW q \in Active(d, lines) PROVE Marked(tb[q]) <=> Linked(tb[q])
      BY <2>3
    <3>1. CASE q = r
      BY <2>2, <3>1 DEF Marked, Linked
    <3>2. CASE q # r
      <4>1. tb[q] = lines[d][q]
        BY <2>2, <2>3, <3>2
      <4> QED BY <1>0, <4>1 DEF MarkedAreLinked
    <3> QED BY <3>1, <3>2
  <2>5. \A q \in Active(d, lines) : tb[q].txn = Txn(d, q)
    <3> SUFFICES ASSUME NEW q \in Active(d, lines) PROVE tb[q].txn = Txn(d, q)
      OBVIOUS
    <3>1. CASE q = r
      BY <1>1, <2>2, <3>1 DEF Linked, Txn
    <3>2. CASE q # r
      BY <2>2, <2>3, <3>2 DEF Txn
    <3> QED BY <3>1, <3>2
  <2>6. ClaimsAlike(d, tb)
    BY <2>3, <2>4, <2>5 DEF ClaimsAlike
  <2> QED BY <1>4, <2>2, <2>6, ClaimsKept
<1>5. CASE ignore_line(d, r)
  BY <1>4, <1>5 DEF ignore_line
<1>6. CASE promote_line(d, r)
  <2> DEFINE c == lines[d][r].content
  <2>1. c \in Transactions
    BY <1>0, RowsAreTyped
  <2>2. CASE Books(c)
    <3>1. /\ ledger[c] # "cleared" /\ lines' = SetMatch(d, r, "promoted", c)
          /\ ledger' = [ledger EXCEPT ![c] = "cleared"] /\ audited' = audited
      BY <1>6, <2>2 DEF promote_line, Books
    <3> HIDE DEF c
    <3>2. \A e \in Docs : \A q \in Active(e, lines) : Txn(e, q) # c
      BY <1>2, <2>1, <3>1
    <3> QED BY <1>0, <1>1, <2>1, <3>1, <3>2, ClaimIsMade
  <2>3. CASE ~Books(c)
    <3>1. lines' = SetMatch(d, r, "needs_review", NoTransaction) /\ UNCHANGED ledgerVars
      BY <1>6, <2>3 DEF promote_line, ledgerVars
    <3> QED BY <1>4, <3>1
  <2> QED BY <2>2, <2>3
<1> QED BY <1>3, <1>5, <1>6

LEMMA ClaimInvKept ==
    ASSUME StalePages = FALSE
    PROVE  ClaimInv /\ [Next]_vars => ClaimInv'
<1> SUFFICES ASSUME ClaimInv, [Next]_vars PROVE ClaimInv'
  OBVIOUS
<1>0. StatementInv'
  BY StatementInvKept DEF ClaimInv
<1>1. CASE UNCHANGED vars
  <2>1. UNCHANGED <<lines, ledger, audited>>
    BY <1>1 DEF vars, reviewVars, staged, ledgerVars
  <2> QED BY <1>0, <2>1 DEF ClaimInv, MarkedAreLinked, LinkedAreCleared, LinkedByOne, ClearedIsLinked, DecidedStays,
              Active, Txn, Marked, Linked
<1>2. CASE (PolicySteps \/ StagingSteps \/ ReviewSteps) /\ UNCHANGED ledgerVars
  BY <1>0, <1>2, ClaimsOfReview DEF ClaimInv
<1>3. ASSUME NEW d \in Docs, reconcile_document(d) PROVE ClaimInv'
  <2>0. StatementInv /\ MarkedAreLinked
    BY DEF ClaimInv
  <2>1. /\ LeftOver(d) \in LinesOf(d) /\ lines' = With(d, LeftOver(d)) /\ Same(d, LeftOver(d))
        /\ \A r \in Rows[d] : /\ LeftOver(d)[r].txn = lines[d][r].txn
                              /\ LeftOver(d)[r].status \in {"matched", "promoted"}
                                    <=> lines[d][r].status \in {"matched", "promoted"}
    BY <1>3, <2>0, JobDecides DEF Decided
  <2>2. ActiveIn(d, LeftOver(d)) = Active(d, lines) /\ \A r \in Active(d, lines) : r \in Rows[d]
    BY <2>0, <2>1, SameRows DEF Active
  <2>3. ClaimsAlike(d, LeftOver(d))
    BY <2>0, <2>1, <2>2 DEF ClaimsAlike, MarkedAreLinked, Marked, Linked, Txn
  <2>4. UNCHANGED ledgerVars
    BY <1>3 DEF reconcile_document
  <2> QED BY <1>0, <2>1, <2>3, <2>4, ClaimsKept DEF ClaimInv
<1>4. ASSUME NEW d \in Docs, unreconcile_document(d) PROVE ClaimInv'
  BY <1>0, <1>4, ClaimsAreUndone DEF ClaimInv
<1>5. ASSUME NEW d \in Docs, NEW r \in Rows[d],
             \/ promote_line(d, r) \/ ignore_line(d, r) \/ \E t \in Transactions : confirm_match(d, r, t)
      PROVE  ClaimInv'
  BY <1>0, <1>5, ClaimsOfDecisions DEF ClaimInv
<1>6. ASSUME NEW t \in Transactions, Decide(t) PROVE ClaimInv'
  <2>1. lines' = lines /\ ledger' = ledger /\ audited' = audited \cup {t} /\ ledger[t] # "none"
    BY <1>6 DEF Decide, reviewVars, staged
  <2> QED BY <1>0, <2>1 DEF ClaimInv, MarkedAreLinked, LinkedAreCleared, LinkedByOne, ClearedIsLinked, DecidedStays,
              Active, Txn, Marked, Linked
<1> QED BY <1>1, <1>2, <1>3, <1>4, <1>5, <1>6 DEF Next, LedgerSteps

(* When the operators' pages are current, rows and transactions know of each *)
(* other and what was decided is kept, whatever is matched, promoted,        *)
(* ignored, corrected or undone (confirm_match, promote_from_line,           *)
(* unreconcile_document).                                                    *)
THEOREM ClaimsAreHeld ==
    ASSUME StalePages = FALSE
    PROVE  Spec => []ClaimsHold
<1>1. Init => ClaimInv
  <2> SUFFICES ASSUME Init PROVE ClaimInv
    OBVIOUS
  <2>1. \A d \in Docs : Active(d, lines) = {}
    BY DEF Init, InitReview, Active, NoLine
  <2>2. audited = {} /\ \A t \in Transactions : ledger[t] # "cleared"
    BY DEF Init
  <2> QED BY <2>1, <2>2, StatementInvStarts
        DEF ClaimInv, MarkedAreLinked, LinkedAreCleared, LinkedByOne, ClearedIsLinked, DecidedStays
<1>2. ClaimInv /\ [Next]_vars => ClaimInv'
  BY ClaimInvKept
<1>3. ClaimInv => ClaimsHold
  BY ClaimsFollow
<1> QED BY <1>1, <1>2, <1>3, PTL DEF Spec
=============================================================================
