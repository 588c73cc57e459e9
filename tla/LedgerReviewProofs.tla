-------------------------- MODULE LedgerReviewProofs --------------------------
(***************************************************************************)
(* Proofs about PositiveFlows, ProposedActions and, at the end, Goals.     *)
(***************************************************************************)
EXTENDS LedgerReview, Goals, Sums, FiniteSetTheorems, SequenceTheorems, TLAPS

Txn == [flow : Flows, amount : Nat, category : Categories]

Proposals == [flow : Flows, debit : Candidates \cup {Nothing}, debitFlow : Flows \cup {Nothing}]

EventFields ==
    [key : Nat, kind : {"intake", "reject", "restore", "accept", "undo"}, subject : Subjects,
     proposal : Proposals, reverts : Nat, prior : Txn, category : Categories \cup {Nothing},
     priorDebit : Flows \cup {Nothing}]

EventRecord == {ev \in EventFields : ev.proposal.debit # Nothing => ev.priorDebit \in Flows}

EdgeKinds == {"refund_of", "reimbursement_for", "reversal_of", "transfer_pair"}

\* The types, apart from those of the events
LedgerTypes ==
    /\ txns \in [Transactions -> Txn]
    /\ edges \subseteq [kind : EdgeKinds, credit : Subjects, debit : Candidates,
                        event : DOMAIN events]
    /\ IsFiniteSet(edges)
    /\ rows \in [Subjects -> {"loose", "claimed", "corrected"}]
    /\ edited \subseteq Transactions

\* Only an undo takes anything back, an acceptance of the same credit.
UndosRevert == \A j \in DOMAIN events :
    IF events[j].kind = "undo"
    THEN /\ events[j].reverts \in 1..(j - 1)
         /\ events[events[j].reverts].kind = "accept"
         /\ events[events[j].reverts].subject = events[j].subject
    ELSE events[j].reverts = 0

\* All but the latest acceptance of a credit were undone.
Superseded == \A i, j \in DOMAIN events :
    /\ events[i].kind = "accept" /\ events[j].kind = "accept"
    /\ events[i].subject = events[j].subject
    /\ i < j
    => Undone(i)

History ==
    /\ events \in Seq(EventRecord)
    /\ UndosRevert
    /\ Superseded
    /\ DecidedOnce
    /\ UndoesStandingDecision

\* Acceptances that stand
Standing == {i \in DOMAIN events : events[i].kind = "accept" /\ ~Undone(i)}

\* An edge is that of its acceptance.
EdgesNamed == \A e \in edges :
    /\ events[e.event].kind = "accept"
    /\ events[e.event].subject = e.credit /\ events[e.event].proposal.debit = e.debit

Blank == {"absent", "unknown"}

\* What an undo brings back, as far as no manual edit interfered: a credit was
\* blank before any acceptance of it; a debit was blank before the earliest
\* acceptance about it that stands.
CreditsWereBlank == \A s \in Subjects \ edited : \A i \in Accepts(s) :
    events[i].prior.flow \in Blank /\ events[i].prior.category \in Expenses

DebitsWereBlank == \A c \in Candidates \ edited :
    /\ txns[c].category \in Expenses
    /\ \A i \in Standing : events[i].proposal.debit = c =>
          \/ events[i].priorDebit \in Blank
          \/ \E j \in Standing : events[j].proposal.debit = c /\ j < i

\* The parts of FlowsFollowDecisions, said with the acceptances that stand
EdgesStand == {e.event : e \in edges} = {i \in Standing : events[i].proposal.debit # Nothing}

RowsStay == \A i \in Standing : rows[events[i].subject] # "corrected"

NoTrace == \A t \in Transactions \ edited :
    (\A i \in Standing : t \notin {events[i].subject, events[i].proposal.debit})
    => txns[t].flow \in Blank /\ txns[t].category \in Expenses

FlowInv ==
    /\ LedgerTypes
    /\ History
    /\ EdgesNamed
    /\ EdgesStand
    /\ EdgesFit
    /\ RowsStay
    /\ CreditsWereBlank
    /\ DebitsWereBlank
    /\ NoTrace

-----------------------------------------------------------------------------
(* The history of events *)

\* What an event is appended under
Allowed(ev) ==
    /\ ev \in EventRecord
    /\ \A i \in DOMAIN events : events[i].key # ev.key
    /\ CASE ev.kind = "accept" ->
              ev.reverts = 0 /\ \A i \in Accepts(ev.subject) : Undone(i)
         [] ev.kind = "undo" ->
              /\ ev.reverts \in Accepts(ev.subject)
              /\ ~Undone(ev.reverts)
         [] OTHER -> ev.reverts = 0

LEMMA Appended ==
    ASSUME NEW ev \in EventRecord, events \in Seq(EventRecord), events' = Append(events, ev)
    PROVE  /\ Len(events) \in Nat /\ DOMAIN events = 1..Len(events)
           /\ DOMAIN events' = DOMAIN events \cup {Len(events) + 1}
           /\ events' \in Seq(EventRecord)
           /\ events'[Len(events) + 1] = ev
           /\ \A i \in DOMAIN events : events'[i] = events[i] /\ events[i] \in EventRecord
           /\ \A i \in DOMAIN events : i \in Nat /\ i < Len(events) + 1 /\ i > 0
OBVIOUS

LEMMA UndoneAfter ==
    ASSUME NEW ev \in EventRecord, events \in Seq(EventRecord), events' = Append(events, ev)
    PROVE  \A i \in DOMAIN events' :
             Undone(i)' <=> Undone(i) \/ (ev.kind = "undo" /\ ev.reverts = i)
BY Appended DEF Undone

\* An undo takes back what came before it.
LEMMA NothingUndoneEarly ==
    ASSUME UndosRevert, events \in Seq(EventRecord), NEW i, Undone(i)
    PROVE  i \in DOMAIN events /\ events[i].kind = "accept"
BY DEF Undone, UndosRevert, EventFields, EventRecord

LEMMA HistoryGrows ==
    ASSUME History, NEW ev, Allowed(ev), events' = Append(events, ev)
    PROVE  History'
<1> DEFINE n == Len(events) + 1
<1>0. ev \in EventRecord
  BY DEF Allowed
<1>1. /\ Len(events) \in Nat /\ DOMAIN events = 1..Len(events)
      /\ DOMAIN events' = DOMAIN events \cup {n}
      /\ events' \in Seq(EventRecord)
      /\ events'[n] = ev
      /\ \A i \in DOMAIN events : events'[i] = events[i] /\ events[i] \in EventRecord
      /\ \A i \in DOMAIN events : i \in Nat /\ i < n /\ i > 0
  BY <1>0, Appended DEF History
<1>2. \A i \in DOMAIN events' : Undone(i)' <=> Undone(i) \/ (ev.kind = "undo" /\ ev.reverts = i)
  BY <1>0, UndoneAfter DEF History
<1> HIDE DEF n
<1>3. UndosRevert'
  <2> SUFFICES ASSUME NEW j \in DOMAIN events'
               PROVE  IF events'[j].kind = "undo"
                      THEN /\ events'[j].reverts \in 1..(j - 1)
                           /\ events'[events'[j].reverts].kind = "accept"
                           /\ events'[events'[j].reverts].subject = events'[j].subject
                      ELSE events'[j].reverts = 0
    BY DEF UndosRevert
  <2>1. CASE j \in DOMAIN events
    <3>1. 1..(j - 1) \subseteq DOMAIN events
      BY <1>1, <2>1
    <3> QED
      BY <1>1, <2>1, <3>1 DEF History, UndosRevert
  <2>2. CASE j = n
    <3>1. CASE ev.kind = "undo"
      <4>1. ev.reverts \in DOMAIN events /\ events[ev.reverts].kind = "accept"
            /\ events[ev.reverts].subject = ev.subject
        BY <3>1 DEF Allowed, Accepts
      <4>2. ev.reverts \in 1..(n - 1)
        BY <1>1, <4>1 DEF n
      <4> QED
        BY <1>1, <2>2, <3>1, <4>1, <4>2
    <3>2. CASE ev.kind # "undo"
      BY <1>1, <2>2, <3>2 DEF Allowed
    <3> QED
      BY <3>1, <3>2
  <2> QED
    BY <1>1, <2>1, <2>2
<1>4. Superseded'
  <2> SUFFICES ASSUME NEW i \in DOMAIN events', NEW j \in DOMAIN events',
                      events'[i].kind = "accept", events'[j].kind = "accept",
                      events'[i].subject = events'[j].subject, i < j
               PROVE  Undone(i)'
    BY DEF Superseded
  <2>1. i \in DOMAIN events
    BY <1>1
  <2>2. CASE j \in DOMAIN events
    BY <1>1, <1>2, <2>1, <2>2 DEF History, Superseded
  <2>3. CASE j = n
    BY <1>1, <1>2, <2>1, <2>3 DEF Allowed, Accepts
  <2> QED
    BY <1>1, <2>2, <2>3
<1>5. DecidedOnce'
  BY <1>1 DEF History, DecidedOnce, Allowed
<1>6. UndoesStandingDecision'
  <2> SUFFICES ASSUME NEW j \in DOMAIN events', events'[j].kind = "undo",
                      NEW i \in DOMAIN events', events'[i].kind = "accept",
                      events'[i].subject = events'[j].subject,
                      events'[j].reverts < i, i < j
               PROVE  FALSE
    BY DEF UndoesStandingDecision, Accepts
  <2>1. i \in DOMAIN events
    BY <1>1
  <2>2. CASE j \in DOMAIN events
    BY <1>1, <2>1, <2>2 DEF History, UndoesStandingDecision, Accepts
  <2>3. CASE j = n
    <3>1. /\ ev.reverts \in DOMAIN events /\ events[ev.reverts].kind = "accept"
          /\ events[ev.reverts].subject = ev.subject /\ ~Undone(ev.reverts)
      BY <1>1, <2>3 DEF Allowed, Accepts
    <3> QED
      BY <1>1, <2>1, <2>3, <3>1 DEF History, Superseded
  <2> QED
    BY <1>1, <2>2, <2>3
<1> QED
  BY <1>1, <1>3, <1>4, <1>5, <1>6 DEF History

LEMMA StandingTyped ==
    ASSUME History, NEW i \in Standing
    PROVE  /\ i \in DOMAIN events /\ i \in Nat \ {0} /\ events[i] \in EventRecord
           /\ events[i].subject \in Subjects
           /\ events[i].proposal.debit \in Candidates \cup {Nothing}
           /\ i \in Accepts(events[i].subject) /\ ~Undone(i)
<1>1. i \in DOMAIN events /\ events[i].kind = "accept" /\ ~Undone(i)
  BY DEF Standing
<1>2. events[i] \in EventRecord /\ i \in Nat \ {0}
  BY <1>1 DEF History
<1> QED
  BY <1>1, <1>2 DEF EventFields, EventFields, EventRecord, Proposals, Accepts

\* The decision that stands about a credit is the one that was not undone.
LEMMA OneOpen ==
    ASSUME History, NEW s, NEW i \in Accepts(s), NEW j \in Accepts(s), ~Undone(i), ~Undone(j)
    PROVE  i = j
<1>1. DOMAIN events = 1..Len(events) /\ Len(events) \in Nat
  BY DEF History
<1> QED
  BY <1>1 DEF History, Superseded, Accepts

LEMMA LiveIsOpen ==
    ASSUME History, NEW s
    PROVE  LiveAcceptance(s) = 0 <=> \A i \in Accepts(s) : Undone(i)
<1> DEFINE open == {i \in Accepts(s) : ~Undone(i)}
<1>1. CASE open = {}
  BY <1>1 DEF LiveAcceptance
<1>2. CASE open # {}
  <2>1. PICK i \in open : TRUE
    BY <1>2
  <2>2. open = {i}
    BY <2>1, OneOpen
  <2>3. i \in Nat \ {0}
    BY <2>1 DEF Accepts, History
  <2>4. LiveAcceptance(s) = Max({i})
    BY <2>2 DEF LiveAcceptance
  <2>5. Max({i}) = i
    BY <2>3 DEF Max
  <2> QED
    BY <2>1, <2>3, <2>4, <2>5
<1> QED
  BY <1>1, <1>2

LEMMA DecisionsFromHistory ==
    ASSUME FlowAssumption, FlowInv PROVE DecisionsHold
<1>1. TypeOK
  <2>1. EdgeKinds = {Relationship(flow) : flow \in Offsets \cup Transfers}
    BY DEF EdgeKinds, Relationship, Offsets, Transfers
  <2>2. \A i \in DOMAIN events : events[i].reverts \in 0..(i - 1)
    BY DEF FlowInv, History, UndosRevert
  <2> QED
    BY <2>1, <2>2 DEF TypeOK, FlowInv, LedgerTypes, Txn
<1>2. OneDecision
  <2> USE DEF OneDecision
  <2> TAKE s \in Subjects
  <2> DEFINE open == {i \in Accepts(s) : ~Undone(i)}
  <2>1. open = {} \/ \E i : open = {i}
    BY OneOpen DEF FlowInv
  <2>2. Cardinality(open) \in {0, 1}
    <3> HIDE DEF open
    <3>1. CASE open = {}
      BY <3>1, FS_EmptySet
    <3>2. ASSUME NEW i, open = {i} PROVE Cardinality(open) = 1
      BY <3>2, FS_Singleton
    <3> QED
      BY <2>1, <3>1, <3>2
  <2>3. Cardinality(open) <= 1
    BY <2>2
  <2> QED
    BY <2>3
<1> QED
  BY <1>1, <1>2 DEF DecisionsHold, FlowInv, History

-----------------------------------------------------------------------------
(* Relationships *)

\* What EdgesFit comes to, edge by edge
EdgesFitOne == \A e \in edges :
    /\ EdgeFits(e.kind, e.credit, e.debit, txns)
    /\ e.kind \in Partial => Applied(e.debit) <= txns[e.debit].amount

EdgesApart == \A e \in edges :
    /\ e.kind = "reversal_of" => Into(e.debit, Partial \cup {"reversal_of"}) = {e}
    /\ e.kind = "transfer_pair" =>
          \A f \in edges \ {e} : f.kind = "transfer_pair" =>
              f.credit # e.credit /\ f.debit # e.debit

\* The amounts of partial offsets are natural numbers.
LEMMA EmptyApplied ==
    ASSUME NEW c, Into(c, Partial) = {}
    PROVE  Applied(c) = 0
BY SumEmpty DEF Applied, SumFunction

\* A charge that has another relationship than a partial offset has no partial
\* offset.
LEMMA FitFromParts ==
    ASSUME LedgerTypes, EdgesFitOne, EdgesApart
    PROVE  EdgesFit
<1> SUFFICES ASSUME NEW e \in edges PROVE Applied(e.debit) <= txns[e.debit].amount
  BY DEF EdgesFit, EdgesFitOne, EdgesApart
<1>1. /\ e.kind \in EdgeKinds /\ e.debit \in Transactions /\ txns[e.debit].amount \in Nat
  BY DEF LedgerTypes, Txn, Transactions
<1>2. CASE e.kind \in Partial
  BY <1>2 DEF EdgesFitOne
<1>3. CASE e.kind \notin Partial
  <2>1. ASSUME NEW f \in Into(e.debit, Partial) PROVE FALSE
    <3>1. f \in edges /\ f.kind \in Partial /\ f.debit = e.debit
      BY DEF Into
    <3>2. txns[e.debit].flow \in Spending
      BY <3>1 DEF EdgesFitOne, EdgeFits, Partial
    <3>3. CASE e.kind = "transfer_pair"
      <4>1. txns[e.debit].flow \in Transfers
        BY <3>3 DEF EdgesFitOne, EdgeFits
      <4> QED
        BY <3>2, <4>1 DEF Transfers, Spending
    <3>4. CASE e.kind = "reversal_of"
      <4>1. f \in Into(e.debit, Partial \cup {"reversal_of"})
        BY <3>1 DEF Into
      <4>2. f = e
        BY <3>4, <4>1 DEF EdgesApart
      <4> QED
        BY <3>1, <3>4, <4>2 DEF Partial
    <3> QED
      BY <1>1, <1>3, <3>3, <3>4 DEF EdgeKinds, Partial
  <2>2. Applied(e.debit) = 0
    BY <2>1, EmptyApplied
  <2> QED
    BY <1>1, <2>2
<1> QED
  BY <1>2, <1>3

LEMMA PartsFromFit == ASSUME EdgesFit PROVE EdgesFitOne /\ EdgesApart
BY DEF EdgesFit, EdgesFitOne, EdgesApart

\* Sums of the same amounts
LEMMA AppliedSame ==
    ASSUME NEW S, IsFiniteSet(S), NEW one, NEW two,
           \A e \in S : one[e.credit].amount = two[e.credit].amount
    PROVE  SumFunction([e \in S |-> one[e.credit].amount]) =
             SumFunction([e \in S |-> two[e.credit].amount])
<1> DEFINE f == [e \in S |-> one[e.credit].amount]
           g == [e \in S |-> two[e.credit].amount]
<1>1. SumFunctionOnSet(f, S) = SumFunctionOnSet(g, S)
  <2>1. \A e \in S : f[e] = g[e]
    OBVIOUS
  <2> HIDE DEF f, g
  <2> QED
    BY <2>1, SumSame
<1>2. SumFunction(f) = SumFunctionOnSet(f, S) /\ SumFunction(g) = SumFunctionOnSet(g, S)
  BY DEF SumFunction
<1> QED
  BY <1>1, <1>2

\* A change of the transactions of T that every edge of theirs was checked
\* against leaves all other edges fitting too.
LEMMA KeptEdgesFit ==
    ASSUME LedgerTypes, EdgesFit, NEW T \in SUBSET Transactions, NEW kept \in SUBSET edges,
           NEW after \in [Transactions -> Txn],
           \A t \in Transactions \ T : after[t] = txns[t],
           \A t \in T : KeepsEdges(t, after, kept),
           \A e \in edges \ kept : e.debit \in T
    PROVE  \A e \in kept :
             /\ EdgeFits(e.kind, e.credit, e.debit, after)
             /\ e.kind \in Partial =>
                  SumFunction([f \in Into(e.debit, Partial) \cap kept |-> after[f.credit].amount])
                      <= after[e.debit].amount
<1> SUFFICES ASSUME NEW e \in kept
             PROVE  /\ EdgeFits(e.kind, e.credit, e.debit, after)
                    /\ e.kind \in Partial =>
                       SumFunction([f \in Into(e.debit, Partial) \cap kept
                                        |-> after[f.credit].amount]) <= after[e.debit].amount
  OBVIOUS
<1>1. e \in edges /\ e.credit \in Transactions /\ e.debit \in Transactions
  BY DEF LedgerTypes, Transactions
<1>2. CASE e.credit \in T \/ e.debit \in T
  BY <1>2 DEF KeepsEdges
<1>3. CASE e.credit \notin T /\ e.debit \notin T
  <2>1. after[e.credit] = txns[e.credit] /\ after[e.debit] = txns[e.debit]
    BY <1>1, <1>3
  <2>2. EdgeFits(e.kind, e.credit, e.debit, after)
    BY <1>1, <2>1 DEF EdgesFit, EdgeFits
  <2>3. ASSUME e.kind \in Partial
        PROVE  SumFunction([f \in Into(e.debit, Partial) \cap kept |-> after[f.credit].amount])
                   <= after[e.debit].amount
    <3> DEFINE S == Into(e.debit, Partial) \cap kept
    <3>1. CASE \E g \in S : g.credit \in T
      <4>1. PICK g \in S : g.credit \in T
        BY <3>1
      <4>2. g \in kept /\ g.kind \in Partial /\ g.debit = e.debit
        BY <4>1 DEF Into
      <4>3. KeepsEdges(g.credit, after, kept)
        BY <4>1
      <4> QED
        BY <4>2, <4>3 DEF KeepsEdges
    <3>2. CASE \A g \in S : g.credit \notin T
      <4>1. S = Into(e.debit, Partial)
        BY <1>3 DEF Into
      <4>2. \A g \in S : after[g.credit].amount = txns[g.credit].amount
        BY <3>2 DEF LedgerTypes, Transactions, Into
      <4>3. IsFiniteSet(S)
        BY FS_Subset DEF LedgerTypes
      <4>4. SumFunction([f \in S |-> after[f.credit].amount]) =
              SumFunction([f \in S |-> txns[f.credit].amount])
        <5> HIDE DEF S
        <5> QED
          BY <4>2, <4>3, AppliedSame
      <4>5. SumFunction([f \in S |-> txns[f.credit].amount]) = Applied(e.debit)
        BY <4>1 DEF Applied
      <4>6. Applied(e.debit) <= txns[e.debit].amount
        BY <1>1 DEF EdgesFit
      <4> QED
        BY <2>1, <4>4, <4>5, <4>6
    <3> QED
      BY <3>1, <3>2
  <2> QED
    BY <2>2, <2>3
<1> QED
  BY <1>2, <1>3

\* So all edges fit after a step that revokes edges or keeps them.
LEMMA FitKept ==
    ASSUME LedgerTypes, EdgesFit, LedgerTypes', edges' \subseteq edges,
           NEW T \in SUBSET Transactions,
           \A t \in Transactions \ T : txns'[t] = txns[t],
           \A t \in T : KeepsEdges(t, txns', edges'),
           \A e \in edges \ edges' : e.debit \in T
    PROVE  EdgesFit'
<1>1. txns' \in [Transactions -> Txn]
  BY DEF LedgerTypes
<1>2. \A e \in edges' :
        /\ EdgeFits(e.kind, e.credit, e.debit, txns')
        /\ e.kind \in Partial =>
             SumFunction([f \in Into(e.debit, Partial) \cap edges' |-> txns'[f.credit].amount])
                 <= txns'[e.debit].amount
  BY <1>1, KeptEdgesFit
<1>3. \A c, kinds : Into(c, kinds) \cap edges' = {e \in edges' : e.debit = c /\ e.kind \in kinds}
  BY DEF Into
<1>4. EdgesFitOne'
  <2> SUFFICES ASSUME NEW e \in edges'
               PROVE  /\ EdgeFits(e.kind, e.credit, e.debit, txns')
                      /\ e.kind \in Partial =>
                           SumFunction([f \in {g \in edges' : g.debit = e.debit /\ g.kind \in Partial}
                                            |-> txns'[f.credit].amount]) <= txns'[e.debit].amount
    BY DEF EdgesFitOne, Applied, Into, EdgeFits
  <2>1. Into(e.debit, Partial) \cap edges' =
          {g \in edges' : g.debit = e.debit /\ g.kind \in Partial}
    BY <1>3
  <2> QED
    BY <1>2, <2>1
<1>5. EdgesApart'
  <2> SUFFICES ASSUME NEW e \in edges'
               PROVE  /\ e.kind = "reversal_of" =>
                           {g \in edges' : g.debit = e.debit
                                 /\ g.kind \in Partial \cup {"reversal_of"}} = {e}
                      /\ e.kind = "transfer_pair" =>
                           \A f \in edges' \ {e} : f.kind = "transfer_pair" =>
                              f.credit # e.credit /\ f.debit # e.debit
    BY DEF EdgesApart, Into
  <2>1. EdgesApart
    BY PartsFromFit
  <2> QED
    BY <2>1 DEF EdgesApart, Into
<1>6. LedgerTypes' /\ EdgesFitOne' /\ EdgesApart' => EdgesFit'
  BY FitFromParts, PTL
<1> QED
  BY <1>4, <1>5, <1>6

\* An accepted pair adds an edge that there is room for.
LEMMA FitAdded ==
    ASSUME LedgerTypes, EdgesFit, LedgerTypes', NEW s \in Subjects, NEW c \in Candidates,
           NEW edge, edge \notin edges, edges' = edges \cup {edge},
           edge.credit = s, edge.debit = c, edge.kind \in EdgeKinds,
           \A t \in Transactions \ {s, c} : txns'[t] = txns[t],
           \A t \in Transactions : txns'[t].amount = txns[t].amount,
           KeepsEdges(s, txns', edges), KeepsEdges(c, txns', edges),
           EdgeFits(edge.kind, s, c, txns'), Room(edge.kind, s, c, txns')
    PROVE  EdgesFit'
<1>1. txns' \in [Transactions -> Txn] /\ s \in Transactions /\ c \in Transactions
  BY DEF LedgerTypes, Transactions
<1>2. \A e \in edges :
        /\ EdgeFits(e.kind, e.credit, e.debit, txns')
        /\ e.kind \in Partial =>
             SumFunction([f \in Into(e.debit, Partial) \cap edges |-> txns'[f.credit].amount])
                 <= txns'[e.debit].amount
  <2> DEFINE T == {s, c}
  <2>1. T \in SUBSET Transactions /\ edges \in SUBSET edges
        /\ (\A t \in T : KeepsEdges(t, txns', edges)) /\ (\A e \in edges \ edges : e.debit \in T)
    BY <1>1
  <2> HIDE DEF T
  <2>2. \A t \in Transactions \ T : txns'[t] = txns[t]
    BY DEF T
  <2> QED
    BY <1>1, <2>1, <2>2, KeptEdgesFit
<1>3. \A d : Into(d, Partial)' = Into(d, Partial) \cup
                (IF edge.kind \in Partial /\ d = c THEN {edge} ELSE {})
  BY DEF Into
<1>4. \A d : Into(d, Partial) \cap edges = Into(d, Partial)
  BY DEF Into
<1>5. \A d : IsFiniteSet(Into(d, Partial)) /\ IsFiniteSet(Into(d, Partial)')
  <2> TAKE d
  <2>1. Into(d, Partial) \in SUBSET edges /\ Into(d, Partial)' \in SUBSET edges'
    BY DEF Into
  <2>2. IsFiniteSet(edges) /\ IsFiniteSet(edges')
    BY DEF LedgerTypes
  <2> QED
    BY <2>1, <2>2, FS_Subset
<1>6. ASSUME edge.kind \in Partial PROVE Applied(c)' <= txns'[c].amount
  <2> DEFINE S == Into(c, Partial)
             amount == [e \in S \cup {edge} |-> txns'[e.credit].amount]
  <2>1. ~Reversed(c) /\ Applied(c) + txns'[s].amount <= txns'[c].amount
    BY <1>6 DEF Room, Partial
  <2>2. Applied(c)' = SumFunctionOnSet(amount, S \cup {edge})
    <3>1. Into(c, Partial)' = S \cup {edge}
      BY <1>3, <1>6
    <3>2. Applied(c)' = SumFunction([e \in Into(c, Partial)' |-> txns'[e.credit].amount])
      BY DEF Applied, Into
    <3>3. Applied(c)' = SumFunction([e \in S \cup {edge} |-> txns'[e.credit].amount])
      BY <3>1, <3>2
    <3>4. SumFunction(amount) = SumFunctionOnSet(amount, S \cup {edge})
      <4> HIDE DEF S
      <4> QED
        BY DEF SumFunction
    <3> QED
      BY <3>3, <3>4
  <2>3. IsFiniteSet(S) /\ edge \notin S
    BY <1>5 DEF Into
  <2>4. \A e \in S \cup {edge} : amount[e] \in Nat
    <3> SUFFICES ASSUME NEW e \in S \cup {edge} PROVE txns'[e.credit].amount \in Nat
      OBVIOUS
    <3>1. e \in edges'
      BY DEF Into
    <3>2. e.credit \in Transactions
      BY <3>1 DEF LedgerTypes, Transactions
    <3> QED
      BY <1>1, <3>2 DEF Txn
  <2>5. SumFunctionOnSet(amount, S) = Applied(c)
    <3> DEFINE before == [e \in S |-> txns[e.credit].amount]
    <3>1. \A e \in S : amount[e] = before[e]
      BY DEF Into, LedgerTypes, Transactions
    <3>2. SumFunctionOnSet(amount, S) = SumFunctionOnSet(before, S)
      <4> HIDE DEF amount, before, S
      <4> QED
        BY <2>3, <3>1, SumSame
    <3>3. SumFunction(before) = SumFunctionOnSet(before, S)
      <4> HIDE DEF S
      <4> QED
        BY DEF SumFunction
    <3> QED
      BY <3>2, <3>3 DEF Applied
  <2>6. amount[edge] = txns'[s].amount
    OBVIOUS
  <2>7. SumFunctionOnSet(amount, S \cup {edge}) = SumFunctionOnSet(amount, S) + amount[edge]
    <3> HIDE DEF amount, S
    <3> QED
      BY <2>3, <2>4, SumAdd
  <2> QED
    BY <2>1, <2>2, <2>5, <2>6, <2>7
<1>7. ASSUME NEW d, edge.kind \notin Partial \/ d # c
      PROVE  Applied(d)' = SumFunction([f \in Into(d, Partial) \cap edges |-> txns'[f.credit].amount])
  BY <1>3, <1>4, <1>7 DEF Applied, Into
<1>8. EdgesFitOne'
  <2> SUFFICES ASSUME NEW e \in edges'
               PROVE  /\ EdgeFits(e.kind, e.credit, e.debit, txns')
                      /\ e.kind \in Partial => Applied(e.debit)' <= txns'[e.debit].amount
    BY DEF EdgesFitOne, Applied, Into, EdgeFits
  <2>1. CASE e = edge
    BY <1>6, <2>1
  <2>2. CASE e \in edges
    <3>1. CASE edge.kind \in Partial /\ e.debit = c
      BY <1>2, <1>6, <2>2, <3>1
    <3>2. CASE edge.kind \notin Partial \/ e.debit # c
      BY <1>2, <1>7, <2>2, <3>2
    <3> QED
      BY <3>1, <3>2
  <2> QED
    BY <2>1, <2>2
<1>9. EdgesApart'
  <2>1. EdgesApart
    BY PartsFromFit
  <2>2. ASSUME NEW e \in edges', e.kind = "reversal_of"
        PROVE  {g \in edges' : g.debit = e.debit /\ g.kind \in Partial \cup {"reversal_of"}} = {e}
    <3>1. CASE e = edge
      <4>1. Into(c, Partial \cup {"reversal_of"}) = {}
        BY <2>2, <3>1 DEF Room, Partial
      <4> QED
        BY <2>2, <3>1, <4>1 DEF Into
    <3>2. CASE e \in edges
      <4>1. Into(e.debit, Partial \cup {"reversal_of"}) = {e}
        BY <2>1, <2>2, <3>2 DEF EdgesApart
      <4>2. CASE edge.kind \in Partial
        <5>1. ~Reversed(c)
          BY <4>2 DEF Room, Partial
        <5>2. e.debit # c
          BY <2>2, <3>2, <5>1 DEF Reversed, Into
        <5> QED
          BY <4>1, <5>2, <3>2 DEF Into
      <4>3. CASE edge.kind = "reversal_of"
        <5>1. Into(c, Partial \cup {"reversal_of"}) = {}
          BY <4>3 DEF Room, Partial
        <5>2. e.debit # c
          BY <2>2, <3>2, <5>1 DEF Into
        <5> QED
          BY <4>1, <5>2, <3>2 DEF Into
      <4>4. CASE edge.kind = "transfer_pair"
        BY <4>1, <4>4, <3>2 DEF Into, Partial
      <4> QED
        BY <4>2, <4>3, <4>4 DEF EdgeKinds, Partial
    <3> QED
      BY <3>1, <3>2
  <2>3. ASSUME NEW e \in edges', e.kind = "transfer_pair",
               NEW f \in edges' \ {e}, f.kind = "transfer_pair"
        PROVE  f.credit # e.credit /\ f.debit # e.debit
    <3>1. CASE edge.kind = "transfer_pair"
      <4>1. ~Paired(s) /\ ~Paired(c)
        BY <3>1 DEF Room, Partial
      <4>2. \A g \in edges : g.kind = "transfer_pair" => g.credit # s /\ g.debit # c
        BY <4>1 DEF Paired
      <4> QED
        BY <2>1, <2>3, <4>2 DEF EdgesApart
    <3>2. CASE edge.kind # "transfer_pair"
      BY <2>1, <2>3, <3>2 DEF EdgesApart
    <3> QED
      BY <3>1, <3>2
  <2> QED
    BY <2>2, <2>3 DEF EdgesApart, Into
<1>10. LedgerTypes' /\ EdgesFitOne' /\ EdgesApart' => EdgesFit'
  BY FitFromParts, PTL
<1> QED
  BY <1>8, <1>9, <1>10

-----------------------------------------------------------------------------
(* What the invariant says *)

LEMMA FlowsFromInv ==
    ASSUME FlowInv PROVE FlowsFollowDecisions
<1>1. EdgesAreDecisions
  <2>1. {i \in DOMAIN events :
           events[i].kind = "accept" /\ events[i].proposal.debit # Nothing /\ ~Undone(i)}
        = {i \in Standing : events[i].proposal.debit # Nothing}
    BY DEF Standing
  <2> QED
    BY <2>1 DEF EdgesAreDecisions, FlowInv, EdgesStand
<1>2. DecidedRowsStay
  <2> SUFFICES ASSUME NEW s \in Subjects, LiveAcceptance(s) # 0 PROVE rows[s] # "corrected"
    BY DEF DecidedRowsStay
  <2>1. PICK i \in Accepts(s) : ~Undone(i)
    BY LiveIsOpen DEF FlowInv
  <2>2. i \in Standing /\ events[i].subject = s
    BY <2>1 DEF Accepts, Standing
  <2> QED
    BY <2>2 DEF FlowInv, RowsStay
<1>3. UndoneLeavesNoTrace
  <2> SUFFICES ASSUME NEW t \in Transactions \ edited,
                      \A i \in DOMAIN events : events[i].kind = "accept"
                         /\ t \in {events[i].subject, events[i].proposal.debit} => Undone(i)
               PROVE  txns[t].flow \in Blank /\ txns[t].category \in Expenses
    BY DEF UndoneLeavesNoTrace, Blank
  <2>1. \A i \in Standing : t \notin {events[i].subject, events[i].proposal.debit}
    BY DEF Standing
  <2> QED
    BY <2>1 DEF FlowInv, NoTrace
<1> QED
  BY <1>1, <1>2, <1>3 DEF FlowsFollowDecisions, FlowInv

LEMMA FlowsAtFirst ==
    ASSUME FlowAssumption, Init PROVE FlowInv
<1>1. events = << >> /\ DOMAIN events = {} /\ edges = {} /\ edited = {}
  BY DEF Init
<1>2. Standing = {}
  BY <1>1 DEF Standing
<1>3. txns \in [Transactions -> Txn]
  <2>1. \A t \in Transactions : Booked(t) \in Txn
    BY DEF Booked, Txn, FlowAssumption, Flows, Categories, Expenses
  <2> QED
    BY <2>1 DEF Init
<1>4. LedgerTypes
  BY <1>1, <1>3, FS_EmptySet DEF Init, LedgerTypes
<1>5. History
  BY <1>1 DEF History, UndosRevert, Superseded, DecidedOnce, UndoesStandingDecision
<1>6. EdgesNamed /\ EdgesStand /\ EdgesFit /\ RowsStay /\ CreditsWereBlank
  BY <1>1, <1>2 DEF EdgesNamed, EdgesStand, EdgesFit, RowsStay, CreditsWereBlank, Accepts
<1>7. \A t \in Transactions : txns[t].flow \in Blank /\ txns[t].category \in Expenses
  BY DEF Init, Booked, Blank, Expenses
<1>8. DebitsWereBlank /\ NoTrace
  BY <1>2, <1>7 DEF DebitsWereBlank, NoTrace, Transactions
<1> QED
  BY <1>4, <1>5, <1>6, <1>8 DEF FlowInv

-----------------------------------------------------------------------------
(* Steps that decide nothing *)

\* The events that count are the same.
Quiet ==
    /\ History'
    /\ \A i \in DOMAIN events : i \in DOMAIN events' /\ events'[i] = events[i]
    /\ Standing' = Standing
    /\ \A s \in Subjects : Accepts(s)' = Accepts(s)

LEMMA NoEvent == ASSUME History, events' = events PROVE Quiet
BY DEF Quiet, History, UndosRevert, Superseded, DecidedOnce, UndoesStandingDecision, Undone,
       Standing, Accepts

LEMMA StandingAfter ==
    ASSUME History, NEW ev, Allowed(ev), events' = Append(events, ev)
    PROVE  /\ ev.kind = "accept" => Standing' = Standing \cup {Len(events) + 1}
           /\ ev.kind = "undo" => Standing' = Standing \ {ev.reverts}
           /\ ev.kind \notin {"accept", "undo"} => Standing' = Standing
<1>0. ev \in EventRecord
  BY DEF Allowed
<1> DEFINE n == Len(events) + 1
<1>1. /\ DOMAIN events' = DOMAIN events \cup {n}
      /\ n \notin DOMAIN events
      /\ events'[n] = ev
      /\ \A i \in DOMAIN events : events'[i] = events[i]
  BY <1>0, Appended DEF History
<1>2. \A i \in DOMAIN events' : Undone(i)' <=> Undone(i) \/ (ev.kind = "undo" /\ ev.reverts = i)
  BY <1>0, UndoneAfter DEF History
<1>3. ~Undone(n)
  BY <1>1, NothingUndoneEarly DEF History
<1> HIDE DEF n
<1>4. Standing' = {i \in DOMAIN events' : events'[i].kind = "accept" /\ ~Undone(i)'}
  BY DEF Standing
<1>5. CASE ev.kind = "accept"
  BY <1>1, <1>2, <1>3, <1>4, <1>5 DEF Standing, n
<1>6. CASE ev.kind = "undo"
  BY <1>1, <1>2, <1>4, <1>6 DEF Standing
<1>7. CASE ev.kind \notin {"accept", "undo"}
  BY <1>1, <1>2, <1>4, <1>7 DEF Standing
<1> QED
  BY <1>5, <1>6, <1>7

LEMMA QuietEvent ==
    ASSUME History, NEW ev, Allowed(ev), events' = Append(events, ev),
           ev.kind \notin {"accept", "undo"}
    PROVE  Quiet
<1>0. ev \in EventRecord
  BY DEF Allowed
<1>1. /\ DOMAIN events' = DOMAIN events \cup {Len(events) + 1}
      /\ events'[Len(events) + 1] = ev
      /\ \A i \in DOMAIN events : events'[i] = events[i]
  BY <1>0, Appended DEF History
<1>2. \A s \in Subjects : Accepts(s)' = Accepts(s)
  BY <1>1 DEF Accepts
<1>3. Standing' = Standing
  BY StandingAfter
<1> QED
  BY <1>1, <1>2, <1>3, HistoryGrows DEF Quiet

LEMMA QuietKeeps ==
    ASSUME FlowInv, Quiet, edges' = edges, edited \subseteq edited',
           \A c \in Candidates \ edited' : txns'[c].category = txns[c].category
    PROVE  EdgesNamed' /\ EdgesStand' /\ CreditsWereBlank' /\ DebitsWereBlank'
<1>1. Standing \subseteq DOMAIN events /\ \A s : Accepts(s) \subseteq DOMAIN events
  BY DEF Standing, Accepts
<1>2. EdgesNamed'
  BY DEF FlowInv, EdgesNamed, Quiet, LedgerTypes
<1>3. EdgesStand'
  BY <1>1 DEF FlowInv, EdgesStand, Quiet
<1>4. CreditsWereBlank'
  <2> SUFFICES ASSUME NEW s \in Subjects \ edited', NEW i \in Accepts(s)'
               PROVE  events'[i].prior.flow \in Blank /\ events'[i].prior.category \in Expenses
    BY DEF CreditsWereBlank
  <2>1. i \in Accepts(s) /\ i \in DOMAIN events /\ events'[i] = events[i]
    BY <1>1 DEF Quiet
  <2> QED
    BY <2>1 DEF FlowInv, CreditsWereBlank
<1>5. DebitsWereBlank'
  BY <1>1 DEF FlowInv, DebitsWereBlank, Quiet
<1> QED
  BY <1>2, <1>3, <1>4, <1>5

\* A quiet step keeps the invariant when it checks the edges that it touches and
\* leaves the rows of decided credits, and clean transactions clean.
LEMMA QuietStep ==
    ASSUME FlowInv, Quiet, LedgerTypes', edges' = edges, edited \subseteq edited',
           NEW T \in SUBSET Transactions,
           \A t \in Transactions \ T : txns'[t] = txns[t],
           \A t \in T : KeepsEdges(t, txns', edges),
           \A i \in Standing : rows[events[i].subject] # "corrected"
                                  => rows'[events[i].subject] # "corrected",
           \A t \in Transactions \ edited' : \/ txns'[t] = txns[t]
                                             \/ /\ txns'[t].flow \in Blank
                                                /\ txns'[t].category \in Expenses
                                                /\ t \notin Candidates
    PROVE  FlowInv'
<1>1. EdgesNamed' /\ EdgesStand' /\ CreditsWereBlank' /\ DebitsWereBlank'
  BY QuietKeeps DEF Transactions
<1>2. EdgesFit'
  <2>1. \A t \in T : KeepsEdges(t, txns', edges')
    BY DEF KeepsEdges
  <2> QED
    BY <2>1, FitKept DEF FlowInv
<1>3. RowsStay'
  BY DEF FlowInv, RowsStay, Quiet, Standing
<1>4. NoTrace'
  <2> SUFFICES ASSUME NEW t \in Transactions \ edited',
                      \A i \in Standing' : t \notin {events'[i].subject, events'[i].proposal.debit}
               PROVE  txns'[t].flow \in Blank /\ txns'[t].category \in Expenses
    BY DEF NoTrace
  <2>1. \A i \in Standing : t \notin {events[i].subject, events[i].proposal.debit}
    BY DEF Quiet, Standing
  <2> QED
    BY <2>1 DEF FlowInv, NoTrace
<1> QED
  BY <1>1, <1>2, <1>3, <1>4 DEF FlowInv, Quiet

\* What proposals are about
LEMMA ProposalKinds ==
    ASSUME FlowAssumption, LedgerTypes, NEW s \in Subjects, NEW p \in AllProposals(s)
    PROVE  /\ p \in Proposals
           /\ p.debit = Nothing => p.flow \in Earned
           /\ p.debit # Nothing => /\ p.debit \in Candidates
                                   /\ p.flow \in Offsets \cup Transfers
                                   /\ p.debitFlow \in Transfers \cup Spending
<1>1. Nothing \notin Candidates
  BY DEF FlowAssumption, Transactions
<1>2. CASE p \in ClassificationProposals
  BY <1>2 DEF ClassificationProposals, Proposal, Proposals, Flows
<1>3. CASE p \in PairProposals(s)
  <2>1. PICK c \in Candidates :
          \/ \E flow \in TransferFlows(s, c) : p = Proposal(flow, c, flow)
          \/ \E flow \in PartialFlows(s, c) \cup ReversalFlows(s, c) :
                p = Proposal(flow, c, SpendingFlow(c))
    BY <1>3 DEF PairProposals
  <2>2. TransferFlows(s, c) \subseteq Transfers
        /\ PartialFlows(s, c) \cup ReversalFlows(s, c) \subseteq Offsets
        /\ SpendingFlow(c) \in Spending
    BY DEF TransferFlows, TransferFlow, PartialFlows, ReversalFlows, Transfers, Offsets,
           SpendingFlow, Spending
  <2>3. Transfers \cup Offsets \cup Spending \subseteq Flows
    BY DEF Flows
  <2>4. CASE \E flow \in TransferFlows(s, c) : p = Proposal(flow, c, flow)
    BY <1>1, <2>2, <2>3, <2>4 DEF Proposal, Proposals
  <2>5. CASE \E flow \in PartialFlows(s, c) \cup ReversalFlows(s, c) :
                p = Proposal(flow, c, SpendingFlow(c))
    BY <1>1, <2>2, <2>3, <2>5 DEF Proposal, Proposals
  <2> QED
    BY <2>1, <2>4, <2>5
<1> QED
  BY <1>2, <1>3 DEF AllProposals

LEMMA EventTyped ==
    ASSUME FlowAssumption, LedgerTypes, NEW k \in Nat,
           NEW kind \in {"intake", "reject", "restore", "accept", "undo"},
           NEW s \in Subjects, NEW p \in Proposals, NEW reverts \in Nat,
           NEW cat \in Categories \cup {Nothing}
    PROVE  Event(k, kind, s, p, reverts, cat) \in EventRecord
<1>1. s \in Transactions /\ txns[s] \in Txn
  BY DEF LedgerTypes, Transactions
<1>2. p.debit # Nothing => txns[p.debit].flow \in Flows
  BY DEF LedgerTypes, Transactions, Proposals, Txn
<1> QED
  BY <1>1, <1>2 DEF Event, EventFields, EventRecord

LEMMA EdgesKeepTypes ==
    ASSUME LedgerTypes, History, History', Quiet
    PROVE  edges \subseteq [kind : EdgeKinds, credit : Subjects, debit : Candidates,
                            event : DOMAIN events']
BY DEF LedgerTypes, Quiet

LEMMA RecoverKeeps ==
    ASSUME FlowAssumption, FlowInv, NEW s \in Subjects, NEW k \in Nat, recover_positive_line(s, k)
    PROVE  FlowInv'
<1>0. s \in Transactions /\ s \notin Candidates
  BY DEF Transactions, FlowAssumption
<1>1. Allowed(IntakeEvent(s, k)) /\ IntakeEvent(s, k).kind = "intake"
  <2>1. Intake \in Proposals
    BY DEF Intake, Proposal, Proposals, Flows
  <2>2. IntakeEvent(s, k) \in EventRecord
    BY <2>1, EventTyped DEF IntakeEvent, FlowInv
  <2> QED
    BY <2>2 DEF Allowed, IntakeEvent, Event, recover_positive_line, Fresh
<1>2. Quiet
  BY <1>1, QuietEvent DEF recover_positive_line, FlowInv
<1>3. \/ txns' = txns
      \/ txns[s].flow = "absent" /\ txns' = [txns EXCEPT ![s] = Booked(s)]
  BY DEF recover_positive_line
<1>4. Booked(s) \in Txn /\ Booked(s).flow \in Blank /\ Booked(s).category \in Expenses
  BY <1>0 DEF Booked, Txn, Flows, Categories, Expenses, FlowAssumption, Blank
<1>5. txns' \in [Transactions -> Txn] /\ \A t \in Transactions \ {s} : txns'[t] = txns[t]
  BY <1>3, <1>4 DEF FlowInv, LedgerTypes
<1>6. edges' = edges /\ edited' = edited
      /\ rows' = [rows EXCEPT ![s] = "claimed"]
  BY DEF recover_positive_line
<1>7. LedgerTypes'
  <2>1. rows' \in [Subjects -> {"loose", "claimed", "corrected"}]
    BY <1>6 DEF FlowInv, LedgerTypes
  <2> QED
    BY <1>2, <1>5, <1>6, <2>1, EdgesKeepTypes DEF FlowInv, LedgerTypes, Quiet
<1> DEFINE T == IF txns' = txns THEN {} ELSE {s}
<1>8. \A t \in T : KeepsEdges(t, txns', edges)
  <2> SUFFICES ASSUME txns[s].flow = "absent", NEW e \in edges, s \in {e.credit, e.debit}
               PROVE  FALSE
    BY <1>3 DEF KeepsEdges
  <2>1. e.credit = s /\ e.kind \in EdgeKinds
    BY <1>0 DEF FlowInv, LedgerTypes
  <2>2. EdgeFits(e.kind, s, e.debit, txns)
    BY <2>1 DEF FlowInv, EdgesFit
  <2>3. Relationship("absent") = Nothing
    BY DEF Relationship, Transfers
  <2> QED
    BY <2>1, <2>2, <2>3 DEF EdgeFits, Transfers, EdgeKinds, Nothing
<1>9. \A t \in Transactions \ T : txns'[t] = txns[t]
  BY <1>5
<1>10. T \in SUBSET Transactions
  BY <1>0
<1>11. \A i \in Standing : rows[events[i].subject] # "corrected" => rows'[events[i].subject] # "corrected"
  <2> TAKE i \in Standing
  <2>1. events[i].subject \in Subjects
    BY StandingTyped DEF FlowInv
  <2> QED
    BY <1>6, <2>1 DEF FlowInv, LedgerTypes
<1>12. \A t \in Transactions \ edited' :
         \/ txns'[t] = txns[t]
         \/ txns'[t].flow \in Blank /\ txns'[t].category \in Expenses /\ t \notin Candidates
  BY <1>0, <1>3, <1>4, <1>5 DEF FlowInv, LedgerTypes
<1> HIDE DEF T
<1> QED
  BY <1>2, <1>6, <1>7, <1>8, <1>9, <1>10, <1>11, <1>12, QuietStep

LEMMA RejectOrRestoreKeeps ==
    ASSUME FlowAssumption, FlowInv, NEW s \in Subjects, NEW p \in AllProposals(s), NEW k \in Nat,
           reject_proposal(s, p, k) \/ restore_proposal(s, p, k)
    PROVE  FlowInv'
<1>1. PICK kind \in {"reject", "restore"} :
        /\ Fresh(k)
        /\ events' = Append(events, Event(k, kind, s, p, 0, Nothing))
  BY DEF reject_proposal, restore_proposal, Current
<1>2. UNCHANGED <<txns, edges, rows, edited, locked>>
  BY DEF reject_proposal, restore_proposal
<1> DEFINE ev == Event(k, kind, s, p, 0, Nothing)
<1>3. Allowed(ev) /\ ev.kind \notin {"accept", "undo"}
  <2>1. p \in Proposals
    BY ProposalKinds DEF FlowInv
  <2>2. ev \in EventRecord
    BY <2>1, EventTyped DEF FlowInv
  <2>3. ev.key = k /\ ev.kind = kind /\ ev.reverts = 0
    BY DEF Event
  <2> HIDE DEF ev
  <2> QED
    BY <1>1, <2>2, <2>3 DEF Allowed, Fresh
<1> HIDE DEF ev
<1>4. Quiet
  BY <1>1, <1>3, QuietEvent DEF FlowInv, ev
<1>5. LedgerTypes'
  BY <1>2, <1>4, EdgesKeepTypes DEF FlowInv, LedgerTypes, Quiet
<1> DEFINE T == {}
<1>6. T \in SUBSET Transactions /\ (\A t \in T : KeepsEdges(t, txns', edges))
  OBVIOUS
<1> HIDE DEF T
<1> QED
  BY <1>2, <1>4, <1>5, <1>6, QuietStep

LEMMA CorrectRowKeeps ==
    ASSUME FlowInv, NEW s \in Subjects, correct_row(s) PROVE FlowInv'
<1>1. Quiet
  BY NoEvent DEF correct_row, FlowInv
<1>2. /\ UNCHANGED <<txns, edges, events, edited, locked>>
      /\ rows' = [rows EXCEPT ![s] = "corrected"] /\ CorrectableRow(s)
  BY DEF correct_row
<1>3. LedgerTypes'
  BY <1>2 DEF FlowInv, LedgerTypes
<1>4. \A i \in Standing : rows[events[i].subject] # "corrected" => rows'[events[i].subject] # "corrected"
  <2> TAKE i \in Standing
  <2>1. events[i].subject \in Subjects /\ i \in Accepts(events[i].subject) /\ ~Undone(i)
    BY StandingTyped DEF FlowInv
  <2>2. events[i].subject # s
    BY <1>2, <2>1, LiveIsOpen DEF CorrectableRow, FlowInv
  <2> QED
    BY <1>2, <2>1, <2>2 DEF FlowInv, LedgerTypes
<1> DEFINE T == {}
<1>5. T \in SUBSET Transactions /\ (\A t \in T : KeepsEdges(t, txns', edges))
  OBVIOUS
<1> HIDE DEF T
<1> QED
  BY <1>1, <1>2, <1>3, <1>4, <1>5, QuietStep

LEMMA UnreconcileKeeps ==
    ASSUME FlowAssumption, FlowInv, NEW s \in Subjects, unreconcile(s) PROVE FlowInv'
<1>0. s \in Transactions /\ s \notin Candidates
  BY DEF Transactions, FlowAssumption
<1>1. Quiet
  BY NoEvent DEF unreconcile, FlowInv
<1>2. /\ UNCHANGED <<edges, events, edited, locked>>
      /\ rows' = [rows EXCEPT ![s] = "loose"]
  BY DEF unreconcile
<1>3. \/ txns' = txns
      \/ /\ \A i \in DOMAIN events : events[i].subject # s
         /\ txns' = [txns EXCEPT ![s].flow = "absent"] /\ s \notin edited
  BY DEF unreconcile
<1>4. txns' \in [Transactions -> Txn] /\ \A t \in Transactions \ {s} : txns'[t] = txns[t]
  BY <1>3 DEF FlowInv, LedgerTypes, Txn, Flows
<1>5. LedgerTypes'
  BY <1>2, <1>4 DEF FlowInv, LedgerTypes
<1> DEFINE T == IF txns' = txns THEN {} ELSE {s}
<1>6. \A t \in T : KeepsEdges(t, txns', edges)
  <2> SUFFICES ASSUME \A i \in DOMAIN events : events[i].subject # s,
                      NEW e \in edges, s \in {e.credit, e.debit}
               PROVE  FALSE
    BY <1>3 DEF KeepsEdges
  <2>1. e.credit = s /\ e.event \in DOMAIN events
    BY <1>0 DEF FlowInv, LedgerTypes
  <2> QED
    BY <2>1 DEF FlowInv, EdgesNamed
<1>7. \A t \in Transactions \ T : txns'[t] = txns[t]
  BY <1>4
<1>8. T \in SUBSET Transactions
  BY <1>0
<1>9. \A i \in Standing : rows[events[i].subject] # "corrected" => rows'[events[i].subject] # "corrected"
  <2> TAKE i \in Standing
  <2>1. events[i].subject \in Subjects
    BY StandingTyped DEF FlowInv
  <2> QED
    BY <1>2, <2>1 DEF FlowInv, LedgerTypes
<1>10. \A t \in Transactions \ edited' :
         \/ txns'[t] = txns[t]
         \/ txns'[t].flow \in Blank /\ txns'[t].category \in Expenses /\ t \notin Candidates
  <2> SUFFICES ASSUME txns' # txns
               PROVE  txns'[s].flow \in Blank /\ txns'[s].category \in Expenses
    BY <1>0, <1>4
  <2>1. \A i \in Standing : s \notin {events[i].subject, events[i].proposal.debit}
    <3> TAKE i \in Standing
    <3>1. i \in DOMAIN events /\ events[i].proposal.debit \in Candidates \cup {Nothing}
      BY StandingTyped DEF FlowInv
    <3> QED
      BY <1>0, <1>3, <3>1 DEF FlowAssumption
  <2>2. txns[s].category \in Expenses
    BY <1>0, <1>3, <2>1 DEF FlowInv, NoTrace
  <2> QED
    BY <1>0, <1>3, <2>2 DEF FlowInv, LedgerTypes, Txn, Blank
<1> HIDE DEF T
<1> QED
  BY <1>1, <1>2, <1>5, <1>6, <1>7, <1>8, <1>9, <1>10, QuietStep

LEMMA UpdateKeeps ==
    ASSUME FlowAssumption, FlowInv, NEW t \in Editable, NEW edit \in Edits, update_txn(t, edit)
    PROVE  FlowInv'
<1>1. Quiet
  BY NoEvent DEF update_txn, FlowInv
<1>2. /\ UNCHANGED <<edges, rows, events, locked>>
      /\ txns' = [txns EXCEPT ![t] = edit] /\ edited' = edited \cup {t}
      /\ KeepsEdges(t, txns', edges)
  BY DEF update_txn
<1>3. t \in Transactions /\ edit \in Txn
  BY DEF FlowAssumption, Txn
<1>4. txns' \in [Transactions -> Txn] /\ \A u \in Transactions \ {t} : txns'[u] = txns[u]
  BY <1>2, <1>3 DEF FlowInv, LedgerTypes
<1>5. LedgerTypes'
  BY <1>2, <1>3, <1>4 DEF FlowInv, LedgerTypes
<1> DEFINE T == {t}
<1>6. T \in SUBSET Transactions /\ (\A u \in T : KeepsEdges(u, txns', edges))
      /\ \A u \in Transactions \ T : txns'[u] = txns[u]
  BY <1>2, <1>3, <1>4
<1> HIDE DEF T
<1> QED
  BY <1>1, <1>2, <1>4, <1>5, <1>6, QuietStep

LEMMA CloseKeeps ==
    ASSUME FlowInv, NEW m, Close(m) \/ UNCHANGED vars PROVE FlowInv'
<1>1. UNCHANGED <<txns, edges, rows, events, edited>>
  BY DEF Close, vars
<1>2. Quiet
  BY <1>1, NoEvent DEF FlowInv
<1>3. LedgerTypes'
  BY <1>1 DEF FlowInv, LedgerTypes
<1> DEFINE T == {}
<1>4. T \in SUBSET Transactions /\ (\A t \in T : KeepsEdges(t, txns', edges))
  OBVIOUS
<1> HIDE DEF T
<1> QED
  BY <1>1, <1>2, <1>3, <1>4, QuietStep

-----------------------------------------------------------------------------
(* Acceptances *)

LEMMA AcceptStep ==
    ASSUME FlowAssumption, FlowInv, NEW s \in Subjects, NEW p \in Proposals, NEW ev, Allowed(ev),
           ev.kind = "accept", ev.subject = s, ev.proposal = p, ev.prior = txns[s],
           p.debit # Nothing => ev.priorDebit = txns[p.debit].flow,
           events' = Append(events, ev),
           rows[s] = "claimed", rows' = rows, edited' = edited,
           \A t \in Transactions \ {s, p.debit} : txns'[t] = txns[t],
           \A c \in Candidates : txns'[c].category = txns[c].category
    PROVE  /\ Standing' = Standing \cup {Len(events) + 1}
           /\ RowsStay' /\ CreditsWereBlank' /\ DebitsWereBlank' /\ NoTrace'
<1> DEFINE n == Len(events) + 1
<1>0. ev \in EventRecord /\ s \in Transactions /\ s \notin Candidates
  BY DEF Allowed, Transactions, FlowAssumption
<1>1. /\ DOMAIN events' = DOMAIN events \cup {n}
      /\ n \notin DOMAIN events
      /\ events'[n] = ev
      /\ \A i \in DOMAIN events : events'[i] = events[i] /\ i < n
  BY <1>0, Appended DEF FlowInv, History
<1>2. Standing' = Standing \cup {n} /\ Standing \subseteq DOMAIN events
  BY StandingAfter DEF FlowInv, Standing
<1> HIDE DEF n
<1>3. \A i \in Standing : s \notin {events[i].subject, events[i].proposal.debit}
  <2> TAKE i \in Standing
  <2>1. /\ events[i].proposal.debit \in Candidates \cup {Nothing}
        /\ i \in Accepts(events[i].subject) /\ ~Undone(i)
    BY StandingTyped DEF FlowInv
  <2> QED
    BY <1>0, <2>1 DEF Allowed, FlowAssumption
<1>4. s \notin edited => txns[s].flow \in Blank /\ txns[s].category \in Expenses
  BY <1>0, <1>3 DEF FlowInv, NoTrace
<1>5. RowsStay'
  BY <1>1, <1>2 DEF FlowInv, RowsStay
<1>6. CreditsWereBlank'
  <2> SUFFICES ASSUME NEW u \in Subjects \ edited, NEW i \in Accepts(u)'
               PROVE  events'[i].prior.flow \in Blank /\ events'[i].prior.category \in Expenses
    BY DEF CreditsWereBlank
  <2>1. i \in DOMAIN events' /\ events'[i].kind = "accept" /\ events'[i].subject = u
    BY DEF Accepts
  <2>2. CASE i = n
    BY <1>1, <1>4, <2>1, <2>2
  <2>3. CASE i \in DOMAIN events
    <3>1. i \in Accepts(u)
      BY <1>1, <2>1, <2>3 DEF Accepts
    <3> QED
      BY <1>1, <2>3, <3>1 DEF FlowInv, CreditsWereBlank
  <2> QED
    BY <1>1, <2>1, <2>2, <2>3
<1>7. DebitsWereBlank'
  <2> SUFFICES ASSUME NEW c \in Candidates \ edited
               PROVE  /\ txns'[c].category \in Expenses
                      /\ \A i \in Standing' : events'[i].proposal.debit = c =>
                            \/ events'[i].priorDebit \in Blank
                            \/ \E j \in Standing' : events'[j].proposal.debit = c /\ j < i
    BY DEF DebitsWereBlank
  <2>1. txns'[c].category \in Expenses
    BY DEF FlowInv, DebitsWereBlank
  <2>2. ASSUME NEW i \in Standing', events'[i].proposal.debit = c
        PROVE  \/ events'[i].priorDebit \in Blank
               \/ \E j \in Standing' : events'[j].proposal.debit = c /\ j < i
    <3>1. CASE i \in Standing
      <4>1. events[i].proposal.debit = c
        BY <1>1, <1>2, <2>2, <3>1
      <4>2. \/ events[i].priorDebit \in Blank
            \/ \E j \in Standing : events[j].proposal.debit = c /\ j < i
        BY <3>1, <4>1 DEF FlowInv, DebitsWereBlank
      <4> QED
        BY <1>1, <1>2, <3>1, <4>2
    <3>2. CASE i = n
      <4>1. p.debit = c /\ c # Nothing /\ ev.priorDebit = txns[c].flow /\ c \in Transactions
        BY <1>1, <2>2, <3>2 DEF FlowAssumption, Transactions
      <4>2. CASE \E j \in Standing : events[j].proposal.debit = c
        BY <1>1, <1>2, <3>2, <4>2
      <4>3. CASE \A j \in Standing : events[j].proposal.debit # c
        <5>1. \A j \in Standing : c \notin {events[j].subject, events[j].proposal.debit}
          BY <4>3, StandingTyped DEF FlowInv, FlowAssumption
        <5>2. txns[c].flow \in Blank
          BY <4>1, <5>1 DEF FlowInv, NoTrace
        <5> QED
          BY <1>1, <3>2, <4>1, <5>2
      <4> QED
        BY <4>2, <4>3
    <3> QED
      BY <1>2, <3>1, <3>2
  <2> QED
    BY <2>1, <2>2
<1>8. NoTrace'
  <2> SUFFICES ASSUME NEW t \in Transactions \ edited,
                      \A i \in Standing' : t \notin {events'[i].subject, events'[i].proposal.debit}
               PROVE  txns'[t].flow \in Blank /\ txns'[t].category \in Expenses
    BY DEF NoTrace
  <2>1. t \notin {s, p.debit}
    BY <1>1, <1>2
  <2>2. \A i \in Standing : t \notin {events[i].subject, events[i].proposal.debit}
    BY <1>1, <1>2
  <2> QED
    BY <2>1, <2>2 DEF FlowInv, NoTrace
<1> QED
  BY <1>2, <1>5, <1>6, <1>7, <1>8 DEF n

\* The event of an acceptance may be appended.
LEMMA AcceptAllowed ==
    ASSUME FlowAssumption, FlowInv, NEW s \in Subjects, NEW p \in Proposals, NEW k \in Nat,
           NEW cat \in Categories \cup {Nothing}, Fresh(k), Undecided(s)
    PROVE  Allowed(Event(k, "accept", s, p, 0, cat))
<1>1. Event(k, "accept", s, p, 0, cat) \in EventRecord
  BY EventTyped DEF FlowInv
<1>2. \A i \in Accepts(s) : Undone(i)
  BY LiveIsOpen DEF Undecided, FlowInv
<1> QED
  BY <1>1, <1>2 DEF Allowed, Event, Fresh

LEMMA ClassificationKeeps ==
    ASSUME FlowAssumption, FlowInv, NEW s \in Subjects, NEW p \in AllProposals(s), NEW k \in Nat,
           accept_classification(s, p, k)
    PROVE  FlowInv'
<1> DEFINE ev == Event(k, "accept", s, p, 0, Retagged(p.flow, Nothing))
           n == Len(events) + 1
<1>1. /\ p.debit = Nothing /\ Fresh(k) /\ rows[s] = "claimed" /\ Undecided(s)
      /\ txns' = [txns EXCEPT ![s].flow = p.flow, ![s].category = Retagged(p.flow, Nothing)]
      /\ KeepsEdges(s, txns', edges)
      /\ events' = Append(events, ev)
      /\ UNCHANGED <<edges, rows, edited, locked>>
  BY DEF accept_classification, Current, InScope
<1>2. p \in Proposals /\ p.flow \in Earned
  BY <1>1, ProposalKinds DEF FlowInv
<1>3. Retagged(p.flow, Nothing) = "Uncategorized Income"
  BY <1>2 DEF Retagged, Earned, Transfers
<1>4. ev.kind = "accept" /\ ev.subject = s /\ ev.proposal = p /\ ev.prior = txns[s]
  BY DEF Event
<1>5. Allowed(ev)
  BY <1>1, <1>2, <1>3, AcceptAllowed DEF Categories
<1> HIDE DEF ev
<1>6. s \in Transactions /\ s \notin Candidates /\ Nothing \notin Candidates
  BY DEF Transactions, FlowAssumption
<1>7. /\ txns' \in [Transactions -> Txn]
      /\ \A t \in Transactions \ {s} : txns'[t] = txns[t]
  <2>1. [txns[s] EXCEPT !.flow = p.flow, !.category = Retagged(p.flow, Nothing)] \in Txn
    BY <1>2, <1>3, <1>6 DEF FlowInv, LedgerTypes, Txn, Proposals, Categories
  <2>2. txns' = [txns EXCEPT ![s] =
                   [txns[s] EXCEPT !.flow = p.flow, !.category = Retagged(p.flow, Nothing)]]
    BY <1>1, <1>6 DEF FlowInv, LedgerTypes
  <2> QED
    BY <2>1, <2>2, <1>6 DEF FlowInv, LedgerTypes
<1>8. /\ Standing' = Standing \cup {n}
      /\ RowsStay' /\ CreditsWereBlank' /\ DebitsWereBlank' /\ NoTrace'
  <2>1. \A t \in Transactions \ {s, p.debit} : txns'[t] = txns[t]
    BY <1>7
  <2>2. \A c \in Candidates : txns'[c].category = txns[c].category
    BY <1>6, <1>7 DEF Transactions
  <2> HIDE DEF n
  <2> QED
    BY <1>1, <1>2, <1>4, <1>5, <2>1, <2>2, AcceptStep DEF n
<1>9. History'
  BY <1>1, <1>5, HistoryGrows DEF FlowInv
<1>10. /\ DOMAIN events' = DOMAIN events \cup {n}
       /\ n \notin DOMAIN events
       /\ events'[n] = ev
       /\ \A i \in DOMAIN events : events'[i] = events[i]
  <2>1. ev \in EventRecord
    BY <1>5 DEF Allowed
  <2> QED
    BY <1>1, <2>1, Appended DEF FlowInv, History
<1> HIDE DEF n
<1>11. LedgerTypes'
  BY <1>1, <1>7, <1>10 DEF FlowInv, LedgerTypes
<1>12. EdgesNamed'
  BY <1>1, <1>10 DEF FlowInv, EdgesNamed, LedgerTypes
<1>13. EdgesStand'
  <2>1. Standing \subseteq DOMAIN events
    BY DEF Standing
  <2>2. {i \in Standing' : events'[i].proposal.debit # Nothing}
          = {i \in Standing : events[i].proposal.debit # Nothing}
    BY <1>1, <1>4, <1>8, <1>10, <2>1
  <2> QED
    BY <1>1, <2>2 DEF FlowInv, EdgesStand
<1>14. EdgesFit'
  <2> DEFINE T == {s}
  <2>1. T \in SUBSET Transactions /\ (\A t \in T : KeepsEdges(t, txns', edges'))
        /\ (\A t \in Transactions \ T : txns'[t] = txns[t])
    BY <1>1, <1>6, <1>7 DEF KeepsEdges
  <2> HIDE DEF T
  <2> QED
    BY <1>1, <1>11, <2>1, FitKept DEF FlowInv
<1> QED
  BY <1>8, <1>9, <1>11, <1>12, <1>13, <1>14 DEF FlowInv

LEMMA PairKeeps ==
    ASSUME FlowAssumption, FlowInv, NEW s \in Subjects, NEW p \in AllProposals(s), NEW k \in Nat,
           accept_pair(s, p, k)
    PROVE  FlowInv'
<1> DEFINE c == p.debit
           cat == Retagged(p.flow, txns[c].category)
           ev == Event(k, "accept", s, p, 0, cat)
           n == Len(events) + 1
           edge == [kind |-> Relationship(p.flow), credit |-> s, debit |-> c, event |-> n]
<1>1. /\ c # Nothing /\ Fresh(k) /\ rows[s] = "claimed" /\ Undecided(s)
      /\ txns' = [txns EXCEPT ![c].flow = p.debitFlow, ![s].flow = p.flow, ![s].category = cat]
      /\ KeepsEdges(c, txns', edges) /\ KeepsEdges(s, txns', edges)
      /\ EdgeFits(edge.kind, s, c, txns') /\ Room(edge.kind, s, c, txns')
      /\ edges' = edges \cup {edge}
      /\ events' = Append(events, ev)
      /\ UNCHANGED <<rows, edited, locked>>
  BY DEF accept_pair, Current, InScope, PairEvent
<1>2. /\ p \in Proposals /\ c \in Candidates /\ p.flow \in Offsets \cup Transfers
      /\ p.debitFlow \in Flows /\ p.flow \in Flows
  <2>1. Transfers \cup Spending \subseteq Flows
    BY DEF Flows
  <2> QED
    BY <1>1, <2>1, ProposalKinds DEF FlowInv, Proposals
<1>3. /\ s \in Transactions /\ c \in Transactions /\ s \notin Candidates /\ s # c
      /\ Nothing \notin Candidates
  BY <1>2 DEF Transactions, FlowAssumption
<1>4. cat \in Categories
  BY <1>3 DEF Retagged, Categories, FlowInv, LedgerTypes, Txn
<1>5. /\ ev.kind = "accept" /\ ev.subject = s /\ ev.proposal = p /\ ev.prior = txns[s]
      /\ c # Nothing => ev.priorDebit = txns[c].flow
  BY DEF Event
<1>6. Allowed(ev)
  <2> HIDE DEF cat
  <2> QED
    BY <1>1, <1>2, <1>4, AcceptAllowed
<1>7. edge.kind \in EdgeKinds
  BY <1>2 DEF Relationship, EdgeKinds, Offsets, Transfers
<1>8. edge.kind = Relationship(p.flow) /\ edge.credit = s /\ edge.debit = c /\ edge.event = n
      /\ edge = [kind |-> edge.kind, credit |-> s, debit |-> c, event |-> n]
  OBVIOUS
<1> HIDE DEF ev, cat, edge
<1>9. /\ txns' \in [Transactions -> Txn]
      /\ \A t \in Transactions \ {s, c} : txns'[t] = txns[t]
      /\ \A t \in Transactions : txns'[t].amount = txns[t].amount
      /\ \A d \in Candidates : txns'[d].category = txns[d].category
  <2>1. txns \in [Transactions -> Txn] /\ DOMAIN txns = Transactions
    BY DEF FlowInv, LedgerTypes
  <2>2. txns[s] \in Txn /\ txns[c] \in Txn
    BY <1>3, <2>1
  <2> HIDE DEF c
  <2>3. txns' = [txns EXCEPT ![c] = [txns[c] EXCEPT !.flow = p.debitFlow],
                             ![s] = [txns[s] EXCEPT !.flow = p.flow, !.category = cat]]
    BY <1>1, <1>3, <2>1
  <2>4. /\ [txns[c] EXCEPT !.flow = p.debitFlow] \in Txn
        /\ [txns[s] EXCEPT !.flow = p.flow, !.category = cat] \in Txn
        /\ [txns[c] EXCEPT !.flow = p.debitFlow].amount = txns[c].amount
        /\ [txns[c] EXCEPT !.flow = p.debitFlow].category = txns[c].category
        /\ [txns[s] EXCEPT !.flow = p.flow, !.category = cat].amount = txns[s].amount
    BY <1>2, <1>4, <2>2 DEF Txn
  <2>5. /\ \A t \in Transactions \ {s, c} : txns'[t] = txns[t]
        /\ txns'[c] = [txns[c] EXCEPT !.flow = p.debitFlow]
        /\ txns'[s] = [txns[s] EXCEPT !.flow = p.flow, !.category = cat]
        /\ txns' \in [Transactions -> Txn]
    BY <1>3, <2>1, <2>3, <2>4
  <2> QED
    BY <1>3, <2>4, <2>5 DEF Transactions
<1>10. /\ Standing' = Standing \cup {n}
       /\ RowsStay' /\ CreditsWereBlank' /\ DebitsWereBlank' /\ NoTrace'
  BY <1>1, <1>2, <1>5, <1>6, <1>9, AcceptStep
<1>11. History'
  BY <1>1, <1>6, HistoryGrows DEF FlowInv
<1>12. /\ DOMAIN events' = DOMAIN events \cup {n}
       /\ n \notin DOMAIN events
       /\ events'[n] = ev
       /\ \A i \in DOMAIN events : events'[i] = events[i]
  <2>1. ev \in EventRecord
    BY <1>6 DEF Allowed
  <2> QED
    BY <1>1, <2>1, Appended DEF FlowInv, History
<1> HIDE DEF n
<1>13. LedgerTypes'
  <2>1. edges' \subseteq [kind : EdgeKinds, credit : Subjects, debit : Candidates,
                          event : DOMAIN events']
    BY <1>1, <1>2, <1>7, <1>8, <1>12 DEF FlowInv, LedgerTypes
  <2>2. IsFiniteSet(edges')
    BY <1>1, FS_AddElement DEF FlowInv, LedgerTypes
  <2> QED
    BY <1>1, <1>9, <2>1, <2>2 DEF FlowInv, LedgerTypes
<1>14. edge \notin edges
  BY <1>8, <1>12 DEF FlowInv, LedgerTypes
<1>15. EdgesNamed'
  <2> SUFFICES ASSUME NEW e \in edges'
               PROVE  /\ events'[e.event].kind = "accept"
                      /\ events'[e.event].subject = e.credit
                      /\ events'[e.event].proposal.debit = e.debit
    BY DEF EdgesNamed
  <2>1. CASE e \in edges
    BY <1>12, <2>1 DEF FlowInv, EdgesNamed, LedgerTypes
  <2>2. CASE e = edge
    BY <1>5, <1>8, <1>12, <2>2
  <2> QED
    BY <1>1, <2>1, <2>2
<1>16. EdgesStand'
  <2>1. Standing \subseteq DOMAIN events
    BY DEF Standing
  <2>2. {i \in Standing' : events'[i].proposal.debit # Nothing}
          = {i \in Standing : events[i].proposal.debit # Nothing} \cup {n}
    BY <1>1, <1>5, <1>10, <1>12, <2>1
  <2>3. {e.event : e \in edges'} = {e.event : e \in edges} \cup {n}
    BY <1>1, <1>8
  <2> QED
    BY <2>2, <2>3 DEF FlowInv, EdgesStand
<1>17. EdgesFit'
  <2> HIDE DEF c
  <2> QED
    BY <1>1, <1>2, <1>7, <1>8, <1>9, <1>13, <1>14, FitAdded DEF FlowInv, c
<1> QED
  BY <1>10, <1>11, <1>13, <1>15, <1>16, <1>17 DEF FlowInv

-----------------------------------------------------------------------------
(* Undos *)

LEMMA UndoKeeps ==
    ASSUME FlowAssumption, FlowInv, NEW i \in DOMAIN events, NEW k \in Nat, undo_acceptance(i, k)
    PROVE  FlowInv'
<1> DEFINE s == events[i].subject
           p == events[i].proposal
           c == events[i].proposal.debit
           ev == UndoEvent(i, k)
           T == IF c = Nothing THEN {s} ELSE {s, c}
<1>1. /\ events[i].kind = "accept" /\ Fresh(k) /\ ~Undone(i) /\ Unchanged(i)
      /\ edges' = Revoked(i) /\ txns' = Restored(i)
      /\ KeepsEdges(s, txns', edges')
      /\ c # Nothing => KeepsEdges(c, txns', edges')
      /\ events' = Append(events, ev)
      /\ UNCHANGED <<rows, edited, locked>>
  BY DEF undo_acceptance, UndoneFirst
<1>2. i \in Standing
  BY <1>1 DEF Standing
<1>3. /\ events[i] \in EventRecord /\ i \in Nat /\ s \in Subjects
      /\ c \in Candidates \cup {Nothing} /\ p \in Proposals
      /\ events[i].prior \in Txn
      /\ c # Nothing => events[i].priorDebit \in Flows
  <2>1. events[i] \in EventRecord /\ i \in Nat
    BY DEF FlowInv, History
  <2> QED
    BY <2>1 DEF EventFields, EventRecord, Proposals
<1>4. /\ s \in Transactions /\ s \notin Candidates /\ Nothing \notin Transactions
      /\ c # Nothing => c \in Transactions /\ c # s /\ c \in Candidates
  BY <1>3 DEF Transactions, FlowAssumption
<1>5. ev.kind = "undo" /\ ev.subject = s /\ ev.reverts = i /\ ev.key = k
  BY DEF UndoEvent, Event
<1>6. Allowed(ev)
  <2>1. ev \in EventRecord
    BY <1>3, EventTyped DEF UndoEvent, FlowInv
  <2>2. i \in Accepts(s)
    BY <1>1 DEF Accepts
  <2> HIDE DEF ev
  <2> QED
    BY <1>1, <1>5, <2>1, <2>2 DEF Allowed, Fresh
<1> HIDE DEF ev
<1>7. /\ DOMAIN events \subseteq DOMAIN events'
      /\ \A j \in DOMAIN events : events'[j] = events[j]
      /\ DOMAIN events' = DOMAIN events \cup {Len(events) + 1}
      /\ events'[Len(events) + 1] = ev
  <2>1. ev \in EventRecord
    BY <1>6 DEF Allowed
  <2> QED
    BY <1>1, <2>1, Appended DEF FlowInv, History
<1>8. History'
  BY <1>1, <1>6, HistoryGrows DEF FlowInv
<1>9. Standing' = Standing \ {i} /\ Standing \subseteq DOMAIN events
  <2>1. Standing' = Standing \ {ev.reverts}
    BY <1>1, <1>5, <1>6, StandingAfter DEF FlowInv
  <2> QED
    BY <1>5, <2>1 DEF Standing
<1>10. \A u \in Subjects : Accepts(u)' = Accepts(u)
  BY <1>5, <1>7 DEF Accepts
<1>11. /\ txns' \in [Transactions -> Txn]
       /\ \A t \in Transactions \ T : txns'[t] = txns[t]
       /\ txns'[s] = events[i].prior
       /\ c # Nothing => /\ txns'[c].flow = events[i].priorDebit
                         /\ txns'[c].category = txns[c].category
  <2>1. txns \in [Transactions -> Txn] /\ DOMAIN txns = Transactions
    BY DEF FlowInv, LedgerTypes
  <2>2. CASE c = Nothing
    <3>1. txns' = [txns EXCEPT ![s] = events[i].prior]
      BY <1>1, <2>2 DEF Restored
    <3> HIDE DEF s
    <3> QED
      BY <1>3, <1>4, <2>1, <2>2, <3>1
  <2>3. CASE c # Nothing
    <3> DEFINE restored == [txns EXCEPT ![s] = events[i].prior]
    <3>1. txns' = [restored EXCEPT ![c].flow = events[i].priorDebit]
      BY <1>1, <2>3 DEF Restored
    <3> HIDE DEF s, c
    <3>2. restored \in [Transactions -> Txn] /\ restored[s] = events[i].prior
          /\ \A t \in Transactions \ {s} : restored[t] = txns[t]
      BY <1>3, <1>4, <2>1
    <3> HIDE DEF restored
    <3>3. restored[c] = txns[c] /\ restored[c] \in Txn
      BY <1>4, <2>3, <3>2
    <3>4. /\ [restored[c] EXCEPT !.flow = events[i].priorDebit] \in Txn
          /\ [restored[c] EXCEPT !.flow = events[i].priorDebit].flow = events[i].priorDebit
          /\ [restored[c] EXCEPT !.flow = events[i].priorDebit].category = txns[c].category
      BY <1>3, <2>3, <3>3 DEF Txn
    <3>5. txns' = [restored EXCEPT ![c] = [restored[c] EXCEPT !.flow = events[i].priorDebit]]
      BY <3>1
    <3> QED
      BY <1>4, <2>3, <3>2, <3>4, <3>5
  <2> QED
    BY <2>2, <2>3
<1>12. edges' \subseteq edges /\ \A e \in edges : e \in edges' <=> e.event # i
  BY <1>1 DEF Revoked
<1>13. LedgerTypes'
  <2>1. IsFiniteSet(edges')
    BY <1>12, FS_Subset DEF FlowInv, LedgerTypes
  <2>2. edges' \subseteq [kind : EdgeKinds, credit : Subjects, debit : Candidates,
                          event : DOMAIN events']
    BY <1>7, <1>12 DEF FlowInv, LedgerTypes
  <2> QED
    BY <1>1, <1>11, <2>1, <2>2 DEF FlowInv, LedgerTypes
<1>14. EdgesNamed'
  BY <1>7, <1>12 DEF FlowInv, EdgesNamed, LedgerTypes
<1>15. EdgesStand'
  <2>1. {e.event : e \in edges'} = {e.event : e \in edges} \ {i}
    BY <1>12
  <2>2. {j \in Standing' : events'[j].proposal.debit # Nothing}
          = {j \in Standing : events[j].proposal.debit # Nothing} \ {i}
    BY <1>7, <1>9
  <2> QED
    BY <2>1, <2>2 DEF FlowInv, EdgesStand
<1>16. EdgesFit'
  <2>1. \A t \in T : t \in Transactions /\ KeepsEdges(t, txns', edges')
    BY <1>1, <1>4
  <2>2. \A e \in edges \ edges' : e.debit \in T
    <3> TAKE e \in edges \ edges'
    <3>1. e.event = i /\ e.debit \in Candidates
      BY <1>12 DEF FlowInv, LedgerTypes
    <3>2. e.debit = c
      BY <3>1 DEF FlowInv, EdgesNamed
    <3> QED
      BY <1>4, <3>1, <3>2 DEF Transactions
  <2> HIDE DEF T
  <2> QED
    BY <1>11, <1>12, <1>13, <2>1, <2>2, FitKept DEF FlowInv
<1>17. RowsStay'
  BY <1>1, <1>7, <1>9 DEF FlowInv, RowsStay
<1>18. CreditsWereBlank'
  <2> SUFFICES ASSUME NEW u \in Subjects \ edited, NEW j \in Accepts(u)
               PROVE  events'[j].prior.flow \in Blank /\ events'[j].prior.category \in Expenses
    BY <1>1, <1>10 DEF CreditsWereBlank
  <2>1. j \in DOMAIN events
    BY DEF Accepts
  <2> QED
    BY <1>7, <2>1 DEF FlowInv, CreditsWereBlank
\* A debit gets its first flow back only when no other acceptance is about it.
<1>19. ASSUME c # Nothing, events[i].priorDebit \in Blank,
              NEW j \in Standing', events'[j].proposal.debit = c
       PROVE  FALSE
  <2>1. j \in Standing /\ j # i /\ events[j].proposal.debit = c
    BY <1>7, <1>9, <1>19
  <2>2. PICK e \in edges : e.event = j
    BY <1>19, <2>1 DEF FlowInv, EdgesStand
  <2>3. e \in edges' /\ e.debit = c
    BY <1>12, <2>1, <2>2 DEF FlowInv, EdgesNamed
  <2>4. EdgeFits(e.kind, e.credit, c, txns')
    BY <1>1, <1>19, <2>3 DEF KeepsEdges
  <2>5. txns'[c].flow \in Blank
    BY <1>11, <1>19
  <2>6. txns'[c].flow \notin Spending /\ txns'[c].flow \notin Transfers
    BY <2>5 DEF Blank, Spending, Transfers
  <2> QED
    BY <2>4, <2>6 DEF EdgeFits
<1>20. DebitsWereBlank'
  <2> SUFFICES ASSUME NEW d \in Candidates \ edited
               PROVE  /\ txns'[d].category \in Expenses
                      /\ \A j \in Standing' : events'[j].proposal.debit = d =>
                            \/ events'[j].priorDebit \in Blank
                            \/ \E h \in Standing' : events'[h].proposal.debit = d /\ h < j
    BY <1>1 DEF DebitsWereBlank
  <2>1. txns'[d].category \in Expenses
    BY <1>4, <1>11 DEF FlowInv, DebitsWereBlank, Transactions
  <2>2. ASSUME NEW j \in Standing', events'[j].proposal.debit = d
        PROVE  \/ events'[j].priorDebit \in Blank
               \/ \E h \in Standing' : events'[h].proposal.debit = d /\ h < j
    <3>1. j \in Standing /\ j # i /\ events'[j] = events[j] /\ events[j].proposal.debit = d
      BY <1>7, <1>9, <2>2
    <3>2. CASE events[j].priorDebit \in Blank
      BY <3>1, <3>2
    <3>3. CASE events[j].priorDebit \notin Blank
      <4>1. PICK h \in Standing : events[h].proposal.debit = d /\ h < j
        BY <3>1, <3>3 DEF FlowInv, DebitsWereBlank
      <4>2. CASE h # i
        <5>1. h \in Standing' /\ events'[h] = events[h]
          BY <1>7, <1>9, <4>2
        <5> QED
          BY <4>1, <5>1
      <4>3. CASE h = i
        <5>1. d = c /\ c # Nothing
          BY <1>4, <4>1, <4>3 DEF Transactions
        <5>2. events[i].priorDebit \notin Blank
          BY <1>19, <2>2, <5>1
        <5>3. PICK g \in Standing : events[g].proposal.debit = d /\ g < i
          BY <4>1, <4>3, <5>2 DEF FlowInv, DebitsWereBlank
        <5>4. g \in Nat /\ i \in Nat /\ j \in Nat
          BY <1>3, <3>1, StandingTyped DEF FlowInv
        <5>5. g \in Standing' /\ events'[g] = events[g] /\ g < j
          BY <1>7, <1>9, <4>1, <4>3, <5>3, <5>4
        <5> QED
          BY <5>3, <5>5
      <4> QED
        BY <4>2, <4>3
    <3> QED
      BY <3>2, <3>3
  <2> QED
    BY <2>1, <2>2
<1>21. NoTrace'
  <2> SUFFICES ASSUME NEW t \in Transactions \ edited,
                      \A j \in Standing' : t \notin {events'[j].subject, events'[j].proposal.debit}
               PROVE  txns'[t].flow \in Blank /\ txns'[t].category \in Expenses
    BY <1>1 DEF NoTrace
  <2>1. \A j \in Standing \ {i} : t \notin {events[j].subject, events[j].proposal.debit}
    BY <1>7, <1>9
  <2>2. CASE t = s
    <3>1. i \in Accepts(s)
      BY <1>1 DEF Accepts
    <3> QED
      BY <1>3, <1>11, <2>2, <3>1 DEF FlowInv, CreditsWereBlank
  <2>3. CASE t = c
    <3>1. c # Nothing /\ c \in Candidates
      BY <1>4, <2>3
    <3>2. events[i].priorDebit \in Blank
      <4>1. \/ events[i].priorDebit \in Blank
            \/ \E h \in Standing : events[h].proposal.debit = c /\ h < i
        BY <1>2, <2>3, <3>1 DEF FlowInv, DebitsWereBlank
      <4>2. ASSUME NEW h \in Standing, events[h].proposal.debit = c, h < i PROVE FALSE
        BY <1>3, <2>1, <2>3, <4>2
      <4> QED
        BY <4>1, <4>2
    <3>3. txns[c].category \in Expenses
      BY <2>3, <3>1 DEF FlowInv, DebitsWereBlank
    <3> QED
      BY <1>11, <2>3, <3>1, <3>2, <3>3
  <2>4. CASE t \notin {s, c}
    <3>1. txns'[t] = txns[t]
      BY <1>11, <2>4
    <3>2. \A j \in Standing : t \notin {events[j].subject, events[j].proposal.debit}
      BY <2>1, <2>4
    <3> QED
      BY <3>1, <3>2 DEF FlowInv, NoTrace
  <2> QED
    BY <2>2, <2>3, <2>4
<1> QED
  BY <1>8, <1>13, <1>14, <1>15, <1>16, <1>17, <1>18, <1>20, <1>21 DEF FlowInv

-----------------------------------------------------------------------------
LEMMA FlowSteps ==
    ASSUME FlowAssumption, FlowInv, [Next]_vars PROVE FlowInv'
<1>1. \A k \in 1..(Len(events) + 1) : k \in Nat
  OBVIOUS
<1>2. CASE UNCHANGED vars
  BY <1>2, CloseKeeps
<1>3. ASSUME NEW k \in 1..(Len(events) + 1), Decide(k) PROVE FlowInv'
  <2>1. ASSUME NEW s \in Subjects, recover_positive_line(s, k) PROVE FlowInv'
    BY <1>1, <2>1, RecoverKeeps
  <2>2. ASSUME NEW s \in Subjects, NEW p \in AllProposals(s),
               reject_proposal(s, p, k) \/ restore_proposal(s, p, k) PROVE FlowInv'
    BY <1>1, <2>2, RejectOrRestoreKeeps
  <2>3. ASSUME NEW s \in Subjects, NEW p \in AllProposals(s), accept_classification(s, p, k)
        PROVE  FlowInv'
    BY <1>1, <2>3, ClassificationKeeps
  <2>4. ASSUME NEW s \in Subjects, NEW p \in AllProposals(s), accept_pair(s, p, k)
        PROVE  FlowInv'
    BY <1>1, <2>4, PairKeeps
  <2>5. ASSUME NEW i \in DOMAIN events, undo_acceptance(i, k) PROVE FlowInv'
    BY <1>1, <2>5, UndoKeeps
  <2> QED
    BY <1>3, <2>1, <2>2, <2>3, <2>4, <2>5 DEF Decide
<1>4. ASSUME NEW s \in Subjects, correct_row(s) \/ unreconcile(s) PROVE FlowInv'
  BY <1>4, CorrectRowKeeps, UnreconcileKeeps
<1>5. ASSUME NEW t \in Editable, NEW edit \in Edits, update_txn(t, edit) PROVE FlowInv'
  BY <1>5, UpdateKeeps
<1>6. ASSUME NEW m \in Closable, Close(m) PROVE FlowInv'
  BY <1>6, CloseKeeps
<1> QED
  BY <1>2, <1>3, <1>4, <1>5, <1>6 DEF Next

LEMMA FlowInvariant ==
    ASSUME FlowAssumption PROVE Spec => []FlowInv
<1>1. Init => FlowInv
  BY FlowsAtFirst
<1>2. FlowInv /\ [Next]_vars => FlowInv'
  BY FlowSteps
<1> QED
  BY <1>1, <1>2, PTL DEF Spec

\* However late or often the submissions of pages arrive, a credit has at most one
\* decision that stands, no page decides twice, and an undo takes back the decision
\* that stood (_live_acceptance, _operation_replay, uq_positive_flow_event_undo).
THEOREM DecisionsStandAlone == Spec => []DecisionsHold
<1>1. FlowInv => DecisionsHold
  BY FlowAssumption, DecisionsFromHistory
<1> QED
  BY <1>1, FlowAssumption, FlowInvariant, PTL

\* The active relationships are those of the decisions that stand and fit their
\* transactions, no charge is offset beyond its amount, the rows of decided credits
\* are not corrected away, and undone decisions leave nothing behind
\* (accept_pair, undo_acceptance, set_flow_kind, migrations 028 and 034).
THEOREM FlowsFollow == Spec => []FlowsFollowDecisions
<1>1. FlowInv => FlowsFollowDecisions
  BY FlowsFromInv
<1> QED
  BY <1>1, FlowAssumption, FlowInvariant, PTL

-----------------------------------------------------------------------------
(* ProposedActions *)

ClaimKinds == Trusted \cup {"proposed", "rejected", "retired", "undo"}

\* A claim moves on and never back: it is proposed, then trusted or rejected, then
\* taken back.
Rank(kind) == CASE kind = "proposed" -> 0
                [] kind \in Trusted -> 1
                [] OTHER -> 2

ClaimRecord == [split : Splits, category : Purposes, scope : {Scope[t] : t \in Txns},
                kind : ClaimKinds]

Digests == (UNION {[SplitsOf(t) -> SplitCategories \cup {Unset}] : t \in Txns})
               \X BOOLEAN \X SUBSET (Nat \X ClaimKinds)

ProposalRecord ==
    [split : Splits, to : SplitCategories, seen : {Unseen} \cup Digests, claim : Nat,
     origin : {"receipt", "line", "machine", "backlog"},
     status : Waiting \cup InForce \cup {"rejected", "reverted"},
     revert : [undo : BOOLEAN, from : SplitCategories, claim : Nat, exact : {Unseen} \cup Digests]]

AuditRecord == Nat \X {"proposed", "approved", "rejected", "reverted"}

ActionTypes ==
    /\ category \in [Splits -> SplitCategories \cup {Unset}]
    /\ settled \subseteq Txns /\ suggested \subseteq Splits \X Purposes
    /\ closedMonths \subseteq ClosableMonths
    /\ proposals \in Seq(ProposalRecord)
    /\ audit \in Seq(AuditRecord)
    /\ claims \in Seq(ClaimRecord)
    /\ labels \in [Txns -> {Unlabelled} \cup (Nat \X Purposes)]

\* What proposals, undo payloads, the audit and labels name exists.
NamesExist ==
    /\ \A p \in DOMAIN proposals : \A c \in {proposals[p].claim, proposals[p].revert.claim} :
           c # 0 => c \in DOMAIN claims /\ claims[c].split = proposals[p].split
    /\ \A i \in DOMAIN audit : audit[i][1] \in DOMAIN proposals
    /\ \A t \in Txns : labels[t] # Unlabelled => labels[t][1] \in DOMAIN proposals

ClaimsAreBooked == \A c \in DOMAIN claims : category[claims[c].split] # Unset

OneProposalEach == \A p, q \in DOMAIN proposals :
    proposals[p].claim # 0 /\ proposals[p].claim = proposals[q].claim => p = q

TrustedAgree == \A c, d \in DOMAIN claims :
    /\ claims[c].kind \in Trusted /\ claims[d].kind \in Trusted
    /\ claims[c].split = claims[d].split
    => claims[c].category = claims[d].category

\* A proposal has something to undo, and an approval on record, only after it was
\* approved; then the claim of the approval is for the category that was approved.
DecidedOnRecord ==
    /\ \A p \in DOMAIN proposals :
        LET a == proposals[p] IN
        /\ a.status \in Waiting => a.revert = NoRevert
        /\ a.revert.claim # 0 => /\ claims[a.revert.claim].category = a.to
                                 /\ claims[a.revert.claim].kind # "proposed"
        /\ a.origin = "machine" => a.seen # Unseen
    /\ \A i \in DOMAIN audit : audit[i][2] \in {"approved", "reverted"} =>
           proposals[audit[i][1]].status \notin Waiting

\* A digest names claims that exist and are no further back than it saw them.
Past(digest) == digest # Unseen => \A x \in digest[3] :
    x[1] \in DOMAIN claims /\ Rank(x[2]) <= Rank(claims[x[1]].kind)

DigestsArePast == \A p \in DOMAIN proposals :
    Past(proposals[p].seen) /\ Past(proposals[p].revert.exact)

\* A claim about t has moved on since the digest was taken.
Surpassed(digest, t) == \E c \in DOMAIN claims :
    /\ TxnOf[claims[c].split] = t
    /\ \A x \in digest[3] : x[1] = c => Rank(x[2]) < Rank(claims[c].kind)

\* The audit has the event of p before that of q.
Before(p, event, q, later) == \E i, j \in DOMAIN audit :
    i < j /\ audit[i] = <<p, event>> /\ audit[j] = <<q, later>>

SameTxn(p, q) == TxnOf[proposals[p].split] = TxnOf[proposals[q].split]

\* Decisions move the knowledge on from what earlier digests saw, and retire what
\* earlier decisions taught otherwise.
DecisionsMoveOn == \A p, q \in DOMAIN proposals :
    LET a == proposals[p]  b == proposals[q] IN
    b.revert.claim # 0 =>
        /\ SameTxn(p, q) /\ a.revert.exact # Unseen /\ Before(p, "approved", q, "approved")
              => Surpassed(a.revert.exact, TxnOf[a.split])
        /\ SameTxn(p, q) /\ a.seen # Unseen
           /\ (Before(p, "proposed", q, "approved") \/ Before(p, "proposed", q, "reverted"))
              => Surpassed(a.seen, TxnOf[a.split])
        /\ a.split = b.split /\ a.revert.claim # 0 /\ a.to # b.to /\ Before(p, "approved", q, "approved")
              => Rank(claims[a.revert.claim].kind) = 2

ActionInv ==
    /\ ActionTypes
    /\ NamesExist
    /\ ClaimsAreBooked
    /\ OneProposalEach
    /\ TrustedAgree
    /\ DecidedTogether
    /\ LabelOfApproval
    /\ OneBacklogProposal
    /\ DecidedOnRecord
    /\ DigestsArePast
    /\ DecisionsMoveOn

\* Appending to a sequence
LEMMA Grown ==
    ASSUME NEW S, NEW q \in Seq(S), NEW x \in S
    PROVE  /\ Append(q, x) \in Seq(S)
           /\ Len(q) \in Nat /\ Len(Append(q, x)) = Len(q) + 1
           /\ DOMAIN Append(q, x) = DOMAIN q \cup {Len(q) + 1} /\ Len(q) + 1 \notin DOMAIN q
           /\ Append(q, x)[Len(q) + 1] = x
           /\ \A i \in DOMAIN q : Append(q, x)[i] = q[i] /\ q[i] \in S /\ i \in Nat /\ i # 0
                                  /\ i < Len(q) + 1
OBVIOUS

LEMMA RankIsNatural ==
    ASSUME NEW kind
    PROVE  Rank(kind) \in 0..2 /\ (Rank(kind) = 0 <=> kind = "proposed")
           /\ (Rank(kind) = 1 <=> kind \in Trusted)
BY DEF Rank, Trusted

\* The claims stay and only move on.
Evolves ==
    /\ claims' \in Seq(ClaimRecord)
    /\ \A c \in DOMAIN claims :
        /\ c \in DOMAIN claims'
        /\ claims'[c].split = claims[c].split /\ claims'[c].category = claims[c].category
        /\ \/ claims'[c].kind = claims[c].kind
           \/ Rank(claims'[c].kind) > Rank(claims[c].kind)

LEMMA DigestTyped ==
    ASSUME ActionAssumption, NEW t \in Txns, NEW cats \in [Splits -> SplitCategories \cup {Unset}],
           NEW known \in Seq(ClaimRecord)
    PROVE  Digest(t, cats, known) \in Digests /\ Digest(t, cats, known) # Unseen
<1>1. [s \in SplitsOf(t) |-> cats[s]] \in [SplitsOf(t) -> SplitCategories \cup {Unset}]
  BY DEF SplitsOf
<1>2. {<<c, known[c].kind>> : c \in {d \in DOMAIN known : TxnOf[known[d].split] = t}}
        \in SUBSET (Nat \X ClaimKinds)
  <2>1. \A c \in DOMAIN known : c \in Nat /\ known[c] \in ClaimRecord
    OBVIOUS
  <2>2. \A c \in DOMAIN known : <<c, known[c].kind>> \in Nat \X ClaimKinds
    BY <2>1 DEF ClaimRecord
  <2> QED
    BY <2>2
<1>3. (t \in settled) \in BOOLEAN
  OBVIOUS
<1>4. Digest(t, cats, known) \in Digests
  BY <1>1, <1>2, <1>3 DEF Digest, Digests
<1>5. Digest(t, cats, known) # Unseen
  BY DEF Digest, Unseen
<1> QED
  BY <1>4, <1>5

LEMMA DigestIsPast ==
    ASSUME ActionTypes, NEW t \in Txns PROVE Past(Digest(t, category, claims))
<1> SUFFICES ASSUME NEW x \in Digest(t, category, claims)[3]
             PROVE  x[1] \in DOMAIN claims /\ Rank(x[2]) <= Rank(claims[x[1]].kind)
  BY DEF Past
<1>1. PICK c \in DOMAIN claims : x = <<c, claims[c].kind>>
  BY DEF Digest
<1> QED
  BY <1>1, RankIsNatural

\* A digest is the current one only if no claim about the transaction has moved on.
LEMMA SurpassedIsStale ==
    ASSUME ActionTypes, NEW t \in Txns, Surpassed(Digest(t, category, claims), t)
    PROVE  FALSE
<1>1. PICK c \in DOMAIN claims :
        /\ TxnOf[claims[c].split] = t
        /\ \A x \in Digest(t, category, claims)[3] : x[1] = c => Rank(x[2]) < Rank(claims[c].kind)
  BY DEF Surpassed
<1>2. <<c, claims[c].kind>> \in Digest(t, category, claims)[3]
  BY <1>1 DEF Digest
<1> QED
  BY <1>1, <1>2, RankIsNatural

LEMMA PastStays ==
    ASSUME Evolves PROVE \A digest \in {Unseen} \cup Digests : Past(digest) => Past(digest)'
<1> SUFFICES ASSUME NEW digest \in {Unseen} \cup Digests, Past(digest), digest # Unseen,
                    NEW x \in digest[3]
             PROVE  x[1] \in DOMAIN claims' /\ Rank(x[2]) <= Rank(claims'[x[1]].kind)
  BY DEF Past
<1>1. x[1] \in DOMAIN claims /\ Rank(x[2]) <= Rank(claims[x[1]].kind)
  BY DEF Past
<1> QED
  BY <1>1, RankIsNatural DEF Evolves

LEMMA SurpassedStays ==
    ASSUME Evolves
    PROVE  \A digest \in Digests, t \in Txns : Surpassed(digest, t) => Surpassed(digest, t)'
<1> SUFFICES ASSUME NEW digest \in Digests, NEW t \in Txns, Surpassed(digest, t)
             PROVE  \E c \in DOMAIN claims' :
                      /\ TxnOf[claims'[c].split] = t
                      /\ \A x \in digest[3] : x[1] = c => Rank(x[2]) < Rank(claims'[c].kind)
  BY DEF Surpassed
<1>1. PICK c \in DOMAIN claims :
        /\ TxnOf[claims[c].split] = t
        /\ \A x \in digest[3] : x[1] = c => Rank(x[2]) < Rank(claims[c].kind)
  BY DEF Surpassed
<1> QED
  BY <1>1, RankIsNatural DEF Evolves

\* A claim that is new or moves on surpasses every digest that was taken.
LEMMA SurpassedNow ==
    ASSUME Evolves, NEW c \in DOMAIN claims', NEW t \in Txns, TxnOf[claims'[c].split] = t,
           c \in DOMAIN claims => Rank(claims'[c].kind) > Rank(claims[c].kind)
    PROVE  \A digest \in Digests : Past(digest) => Surpassed(digest, t)'
<1> SUFFICES ASSUME NEW digest \in Digests, Past(digest)
             PROVE  \E d \in DOMAIN claims' :
                      /\ TxnOf[claims'[d].split] = t
                      /\ \A x \in digest[3] : x[1] = d => Rank(x[2]) < Rank(claims'[d].kind)
  BY DEF Surpassed
<1>1. digest # Unseen
  BY DEF Digests, Unseen
<1>2. ASSUME NEW x \in digest[3], x[1] = c PROVE Rank(x[2]) < Rank(claims'[c].kind)
  <2>1. c \in DOMAIN claims /\ Rank(x[2]) <= Rank(claims[c].kind)
    BY <1>1, <1>2 DEF Past
  <2> QED
    BY <2>1, RankIsNatural
<1> QED
  BY <1>2

LEMMA KnowledgeFromInv == ASSUME ActionAssumption, ActionInv PROVE KnowledgeHolds
<1>1. ActionsTypeOK
  <2>1. \A p \in DOMAIN proposals : proposals[p] \in CategoryProposal
    <3> TAKE p \in DOMAIN proposals
    <3>1. proposals[p] \in ProposalRecord
      BY DEF ActionInv, ActionTypes
    <3> QED
      BY <3>1 DEF ProposalRecord, CategoryProposal
  <2>2. \A c \in DOMAIN claims : claims[c] \in ClaimRecord
    BY DEF ActionInv, ActionTypes
  <2>3. \A t \in Txns : labels[t] = Unlabelled \/ labels[t] \in (DOMAIN proposals) \X Purposes
    <3> SUFFICES ASSUME NEW t \in Txns, labels[t] # Unlabelled
                 PROVE  labels[t] \in (DOMAIN proposals) \X Purposes
      OBVIOUS
    <3>1. labels[t] \in Nat \X Purposes /\ labels[t][1] \in DOMAIN proposals
      BY DEF ActionInv, ActionTypes, NamesExist
    <3> QED
      BY <3>1
  <2> QED
    BY <2>1, <2>2, <2>3 DEF ActionsTypeOK, ActionInv, ActionTypes, NamesExist, ClaimRecord, ClaimKinds
<1>2. OneTrustedCategory
  <2> USE DEF OneTrustedCategory
  <2> TAKE s \in Splits
  <2> DEFINE taught == {claims[c].category : c \in TrustedOf(s)}
  <2>1. \A x, y \in taught : x = y
    BY DEF TrustedOf, ActionInv, TrustedAgree
  <2>2. Cardinality(taught) \in {0, 1}
    <3> HIDE DEF taught
    <3>1. taught = {} \/ \E x : taught = {x}
      BY <2>1
    <3>2. CASE taught = {}
      BY <3>2, FS_EmptySet
    <3>3. ASSUME NEW x, taught = {x} PROVE Cardinality(taught) = 1
      BY <3>3, FS_Singleton
    <3> QED
      BY <3>1, <3>2, <3>3
  <2>3. Cardinality(taught) <= 1
    BY <2>2
  <2> QED
    BY <2>3
<1> QED
  BY <1>1, <1>2 DEF KnowledgeHolds, ActionInv

LEMMA ActionsAtFirst == ASSUME ActionAssumption, ActionsInit PROVE ActionInv
<1>1. /\ proposals = <<>> /\ audit = <<>> /\ claims = <<>>
      /\ DOMAIN proposals = {} /\ DOMAIN audit = {} /\ DOMAIN claims = {}
      /\ \A t \in Txns : labels[t] = Unlabelled
  BY DEF ActionsInit
<1>2. ActionTypes
  <2>1. category \in [Splits -> SplitCategories \cup {Unset}]
    BY DEF ActionsInit, SplitCategories
  <2>2. labels \in [Txns -> {Unlabelled} \cup (Nat \X Purposes)]
    BY DEF ActionsInit
  <2>3. proposals \in Seq(ProposalRecord) /\ audit \in Seq(AuditRecord) /\ claims \in Seq(ClaimRecord)
    BY <1>1
  <2> QED
    BY <2>1, <2>2, <2>3 DEF ActionTypes, ActionsInit
<1> QED
  BY <1>1, <1>2 DEF ActionInv, NamesExist, ClaimsAreBooked, OneProposalEach, TrustedAgree,
     DecidedTogether, LabelOfApproval, OneBacklogProposal, DecidedOnRecord, DigestsArePast,
     DecisionsMoveOn

-----------------------------------------------------------------------------
(* Steps that leave the proposals alone *)

\* No claim changes, though one may be added.
ClaimsStand == \A c \in DOMAIN claims : c \in DOMAIN claims' /\ claims'[c] = claims[c]

LEMMA ProposalFacts ==
    ASSUME ActionInv, NEW p \in DOMAIN proposals
    PROVE  /\ proposals[p] \in ProposalRecord
           /\ proposals[p].split \in Splits /\ TxnOf[proposals[p].split] \in Txns
           /\ proposals[p].seen \in {Unseen} \cup Digests
           /\ proposals[p].revert.exact \in {Unseen} \cup Digests
           /\ proposals[p].claim \in Nat /\ proposals[p].revert.claim \in Nat
           /\ proposals[p].claim # 0 => /\ proposals[p].claim \in DOMAIN claims
                                        /\ claims[proposals[p].claim].split = proposals[p].split
           /\ proposals[p].revert.claim # 0 =>
                 /\ proposals[p].revert.claim \in DOMAIN claims
                 /\ claims[proposals[p].revert.claim].split = proposals[p].split
<1>1. proposals[p] \in ProposalRecord
  BY DEF ActionInv, ActionTypes
<1> QED
  BY <1>1 DEF ProposalRecord, ActionInv, NamesExist, Txns

LEMMA ClaimFacts ==
    ASSUME ActionInv, NEW c \in DOMAIN claims
    PROVE  /\ claims[c] \in ClaimRecord /\ claims[c].split \in Splits
           /\ claims[c].kind \in ClaimKinds /\ claims[c].category \in Purposes
           /\ category[claims[c].split] # Unset
<1>1. claims[c] \in ClaimRecord
  BY DEF ActionInv, ActionTypes
<1> QED
  BY <1>1 DEF ClaimRecord, ActionInv, ClaimsAreBooked

LEMMA StillStep ==
    ASSUME ActionInv, ActionTypes', UNCHANGED <<proposals, audit, labels>>, ClaimsStand,
           ClaimsAreBooked', TrustedAgree'
    PROVE  ActionInv'
<1>1. Evolves
  BY DEF Evolves, ClaimsStand, ActionTypes
<1>2. NamesExist'
  BY ProposalFacts DEF ActionInv, NamesExist, ClaimsStand
<1>3. OneProposalEach' /\ LabelOfApproval' /\ OneBacklogProposal'
  BY DEF ActionInv, OneProposalEach, LabelOfApproval, OneBacklogProposal
<1>4. DecidedTogether'
  BY ProposalFacts DEF ActionInv, DecidedTogether, ClaimsStand
<1>5. DecidedOnRecord'
  BY ProposalFacts DEF ActionInv, DecidedOnRecord, ClaimsStand
<1>6. DigestsArePast'
  <2> SUFFICES ASSUME NEW p \in DOMAIN proposals
               PROVE  Past(proposals[p].seen)' /\ Past(proposals[p].revert.exact)'
    BY DEF DigestsArePast
  <2>1. Past(proposals[p].seen) /\ Past(proposals[p].revert.exact)
    BY DEF ActionInv, DigestsArePast
  <2>2. proposals'[p].seen = proposals[p].seen /\ proposals'[p].revert.exact = proposals[p].revert.exact
    OBVIOUS
  <2> QED
    BY <1>1, <2>1, <2>2, ProposalFacts, PastStays DEF Past
<1>7. DecisionsMoveOn'
  <2> SUFFICES ASSUME NEW p \in DOMAIN proposals, NEW q \in DOMAIN proposals,
                      proposals[q].revert.claim # 0
               PROVE
        LET a == proposals[p]  b == proposals[q] IN
        /\ SameTxn(p, q) /\ a.revert.exact # Unseen /\ Before(p, "approved", q, "approved")
              => Surpassed(a.revert.exact, TxnOf[a.split])'
        /\ SameTxn(p, q) /\ a.seen # Unseen
           /\ (Before(p, "proposed", q, "approved") \/ Before(p, "proposed", q, "reverted"))
              => Surpassed(a.seen, TxnOf[a.split])'
        /\ a.split = b.split /\ a.revert.claim # 0 /\ a.to # b.to
           /\ Before(p, "approved", q, "approved")
              => Rank(claims'[a.revert.claim].kind) = 2
    BY DEF DecisionsMoveOn, SameTxn, Before, Surpassed
  <2> DEFINE a == proposals[p]  b == proposals[q]
  <2>1. /\ SameTxn(p, q) /\ a.revert.exact # Unseen /\ Before(p, "approved", q, "approved")
              => Surpassed(a.revert.exact, TxnOf[a.split])
        /\ SameTxn(p, q) /\ a.seen # Unseen
           /\ (Before(p, "proposed", q, "approved") \/ Before(p, "proposed", q, "reverted"))
              => Surpassed(a.seen, TxnOf[a.split])
        /\ a.split = b.split /\ a.revert.claim # 0 /\ a.to # b.to
           /\ Before(p, "approved", q, "approved")
              => Rank(claims[a.revert.claim].kind) = 2
    BY DEF ActionInv, DecisionsMoveOn
  <2>2. /\ a.seen # Unseen /\ Surpassed(a.seen, TxnOf[a.split])
              => Surpassed(a.seen, TxnOf[a.split])'
        /\ a.revert.exact # Unseen /\ Surpassed(a.revert.exact, TxnOf[a.split])
              => Surpassed(a.revert.exact, TxnOf[a.split])'
    BY <1>1, ProposalFacts, SurpassedStays
  <2>3. a.revert.claim # 0 => claims'[a.revert.claim] = claims[a.revert.claim]
    BY ProposalFacts DEF ClaimsStand
  <2> QED
    BY <2>1, <2>2, <2>3
<1> QED
  BY <1>2, <1>3, <1>4, <1>5, <1>6, <1>7 DEF ActionInv

-----------------------------------------------------------------------------
(* Steps that add a proposal *)

\* What the invariant says of a pair of proposals
MovedOn(p, q) ==
    LET a == proposals[p]  b == proposals[q] IN
    b.revert.claim # 0 =>
        /\ SameTxn(p, q) /\ a.revert.exact # Unseen /\ Before(p, "approved", q, "approved")
              => Surpassed(a.revert.exact, TxnOf[a.split])
        /\ SameTxn(p, q) /\ a.seen # Unseen
           /\ (Before(p, "proposed", q, "approved") \/ Before(p, "proposed", q, "reverted"))
              => Surpassed(a.seen, TxnOf[a.split])
        /\ a.split = b.split /\ a.revert.claim # 0 /\ a.to # b.to /\ Before(p, "approved", q, "approved")
              => Rank(claims[a.revert.claim].kind) = 2

\* A pair whose order is as old as what it is about stays as it is.
LEMMA PairStays ==
    ASSUME ActionInv, Evolves, NEW p \in DOMAIN proposals, NEW q \in DOMAIN proposals,
           p \in DOMAIN proposals', q \in DOMAIN proposals',
           proposals'[p].split = proposals[p].split, proposals'[q].split = proposals[q].split,
           proposals'[p].seen = proposals[p].seen, proposals'[p].revert = proposals[p].revert,
           proposals'[q].revert = proposals[q].revert,
           proposals'[p].revert.claim # 0 => proposals'[p].to = proposals[p].to,
           proposals'[q].revert.claim # 0 => proposals'[q].to = proposals[q].to,
           Before(p, "approved", q, "approved")' => Before(p, "approved", q, "approved"),
           Before(p, "proposed", q, "approved")' => Before(p, "proposed", q, "approved"),
           Before(p, "proposed", q, "reverted")' => \/ Before(p, "proposed", q, "reverted")
                                                    \/ Before(p, "proposed", q, "approved")
    PROVE  MovedOn(p, q)'
<1> DEFINE a == proposals[p]  b == proposals[q]
<1>1. /\ b.revert.claim # 0 /\ SameTxn(p, q) /\ a.revert.exact # Unseen
         /\ Before(p, "approved", q, "approved") => Surpassed(a.revert.exact, TxnOf[a.split])
      /\ b.revert.claim # 0 /\ SameTxn(p, q) /\ a.seen # Unseen
         /\ (Before(p, "proposed", q, "approved") \/ Before(p, "proposed", q, "reverted"))
              => Surpassed(a.seen, TxnOf[a.split])
      /\ b.revert.claim # 0 /\ a.split = b.split /\ a.revert.claim # 0 /\ a.to # b.to
         /\ Before(p, "approved", q, "approved") => Rank(claims[a.revert.claim].kind) = 2
  BY DEF ActionInv, DecisionsMoveOn
<1>2. /\ a.seen # Unseen /\ Surpassed(a.seen, TxnOf[a.split])
           => Surpassed(a.seen, TxnOf[a.split])'
      /\ a.revert.exact # Unseen /\ Surpassed(a.revert.exact, TxnOf[a.split])
           => Surpassed(a.revert.exact, TxnOf[a.split])'
  <2>1. \A digest \in Digests, t \in Txns : Surpassed(digest, t) =>
          \E c \in DOMAIN claims' :
             /\ TxnOf[claims'[c].split] = t
             /\ \A x \in digest[3] : x[1] = c => Rank(x[2]) < Rank(claims'[c].kind)
    BY SurpassedStays DEF Surpassed
  <2> QED
    BY <2>1, ProposalFacts DEF Surpassed
<1>3. a.revert.claim # 0 /\ Rank(claims[a.revert.claim].kind) = 2
        => Rank(claims'[a.revert.claim].kind) = 2
  BY ProposalFacts, RankIsNatural DEF Evolves
<1>4. SameTxn(p, q)' <=> SameTxn(p, q)
  BY DEF SameTxn
<1> QED
  BY <1>1, <1>2, <1>3, <1>4 DEF MovedOn, Surpassed

LEMMA StandEvolves == ASSUME ClaimsStand, ActionTypes' PROVE Evolves
BY DEF Evolves, ClaimsStand, ActionTypes

LEMMA PastAsWell ==
    ASSUME ActionInv, Evolves, NEW p \in DOMAIN proposals
    PROVE  /\ Past(proposals[p].seen) /\ Past(proposals[p].revert.exact)
           /\ \A digest \in {proposals[p].seen, proposals[p].revert.exact} :
                 digest # Unseen => \A x \in digest[3] :
                    x[1] \in DOMAIN claims' /\ Rank(x[2]) <= Rank(claims'[x[1]].kind)
<1>1. Past(proposals[p].seen) /\ Past(proposals[p].revert.exact)
  BY DEF ActionInv, DigestsArePast
<1>2. \A digest \in {Unseen} \cup Digests : Past(digest) /\ digest # Unseen =>
         \A x \in digest[3] :
            x[1] \in DOMAIN claims' /\ Rank(x[2]) <= Rank(claims'[x[1]].kind)
  BY PastStays DEF Past
<1> QED
  BY <1>1, <1>2, ProposalFacts

LEMMA EnqueueStep ==
    ASSUME ActionInv, ActionTypes', NEW x \in ProposalRecord,
           proposals' = Append(proposals, x),
           audit' = Append(audit, <<Len(proposals'), "proposed">>), labels' = labels,
           ClaimsStand, ClaimsAreBooked', TrustedAgree',
           x.status = "proposed", x.revert = NoRevert,
           x.claim # 0 => /\ x.claim \in DOMAIN claims' /\ x.claim \notin DOMAIN claims
                          /\ claims'[x.claim].split = x.split
                          /\ claims'[x.claim].kind = "proposed",
           x.origin = "machine" => x.seen # Unseen,
           Past(x.seen), x.origin = "backlog" => ~Active(TxnOf[x.split])
    PROVE  ActionInv'
<1> DEFINE n == Len(proposals) + 1
           last == Len(audit) + 1
<1>1. Evolves
  BY StandEvolves
<1>2. /\ DOMAIN proposals' = DOMAIN proposals \cup {n} /\ n \notin DOMAIN proposals
      /\ proposals'[n] = x /\ Len(proposals') = n
      /\ \A p \in DOMAIN proposals : proposals'[p] = proposals[p] /\ p # 0
  <2>1. proposals \in Seq(ProposalRecord)
    BY DEF ActionInv, ActionTypes
  <2> QED
    BY <2>1, Grown
<1>3. /\ DOMAIN audit' = DOMAIN audit \cup {last} /\ last \notin DOMAIN audit
      /\ audit'[last] = <<n, "proposed">>
      /\ \A i \in DOMAIN audit : audit'[i] = audit[i] /\ i < last
      /\ \A i \in DOMAIN audit : audit[i][1] \in DOMAIN proposals
  <2>1. audit \in Seq(AuditRecord)
    BY DEF ActionInv, ActionTypes
  <2>2. n \in Nat
    BY DEF ActionInv, ActionTypes
  <2>3. <<n, "proposed">> \in AuditRecord
    BY <2>2 DEF AuditRecord
  <2> HIDE DEF n
  <2>4. audit' = Append(audit, <<n, "proposed">>)
    BY <1>2
  <2> QED
    BY <2>1, <2>3, <2>4, Grown DEF ActionInv, NamesExist
<1> HIDE DEF n, last
<1>4. x.revert.claim = 0 /\ x.revert.exact = Unseen
  BY DEF NoRevert
<1>5. NamesExist'
  <2>1. \A p \in DOMAIN proposals' : \A c \in {proposals'[p].claim, proposals'[p].revert.claim} :
           c # 0 => c \in DOMAIN claims' /\ claims'[c].split = proposals'[p].split
    <3> TAKE p \in DOMAIN proposals'
    <3>1. CASE p = n
      BY <1>2, <1>4, <3>1
    <3>2. CASE p \in DOMAIN proposals
      BY <1>2, <3>2, ProposalFacts DEF ClaimsStand
    <3> QED
      BY <1>2, <3>1, <3>2
  <2>2. \A i \in DOMAIN audit' : audit'[i][1] \in DOMAIN proposals'
    BY <1>2, <1>3
  <2> QED
    BY <1>2, <2>1, <2>2 DEF ActionInv, NamesExist
<1>6. OneProposalEach'
  BY <1>2, ProposalFacts DEF ActionInv, OneProposalEach
<1>7. DecidedTogether'
  <2> SUFFICES ASSUME NEW p \in DOMAIN proposals', proposals'[p].claim # 0
               PROVE  LET a == proposals'[p] IN
                      /\ a.status \in Waiting => claims'[a.claim].kind = "proposed"
                      /\ a.status = "rejected" \/ (a.status \notin Waiting /\ Teaches(TxnOf[a.split], a.to))
                            => claims'[a.claim].kind # "proposed"
    BY DEF DecidedTogether
  <2>1. CASE p = n
    BY <1>2, <2>1 DEF Waiting
  <2>2. CASE p \in DOMAIN proposals
    BY <1>2, <2>2, ProposalFacts DEF ClaimsStand, ActionInv, DecidedTogether
  <2> QED
    BY <1>2, <2>1, <2>2
<1>8. LabelOfApproval'
  <2> SUFFICES ASSUME NEW t \in Txns, labels[t] # Unlabelled
               PROVE  LET a == proposals'[labels[t][1]] IN
                      a.status \in InForce /\ a.to = labels[t][2] /\ TxnOf[a.split] = t /\ Single(t)
    BY DEF LabelOfApproval
  <2>1. labels[t][1] \in DOMAIN proposals
    BY DEF ActionInv, NamesExist
  <2> QED
    BY <1>2, <2>1 DEF ActionInv, LabelOfApproval
<1>9. OneBacklogProposal'
  <2> SUFFICES ASSUME NEW p \in DOMAIN proposals', NEW q \in DOMAIN proposals',
                      proposals'[p].origin = "backlog", proposals'[p].status \in Waiting,
                      proposals'[q].origin = "backlog", proposals'[q].status \in Waiting,
                      TxnOf[proposals'[p].split] = TxnOf[proposals'[q].split]
               PROVE  p = q
    BY DEF OneBacklogProposal
  <2>1. CASE p \in DOMAIN proposals /\ q \in DOMAIN proposals
    BY <1>2, <2>1 DEF ActionInv, OneBacklogProposal
  <2>2. CASE p = n /\ q \in DOMAIN proposals
    BY <1>2, <2>2 DEF Active
  <2>3. CASE p \in DOMAIN proposals /\ q = n
    BY <1>2, <2>3 DEF Active
  <2> QED
    BY <1>2, <2>1, <2>2, <2>3
<1>10. DecidedOnRecord'
  <2>1. ASSUME NEW p \in DOMAIN proposals'
        PROVE  LET a == proposals'[p] IN
               /\ a.status \in Waiting => a.revert = NoRevert
               /\ a.revert.claim # 0 => /\ claims'[a.revert.claim].category = a.to
                                        /\ claims'[a.revert.claim].kind # "proposed"
               /\ a.origin = "machine" => a.seen # Unseen
    <3>1. CASE p = n
      BY <1>2, <1>4, <3>1
    <3>2. CASE p \in DOMAIN proposals
      BY <1>2, <3>2, ProposalFacts DEF ClaimsStand, ActionInv, DecidedOnRecord
    <3> QED
      BY <1>2, <2>1, <3>1, <3>2
  <2>2. ASSUME NEW i \in DOMAIN audit', audit'[i][2] \in {"approved", "reverted"}
        PROVE  proposals'[audit'[i][1]].status \notin Waiting
    <3>1. i # last
      BY <1>3, <2>2
    <3> QED
      BY <1>2, <1>3, <2>2, <3>1 DEF ActionInv, DecidedOnRecord
  <2> QED
    BY <2>1, <2>2 DEF DecidedOnRecord
<1>11. DigestsArePast'
  <2> SUFFICES ASSUME NEW p \in DOMAIN proposals'
               PROVE  Past(proposals[p].seen)' /\ Past(proposals[p].revert.exact)'
    BY DEF DigestsArePast, Past
  <2>1. CASE p = n
    <3>1. x.seen \in {Unseen} \cup Digests
      BY DEF ProposalRecord
    <3>2. \A digest \in {Unseen} \cup Digests : Past(digest) /\ digest # Unseen =>
             \A y \in digest[3] :
                y[1] \in DOMAIN claims' /\ Rank(y[2]) <= Rank(claims'[y[1]].kind)
      BY <1>1, PastStays DEF Past
    <3> QED
      BY <1>2, <1>4, <2>1, <3>1, <3>2 DEF Past
  <2>2. CASE p \in DOMAIN proposals
    BY <1>1, <1>2, <2>2, PastAsWell DEF Past
  <2> QED
    BY <1>2, <2>1, <2>2
<1>12. DecisionsMoveOn'
  <2> SUFFICES ASSUME NEW p \in DOMAIN proposals', NEW q \in DOMAIN proposals'
               PROVE  MovedOn(p, q)'
    BY DEF DecisionsMoveOn, MovedOn
  <2>1. CASE q = n
    BY <1>2, <1>4, <2>1 DEF MovedOn
  <2>2. ASSUME q \in DOMAIN proposals, NEW e \in {"proposed", "approved"},
               NEW l \in {"approved", "reverted"}, Before(p, e, q, l)'
        PROVE  p \in DOMAIN proposals /\ Before(p, e, q, l)
    <3>1. PICK i \in DOMAIN audit', j \in DOMAIN audit' :
            i < j /\ audit'[i] = <<p, e>> /\ audit'[j] = <<q, l>>
      BY <2>2 DEF Before
    <3>2. j \in DOMAIN audit
      BY <1>3, <2>2, <3>1
    <3>3. i \in DOMAIN audit
      BY <1>3, <3>1, <3>2
    <3>4. audit[i] = <<p, e>> /\ audit[j] = <<q, l>> /\ i < j
      BY <1>3, <3>1, <3>2, <3>3
    <3>5. audit[i][1] = p
      BY <3>4
    <3> QED
      BY <1>3, <3>2, <3>3, <3>4, <3>5 DEF Before
  <2>3. CASE p = n /\ q \in DOMAIN proposals
    BY <1>2, <2>2, <2>3 DEF MovedOn
  <2>4. CASE p \in DOMAIN proposals /\ q \in DOMAIN proposals
    <3>1. proposals'[p] = proposals[p] /\ proposals'[q] = proposals[q]
      BY <1>2, <2>4
    <3> QED
      BY <1>1, <1>2, <2>2, <2>4, <3>1, PairStays
  <2> QED
    BY <1>2, <2>1, <2>3, <2>4
<1> QED
  BY <1>5, <1>6, <1>7, <1>8, <1>9, <1>10, <1>11, <1>12 DEF ActionInv

-----------------------------------------------------------------------------
(* Bookings, edits and the batch *)

LEMMA UnsetIsNoCategory ==
    ASSUME ActionAssumption PROVE Unset \notin SplitCategories /\ Purposes \subseteq SplitCategories
BY DEF ActionAssumption, SplitCategories, Unset, Uncategorized

LEMMA ClaimTyped ==
    ASSUME NEW s \in Splits, NEW k \in Purposes, NEW kind \in ClaimKinds
    PROVE  /\ Claim(s, k, kind) \in ClaimRecord
           /\ Claim(s, k, kind).split = s /\ Claim(s, k, kind).category = k
           /\ Claim(s, k, kind).kind = kind
BY DEF Claim, ClaimRecord, ScopeOf, Txns

\* A claim that is added to those that stand
LEMMA ClaimAdded ==
    ASSUME ActionInv, NEW x \in ClaimRecord, claims' = Append(claims, x)
    PROVE  /\ claims' \in Seq(ClaimRecord) /\ ClaimsStand
           /\ Len(claims') = Len(claims) + 1 /\ Len(claims') # 0
           /\ Len(claims') \in DOMAIN claims' /\ Len(claims') \notin DOMAIN claims
           /\ DOMAIN claims' = DOMAIN claims \cup {Len(claims')}
           /\ claims'[Len(claims')] = x
<1>1. claims \in Seq(ClaimRecord)
  BY DEF ActionInv, ActionTypes
<1> QED
  BY <1>1, Grown DEF ClaimsStand

\* Bookings leave what is booked.
LEMMA BookedStays ==
    ASSUME ActionAssumption, ActionInv, NEW s \in Splits, NEW k \in SplitCategories,
           category' = [category EXCEPT ![s] = k]
    PROVE  /\ category' \in [Splits -> SplitCategories \cup {Unset}]
           /\ category'[s] # Unset
           /\ \A u \in Splits : category[u] # Unset => category'[u] # Unset
BY UnsetIsNoCategory DEF ActionInv, ActionTypes

LEMMA ResolvedTyped ==
    ASSUME ActionInv, NEW t PROVE Resolved(t) \in Purposes \cup {Unset}
<1> DEFINE scopes == {claims[c].scope : c \in Applicable(t)}
           narrowest == {x \in scopes : \A y \in scopes : ~Dominates(y, x)}
           chosen == {c \in Applicable(t) : claims[c].scope \in narrowest}
           targets == {claims[c].category : c \in chosen}
<1>1. targets \subseteq Purposes
  <2>1. \A c \in DOMAIN claims : claims[c] \in ClaimRecord
    BY DEF ActionInv, ActionTypes
  <2>2. chosen \subseteq DOMAIN claims
    BY DEF Applicable
  <2> HIDE DEF chosen
  <2> QED
    BY <2>1, <2>2 DEF ClaimRecord
<1>2. Cardinality(targets) = 1 => targets # {}
  <2>1. Cardinality({}) = 0
    BY FS_EmptySet
  <2> HIDE DEF targets
  <2> QED
    BY <2>1
<1>3. \/ Resolved(t) = Unset
      \/ Cardinality(targets) = 1 /\ Resolved(t) = CHOOSE k \in targets : TRUE
  BY DEF Resolved
<1> HIDE DEF targets
<1> QED
  BY <1>1, <1>2, <1>3

LEMMA EditKeeps ==
    ASSUME ActionAssumption, ActionInv, NEW s \in Splits, NEW k \in SplitCategories,
           NEW o \in BOOLEAN, EditTransaction(s, k, o)
    PROVE  ActionInv'
<1>1. /\ category' = [category EXCEPT ![s] = k]
      /\ UNCHANGED <<settled, proposals, audit, claims, labels, suggested>>
      /\ closedMonths' \subseteq closedMonths
  BY DEF EditTransaction, Unlocked
<1>2. ActionTypes'
  BY <1>1, BookedStays DEF ActionInv, ActionTypes
<1>3. ClaimsStand
  BY <1>1 DEF ClaimsStand
<1>4. ClaimsAreBooked'
  <2>1. \A c \in DOMAIN claims : claims[c].split \in Splits
    BY ClaimFacts
  <2> QED
    BY <1>1, <2>1, BookedStays DEF ActionInv, ClaimsAreBooked
<1>5. TrustedAgree'
  BY <1>1 DEF ActionInv, TrustedAgree
<1> QED
  BY <1>1, <1>2, <1>3, <1>4, <1>5, StillStep

LEMMA OthersKeep ==
    ASSUME ActionAssumption, ActionInv,
           \/ \E s \in Splits, k \in Purposes : Suggest(s, k)
           \/ \E t \in Unsettling : Unsettle(t)
           \/ \E mo \in ClosableMonths : CloseMonth(mo)
           \/ UNCHANGED actionVars
    PROVE  ActionInv'
<1>1. UNCHANGED <<category, proposals, audit, claims, labels>>
  BY DEF Suggest, Unsettle, CloseMonth, actionVars
<1>2. /\ settled' \subseteq Txns /\ suggested' \subseteq Splits \X Purposes
      /\ closedMonths' \subseteq ClosableMonths
  BY DEF Suggest, Unsettle, CloseMonth, actionVars, ActionInv, ActionTypes
<1>3. ActionTypes' /\ ClaimsStand /\ ClaimsAreBooked' /\ TrustedAgree'
  BY <1>1, <1>2 DEF ActionInv, ActionTypes, ClaimsStand, ClaimsAreBooked, TrustedAgree
<1> QED
  BY <1>1, <1>3, StillStep

LEMMA BookReviewedKeeps ==
    ASSUME ActionAssumption, ActionInv, NEW s \in Splits, NEW k \in SplitCategories,
           BookReviewedReceipt(s, k)
    PROVE  ActionInv'
<1>1. /\ category[s] = Unset /\ category' = [category EXCEPT ![s] = k]
      /\ claims' = IF k = Uncategorized THEN claims ELSE Confirmed(claims, s, k)
      /\ UNCHANGED <<settled, proposals, audit, labels, suggested, closedMonths>>
  BY DEF BookReviewedReceipt
<1>2. \A c \in DOMAIN claims : claims[c].split \in Splits /\ claims[c].split # s
  BY <1>1, ClaimFacts
<1>3. CASE k = Uncategorized
  <2>1. ActionTypes' /\ ClaimsStand /\ ClaimsAreBooked' /\ TrustedAgree'
    BY <1>1, <1>2, <1>3, BookedStays
       DEF ActionInv, ActionTypes, ClaimsStand, ClaimsAreBooked, TrustedAgree
  <2> QED
    BY <1>1, <2>1, StillStep
<1>4. CASE k # Uncategorized
  <2> DEFINE x == Claim(s, k, "accepted")
  <2>1. x \in ClaimRecord /\ x.split = s
    BY <1>4, ClaimTyped DEF ClaimKinds, Trusted, SplitCategories
  <2>2. claims' = Append(claims, x)
    BY <1>1, <1>4 DEF Confirmed
  <2> HIDE DEF x
  <2>3. /\ claims' \in Seq(ClaimRecord) /\ ClaimsStand
        /\ DOMAIN claims' = DOMAIN claims \cup {Len(claims')}
        /\ claims'[Len(claims')] = x
    BY <2>1, <2>2, ClaimAdded
  <2>4. ActionTypes'
    BY <1>1, <2>3, BookedStays DEF ActionInv, ActionTypes
  <2>5. ClaimsAreBooked'
    <3>1. /\ category'[s] # Unset
          /\ \A u \in Splits : category[u] # Unset => category'[u] # Unset
      BY <1>1, BookedStays
    <3>2. \A c \in DOMAIN claims : claims'[c].split \in Splits
                                  /\ category[claims'[c].split] # Unset
      BY <2>3, ClaimFacts DEF ClaimsStand
    <3> QED
      BY <2>1, <2>3, <3>1, <3>2 DEF ClaimsAreBooked
  <2>6. TrustedAgree'
    BY <1>2, <2>1, <2>3 DEF ActionInv, TrustedAgree, ClaimsStand
  <2> QED
    BY <1>1, <2>3, <2>4, <2>5, <2>6, StillStep
<1> QED
  BY <1>3, <1>4

-----------------------------------------------------------------------------
(* New proposals *)

NewProposal(s, k, seen, claim, origin) ==
    [split |-> s, to |-> k, seen |-> seen, claim |-> claim,
     origin |-> origin, status |-> "proposed", revert |-> NoRevert]

LEMMA NewProposalTyped ==
    ASSUME NEW s \in Splits, NEW k \in SplitCategories, NEW seen \in {Unseen} \cup Digests,
           NEW claim \in Nat, NEW origin \in {"receipt", "line", "machine", "backlog"},
           NEW x, x = NewProposal(s, k, seen, claim, origin)
    PROVE  /\ x \in ProposalRecord /\ x.split = s /\ x.seen = seen /\ x.claim = claim
           /\ x.origin = origin /\ x.status = "proposed" /\ x.revert = NoRevert
<1>1. NoRevert \in [undo : BOOLEAN, from : SplitCategories, claim : Nat, exact : {Unseen} \cup Digests]
  BY DEF NoRevert, SplitCategories
<1> QED
  BY <1>1 DEF NewProposal, ProposalRecord, Waiting

LEMMA AuditTyped ==
    ASSUME ActionInv, NEW n \in Nat, NEW e \in {"proposed", "approved", "rejected", "reverted"}
    PROVE  Append(audit, <<n, e>>) \in Seq(AuditRecord)
<1>1. <<n, e>> \in AuditRecord
  BY DEF AuditRecord
<1> QED
  BY <1>1 DEF ActionInv, ActionTypes

\* A proposal joins the queue, and nothing that it could contradict changes.
LEMMA JoinStep ==
    ASSUME ActionAssumption, ActionInv,
           NEW s \in Splits, NEW k \in SplitCategories, NEW seen \in {Unseen} \cup Digests,
           NEW claim \in Nat, NEW origin \in {"receipt", "line", "machine", "backlog"},
           proposals' = Enqueued(proposals, s, k, seen, claim, origin),
           Logged(Len(proposals'), "proposed"),
           category' \in [Splits -> SplitCategories \cup {Unset}], claims' \in Seq(ClaimRecord),
           settled' = settled, labels' = labels, closedMonths' = closedMonths,
           suggested' \subseteq suggested, ClaimsStand, ClaimsAreBooked', TrustedAgree',
           claim # 0 => /\ claim \in DOMAIN claims' /\ claim \notin DOMAIN claims
                        /\ claims'[claim].split = s /\ claims'[claim].kind = "proposed",
           origin = "machine" => seen # Unseen, Past(seen),
           origin = "backlog" => ~Active(TxnOf[s])
    PROVE  ActionInv'
<1> DEFINE x == NewProposal(s, k, seen, claim, origin)
<1>0. x = NewProposal(s, k, seen, claim, origin)
  OBVIOUS
<1> HIDE DEF x
<1>1. /\ x \in ProposalRecord /\ x.split = s /\ x.seen = seen /\ x.claim = claim
      /\ x.origin = origin /\ x.status = "proposed" /\ x.revert = NoRevert
  BY <1>0, NewProposalTyped
<1>2. proposals' = Append(proposals, x)
  BY DEF Enqueued, NewProposal, x
<1>3. audit' = Append(audit, <<Len(proposals'), "proposed">>)
  BY DEF Logged
<1>4. proposals' \in Seq(ProposalRecord) /\ Len(proposals') \in Nat
  BY <1>1, <1>2, Grown DEF ActionInv, ActionTypes
<1>5. audit' \in Seq(AuditRecord)
  BY <1>3, <1>4, AuditTyped
<1>6. ActionTypes'
  BY <1>4, <1>5 DEF ActionInv, ActionTypes
<1> QED
  BY <1>1, <1>2, <1>3, <1>6, EnqueueStep

\* Booking a split that was not booked leaves the claims that there are.
LEMMA BookingKeeps ==
    ASSUME ActionAssumption, ActionInv, NEW s \in Splits,
           category' = [category EXCEPT ![s] = Uncategorized], ClaimsStand,
           \A c \in DOMAIN claims' \ DOMAIN claims :
               claims'[c].split = s /\ claims'[c].kind = "proposed"
    PROVE  /\ category' \in [Splits -> SplitCategories \cup {Unset}]
           /\ ClaimsAreBooked' /\ TrustedAgree'
<1>1. Uncategorized \in SplitCategories
  BY DEF SplitCategories
<1>2. /\ category' \in [Splits -> SplitCategories \cup {Unset}] /\ category'[s] # Unset
      /\ \A u \in Splits : category[u] # Unset => category'[u] # Unset
  BY <1>1, BookedStays
<1>3. ClaimsAreBooked'
  <2> SUFFICES ASSUME NEW c \in DOMAIN claims' PROVE category'[claims'[c].split] # Unset
    BY DEF ClaimsAreBooked
  <2>1. CASE c \in DOMAIN claims
    BY <1>2, <2>1, ClaimFacts DEF ClaimsStand
  <2>2. CASE c \notin DOMAIN claims
    BY <1>2, <2>2
  <2> QED
    BY <2>1, <2>2
<1>4. TrustedAgree'
  <2> SUFFICES ASSUME NEW c \in DOMAIN claims', NEW d \in DOMAIN claims',
                      claims'[c].kind \in Trusted, claims'[d].kind \in Trusted,
                      claims'[c].split = claims'[d].split
               PROVE  claims'[c].category = claims'[d].category
    BY DEF TrustedAgree
  <2>1. c \in DOMAIN claims /\ d \in DOMAIN claims
    BY DEF Trusted
  <2> QED
    BY <2>1 DEF ClaimsStand, ActionInv, TrustedAgree
<1> QED
  BY <1>2, <1>3, <1>4

LEMMA BookReceiptKeeps ==
    ASSUME ActionAssumption, ActionInv, NEW s \in Splits, NEW guess \in Guesses \cup {Unset},
           BookReceipt(s, guess)
    PROVE  ActionInv'
<1> DEFINE chosen == IF Resolved(TxnOf[s]) # Unset THEN Resolved(TxnOf[s]) ELSE guess
<1>1. chosen \in Purposes \cup {Unset}
  BY ResolvedTyped DEF ActionAssumption
<1>2. /\ category' = [category EXCEPT ![s] = Uncategorized]
      /\ UNCHANGED <<settled, labels, suggested, closedMonths>>
      /\ chosen = Unset => UNCHANGED <<proposals, audit, claims>>
      /\ chosen # Unset =>
            /\ claims' = Proposed(claims, s, chosen)
            /\ proposals' = Enqueued(proposals, s, chosen, Unseen, Len(claims'), "receipt")
            /\ Logged(Len(proposals'), "proposed")
  BY DEF BookReceipt
<1> HIDE DEF chosen
<1>3. CASE chosen = Unset
  <2>1. ClaimsStand /\ DOMAIN claims' = DOMAIN claims
    BY <1>2, <1>3 DEF ClaimsStand
  <2>2. /\ category' \in [Splits -> SplitCategories \cup {Unset}]
        /\ ClaimsAreBooked' /\ TrustedAgree'
    BY <1>2, <2>1, BookingKeeps
  <2>3. ActionTypes'
    BY <1>2, <1>3, <2>2 DEF ActionInv, ActionTypes
  <2> QED
    BY <1>2, <1>3, <2>1, <2>2, <2>3, StillStep
<1>4. CASE chosen # Unset
  <2> DEFINE x == Claim(s, chosen, "proposed")
  <2>1. x \in ClaimRecord /\ x.split = s /\ x.kind = "proposed"
    BY <1>1, <1>4, ClaimTyped DEF ClaimKinds
  <2>2. claims' = Append(claims, x)
    BY <1>2, <1>4 DEF Proposed
  <2> HIDE DEF x
  <2>3. /\ claims' \in Seq(ClaimRecord) /\ ClaimsStand
        /\ Len(claims') \in DOMAIN claims' /\ Len(claims') \notin DOMAIN claims
        /\ DOMAIN claims' = DOMAIN claims \cup {Len(claims')}
        /\ claims'[Len(claims')] = x
    BY <2>1, <2>2, ClaimAdded
  <2>4. /\ category' \in [Splits -> SplitCategories \cup {Unset}]
        /\ ClaimsAreBooked' /\ TrustedAgree'
    BY <1>2, <2>1, <2>3, BookingKeeps
  <2>5. Len(claims') \in Nat /\ chosen \in SplitCategories /\ Past(Unseen)
    BY <1>1, <1>4, <2>3, UnsetIsNoCategory DEF Past
  <2> QED
    BY <1>2, <1>4, <2>1, <2>3, <2>4, <2>5, JoinStep
<1> QED
  BY <1>3, <1>4

LEMMA BookLineKeeps ==
    ASSUME ActionAssumption, ActionInv, NEW s \in Splits, BookLine(s)
    PROVE  ActionInv'
<1> DEFINE k == Resolved(TxnOf[s])
<1>1. k \in Purposes \cup {Unset}
  BY ResolvedTyped
<1>2. /\ category' = [category EXCEPT ![s] = Uncategorized]
      /\ UNCHANGED <<settled, claims, labels, suggested, closedMonths>>
      /\ k = Unset => UNCHANGED <<proposals, audit>>
      /\ k # Unset => /\ proposals' = Enqueued(proposals, s, k, Unseen, 0, "line")
                      /\ Logged(Len(proposals'), "proposed")
  BY DEF BookLine
<1> HIDE DEF k
<1>3. ClaimsStand /\ DOMAIN claims' = DOMAIN claims /\ claims' \in Seq(ClaimRecord)
  BY <1>2 DEF ClaimsStand, ActionInv, ActionTypes
<1>4. /\ category' \in [Splits -> SplitCategories \cup {Unset}]
      /\ ClaimsAreBooked' /\ TrustedAgree'
  BY <1>2, <1>3, BookingKeeps
<1>5. CASE k = Unset
  <2>1. ActionTypes'
    BY <1>2, <1>4, <1>5 DEF ActionInv, ActionTypes
  <2> QED
    BY <1>2, <1>3, <1>4, <1>5, <2>1, StillStep
<1>6. CASE k # Unset
  <2>1. k \in SplitCategories /\ Past(Unseen)
    BY <1>1, <1>6, UnsetIsNoCategory DEF Past
  <2> QED
    BY <1>2, <1>3, <1>4, <1>6, <2>1, JoinStep
<1> QED
  BY <1>5, <1>6

\* Without a booking the categories and claims are as they were.
LEMMA KnowledgeStays ==
    ASSUME ActionInv, UNCHANGED <<category, claims>>
    PROVE  /\ category' \in [Splits -> SplitCategories \cup {Unset}]
           /\ claims' \in Seq(ClaimRecord)
           /\ ClaimsStand /\ ClaimsAreBooked' /\ TrustedAgree'
BY DEF ActionInv, ActionTypes, ClaimsStand, ClaimsAreBooked, TrustedAgree

LEMMA ProposeKeeps ==
    ASSUME ActionAssumption, ActionInv, NEW r \in Requests, ProposeCategory(r[1], r[2])
    PROVE  ActionInv'
<1> DEFINE s == r[1]  k == r[2]  seen == Digest(TxnOf[s], category, claims)
<1>1. s \in Splits /\ k \in SplitCategories /\ TxnOf[s] \in Txns
  BY DEF ActionAssumption, Txns
<1>2. /\ proposals' = Enqueued(proposals, s, k, seen, 0, "machine")
      /\ Logged(Len(proposals'), "proposed")
      /\ UNCHANGED <<category, settled, claims, labels, suggested, closedMonths>>
  BY DEF ProposeCategory
<1>3. seen \in Digests /\ seen # Unseen
  BY <1>1, DigestTyped DEF ActionInv, ActionTypes
<1>4. Past(seen)
  BY <1>1, DigestIsPast DEF ActionInv
<1> HIDE DEF s, k, seen
<1>5. 0 \in Nat /\ suggested' \subseteq suggested
  BY <1>2
<1> QED
  BY <1>1, <1>2, <1>3, <1>4, <1>5, KnowledgeStays, JoinStep

LEMMA EnqueueSuggestionKeeps ==
    ASSUME ActionAssumption, ActionInv, NEW s \in Splits, NEW k \in Purposes,
           EnqueueSuggestion(s, k)
    PROVE  ActionInv'
<1>1. /\ suggested' \subseteq suggested
      /\ UNCHANGED <<category, settled, claims, labels, closedMonths>>
      /\ \/ UNCHANGED <<proposals, audit>>
         \/ /\ ~Active(TxnOf[s])
            /\ proposals' = Enqueued(proposals, s, k, Unseen, 0, "backlog")
            /\ Logged(Len(proposals'), "proposed")
  BY DEF EnqueueSuggestion
<1>2. CASE UNCHANGED <<proposals, audit>>
  <2>1. ActionTypes'
    BY <1>1, <1>2 DEF ActionInv, ActionTypes
  <2> QED
    BY <1>1, <1>2, <2>1, KnowledgeStays, StillStep
<1>3. ASSUME ~Active(TxnOf[s]), Logged(Len(proposals'), "proposed"),
             proposals' = Enqueued(proposals, s, k, Unseen, 0, "backlog")
      PROVE  ActionInv'
  <2>1. k \in SplitCategories /\ Past(Unseen)
    BY UnsetIsNoCategory DEF Past
  <2> QED
    BY <1>1, <1>3, <2>1, KnowledgeStays, JoinStep
<1> QED
  BY <1>1, <1>2, <1>3

-----------------------------------------------------------------------------
(* Steps that change one proposal *)

LEMMA TurnedFacts ==
    ASSUME NEW known \in Seq(ClaimRecord), NEW chosen, NEW kind \in ClaimKinds
    PROVE  LET turned == Turned(known, chosen, kind) IN
           /\ turned \in Seq(ClaimRecord) /\ DOMAIN turned = DOMAIN known /\ Len(turned) = Len(known)
           /\ \A c \in DOMAIN known :
                /\ turned[c].split = known[c].split /\ turned[c].category = known[c].category
                /\ c \in chosen => turned[c].kind = kind
                /\ c \notin chosen => turned[c] = known[c]
<1> DEFINE turned == Turned(known, chosen, kind)
<1>1. DOMAIN turned = 1..Len(known) /\ DOMAIN known = 1..Len(known) /\ Len(known) \in Nat
  BY DEF Turned
<1>2. ASSUME NEW c \in DOMAIN known
      PROVE  /\ turned[c] \in ClaimRecord
             /\ turned[c].split = known[c].split /\ turned[c].category = known[c].category
             /\ c \in chosen => turned[c].kind = kind
             /\ c \notin chosen => turned[c] = known[c]
  <2>1. known[c] \in ClaimRecord
    BY <1>2
  <2>2. turned[c] = IF c \in chosen THEN [known[c] EXCEPT !.kind = kind] ELSE known[c]
    BY <1>2 DEF Turned
  <2> HIDE DEF turned
  <2> QED
    BY <2>1, <2>2 DEF ClaimRecord
<1>3. turned = [c \in 1..Len(known) |-> turned[c]]
  BY <1>1 DEF Turned
<1> HIDE DEF turned
<1>4. turned \in [1..Len(known) -> ClaimRecord]
  BY <1>1, <1>2, <1>3
<1>5. turned \in Seq(ClaimRecord) /\ Len(turned) = Len(known)
  BY <1>1, <1>4
<1> QED
  BY <1>1, <1>2, <1>5 DEF turned

\* An event joins the audit at most; then what was ordered before is ordered still.
LEMMA OrderStays ==
    ASSUME ActionInv, NEW p \in DOMAIN proposals, NEW e \in {"approved", "rejected", "reverted"},
           audit' = audit \/ audit' = Append(audit, <<p, e>>),
           NEW u \in DOMAIN proposals, NEW q \in DOMAIN proposals,
           NEW early \in {"proposed", "approved"}, NEW late \in {"approved", "reverted"},
           Before(u, early, q, late)'
    PROVE  /\ Before(u, early, q, late) \/ (q = p /\ late = e)
           /\ \E i \in DOMAIN audit : audit[i] = <<u, early>>
<1>1. CASE audit' = audit
  BY <1>1 DEF Before
<1>2. CASE audit' = Append(audit, <<p, e>>)
  <2> DEFINE last == Len(audit) + 1
  <2>1. /\ DOMAIN audit' = DOMAIN audit \cup {last}
        /\ audit'[last] = <<p, e>>
        /\ \A i \in DOMAIN audit : audit'[i] = audit[i] /\ i < last /\ i \in Nat
        /\ last \in Nat
    <3>1. audit \in Seq(AuditRecord)
      BY DEF ActionInv, ActionTypes
    <3>2. p \in Nat
      BY DEF ActionInv, ActionTypes
    <3>3. <<p, e>> \in AuditRecord
      BY <3>2 DEF AuditRecord
    <3> QED
      BY <1>2, <3>1, <3>3, Grown
  <2> HIDE DEF last
  <2>2. PICK i \in DOMAIN audit', j \in DOMAIN audit' :
          i < j /\ audit'[i] = <<u, early>> /\ audit'[j] = <<q, late>>
    BY DEF Before
  <2>3. i \in DOMAIN audit
    BY <2>1, <2>2
  <2>4. CASE j \in DOMAIN audit
    BY <2>1, <2>2, <2>3, <2>4 DEF Before
  <2>5. CASE j = last
    <3>1. <<q, late>> = <<p, e>>
      BY <2>1, <2>2, <2>5
    <3>2. q = p /\ late = e
      BY <3>1
    <3> QED
      BY <2>1, <2>2, <2>3, <3>2
  <2> QED
    BY <2>1, <2>4, <2>5
<1> QED
  BY <1>1, <1>2

\* What a decision may do to its proposal p, and to the claims.
Changes(p, e) ==
    LET a == proposals[p]  b == proposals'[p] IN
    /\ Evolves
    /\ DOMAIN proposals' = DOMAIN proposals
    /\ \A q \in DOMAIN proposals : q # p => proposals'[q] = proposals[q]
    /\ b.split = a.split /\ b.seen = a.seen /\ b.claim = a.claim /\ b.origin = a.origin
    /\ b.status \in Waiting => a.status \in Waiting
    /\ \A c \in DOMAIN claims :
           claims[c].kind = "proposed" /\ c # a.claim => claims'[c] = claims[c]
    /\ \/ audit' = audit
       \/ audit' = Append(audit, <<p, e>>) /\ (e \in {"approved", "reverted"} => b.status \notin Waiting)
    /\ b.status \in Waiting => b.revert = NoRevert
    /\ b.revert.claim # 0 => /\ b.revert.claim \in DOMAIN claims'
                             /\ claims'[b.revert.claim].split = b.split
                             /\ claims'[b.revert.claim].category = b.to
                             /\ claims'[b.revert.claim].kind # "proposed"
    /\ b.revert.exact # Unseen => \A y \in b.revert.exact[3] :
           y[1] \in DOMAIN claims' /\ Rank(y[2]) <= Rank(claims'[y[1]].kind)
    /\ b.claim # 0 =>
        /\ b.status \in Waiting => claims'[b.claim].kind = "proposed"
        /\ b.status = "rejected" \/ (b.status \notin Waiting /\ Teaches(TxnOf[b.split], b.to))
              => claims'[b.claim].kind # "proposed"

LEMMA ChangeStep ==
    ASSUME ActionInv, NEW p \in DOMAIN proposals, NEW e \in {"approved", "rejected", "reverted"},
           Changes(p, e), ActionTypes', ClaimsAreBooked', TrustedAgree', LabelOfApproval',
           \A t \in Txns : labels'[t] # Unlabelled =>
               labels'[t][1] = p \/ labels'[t] = labels[t],
           DecisionsMoveOn'
    PROVE  ActionInv'
<1> DEFINE a == proposals[p]  b == proposals'[p]
<1>1. /\ Evolves /\ DOMAIN proposals' = DOMAIN proposals
      /\ \A q \in DOMAIN proposals : q # p => proposals'[q] = proposals[q]
      /\ b.split = a.split /\ b.seen = a.seen /\ b.claim = a.claim /\ b.origin = a.origin
      /\ b.status \in Waiting => a.status \in Waiting
  BY DEF Changes
<1>2. \A c \in DOMAIN claims : claims[c].kind # "proposed" => claims'[c].kind # "proposed"
  BY <1>1, RankIsNatural DEF Evolves
<1>3. DOMAIN audit' = DOMAIN audit \/ audit' = Append(audit, <<p, e>>)
  BY DEF Changes
<1>4. \A i \in DOMAIN audit' :
        \/ i \in DOMAIN audit /\ audit'[i] = audit[i]
        \/ audit'[i] = <<p, e>> /\ audit' = Append(audit, <<p, e>>)
  <2>1. CASE audit' = audit
    BY <2>1
  <2>2. CASE audit' = Append(audit, <<p, e>>)
    <3>1. audit \in Seq(AuditRecord)
      BY DEF ActionInv, ActionTypes
    <3>2. p \in Nat
      BY DEF ActionInv, ActionTypes
    <3>3. <<p, e>> \in AuditRecord
      BY <3>2 DEF AuditRecord
    <3> QED
      BY <2>2, <3>1, <3>3, Grown
  <2> QED
    BY <2>1, <2>2 DEF Changes
<1>5. NamesExist'
  <2>1. ASSUME NEW q \in DOMAIN proposals,
               NEW c \in {proposals'[q].claim, proposals'[q].revert.claim}, c # 0
        PROVE  c \in DOMAIN claims' /\ claims'[c].split = proposals'[q].split
    <3>1. CASE q # p \/ c = b.claim
      <4>1. c \in DOMAIN claims /\ claims[c].split = proposals[q].split
        BY <1>1, <2>1, <3>1, ProposalFacts
      <4> QED
        BY <1>1, <4>1 DEF Evolves
    <3>2. CASE q = p /\ c = b.revert.claim
      BY <2>1, <3>2 DEF Changes
    <3> QED
      BY <2>1, <3>1, <3>2
  <2>2. \A i \in DOMAIN audit' : audit'[i][1] \in DOMAIN proposals
    <3> TAKE i \in DOMAIN audit'
    <3>1. <<p, e>>[1] = p
      OBVIOUS
    <3> QED
      BY <1>4, <3>1 DEF ActionInv, NamesExist
  <2>3. \A t \in Txns : labels'[t] # Unlabelled => labels'[t][1] \in DOMAIN proposals
    BY DEF ActionInv, NamesExist
  <2> QED
    BY <1>1, <2>1, <2>2, <2>3 DEF NamesExist
<1>6. OneProposalEach'
  BY <1>1 DEF ActionInv, OneProposalEach
<1>7. DecidedTogether'
  <2> SUFFICES ASSUME NEW q \in DOMAIN proposals, proposals'[q].claim # 0
               PROVE  LET d == proposals'[q] IN
                      /\ d.status \in Waiting => claims'[d.claim].kind = "proposed"
                      /\ d.status = "rejected" \/ (d.status \notin Waiting /\ Teaches(TxnOf[d.split], d.to))
                            => claims'[d.claim].kind # "proposed"
    BY <1>1 DEF DecidedTogether
  <2>1. CASE q = p
    BY <2>1 DEF Changes
  <2>2. CASE q # p
    <3>1. proposals'[q] = proposals[q] /\ proposals[q].claim # a.claim
      BY <1>1, <2>2 DEF ActionInv, OneProposalEach
    <3>2. proposals[q].claim \in DOMAIN claims
      BY <3>1, ProposalFacts
    <3>3. claims[proposals[q].claim].kind = "proposed" => claims'[proposals[q].claim].kind = "proposed"
      BY <3>1, <3>2 DEF Changes
    <3> QED
      BY <1>2, <3>1, <3>2, <3>3 DEF ActionInv, DecidedTogether
  <2> QED
    BY <2>1, <2>2
<1>8. OneBacklogProposal'
  <2>1. \A q \in DOMAIN proposals :
          /\ proposals'[q].split = proposals[q].split /\ proposals'[q].origin = proposals[q].origin
          /\ proposals'[q].status \in Waiting => proposals[q].status \in Waiting
    BY <1>1
  <2> QED
    BY <1>1, <2>1 DEF ActionInv, OneBacklogProposal
<1>9. DecidedOnRecord'
  <2>1. ASSUME NEW q \in DOMAIN proposals
        PROVE  LET d == proposals'[q] IN
               /\ d.status \in Waiting => d.revert = NoRevert
               /\ d.revert.claim # 0 => /\ claims'[d.revert.claim].category = d.to
                                        /\ claims'[d.revert.claim].kind # "proposed"
               /\ d.origin = "machine" => d.seen # Unseen
    <3>1. CASE q = p
      <4>1. b.origin = "machine" => b.seen # Unseen
        BY <1>1 DEF ActionInv, DecidedOnRecord
      <4> QED
        BY <3>1, <4>1 DEF Changes
    <3>2. CASE q # p
      <4>1. proposals'[q] = proposals[q]
        BY <1>1, <3>2
      <4>2. proposals[q].revert.claim # 0 =>
              /\ proposals[q].revert.claim \in DOMAIN claims
              /\ claims'[proposals[q].revert.claim].category = claims[proposals[q].revert.claim].category
        BY <1>1, ProposalFacts DEF Evolves
      <4> QED
        BY <1>2, <4>1, <4>2 DEF ActionInv, DecidedOnRecord
    <3> QED
      BY <3>1, <3>2
  <2>2. ASSUME NEW i \in DOMAIN audit', audit'[i][2] \in {"approved", "reverted"}
        PROVE  proposals'[audit'[i][1]].status \notin Waiting
    <3>1. CASE i \in DOMAIN audit /\ audit'[i] = audit[i]
      BY <1>1, <2>2, <3>1 DEF ActionInv, DecidedOnRecord, NamesExist
    <3>2. CASE audit'[i] = <<p, e>> /\ audit' = Append(audit, <<p, e>>)
      <4>1. audit'[i][1] = p /\ audit'[i][2] = e
        BY <3>2
      <4>2. audit' # audit
        <5>1. Len(Append(audit, <<p, e>>)) = Len(audit) + 1 /\ Len(audit) \in Nat
          BY DEF ActionInv, ActionTypes
        <5> QED
          BY <3>2, <5>1
      <4> QED
        BY <2>2, <4>1, <4>2 DEF Changes
    <3> QED
      BY <1>4, <3>1, <3>2
  <2> QED
    BY <1>1, <2>1, <2>2 DEF DecidedOnRecord
<1>10. DigestsArePast'
  <2> SUFFICES ASSUME NEW q \in DOMAIN proposals
               PROVE  Past(proposals[q].seen)' /\ Past(proposals[q].revert.exact)'
    BY <1>1 DEF DigestsArePast, Past
  <2>1. CASE q = p
    <3>1. Past(proposals[p].seen)'
      BY <1>1, PastAsWell DEF Past
    <3>2. Past(proposals[p].revert.exact)'
      BY DEF Changes, Past
    <3> QED
      BY <2>1, <3>1, <3>2
  <2>2. CASE q # p
    BY <1>1, <2>2, PastAsWell DEF Past
  <2> QED
    BY <2>1, <2>2
<1> QED
  BY <1>5, <1>6, <1>7, <1>8, <1>9, <1>10 DEF ActionInv

\* Orders that end in an approval or an undo stay under a step that logs neither.
LEMMA MoveOnStays ==
    ASSUME ActionInv, NEW p \in DOMAIN proposals, Changes(p, "rejected"),
           proposals'[p].revert = proposals[p].revert, proposals'[p].to = proposals[p].to
    PROVE  DecisionsMoveOn'
<1>1. /\ Evolves /\ DOMAIN proposals' = DOMAIN proposals
      /\ audit' = audit \/ audit' = Append(audit, <<p, "rejected">>)
      /\ \A q \in DOMAIN proposals :
            /\ proposals'[q].split = proposals[q].split /\ proposals'[q].seen = proposals[q].seen
            /\ proposals'[q].revert = proposals[q].revert /\ proposals'[q].to = proposals[q].to
  BY DEF Changes
<1> SUFFICES ASSUME NEW u \in DOMAIN proposals, NEW v \in DOMAIN proposals
             PROVE  MovedOn(u, v)'
  BY <1>1 DEF DecisionsMoveOn, MovedOn
<1>2. \A early \in {"proposed", "approved"}, late \in {"approved", "reverted"} :
        Before(u, early, v, late)' => Before(u, early, v, late)
  BY <1>1, OrderStays
<1> QED
  BY <1>1, <1>2, PairStays

LEMMA LabelsOfOthers ==
    ASSUME ActionInv, NEW p \in DOMAIN proposals, Changes(p, "rejected"), labels' = labels,
           proposals[p].status \in Waiting
    PROVE  LabelOfApproval'
<1> SUFFICES ASSUME NEW t \in Txns, labels[t] # Unlabelled
             PROVE  LET a == proposals'[labels[t][1]] IN
                    a.status \in InForce /\ a.to = labels[t][2] /\ TxnOf[a.split] = t /\ Single(t)
  BY DEF LabelOfApproval
<1> DEFINE u == labels[t][1]
<1>1. /\ u \in DOMAIN proposals /\ proposals[u].status \in InForce
      /\ proposals[u].to = labels[t][2] /\ TxnOf[proposals[u].split] = t /\ Single(t)
  BY DEF ActionInv, NamesExist, LabelOfApproval
<1>2. u # p
  BY <1>1 DEF Waiting, InForce
<1>3. proposals'[u] = proposals[u]
  BY <1>1, <1>2 DEF Changes
<1> QED
  BY <1>1, <1>3

\* The record of a proposal with another status
LEMMA StatusTyped ==
    ASSUME ActionInv, NEW p \in DOMAIN proposals,
           NEW state \in Waiting \cup InForce \cup {"rejected", "reverted"},
           proposals' = [proposals EXCEPT ![p].status = state]
    PROVE  /\ proposals' \in Seq(ProposalRecord) /\ DOMAIN proposals' = DOMAIN proposals
           /\ proposals'[p] = [proposals[p] EXCEPT !.status = state]
           /\ \A q \in DOMAIN proposals : q # p => proposals'[q] = proposals[q]
           /\ LET a == proposals[p]  b == proposals'[p] IN
              /\ b.split = a.split /\ b.seen = a.seen /\ b.claim = a.claim /\ b.origin = a.origin
              /\ b.to = a.to /\ b.revert = a.revert /\ b.status = state
<1>1. proposals \in Seq(ProposalRecord) /\ proposals[p] \in ProposalRecord
  BY DEF ActionInv, ActionTypes
<1>2. [proposals[p] EXCEPT !.status = state] \in ProposalRecord
  BY <1>1 DEF ProposalRecord
<1>3. proposals' = [proposals EXCEPT ![p] = [proposals[p] EXCEPT !.status = state]]
  OBVIOUS
<1> HIDE DEF ProposalRecord
<1>4. proposals' \in Seq(ProposalRecord)
  BY <1>1, <1>2, <1>3
<1>5. /\ DOMAIN proposals' = DOMAIN proposals
      /\ proposals'[p] = [proposals[p] EXCEPT !.status = state]
      /\ \A q \in DOMAIN proposals : q # p => proposals'[q] = proposals[q]
  BY <1>1, <1>3
<1>6. LET a == proposals[p]  b == proposals'[p] IN
      /\ b.split = a.split /\ b.seen = a.seen /\ b.claim = a.claim /\ b.origin = a.origin
      /\ b.to = a.to /\ b.revert = a.revert /\ b.status = state
  BY <1>1, <1>5 DEF ProposalRecord
<1> QED
  BY <1>4, <1>5, <1>6

LEMMA PostponeKeeps ==
    ASSUME ActionAssumption, ActionInv, NEW p \in DOMAIN proposals, NEW state \in Delays,
           Postpone(p, state)
    PROVE  ActionInv'
<1>1. /\ proposals[p].status \in Waiting
      /\ proposals' = [proposals EXCEPT ![p].status = state]
      /\ UNCHANGED <<category, settled, audit, claims, labels, suggested, closedMonths>>
  BY DEF Postpone
<1>2. state \in Waiting
  BY DEF ActionAssumption, Waiting
<1> DEFINE a == proposals[p]  b == proposals'[p]
<1>3. /\ proposals' \in Seq(ProposalRecord) /\ DOMAIN proposals' = DOMAIN proposals
      /\ \A q \in DOMAIN proposals : q # p => proposals'[q] = proposals[q]
      /\ b.split = a.split /\ b.seen = a.seen /\ b.claim = a.claim /\ b.origin = a.origin
      /\ b.to = a.to /\ b.revert = a.revert /\ b.status = state
  BY <1>1, <1>2, StatusTyped
<1>4. ActionTypes' /\ ClaimsStand /\ ClaimsAreBooked' /\ TrustedAgree'
  BY <1>1, <1>3 DEF ActionInv, ActionTypes, ClaimsStand, ClaimsAreBooked, TrustedAgree
<1>5. Evolves
  BY <1>4, StandEvolves
<1>6. a.revert = NoRevert /\ NoRevert.claim = 0 /\ NoRevert.exact = Unseen
  BY <1>1 DEF ActionInv, DecidedOnRecord, NoRevert
<1>7. a.claim # 0 => claims[a.claim].kind = "proposed"
  BY <1>1 DEF ActionInv, DecidedTogether
<1>8. Changes(p, "rejected")
  BY <1>1, <1>2, <1>3, <1>5, <1>6, <1>7 DEF Changes, Waiting
<1>9. DecisionsMoveOn' /\ LabelOfApproval'
  BY <1>1, <1>3, <1>8, MoveOnStays, LabelsOfOthers
<1> QED
  BY <1>1, <1>4, <1>8, <1>9, ChangeStep

LEMMA RejectKeeps ==
    ASSUME ActionAssumption, ActionInv, NEW p \in DOMAIN proposals, Reject(p)
    PROVE  ActionInv'
<1> DEFINE a == proposals[p]  b == proposals'[p]
<1>1. /\ a.status \in Waiting
      /\ a.claim # 0 => claims[a.claim].kind = "proposed"
      /\ claims' = Turned(claims, {a.claim}, "rejected")
      /\ proposals' = [proposals EXCEPT ![p].status = "rejected"]
      /\ audit' = Append(audit, <<p, "rejected">>)
      /\ UNCHANGED <<category, settled, labels, suggested, closedMonths>>
  BY DEF Reject, RejectedWith, Logged
<1>2. /\ proposals' \in Seq(ProposalRecord) /\ DOMAIN proposals' = DOMAIN proposals
      /\ \A q \in DOMAIN proposals : q # p => proposals'[q] = proposals[q]
      /\ b.split = a.split /\ b.seen = a.seen /\ b.claim = a.claim /\ b.origin = a.origin
      /\ b.to = a.to /\ b.revert = a.revert /\ b.status = "rejected"
  BY <1>1, StatusTyped
<1>3. /\ claims' \in Seq(ClaimRecord) /\ DOMAIN claims' = DOMAIN claims
      /\ \A c \in DOMAIN claims :
           /\ claims'[c].split = claims[c].split /\ claims'[c].category = claims[c].category
           /\ c = a.claim => claims'[c].kind = "rejected"
           /\ c # a.claim => claims'[c] = claims[c]
  <2>1. claims \in Seq(ClaimRecord) /\ "rejected" \in ClaimKinds
    BY DEF ActionInv, ActionTypes, ClaimKinds
  <2> QED
    BY <1>1, <2>1, TurnedFacts
<1>4. 0 \notin DOMAIN claims /\ p \in Nat
  BY DEF ActionInv, ActionTypes
<1>5. Evolves
  <2>1. Rank("rejected") > Rank("proposed")
    BY DEF Rank, Trusted
  <2> QED
    BY <1>1, <1>3, <1>4, <2>1 DEF Evolves
<1>6. a.revert = NoRevert /\ NoRevert.claim = 0 /\ NoRevert.exact = Unseen
  BY <1>1 DEF ActionInv, DecidedOnRecord, NoRevert
<1>7. Changes(p, "rejected")
  <2>1. a.claim # 0 => claims'[a.claim].kind = "rejected"
    BY <1>3, ProposalFacts
  <2> QED
    BY <1>1, <1>2, <1>3, <1>5, <1>6, <2>1 DEF Changes, Waiting
<1>8. ActionTypes'
  <2>1. audit' \in Seq(AuditRecord)
    BY <1>1, <1>4, AuditTyped
  <2> QED
    BY <1>1, <1>2, <1>3, <2>1 DEF ActionInv, ActionTypes
<1>9. ClaimsAreBooked'
  <2>1. category' = category /\ \A c \in DOMAIN claims : category[claims[c].split] # Unset
    BY <1>1 DEF ActionInv, ClaimsAreBooked
  <2> QED
    BY <1>3, <2>1 DEF ClaimsAreBooked
<1>10. TrustedAgree'
  <2>1. \A c \in DOMAIN claims : claims'[c].kind \in Trusted => claims'[c] = claims[c]
    BY <1>3 DEF Trusted
  <2> QED
    BY <1>3, <2>1 DEF ActionInv, TrustedAgree
<1>11. DecisionsMoveOn' /\ LabelOfApproval'
  BY <1>1, <1>2, <1>7, MoveOnStays, LabelsOfOthers
<1> QED
  BY <1>1, <1>7, <1>8, <1>9, <1>10, <1>11, ChangeStep

\* After a claim about its transaction has moved on, what a proposal saw is past.
LEMMA DigestsSurpassed ==
    ASSUME ActionInv, Evolves, NEW u \in DOMAIN proposals, NEW c \in DOMAIN claims',
           TxnOf[claims'[c].split] = TxnOf[proposals[u].split],
           c \in DOMAIN claims => Rank(claims'[c].kind) > Rank(claims[c].kind),
           proposals'[u].split = proposals[u].split, proposals'[u].seen = proposals[u].seen
    PROVE  /\ proposals[u].seen # Unseen
                => Surpassed(proposals[u].seen, TxnOf[proposals[u].split])'
           /\ proposals[u].revert.exact # Unseen /\ proposals'[u].revert = proposals[u].revert
                => Surpassed(proposals[u].revert.exact, TxnOf[proposals[u].split])'
<1>1. ASSUME NEW w \in Txns, w = TxnOf[proposals[u].split]
      PROVE  \A digest \in Digests : Past(digest) => Surpassed(digest, w)'
  BY <1>1, SurpassedNow
<1>2. \A w \in Txns, digest \in Digests : w = TxnOf[proposals[u].split] /\ Past(digest) =>
        \E d \in DOMAIN claims' :
           /\ TxnOf[claims'[d].split] = w
           /\ \A x \in digest[3] : x[1] = d => Rank(x[2]) < Rank(claims'[d].kind)
  BY <1>1 DEF Surpassed
<1>3. /\ TxnOf[proposals[u].split] \in Txns
      /\ proposals[u].seen # Unseen => proposals[u].seen \in Digests /\ Past(proposals[u].seen)
      /\ proposals[u].revert.exact # Unseen => /\ proposals[u].revert.exact \in Digests
                                               /\ Past(proposals[u].revert.exact)
  BY ProposalFacts, PastAsWell
<1> QED
  BY <1>2, <1>3 DEF Surpassed

\* An undo takes a claim back that was trusted, or there is none.
LEMMA RevertKeeps ==
    ASSUME ActionAssumption, ActionInv, NEW p \in DOMAIN proposals, NEW o \in BOOLEAN, Revert(p, o)
    PROVE  ActionInv'
<1> DEFINE a == proposals[p]  b == proposals'[p]  t == TxnOf[a.split]  c == a.revert.claim
<1>1. /\ a.status \in InForce
      /\ c # 0 => claims[c].kind \in Trusted
      /\ category' = [category EXCEPT ![a.split] = a.revert.from]
      /\ claims' = Turned(claims, {c}, "undo")
      /\ proposals' = [proposals EXCEPT ![p].status = "reverted"]
      /\ labels' = [labels EXCEPT ![t] = Unlabelled]
      /\ audit' = Append(audit, <<p, "reverted">>)
      /\ UNCHANGED <<settled, suggested>> /\ closedMonths' \subseteq closedMonths
  BY DEF Revert, Revertible, Unlocked, Withdrawn, ReversedClaims, Forgotten, Logged
<1>2. /\ proposals' \in Seq(ProposalRecord) /\ DOMAIN proposals' = DOMAIN proposals
      /\ \A q \in DOMAIN proposals : q # p => proposals'[q] = proposals[q]
      /\ b.split = a.split /\ b.seen = a.seen /\ b.claim = a.claim /\ b.origin = a.origin
      /\ b.to = a.to /\ b.revert = a.revert /\ b.status = "reverted"
  BY <1>1, StatusTyped
<1>3. /\ a.split \in Splits /\ t \in Txns /\ a.revert.from \in SplitCategories /\ c \in Nat
      /\ c # 0 => c \in DOMAIN claims /\ claims[c].split = a.split
  <2>1. a \in ProposalRecord
    BY ProposalFacts
  <2> QED
    BY <2>1, ProposalFacts DEF ProposalRecord
<1>4. /\ claims' \in Seq(ClaimRecord) /\ DOMAIN claims' = DOMAIN claims
      /\ \A d \in DOMAIN claims :
           /\ claims'[d].split = claims[d].split /\ claims'[d].category = claims[d].category
           /\ d = c => claims'[d].kind = "undo"
           /\ d # c => claims'[d] = claims[d]
  <2>1. claims \in Seq(ClaimRecord) /\ "undo" \in ClaimKinds
    BY DEF ActionInv, ActionTypes, ClaimKinds
  <2> HIDE DEF c
  <2> QED
    BY <1>1, <2>1, TurnedFacts
<1>5. 0 \notin DOMAIN claims /\ p \in Nat
  BY DEF ActionInv, ActionTypes
<1> HIDE DEF c
<1>6. /\ Evolves
      /\ c # 0 => Rank(claims'[c].kind) > Rank(claims[c].kind)
  <2>1. Rank("undo") = 2
    BY DEF Rank, Trusted
  <2>2. c # 0 => Rank(claims[c].kind) = 1 /\ Rank(claims'[c].kind) = 2
    BY <1>1, <1>3, <1>4, <2>1, RankIsNatural
  <2>3. \A d \in DOMAIN claims : d = c => c # 0
    BY <1>5
  <2> QED
    BY <1>3, <1>4, <2>2, <2>3 DEF Evolves
<1>7. Changes(p, "reverted")
  <2>1. c # 0 => /\ c \in DOMAIN claims' /\ claims'[c].split = b.split
                 /\ claims'[c].category = b.to /\ claims'[c].kind # "proposed"
    <3>1. c # 0 => claims[c].category = a.to
      BY DEF ActionInv, DecidedOnRecord, c
    <3> QED
      BY <1>2, <1>3, <1>4, <3>1
  <2>2. b.revert.exact # Unseen => \A y \in b.revert.exact[3] :
           y[1] \in DOMAIN claims' /\ Rank(y[2]) <= Rank(claims'[y[1]].kind)
    BY <1>2, <1>6, PastAsWell
  <2>3. b.claim # 0 => /\ b.claim \in DOMAIN claims
                       /\ Teaches(TxnOf[b.split], b.to) => claims'[b.claim].kind # "proposed"
    <3>1. a.claim # 0 /\ Teaches(t, a.to) => claims[a.claim].kind # "proposed"
      BY <1>1 DEF ActionInv, DecidedTogether, InForce, Waiting
    <3> QED
      BY <1>2, <1>4, <3>1, ProposalFacts
  <2>4. \A d \in DOMAIN claims : claims[d].kind = "proposed" => claims'[d] = claims[d]
    BY <1>1, <1>4, <1>5 DEF Trusted
  <2>5. b.revert.claim = c
    BY <1>2 DEF c
  <2>6. b.status \notin Waiting /\ b.status # "rejected"
    BY <1>2 DEF Waiting
  <2>7. audit' = Append(audit, <<p, "reverted">>)
    BY <1>1
  <2> HIDE DEF t
  <2> QED
    BY <1>2, <1>6, <2>1, <2>2, <2>3, <2>4, <2>5, <2>6, <2>7 DEF Changes
<1>8. ActionTypes'
  <2>1. audit' \in Seq(AuditRecord)
    BY <1>1, <1>5, AuditTyped
  <2>2. category' \in [Splits -> SplitCategories \cup {Unset}]
    BY <1>1, <1>3, BookedStays
  <2>3. labels' \in [Txns -> {Unlabelled} \cup (Nat \X Purposes)]
    BY <1>1 DEF ActionInv, ActionTypes
  <2> QED
    BY <1>1, <1>2, <1>4, <2>1, <2>2, <2>3 DEF ActionInv, ActionTypes
<1>9. ClaimsAreBooked'
  <2>1. \A u \in Splits : category[u] # Unset => category'[u] # Unset
    BY <1>1, <1>3, BookedStays
  <2> QED
    BY <1>4, <2>1, ClaimFacts DEF ClaimsAreBooked
<1>10. TrustedAgree'
  <2>1. \A d \in DOMAIN claims : claims'[d].kind \in Trusted => claims'[d] = claims[d]
    BY <1>4 DEF Trusted
  <2> QED
    BY <1>4, <2>1 DEF ActionInv, TrustedAgree
<1>11. /\ LabelOfApproval'
       /\ \A v \in Txns : labels'[v] # Unlabelled => labels'[v] = labels[v]
  <2>1. labels \in [Txns -> {Unlabelled} \cup (Nat \X Purposes)]
    BY DEF ActionInv, ActionTypes
  <2>2. \A v \in Txns : labels'[v] # Unlabelled => v # t /\ labels'[v] = labels[v]
    BY <1>1, <1>3, <2>1
  <2> SUFFICES ASSUME NEW v \in Txns, labels'[v] # Unlabelled
               PROVE  LET d == proposals'[labels'[v][1]] IN
                      d.status \in InForce /\ d.to = labels'[v][2] /\ TxnOf[d.split] = v /\ Single(v)
    BY <2>2 DEF LabelOfApproval
  <2>3. /\ labels[v][1] \in DOMAIN proposals /\ labels[v][1] # p
        /\ LET d == proposals[labels[v][1]] IN
           d.status \in InForce /\ d.to = labels[v][2] /\ TxnOf[d.split] = v /\ Single(v)
    BY <2>2 DEF ActionInv, NamesExist, LabelOfApproval
  <2> QED
    BY <1>2, <2>2, <2>3
<1>12. DecisionsMoveOn'
  <2> SUFFICES ASSUME NEW u \in DOMAIN proposals, NEW v \in DOMAIN proposals
               PROVE  MovedOn(u, v)'
    BY <1>2 DEF DecisionsMoveOn, MovedOn
  <2>1. \A q \in DOMAIN proposals :
          /\ proposals'[q].split = proposals[q].split /\ proposals'[q].seen = proposals[q].seen
          /\ proposals'[q].revert = proposals[q].revert /\ proposals'[q].to = proposals[q].to
    BY <1>2
  <2>2. /\ Before(u, "approved", v, "approved")' => Before(u, "approved", v, "approved")
        /\ Before(u, "proposed", v, "approved")' => Before(u, "proposed", v, "approved")
        /\ Before(u, "proposed", v, "reverted")' => Before(u, "proposed", v, "reverted") \/ v = p
    BY <1>1, OrderStays
  <2>3. CASE v # p
    BY <1>2, <1>6, <2>1, <2>2, <2>3, PairStays
  <2>4. CASE v = p
    <3>1. CASE c = 0
      BY <2>1, <2>4, <3>1 DEF MovedOn, c
    <3>2. CASE c # 0
      <4>4. proposals[u].revert.claim # 0 /\ proposals[u].split = a.split
               /\ proposals[u].to # a.to /\ Before(u, "approved", v, "approved")
               => Rank(claims[proposals[u].revert.claim].kind) = 2
        BY <2>4, <3>2 DEF ActionInv, DecisionsMoveOn, c
      <4>5. proposals[u].revert.claim # 0 /\ Rank(claims[proposals[u].revert.claim].kind) = 2
               => Rank(claims'[proposals[u].revert.claim].kind) = 2
        BY <1>6, ProposalFacts, RankIsNatural DEF Evolves
      <4>6. proposals[v].split = a.split /\ proposals'[u].split = proposals[u].split
        BY <2>1, <2>4
      <4>7. /\ SameTxn(u, v)' /\ proposals[u].revert.exact # Unseen
                  => Surpassed(proposals[u].revert.exact, TxnOf[proposals[u].split])'
            /\ SameTxn(u, v)' /\ proposals[u].seen # Unseen
                  => Surpassed(proposals[u].seen, TxnOf[proposals[u].split])'
        <5> SUFFICES ASSUME TxnOf[proposals[u].split] = t
                     PROVE  /\ proposals[u].revert.exact # Unseen
                                 => Surpassed(proposals[u].revert.exact, TxnOf[proposals[u].split])'
                            /\ proposals[u].seen # Unseen
                                 => Surpassed(proposals[u].seen, TxnOf[proposals[u].split])'
          BY <2>1, <4>6 DEF SameTxn
        <5>1. c \in DOMAIN claims' /\ TxnOf[claims'[c].split] = TxnOf[proposals[u].split]
          BY <1>3, <1>4, <3>2
        <5> QED
          BY <1>6, <2>1, <3>2, <5>1, DigestsSurpassed
      <4> QED
        BY <2>1, <2>2, <2>4, <4>4, <4>5, <4>7 DEF MovedOn
    <3> QED
      BY <3>1, <3>2
  <2> QED
    BY <2>3, <2>4
<1> QED
  BY <1>7, <1>8, <1>9, <1>10, <1>11, <1>12, ChangeStep

-----------------------------------------------------------------------------
(* Approvals *)

\* The claim that an approval makes, or accepts, is new or was proposed; claims of
\* the split for another category are retired.
LEMMA DecidedFacts ==
    ASSUME ActionAssumption, ActionInv, NEW p \in DOMAIN proposals, proposals[p].status \in Waiting,
           NEW k \in Purposes, claims' = Decided(proposals[p], proposals[p].split, k)
    PROVE  LET a == proposals[p]  s == a.split  c == ClaimOf(a, k, claims') IN
           /\ claims' \in Seq(ClaimRecord)
           /\ c # 0 /\ c \in DOMAIN claims' /\ DOMAIN claims' = DOMAIN claims \cup {c}
           /\ claims'[c].split = s /\ claims'[c].category = k /\ claims'[c].kind \in Trusted
           /\ c \in DOMAIN claims => claims[c].kind = "proposed"
           /\ a.claim # 0 => claims'[a.claim].kind # "proposed"
           /\ \A d \in DOMAIN claims :
                /\ claims'[d].split = claims[d].split /\ claims'[d].category = claims[d].category
                /\ \/ claims'[d] = claims[d] /\ d \notin Conflicting(s, k) /\ d # a.claim
                   \/ claims'[d].kind = "retired" /\ d \in Conflicting(s, k)
                   \/ d = a.claim /\ claims[d].kind = "proposed" /\ d \notin Conflicting(s, k)
                      /\ (claims'[d].kind = "rejected" \/ (claims'[d].kind = "accepted" /\ d = c))
<1> DEFINE a == proposals[p]
           s == a.split
           linked == {c \in {a.claim} \ {0} : claims[c].kind = "proposed"}
           accepted == {c \in linked : claims[c].category = k}
           first == Turned(claims, accepted, "accepted")
           reviewed == Turned(first, linked \ accepted, "rejected")
           retired == Turned(reviewed, Conflicting(s, k), "retired")
           kind == IF Conflicting(s, k) = {} THEN "accepted" ELSE "corrected"
           added == Claim(s, k, kind)
<1>1. /\ s \in Splits /\ claims \in Seq(ClaimRecord)
      /\ {"accepted", "rejected", "retired", "corrected"} \subseteq ClaimKinds
      /\ a.claim # 0 => /\ a.claim \in DOMAIN claims /\ claims[a.claim].split = s
                        /\ claims[a.claim].kind = "proposed"
  BY ProposalFacts DEF ActionInv, ActionTypes, ClaimKinds, Trusted, DecidedTogether
<1>2. /\ linked = IF a.claim = 0 THEN {} ELSE {a.claim}
      /\ accepted = IF a.claim # 0 /\ claims[a.claim].category = k THEN {a.claim} ELSE {}
      /\ a.claim \notin Conflicting(s, k)
  BY <1>1 DEF Conflicting, TrustedOf, Trusted
<1>3. claims' = IF accepted # {} THEN retired ELSE Append(retired, added)
  <2>1. CASE accepted # {}
    BY <2>1 DEF Decided, Accepted, Retired, ReversedClaims
  <2>2. CASE accepted = {} /\ Conflicting(s, k) = {}
    BY <2>2 DEF Decided, Accepted, Retired, ReversedClaims, Confirmed
  <2>3. CASE accepted = {} /\ Conflicting(s, k) # {}
    BY <2>3 DEF Decided, Accepted, Retired, ReversedClaims, Corrected
  <2> QED
    BY <2>1, <2>2, <2>3
<1>4. /\ added \in ClaimRecord /\ added.split = s /\ added.category = k
      /\ added.kind \in Trusted
  <2>1. kind \in ClaimKinds /\ kind \in Trusted
    BY <1>1 DEF Trusted
  <2> HIDE DEF kind
  <2> QED
    BY <1>1, <2>1, ClaimTyped
<1> HIDE DEF added, linked, accepted
<1>5. /\ first \in Seq(ClaimRecord) /\ DOMAIN first = DOMAIN claims
      /\ \A d \in DOMAIN claims :
           /\ first[d].split = claims[d].split /\ first[d].category = claims[d].category
           /\ d \in accepted => first[d].kind = "accepted"
           /\ d \notin accepted => first[d] = claims[d]
  BY <1>1, TurnedFacts
<1> HIDE DEF first
<1>6. /\ reviewed \in Seq(ClaimRecord) /\ DOMAIN reviewed = DOMAIN claims
      /\ \A d \in DOMAIN claims :
           /\ reviewed[d].split = claims[d].split /\ reviewed[d].category = claims[d].category
           /\ d \in linked \ accepted => reviewed[d].kind = "rejected"
           /\ d \notin linked \ accepted => reviewed[d] = first[d]
  BY <1>1, <1>5, TurnedFacts
<1> HIDE DEF reviewed
<1>7. /\ retired \in Seq(ClaimRecord) /\ DOMAIN retired = DOMAIN claims
      /\ \A d \in DOMAIN claims :
           /\ retired[d].split = claims[d].split /\ retired[d].category = claims[d].category
           /\ d \in Conflicting(s, k) => retired[d].kind = "retired"
           /\ d \notin Conflicting(s, k) => retired[d] = reviewed[d]
  BY <1>1, <1>6, TurnedFacts
<1> HIDE DEF retired
<1>8. ASSUME NEW d \in DOMAIN claims
      PROVE  /\ retired[d].split = claims[d].split /\ retired[d].category = claims[d].category
             /\ \/ retired[d] = claims[d] /\ d \notin Conflicting(s, k) /\ d # a.claim
                \/ retired[d].kind = "retired" /\ d \in Conflicting(s, k)
                \/ d = a.claim /\ claims[d].kind = "proposed" /\ d \notin Conflicting(s, k)
                   /\ \/ retired[d].kind = "rejected" /\ accepted = {}
                      \/ retired[d].kind = "accepted" /\ accepted = {d}
  <2>1. CASE d \in Conflicting(s, k)
    BY <1>7, <1>8, <2>1
  <2>2. CASE d \notin Conflicting(s, k) /\ d # a.claim
    BY <1>2, <1>5, <1>6, <1>7, <1>8, <2>2
  <2>3. CASE d = a.claim
    <3>1. a.claim # 0 /\ claims[d].kind = "proposed" /\ d \notin Conflicting(s, k)
      <4>1. 0 \notin DOMAIN claims
        BY <1>1
      <4> QED
        BY <1>1, <1>2, <1>8, <2>3, <4>1
    <3>2. CASE accepted = {}
      BY <1>2, <1>5, <1>6, <1>7, <1>8, <2>3, <3>1, <3>2
    <3>3. CASE accepted # {}
      BY <1>2, <1>5, <1>6, <1>7, <1>8, <2>3, <3>1, <3>3
    <3> QED
      BY <3>2, <3>3
  <2> QED
    BY <2>1, <2>2, <2>3
<1> DEFINE c == ClaimOf(a, k, claims')
<1> HIDE DEF s, a
<1>9. CASE accepted # {}
  <2>1. claims' = retired /\ a.claim # 0 /\ accepted = {a.claim} /\ a.claim \in DOMAIN claims
    BY <1>1, <1>2, <1>3, <1>9
  <2>2. claims'[a.claim].kind = "accepted" /\ claims'[a.claim].category = k /\ claims'[a.claim].split = s
    BY <1>1, <1>2, <1>8, <2>1
  <2>3. c = a.claim
    BY <1>1, <2>1, <2>2 DEF ClaimOf
  <2> HIDE DEF c
  <2>4. "accepted" \in Trusted /\ "accepted" # "proposed"
    BY DEF Trusted
  <2>5. /\ claims' \in Seq(ClaimRecord)
        /\ c # 0 /\ c \in DOMAIN claims' /\ DOMAIN claims' = DOMAIN claims \cup {c}
        /\ claims'[c].split = s /\ claims'[c].category = k /\ claims'[c].kind \in Trusted
        /\ c \in DOMAIN claims => claims[c].kind = "proposed"
        /\ a.claim # 0 => claims'[a.claim].kind # "proposed"
    <3>1. DOMAIN claims' = DOMAIN claims /\ c \in DOMAIN claims
      BY <1>7, <2>1, <2>3
    <3>2. DOMAIN claims = DOMAIN claims \cup {c}
      BY <3>1
    <3>3. claims' \in Seq(ClaimRecord)
      BY <1>7, <2>1
    <3>4. claims[c].kind = "proposed" /\ c # 0
      BY <1>1, <2>1, <2>3
    <3>5. claims'[c].split = s /\ claims'[c].category = k /\ claims'[c].kind = "accepted"
      BY <2>2, <2>3
    <3> QED
      BY <2>3, <2>4, <3>1, <3>2, <3>3, <3>4, <3>5
  <2>6. \A d \in DOMAIN claims :
          /\ claims'[d].split = claims[d].split /\ claims'[d].category = claims[d].category
          /\ \/ claims'[d] = claims[d] /\ d \notin Conflicting(s, k) /\ d # a.claim
             \/ claims'[d].kind = "retired" /\ d \in Conflicting(s, k)
             \/ d = a.claim /\ claims[d].kind = "proposed" /\ d \notin Conflicting(s, k)
                /\ (claims'[d].kind = "rejected" \/ (claims'[d].kind = "accepted" /\ d = c))
    <3> TAKE d \in DOMAIN claims
    <3>1. d = a.claim => d = c
      BY <2>3
    <3> QED
      BY <1>8, <2>1, <3>1
  <2> QED
    BY <2>5, <2>6 DEF s, a, c
<1>10. CASE accepted = {}
  <2>1. claims' = Append(retired, added)
    BY <1>3, <1>10
  <2>2. /\ claims' \in Seq(ClaimRecord) /\ Len(claims') # 0
        /\ DOMAIN claims' = DOMAIN claims \cup {Len(claims')} /\ Len(claims') \notin DOMAIN claims
        /\ claims'[Len(claims')] = added
        /\ \A d \in DOMAIN claims : claims'[d] = retired[d]
    BY <1>4, <1>7, <2>1, Grown
  <2>3. a.claim # 0 => claims'[a.claim].kind = "rejected"
    <3> SUFFICES ASSUME a.claim # 0 PROVE claims'[a.claim].kind = "rejected"
      OBVIOUS
    <3>1. a.claim \in DOMAIN claims /\ a.claim \notin Conflicting(s, k)
      BY <1>1, <1>2
    <3>2. retired[a.claim].kind = "rejected" \/ accepted = {a.claim}
      BY <1>8, <3>1
    <3> QED
      BY <1>10, <2>2, <3>1, <3>2
  <2>4. c = Len(claims')
    BY <2>3 DEF ClaimOf
  <2> HIDE DEF c
  <2>5. "rejected" # "proposed"
    OBVIOUS
  <2>6. \A d \in DOMAIN claims :
          /\ claims'[d].split = claims[d].split /\ claims'[d].category = claims[d].category
          /\ \/ claims'[d] = claims[d] /\ d \notin Conflicting(s, k) /\ d # a.claim
             \/ claims'[d].kind = "retired" /\ d \in Conflicting(s, k)
             \/ d = a.claim /\ claims[d].kind = "proposed" /\ d \notin Conflicting(s, k)
                /\ (claims'[d].kind = "rejected" \/ (claims'[d].kind = "accepted" /\ d = c))
    <3> TAKE d \in DOMAIN claims
    <3>1. accepted # {d}
      BY <1>10
    <3> QED
      BY <1>8, <2>2, <3>1
  <2> QED
    BY <1>4, <2>2, <2>3, <2>4, <2>5, <2>6 DEF s, a, c
<1> QED
  BY <1>9, <1>10

\* What an approval teaches: the claim that its undo names is trusted, and every other
\* opinion about the split is taken back.
LEMMA ApprovalTeaches ==
    ASSUME ActionAssumption, ActionInv, NEW p \in DOMAIN proposals, proposals[p].status \in Waiting,
           NEW k \in SplitCategories, category[proposals[p].split] # Unset,
           claims' = IF Teaches(TxnOf[proposals[p].split], k)
                     THEN Decided(proposals[p], proposals[p].split, k) ELSE claims,
           NEW claim, claim = IF Teaches(TxnOf[proposals[p].split], k)
                              THEN ClaimOf(proposals[p], k, claims') ELSE 0
    PROVE  LET a == proposals[p]  s == a.split IN
           /\ claims' \in Seq(ClaimRecord) /\ Evolves
           /\ claim \in Nat
           /\ claim # 0 =>
                /\ claim \in DOMAIN claims' /\ claims'[claim].split = s
                /\ claims'[claim].category = k /\ claims'[claim].kind \in Trusted
                /\ claim \in DOMAIN claims => Rank(claims'[claim].kind) > Rank(claims[claim].kind)
                /\ \A d \in DOMAIN claims :
                     claims[d].split = s /\ claims[d].category # k /\ claims[d].kind # "proposed"
                       => Rank(claims'[d].kind) = 2
           /\ \A d \in DOMAIN claims :
                claims[d].kind = "proposed" /\ d # a.claim => claims'[d] = claims[d]
           /\ a.claim # 0 => claims'[a.claim].kind = "proposed" <=> ~Teaches(TxnOf[s], k)
           /\ \A d \in DOMAIN claims' :
                claims'[d].split \in Splits /\ category[claims'[d].split] # Unset
           /\ TrustedAgree'
<1> DEFINE a == proposals[p]  s == a.split
<1>1. /\ s \in Splits /\ claims \in Seq(ClaimRecord) /\ 0 \notin DOMAIN claims
      /\ a.claim # 0 => a.claim \in DOMAIN claims /\ claims[a.claim].kind = "proposed"
  BY ProposalFacts DEF ActionInv, ActionTypes, DecidedTogether
<1>2. CASE ~Teaches(TxnOf[s], k)
  <2>1. claims' = claims /\ claim = 0
    BY <1>2
  <2>2. Evolves /\ TrustedAgree'
    BY <1>1, <2>1 DEF Evolves, ActionInv, TrustedAgree
  <2>3. \A d \in DOMAIN claims : claims[d].split \in Splits /\ category[claims[d].split] # Unset
    BY ClaimFacts
  <2> HIDE DEF a, s
  <2> QED
    BY <1>1, <1>2, <2>1, <2>2, <2>3 DEF a, s
<1>3. CASE Teaches(TxnOf[s], k)
  <2> DEFINE c == ClaimOf(a, k, claims')
  <2>1. /\ claims' \in Seq(ClaimRecord)
        /\ c # 0 /\ c \in DOMAIN claims' /\ DOMAIN claims' = DOMAIN claims \cup {c}
        /\ claims'[c].split = s /\ claims'[c].category = k /\ claims'[c].kind \in Trusted
        /\ c \in DOMAIN claims => claims[c].kind = "proposed"
        /\ a.claim # 0 => claims'[a.claim].kind # "proposed"
        /\ \A d \in DOMAIN claims :
             /\ claims'[d].split = claims[d].split /\ claims'[d].category = claims[d].category
             /\ \/ claims'[d] = claims[d] /\ d \notin Conflicting(s, k) /\ d # a.claim
                \/ claims'[d].kind = "retired" /\ d \in Conflicting(s, k)
                \/ d = a.claim /\ claims[d].kind = "proposed" /\ d \notin Conflicting(s, k)
                   /\ (claims'[d].kind = "rejected" \/ (claims'[d].kind = "accepted" /\ d = c))
    <3>1. k \in Purposes /\ claims' = Decided(a, s, k)
      BY <1>3 DEF Teaches
    <3> QED
      BY <3>1, DecidedFacts
  <2>2. claim = c
    BY <1>3
  <2> HIDE DEF c, s, a
  <2>3. \A d \in DOMAIN claims :
          d \in Conflicting(s, k) <=> /\ claims[d].split = s /\ claims[d].kind \in Trusted
                                      /\ claims[d].category # k
    BY DEF Conflicting, TrustedOf
  <2>4. /\ Rank("retired") = 2 /\ Rank("rejected") = 2 /\ Rank("accepted") = 1
        /\ Rank("proposed") = 0
    BY DEF Rank, Trusted
  <2>5. ASSUME NEW d \in DOMAIN claims
        PROVE  /\ d \in DOMAIN claims'
               /\ claims'[d].kind = claims[d].kind \/ Rank(claims'[d].kind) > Rank(claims[d].kind)
    <3>1. d \in DOMAIN claims'
      BY <2>1
    <3>2. CASE claims'[d] = claims[d]
      BY <3>1, <3>2
    <3>3. CASE claims'[d].kind = "retired" /\ d \in Conflicting(s, k)
      <4>1. Rank(claims[d].kind) = 1
        BY <2>3, <3>3, RankIsNatural
      <4> QED
        BY <2>4, <3>1, <3>3, <4>1
    <3>4. CASE claims[d].kind = "proposed" /\ claims'[d].kind \in {"rejected", "accepted"}
      BY <2>4, <3>1, <3>4
    <3> QED
      BY <2>1, <3>2, <3>3, <3>4
  <2>6. Evolves
    BY <2>1, <2>5 DEF Evolves
  <2>7. c \in DOMAIN claims => Rank(claims'[c].kind) > Rank(claims[c].kind)
    <3>1. Rank(claims'[c].kind) = 1
      BY <2>1, RankIsNatural
    <3> QED
      BY <2>1, <2>4, <3>1
  <2>8. ASSUME NEW d \in DOMAIN claims, claims[d].split = s, claims[d].category # k,
               claims[d].kind # "proposed"
        PROVE  Rank(claims'[d].kind) = 2
    <3>1. CASE claims[d].kind \in Trusted
      BY <2>1, <2>3, <2>4, <2>8, <3>1
    <3>2. CASE claims[d].kind \notin Trusted
      <4>1. Rank(claims[d].kind) = 2
        BY <2>8, <3>2 DEF Rank
      <4> QED
        BY <2>5, <4>1, RankIsNatural
    <3> QED
      BY <3>1, <3>2
  <2>9. \A d \in DOMAIN claims :
          claims[d].kind = "proposed" /\ d # a.claim => claims'[d] = claims[d]
    <3>1. \A d \in DOMAIN claims : claims[d].kind = "proposed" => d \notin Conflicting(s, k)
      BY <2>3 DEF Trusted
    <3> QED
      BY <2>1, <3>1
  <2>10. \A d \in DOMAIN claims' : claims'[d].split \in Splits /\ category[claims'[d].split] # Unset
    <3> TAKE d \in DOMAIN claims'
    <3>1. CASE d \in DOMAIN claims
      BY <2>1, <3>1, ClaimFacts
    <3>2. CASE d = c
      BY <1>1, <2>1, <3>2 DEF a, s
    <3> QED
      BY <2>1, <3>1, <3>2
  <2>11. TrustedAgree'
    <3>1. ASSUME NEW d \in DOMAIN claims, d # c, claims'[d].kind \in Trusted
          PROVE  claims'[d] = claims[d] /\ (claims[d].split = s => claims[d].category = k)
      <4>1. "retired" \notin Trusted /\ "rejected" \notin Trusted
        BY DEF Trusted
      <4>2. claims'[d] = claims[d] /\ d \notin Conflicting(s, k)
        BY <2>1, <3>1, <4>1
      <4> QED
        BY <2>3, <3>1, <4>2
    <3> SUFFICES ASSUME NEW d \in DOMAIN claims', NEW e \in DOMAIN claims',
                        claims'[d].kind \in Trusted, claims'[e].kind \in Trusted,
                        claims'[d].split = claims'[e].split
                 PROVE  claims'[d].category = claims'[e].category
      BY DEF TrustedAgree
    <3>2. CASE d = c \/ e = c
      BY <2>1, <3>1, <3>2
    <3>3. CASE d # c /\ e # c
      <4>1. d \in DOMAIN claims /\ e \in DOMAIN claims
        BY <2>1, <3>3
      <4>2. claims'[d] = claims[d] /\ claims'[e] = claims[e]
        BY <3>1, <3>3, <4>1
      <4> QED
        BY <4>1, <4>2 DEF ActionInv, TrustedAgree
    <3> QED
      BY <3>2, <3>3
  <2>12. claim \in Nat
    <3>1. \A d \in DOMAIN claims' : d \in Nat
      BY <2>1
    <3> QED
      BY <2>1, <2>2, <3>1
  <2> QED
    BY <1>3, <2>1, <2>2, <2>6, <2>7, <2>8, <2>9, <2>10, <2>11, <2>12 DEF a, s
<1> QED
  BY <1>2, <1>3

LEMMA RowsAreSeq == \A S : \A n \in Nat : \A f \in [1..n -> S] : f \in Seq(S)
OBVIOUS

UndoRecord == [undo : BOOLEAN, from : SplitCategories, claim : Nat, exact : {Unseen} \cup Digests]

\* The queue with another record in one place
LEMMA RowChanged ==
    ASSUME ActionInv, NEW p \in DOMAIN proposals, NEW x \in ProposalRecord,
           proposals' = [proposals EXCEPT ![p] = x]
    PROVE  /\ proposals' \in Seq(ProposalRecord) /\ DOMAIN proposals' = DOMAIN proposals
           /\ proposals'[p] = x
           /\ \A q \in DOMAIN proposals : q # p => proposals'[q] = proposals[q]
<1>1. proposals \in Seq(ProposalRecord)
  BY DEF ActionInv, ActionTypes
<1>2. proposals \in [1..Len(proposals) -> ProposalRecord] /\ Len(proposals) \in Nat
  BY <1>1
<1>3. proposals' \in [1..Len(proposals) -> ProposalRecord]
  BY <1>2
<1> QED
  BY <1>2, <1>3, RowsAreSeq

LEMMA ApproveKeeps ==
    ASSUME ActionAssumption, ActionInv, NEW p \in DOMAIN proposals, NEW k \in SplitCategories,
           NEW o \in BOOLEAN, Approve(p, k, o)
    PROVE  ActionInv'
<1> DEFINE a == proposals[p]  b == proposals'[p]  s == a.split  t == TxnOf[s]
           noop == category[s] = k
           claim == IF Teaches(t, k) THEN ClaimOf(a, k, claims') ELSE 0
           exact == IF a.seen = Unseen THEN Unseen ELSE Digest(t, category', claims')
           revert == IF noop /\ claim = 0 THEN NoRevert
                     ELSE [undo |-> TRUE, from |-> category[s], claim |-> claim, exact |-> exact]
           state == IF k = a.to THEN "approved" ELSE "edited_approved"
<1>1. /\ a.status \in Waiting /\ IsBooked(t)
      /\ category' = [category EXCEPT ![s] = k]
      /\ claims' = IF Teaches(t, k) THEN Decided(a, s, k) ELSE claims
      /\ proposals' = [proposals EXCEPT ![p].to = k, ![p].revert = revert, ![p].status = state]
      /\ labels' = Labelled(p, t, k, noop)
      /\ audit' = Append(audit, <<p, "approved">>)
      /\ UNCHANGED <<settled, suggested>> /\ closedMonths' \subseteq closedMonths
  BY DEF Approve, Valid, Unlocked, Logged
<1>2. /\ s \in Splits /\ t \in Txns /\ p \in Nat
      /\ category \in [Splits -> SplitCategories \cup {Unset}]
      /\ category[s] # Unset /\ category[s] \in SplitCategories
  <2>1. s \in Splits /\ t \in Txns
    BY ProposalFacts
  <2>2. s \in SplitsOf(t)
    BY <2>1 DEF SplitsOf
  <2>3. category[s] # Unset
    BY <1>1, <2>2 DEF IsBooked
  <2> QED
    BY <2>1, <2>3 DEF ActionInv, ActionTypes
<1>3. category' \in [Splits -> SplitCategories \cup {Unset}]
      /\ \A u \in Splits : category[u] # Unset => category'[u] # Unset
  BY <1>1, <1>2, BookedStays
<1>4. /\ claims' \in Seq(ClaimRecord) /\ Evolves
      /\ claim \in Nat
      /\ claim # 0 =>
           /\ claim \in DOMAIN claims' /\ claims'[claim].split = s
           /\ claims'[claim].category = k /\ claims'[claim].kind \in Trusted
           /\ claim \in DOMAIN claims => Rank(claims'[claim].kind) > Rank(claims[claim].kind)
           /\ \A d \in DOMAIN claims :
                claims[d].split = s /\ claims[d].category # k /\ claims[d].kind # "proposed"
                  => Rank(claims'[d].kind) = 2
      /\ \A d \in DOMAIN claims :
           claims[d].kind = "proposed" /\ d # a.claim => claims'[d] = claims[d]
      /\ a.claim # 0 => claims'[a.claim].kind = "proposed" <=> ~Teaches(t, k)
      /\ \A d \in DOMAIN claims' :
           claims'[d].split \in Splits /\ category[claims'[d].split] # Unset
      /\ TrustedAgree'
  BY <1>1, <1>2, ApprovalTeaches
<1> HIDE DEF claim, noop
<1>5. exact \in {Unseen} \cup Digests
  BY <1>2, <1>3, <1>4, DigestTyped
<1>6. exact # Unseen => \A y \in exact[3] :
          y[1] \in DOMAIN claims' /\ Rank(y[2]) <= Rank(claims'[y[1]].kind)
  <2> SUFFICES ASSUME a.seen # Unseen, NEW y \in Digest(t, category', claims')[3]
               PROVE  y[1] \in DOMAIN claims' /\ Rank(y[2]) <= Rank(claims'[y[1]].kind)
    OBVIOUS
  <2>1. PICK c \in DOMAIN claims' : y = <<c, claims'[c].kind>>
    BY DEF Digest
  <2> QED
    BY <2>1, RankIsNatural
<1> HIDE DEF exact
<1>7. /\ revert \in UndoRecord
      /\ revert.claim = 0 \/ revert.claim = claim
      /\ revert.exact = Unseen \/ revert.exact = exact
  <2>1. NoRevert \in UndoRecord /\ NoRevert.claim = 0 /\ NoRevert.exact = Unseen
    BY DEF NoRevert, UndoRecord, SplitCategories
  <2>2. [undo |-> TRUE, from |-> category[s], claim |-> claim, exact |-> exact] \in UndoRecord
    BY <1>2, <1>4, <1>5 DEF UndoRecord
  <2> QED
    BY <2>1, <2>2
<1> HIDE DEF revert
<1>8. state \in InForce /\ state # "rejected" /\ state \notin Waiting
  BY DEF InForce, Waiting
<1> HIDE DEF state
<1>9. /\ proposals' \in Seq(ProposalRecord) /\ DOMAIN proposals' = DOMAIN proposals
      /\ \A q \in DOMAIN proposals : q # p => proposals'[q] = proposals[q]
      /\ b.split = a.split /\ b.seen = a.seen /\ b.claim = a.claim /\ b.origin = a.origin
      /\ b.to = k /\ b.revert = revert /\ b.status = state
  <2> DEFINE x == [proposals[p] EXCEPT !.to = k, !.revert = revert, !.status = state]
  <2>1. proposals' = [proposals EXCEPT ![p] = x]
    BY <1>1
  <2>2. proposals[p] \in ProposalRecord
    BY ProposalFacts
  <2>3. /\ x \in ProposalRecord
        /\ x.split = proposals[p].split /\ x.seen = proposals[p].seen
        /\ x.claim = proposals[p].claim /\ x.origin = proposals[p].origin
        /\ x.to = k /\ x.revert = revert /\ x.status = state
    BY <1>7, <1>8, <2>2 DEF ProposalRecord, UndoRecord
  <2> HIDE DEF x
  <2>4. /\ proposals' \in Seq(ProposalRecord) /\ DOMAIN proposals' = DOMAIN proposals
        /\ proposals'[p] = x
        /\ \A q \in DOMAIN proposals : q # p => proposals'[q] = proposals[q]
    BY <2>1, <2>3, RowChanged
  <2> QED
    BY <2>3, <2>4
<1> HIDE DEF b, s, t, a
<1>10. Changes(p, "approved")
  <2>1. /\ b.revert.claim # 0 => /\ b.revert.claim \in DOMAIN claims'
                                 /\ claims'[b.revert.claim].split = b.split
                                 /\ claims'[b.revert.claim].category = b.to
                                 /\ claims'[b.revert.claim].kind # "proposed"
    BY <1>4, <1>7, <1>9 DEF s, Trusted
  <2>2. b.revert.exact # Unseen => \A y \in b.revert.exact[3] :
           y[1] \in DOMAIN claims' /\ Rank(y[2]) <= Rank(claims'[y[1]].kind)
    BY <1>6, <1>7, <1>9
  <2>3. b.claim # 0 /\ Teaches(TxnOf[b.split], b.to) => claims'[b.claim].kind # "proposed"
    BY <1>4, <1>9 DEF s, t
  <2>4. /\ b.status \notin Waiting /\ b.status # "rejected"
        /\ audit' = Append(audit, <<p, "approved">>)
    BY <1>1, <1>8, <1>9
  <2>5. \A c \in DOMAIN claims :
           claims[c].kind = "proposed" /\ c # a.claim => claims'[c] = claims[c]
    BY <1>4
  <2> QED
    BY <1>4, <1>9, <2>1, <2>2, <2>3, <2>4, <2>5 DEF Changes, a, b
<1>11. Teaches(t, k) => k \in Purposes
  BY DEF Teaches
<1>12. /\ labels' \in [Txns -> {Unlabelled} \cup (Nat \X Purposes)]
       /\ \A v \in Txns : labels'[v] # Unlabelled =>
            \/ labels'[v] = labels[v]
            \/ labels'[v] = <<p, k>> /\ v = t /\ Single(t)
  <2>1. labels \in [Txns -> {Unlabelled} \cup (Nat \X Purposes)]
    BY DEF ActionInv, ActionTypes
  <2>2. \/ labels' = [labels EXCEPT ![t] = Unlabelled]
        \/ labels' = labels
        \/ labels' = [labels EXCEPT ![t] = <<p, k>>] /\ k # Uncategorized /\ Single(t)
    BY <1>1 DEF Labelled
  <2>3. k # Uncategorized => <<p, k>> \in Nat \X Purposes
    BY <1>2 DEF SplitCategories
  <2> QED
    BY <1>2, <2>1, <2>2, <2>3
<1>13. LabelOfApproval'
  <2> SUFFICES ASSUME NEW v \in Txns, labels'[v] # Unlabelled
               PROVE  LET d == proposals'[labels'[v][1]] IN
                      d.status \in InForce /\ d.to = labels'[v][2] /\ TxnOf[d.split] = v /\ Single(v)
    BY DEF LabelOfApproval
  <2>1. CASE labels'[v] = labels[v]
    <3>1. /\ labels[v][1] \in DOMAIN proposals
          /\ LET d == proposals[labels[v][1]] IN
             d.status \in InForce /\ d.to = labels[v][2] /\ TxnOf[d.split] = v /\ Single(v)
      BY <2>1 DEF ActionInv, NamesExist, LabelOfApproval
    <3>2. labels[v][1] # p
      BY <1>1, <3>1 DEF a, Waiting, InForce
    <3> QED
      BY <1>9, <2>1, <3>1, <3>2
  <2>2. CASE labels'[v] = <<p, k>> /\ v = t /\ Single(t)
    <3>1. labels'[v][1] = p /\ labels'[v][2] = k
      BY <2>2
    <3> QED
      BY <1>8, <1>9, <2>2, <3>1 DEF b, s, t
  <2> QED
    BY <1>12, <2>1, <2>2
<1>14. \A v \in Txns : labels'[v] # Unlabelled => labels'[v][1] = p \/ labels'[v] = labels[v]
  <2>1. <<p, k>>[1] = p
    OBVIOUS
  <2> QED
    BY <1>12, <2>1
<1>15. ActionTypes'
  <2>1. audit' \in Seq(AuditRecord)
    BY <1>1, <1>2, AuditTyped
  <2> QED
    BY <1>1, <1>3, <1>4, <1>9, <1>12, <2>1 DEF ActionInv, ActionTypes
<1>16. ClaimsAreBooked'
  BY <1>3, <1>4 DEF ClaimsAreBooked
<1>17. DecisionsMoveOn'
  <2> SUFFICES ASSUME NEW u \in DOMAIN proposals, NEW v \in DOMAIN proposals
               PROVE  MovedOn(u, v)'
    BY <1>9 DEF DecisionsMoveOn, MovedOn
  <2>1. /\ Before(u, "approved", v, "approved")' =>
              \/ Before(u, "approved", v, "approved")
              \/ v = p /\ \E i \in DOMAIN audit : audit[i] = <<u, "approved">>
        /\ Before(u, "proposed", v, "approved")' => Before(u, "proposed", v, "approved") \/ v = p
        /\ Before(u, "proposed", v, "reverted")' => Before(u, "proposed", v, "reverted")
    BY <1>1, OrderStays
  <2>2. ~\E i \in DOMAIN audit : audit[i] = <<p, "approved">> \/ audit[i] = <<p, "reverted">>
    <3> SUFFICES ASSUME NEW i \in DOMAIN audit, NEW e \in {"approved", "reverted"},
                        audit[i] = <<p, e>>
                 PROVE  FALSE
      OBVIOUS
    <3>1. audit[i][1] = p /\ audit[i][2] = e
      OBVIOUS
    <3> QED
      BY <1>1, <3>1 DEF ActionInv, DecidedOnRecord, a
  <2>3. u = p => ~Before(u, "approved", v, "approved")'
    <3> SUFFICES ASSUME u = p, Before(u, "approved", v, "approved")' PROVE FALSE
      OBVIOUS
    <3>1. \E i \in DOMAIN audit : audit[i] = <<u, "approved">>
      BY <1>1, OrderStays
    <3> QED
      BY <2>2, <3>1
  <2>4. /\ proposals'[u].split = proposals[u].split /\ proposals'[u].seen = proposals[u].seen
        /\ proposals'[v].split = proposals[v].split
        /\ u # p => proposals'[u] = proposals[u]
        /\ v # p => proposals'[v] = proposals[v]
    BY <1>9 DEF a, b
  <2>5. CASE v # p /\ u # p
    BY <1>4, <1>9, <2>1, <2>4, <2>5, PairStays
  <2>6. CASE v # p /\ u = p
    <3>1. proposals[v].revert.claim # 0 /\ SameTxn(u, v) /\ proposals[u].seen # Unseen
             /\ (Before(u, "proposed", v, "approved") \/ Before(u, "proposed", v, "reverted"))
             => Surpassed(proposals[u].seen, TxnOf[proposals[u].split])
      BY DEF ActionInv, DecisionsMoveOn
    <3>2. proposals[u].seen # Unseen /\ Surpassed(proposals[u].seen, TxnOf[proposals[u].split])
             => Surpassed(proposals[u].seen, TxnOf[proposals[u].split])'
      <4>1. \A digest \in Digests, w \in Txns : Surpassed(digest, w) =>
              \E c \in DOMAIN claims' :
                 /\ TxnOf[claims'[c].split] = w
                 /\ \A x \in digest[3] : x[1] = c => Rank(x[2]) < Rank(claims'[c].kind)
        BY <1>4, SurpassedStays DEF Surpassed
      <4> QED
        BY <2>4, <4>1, ProposalFacts DEF Surpassed
    <3>3. SameTxn(u, v)' <=> SameTxn(u, v)
      BY <2>4 DEF SameTxn
    <3> QED
      BY <2>1, <2>3, <2>4, <2>6, <3>1, <3>2, <3>3 DEF MovedOn
  <2>7. CASE v = p
    <3> SUFFICES ASSUME b.revert.claim # 0 PROVE MovedOn(u, v)'
      BY <2>7 DEF MovedOn, b
    <3>1. claim # 0
      BY <1>7, <1>9
    <3>2. SameTxn(u, v)' <=> TxnOf[proposals[u].split] = t
      BY <2>4, <2>7 DEF SameTxn, a, s, t
    <3>3. TxnOf[proposals[u].split] = t =>
            /\ proposals[u].seen # Unseen
                  => Surpassed(proposals[u].seen, TxnOf[proposals[u].split])'
            /\ proposals[u].revert.exact # Unseen /\ proposals'[u].revert = proposals[u].revert
                  => Surpassed(proposals[u].revert.exact, TxnOf[proposals[u].split])'
      <4> SUFFICES ASSUME TxnOf[proposals[u].split] = t
                   PROVE  /\ proposals[u].seen # Unseen
                                => Surpassed(proposals[u].seen, TxnOf[proposals[u].split])'
                          /\ proposals[u].revert.exact # Unseen /\ proposals'[u].revert = proposals[u].revert
                                => Surpassed(proposals[u].revert.exact, TxnOf[proposals[u].split])'
        OBVIOUS
      <4>1. claim \in DOMAIN claims' /\ TxnOf[claims'[claim].split] = TxnOf[proposals[u].split]
        BY <1>4, <3>1 DEF t
      <4>2. claim \in DOMAIN claims => Rank(claims'[claim].kind) > Rank(claims[claim].kind)
        BY <1>4, <3>1
      <4> QED
        BY <1>4, <2>4, <4>1, <4>2, DigestsSurpassed
    <3>4. u # p /\ proposals[u].split = s /\ proposals[u].revert.claim # 0 /\ proposals[u].to # k
             => Rank(claims'[proposals[u].revert.claim].kind) = 2
      <4>1. proposals[u].revert.claim # 0 =>
              /\ proposals[u].revert.claim \in DOMAIN claims
              /\ claims[proposals[u].revert.claim].split = proposals[u].split
              /\ claims[proposals[u].revert.claim].category = proposals[u].to
              /\ claims[proposals[u].revert.claim].kind # "proposed"
        BY ProposalFacts DEF ActionInv, DecidedOnRecord
      <4> QED
        BY <1>4, <3>1, <4>1
    <3>5. b.to = k /\ b.split = s /\ proposals'[v] = b
      BY <1>9, <2>7 DEF b, s
    <3> QED
      BY <2>3, <2>4, <2>7, <3>2, <3>3, <3>4, <3>5 DEF MovedOn
  <2> QED
    BY <2>5, <2>6, <2>7
<1> QED
  BY <1>10, <1>13, <1>14, <1>15, <1>16, <1>4, <1>17, ChangeStep

LEMMA ActionInvariant == ActionAssumption => (ActionsSpec => []ActionInv)
<1> SUFFICES ASSUME ActionAssumption PROVE ActionsSpec => []ActionInv
  OBVIOUS
<1>1. ActionsInit => ActionInv
  BY ActionsAtFirst
<1>2. ActionInv /\ [ActionsNext]_actionVars => ActionInv'
  <2> SUFFICES ASSUME ActionInv, [ActionsNext]_actionVars PROVE ActionInv'
    OBVIOUS
  <2>1. ASSUME NEW s \in Splits, NEW k \in Guesses \cup {Unset}, BookReceipt(s, k) PROVE ActionInv'
    BY <2>1, BookReceiptKeeps
  <2>2. ASSUME NEW s \in Splits, NEW k \in SplitCategories, BookReviewedReceipt(s, k) PROVE ActionInv'
    BY <2>2, BookReviewedKeeps
  <2>3. ASSUME NEW s \in Splits, BookLine(s) PROVE ActionInv'
    BY <2>3, BookLineKeeps
  <2>4. ASSUME NEW s \in Splits, NEW k \in Purposes, EnqueueSuggestion(s, k) PROVE ActionInv'
    BY <2>4, EnqueueSuggestionKeeps
  <2>5. ASSUME NEW r \in Requests, ProposeCategory(r[1], r[2]) PROVE ActionInv'
    BY <2>5, ProposeKeeps
  <2>6. ASSUME NEW e \in CategoryEdits, NEW o \in BOOLEAN, EditTransaction(e[1], e[2], o)
        PROVE  ActionInv'
    <3>1. e[1] \in Splits /\ e[2] \in SplitCategories
      BY DEF ActionAssumption
    <3> QED
      BY <2>6, <3>1, EditKeeps
  <2>7. ASSUME NEW p \in DOMAIN proposals, NEW k \in SplitCategories, NEW o \in BOOLEAN,
               Approve(p, k, o)
        PROVE  ActionInv'
    BY <2>7, ApproveKeeps
  <2>8. ASSUME NEW p \in DOMAIN proposals, NEW o \in BOOLEAN, Revert(p, o) PROVE ActionInv'
    BY <2>8, RevertKeeps
  <2>9. ASSUME NEW p \in DOMAIN proposals, Reject(p) PROVE ActionInv'
    BY <2>9, RejectKeeps
  <2>10. ASSUME NEW p \in DOMAIN proposals, NEW state \in Delays, Postpone(p, state) PROVE ActionInv'
    BY <2>10, PostponeKeeps
  <2>11. ASSUME \/ \E s \in Splits, k \in Purposes : Suggest(s, k)
                \/ \E t \in Unsettling : Unsettle(t)
                \/ \E mo \in ClosableMonths : CloseMonth(mo)
                \/ UNCHANGED actionVars
         PROVE  ActionInv'
    BY <2>11, OthersKeep
  <2> QED
    BY <2>1, <2>2, <2>3, <2>4, <2>5, <2>6, <2>7, <2>8, <2>9, <2>10, <2>11 DEF ActionsNext
<1> QED
  BY <1>1, <1>2, PTL DEF ActionsSpec

\* What the household has taught and what waits for it agree, after any sequence of
\* bookings, proposals, approvals, edits, rejections and undos.
THEOREM KnowledgeIsOfOneMind == ActionsSpec => []KnowledgeHolds
BY ActionInvariant, ActionAssumption, KnowledgeFromInv, PTL

-----------------------------------------------------------------------------
(* What single steps may do *)

\* An approval that stands, or a proposal that waits, changes its status only by the
\* handlers that decide it.
LEMMA StatusMoves ==
    ASSUME ActionInv, ActionsNext, NEW p \in DOMAIN proposals,
           proposals'[p].status # proposals[p].status
    PROVE  \/ proposals[p].status \in Waiting /\ \E k \in SplitCategories, o \in BOOLEAN : Approve(p, k, o)
           \/ \E o \in BOOLEAN : Revert(p, o)
           \/ proposals'[p].status \in Waiting \cup {"rejected"}
<1>1. /\ proposals \in Seq(ProposalRecord) /\ DOMAIN proposals = 1..Len(proposals)
      /\ Len(proposals) \in Nat
  BY DEF ActionInv, ActionTypes
<1>2. \A st : \A q \in Nat : proposals' = [proposals EXCEPT ![q].status = st] =>
        proposals'[p].status = IF p = q THEN st ELSE proposals[p].status
  BY <1>1 DEF ProposalRecord
<1>3. \A x : proposals' = Append(proposals, x) => proposals'[p] = proposals[p]
  BY <1>1
<1>4. ASSUME NEW s \in Splits, NEW k \in Guesses \cup {Unset}, BookReceipt(s, k) PROVE FALSE
  BY <1>3, <1>4 DEF BookReceipt, Enqueued
<1>5. ASSUME NEW s \in Splits, BookLine(s) PROVE FALSE
  BY <1>3, <1>5 DEF BookLine, Enqueued
<1>6. ASSUME NEW s \in Splits, NEW k \in Purposes, EnqueueSuggestion(s, k) PROVE FALSE
  BY <1>3, <1>6 DEF EnqueueSuggestion, Enqueued
<1>7. ASSUME NEW r \in Requests, ProposeCategory(r[1], r[2]) PROVE FALSE
  BY <1>3, <1>7 DEF ProposeCategory, Enqueued
<1>8. ASSUME NEW q \in DOMAIN proposals, NEW k \in SplitCategories, NEW o \in BOOLEAN,
             Approve(q, k, o)
      PROVE  p = q /\ proposals[p].status \in Waiting
  BY <1>1, <1>8 DEF Approve, ProposalRecord
<1>9. ASSUME NEW q \in DOMAIN proposals, NEW o \in BOOLEAN, Revert(q, o) PROVE p = q
  BY <1>1, <1>2, <1>9 DEF Revert
<1>10. ASSUME NEW q \in DOMAIN proposals, Reject(q)
       PROVE  proposals'[p].status \in Waiting \cup {"rejected"}
  BY <1>1, <1>2, <1>10 DEF Reject
<1>11. ASSUME NEW q \in DOMAIN proposals, NEW st \in Delays, Postpone(q, st)
       PROVE  proposals'[p].status \in Waiting \cup {"rejected"}
  <2>1. st \in Waiting
    BY ActionAssumption DEF ActionAssumption, Waiting
  <2>2. proposals'[p].status = IF p = q THEN st ELSE proposals[p].status
    BY <1>1, <1>2, <1>11 DEF Postpone
  <2> QED
    BY <2>1, <2>2
<1>12. ASSUME \/ \E s \in Splits, k \in SplitCategories : BookReviewedReceipt(s, k)
              \/ \E s \in Splits, k \in Purposes : Suggest(s, k)
              \/ \E x \in CategoryEdits, o \in BOOLEAN : EditTransaction(x[1], x[2], o)
              \/ \E t \in Unsettling : Unsettle(t)
              \/ \E mo \in ClosableMonths : CloseMonth(mo)
       PROVE  FALSE
  BY <1>12 DEF BookReviewedReceipt, Suggest, EditTransaction, Unsettle, CloseMonth
<1> QED
  BY <1>4, <1>5, <1>6, <1>7, <1>8, <1>9, <1>10, <1>11, <1>12 DEF ActionsNext

\* An undo or an approval acts on what its author saw.
LEMMA NothingSweptAwayStep ==
    ASSUME ActionInv, [ActionsNext]_actionVars, NEW p \in DOMAIN proposals
    PROVE  LET a == proposals[p] IN
           /\ a.status \in InForce /\ proposals'[p].status = "reverted" /\ a.revert.claim # 0 =>
                 \A q \in LaterApprovals(p) :
                     LET b == proposals[q] IN
                     /\ a.revert.exact # Unseen /\ b.revert.claim # 0 => TxnOf[b.split] # TxnOf[a.split]
                     /\ b.split = a.split /\ b.revert.claim # 0 => b.to = a.to
           /\ a.origin = "machine" /\ a.status \in Waiting /\ proposals'[p].status \in InForce =>
                 ~\E i, j \in DOMAIN audit :
                     LET b == proposals[audit[j][1]] IN
                     /\ i < j /\ audit[i] = <<p, "proposed">> /\ TxnOf[b.split] = TxnOf[a.split]
                     /\ audit[j][2] \in {"approved", "reverted"}
                     /\ b.revert.claim # 0
<1> DEFINE a == proposals[p]  t == TxnOf[a.split]
<1>1. ActionTypes /\ t \in Txns
  BY ProposalFacts DEF ActionInv
<1>2. ASSUME a.status \in InForce, proposals'[p].status = "reverted", a.revert.claim # 0,
             NEW q \in LaterApprovals(p), proposals[q].revert.claim # 0
      PROVE  /\ a.revert.exact # Unseen => TxnOf[proposals[q].split] # t
             /\ proposals[q].split = a.split => proposals[q].to = a.to
  <2>1. Revertible(a)
    <3>1. a.status \notin Waiting /\ "reverted" \notin Waiting /\ proposals'[p].status # a.status
      BY <1>2 DEF InForce, Waiting
    <3>2. ActionsNext
      BY <3>1 DEF actionVars
    <3>3. \E o \in BOOLEAN : Revert(p, o)
      BY <1>2, <3>1, <3>2, StatusMoves
    <3> QED
      BY <3>3 DEF Revert
  <2>2. q \in DOMAIN proposals /\ Before(p, "approved", q, "approved")
    BY <1>2 DEF LaterApprovals, Before
  <2>3. a.revert.exact # Unseen => TxnOf[proposals[q].split] # t
    <3> SUFFICES ASSUME a.revert.exact # Unseen, TxnOf[proposals[q].split] = t PROVE FALSE
      OBVIOUS
    <3>1. SameTxn(p, q)
      BY DEF SameTxn
    <3>2. Surpassed(a.revert.exact, t)
      BY <1>2, <2>2, <3>1 DEF ActionInv, DecisionsMoveOn
    <3>3. a.revert.exact = Digest(t, category, claims)
      BY <2>1 DEF Revertible
    <3> QED
      BY <1>1, <3>2, <3>3, SurpassedIsStale
  <2>4. proposals[q].split = a.split => proposals[q].to = a.to
    <3> SUFFICES ASSUME proposals[q].split = a.split, proposals[q].to # a.to PROVE FALSE
      OBVIOUS
    <3>1. Rank(claims[a.revert.claim].kind) = 2
      BY <1>2, <2>2 DEF ActionInv, DecisionsMoveOn
    <3>2. claims[a.revert.claim].kind \in Trusted
      BY <1>2, <2>1 DEF Revertible
    <3> QED
      BY <3>1, <3>2, RankIsNatural
  <2> QED
    BY <2>3, <2>4
<1>3. ASSUME a.origin = "machine", a.status \in Waiting, proposals'[p].status \in InForce,
             NEW i \in DOMAIN audit, NEW j \in DOMAIN audit,
             i < j, audit[i] = <<p, "proposed">>,
             TxnOf[proposals[audit[j][1]].split] = t, audit[j][2] \in {"approved", "reverted"},
             proposals[audit[j][1]].revert.claim # 0
      PROVE  FALSE
  <2>1. a.seen # Unseen
    BY <1>3 DEF ActionInv, DecidedOnRecord
  <2>2. a.seen = Digest(t, category, claims)
    <3>1. proposals'[p].status \notin Waiting \cup {"rejected", "reverted"} /\ proposals'[p].status # a.status
      BY <1>3 DEF InForce, Waiting
    <3>2. ActionsNext
      BY <3>1 DEF actionVars
    <3>3. ~\E o \in BOOLEAN : Revert(p, o)
      BY <1>3 DEF Revert, Revertible, InForce, Waiting
    <3>4. \E k \in SplitCategories : Valid(a, k)
      BY <3>1, <3>2, <3>3, StatusMoves DEF Approve
    <3> QED
      BY <2>1, <3>4 DEF Valid
  <2> DEFINE q == audit[j][1]
  <2>3. q \in DOMAIN proposals
    BY DEF ActionInv, NamesExist
  <2>4. audit[j] = <<q, audit[j][2]>>
    <3>1. audit[j] \in AuditRecord
      BY DEF ActionInv, ActionTypes
    <3> QED
      BY <3>1 DEF AuditRecord
  <2>5. Before(p, "proposed", q, "approved") \/ Before(p, "proposed", q, "reverted")
    BY <1>3, <2>4 DEF Before
  <2>6. SameTxn(p, q)
    BY <1>3 DEF SameTxn
  <2> HIDE DEF q
  <2>7. proposals[q].revert.claim # 0
    BY <1>3 DEF q
  <2>8. Surpassed(a.seen, t)
    BY <2>1, <2>3, <2>5, <2>6, <2>7 DEF ActionInv, DecisionsMoveOn
  <2> QED
    BY <1>1, <2>2, <2>8, SurpassedIsStale
<1> QED
  BY <1>2, <1>3

\* An approval or an undo acts on what its author saw: neither sweeps away what
\* somebody decided in between.
THEOREM DecisionsAreNotSweptAway == ActionsSpec => NothingSweptAway
<1>1. ActionInv /\ [ActionsNext]_actionVars => [\A p \in DOMAIN proposals :
        LET a == proposals[p] IN
        a.status \in InForce /\ proposals'[p].status = "reverted" /\ a.revert.claim # 0 =>
            \A q \in LaterApprovals(p) :
                LET b == proposals[q] IN
                /\ a.revert.exact # Unseen /\ b.revert.claim # 0 => TxnOf[b.split] # TxnOf[a.split]
                /\ b.split = a.split /\ b.revert.claim # 0 => b.to = a.to]_actionVars
  BY NothingSweptAwayStep
<1>2. ActionInv /\ [ActionsNext]_actionVars => [\A p \in DOMAIN proposals :
        LET a == proposals[p] IN
        a.origin = "machine" /\ a.status \in Waiting /\ proposals'[p].status \in InForce =>
            ~\E i, j \in DOMAIN audit :
                LET b == proposals[audit[j][1]] IN
                /\ i < j /\ audit[i] = <<p, "proposed">> /\ TxnOf[b.split] = TxnOf[a.split]
                /\ audit[j][2] \in {"approved", "reverted"}
                /\ b.revert.claim # 0]_actionVars
  BY NothingSweptAwayStep
<1>3. ActionsSpec => []ActionInv
  BY ActionInvariant, ActionAssumption
<1>4. ActionsSpec => UndoneInOrder
  BY <1>1, <1>3, PTL DEF ActionsSpec, UndoneInOrder
<1>5. ActionsSpec => ApprovedAsInspected
  BY <1>2, <1>3, PTL DEF ActionsSpec, ApprovedAsInspected
<1> QED
  BY <1>4, <1>5 DEF NothingSweptAway

\* A step is about one transaction, whose month is open or is opened by it.
About(t) ==
    /\ Open(t) \/ Month[t] \notin closedMonths'
    /\ \A s \in Splits : TxnOf[s] # t => category'[s] = category[s]
    /\ \A c \in DOMAIN claims : TxnOf[claims[c].split] # t => claims'[c] = claims[c]
    /\ \A p \in DOMAIN proposals : TxnOf[proposals[p].split] # t => proposals'[p] = proposals[p]

\* A new proposal leaves those that there are.
LEMMA QueueStands ==
    ASSUME ActionInv, NEW s, NEW k, NEW seen, NEW claim, NEW origin,
           proposals' = Enqueued(proposals, s, k, seen, claim, origin) \/ proposals' = proposals,
           NEW p \in DOMAIN proposals
    PROVE  proposals'[p] = proposals[p]
<1>1. proposals \in Seq(ProposalRecord)
  BY DEF ActionInv, ActionTypes
<1>2. \A x : Append(proposals, x)[p] = proposals[p]
  BY <1>1
<1> QED
  BY <1>2 DEF Enqueued

LEMMA ClaimsGrow ==
    ASSUME ActionInv, NEW x, NEW c \in DOMAIN claims PROVE Append(claims, x)[c] = claims[c]
<1>1. claims \in Seq(ClaimRecord)
  BY DEF ActionInv, ActionTypes
<1> QED
  BY <1>1

LEMMA StepsAreAbout ==
    ASSUME ActionInv, [ActionsNext]_actionVars
    PROVE  (\E t \in Txns : About(t)) \/ UNCHANGED <<category, claims, proposals>>
<1>1. /\ category \in [Splits -> SplitCategories \cup {Unset}]
      /\ claims \in Seq(ClaimRecord) /\ proposals \in Seq(ProposalRecord)
      /\ \A s \in Splits : TxnOf[s] \in Txns
  BY DEF ActionInv, ActionTypes, Txns
<1>2. \A s \in Splits : \A k : category' = [category EXCEPT ![s] = k] =>
        \A u \in Splits : TxnOf[u] # TxnOf[s] => category'[u] = category[u]
  BY <1>1
<1>3. ASSUME NEW s \in Splits, NEW k \in Guesses \cup {Unset}, BookReceipt(s, k)
      PROVE  About(TxnOf[s])
  <2>1. /\ Open(TxnOf[s]) /\ category' = [category EXCEPT ![s] = Uncategorized]
        /\ \/ UNCHANGED <<proposals, claims>>
           \/ \E q \in SplitCategories \cup Purposes \cup {k, Resolved(TxnOf[s])} :
                 /\ claims' = Proposed(claims, s, q)
                 /\ proposals' = Enqueued(proposals, s, q, Unseen, Len(claims'), "receipt")
    BY <1>3 DEF BookReceipt
  <2>2. \A p \in DOMAIN proposals : proposals'[p] = proposals[p]
    BY <2>1, QueueStands
  <2>3. \A c \in DOMAIN claims : claims'[c] = claims[c]
    BY <2>1, ClaimsGrow DEF Proposed
  <2> QED
    BY <1>2, <2>1, <2>2, <2>3 DEF About
<1>4. ASSUME NEW s \in Splits, NEW k \in SplitCategories, BookReviewedReceipt(s, k)
      PROVE  About(TxnOf[s])
  <2>1. /\ Open(TxnOf[s]) /\ category' = [category EXCEPT ![s] = k] /\ proposals' = proposals
        /\ claims' = claims \/ claims' = Confirmed(claims, s, k)
    BY <1>4 DEF BookReviewedReceipt
  <2>2. \A c \in DOMAIN claims : claims'[c] = claims[c]
    BY <2>1, ClaimsGrow DEF Confirmed
  <2> QED
    BY <1>2, <2>1, <2>2 DEF About
<1>5. ASSUME NEW s \in Splits, BookLine(s) PROVE About(TxnOf[s])
  <2>1. /\ Open(TxnOf[s]) /\ category' = [category EXCEPT ![s] = Uncategorized] /\ claims' = claims
        /\ \/ proposals' = proposals
           \/ proposals' = Enqueued(proposals, s, Resolved(TxnOf[s]), Unseen, 0, "line")
    BY <1>5 DEF BookLine
  <2>2. \A p \in DOMAIN proposals : proposals'[p] = proposals[p]
    BY <2>1, QueueStands
  <2> QED
    BY <1>2, <2>1, <2>2 DEF About
<1>6. ASSUME NEW s \in Splits, NEW k \in Purposes, EnqueueSuggestion(s, k)
      PROVE  About(TxnOf[s]) \/ UNCHANGED <<category, claims, proposals>>
  <2>1. /\ category' = category /\ claims' = claims
        /\ \/ proposals' = proposals
           \/ Open(TxnOf[s]) /\ proposals' = Enqueued(proposals, s, k, Unseen, 0, "backlog")
    BY <1>6 DEF EnqueueSuggestion
  <2>2. \A p \in DOMAIN proposals : proposals'[p] = proposals[p]
    BY <2>1, QueueStands
  <2> QED
    BY <2>1, <2>2 DEF About
<1>7. ASSUME NEW r \in Requests, ProposeCategory(r[1], r[2]) PROVE About(TxnOf[r[1]])
  <2>1. /\ Open(TxnOf[r[1]]) /\ category' = category /\ claims' = claims
        /\ proposals' = Enqueued(proposals, r[1], r[2], Digest(TxnOf[r[1]], category, claims), 0, "machine")
    BY <1>7 DEF ProposeCategory
  <2>2. \A p \in DOMAIN proposals : proposals'[p] = proposals[p]
    BY <2>1, QueueStands
  <2> QED
    BY <2>1, <2>2 DEF About
<1>8. ASSUME NEW x \in CategoryEdits, NEW o \in BOOLEAN, EditTransaction(x[1], x[2], o)
      PROVE  About(TxnOf[x[1]]) /\ x[1] \in Splits
  <2>1. x[1] \in Splits
    BY ActionAssumption DEF ActionAssumption
  <2>2. /\ Open(TxnOf[x[1]]) \/ Month[TxnOf[x[1]]] \notin closedMonths'
        /\ category' = [category EXCEPT ![x[1]] = x[2]] /\ claims' = claims /\ proposals' = proposals
    BY <1>8 DEF EditTransaction, Unlocked
  <2> QED
    BY <1>2, <2>1, <2>2 DEF About
<1>9. ASSUME NEW p \in DOMAIN proposals, NEW k \in SplitCategories, NEW o \in BOOLEAN, Approve(p, k, o)
      PROVE  About(TxnOf[proposals[p].split])
  <2> DEFINE a == proposals[p]  s == a.split
  <2>1. /\ Open(TxnOf[s]) \/ Month[TxnOf[s]] \notin closedMonths'
        /\ a.status \in Waiting /\ category' = [category EXCEPT ![s] = k]
        /\ claims' = IF Teaches(TxnOf[s], k) THEN Decided(a, s, k) ELSE claims
        /\ \A q \in DOMAIN proposals : q # p => proposals'[q] = proposals[q]
    BY <1>1, <1>9 DEF Approve, Unlocked
  <2>2. s \in Splits
    BY ProposalFacts
  <2>3. ASSUME NEW c \in DOMAIN claims, TxnOf[claims[c].split] # TxnOf[s], Teaches(TxnOf[s], k)
        PROVE  claims'[c] = claims[c]
    <3>1. k \in Purposes
      BY <2>3 DEF Teaches
    <3>2. c \notin Conflicting(s, k)
      BY <2>3 DEF Conflicting, TrustedOf
    <3>3. c # a.claim
      <4>1. 0 \notin DOMAIN claims
        BY <1>1
      <4> QED
        BY <2>3, <4>1, ProposalFacts
    <3> QED
      <4>1. claims' = Decided(a, s, k)
        BY <2>1, <2>3
      <4>2. \A d \in DOMAIN claims :
              \/ claims'[d] = claims[d]
              \/ d \in Conflicting(s, k)
              \/ d = a.claim
        BY ActionAssumption, <2>1, <3>1, <4>1, DecidedFacts
      <4> QED
        BY <2>3, <3>2, <3>3, <4>2
  <2>4. \A c \in DOMAIN claims : TxnOf[claims[c].split] # TxnOf[s] => claims'[c] = claims[c]
    BY <2>1, <2>3
  <2> QED
    BY <1>2, <2>1, <2>2, <2>4 DEF About
<1>10. ASSUME NEW p \in DOMAIN proposals, NEW o \in BOOLEAN, Revert(p, o)
       PROVE  About(TxnOf[proposals[p].split])
  <2> DEFINE a == proposals[p]  s == a.split
  <2>1. /\ Open(TxnOf[s]) \/ Month[TxnOf[s]] \notin closedMonths'
        /\ category' = [category EXCEPT ![s] = a.revert.from]
        /\ claims' = Turned(claims, {a.revert.claim}, "undo")
        /\ \A q \in DOMAIN proposals : q # p => proposals'[q] = proposals[q]
    BY <1>1, <1>10 DEF Revert, Unlocked, Withdrawn, ReversedClaims
  <2>2. s \in Splits
    BY ProposalFacts
  <2>3. \A c \in DOMAIN claims : TxnOf[claims[c].split] # TxnOf[s] => claims'[c] = claims[c]
    <3>1. 0 \notin DOMAIN claims
      BY <1>1
    <3>2. \A c \in DOMAIN claims : c # a.revert.claim => claims'[c] = claims[c]
      BY <2>1 DEF Turned
    <3> QED
      BY <3>1, <3>2, ProposalFacts
  <2> QED
    BY <1>2, <2>1, <2>2, <2>3 DEF About
<1>11. ASSUME NEW p \in DOMAIN proposals, Reject(p) PROVE About(TxnOf[proposals[p].split])
  <2> DEFINE a == proposals[p]  s == a.split
  <2>1. /\ Open(TxnOf[s]) /\ category' = category
        /\ claims' = Turned(claims, {a.claim}, "rejected")
        /\ \A q \in DOMAIN proposals : q # p => proposals'[q] = proposals[q]
    BY <1>1, <1>11 DEF Reject, RejectedWith
  <2>2. \A c \in DOMAIN claims : TxnOf[claims[c].split] # TxnOf[s] => claims'[c] = claims[c]
    <3>1. 0 \notin DOMAIN claims
      BY <1>1
    <3>2. \A c \in DOMAIN claims : c # a.claim => claims'[c] = claims[c]
      BY <2>1 DEF Turned
    <3> QED
      BY <3>1, <3>2, ProposalFacts
  <2> QED
    BY <2>1, <2>2 DEF About
<1>12. ASSUME NEW p \in DOMAIN proposals, NEW state \in Delays, Postpone(p, state)
       PROVE  About(TxnOf[proposals[p].split])
  <2>1. /\ Open(TxnOf[proposals[p].split]) /\ category' = category /\ claims' = claims
        /\ \A q \in DOMAIN proposals : q # p => proposals'[q] = proposals[q]
    BY <1>1, <1>12 DEF Postpone
  <2> QED
    BY <2>1 DEF About
<1>13. ASSUME \/ \E s \in Splits, k \in Purposes : Suggest(s, k)
              \/ \E t \in Unsettling : Unsettle(t)
              \/ \E mo \in ClosableMonths : CloseMonth(mo)
              \/ UNCHANGED actionVars
       PROVE  UNCHANGED <<category, claims, proposals>>
  BY <1>13 DEF Suggest, Unsettle, CloseMonth, actionVars
<1>14. \A r \in Requests : r[1] \in Splits
  BY ActionAssumption DEF ActionAssumption
<1> QED
  BY <1>1, <1>3, <1>4, <1>5, <1>6, <1>7, <1>8, <1>9, <1>10, <1>11, <1>12, <1>13, <1>14, ProposalFacts
     DEF ActionsNext

LEMMA ClosedCategories == ActionsSpec => ClosedCategoriesStand
<1>1. ActionInv /\ [ActionsNext]_actionVars =>
        [\A t \in Txns : ~Open(t) /\ Month[t] \in closedMonths' =>
            /\ \A s \in SplitsOf(t) : category'[s] = category[s]
            /\ \A c \in DOMAIN claims : TxnOf[claims[c].split] = t => claims'[c] = claims[c]
            /\ \A p \in DOMAIN proposals : TxnOf[proposals[p].split] = t => proposals'[p] = proposals[p]]_actionVars
  <2> SUFFICES ASSUME ActionInv, [ActionsNext]_actionVars,
                      NEW t \in Txns, ~Open(t), Month[t] \in closedMonths'
               PROVE
            /\ \A s \in SplitsOf(t) : category'[s] = category[s]
            /\ \A c \in DOMAIN claims : TxnOf[claims[c].split] = t => claims'[c] = claims[c]
            /\ \A p \in DOMAIN proposals : TxnOf[proposals[p].split] = t => proposals'[p] = proposals[p]
    OBVIOUS
  <2>1. CASE UNCHANGED <<category, claims, proposals>>
    BY <2>1
  <2>2. ASSUME NEW w \in Txns, About(w)
        PROVE
            /\ \A s \in SplitsOf(t) : category'[s] = category[s]
            /\ \A c \in DOMAIN claims : TxnOf[claims[c].split] = t => claims'[c] = claims[c]
            /\ \A p \in DOMAIN proposals : TxnOf[proposals[p].split] = t => proposals'[p] = proposals[p]
    BY <2>2 DEF About, SplitsOf
  <2> QED
    BY <2>1, <2>2, StepsAreAbout
<1> QED
  BY <1>1, ActionInvariant, ActionAssumption, PTL DEF ActionsSpec, ClosedCategoriesStand

-----------------------------------------------------------------------------
(* Closed months *)

LEMMA ClosedRows == ASSUME FlowAssumption PROVE Spec => ClosedStands
<1>1. FlowInv /\ [Next]_vars =>
        [/\ \A t \in Transactions : Posted[t] \in locked => txns'[t] = txns[t]
         /\ \A s \in Subjects : Statement[s] \in locked => rows'[s] = rows[s]]_vars
  <2> SUFFICES ASSUME FlowInv, Next
               PROVE  /\ \A t \in Transactions : Posted[t] \in locked => txns'[t] = txns[t]
                      /\ \A s \in Subjects : Statement[s] \in locked => rows'[s] = rows[s]
    BY DEF vars
  <2>1. txns \in [Transactions -> Txn] /\ rows \in [Subjects -> {"loose", "claimed", "corrected"}]
    BY DEF FlowInv, LedgerTypes
  <2>2. ASSUME NEW k \in Nat, NEW s \in Subjects, recover_positive_line(s, k)
        PROVE  /\ \A t \in Transactions : Posted[t] \in locked => txns'[t] = txns[t]
               /\ \A u \in Subjects : Statement[u] \in locked => rows'[u] = rows[u]
    BY <2>1, <2>2 DEF recover_positive_line, Guarded, Transactions
  <2>3. ASSUME NEW k \in Nat, NEW s \in Subjects, NEW p \in AllProposals(s),
               reject_proposal(s, p, k) \/ restore_proposal(s, p, k)
        PROVE  txns' = txns /\ rows' = rows
    BY <2>3 DEF reject_proposal, restore_proposal
  <2>4. ASSUME NEW k \in Nat, NEW s \in Subjects, NEW p \in AllProposals(s),
               accept_classification(s, p, k)
        PROVE  /\ \A t \in Transactions : Posted[t] \in locked => txns'[t] = txns[t]
               /\ rows' = rows
    BY <2>1, <2>4 DEF accept_classification, Current, Guarded, Transactions
  <2>5. ASSUME NEW k \in Nat, NEW s \in Subjects, NEW p \in AllProposals(s), accept_pair(s, p, k)
        PROVE  /\ \A t \in Transactions : Posted[t] \in locked => txns'[t] = txns[t]
               /\ rows' = rows
    <3>1. \A t \in Transactions : Posted[t] \in locked => t # s /\ t # p.debit
      BY <2>5 DEF accept_pair, Current, Guarded
    <3>2. /\ rows' = rows
          /\ txns' = [txns EXCEPT ![p.debit].flow = p.debitFlow, ![s].flow = p.flow,
                                  ![s].category = Retagged(p.flow, txns[p.debit].category)]
      BY <2>5 DEF accept_pair
    <3> QED
      BY <2>1, <3>1, <3>2
  <2>6. ASSUME NEW k \in Nat, NEW i \in DOMAIN events, undo_acceptance(i, k)
        PROVE  /\ \A t \in Transactions : Posted[t] \in locked => txns'[t] = txns[t]
               /\ rows' = rows
    <3> DEFINE s == events[i].subject  c == events[i].proposal.debit
               restored == [txns EXCEPT ![s] = events[i].prior]
    <3>1. \A t \in Transactions : Posted[t] \in locked => t # s /\ t # c
      BY <2>6 DEF undo_acceptance, Guarded
    <3>2. /\ rows' = rows
          /\ txns' = restored \/ txns' = [restored EXCEPT ![c].flow = events[i].priorDebit]
      BY <2>6 DEF undo_acceptance, Restored
    <3>3. DOMAIN restored = Transactions
      BY <2>1
    <3>4. \A t \in Transactions : t # s => restored[t] = txns[t]
      BY <2>1
    <3> HIDE DEF restored
    <3> QED
      BY <3>1, <3>2, <3>3, <3>4
  <2>7. ASSUME NEW s \in Subjects, correct_row(s) \/ unreconcile(s)
        PROVE  /\ \A t \in Transactions : Posted[t] \in locked => txns'[t] = txns[t]
               /\ \A u \in Subjects : Statement[u] \in locked => rows'[u] = rows[u]
    <3>1. /\ Statement[s] \notin locked
          /\ \E row : rows' = [rows EXCEPT ![s] = row]
          /\ \/ txns' = txns
             \/ Posted[s] \notin locked /\ txns' = [txns EXCEPT ![s].flow = "absent"]
      BY <2>7 DEF correct_row, unreconcile
    <3> QED
      BY <2>1, <3>1
  <2>8. ASSUME NEW t \in Editable, NEW edit \in Edits, update_txn(t, edit)
        PROVE  /\ \A u \in Transactions : Posted[u] \in locked => txns'[u] = txns[u]
               /\ rows' = rows
    BY <2>1, <2>8 DEF update_txn
  <2>9. ASSUME NEW m \in Closable, Close(m) PROVE txns' = txns /\ rows' = rows
    BY <2>9 DEF Close
  <2>10. Len(events) \in Nat
    BY DEF FlowInv, History
  <2> QED
    BY <2>2, <2>3, <2>4, <2>5, <2>6, <2>7, <2>8, <2>9, <2>10 DEF Next, Decide
<1> QED
  BY <1>1, FlowAssumption, FlowInvariant, PTL DEF Spec, ClosedStands

\* A closed month keeps its credits, rows, categories and claims: no decision about an
\* open month changes the other end of a pair or what it taught.
THEOREM ClosedMonthsAreKept == Spec /\ ActionsSpec => ClosedMonthsStand
BY ClosedRows, ClosedCategories, FlowAssumption DEF ClosedMonthsStand

-----------------------------------------------------------------------------
(* Goals *)

-----------------------------------------------------------------------------
(* Numbers *)

LEMMA CeilDivFacts ==
    ASSUME NEW a \in Nat, NEW b \in Nat \ {0}
    PROVE  /\ CeilDiv(a, b) \in Nat
           /\ CeilDiv(a, b) * b >= a
           /\ CeilDiv(a, b) * b < a + b
BY DEF CeilDiv

LEMMA LeastFacts ==
    ASSUME NEW a \in Nat, NEW b \in Nat
    PROVE  Least(a, b) \in Nat /\ Least(a, b) <= a /\ Least(a, b) <= b /\ Least(a, b) \in {a, b}
BY DEF Least

LEMMA MinusFacts ==
    ASSUME NEW a \in Nat, NEW b \in Nat
    PROVE  /\ Minus(a, b) \in Nat /\ Minus(a, b) <= a
           /\ (a <= b => Minus(a, b) = 0) /\ (b <= a => Minus(a, b) = a - b)
BY DEF Minus

-----------------------------------------------------------------------------
(* Sets that are put in an order *)

TotalOrder(R, S) ==
    /\ \A x \in S : <<x, x>> \notin R
    /\ \A x, y \in S : x # y => <<x, y>> \in R \/ <<y, x>> \in R
    /\ \A x, y, z \in S : <<x, y>> \in R /\ <<y, z>> \in R => <<x, z>> \in R

InOrder(s, R) == \A i, j \in DOMAIN s : i < j => <<s[i], s[j]>> \in R

LEMMA LastOne ==
    ASSUME NEW S, IsFiniteSet(S), S # {}, NEW R, TotalOrder(R, S)
    PROVE  \E x \in S : \A y \in S : y # x => <<y, x>> \in R
<1> DEFINE Above(x) == {y \in S : <<x, y>> \in R}
           T == {Above(x) : x \in S}
<1>1. T \subseteq SUBSET S /\ T # {}
  OBVIOUS
<1>2. PICK U \in T : \A V \in T : V \subseteq U => V = U
  <2> HIDE DEF T
  <2> QED
    BY <1>1, LeastSet
<1>3. PICK x \in S : U = Above(x)
  BY <1>2
<1>4. ASSUME NEW y \in Above(x) PROVE FALSE
  <2>1. y \in S /\ <<x, y>> \in R
    OBVIOUS
  <2>2. Above(y) \subseteq Above(x)
    BY <2>1 DEF TotalOrder
  <2>3. y \notin Above(y)
    BY <2>1 DEF TotalOrder
  <2>4. Above(y) \in T
    BY <2>1
  <2>5. Above(y) = Above(x)
    BY <1>2, <1>3, <2>2, <2>4
  <2> QED
    BY <2>3, <2>5, <1>4
<1>5. \A y \in S : y # x => <<y, x>> \in R
  BY <1>3, <1>4 DEF TotalOrder
<1> QED
  BY <1>3, <1>5

LEMMA OrderExists ==
    ASSUME NEW S, IsFiniteSet(S), NEW R, TotalOrder(R, S)
    PROVE  \E s \in SetToSeqs(S) : InOrder(s, R)
<1> DEFINE Bad == {T \in SUBSET S : ~ \E s \in SetToSeqs(T) : InOrder(s, R)}
<1>1. SUFFICES ASSUME Bad # {} PROVE FALSE
  <2>1. S \notin Bad
    BY <1>1
  <2> QED
    BY <2>1
<1>2. PICK T \in Bad : \A V \in Bad : V \subseteq T => V = T
  <2>1. Bad \subseteq SUBSET S
    OBVIOUS
  <2> HIDE DEF Bad
  <2> QED
    BY <2>1, <1>1, LeastSet
<1>3. T \in SUBSET S /\ IsFiniteSet(T) /\ ~ \E s \in SetToSeqs(T) : InOrder(s, R)
  BY FS_Subset
<1>4. TotalOrder(R, T)
  BY <1>3 DEF TotalOrder
<1>5. CASE T = {}
  <2> DEFINE s == [i \in 1..0 |-> i]
  <2>1. Cardinality(T) = 0
    BY <1>5, FS_EmptySet
  <2>2. s \in SetToSeqs(T) /\ InOrder(s, R)
    BY <2>1 DEF SetToSeqs, InOrder
  <2> QED
    BY <1>3, <2>2
<1>6. CASE T # {}
  <2>1. PICK x \in T : \A y \in T : y # x => <<y, x>> \in R
    BY <1>3, <1>4, <1>6, LastOne
  <2>2. T \ {x} \in SUBSET S /\ T \ {x} \notin Bad
    BY <1>2, <1>3, <2>1
  <2>3. PICK s \in SetToSeqs(T \ {x}) : InOrder(s, R)
    BY <2>2
  <2> DEFINE n == Cardinality(T)
  <2>4. n \in Nat /\ Cardinality(T \ {x}) = n - 1 /\ n - 1 \in Nat
    <3>1. n \in Nat /\ IsFiniteSet(T \ {x}) /\ Cardinality(T \ {x}) = n - 1
      BY <1>3, <2>1, FS_CardinalityType, FS_RemoveElement
    <3>2. Cardinality(T \ {x}) \in Nat
      BY <3>1, FS_CardinalityType
    <3> QED
      BY <3>1, <3>2
  <2> HIDE DEF n
  <2>5. /\ s \in [1..(n - 1) -> T \ {x}]
        /\ \A i, j \in 1..(n - 1) : i # j => s[i] # s[j]
    BY <2>3, <2>4 DEF SetToSeqs
  <2> DEFINE t == [i \in 1..n |-> IF i = n THEN x ELSE s[i]]
  <2>6. \A i \in 1..n : i # n => i \in 1..(n - 1) /\ t[i] = s[i] /\ t[i] \in T \ {x}
    BY <2>4, <2>5
  <2>7. t[n] = x /\ n \in 1..n
    BY <2>4
  <2>8. t \in [1..n -> T] /\ \A i, j \in 1..n : i # j => t[i] # t[j]
    <3>1. t \in [1..n -> T]
      BY <2>6, <2>7, <2>1
    <3> HIDE DEF t
    <3>2. ASSUME NEW i \in 1..n, NEW j \in 1..n, i # j PROVE t[i] # t[j]
      BY <3>2, <2>5, <2>6, <2>7
    <3> QED
      BY <3>1, <3>2
  <2>9. t \in SetToSeqs(T)
    BY <2>8 DEF SetToSeqs, n
  <2>10. ASSUME NEW i \in 1..n, NEW j \in 1..n, i < j PROVE <<t[i], t[j]>> \in R
    <3>1. i # n /\ i \in 1..(n - 1)
      BY <2>10, <2>4
    <3>2. CASE j = n
      BY <3>1, <3>2, <2>6, <2>7, <2>1
    <3>3. CASE j # n
      <4>1. t[i] = s[i] /\ t[j] = s[j] /\ j \in 1..(n - 1)
        BY <3>1, <3>3, <2>6
      <4> HIDE DEF t
      <4>2. DOMAIN s = 1..(n - 1)
        BY <2>5
      <4> QED
        BY <4>1, <4>2, <3>1, <2>3, <2>10 DEF InOrder
    <3> QED
      BY <3>2, <3>3
  <2>11. InOrder(t, R)
    <3>1. DOMAIN t = 1..n
      OBVIOUS
    <3> HIDE DEF t
    <3> QED
      BY <3>1, <2>10 DEF InOrder
  <2> HIDE DEF t
  <2> QED
    BY <1>3, <2>9, <2>11
<1> QED
  BY <1>5, <1>6

\* A sequence made of a set lists every element once.
Lists(s, S) ==
    /\ DOMAIN s = 1..Cardinality(S)
    /\ \A i \in DOMAIN s : s[i] \in S
    /\ \A i, j \in DOMAIN s : i # j => s[i] # s[j]
    /\ \A x \in S : \E i \in DOMAIN s : s[i] = x

LEMMA SeqsList ==
    ASSUME NEW S, IsFiniteSet(S), NEW s \in SetToSeqs(S)
    PROVE  Lists(s, S) /\ Cardinality(S) \in Nat /\ s \in Seq(S) /\ Len(s) = Cardinality(S)
<1> DEFINE n == Cardinality(S)
<1>1. n \in Nat
  BY FS_CardinalityType
<1>2. s \in [1..n -> S] /\ \A i, j \in 1..n : i # j => s[i] # s[j]
  BY DEF SetToSeqs
<1>3. s \in Injection(1..n, S)
  BY <1>2 DEF Injection, IsInjective
<1>4. Cardinality(1..n) = n /\ IsFiniteSet(1..n)
  BY <1>1, FS_Interval
<1>5. s \in Surjection(1..n, S)
  BY <1>3, <1>4, FS_Injection
<1>6. \A x \in S : \E i \in 1..n : s[i] = x
  BY <1>5 DEF Surjection
<1> HIDE DEF n
<1>7. s \in Seq(S) /\ Len(s) = n
  BY <1>1, <1>2
<1> QED
  BY <1>1, <1>2, <1>6, <1>7 DEF n, Lists

LEMMA PoolOrderLists ==
    ASSUME NEW D, IsFiniteSet(D), D \subseteq Nat, NEW pool \in [D -> Nat]
    PROVE  Lists(PoolOrder(pool), D) /\ PoolOrder(pool) \in Seq(D)
<1> DEFINE R == {p \in D \X D : \/ pool[p[1]] > pool[p[2]]
                                \/ pool[p[1]] = pool[p[2]] /\ p[1] < p[2]}
<1>1. \A c, e \in D : <<c, e>> \in R <=> (pool[c] > pool[e] \/ (pool[c] = pool[e] /\ c < e))
  OBVIOUS
<1> HIDE DEF R
<1>2. TotalOrder(R, D)
  BY <1>1 DEF TotalOrder
<1>3. PICK s \in SetToSeqs(D) : InOrder(s, R)
  BY <1>2, OrderExists
<1>4. \A i \in DOMAIN s : s[i] \in D
  BY <1>3 DEF SetToSeqs
<1>5. \A i, j \in DOMAIN s : i < j => pool[s[i]] > pool[s[j]] \/ (pool[s[i]] = pool[s[j]] /\ s[i] < s[j])
  BY <1>1, <1>3, <1>4 DEF InOrder
<1>6. PoolOrder(pool) \in SetToSeqs(D)
  <2>1. DOMAIN pool = D
    OBVIOUS
  <2> QED
    BY <1>5, <2>1 DEF PoolOrder, Ordered
<1> QED
  BY <1>6, SeqsList

LEMMA PriorityLists ==
    ASSUME GoalAssumption, NEW goals \in SUBSET GoalIds, \A g \in goals : plan[g] \in Plan
    PROVE  Lists(ByPriority(goals), goals) /\ Cardinality(goals) \in Nat
<1>1. IsFiniteSet(goals) /\ goals \subseteq Nat
  BY FS_Subset DEF GoalAssumption
<1>2. \A g \in goals : plan[g].priority \in Nat
  BY DEF Plan
<1> DEFINE R == {p \in goals \X goals : \/ plan[p[1]].priority < plan[p[2]].priority
                                        \/ plan[p[1]].priority = plan[p[2]].priority /\ p[1] < p[2]}
<1>3. \A g, h \in goals : <<g, h>> \in R <=> \/ plan[g].priority < plan[h].priority
                                             \/ plan[g].priority = plan[h].priority /\ g < h
  OBVIOUS
<1> HIDE DEF R
<1>4. TotalOrder(R, goals)
  BY <1>1, <1>2, <1>3 DEF TotalOrder
<1>5. PICK s \in SetToSeqs(goals) : InOrder(s, R)
  BY <1>1, <1>4, OrderExists
<1>6. \A i \in DOMAIN s : s[i] \in goals
  BY <1>5 DEF SetToSeqs
<1>7. \A i, j \in DOMAIN s : i < j => \/ plan[s[i]].priority < plan[s[j]].priority
                                      \/ plan[s[i]].priority = plan[s[j]].priority /\ s[i] < s[j]
  BY <1>3, <1>5, <1>6 DEF InOrder
<1>8. ByPriority(goals) \in SetToSeqs(goals)
  BY <1>7 DEF ByPriority, Ordered
<1> QED
  BY <1>1, <1>8, SeqsList

-----------------------------------------------------------------------------
(* Folds over sequences *)

LEMMA MaxOf ==
    ASSUME NEW n \in Nat, NEW s \in SUBSET (1..n), s # {}
    PROVE  Max(s) \in s /\ \A y \in s : Max(s) >= y
<1> DEFINE T == {n - y : y \in s}
<1>1. T \subseteq Nat /\ T # {}
  <2>1. \A y \in s : n - y \in Nat
    OBVIOUS
  <2>2. PICK y \in s : TRUE
    OBVIOUS
  <2> QED
    BY <2>1, <2>2
<1>2. PICK d \in T : \A e \in T : d <= e
  <2> HIDE DEF T
  <2> QED
    BY <1>1, LeastNumber
<1>3. PICK x \in s : d = n - x
  OBVIOUS
<1>4. \A y \in s : n - x <= n - y /\ y \in Nat
  BY <1>2, <1>3
<1>5. \A y \in s : x >= y
  BY <1>4
<1> QED
  BY <1>5 DEF Max

LEMMA WithoutMax ==
    ASSUME NEW n \in Nat \ {0}, NEW s \in SUBSET (1..n), s # {}
    PROVE  s \ {Max(s)} \in SUBSET (1..(n - 1))
<1>1. Max(s) \in s /\ \A y \in s : Max(s) >= y
  BY MaxOf
<1>2. ASSUME NEW y \in s \ {Max(s)} PROVE y \in 1..(n - 1)
  <2>1. y \in 1..n /\ Max(s) \in 1..n /\ Max(s) >= y /\ y # Max(s)
    BY <1>1
  <2> QED
    BY <2>1
<1> QED
  BY <1>2

LEMMA MaxUpTo ==
    ASSUME NEW k \in Nat \ {0}
    PROVE  1..k # {} /\ Max(1..k) = k /\ (1..k) \ {Max(1..k)} = 1..(k - 1)
<1>1. k \in 1..k
  OBVIOUS
<1>2. Max(1..k) \in 1..k /\ \A y \in 1..k : Max(1..k) >= y
  BY <1>1, MaxOf
<1>3. Max(1..k) = k
  BY <1>1, <1>2
<1> QED
  BY <1>1, <1>3

\* The recursion of a fold that draws for each position
DrawSteps(order, base, T, h) ==
    h = [s \in T |-> IF s = {} THEN base ELSE Draw(h[s \ {Max(s)}], order[Max(s)])]

LEMMA DrawExist ==
    ASSUME NEW order, NEW base, NEW n \in Nat
    PROVE  \E h : DrawSteps(order, base, SUBSET (1..n), h)
<1> DEFINE Bad == {k \in Nat : ~ \E h : DrawSteps(order, base, SUBSET (1..k), h)}
<1>1. SUFFICES ASSUME Bad # {} PROVE FALSE
  OBVIOUS
<1>2. PICK k \in Bad : \A j \in Bad : k <= j
  <2>1. Bad \subseteq Nat
    OBVIOUS
  <2> HIDE DEF Bad
  <2> QED
    BY <1>1, <2>1, LeastNumber
<1>3. CASE k = 0
  <2>1. SUBSET (1..0) = {{}}
    OBVIOUS
  <2>2. DrawSteps(order, base, SUBSET (1..0), [s \in SUBSET (1..0) |-> base])
    BY <2>1 DEF DrawSteps
  <2> QED
    BY <1>2, <1>3, <2>2
<1>4. CASE k # 0
  <2>7. k \in Nat \ {0} /\ k - 1 \in Nat /\ ~(k <= k - 1)
    BY <1>2, <1>4
  <2>1. k \in Nat \ {0} /\ k - 1 \in Nat /\ k - 1 \notin Bad
    BY <1>2, <2>7
  <2>2. PICK h : DrawSteps(order, base, SUBSET (1..(k - 1)), h)
    BY <2>1
  <2> DEFINE f == [s \in SUBSET (1..k) |-> IF s = {} THEN base ELSE Draw(h[s \ {Max(s)}], order[Max(s)])]
  <2>3. SUBSET (1..(k - 1)) \subseteq SUBSET (1..k)
    BY <2>1
  <2>4. \A s \in SUBSET (1..(k - 1)) : f[s] = h[s]
    BY <2>2, <2>3 DEF DrawSteps
  <2>5. \A s \in SUBSET (1..k) : s # {} => f[s \ {Max(s)}] = h[s \ {Max(s)}]
    <3> HIDE DEF f
    <3> QED
      BY <2>1, <2>4, WithoutMax
  <2>6. DrawSteps(order, base, SUBSET (1..k), f)
    BY <2>5 DEF DrawSteps
  <2> QED
    BY <1>2, <2>6
<1> QED
  BY <1>3, <1>4

LEMMA DrawOneByOne ==
    ASSUME NEW n \in Nat, NEW order, DOMAIN order = 1..n, NEW base
    PROVE  \E f : /\ f[0] = base
                  /\ \A k \in 1..n : f[k] = Draw(f[k - 1], order[k])
                  /\ f[n] = FoldLeft(Draw, base, order)
<1> DEFINE h == CHOOSE x : DrawSteps(order, base, SUBSET (1..n), x)
           f == [k \in 0..n |-> h[1..k]]
<1>1. FoldLeft(Draw, base, order) = h[1..n]
  BY DEF FoldLeft, MapThenFoldSet, DrawSteps
<1>2. DrawSteps(order, base, SUBSET (1..n), h)
  BY DrawExist
<1> HIDE DEF h
<1>3. f[0] = base
  <2>1. 1..0 = {} /\ {} \in SUBSET (1..n)
    OBVIOUS
  <2>2. h[{}] = base
    BY <1>2, <2>1 DEF DrawSteps
  <2> QED
    BY <2>1, <2>2
<1>4. ASSUME NEW k \in 1..n PROVE f[k] = Draw(f[k - 1], order[k])
  <2>1. 1..k \in SUBSET (1..n) /\ k \in Nat \ {0} /\ k \in 0..n /\ k - 1 \in 0..n
    OBVIOUS
  <2>2. 1..k # {} /\ Max(1..k) = k /\ (1..k) \ {Max(1..k)} = 1..(k - 1)
    BY <2>1, MaxUpTo
  <2>3. h[1..k] = Draw(h[1..(k - 1)], order[k])
    BY <1>2, <2>1, <2>2 DEF DrawSteps
  <2>4. f[k] = h[1..k] /\ f[k - 1] = h[1..(k - 1)]
    BY <2>1
  <2> QED
    BY <2>3, <2>4
<1>5. f[n] = h[1..n]
  OBVIOUS
<1> QED
  BY <1>1, <1>3, <1>4, <1>5

\* The recursion of a fold that funds for each position
FundSteps(order, base, m, T, h) ==
    h = [s \in T |-> IF s = {} THEN base ELSE Fund(h[s \ {Max(s)}], order[Max(s)], m)]

LEMMA FundExist ==
    ASSUME NEW order, NEW base, NEW m, NEW n \in Nat
    PROVE  \E h : FundSteps(order, base, m, SUBSET (1..n), h)
<1> DEFINE Bad == {k \in Nat : ~ \E h : FundSteps(order, base, m, SUBSET (1..k), h)}
<1>1. SUFFICES ASSUME Bad # {} PROVE FALSE
  OBVIOUS
<1>2. PICK k \in Bad : \A j \in Bad : k <= j
  <2>1. Bad \subseteq Nat
    OBVIOUS
  <2> HIDE DEF Bad
  <2> QED
    BY <1>1, <2>1, LeastNumber
<1>3. CASE k = 0
  <2>1. SUBSET (1..0) = {{}}
    OBVIOUS
  <2>2. FundSteps(order, base, m, SUBSET (1..0), [s \in SUBSET (1..0) |-> base])
    BY <2>1 DEF FundSteps
  <2> QED
    BY <1>2, <1>3, <2>2
<1>4. CASE k # 0
  <2>7. k \in Nat \ {0} /\ k - 1 \in Nat /\ ~(k <= k - 1)
    BY <1>2, <1>4
  <2>1. k \in Nat \ {0} /\ k - 1 \in Nat /\ k - 1 \notin Bad
    BY <1>2, <2>7
  <2>2. PICK h : FundSteps(order, base, m, SUBSET (1..(k - 1)), h)
    BY <2>1
  <2> DEFINE f == [s \in SUBSET (1..k) |-> IF s = {} THEN base ELSE Fund(h[s \ {Max(s)}], order[Max(s)], m)]
  <2>3. SUBSET (1..(k - 1)) \subseteq SUBSET (1..k)
    BY <2>1
  <2>4. \A s \in SUBSET (1..(k - 1)) : f[s] = h[s]
    BY <2>2, <2>3 DEF FundSteps
  <2>5. \A s \in SUBSET (1..k) : s # {} => f[s \ {Max(s)}] = h[s \ {Max(s)}]
    <3> HIDE DEF f
    <3> QED
      BY <2>1, <2>4, WithoutMax
  <2>6. FundSteps(order, base, m, SUBSET (1..k), f)
    BY <2>5 DEF FundSteps
  <2> QED
    BY <1>2, <2>6
<1> QED
  BY <1>3, <1>4

FundAll(base, order, m) == FoldLeft(LAMBDA s, g : Fund(s, g, m), base, order)

LEMMA FundOneByOne ==
    ASSUME NEW n \in Nat, NEW order, DOMAIN order = 1..n, NEW base, NEW m
    PROVE  \E f : /\ f[0] = base
                  /\ \A k \in 1..n : f[k] = Fund(f[k - 1], order[k], m)
                  /\ f[n] = FundAll(base, order, m)
<1> DEFINE h == CHOOSE x : FundSteps(order, base, m, SUBSET (1..n), x)
           f == [k \in 0..n |-> h[1..k]]
<1>1. FundAll(base, order, m) = h[1..n]
  BY DEF FundAll, FoldLeft, MapThenFoldSet, FundSteps
<1>2. FundSteps(order, base, m, SUBSET (1..n), h)
  BY FundExist
<1> HIDE DEF h
<1>3. f[0] = base
  <2>1. 1..0 = {} /\ {} \in SUBSET (1..n)
    OBVIOUS
  <2>2. h[{}] = base
    BY <1>2, <2>1 DEF FundSteps
  <2> QED
    BY <2>1, <2>2
<1>4. ASSUME NEW k \in 1..n PROVE f[k] = Fund(f[k - 1], order[k], m)
  <2>1. 1..k \in SUBSET (1..n) /\ k \in Nat \ {0} /\ k \in 0..n /\ k - 1 \in 0..n
    OBVIOUS
  <2>2. 1..k # {} /\ Max(1..k) = k /\ (1..k) \ {Max(1..k)} = 1..(k - 1)
    BY <2>1, MaxUpTo
  <2>3. h[1..k] = Fund(h[1..(k - 1)], order[k], m)
    BY <1>2, <2>1, <2>2 DEF FundSteps
  <2>4. f[k] = h[1..k] /\ f[k - 1] = h[1..(k - 1)]
    BY <2>1
  <2> QED
    BY <2>3, <2>4
<1>5. f[n] = h[1..n]
  OBVIOUS
<1> QED
  BY <1>1, <1>3, <1>4, <1>5

-----------------------------------------------------------------------------
(* Drawing from the buckets *)

LEMMA SumUpdate ==
    ASSUME NEW S, IsFiniteSet(S), NEW f, \A x \in S : f[x] \in Int, NEW a \in S, NEW v \in Int,
           NEW h, h[a] = f[a] + v, \A x \in S \ {a} : h[x] = f[x]
    PROVE  SumFunctionOnSet(h, S) = SumFunctionOnSet(f, S) + v
<1>1. IsFiniteSet(S \ {a})
  BY FS_RemoveElement
<1>2. SumFunctionOnSet(f, S) = f[a] + SumFunctionOnSet(f, S \ {a})
  BY SumRemove
<1>3. SumFunctionOnSet(h, S) = h[a] + SumFunctionOnSet(h, S \ {a})
  <2>1. \A x \in S : h[x] \in Int
    <3>1. h[a] \in Int
      OBVIOUS
    <3> QED
      BY <3>1
  <2> QED
    BY <2>1, SumRemove
<1>4. SumFunctionOnSet(h, S \ {a}) = SumFunctionOnSet(f, S \ {a})
  <2>1. \A x \in S \ {a} : h[x] = f[x]
    OBVIOUS
  <2> QED
    BY <1>1, <2>1, SumSame
<1>5. SumFunctionOnSet(f, S \ {a}) \in Int
  BY <1>1, SumType
<1>6. h[a] = f[a] + v /\ f[a] \in Int
  OBVIOUS
<1> QED
  BY <1>2, <1>3, <1>4, <1>5, <1>6

LEMMA TakenSum ==
    ASSUME IsFiniteSet(Cats), NEW c \in Cats, NEW take \in Nat, NEW f \in [Cats -> Nat], NEW h,
           h[c] = f[c] + take, \A x \in Cats \ {c} : h[x] = f[x]
    PROVE  SumFunctionOnSet(h, Cats) = SumFunctionOnSet(f, Cats) + take
<1>1. \A x \in Cats : f[x] \in Int
  OBVIOUS
<1>2. take \in Int
  OBVIOUS
<1> QED
  BY <1>1, <1>2, SumUpdate

Draft(D) == [pool : [D -> Nat], left : Nat, sources : [Cats -> Nat]]

\* What k draws have left of pool and of the amount left
DrawnSoFar(d, D, pool, left, order, k) ==
    /\ d \in Draft(D)
    /\ \A c \in D : d.pool[c] + d.sources[c] = pool[c]
    /\ \A c \in Cats \ D : d.sources[c] = 0
    /\ d.left + SumFunctionOnSet(d.sources, Cats) = left
    /\ \A i \in 1..k : d.left > 0 /\ order[i] \in D => d.pool[order[i]] = 0

LEMMA DrawKeeps ==
    ASSUME GoalAssumption, NEW D \in SUBSET Cats, NEW pool \in [D -> Nat], NEW left \in Nat,
           NEW order, NEW k \in Nat \ {0}, NEW d,
           DrawnSoFar(d, D, pool, left, order, k - 1)
    PROVE  DrawnSoFar(Draw(d, order[k]), D, pool, left, order, k)
<1> DEFINE c == order[k]
<1>1. /\ d \in Draft(D) /\ d.pool \in [D -> Nat] /\ d.left \in Nat /\ d.sources \in [Cats -> Nat]
      /\ DOMAIN d.pool = D /\ IsFiniteSet(Cats)
  BY DEF DrawnSoFar, Draft, GoalAssumption
<1>2. \A i \in 1..k : i \in 1..(k - 1) \/ i = k
  OBVIOUS
<1>3. CASE c \notin D
  <2>1. Draw(d, c) = d
    BY <1>1, <1>3 DEF Draw
  <2>2. DrawnSoFar(d, D, pool, left, order, k)
    BY <1>2, <1>3 DEF DrawnSoFar
  <2> QED
    BY <2>1, <2>2
<1>4. CASE c \in D
  <2> HIDE DEF c
  <2>1. c \in Cats /\ d.pool[c] \in Nat /\ d.sources[c] \in Nat
    BY <1>1, <1>4
  <2>2. PICK take : take = Least(d.pool[c], d.left)
    OBVIOUS
  <2>3. take \in Nat /\ take <= d.pool[c] /\ take <= d.left /\ (take = d.pool[c] \/ take = d.left)
    BY <1>1, <2>1, <2>2, LeastFacts
  <2>4. PICK e : e = [pool |-> [d.pool EXCEPT ![c] = d.pool[c] - take], left |-> d.left - take,
                      sources |-> [d.sources EXCEPT ![c] = d.sources[c] + take]]
    OBVIOUS
  <2>5. Draw(d, c) = e
    BY <1>1, <1>4, <2>2, <2>4 DEF Draw
  <2>6. /\ e.pool = [d.pool EXCEPT ![c] = d.pool[c] - take]
        /\ e.left = d.left - take
        /\ e.sources = [d.sources EXCEPT ![c] = d.sources[c] + take]
    BY <2>4
  <2>7. /\ e.pool \in [D -> Nat] /\ e.left \in Nat /\ e.sources \in [Cats -> Nat]
    <3>1. d.pool[c] - take \in Nat /\ d.left - take \in Nat /\ d.sources[c] + take \in Nat
      BY <1>1, <2>1, <2>3
    <3>2. [d.pool EXCEPT ![c] = d.pool[c] - take] \in [D -> Nat]
      BY <1>1, <1>4, <3>1
    <3>3. [d.sources EXCEPT ![c] = d.sources[c] + take] \in [Cats -> Nat]
      BY <1>1, <2>1, <3>1
    <3> QED
      BY <2>6, <3>1, <3>2, <3>3
  <2>8. e \in Draft(D)
    BY <2>4, <2>6, <2>7 DEF Draft
  <2>9. ASSUME NEW x \in D PROVE e.pool[x] + e.sources[x] = pool[x]
    <3>1. d.pool[x] + d.sources[x] = pool[x] /\ d.pool[x] \in Nat /\ d.sources[x] \in Nat /\ x \in Cats
      BY <1>1 DEF DrawnSoFar
    <3>2. CASE x = c
      <4>1. e.pool[x] = d.pool[x] - take /\ e.sources[x] = d.sources[x] + take
        BY <1>1, <2>1, <2>6, <3>2
      <4> QED
        BY <4>1, <3>1, <2>3
    <3>3. CASE x # c
      <4>1. e.pool[x] = d.pool[x] /\ e.sources[x] = d.sources[x]
        BY <1>1, <2>6, <3>1, <3>3
      <4> QED
        BY <4>1, <3>1
    <3> QED
      BY <3>2, <3>3
  <2>10. \A x \in Cats \ D : e.sources[x] = 0
    BY <1>1, <1>4, <2>6 DEF DrawnSoFar
  <2>11. e.left + SumFunctionOnSet(e.sources, Cats) = left
    <3>1. \A x \in Cats : d.sources[x] \in Int
      <4>1. \A x \in Cats : d.sources[x] \in Nat
        BY <1>1
      <4> QED
        BY <4>1
    <3>2. SumFunctionOnSet(e.sources, Cats) = SumFunctionOnSet(d.sources, Cats) + take
      <4>1. e.sources[c] = d.sources[c] + take
        BY <1>1, <2>1, <2>6
      <4>2. \A x \in Cats \ {c} : e.sources[x] = d.sources[x]
        BY <1>1, <2>6
      <4>3. IsFiniteSet(Cats) /\ c \in Cats /\ take \in Nat /\ d.sources \in [Cats -> Nat]
        BY <1>1, <2>1, <2>3
      <4> QED
        BY <4>1, <4>2, <4>3, TakenSum
    <3>3. SumFunctionOnSet(d.sources, Cats) \in Int
      BY <1>1, <3>1, SumType
    <3>4. d.left + SumFunctionOnSet(d.sources, Cats) = left
      BY DEF DrawnSoFar
    <3> QED
      BY <3>2, <3>3, <3>4, <2>6, <2>3, <1>1
  <2>12. ASSUME NEW i \in 1..k, e.left > 0, order[i] \in D PROVE e.pool[order[i]] = 0
    <3>1. take # d.left /\ d.left > 0
      BY <2>12, <2>6, <2>3, <1>1
    <3>2. take = d.pool[c] /\ e.pool[c] = 0
      BY <3>1, <2>1, <2>3, <2>6, <1>1, <1>4
    <3>3. CASE order[i] = c
      BY <3>2, <3>3
    <3>4. CASE order[i] # c
      <4>1. i \in 1..(k - 1)
        BY <3>4, <1>2 DEF c
      <4>2. d.pool[order[i]] = 0
        BY <4>1, <3>1, <2>12 DEF DrawnSoFar
      <4> QED
        BY <4>2, <3>4, <2>6, <2>12, <1>1
    <3> QED
      BY <3>3, <3>4
  <2>13. DrawnSoFar(e, D, pool, left, order, k)
    BY <2>8, <2>9, <2>10, <2>11, <2>12 DEF DrawnSoFar
  <2> QED
    BY <2>5, <2>13 DEF c
<1> QED
  BY <1>3, <1>4

Drawing(pool, left, order) ==
    FoldLeft(Draw, [pool |-> pool, left |-> left, sources |-> [c \in Cats |-> 0]], order)

\* An order that visits every bucket
Covers(order, D) ==
    \E n \in Nat : DOMAIN order = 1..n /\ \A c \in D : \E i \in 1..n : order[i] = c

\* left was taken from pool, and d notes from where.
DrawnFrom(d, D, pool, left) ==
    /\ d \in Draft(D)
    /\ \A c \in D : d.pool[c] + d.sources[c] = pool[c]
    /\ \A c \in Cats \ D : d.sources[c] = 0
    /\ SumFunctionOnSet(d.sources, Cats) = left

\* Whatever the order, an amount that is there is drawn, from where it is.
LEMMA DrawnInFull ==
    ASSUME GoalAssumption, NEW D \in SUBSET Cats, NEW pool \in [D -> Nat], NEW left \in Nat,
           left <= SumFunctionOnSet(pool, D),
           NEW order, Covers(order, D), NEW d, d = Drawing(pool, left, order)
    PROVE  DrawnFrom(d, D, pool, left)
<1> DEFINE zero == [c \in Cats |-> 0]
           base == [pool |-> pool, left |-> left, sources |-> zero]
<1>1. IsFiniteSet(Cats) /\ IsFiniteSet(D) /\ IsFiniteSet(Cats \ D)
  <2>1. IsFiniteSet(Cats)
    BY DEF GoalAssumption
  <2> QED
    BY <2>1, FS_Subset
<1>11. PICK n \in Nat : DOMAIN order = 1..n /\ \A c \in D : \E i \in 1..n : order[i] = c
  BY DEF Covers
<1>2. PICK f : /\ f[0] = base
               /\ \A k \in 1..n : f[k] = Draw(f[k - 1], order[k])
               /\ f[n] = FoldLeft(Draw, base, order)
  <2> HIDE DEF base
  <2> QED
    BY <1>11, DrawOneByOne
<1>3. DrawnSoFar(f[0], D, pool, left, order, 0)
  <2>1. base \in Draft(D) /\ base.pool = pool /\ base.left = left /\ base.sources = zero
    BY DEF Draft
  <2>2. SumFunctionOnSet(zero, Cats) = 0
    BY <1>1, SumZero
  <2> HIDE DEF base
  <2>3. \A c \in D : pool[c] + zero[c] = pool[c]
    OBVIOUS
  <2>4. \A c \in Cats : zero[c] = 0
    OBVIOUS
  <2> HIDE DEF zero
  <2> QED
    BY <1>2, <2>1, <2>2, <2>3, <2>4 DEF DrawnSoFar
<1> HIDE DEF base
<1> DEFINE Bad == {k \in 0..n : ~DrawnSoFar(f[k], D, pool, left, order, k)}
<1>4. ASSUME Bad # {} PROVE FALSE
  <2>1. PICK k \in Bad : \A j \in Bad : k <= j
    <3>1. Bad \subseteq Nat
      OBVIOUS
    <3> HIDE DEF Bad
    <3> QED
      BY <1>4, <3>1, LeastNumber
  <2>2. k \in 0..n /\ k # 0
    BY <1>3
  <2>3. k \in Nat \ {0} /\ k \in 1..n /\ k - 1 \in 0..n /\ ~(k <= k - 1)
    BY <2>2
  <2>4. k - 1 \notin Bad
    BY <2>1, <2>3
  <2>5. DrawnSoFar(f[k - 1], D, pool, left, order, k - 1)
    BY <2>3, <2>4
  <2>7. DrawnSoFar(Draw(f[k - 1], order[k]), D, pool, left, order, k)
    BY <2>3, <2>5, DrawKeeps
  <2>6. DrawnSoFar(f[k], D, pool, left, order, k)
    BY <2>3, <2>7, <1>2
  <2> QED
    BY <2>1, <2>6
<1>5. DrawnSoFar(f[n], D, pool, left, order, n)
  BY <1>4
<1>6. d = f[n]
  BY <1>2 DEF Drawing, base, zero
<1>7. /\ d \in Draft(D) /\ d.pool \in [D -> Nat] /\ d.left \in Nat /\ d.sources \in [Cats -> Nat]
      /\ \A c \in D : d.pool[c] + d.sources[c] = pool[c]
      /\ \A c \in Cats \ D : d.sources[c] = 0
      /\ d.left + SumFunctionOnSet(d.sources, Cats) = left
      /\ \A i \in 1..n : d.left > 0 /\ order[i] \in D => d.pool[order[i]] = 0
  BY <1>5, <1>6 DEF DrawnSoFar, Draft
<1>8. \A c \in Cats : d.sources[c] \in Nat /\ d.sources[c] \in Int
  <2>1. d.sources \in [Cats -> Nat]
    BY <1>7
  <2>2. \A c \in Cats : d.sources[c] \in Nat
    BY <2>1
  <2> QED
    BY <2>2
<1>9. SumFunctionOnSet(d.sources, Cats) \in Nat
  BY <1>1, <1>8, SumType
<1>10. d.left = 0
  <2>1. SUFFICES ASSUME d.left > 0 PROVE FALSE
    BY <1>7
  <2>2. \A c \in D : d.sources[c] = pool[c]
    BY <1>7, <1>11, <2>1
  <2>3. SumFunctionOnSet(d.sources, D) = SumFunctionOnSet(pool, D)
    BY <1>1, <2>2, SumSame
  <2>4. SumFunctionOnSet(d.sources, Cats \ D) = 0
    BY <1>1, <1>7, SumZero
  <2>5. SumFunctionOnSet(d.sources, Cats) = SumFunctionOnSet(d.sources, D) + SumFunctionOnSet(d.sources, Cats \ D)
    BY <1>1, <1>8, SumSplit
  <2>6. SumFunctionOnSet(pool, D) \in Nat
    BY <1>1, SumType
  <2> QED
    BY <2>1, <2>3, <2>4, <2>5, <2>6, <1>7
<1>12. SumFunctionOnSet(d.sources, Cats) = left
  <2>1. d.left + SumFunctionOnSet(d.sources, Cats) = left
    BY <1>7
  <2> QED
    BY <2>1, <1>9, <1>10
<1>13. /\ d \in Draft(D) /\ \A c \in Cats \ D : d.sources[c] = 0
       /\ \A c \in D : d.pool[c] + d.sources[c] = pool[c]
  BY <1>7
<1> QED
  BY <1>12, <1>13 DEF DrawnFrom

-----------------------------------------------------------------------------
(* What one goal gets *)

Row == [planned : Nat, actual : Nat, sources : [Cats -> Nat], applied : {TRUE}]
RowsOfGoal == [Months -> Row \cup {NoRow}]
Ledgers == [GoalIds -> RowsOfGoal]

Owing(g, books, m) == Remaining(plan[g], ContributedOther(books, m))
PlannedFor(g, books, m) == PlannedOf(books[m], plan[g].monthly, Owing(g, books, m))
Basis(g, books, m) == IF books[m] = NoRow THEN plan[g].monthly ELSE PlannedFor(g, books, m)
Share(g, books, m, pool) == Least(Least(Basis(g, books, m), PoolLeft(pool)), Owing(g, books, m))
OrderFor(g, order) == IF plan[g].linked = NoCat THEN order ELSE <<plan[g].linked>> \o order
DrawnFor(g, books, m, pool, order) == Drawing(pool, Share(g, books, m, pool), OrderFor(g, order))

FundedRow(g, books, m, pool, order) ==
    [planned |-> PlannedFor(g, books, m), actual |-> Share(g, books, m, pool),
     sources |-> DrawnFor(g, books, m, pool, order).sources, applied |-> TRUE]

FundedStatus(g, books, m, pool, old) ==
    StatusAfterClose(plan[g], ContributedOther(books, m) + Share(g, books, m, pool), old)

LEMMA RowOrNot ==
    ASSUME NEW row \in Row \cup {NoRow}
    PROVE  /\ row.actual \in Nat /\ row.planned \in Nat
           /\ row # NoRow <=> row \in Row
           /\ row # NoRow => row.applied /\ row.sources \in [Cats -> Nat]
<1>1. CASE row \in Row
  <2>1. /\ row.actual \in Nat /\ row.planned \in Nat /\ row.applied
        /\ row.sources \in [Cats -> Nat]
    BY <1>1 DEF Row
  <2>2. row # NoRow
    BY <2>1 DEF NoRow
  <2> QED
    BY <1>1, <2>1, <2>2
<1>2. CASE row = NoRow
  <2>1. row.actual = 0 /\ row.planned = 0 /\ row.applied = FALSE
    BY <1>2 DEF NoRow
  <2>2. row \notin Row
    BY <2>1 DEF Row
  <2> QED
    BY <1>2, <2>1, <2>2
<1> QED
  BY <1>1, <1>2

LEMMA MonthsFinite == ASSUME GoalAssumption PROVE IsFiniteSet(Months)
<1>1. 1 \in Int /\ Today \in Int
  BY DEF GoalAssumption
<1>2. IsFiniteSet(1..Today)
  BY <1>1, FS_Interval
<1> QED
  BY <1>2 DEF Months

LEMMA GivenFacts ==
    ASSUME GoalAssumption, NEW books \in RowsOfGoal, NEW m \in Months
    PROVE  /\ ContributedOther(books, m) \in Nat
           /\ SumFunctionOnSet(Given(books), Months) = books[m].actual + ContributedOther(books, m)
           /\ books[m].actual \in Nat
           /\ IsFiniteSet(Months)
           /\ \A k \in Months : Given(books)[k] \in Nat /\ Given(books)[k] \in Int
<1>1. \A k \in Months : Given(books)[k] = books[k].actual /\ books[k].actual \in Nat
  BY RowOrNot DEF RowsOfGoal, Given
<1>2. IsFiniteSet(Months)
  BY MonthsFinite
<1>3. IsFiniteSet(Months \ {m})
  BY <1>2, FS_RemoveElement
<1>4. \A k \in Months : Given(books)[k] \in Nat /\ Given(books)[k] \in Int
  BY <1>1
<1>5. SumFunctionOnSet(Given(books), Months \ {m}) \in Nat
  BY <1>3, <1>4, SumType
<1>6. SumFunctionOnSet(Given(books), Months) = Given(books)[m] + SumFunctionOnSet(Given(books), Months \ {m})
  BY <1>2, <1>4, SumRemove
<1> QED
  BY <1>1, <1>2, <1>4, <1>5, <1>6 DEF ContributedOther

\* The other months do not see the month's own row.
LEMMA OtherSame ==
    ASSUME GoalAssumption, NEW m \in Months, NEW books, NEW books2,
           \A k \in Months \ {m} : books2[k] = books[k]
    PROVE  ContributedOther(books2, m) = ContributedOther(books, m)
<1>1. IsFiniteSet(Months)
  BY MonthsFinite
<1>2. IsFiniteSet(Months \ {m})
  BY <1>1, FS_RemoveElement
<1>3. \A k \in Months \ {m} : Given(books2)[k] = Given(books)[k]
  BY DEF Given
<1> QED
  BY <1>2, <1>3, SumSame DEF ContributedOther

LEMMA ShareFacts ==
    ASSUME GoalAssumption, NEW g, plan[g] \in Plan, NEW books \in RowsOfGoal, NEW m \in Months,
           NEW D \in SUBSET Cats, NEW pool \in [D -> Nat]
    PROVE  /\ PoolLeft(pool) \in Nat
           /\ Owing(g, books, m) \in Nat /\ plan[g].monthly \in Nat /\ plan[g].target \in Nat
           /\ ContributedOther(books, m) \in Nat
           /\ Owing(g, books, m) = IF plan[g].target <= ContributedOther(books, m) THEN 0
                                  ELSE plan[g].target - ContributedOther(books, m)
           /\ PlannedFor(g, books, m) \in Nat
           /\ Share(g, books, m, pool) \in Nat
           /\ Share(g, books, m, pool) <= PoolLeft(pool)
           /\ Share(g, books, m, pool) <= Owing(g, books, m)
<1>1. IsFiniteSet(Cats) /\ IsFiniteSet(D) /\ DOMAIN pool = D /\ \A c \in D : pool[c] \in Nat
  <2>1. IsFiniteSet(Cats)
    BY DEF GoalAssumption
  <2> QED
    BY <2>1, FS_Subset
<1>2. PoolLeft(pool) \in Nat
  BY <1>1, SumType DEF PoolLeft
<1>3. plan[g].monthly \in Nat /\ plan[g].target \in Nat
  BY DEF Plan
<1>4. ContributedOther(books, m) \in Nat
  BY GivenFacts
<1>5. Owing(g, books, m) = IF plan[g].target <= ContributedOther(books, m) THEN 0
                          ELSE plan[g].target - ContributedOther(books, m)
  BY DEF Owing, Remaining, Minus
<1>6. Owing(g, books, m) \in Nat
  BY <1>3, <1>4, <1>5
<1>7. books[m].planned \in Nat
  BY RowOrNot DEF RowsOfGoal
<1>8. PlannedFor(g, books, m) \in Nat
  BY <1>3, <1>6, <1>7, LeastFacts DEF PlannedFor, PlannedOf
<1>9. Basis(g, books, m) \in Nat
  BY <1>3, <1>8 DEF Basis
<1>10. /\ Least(Basis(g, books, m), PoolLeft(pool)) \in Nat
       /\ Least(Basis(g, books, m), PoolLeft(pool)) <= PoolLeft(pool)
  BY <1>2, <1>9, LeastFacts
<1>11. /\ Share(g, books, m, pool) \in Nat
       /\ Share(g, books, m, pool) <= Least(Basis(g, books, m), PoolLeft(pool))
       /\ Share(g, books, m, pool) <= Owing(g, books, m)
  BY <1>6, <1>10, LeastFacts DEF Share
<1> QED
  BY <1>2, <1>3, <1>4, <1>5, <1>6, <1>8, <1>10, <1>11

LEMMA OrderForCovers ==
    ASSUME GoalAssumption, NEW g, plan[g] \in Plan, NEW D \in SUBSET Cats,
           NEW order \in Seq(D), Lists(order, D)
    PROVE  Covers(OrderFor(g, order), D)
<1>1. DOMAIN order = 1..Len(order) /\ Len(order) \in Nat
  OBVIOUS
<1>2. \A c \in D : \E i \in 1..Len(order) : order[i] = c
  BY <1>1 DEF Lists
<1>3. CASE plan[g].linked = NoCat
  BY <1>1, <1>2, <1>3 DEF OrderFor, Covers
<1>4. CASE plan[g].linked # NoCat
  <2>1. plan[g].linked \in Nat /\ order \in Seq(Nat)
    <3>1. D \subseteq Nat
      BY DEF GoalAssumption
    <3>2. order \in Seq(Nat)
      <4>1. \A i \in 1..Len(order) : order[i] \in Nat
        BY <1>1, <3>1 DEF Lists
      <4> QED
        BY <4>1
    <3>3. plan[g].linked \in Nat
      BY DEF Plan
    <3> QED
      BY <3>2, <3>3
  <2> DEFINE first == <<plan[g].linked>>
             all == first \o order
  <2>2. first \in Seq(Nat) /\ Len(first) = 1
    BY <2>1
  <2> HIDE DEF first
  <2>3. all \in Seq(Nat) /\ Len(all) = 1 + Len(order)
    BY <2>1, <2>2, ConcatProperties
  <2>4. \A i \in 1..Len(order) : all[i + 1] = order[i]
    <3>1. \A j \in 1..(1 + Len(order)) : all[j] = IF j <= 1 THEN first[j] ELSE order[j - 1]
      <4>1. \A j \in 1..(Len(first) + Len(order)) :
              (first \o order)[j] = IF j <= Len(first) THEN first[j] ELSE order[j - Len(first)]
        BY <2>1, <2>2, ConcatProperties
      <4> QED
        BY <4>1, <2>2
    <3> HIDE DEF all
    <3> QED
      BY <3>1, <1>1
  <2>5. OrderFor(g, order) = all
    BY <1>4 DEF OrderFor, first
  <2> HIDE DEF all
  <2>6. DOMAIN all = 1..(1 + Len(order)) /\ 1 + Len(order) \in Nat
    BY <2>3, <1>1
  <2>7. ASSUME NEW c \in D PROVE \E i \in 1..(1 + Len(order)) : all[i] = c
    <3>1. PICK i \in 1..Len(order) : order[i] = c
      BY <1>2
    <3>2. i + 1 \in 1..(1 + Len(order)) /\ all[i + 1] = c
      BY <3>1, <2>4, <1>1
    <3> QED
      BY <3>2
  <2> QED
    BY <2>5, <2>6, <2>7 DEF Covers
<1> QED
  BY <1>3, <1>4

\* A row accounts for what it took.
LEMMA FundedRowFacts ==
    ASSUME GoalAssumption, NEW g, plan[g] \in Plan, NEW books \in RowsOfGoal, NEW m \in Months,
           NEW D \in SUBSET Cats, NEW pool \in [D -> Nat], NEW order \in Seq(D), Lists(order, D)
    PROVE  LET row == FundedRow(g, books, m, pool, order)
               left == DrawnFor(g, books, m, pool, order).pool
           IN  /\ row \in Row
               /\ left \in [D -> Nat]
               /\ \A c \in D : left[c] + row.sources[c] = pool[c]
               /\ \A c \in Cats \ D : row.sources[c] = 0
               /\ row.actual = SumFunctionOnSet(row.sources, Cats)
               /\ row.actual = Share(g, books, m, pool)
               /\ row.planned = PlannedFor(g, books, m)
<1> DEFINE share == Share(g, books, m, pool)
           all == OrderFor(g, order)
           d == DrawnFor(g, books, m, pool, order)
<1>1. Covers(all, D)
  BY OrderForCovers
<1>2. share \in Nat /\ share <= PoolLeft(pool) /\ PlannedFor(g, books, m) \in Nat
  BY ShareFacts
<1>3. PoolLeft(pool) = SumFunctionOnSet(pool, D)
  BY DEF PoolLeft
<1>4. d = Drawing(pool, share, all)
  BY DEF DrawnFor
<1> HIDE DEF d, all, share
<1>5. DrawnFrom(d, D, pool, share)
  <2>1. share <= SumFunctionOnSet(pool, D)
    BY <1>2, <1>3
  <2>2. share \in Nat
    BY <1>2
  <2> QED
    BY <1>1, <1>4, <2>1, <2>2, DrawnInFull
<1>6. d.pool \in [D -> Nat] /\ d.sources \in [Cats -> Nat]
  BY <1>5 DEF Draft, DrawnFrom
<1> DEFINE row == FundedRow(g, books, m, pool, order)
<1>7. /\ row = [planned |-> PlannedFor(g, books, m), actual |-> share, sources |-> d.sources, applied |-> TRUE]
  BY DEF FundedRow, d, share
<1>8. row.planned = PlannedFor(g, books, m) /\ row.actual = share /\ row.sources = d.sources
  BY <1>7
<1>9. row \in Row
  BY <1>2, <1>6, <1>7 DEF Row
<1> HIDE DEF row
<1> QED
  BY <1>5, <1>6, <1>8, <1>9 DEF row, d, share, DrawnFrom

\* A row that is funded again from the same buckets is the same.
LEMMA FundedAgain ==
    ASSUME GoalAssumption, NEW g, plan[g] \in Plan, NEW books \in RowsOfGoal, NEW m \in Months,
           NEW D \in SUBSET Cats, NEW pool \in [D -> Nat], NEW order \in Seq(D), Lists(order, D),
           NEW books2, books2[m] = FundedRow(g, books, m, pool, order),
           \A k \in Months \ {m} : books2[k] = books[k]
    PROVE  /\ ContributedOther(books2, m) = ContributedOther(books, m)
           /\ Share(g, books2, m, pool) = Share(g, books, m, pool)
           /\ DrawnFor(g, books2, m, pool, order) = DrawnFor(g, books, m, pool, order)
           /\ FundedRow(g, books2, m, pool, order) = FundedRow(g, books, m, pool, order)
<1>1. ContributedOther(books2, m) = ContributedOther(books, m)
  BY OtherSame
<1>2. Owing(g, books2, m) = Owing(g, books, m)
  BY <1>1 DEF Owing
<1>3. books2[m] \in Row /\ books2[m].planned = PlannedFor(g, books, m)
  BY FundedRowFacts
<1>4. books2[m] # NoRow
  BY <1>3, RowOrNot
<1>5. PlannedFor(g, books2, m) = PlannedFor(g, books, m)
  BY <1>3, <1>4 DEF PlannedFor, PlannedOf
<1>6. /\ PoolLeft(pool) \in Nat /\ Owing(g, books, m) \in Nat /\ plan[g].monthly \in Nat
      /\ PlannedFor(g, books, m) \in Nat
  BY ShareFacts
<1>7. Basis(g, books2, m) = PlannedFor(g, books, m)
  BY <1>4, <1>5 DEF Basis
<1>8. ASSUME books[m] = NoRow PROVE Share(g, books2, m, pool) = Share(g, books, m, pool)
  <2>1. Basis(g, books, m) = plan[g].monthly /\ PlannedFor(g, books, m) = Least(plan[g].monthly, Owing(g, books, m))
    BY <1>8 DEF Basis, PlannedFor, PlannedOf
  <2> QED
    BY <2>1, <1>2, <1>6, <1>7 DEF Share, Least
<1>9. ASSUME books[m] # NoRow PROVE Share(g, books2, m, pool) = Share(g, books, m, pool)
  <2>1. Basis(g, books, m) = PlannedFor(g, books, m)
    BY <1>9 DEF Basis
  <2> QED
    BY <2>1, <1>2, <1>7 DEF Share
<1>10. Share(g, books2, m, pool) = Share(g, books, m, pool)
  BY <1>8, <1>9
<1>11. DrawnFor(g, books2, m, pool, order) = DrawnFor(g, books, m, pool, order)
  BY <1>10 DEF DrawnFor
<1> QED
  BY <1>1, <1>5, <1>10, <1>11 DEF FundedRow

-----------------------------------------------------------------------------
(* What a close does *)

Progress(D) == [pool : [D -> Nat], order : Seq(D), ledger : Ledgers, status : [GoalIds -> Statuses]]

\* r is s after the share of g.
FundsOne(s, g, m, r) ==
    /\ r.order = s.order
    /\ r.pool = DrawnFor(g, s.ledger[g], m, s.pool, s.order).pool
    /\ r.ledger[g][m] = FundedRow(g, s.ledger[g], m, s.pool, s.order)
    /\ r.status[g] = FundedStatus(g, s.ledger[g], m, s.pool, s.status[g])
    /\ \A k \in Months \ {m} : r.ledger[g][k] = s.ledger[g][k]
    /\ \A h \in GoalIds \ {g} : r.ledger[h] = s.ledger[h] /\ r.status[h] = s.status[h]

LEMMA FundFacts ==
    ASSUME GoalAssumption, NEW g \in GoalIds, plan[g] \in Plan, NEW m \in Months,
           NEW D \in SUBSET Cats, NEW s \in Progress(D), Lists(s.order, D)
    PROVE  Fund(s, g, m) \in Progress(D) /\ FundsOne(s, g, m, Fund(s, g, m))
<1>1. /\ s.pool \in [D -> Nat] /\ s.order \in Seq(D) /\ s.ledger \in Ledgers
      /\ s.status \in [GoalIds -> Statuses]
  BY DEF Progress
<1>2. s.ledger[g] \in RowsOfGoal
  BY <1>1 DEF Ledgers
<1>3. PICK row : row = FundedRow(g, s.ledger[g], m, s.pool, s.order)
  OBVIOUS
<1>4. PICK pool : pool = DrawnFor(g, s.ledger[g], m, s.pool, s.order).pool
  OBVIOUS
<1>5. PICK state : state = FundedStatus(g, s.ledger[g], m, s.pool, s.status[g])
  OBVIOUS
<1>6. row \in Row /\ pool \in [D -> Nat]
  <2>1. PICK order, bins, books : order = s.order /\ bins = s.pool /\ books = s.ledger[g]
    OBVIOUS
  <2>2. order \in Seq(D) /\ Lists(order, D) /\ bins \in [D -> Nat] /\ books \in RowsOfGoal
    BY <2>1, <1>1, <1>2
  <2>3. FundedRow(g, books, m, bins, order) \in Row /\ DrawnFor(g, books, m, bins, order).pool \in [D -> Nat]
    BY <2>2, FundedRowFacts
  <2> QED
    BY <2>1, <2>3, <1>3, <1>4
<1>7. state \in Statuses
  <2>1. s.status[g] \in Statuses
    BY <1>1
  <2> QED
    BY <2>1, <1>5 DEF FundedStatus, StatusAfterClose, Statuses
<1> DEFINE r == [s EXCEPT !.pool = pool, !.ledger = [s.ledger EXCEPT ![g][m] = row],
                          !.status = [s.status EXCEPT ![g] = state]]
<1>8. Fund(s, g, m) = r
  BY <1>3, <1>4, <1>5 DEF Fund, FundedRow, DrawnFor, FundedStatus, Drawing, Share, OrderFor,
     Owing, PlannedFor, Basis
<1>9. r.pool = pool /\ r.order = s.order /\ r.ledger = [s.ledger EXCEPT ![g][m] = row]
      /\ r.status = [s.status EXCEPT ![g] = state]
  BY DEF Progress
<1>10. r.ledger \in Ledgers /\ r.status \in [GoalIds -> Statuses]
  <2>1. [s.ledger EXCEPT ![g][m] = row] \in Ledgers
    BY <1>1, <1>6 DEF Ledgers, RowsOfGoal
  <2>2. [s.status EXCEPT ![g] = state] \in [GoalIds -> Statuses]
    BY <1>1, <1>7
  <2> QED
    BY <2>1, <2>2, <1>9
<1>11. r \in Progress(D)
  BY <1>1, <1>6, <1>9, <1>10 DEF Progress
<1> HIDE DEF r
<1>12. /\ r.ledger[g][m] = row /\ r.status[g] = state
       /\ \A k \in Months \ {m} : r.ledger[g][k] = s.ledger[g][k]
       /\ \A h \in GoalIds \ {g} : r.ledger[h] = s.ledger[h] /\ r.status[h] = s.status[h]
  BY <1>1, <1>2, <1>9 DEF Ledgers, RowsOfGoal
<1>13. FundsOne(s, g, m, r)
  BY <1>3, <1>4, <1>5, <1>9, <1>12 DEF FundsOne
<1> QED
  BY <1>8, <1>11, <1>13

Goers(m, books, states) == {g \in GoalIds : ParticipatesGiven(g, m, books, states)}

\* The i-th goal is funded from what the goals before it left, pools[i - 1].
Funding(m, books, states, pools, r) ==
    LET D == DOMAIN Underspend(m)
        goals == Goers(m, books, states)
        order == PoolOrder(Underspend(m))
        n == Cardinality(goals)
    IN  /\ r.ledger \in Ledgers /\ r.status \in [GoalIds -> Statuses]
        /\ pools \in [0..n -> [D -> Nat]] /\ pools[0] = Underspend(m)
        /\ \A i \in 1..n :
             LET g == ByPriority(goals)[i]
             IN  /\ r.ledger[g][m] = FundedRow(g, books[g], m, pools[i - 1], order)
                 /\ r.status[g] = FundedStatus(g, books[g], m, pools[i - 1], states[g])
                 /\ pools[i] = DrawnFor(g, books[g], m, pools[i - 1], order).pool
        /\ \A g \in GoalIds, k \in Months \ {m} : r.ledger[g][k] = books[g][k]
        /\ \A g \in GoalIds \ goals : r.ledger[g] = books[g] /\ r.status[g] = states[g]

BudgetType ==
    /\ DOMAIN budget = Cats
    /\ \A c \in Cats : DOMAIN budget[c] \subseteq Months \cup {Default}
    /\ \A c \in Cats : \A p \in DOMAIN budget[c] : budget[c][p] \in Nat

LEMMA UnderspendFacts ==
    ASSUME GoalAssumption, BudgetType, spent \in [Months -> [Cats -> Nat]], NEW m \in Months
    PROVE  /\ DOMAIN Underspend(m) \in SUBSET Cats
           /\ Underspend(m) \in [DOMAIN Underspend(m) -> Nat]
           /\ IsFiniteSet(DOMAIN Underspend(m))
           /\ \A c \in Cats : Minus(Budgeted(c, m), spent[m][c]) =
                                IF c \in DOMAIN Underspend(m) THEN Underspend(m)[c] ELSE 0
<1>1. \A c \in Cats : Budgeted(c, m) \in Nat /\ spent[m][c] \in Nat
  BY DEF Budgeted, BudgetType
<1>2. \A c \in Cats : Minus(Budgeted(c, m), spent[m][c]) \in Nat
  BY <1>1, MinusFacts
<1> DEFINE left(c) == Minus(Budgeted(c, m), spent[m][c])
           D == {c \in Cats : left(c) > 0}
<1>3. Underspend(m) = [c \in D |-> left(c)]
  BY DEF Underspend
<1>4. DOMAIN Underspend(m) = D /\ \A c \in D : Underspend(m)[c] = left(c)
  BY <1>3
<1>5. D \in SUBSET Cats /\ IsFiniteSet(D)
  <2>1. D \in SUBSET Cats /\ IsFiniteSet(Cats)
    BY DEF GoalAssumption
  <2> HIDE DEF D
  <2> QED
    BY <2>1, FS_Subset
<1>6. Underspend(m) \in [D -> Nat]
  BY <1>2, <1>3
<1> QED
  BY <1>2, <1>4, <1>5, <1>6

\* After k goals: those are funded, and nothing else has changed.
FundedSoFar(f, k, m, books, states, goals, order, D) ==
    /\ f[k] \in Progress(D) /\ f[k].order = order
    /\ \A i \in 1..k :
         /\ f[k].ledger[goals[i]][m] = FundedRow(goals[i], books[goals[i]], m, f[i - 1].pool, order)
         /\ f[k].status[goals[i]] =
              FundedStatus(goals[i], books[goals[i]], m, f[i - 1].pool, states[goals[i]])
         /\ f[i].pool = DrawnFor(goals[i], books[goals[i]], m, f[i - 1].pool, order).pool
    /\ \A g \in GoalIds, j \in Months \ {m} : f[k].ledger[g][j] = books[g][j]
    /\ \A g \in GoalIds : (\A i \in 1..k : goals[i] # g) =>
         f[k].ledger[g] = books[g] /\ f[k].status[g] = states[g]

LEMMA FundKeeps ==
    ASSUME GoalAssumption, NEW m \in Months, NEW D \in SUBSET Cats, NEW f,
           NEW books \in Ledgers, NEW states, NEW order, Lists(order, D),
           NEW n \in Nat, NEW goals, NEW k \in 1..n,
           \A i \in 1..n : goals[i] \in GoalIds /\ plan[goals[i]] \in Plan,
           \A i, j \in 1..n : i # j => goals[i] # goals[j],
           f[k] = Fund(f[k - 1], goals[k], m),
           FundedSoFar(f, k - 1, m, books, states, goals, order, D)
    PROVE  FundedSoFar(f, k, m, books, states, goals, order, D)
<1> DEFINE s == f[k - 1]
           r == f[k]
           g == goals[k]
<1>1. k \in Nat \ {0} /\ k - 1 \in Nat /\ \A i \in 1..k : i \in 1..n /\ (i = k \/ i \in 1..(k - 1))
  OBVIOUS
<1>2. \A i \in 1..(k - 1) : i \in 1..k /\ i \in 1..n /\ goals[i] # g /\ goals[i] \in GoalIds \ {g}
  BY <1>1
<1>3. g \in GoalIds /\ plan[g] \in Plan
  OBVIOUS
<1>4. s \in Progress(D) /\ s.order = order
  BY DEF FundedSoFar
<1>5. r \in Progress(D) /\ FundsOne(s, g, m, r)
  <2>1. r = Fund(s, g, m) /\ Lists(s.order, D)
    BY <1>4
  <2> HIDE DEF s, r, g
  <2>2. Fund(s, g, m) \in Progress(D) /\ FundsOne(s, g, m, Fund(s, g, m))
    BY <1>3, <1>4, <2>1, FundFacts
  <2> QED
    BY <2>1, <2>2
<1>6. s.ledger[g] = books[g] /\ s.status[g] = states[g]
  BY <1>2, <1>3 DEF FundedSoFar
<1>7. /\ r.order = order
      /\ r.ledger[g][m] = FundedRow(g, books[g], m, s.pool, order)
      /\ r.status[g] = FundedStatus(g, books[g], m, s.pool, states[g])
      /\ r.pool = DrawnFor(g, books[g], m, s.pool, order).pool
      /\ \A j \in Months \ {m} : r.ledger[g][j] = s.ledger[g][j]
      /\ \A h \in GoalIds \ {g} : r.ledger[h] = s.ledger[h] /\ r.status[h] = s.status[h]
  BY <1>4, <1>5, <1>6 DEF FundsOne
<1>8. ASSUME NEW i \in 1..k
      PROVE  /\ r.ledger[goals[i]][m] = FundedRow(goals[i], books[goals[i]], m, f[i - 1].pool, order)
             /\ r.status[goals[i]] =
                  FundedStatus(goals[i], books[goals[i]], m, f[i - 1].pool, states[goals[i]])
             /\ f[i].pool = DrawnFor(goals[i], books[goals[i]], m, f[i - 1].pool, order).pool
  <2>1. CASE i = k
    BY <2>1, <1>7
  <2>2. CASE i # k
    <3>1. i \in 1..(k - 1)
      BY <2>2, <1>1
    <3>2. /\ s.ledger[goals[i]][m] = FundedRow(goals[i], books[goals[i]], m, f[i - 1].pool, order)
          /\ s.status[goals[i]] =
               FundedStatus(goals[i], books[goals[i]], m, f[i - 1].pool, states[goals[i]])
          /\ f[i].pool = DrawnFor(goals[i], books[goals[i]], m, f[i - 1].pool, order).pool
      BY <3>1 DEF FundedSoFar
    <3>3. r.ledger[goals[i]] = s.ledger[goals[i]] /\ r.status[goals[i]] = s.status[goals[i]]
      BY <3>1, <1>2, <1>7
    <3> QED
      BY <3>2, <3>3
  <2> QED
    BY <2>1, <2>2
<1>9. ASSUME NEW h \in GoalIds, NEW j \in Months \ {m} PROVE r.ledger[h][j] = books[h][j]
  <2>1. s.ledger[h][j] = books[h][j]
    BY DEF FundedSoFar
  <2>2. CASE h = g
    BY <2>1, <2>2, <1>7
  <2>3. CASE h # g
    BY <2>1, <2>3, <1>7
  <2> QED
    BY <2>2, <2>3
<1>10. ASSUME NEW h \in GoalIds, \A i \in 1..k : goals[i] # h
       PROVE  r.ledger[h] = books[h] /\ r.status[h] = states[h]
  <2>1. h # g /\ \A i \in 1..(k - 1) : goals[i] # h
    BY <1>10, <1>1, <1>2
  <2>2. s.ledger[h] = books[h] /\ s.status[h] = states[h]
    BY <2>1 DEF FundedSoFar
  <2> QED
    BY <2>1, <2>2, <1>7
<1> QED
  BY <1>5, <1>7, <1>8, <1>9, <1>10 DEF FundedSoFar

PlanType == plan \in [GoalIds -> Plan \cup {NoPlan}]

LEMMA GoersFacts ==
    ASSUME GoalAssumption, PlanType, NEW m, NEW books, NEW states
    PROVE  LET goals == Goers(m, books, states)
           IN  /\ goals \in SUBSET GoalIds
               /\ \A g \in goals : plan[g] \in Plan
               /\ Lists(ByPriority(goals), goals)
               /\ Cardinality(goals) \in Nat
<1> DEFINE goals == Goers(m, books, states)
<1>1. goals \in SUBSET GoalIds /\ \A g \in goals : plan[g] \in Plan
  BY DEF Goers, ParticipatesGiven, Exists, PlanType
<1> HIDE DEF goals
<1>2. Lists(ByPriority(goals), goals) /\ Cardinality(goals) \in Nat
  BY <1>1, PriorityLists
<1> QED
  BY <1>1, <1>2 DEF goals

LEMMA CloseFunds ==
    ASSUME GoalAssumption, PlanType, BudgetType, spent \in [Months -> [Cats -> Nat]],
           NEW m \in Months, NEW books \in Ledgers, NEW states \in [GoalIds -> Statuses]
    PROVE  \E pools : Funding(m, books, states, pools, close_month(m, books, states))
<1> DEFINE U == Underspend(m)
           D == DOMAIN U
           set == Goers(m, books, states)
           n == Cardinality(set)
           goals == ByPriority(set)
           order == PoolOrder(U)
           base == [pool |-> U, order |-> order, ledger |-> books, status |-> states]
<1>1. /\ D \in SUBSET Cats /\ U \in [D -> Nat] /\ IsFiniteSet(D)
  BY UnderspendFacts
<1>2. /\ set \in SUBSET GoalIds /\ \A g \in set : plan[g] \in Plan
      /\ Lists(goals, set) /\ n \in Nat
  BY GoersFacts
<1>3. Lists(order, D) /\ order \in Seq(D)
  <2>1. D \subseteq Nat
    BY <1>1 DEF GoalAssumption
  <2> HIDE DEF U
  <2> QED
    BY <1>1, <2>1, PoolOrderLists
<1>4. close_month(m, books, states) = FundAll(base, goals, m)
  BY DEF close_month, Goers, FundAll
<1>5. /\ DOMAIN goals = 1..n
      /\ \A i \in 1..n : goals[i] \in set
      /\ \A i, j \in 1..n : i # j => goals[i] # goals[j]
      /\ \A g \in set : \E i \in 1..n : goals[i] = g
  BY <1>2 DEF Lists
<1>6. base \in Progress(D) /\ base.order = order /\ base.ledger = books /\ base.status = states
      /\ base.pool = U
  BY <1>1, <1>3 DEF Progress
<1> HIDE DEF goals, n, set, order, U, base, D
<1>7. PICK f : /\ f[0] = base
               /\ \A k \in 1..n : f[k] = Fund(f[k - 1], goals[k], m)
               /\ f[n] = FundAll(base, goals, m)
  BY <1>2, <1>5, FundOneByOne
<1>8. FundedSoFar(f, 0, m, books, states, goals, order, D)
  <2>1. \A i \in 1..0 : FALSE
    OBVIOUS
  <2>2. PICK s : s = f[0]
    OBVIOUS
  <2>3. s \in Progress(D) /\ s.order = order /\ s.ledger = books /\ s.status = states
    BY <1>6, <1>7, <2>2
  <2> QED
    BY <2>1, <2>2, <2>3 DEF FundedSoFar
<1> DEFINE Bad == {k \in 0..n : ~FundedSoFar(f, k, m, books, states, goals, order, D)}
<1>9. ASSUME Bad # {} PROVE FALSE
  <2>1. PICK k \in Bad : \A j \in Bad : k <= j
    <3>1. Bad \subseteq Nat
      BY <1>2
    <3> HIDE DEF Bad
    <3> QED
      BY <1>9, <3>1, LeastNumber
  <2>2. k \in 0..n /\ k # 0
    BY <1>8
  <2>3. k \in 1..n /\ k - 1 \in 0..n /\ ~(k <= k - 1)
    BY <2>2, <1>2
  <2>4. k - 1 \notin Bad
    BY <2>1, <2>3
  <2>5. FundedSoFar(f, k - 1, m, books, states, goals, order, D)
    BY <2>3, <2>4
  <2>6. \A i \in 1..n : goals[i] \in GoalIds /\ plan[goals[i]] \in Plan
    BY <1>2, <1>5
  <2>7. f[k] = Fund(f[k - 1], goals[k], m)
    BY <2>3, <1>7
  <2>8. \A i, j \in 1..n : i # j => goals[i] # goals[j]
    BY <1>5
  <2>9. FundedSoFar(f, k, m, books, states, goals, order, D)
    BY <1>1, <1>2, <1>3, <2>3, <2>5, <2>6, <2>7, <2>8, FundKeeps
  <2> QED
    BY <2>1, <2>9
<1>10. \A k \in 0..n : FundedSoFar(f, k, m, books, states, goals, order, D)
  BY <1>9
<1> HIDE DEF Bad
<1>11. n \in 0..n /\ FundedSoFar(f, n, m, books, states, goals, order, D)
  BY <1>2, <1>10
<1> DEFINE r == f[n]
           pools == [i \in 0..n |-> f[i].pool]
<1>12. r = close_month(m, books, states)
  BY <1>4, <1>7
<1>13. pools \in [0..n -> [D -> Nat]] /\ pools[0] = U
  <2>1. \A k \in 0..n : f[k].pool \in [D -> Nat]
    BY <1>10 DEF FundedSoFar, Progress
  <2>2. 0 \in 0..n
    BY <1>2
  <2> QED
    BY <2>1, <2>2, <1>6, <1>7
<1>14. r.ledger \in Ledgers /\ r.status \in [GoalIds -> Statuses]
  BY <1>11 DEF FundedSoFar, Progress
<1>15. ASSUME NEW i \in 1..n
       PROVE  /\ r.ledger[goals[i]][m] = FundedRow(goals[i], books[goals[i]], m, pools[i - 1], order)
              /\ r.status[goals[i]] =
                   FundedStatus(goals[i], books[goals[i]], m, pools[i - 1], states[goals[i]])
              /\ pools[i] = DrawnFor(goals[i], books[goals[i]], m, pools[i - 1], order).pool
  <2>1. i - 1 \in 0..n /\ i \in 0..n
    BY <1>2
  <2>2. pools[i - 1] = f[i - 1].pool /\ pools[i] = f[i].pool
    BY <2>1
  <2> HIDE DEF pools
  <2> QED
    BY <2>2, <1>11 DEF FundedSoFar
<1>16. ASSUME NEW g \in GoalIds \ set PROVE r.ledger[g] = books[g] /\ r.status[g] = states[g]
  BY <1>5, <1>11 DEF FundedSoFar
<1>17. \A g \in GoalIds, j \in Months \ {m} : r.ledger[g][j] = books[g][j]
  BY <1>11 DEF FundedSoFar
<1> HIDE DEF r, pools
<1>18. Funding(m, books, states, pools, r)
  BY <1>13, <1>14, <1>15, <1>16, <1>17 DEF Funding, D, U, set, order, n, goals
<1> QED
  BY <1>12, <1>18

-----------------------------------------------------------------------------
(* The invariant, and closing again *)

\* The types in full: plans, books, budgets and spending are what they should be.
GoalsInv ==
    /\ PlanType
    /\ status \in [GoalIds -> Statuses]
    /\ ledger \in Ledgers
    /\ \A g \in GoalIds, m \in Months : HasRow(g, m) => Exists(g)
    /\ BudgetType
    /\ spent \in [Months -> [Cats -> Nat]]
    /\ lockedMonths \subseteq Months
    /\ edits \in 0..MaxEdits /\ changes \in 0..MaxChanges /\ locks \in 0..MaxLocks

LEMMA TypesFollow == ASSUME GoalAssumption, GoalsInv PROVE GoalsTypeOK
<1>1. \A g \in GoalIds : plan[g] \in Plan \cup {NoPlan}
  BY DEF GoalsInv, PlanType
<1>2. ASSUME NEW g \in GoalIds, NEW m \in Months, HasRow(g, m)
      PROVE  /\ Exists(g) /\ ledger[g][m].applied
             /\ {ledger[g][m].planned, ledger[g][m].actual} \subseteq Nat
             /\ ledger[g][m].sources \in [Cats -> Nat]
  <2>1. ledger[g][m] \in Row \cup {NoRow} /\ ledger[g][m] # NoRow
    BY <1>2 DEF GoalsInv, Ledgers, RowsOfGoal, HasRow
  <2>2. Exists(g)
    BY <1>2 DEF GoalsInv
  <2> QED
    BY <2>1, <2>2, RowOrNot
<1> QED
  BY <1>1, <1>2 DEF GoalsInv, GoalsTypeOK, BudgetType

\* One turn of a close
Turn(m, books, states, pools, r, i) ==
    LET g == ByPriority(Goers(m, books, states))[i]
        order == PoolOrder(Underspend(m))
    IN  /\ r.ledger[g][m] = FundedRow(g, books[g], m, pools[i - 1], order)
        /\ r.status[g] = FundedStatus(g, books[g], m, pools[i - 1], states[g])
        /\ pools[i] = DrawnFor(g, books[g], m, pools[i - 1], order).pool

LEMMA TurnFacts ==
    ASSUME GoalAssumption, PlanType, BudgetType, spent \in [Months -> [Cats -> Nat]],
           NEW m \in Months, NEW books \in Ledgers, NEW states, NEW pools, NEW r,
           Funding(m, books, states, pools, r), NEW i \in 1..Cardinality(Goers(m, books, states)),
           NEW g, g = ByPriority(Goers(m, books, states))[i]
    PROVE  /\ Turn(m, books, states, pools, r, i)
           /\ g \in Goers(m, books, states) /\ g \in GoalIds /\ plan[g] \in Plan
           /\ books[g] \in RowsOfGoal
           /\ DOMAIN Underspend(m) \in SUBSET Cats
           /\ pools[i - 1] \in [DOMAIN Underspend(m) -> Nat]
           /\ PoolOrder(Underspend(m)) \in Seq(DOMAIN Underspend(m))
           /\ Lists(PoolOrder(Underspend(m)), DOMAIN Underspend(m))
           /\ \A k \in Months \ {m} : r.ledger[g][k] = books[g][k]
<1> DEFINE set == Goers(m, books, states)
           n == Cardinality(set)
           U == Underspend(m)
           D == DOMAIN U
<1>1. /\ set \in SUBSET GoalIds /\ \A h \in set : plan[h] \in Plan
      /\ Lists(ByPriority(set), set) /\ n \in Nat
  BY GoersFacts
<1>2. g \in set /\ g \in GoalIds /\ plan[g] \in Plan
  BY <1>1 DEF Lists
<1>3. /\ D \in SUBSET Cats /\ U \in [D -> Nat] /\ IsFiniteSet(D)
  BY UnderspendFacts
<1>4. Lists(PoolOrder(U), D) /\ PoolOrder(U) \in Seq(D)
  <2>1. D \subseteq Nat
    BY <1>3 DEF GoalAssumption
  <2> HIDE DEF U
  <2> QED
    BY <1>3, <2>1, PoolOrderLists
<1>5. books[g] \in RowsOfGoal
  BY <1>2 DEF Ledgers
<1>6. pools \in [0..n -> [D -> Nat]] /\ i - 1 \in 0..n
  BY <1>1 DEF Funding
<1>7. pools[i - 1] \in [D -> Nat]
  BY <1>6
<1>8. Turn(m, books, states, pools, r, i)
  BY DEF Funding, Turn
<1>9. \A k \in Months \ {m} : r.ledger[g][k] = books[g][k]
  BY <1>2 DEF Funding
<1> QED
  BY <1>2, <1>3, <1>4, <1>5, <1>7, <1>8, <1>9

\* Every goal that takes part has its turn.
LEMMA TurnOf ==
    ASSUME GoalAssumption, PlanType, NEW m, NEW books, NEW states, NEW g \in Goers(m, books, states)
    PROVE  \E i \in 1..Cardinality(Goers(m, books, states)) : g = ByPriority(Goers(m, books, states))[i]
<1>1. Lists(ByPriority(Goers(m, books, states)), Goers(m, books, states))
  BY GoersFacts
<1> QED
  BY <1>1 DEF Lists

LEMMA StatusAgain ==
    ASSUME NEW p \in Plan, NEW total \in Nat, NEW old
    PROVE  StatusAfterClose(p, total, StatusAfterClose(p, total, old)) = StatusAfterClose(p, total, old)
<1>1. p.target \in Nat
  BY DEF Plan
<1>2. total >= p.target \/ total < p.target
  BY <1>1
<1> QED
  BY <1>1, <1>2 DEF StatusAfterClose

LEMMA SameGoers ==
    ASSUME GoalAssumption, PlanType, BudgetType, spent \in [Months -> [Cats -> Nat]],
           NEW m \in Months, NEW books \in Ledgers, NEW states, NEW pools, NEW r,
           Funding(m, books, states, pools, r)
    PROVE  Goers(m, r.ledger, r.status) = Goers(m, books, states)
<1>1. ASSUME NEW g \in Goers(m, books, states) PROVE g \in Goers(m, r.ledger, r.status)
  <2>1. PICK i \in 1..Cardinality(Goers(m, books, states)) : g = ByPriority(Goers(m, books, states))[i]
    BY TurnOf
  <2>2. PICK order, pool : order = PoolOrder(Underspend(m)) /\ pool = pools[i - 1]
    OBVIOUS
  <2>3. /\ r.ledger[g][m] = FundedRow(g, books[g], m, pool, order)
        /\ g \in GoalIds /\ plan[g] \in Plan /\ books[g] \in RowsOfGoal
        /\ DOMAIN Underspend(m) \in SUBSET Cats /\ pool \in [DOMAIN Underspend(m) -> Nat]
        /\ order \in Seq(DOMAIN Underspend(m)) /\ Lists(order, DOMAIN Underspend(m))
    <3>1. /\ Turn(m, books, states, pools, r, i)
          /\ g \in GoalIds /\ plan[g] \in Plan /\ books[g] \in RowsOfGoal
          /\ DOMAIN Underspend(m) \in SUBSET Cats
          /\ pools[i - 1] \in [DOMAIN Underspend(m) -> Nat]
          /\ PoolOrder(Underspend(m)) \in Seq(DOMAIN Underspend(m))
          /\ Lists(PoolOrder(Underspend(m)), DOMAIN Underspend(m))
      BY <2>1, TurnFacts
    <3> QED
      BY <3>1, <2>1, <2>2 DEF Turn
  <2>4. FundedRow(g, books[g], m, pool, order) \in Row
    BY <2>3, FundedRowFacts
  <2>5. r.ledger[g][m] # NoRow
    BY <2>3, <2>4, RowOrNot
  <2> QED
    BY <2>5 DEF Goers, ParticipatesGiven
<1>2. ASSUME NEW g \in Goers(m, r.ledger, r.status), g \notin Goers(m, books, states) PROVE FALSE
  <2>1. g \in GoalIds
    BY DEF Goers
  <2>2. r.ledger[g] = books[g] /\ r.status[g] = states[g]
    BY <2>1, <1>2 DEF Funding
  <2> QED
    BY <1>2, <2>2 DEF Goers, ParticipatesGiven
<1> QED
  BY <1>1, <1>2

SameBooks(a, b) == a.ledger = b.ledger /\ a.status = b.status

LEMMA FundingAgain ==
    ASSUME GoalAssumption, PlanType, BudgetType, spent \in [Months -> [Cats -> Nat]],
           NEW m \in Months, NEW books \in Ledgers, NEW states \in [GoalIds -> Statuses],
           NEW pools, NEW once, Funding(m, books, states, pools, once),
           NEW more, NEW twice, Funding(m, once.ledger, once.status, more, twice)
    PROVE  SameBooks(twice, once)
<1> DEFINE set == Goers(m, books, states)
           n == Cardinality(set)
           U == Underspend(m)
           order == PoolOrder(U)
<1>1. Goers(m, once.ledger, once.status) = set
  BY SameGoers
<1>2. once.ledger \in Ledgers /\ once.status \in [GoalIds -> Statuses]
      /\ twice.ledger \in Ledgers /\ twice.status \in [GoalIds -> Statuses]
  BY DEF Funding
<1>3. n \in Nat
  BY GoersFacts
\* One turn more from the same buckets
<1>4. ASSUME NEW i \in 1..n, more[i - 1] = pools[i - 1], NEW g, g = ByPriority(set)[i]
      PROVE  /\ more[i] = pools[i]
             /\ twice.ledger[g][m] = once.ledger[g][m]
             /\ twice.status[g] = once.status[g]
  <2> DEFINE pool == pools[i - 1]
             D == DOMAIN U
             was == books[g]
             is == once.ledger[g]
  <2>1. /\ Turn(m, books, states, pools, once, i)
        /\ g \in GoalIds /\ plan[g] \in Plan /\ was \in RowsOfGoal
        /\ D \in SUBSET Cats /\ pool \in [D -> Nat] /\ order \in Seq(D) /\ Lists(order, D)
        /\ \A k \in Months \ {m} : is[k] = was[k]
    BY <1>4, TurnFacts
  <2>2. Turn(m, once.ledger, once.status, more, twice, i)
    BY <1>1, <1>2, <1>4, TurnFacts
  <2>3. /\ is[m] = FundedRow(g, was, m, pool, order)
        /\ once.status[g] = FundedStatus(g, was, m, pool, states[g])
        /\ pools[i] = DrawnFor(g, was, m, pool, order).pool
    BY <2>1, <1>4 DEF Turn
  <2>4. /\ twice.ledger[g][m] = FundedRow(g, is, m, pool, order)
        /\ twice.status[g] = FundedStatus(g, is, m, pool, once.status[g])
        /\ more[i] = DrawnFor(g, is, m, pool, order).pool
    BY <2>2, <1>1, <1>4 DEF Turn
  <2> HIDE DEF was, is, pool, D, order
  <2>5. /\ ContributedOther(is, m) = ContributedOther(was, m)
        /\ Share(g, is, m, pool) = Share(g, was, m, pool)
        /\ DrawnFor(g, is, m, pool, order) = DrawnFor(g, was, m, pool, order)
        /\ FundedRow(g, is, m, pool, order) = FundedRow(g, was, m, pool, order)
    BY <2>1, <2>3, FundedAgain
  <2>6. ContributedOther(was, m) \in Nat /\ Share(g, was, m, pool) \in Nat
    BY <2>1, ShareFacts
  <2>7. twice.status[g] = once.status[g]
    <3>1. ContributedOther(was, m) + Share(g, was, m, pool) \in Nat
      BY <2>6
    <3> QED
      BY <3>1, <2>1, <2>3, <2>4, <2>5, StatusAgain DEF FundedStatus
  <2>8. twice.ledger[g][m] = is[m]
    BY <2>3, <2>4, <2>5
  <2> QED
    BY <2>3, <2>4, <2>5, <2>7, <2>8 DEF is
<1> DEFINE Bad == {i \in 0..n : more[i] # pools[i]}
<1>5. ASSUME Bad # {} PROVE FALSE
  <2>1. PICK i \in Bad : \A j \in Bad : i <= j
    <3>1. Bad \subseteq Nat
      BY <1>3
    <3> HIDE DEF Bad
    <3> QED
      BY <1>5, <3>1, LeastNumber
  <2>2. more[0] = pools[0]
    BY DEF Funding
  <2>3. i \in 1..n /\ i - 1 \in 0..n /\ ~(i <= i - 1)
    BY <2>1, <2>2, <1>3
  <2>4. i - 1 \notin Bad
    BY <2>1, <2>3
  <2>5. more[i - 1] = pools[i - 1]
    BY <2>3, <2>4
  <2>6. more[i] = pools[i]
    BY <2>3, <2>5, <1>4
  <2> QED
    BY <2>1, <2>6
<1>6. \A i \in 0..n : more[i] = pools[i]
  BY <1>5
<1> HIDE DEF Bad
<1>7. ASSUME NEW g \in set PROVE twice.ledger[g][m] = once.ledger[g][m] /\ twice.status[g] = once.status[g]
  <2>1. PICK i \in 1..n : g = ByPriority(set)[i]
    BY TurnOf
  <2>2. i - 1 \in 0..n
    BY <1>3
  <2> QED
    BY <2>1, <2>2, <1>4, <1>6
<1>8. ASSUME NEW g \in GoalIds \ set PROVE twice.ledger[g] = once.ledger[g] /\ twice.status[g] = once.status[g]
  BY <1>1 DEF Funding
<1>9. \A g \in GoalIds, k \in Months \ {m} : twice.ledger[g][k] = once.ledger[g][k]
  BY DEF Funding
<1> HIDE DEF set
<1>10. \A g \in GoalIds : \A k \in Months : twice.ledger[g][k] = once.ledger[g][k]
  BY <1>7, <1>8, <1>9
<1>11. \A g \in GoalIds : twice.ledger[g] = once.ledger[g]
  BY <1>2, <1>10 DEF Ledgers, RowsOfGoal
<1>12. \A g \in GoalIds : twice.status[g] = once.status[g]
  BY <1>7, <1>8
<1>13. twice.ledger = once.ledger
  <2>1. PICK a, b : a = twice.ledger /\ b = once.ledger
    OBVIOUS
  <2>2. a \in [GoalIds -> RowsOfGoal] /\ b \in [GoalIds -> RowsOfGoal]
    BY <2>1, <1>2 DEF Ledgers
  <2>3. \A g \in GoalIds : a[g] = b[g]
    BY <2>1, <1>11
  <2>5. a = [g \in GoalIds |-> a[g]] /\ b = [g \in GoalIds |-> b[g]]
    BY <2>2
  <2>6. [g \in GoalIds |-> a[g]] = [g \in GoalIds |-> b[g]]
    BY <2>3
  <2>4. a = b
    BY <2>5, <2>6
  <2> QED
    BY <2>1, <2>4
<1>14. twice.status = once.status
  <2>1. PICK a, b : a = twice.status /\ b = once.status
    OBVIOUS
  <2>2. a \in [GoalIds -> Statuses] /\ b \in [GoalIds -> Statuses]
    BY <2>1, <1>2
  <2>3. \A g \in GoalIds : a[g] = b[g]
    BY <2>1, <1>12
  <2>5. a = [g \in GoalIds |-> a[g]] /\ b = [g \in GoalIds |-> b[g]]
    BY <2>2
  <2>6. [g \in GoalIds |-> a[g]] = [g \in GoalIds |-> b[g]]
    BY <2>3
  <2>4. a = b
    BY <2>5, <2>6
  <2> QED
    BY <2>1, <2>4
<1> QED
  BY <1>13, <1>14 DEF SameBooks

LEMMA AgainNothing == ASSUME GoalAssumption, GoalsInv PROVE ClosingAgainChangesNothing
<1>1. ASSUME NEW m \in Months
      PROVE  LET once == close_month(m, ledger, status)
                 twice == close_month(m, once.ledger, once.status)
             IN  twice.ledger = once.ledger /\ twice.status = once.status
  <2> DEFINE once == close_month(m, ledger, status)
             twice == close_month(m, once.ledger, once.status)
  <2>1. PlanType /\ BudgetType /\ spent \in [Months -> [Cats -> Nat]] /\ ledger \in Ledgers
        /\ status \in [GoalIds -> Statuses]
    BY DEF GoalsInv
  <2>2. PICK pools : Funding(m, ledger, status, pools, once)
    BY <2>1, CloseFunds
  <2>3. once.ledger \in Ledgers /\ once.status \in [GoalIds -> Statuses]
    BY <2>2 DEF Funding
  <2> HIDE DEF once
  <2>4. PICK more : Funding(m, once.ledger, once.status, more, twice)
    BY <2>1, <2>3, CloseFunds
  <2> HIDE DEF twice
  <2>5. SameBooks(twice, once)
    BY <2>1, <2>2, <2>4, FundingAgain
  <2> QED
    BY <2>5 DEF once, twice, SameBooks
<1> QED
  BY <1>1 DEF ClosingAgainChangesNothing

-----------------------------------------------------------------------------
(* Paying what is due *)

LEMMA TimesMonotone ==
    ASSUME NEW a \in Nat, NEW b \in Nat, NEW c \in Nat, a <= b
    PROVE  a * c <= b * c /\ c * a <= c * b
<1>1. PICK d \in Nat : b = a + d
  <2>1. b - a \in Nat /\ b = a + (b - a)
    OBVIOUS
  <2> QED
    BY <2>1
<1>2. b * c = a * c + d * c /\ d * c \in Nat /\ a * c \in Nat
  BY <1>1
<1>3. c * b = c * a + c * d /\ c * d \in Nat /\ c * a \in Nat
  BY <1>1
<1> QED
  BY <1>2, <1>3

LEMMA CeilDivBound ==
    ASSUME NEW t \in Nat, NEW p \in Nat, NEW x \in Nat, NEW n \in Nat \ {0}, p * n >= t
    PROVE  CeilDiv(t * x, n) <= p * x
<1>1. PICK a : a = t * x
  OBVIOUS
<1>2. PICK q : q = CeilDiv(a, n)
  OBVIOUS
<1>3. PICK y : y = p * x
  OBVIOUS
<1>4. a \in Nat /\ y \in Nat
  BY <1>1, <1>3
<1>5. q \in Nat /\ q * n < a + n
  BY <1>2, <1>4, CeilDivFacts
<1>6. a <= y * n
  <2>1. p * n \in Nat /\ t <= p * n
    OBVIOUS
  <2>2. t * x <= (p * n) * x
    BY <2>1, TimesMonotone
  <2>3. (p * n) * x = (p * x) * n
    OBVIOUS
  <2> QED
    BY <2>2, <2>3, <1>1, <1>3
<1>7. ASSUME q >= y + 1 PROVE FALSE
  <2>1. (y + 1) * n <= q * n
    BY <1>4, <1>5, <1>7, TimesMonotone
  <2>2. (y + 1) * n = y * n + n
    BY <1>4
  <2>3. y * n \in Nat /\ q * n \in Nat
    BY <1>4, <1>5
  <2> QED
    BY <2>1, <2>2, <2>3, <1>4, <1>5, <1>6
<1> QED
  BY <1>1, <1>2, <1>3, <1>4, <1>5, <1>7

LEMMA TotalMonths ==
    ASSUME NEW p \in Plan
    PROVE  /\ PlannedTotalMonths(p) \in Nat \ {0}
           /\ p.targetMonth # NoMonth =>
                PlannedTotalMonths(p) = Most(1, DiffMonths(p.start, p.targetMonth))
<1>1. p.target \in Nat /\ p.start \in Nat \ {0} /\ p.targetMonth \in Nat /\ p.monthly \in Nat
  BY DEF Plan
<1>2. CASE p.targetMonth # NoMonth
  <2>1. DiffMonths(p.start, p.targetMonth) \in Nat
    BY <1>1 DEF DiffMonths, Minus
  <2> QED
    BY <1>2, <2>1 DEF PlannedTotalMonths, Most
<1>3. CASE p.targetMonth = NoMonth /\ p.monthly > 0
  <2>1. p.monthly \in Nat \ {0} /\ p.target \in Nat
    BY <1>1, <1>3
  <2>2. CeilDiv(p.target, p.monthly) \in Nat
    BY <2>1, CeilDivFacts
  <2> QED
    BY <1>3, <2>2 DEF PlannedTotalMonths, Most
<1>4. CASE p.targetMonth = NoMonth /\ ~(p.monthly > 0)
  BY <1>4 DEF PlannedTotalMonths
<1> QED
  BY <1>2, <1>3, <1>4

\* What the months of a span gave is in what was contributed by its end.
LEMMA SpanContributed ==
    ASSUME GoalAssumption, GoalsInv, NEW g \in GoalIds, NEW m \in Months,
           NEW a \in Nat \ {0}, NEW b \in Nat, b <= m, NEW p \in Nat,
           \A k \in a..b : ledger[g][k].actual >= p
    PROVE  /\ ContributedThrough(g, m) \in Nat
           /\ ContributedThrough(g, m) >= (IF a > b THEN 0 ELSE b - a + 1) * p
<1> DEFINE val == Given(ledger[g])
           S == {k \in Months : k <= m}
           P == a..b
           n == IF a > b THEN 0 ELSE b - a + 1
<1>1. ledger[g] \in RowsOfGoal
  BY DEF GoalsInv, Ledgers
<1>2. IsFiniteSet(Months) /\ \A k \in Months : val[k] \in Nat /\ val[k] \in Int
  BY <1>1, GivenFacts
<1>3. S \in SUBSET Months /\ IsFiniteSet(S)
  <2>1. S \in SUBSET Months
    OBVIOUS
  <2> QED
    BY <1>2, <2>1, FS_Subset
<1>4. P \in SUBSET S
  BY DEF Months, GoalAssumption
<1>5. IsFiniteSet(P) /\ IsFiniteSet(S \ P) /\ Cardinality(P) = n
  <2>1. S \ P \in SUBSET S
    OBVIOUS
  <2>2. IsFiniteSet(S \ P)
    BY <1>3, <2>1, FS_Subset
  <2>3. a \in Int /\ b \in Int
    OBVIOUS
  <2> QED
    BY <2>2, <2>3, FS_Interval
<1>6. \A k \in P : val[k] >= p
  BY <1>3, <1>4 DEF Given
<1> HIDE DEF val, S, P, n
<1>7. SumFunctionOnSet(val, S) = SumFunctionOnSet(val, P) + SumFunctionOnSet(val, S \ P)
  BY <1>2, <1>3, <1>4, SumSplit
<1>8. SumFunctionOnSet(val, S \ P) \in Nat /\ SumFunctionOnSet(val, P) \in Nat
  BY <1>2, <1>3, <1>4, <1>5, SumType
<1>9. SumFunctionOnSet(val, P) >= Cardinality(P) * p
  <2>1. \A k \in P : val[k] \in Int /\ val[k] >= p
    BY <1>2, <1>3, <1>4, <1>6
  <2>2. p \in Int
    OBVIOUS
  <2> QED
    BY <1>5, <2>1, <2>2, SumAtLeast
<1>10. ContributedThrough(g, m) = SumFunctionOnSet(val, S)
  BY DEF ContributedThrough, val, S
<1>11. n * p \in Nat
  BY DEF n
<1>12. ContributedThrough(g, m) \in Nat /\ ContributedThrough(g, m) >= n * p
  BY <1>5, <1>7, <1>8, <1>9, <1>10, <1>11
<1> QED
  BY <1>12 DEF n

LEMMA PaidNotBehind == ASSUME GoalAssumption, GoalsInv PROVE PaidUpIsNotBehind
<1> SUFFICES ASSUME NEW g \in GoalIds, NEW m \in Months,
                    Exists(g), m >= plan[g].start,
                    plan[g].monthly * PlannedTotalMonths(plan[g]) >= plan[g].target,
                    \A k \in plan[g].start..(m - 1) : ledger[g][k].actual >= plan[g].monthly,
                    HasRow(g, m) => ledger[g][m].actual >= plan[g].monthly
             PROVE  Payoff(g, m).state # "behind"
  BY DEF PaidUpIsNotBehind
<1> DEFINE p == plan[g]
           funded == HasRow(g, m)
           elapsed == EffectiveElapsed(p, m, funded)
           total == PlannedTotalMonths(p)
           contributed == ContributedThrough(g, m)
           expected == ExpectedByNow(p, elapsed)
<1>1. p \in Plan /\ m \in Nat \ {0}
  <2>1. p \in Plan
    BY DEF GoalsInv, PlanType, Exists
  <2>2. m \in Nat \ {0}
    BY DEF Months, GoalAssumption
  <2> QED
    BY <2>1, <2>2
<1>2. p.target \in Nat /\ p.start \in Nat \ {0} /\ p.monthly \in Nat
  BY <1>1 DEF Plan
<1>3. total \in Nat \ {0}
  BY <1>1, TotalMonths
<1>4. DiffMonths(p.start, m) = m + 1 - p.start
  BY <1>1, <1>2 DEF DiffMonths, Minus
<1>5. elapsed \in Nat /\ elapsed = IF funded THEN m + 1 - p.start ELSE m - p.start
  BY <1>1, <1>2, <1>4 DEF EffectiveElapsed, Minus
<1>6. contributed \in Nat /\ contributed >= elapsed * p.monthly
  <2> DEFINE b == IF funded THEN m ELSE m - 1
  <2>1. b \in Nat /\ b <= m
    BY <1>1
  <2>2. \A k \in p.start..b : ledger[g][k].actual >= p.monthly
    <3>1. \A k \in p.start..m : k = m \/ k \in p.start..(m - 1)
      BY <1>1, <1>2
    <3> QED
      BY <3>1
  <2>3. elapsed = IF p.start > b THEN 0 ELSE b - p.start + 1
    BY <1>1, <1>2, <1>5
  <2> HIDE DEF b, p
  <2>4. /\ ContributedThrough(g, m) \in Nat
        /\ ContributedThrough(g, m) >= (IF p.start > b THEN 0 ELSE b - p.start + 1) * p.monthly
    BY <1>2, <2>1, <2>2, SpanContributed
  <2> QED
    BY <2>3, <2>4
<1>7. expected \in Nat /\ expected <= contributed
  <2>1. CASE elapsed = 0
    BY <2>1, <1>6 DEF ExpectedByNow
  <2>2. CASE elapsed # 0
    <3> DEFINE x == Least(elapsed, total)
               q == CeilDiv(p.target * x, total)
    <3>1. x \in Nat /\ x <= elapsed
      BY <1>3, <1>5, LeastFacts
    <3>2. expected = Least(p.target, q)
      BY <2>2 DEF ExpectedByNow
    <3> HIDE DEF x
    <3>3. p.target * x \in Nat
      BY <1>2, <3>1
    <3>4. q \in Nat
      BY <1>3, <3>3, CeilDivFacts
    <3>5. q <= p.monthly * x
      BY <1>2, <1>3, <3>1, CeilDivBound
    <3>6. p.monthly * x <= p.monthly * elapsed
      BY <1>2, <1>5, <3>1, TimesMonotone
    <3>7. p.monthly * elapsed = elapsed * p.monthly
      BY <1>2, <1>5
    <3>8. expected \in Nat /\ expected <= q
      <4>1. PICK t \in Nat : t = p.target
        BY <1>2
      <4>2. PICK r \in Nat : r = q
        BY <3>4
      <4>3. Least(t, r) \in Nat /\ Least(t, r) <= r
        BY <4>1, <4>2, LeastFacts
      <4> HIDE DEF expected, q, p
      <4> QED
        BY <3>2, <4>1, <4>2, <4>3
    <3>9. p.monthly * x \in Nat /\ p.monthly * elapsed \in Nat
      BY <1>2, <1>5, <3>1
    <3> HIDE DEF q, p, elapsed, expected, contributed
    <3> QED
      BY <1>6, <3>4, <3>5, <3>6, <3>7, <3>8, <3>9
  <2> QED
    BY <2>1, <2>2
<1>8. ~(contributed + 1 < expected)
  BY <1>6, <1>7
<1>9. contributed >= p.target \/ (contributed < p.target /\ contributed > expected + 1)
      \/ (contributed < p.target /\ ~(contributed > expected + 1))
  BY <1>2, <1>6
<1> HIDE DEF contributed, expected, elapsed, funded, p
<1> DEFINE state == CASE contributed >= p.target -> "completed"
                      [] contributed < p.target /\ contributed + 1 < expected -> "behind"
                      [] contributed < p.target /\ contributed > expected + 1 -> "ahead"
                      [] OTHER -> "on_track"
<1>10. state # "behind"
  BY <1>2, <1>6, <1>7, <1>8, <1>9
<1>11. Payoff(g, m).state = state
  BY DEF Payoff, PayoffStatus, contributed, expected, elapsed, funded, p
<1> QED
  BY <1>10, <1>11


-----------------------------------------------------------------------------
(* The invariant is kept *)

\* What a close does to the books, and what it leaves alone.
LEMMA CloseFacts ==
    ASSUME GoalAssumption, GoalsInv, NEW m \in Months, RunClose(m)
    PROVE  \E pools, r : /\ Funding(m, ledger, status, pools, r)
                         /\ ledger' = r.ledger /\ status' = r.status
<1>1. ledger \in Ledgers /\ status \in [GoalIds -> Statuses]
  BY DEF GoalsInv
<1>2. PICK pools : Funding(m, ledger, status, pools, close_month(m, ledger, status))
  BY <1>1, CloseFunds DEF GoalsInv
<1>3. /\ ledger' = close_month(m, ledger, status).ledger
      /\ status' = close_month(m, ledger, status).status
  BY DEF RunClose
<1> QED
  BY <1>2, <1>3

LEMMA RunCloseKeeps ==
    ASSUME GoalAssumption, GoalsInv, NEW m \in Months, RunClose(m)
    PROVE  GoalsInv'
<1>1. PICK pools, r : /\ Funding(m, ledger, status, pools, r)
                      /\ ledger' = r.ledger /\ status' = r.status
  BY CloseFacts
<1>2. ledger' \in Ledgers /\ status' \in [GoalIds -> Statuses]
  BY <1>1 DEF Funding
<1>3. plan' = plan /\ budget' = budget /\ spent' = spent /\ lockedMonths' = lockedMonths
      /\ edits' = edits /\ changes' = changes /\ locks' = locks
  BY DEF RunClose
<1>4. ASSUME NEW g \in GoalIds, NEW k \in Months, ledger'[g][k] # NoRow PROVE Exists(g)
  <2>1. CASE g \in Goers(m, ledger, status)
    BY <2>1 DEF Goers, ParticipatesGiven
  <2>2. CASE g \notin Goers(m, ledger, status)
    <3>1. ledger'[g] = ledger[g]
      BY <1>1, <2>2 DEF Funding
    <3> QED
      BY <3>1, <1>4 DEF GoalsInv, HasRow
  <2> QED
    BY <2>1, <2>2
<1> QED
  BY <1>2, <1>3, <1>4 DEF GoalsInv, PlanType, BudgetType, HasRow, Exists

\* A step that changes nothing but the plan or the status of a goal
LEMMA EditedKeeps ==
    ASSUME GoalAssumption, GoalsInv, Edited, PlanType', status' \in [GoalIds -> Statuses],
           \A g \in GoalIds : Exists(g) => Exists(g)'
    PROVE  GoalsInv'
<1>1. /\ ledger' = ledger /\ budget' = budget /\ spent' = spent /\ lockedMonths' = lockedMonths
      /\ changes' = changes /\ locks' = locks /\ edits' = edits + 1 /\ edits < MaxEdits
  BY DEF Edited
<1>2. edits' \in 0..MaxEdits
  <2>1. MaxEdits \in Nat /\ edits \in 0..MaxEdits
    BY DEF GoalAssumption, GoalsInv
  <2> QED
    BY <2>1, <1>1
<1>3. \A g \in GoalIds, m \in Months : HasRow(g, m)' => Exists(g)'
  BY <1>1 DEF GoalsInv, HasRow
<1> QED
  BY <1>1, <1>2, <1>3 DEF GoalsInv, BudgetType

LEMMA PlanIsSome == ASSUME NEW p \in Plan PROVE p # NoPlan
<1>1. p.target # 0 /\ NoPlan.target = 0
  BY DEF Plan, NoPlan
<1> QED
  BY <1>1

LEMMA PlanOf ==
    ASSUME GoalsInv, NEW g \in GoalIds, Exists(g)
    PROVE  plan[g] \in Plan
BY DEF GoalsInv, PlanType, Exists

\* The numbers a payoff is made of are numbers.
LEMMA ContributedThroughType ==
    ASSUME GoalAssumption, GoalsInv, NEW g \in GoalIds, NEW m \in Months
    PROVE  ContributedThrough(g, m) \in Nat
<1> DEFINE val == Given(ledger[g])
           S == {k \in Months : k <= m}
<1>1. ledger[g] \in RowsOfGoal
  BY DEF GoalsInv, Ledgers
<1>2. IsFiniteSet(Months) /\ \A k \in Months : val[k] \in Nat
  BY <1>1, GivenFacts
<1>3. S \in SUBSET Months /\ IsFiniteSet(S)
  <2>1. S \in SUBSET Months
    OBVIOUS
  <2> QED
    BY <1>2, <2>1, FS_Subset
<1> HIDE DEF val, S
<1>4. SumFunctionOnSet(val, S) \in Nat
  BY <1>2, <1>3, SumType
<1> QED
  BY <1>4 DEF ContributedThrough, val, S

\* How many payments a goal is asked to arrive in, and what each comes to.
PaymentsLeft(p, m, funded) == Most(1, Minus(PlannedTotalMonths(p), EffectiveElapsed(p, m, funded)))

LEMMA PayoffFacts ==
    ASSUME NEW p \in Plan, NEW c \in Nat, NEW m \in Nat \ {0}, NEW funded \in BOOLEAN
    PROVE  LET payoff == PayoffStatus(p, c, m, funded)
               left == PaymentsLeft(p, m, funded)
           IN  /\ payoff.remaining \in Nat /\ payoff.remaining + c >= p.target
               /\ EffectiveElapsed(p, m, funded) \in Nat
               /\ left \in Nat \ {0}
               /\ payoff.required \in Nat /\ payoff.required * left >= payoff.remaining
               /\ payoff.projected \in Nat
               /\ payoff.remaining = Remaining(p, c)
               /\ payoff.projected = ProjectedTargetMonth(p, payoff.remaining, m, funded)
<1> DEFINE payoff == PayoffStatus(p, c, m, funded)
           left == PaymentsLeft(p, m, funded)
           rest == Remaining(p, c)
           total == PlannedTotalMonths(p)
           elapsed == EffectiveElapsed(p, m, funded)
<1>1. p.target \in Nat /\ p.start \in Nat \ {0} /\ p.monthly \in Nat
  BY DEF Plan
<1>2. rest \in Nat /\ rest + c >= p.target
  BY <1>1 DEF Remaining, Minus
<1>3. DiffMonths(p.start, m) \in Nat
  BY <1>1 DEF DiffMonths, Minus
<1>4. elapsed \in Nat
  BY <1>3 DEF EffectiveElapsed, Minus
<1>5. total \in Nat \ {0}
  BY TotalMonths
<1>6. left \in Nat \ {0}
  <2>1. left = Most(1, Minus(total, elapsed))
    BY DEF PaymentsLeft
  <2> HIDE DEF total, elapsed, left
  <2> QED
    BY <2>1, <1>4, <1>5 DEF Most, Minus
<1>7. /\ payoff.remaining = rest
      /\ payoff.required = CeilDiv(rest, left)
      /\ payoff.projected = ProjectedTargetMonth(p, rest, m, funded)
  BY DEF PayoffStatus, PaymentsLeft
<1> HIDE DEF payoff, left, rest, total, elapsed
<1>8. payoff.required \in Nat /\ payoff.required * left >= rest
  BY <1>2, <1>6, <1>7, CeilDivFacts
<1>9. payoff.projected \in Nat
  <2>1. CASE rest = 0
    <3>1. ProjectedTargetMonth(p, rest, m, funded) = m
      BY <2>1 DEF ProjectedTargetMonth
    <3> QED
      BY <3>1, <1>7
  <2>2. CASE rest > 0 /\ p.monthly = 0
    <3>1. ProjectedTargetMonth(p, rest, m, funded) = NoMonth
      BY <2>2 DEF ProjectedTargetMonth
    <3> QED
      BY <3>1, <1>7 DEF NoMonth
  <2>3. CASE rest > 0 /\ p.monthly # 0
    <3>1. PICK needed : needed = CeilDiv(rest, p.monthly)
      OBVIOUS
    <3>2. p.monthly \in Nat \ {0}
      BY <1>1, <2>3
    <3>3. needed \in Nat /\ needed * p.monthly >= rest
      BY <1>2, <3>1, <3>2, CeilDivFacts
    <3>4. needed # 0
      <4>1. ASSUME needed = 0 PROVE FALSE
        <5>1. needed * p.monthly = 0
          BY <4>1, <3>2
        <5> QED
          BY <5>1, <3>3, <2>3, <1>2
      <4> QED
        BY <4>1
    <3>5. ProjectedTargetMonth(p, rest, m, funded) =
            IF DiffMonths(p.start, m) = 0 THEN p.start - 1 + needed
            ELSE IF funded THEN m + needed ELSE m + needed - 1
      BY <2>3, <3>1, <1>2 DEF ProjectedTargetMonth
    <3>6. p.start - 1 + needed \in Nat /\ m + needed \in Nat /\ m + needed - 1 \in Nat
      BY <1>1, <3>3, <3>4
    <3> QED
      BY <3>5, <3>6, <1>7
  <2> QED
    BY <2>1, <2>2, <2>3, <1>2
<1> QED
  BY <1>2, <1>4, <1>6, <1>7, <1>8, <1>9 DEF payoff, left, rest, elapsed


\* The plan with the target month a catch-up aims at
Timed(p) == [p EXCEPT !.targetMonth = IF p.targetMonth = NoMonth THEN ImpliedTargetMonth(p)
                                      ELSE p.targetMonth]

LEMMA TimedFacts ==
    ASSUME NEW p \in Plan
    PROVE  /\ Timed(p) \in Plan /\ Timed(p).start = p.start /\ Timed(p).target = p.target
           /\ Timed(p).targetMonth # NoMonth
<1>1. p.start \in Nat \ {0} /\ p.targetMonth \in Nat
  BY DEF Plan
<1>2. ImpliedTargetMonth(p) \in Nat \ {0}
  <2>1. PICK q : q = [p EXCEPT !.targetMonth = NoMonth]
    OBVIOUS
  <2>2. q \in Plan
    BY <2>1 DEF Plan, NoMonth
  <2>3. PlannedTotalMonths(q) \in Nat \ {0}
    BY <2>2, TotalMonths
  <2>4. ImpliedTargetMonth(p) = p.start + PlannedTotalMonths(q) - 1
    BY <2>1 DEF ImpliedTargetMonth
  <2> QED
    BY <2>3, <2>4, <1>1
<1>3. PICK x : x = IF p.targetMonth = NoMonth THEN ImpliedTargetMonth(p) ELSE p.targetMonth
  OBVIOUS
<1>4. x \in Nat /\ x # NoMonth
  BY <1>1, <1>2, <1>3 DEF NoMonth
<1>5. Timed(p) = [p EXCEPT !.targetMonth = x]
  BY <1>3 DEF Timed
<1> QED
  BY <1>4, <1>5 DEF Plan

\* The plan a catch-up leaves
LEMMA CatchUpFacts ==
    ASSUME GoalAssumption, GoalsInv, NEW g \in GoalIds, NEW m \in Months, CatchUp(g, m)
    PROVE  /\ Exists(g) /\ plan[g] \in Plan
           /\ \E pay : /\ pay = PayoffStatus(Timed(plan[g]), ContributedThrough(g, m), m, HasRow(g, m))
                       /\ plan' = [plan EXCEPT ![g] = [Timed(plan[g]) EXCEPT !.monthly = pay.required]]
                       /\ pay.required \in Nat
                       /\ pay.required * PaymentsLeft(Timed(plan[g]), m, HasRow(g, m)) + ContributedThrough(g, m)
                            >= plan[g].target
           /\ Edited /\ status' = status
<1>1. Exists(g) /\ Edited /\ status' = status
  BY DEF CatchUp
<1>2. plan[g] \in Plan
  BY <1>1, PlanOf
<1> DEFINE c == ContributedThrough(g, m)
           funded == HasRow(g, m)
           p == Timed(plan[g])
           pay == PayoffStatus(p, c, m, funded)
           left == PaymentsLeft(p, m, funded)
<1>3. c \in Nat /\ m \in Nat \ {0} /\ funded \in BOOLEAN
  BY ContributedThroughType DEF HasRow, Months
<1>4. p \in Plan /\ p.target = plan[g].target
  BY <1>2, TimedFacts
<1>5. plan' = [plan EXCEPT ![g] = [p EXCEPT !.monthly = pay.required]]
  BY DEF CatchUp, Timed
<1> HIDE DEF c, funded, p
<1>6. /\ pay.remaining \in Nat /\ pay.remaining + c >= p.target /\ left \in Nat \ {0}
      /\ pay.required \in Nat /\ pay.required * left >= pay.remaining
  BY <1>3, <1>4, PayoffFacts
<1> HIDE DEF pay, left
<1>7. p.target \in Nat
  BY <1>4 DEF Plan
<1>8. pay.required * left \in Nat
  BY <1>6
<1>9. pay.required * left + c >= plan[g].target
  BY <1>3, <1>4, <1>6, <1>7, <1>8
<1> QED
  BY <1>1, <1>2, <1>5, <1>6, <1>9 DEF c, funded, p, pay, left

LEMMA CatchUpKeeps ==
    ASSUME GoalAssumption, GoalsInv, NEW g \in GoalIds, NEW m \in Months, CatchUp(g, m)
    PROVE  GoalsInv'
<1>1. PICK pay : /\ plan' = [plan EXCEPT ![g] = [Timed(plan[g]) EXCEPT !.monthly = pay.required]]
                 /\ pay.required \in Nat
  BY CatchUpFacts
<1>2. Exists(g) /\ plan[g] \in Plan /\ Edited /\ status' = status
  BY CatchUpFacts
<1>3. PICK q : q = [Timed(plan[g]) EXCEPT !.monthly = pay.required]
  OBVIOUS
<1>4. q \in Plan /\ q # NoPlan
  <2>1. Timed(plan[g]) \in Plan
    BY <1>2, TimedFacts
  <2>2. q \in Plan
    BY <2>1, <1>1, <1>3 DEF Plan
  <2> QED
    BY <2>2, PlanIsSome
<1>5. plan' = [plan EXCEPT ![g] = q] /\ plan \in [GoalIds -> Plan \cup {NoPlan}]
  BY <1>1, <1>3 DEF GoalsInv, PlanType
<1>6. PlanType' /\ \A h \in GoalIds : Exists(h) => Exists(h)'
  BY <1>4, <1>5 DEF PlanType, Exists
<1>7. status' \in [GoalIds -> Statuses]
  BY <1>2 DEF GoalsInv
<1> QED
  BY <1>2, <1>6, <1>7, EditedKeeps

\* The plan an extension leaves
LEMMA ExtendFacts ==
    ASSUME GoalAssumption, GoalsInv, NEW g \in GoalIds, NEW m \in Months, Extend(g, m)
    PROVE  /\ Exists(g) /\ plan[g] \in Plan
           /\ \E pay : /\ pay = PayoffStatus(plan[g], ContributedThrough(g, m), m, HasRow(g, m))
                       /\ pay.remaining > 0 /\ pay.projected # NoMonth /\ pay.projected \in Nat
                       /\ plan' = [plan EXCEPT ![g].targetMonth = Most(plan[g].targetMonth, pay.projected)]
           /\ Edited /\ status' = status
<1>1. Exists(g) /\ Edited /\ status' = status
  BY DEF Extend
<1>2. plan[g] \in Plan
  BY <1>1, PlanOf
<1> DEFINE c == ContributedThrough(g, m)
           funded == HasRow(g, m)
           pay == PayoffStatus(plan[g], c, m, funded)
<1>3. c \in Nat /\ m \in Nat \ {0} /\ funded \in BOOLEAN
  BY ContributedThroughType DEF HasRow, Months
<1>4. /\ pay.remaining > 0 /\ pay.projected # NoMonth
      /\ plan' = [plan EXCEPT ![g].targetMonth = Most(plan[g].targetMonth, pay.projected)]
  BY DEF Extend, Payoff
<1> HIDE DEF c, funded
<1>5. pay.projected \in Nat
  BY <1>2, <1>3, PayoffFacts
<1> QED
  BY <1>1, <1>2, <1>4, <1>5 DEF c, funded

LEMMA ExtendKeeps ==
    ASSUME GoalAssumption, GoalsInv, NEW g \in GoalIds, NEW m \in Months, Extend(g, m)
    PROVE  GoalsInv'
<1>1. PICK pay : /\ plan' = [plan EXCEPT ![g].targetMonth = Most(plan[g].targetMonth, pay.projected)]
                 /\ pay.projected \in Nat
  BY ExtendFacts
<1>2. Exists(g) /\ plan[g] \in Plan /\ Edited /\ status' = status
  BY ExtendFacts
<1>3. PICK x : x = Most(plan[g].targetMonth, pay.projected)
  OBVIOUS
<1>4. x \in Nat
  BY <1>1, <1>2, <1>3 DEF Plan, Most
<1>5. PICK q : q = [plan[g] EXCEPT !.targetMonth = x]
  OBVIOUS
<1>6. q \in Plan /\ q # NoPlan
  <2>1. q \in Plan
    BY <1>2, <1>4, <1>5 DEF Plan
  <2> QED
    BY <2>1, PlanIsSome
<1>7. plan' = [plan EXCEPT ![g] = q] /\ plan \in [GoalIds -> Plan \cup {NoPlan}]
  <2>1. plan' = [plan EXCEPT ![g].targetMonth = x]
    BY <1>1, <1>3
  <2> QED
    BY <2>1, <1>5 DEF GoalsInv, PlanType
<1>8. PlanType' /\ \A h \in GoalIds : Exists(h) => Exists(h)'
  BY <1>6, <1>7 DEF PlanType, Exists
<1>9. status' \in [GoalIds -> Statuses]
  BY <1>2 DEF GoalsInv
<1> QED
  BY <1>2, <1>8, <1>9, EditedKeeps

LEMMA PlansKeep ==
    ASSUME GoalAssumption, GoalsInv, NEW g \in GoalIds, NEW p \in Plans,
           CreateGoal(g, p) \/ UpdateGoal(g, p)
    PROVE  GoalsInv'
<1>1. plan' = [plan EXCEPT ![g] = p] /\ Edited /\ status' = status
  BY DEF CreateGoal, UpdateGoal
<1>2. p \in Plan /\ p # NoPlan
  BY PlanIsSome DEF GoalAssumption
<1>3. plan \in [GoalIds -> Plan \cup {NoPlan}] /\ status' \in [GoalIds -> Statuses]
  BY <1>1 DEF GoalsInv, PlanType
<1>4. PlanType' /\ \A h \in GoalIds : Exists(h) => Exists(h)'
  BY <1>1, <1>2, <1>3 DEF PlanType, Exists
<1> QED
  BY <1>1, <1>3, <1>4, EditedKeeps

LEMMA StatusKeeps ==
    ASSUME GoalAssumption, GoalsInv, NEW g \in GoalIds, NEW s \in Statuses, SetGoalStatus(g, s)
    PROVE  GoalsInv'
<1>1. plan' = plan /\ Edited /\ status' = [status EXCEPT ![g] = s]
  BY DEF SetGoalStatus
<1>2. status' \in [GoalIds -> Statuses] /\ PlanType'
  BY <1>1 DEF GoalsInv, PlanType
<1>3. \A h \in GoalIds : Exists(h) => Exists(h)'
  BY <1>1 DEF Exists
<1> QED
  BY <1>1, <1>2, <1>3, EditedKeeps

\* A step that changes nothing but budgets and spending
LEMMA ChangeKeeps ==
    ASSUME GoalAssumption, GoalsInv, Changed, BudgetType', spent' \in [Months -> [Cats -> Nat]]
    PROVE  GoalsInv'
<1>1. /\ plan' = plan /\ status' = status /\ ledger' = ledger /\ lockedMonths' = lockedMonths
      /\ edits' = edits /\ locks' = locks /\ changes' = changes + 1 /\ changes < MaxChanges
  BY DEF Changed
<1>2. changes' \in 0..MaxChanges
  <2>1. MaxChanges \in Nat /\ changes \in 0..MaxChanges
    BY DEF GoalAssumption, GoalsInv
  <2> QED
    BY <2>1, <1>1
<1> QED
  BY <1>1, <1>2 DEF GoalsInv, PlanType, HasRow, Exists

LEMMA BudgetKeeps ==
    ASSUME GoalAssumption, GoalsInv, NEW c \in Cats, NEW p \in Months \cup {Default}, NEW a \in Amounts,
           SetCategoryBudget(c, p, a)
    PROVE  GoalsInv'
<1>1. /\ budget' = [budget EXCEPT ![c] = [k \in DOMAIN budget[c] \cup {p} |->
                                          IF k = p THEN a ELSE budget[c][k]]]
      /\ Changed /\ spent' = spent
  BY DEF SetCategoryBudget
<1>2. a \in Nat
  BY DEF GoalAssumption
<1>3. BudgetType
  BY DEF GoalsInv
<1>4. PICK b : b = [k \in DOMAIN budget[c] \cup {p} |-> IF k = p THEN a ELSE budget[c][k]]
  OBVIOUS
<1>5. DOMAIN b \subseteq Months \cup {Default} /\ \A k \in DOMAIN b : b[k] \in Nat
  BY <1>2, <1>3, <1>4 DEF BudgetType
<1>6. budget' = [budget EXCEPT ![c] = b]
  BY <1>1, <1>4
<1>7. BudgetType'
  BY <1>3, <1>5, <1>6 DEF BudgetType
<1>8. spent' \in [Months -> [Cats -> Nat]]
  BY <1>1 DEF GoalsInv
<1> QED
  BY <1>1, <1>7, <1>8, ChangeKeeps

LEMMA SpendKeeps ==
    ASSUME GoalAssumption, GoalsInv, NEW m \in Months, NEW c \in Cats, NEW a \in Amounts, Spend(m, c, a)
    PROVE  GoalsInv'
<1>1. spent' = [spent EXCEPT ![m][c] = a] /\ Changed /\ budget' = budget
  BY DEF Spend
<1>2. a \in Nat /\ spent \in [Months -> [Cats -> Nat]]
  BY DEF GoalAssumption, GoalsInv
<1>3. spent' \in [Months -> [Cats -> Nat]]
  BY <1>1, <1>2
<1>4. BudgetType'
  BY <1>1 DEF GoalsInv, BudgetType
<1> QED
  BY <1>1, <1>3, <1>4, ChangeKeeps

LEMMA TurnLockKeeps ==
    ASSUME GoalAssumption, GoalsInv, NEW m \in Months, TurnLock(m)
    PROVE  GoalsInv'
<1>1. /\ locks < MaxLocks /\ locks' = locks + 1
      /\ plan' = plan /\ status' = status /\ ledger' = ledger /\ budget' = budget
      /\ spent' = spent /\ edits' = edits /\ changes' = changes
  BY DEF TurnLock
<1>2. locks' \in 0..MaxLocks
  <2>1. MaxLocks \in Nat /\ locks \in 0..MaxLocks
    BY DEF GoalAssumption, GoalsInv
  <2> QED
    BY <2>1, <1>1
<1>3. lockedMonths' \subseteq Months
  BY DEF TurnLock, GoalsInv
<1> QED
  BY <1>1, <1>2, <1>3 DEF GoalsInv, PlanType, BudgetType, HasRow, Exists

LEMMA GoalsStart == ASSUME GoalAssumption, GoalsInit PROVE GoalsInv
<1>1. PlanType /\ status \in [GoalIds -> Statuses]
  BY DEF GoalsInit, PlanType, Statuses
<1>2. ledger = [g \in GoalIds |-> [m \in Months |-> NoRow]]
  BY DEF GoalsInit
<1>3. ledger \in Ledgers /\ \A g \in GoalIds, m \in Months : ~HasRow(g, m)
  BY <1>2 DEF Ledgers, RowsOfGoal, HasRow
<1>4. BudgetType
  <2>1. /\ DOMAIN budget = Cats
        /\ \A c \in Cats : DOMAIN budget[c] = {Default} /\ budget[c][Default] = InitBudget[c]
    BY DEF GoalsInit
  <2>2. \A c \in Cats : InitBudget[c] \in Nat
    BY DEF GoalAssumption
  <2> QED
    BY <2>1, <2>2 DEF BudgetType
<1>5. spent \in [Months -> [Cats -> Nat]] /\ lockedMonths \subseteq Months
  BY DEF GoalsInit
<1>6. edits \in 0..MaxEdits /\ changes \in 0..MaxChanges /\ locks \in 0..MaxLocks
  <2>1. MaxEdits \in Nat /\ MaxChanges \in Nat /\ MaxLocks \in Nat
    BY DEF GoalAssumption
  <2> QED
    BY <2>1 DEF GoalsInit
<1> QED
  BY <1>1, <1>3, <1>4, <1>5, <1>6 DEF GoalsInv

LEMMA GoalsStepKeeps == ASSUME GoalAssumption, GoalsInv, [GoalsNext]_goalsVars PROVE GoalsInv'
<1>1. CASE GoalsNext
  <2>1. ASSUME NEW m \in Months, RunClose(m) PROVE GoalsInv'
    BY <2>1, RunCloseKeeps
  <2>2. ASSUME NEW m \in Months, TurnLock(m) PROVE GoalsInv'
    BY <2>2, TurnLockKeeps
  <2>3. ASSUME NEW g \in GoalIds, NEW p \in Plans, CreateGoal(g, p) \/ UpdateGoal(g, p) PROVE GoalsInv'
    BY <2>3, PlansKeep
  <2>4. ASSUME NEW g \in GoalIds, NEW s \in Statuses, SetGoalStatus(g, s) PROVE GoalsInv'
    BY <2>4, StatusKeeps
  <2>5. ASSUME NEW g \in GoalIds, NEW m \in Months, CatchUp(g, m) PROVE GoalsInv'
    BY <2>5, CatchUpKeeps
  <2>6. ASSUME NEW g \in GoalIds, NEW m \in Months, Extend(g, m) PROVE GoalsInv'
    BY <2>6, ExtendKeeps
  <2>7. ASSUME NEW c \in Cats, NEW p \in Months \cup {Default}, NEW a \in Amounts, SetCategoryBudget(c, p, a)
        PROVE  GoalsInv'
    BY <2>7, BudgetKeeps
  <2>8. ASSUME NEW m \in Months, NEW c \in Cats, NEW a \in Amounts, Spend(m, c, a) PROVE GoalsInv'
    BY <2>8, SpendKeeps
  <2> QED
    BY <1>1, <2>1, <2>2, <2>3, <2>4, <2>5, <2>6, <2>7, <2>8 DEF GoalsNext
<1>2. CASE UNCHANGED goalsVars
  BY <1>2 DEF goalsVars, GoalsInv, PlanType, BudgetType, HasRow, Exists
<1> QED
  BY <1>1, <1>2

LEMMA GoalsInvHolds == GoalsSpec => []GoalsInv
<1>1. GoalsInit => GoalsInv
  BY GoalAssumption, GoalsStart
<1>2. GoalsInv /\ [GoalsNext]_goalsVars => GoalsInv'
  BY GoalAssumption, GoalsStepKeeps
<1> QED
  BY <1>1, <1>2, PTL DEF GoalsSpec

(* Closing a month again with nothing new changes no row and no status, and  *)
(* a goal that has been paid what was due is not reported behind, whatever    *)
(* the goals, the plans, the budgets and the order in which months are closed.*)
THEOREM GoalLedgerHolds == GoalsSpec => []LedgerHolds
<1>1. GoalsInv => LedgerHolds
  BY GoalAssumption, TypesFollow, AgainNothing, PaidNotBehind DEF LedgerHolds
<1> QED
  BY <1>1, GoalsInvHolds, PTL


-----------------------------------------------------------------------------
(* A replanned goal arrives *)

\* A catch-up asks for the payments that are left.
LEMMA CatchUpArrives ==
    ASSUME GoalAssumption, GoalsInv, NEW g \in GoalIds, NEW m \in Months, CatchUp(g, m)
    PROVE  LET payments == Most(1, DiffMonths(FirstFundable(g, m), plan'[g].targetMonth))
           IN  ContributedThrough(g, m) + payments * plan'[g].monthly >= plan'[g].target
<1>1. PICK pay : /\ plan' = [plan EXCEPT ![g] = [Timed(plan[g]) EXCEPT !.monthly = pay.required]]
                 /\ pay.required \in Nat
                 /\ pay.required * PaymentsLeft(Timed(plan[g]), m, HasRow(g, m)) + ContributedThrough(g, m)
                      >= plan[g].target
  BY CatchUpFacts
<1>2. plan[g] \in Plan
  BY CatchUpFacts
<1>3. PICK p : p = Timed(plan[g])
  OBVIOUS
<1>4. p \in Plan /\ p.start = plan[g].start /\ p.target = plan[g].target /\ p.targetMonth # NoMonth
  BY <1>2, <1>3, TimedFacts
<1>5. plan'[g] = [p EXCEPT !.monthly = pay.required]
  BY <1>1, <1>3 DEF GoalsInv, PlanType
<1>6. plan'[g].monthly = pay.required /\ plan'[g].targetMonth = p.targetMonth /\ plan'[g].target = plan[g].target
  BY <1>4, <1>5 DEF Plan
<1>7. PICK funded : funded = HasRow(g, m)
  OBVIOUS
<1>8. funded \in BOOLEAN /\ m \in Nat \ {0} /\ p.start \in Nat \ {0} /\ p.targetMonth \in Nat
  BY <1>4, <1>7 DEF HasRow, Months, Plan
<1>9. PaymentsLeft(p, m, funded) = Most(1, DiffMonths(FirstFundable(g, m), p.targetMonth))
  <2>1. PlannedTotalMonths(p) = Most(1, DiffMonths(p.start, p.targetMonth))
    BY <1>4, TotalMonths
  <2>2. EffectiveElapsed(p, m, funded) =
          IF funded THEN Minus(m + 1, p.start) ELSE Minus(Minus(m + 1, p.start), 1)
    BY DEF EffectiveElapsed, DiffMonths
  <2>3. FirstFundable(g, m) = Most(p.start, IF funded THEN m + 1 ELSE m)
    BY <1>4, <1>7 DEF FirstFundable
  <2>4. PICK a, b : a = p.start /\ b = p.targetMonth
    OBVIOUS
  <2>5. a \in Nat \ {0} /\ b \in Nat
    BY <2>4, <1>8
  <2>6. Most(1, Minus(Most(1, Minus(b + 1, a)), IF funded THEN Minus(m + 1, a) ELSE Minus(Minus(m + 1, a), 1)))
          = Most(1, Minus(b + 1, Most(a, IF funded THEN m + 1 ELSE m)))
    <3>1. CASE funded
      BY <3>1, <2>5, <1>8 DEF Most, Minus
    <3>2. CASE ~funded
      BY <3>2, <2>5, <1>8 DEF Most, Minus
    <3> QED
      BY <3>1, <3>2
  <2> QED
    BY <2>1, <2>2, <2>3, <2>4, <2>6 DEF PaymentsLeft, DiffMonths
<1>10. PICK payments : payments = Most(1, DiffMonths(FirstFundable(g, m), plan'[g].targetMonth))
  OBVIOUS
<1>11. pay.required * payments + ContributedThrough(g, m) >= plan[g].target
  BY <1>1, <1>3, <1>6, <1>7, <1>9, <1>10
<1>12. payments \in Nat
  <2>1. FirstFundable(g, m) \in Nat
    BY <1>4, <1>8 DEF FirstFundable, Most
  <2> QED
    BY <2>1, <1>6, <1>8, <1>10 DEF Most, DiffMonths, Minus
<1>13. ContributedThrough(g, m) \in Nat /\ pay.required \in Nat
  BY <1>1, ContributedThroughType
<1>14. payments * pay.required = pay.required * payments /\ pay.required * payments \in Nat
  BY <1>12, <1>13
<1>15. ContributedThrough(g, m) + payments * pay.required >= plan[g].target
  BY <1>11, <1>13, <1>14
<1> QED
  BY <1>6, <1>10, <1>15

\* An extension leaves room for the payments that are needed.
LEMMA ExtendArrives ==
    ASSUME GoalAssumption, GoalsInv, NEW g \in GoalIds, NEW m \in Months, Extend(g, m)
    PROVE  LET payments == Most(1, DiffMonths(FirstFundable(g, m), plan'[g].targetMonth))
           IN  ContributedThrough(g, m) + payments * plan'[g].monthly >= plan'[g].target
<1>1. PICK pay : /\ pay = PayoffStatus(plan[g], ContributedThrough(g, m), m, HasRow(g, m))
                 /\ pay.remaining > 0 /\ pay.projected # NoMonth /\ pay.projected \in Nat
                 /\ plan' = [plan EXCEPT ![g].targetMonth = Most(plan[g].targetMonth, pay.projected)]
  BY ExtendFacts
<1>2. plan[g] \in Plan
  BY ExtendFacts
<1>3. PICK p, c, funded : p = plan[g] /\ c = ContributedThrough(g, m) /\ funded = HasRow(g, m)
  OBVIOUS
<1>4. c \in Nat /\ m \in Nat \ {0} /\ funded \in BOOLEAN
  <2>1. c \in Nat
    BY <1>3, ContributedThroughType
  <2>2. m \in Nat \ {0}
    BY DEF Months, GoalAssumption
  <2>3. funded \in BOOLEAN
    BY <1>3 DEF HasRow
  <2> QED
    BY <2>1, <2>2, <2>3
<1>5. p \in Plan /\ p.start \in Nat \ {0} /\ p.monthly \in Nat /\ p.target \in Nat /\ p.targetMonth \in Nat
  BY <1>2, <1>3 DEF Plan
<1>6. /\ pay.remaining \in Nat /\ pay.remaining + c >= p.target
      /\ pay.projected = ProjectedTargetMonth(p, pay.remaining, m, funded)
  <2>1. pay = PayoffStatus(p, c, m, funded)
    BY <1>1, <1>3
  <2> QED
    BY <2>1, <1>4, <1>5, PayoffFacts
<1>7. PICK tm : tm = Most(p.targetMonth, pay.projected)
  OBVIOUS
<1>8. tm \in Nat /\ tm >= pay.projected
  BY <1>1, <1>5, <1>7 DEF Most
<1>9. plan'[g].targetMonth = tm /\ plan'[g].monthly = p.monthly /\ plan'[g].target = p.target
  <2>1. plan' = [plan EXCEPT ![g] = [p EXCEPT !.targetMonth = tm]]
    BY <1>1, <1>3, <1>7
  <2>2. plan'[g] = [p EXCEPT !.targetMonth = tm]
    BY <2>1 DEF GoalsInv, PlanType
  <2> QED
    BY <2>2, <1>5 DEF Plan
<1>10. p.monthly # 0
  <2>1. ASSUME p.monthly = 0 PROVE FALSE
    <3>1. pay.projected = NoMonth
      BY <2>1, <1>1, <1>6 DEF ProjectedTargetMonth
    <3> QED
      BY <3>1, <1>1
  <2> QED
    BY <2>1
<1>11. PICK needed : needed = CeilDiv(pay.remaining, p.monthly)
  OBVIOUS
<1>12. needed \in Nat /\ needed * p.monthly >= pay.remaining
  <2>1. p.monthly \in Nat \ {0}
    BY <1>5, <1>10
  <2> QED
    BY <2>1, <1>6, <1>11, CeilDivFacts
<1>13. pay.projected = IF Minus(m + 1, p.start) = 0 THEN p.start - 1 + needed
                       ELSE IF funded THEN m + needed ELSE m + needed - 1
  BY <1>1, <1>6, <1>10, <1>11 DEF ProjectedTargetMonth, DiffMonths
<1>14. PICK payments : payments = Most(1, DiffMonths(FirstFundable(g, m), tm))
  OBVIOUS
<1>15. payments \in Nat /\ payments >= needed
  <2>1. FirstFundable(g, m) = Most(p.start, IF funded THEN m + 1 ELSE m)
    BY <1>3 DEF FirstFundable
  <2>2. PICK a, j, f : a = p.start /\ j = pay.projected /\ f = FirstFundable(g, m)
    OBVIOUS
  <2>3. a \in Nat \ {0} /\ j \in Nat /\ tm >= j
    BY <2>2, <1>1, <1>5, <1>8
  <2>4. CASE funded
    <3>1. f \in Nat /\ tm + 1 - f >= needed
      BY <2>1, <2>2, <2>3, <2>4, <1>4, <1>8, <1>12, <1>13 DEF Most, Minus
    <3> QED
      BY <3>1, <2>2, <1>8, <1>12, <1>14 DEF Most, Minus, DiffMonths
  <2>5. CASE ~funded
    <3>1. f \in Nat /\ tm + 1 - f >= needed
      BY <2>1, <2>2, <2>3, <2>5, <1>4, <1>8, <1>12, <1>13 DEF Most, Minus
    <3> QED
      BY <3>1, <2>2, <1>8, <1>12, <1>14 DEF Most, Minus, DiffMonths
  <2> QED
    BY <2>4, <2>5
<1>16. payments * p.monthly >= needed * p.monthly
  <2>1. p.monthly * needed <= p.monthly * payments
    BY <1>5, <1>12, <1>15, TimesMonotone
  <2> QED
    BY <2>1, <1>5, <1>12, <1>15
<1>17. payments * p.monthly \in Nat /\ needed * p.monthly \in Nat
  BY <1>5, <1>12, <1>15
<1>18. c + payments * p.monthly >= p.target
  BY <1>4, <1>5, <1>6, <1>12, <1>16, <1>17
<1> QED
  BY <1>3, <1>9, <1>14, <1>18

(* After catching up or extending, the monthly contribution reaches the      *)
(* target by the target month.                                               *)
THEOREM ReplannedGoalsArrive == GoalsSpec => ReplannedGoalArrives
<1>1. GoalsInv => \A g \in GoalIds, m \in Months :
         (CatchUp(g, m) \/ Extend(g, m)) =>
            LET payments == Most(1, DiffMonths(FirstFundable(g, m), plan'[g].targetMonth))
            IN  ContributedThrough(g, m) + payments * plan'[g].monthly >= plan'[g].target
  BY GoalAssumption, CatchUpArrives, ExtendArrives
<1> QED
  BY <1>1, GoalsInvHolds, PTL DEF ReplannedGoalArrives


-----------------------------------------------------------------------------
(* The money of a close *)

\* What a close does to one goal that takes part in it
ClosedFor(g, m) ==
    /\ plan[g] \in Plan
    /\ \A k \in Months \ {m} : ledger'[g][k] = ledger[g][k]
    /\ ledger'[g][m].applied
    /\ ledger'[g][m].planned = PlannedFor(g, ledger[g], m)
    /\ \E other, old, share \in Nat :
         /\ SumFunctionOnSet(Given(ledger[g]), Months) = other + old
         /\ SumFunctionOnSet(Given(ledger'[g]), Months) = other + share
         /\ share <= IF plan[g].target <= other THEN 0 ELSE plan[g].target - other
         /\ status'[g] = StatusAfterClose(plan[g], other + share, status[g])

LEMMA ClosedGoal ==
    ASSUME GoalAssumption, GoalsInv, NEW m \in Months, RunClose(m), NEW g \in GoalIds
    PROVE  \/ ledger'[g] = ledger[g] /\ status'[g] = status[g]
           \/ g \in Goers(m, ledger, status) /\ ClosedFor(g, m)
<1>1. PICK pools, r : /\ Funding(m, ledger, status, pools, r)
                      /\ ledger' = r.ledger /\ status' = r.status
  BY CloseFacts
<1>2. CASE g \notin Goers(m, ledger, status)
  BY <1>1, <1>2 DEF Funding
<1>3. CASE g \in Goers(m, ledger, status)
  <2>1. PICK books, states : books = ledger /\ states = status
    OBVIOUS
  <2>2. books \in Ledgers /\ PlanType /\ BudgetType /\ spent \in [Months -> [Cats -> Nat]]
    BY <2>1 DEF GoalsInv
  <2>3. Funding(m, books, states, pools, r) /\ g \in Goers(m, books, states)
    BY <1>1, <1>3, <2>1
  <2>4. PICK i \in 1..Cardinality(Goers(m, books, states)) : g = ByPriority(Goers(m, books, states))[i]
    BY <2>2, <2>3, TurnOf
  <2> DEFINE D == DOMAIN Underspend(m)
             pool == pools[i - 1]
             order == PoolOrder(Underspend(m))
  <2>5. /\ Turn(m, books, states, pools, r, i)
        /\ plan[g] \in Plan /\ books[g] \in RowsOfGoal
        /\ D \in SUBSET Cats /\ pool \in [D -> Nat] /\ order \in Seq(D) /\ Lists(order, D)
        /\ \A k \in Months \ {m} : r.ledger[g][k] = books[g][k]
    BY <2>2, <2>3, <2>4, TurnFacts
  <2>6. /\ r.ledger[g][m] = FundedRow(g, books[g], m, pool, order)
        /\ r.status[g] = FundedStatus(g, books[g], m, pool, states[g])
    BY <2>4, <2>5 DEF Turn
  <2> HIDE DEF D, pool, order
  <2>7. PICK mine : mine = books[g]
    OBVIOUS
  <2>8. mine \in RowsOfGoal /\ books[g] = mine
    BY <2>5, <2>7
  <2>9. PICK row : row = FundedRow(g, mine, m, pool, order)
    OBVIOUS
  <2>10. row \in Row /\ row.actual = Share(g, mine, m, pool) /\ row.planned = PlannedFor(g, mine, m)
    BY <2>5, <2>8, <2>9, FundedRowFacts
  <2>11. PICK other, old, share : /\ other = ContributedOther(mine, m) /\ old = mine[m].actual
                                  /\ share = Share(g, mine, m, pool)
    OBVIOUS
  <2>12. other \in Nat /\ old \in Nat /\ SumFunctionOnSet(Given(mine), Months) = other + old
    BY <2>8, <2>11, GivenFacts
  <2>13. /\ share \in Nat
         /\ share <= IF plan[g].target <= other THEN 0 ELSE plan[g].target - other
    <3>1. PICK b, w : b = Least(Basis(g, mine, m), PoolLeft(pool)) /\ w = Owing(g, mine, m)
      OBVIOUS
    <3>2. share \in Nat /\ w \in Nat /\ w = IF plan[g].target <= other THEN 0 ELSE plan[g].target - other
      BY <2>5, <2>8, <2>11, <3>1, ShareFacts
    <3>3. share = Least(b, w)
      BY <2>11, <3>1 DEF Share
    <3>4. share <= w
      <4>1. CASE b <= w
        BY <4>1, <3>3 DEF Least
      <4>2. CASE ~(b <= w)
        BY <4>2, <3>2, <3>3 DEF Least
      <4> QED
        BY <4>1, <4>2
    <3> QED
      BY <3>2, <3>4
  <2>14. PICK mine2 : mine2 = r.ledger[g]
    OBVIOUS
  <2>15. mine2[m] = row /\ \A k \in Months \ {m} : mine2[k] = mine[k]
    BY <2>5, <2>6, <2>7, <2>9, <2>14
  <2>16. mine2 \in RowsOfGoal
    BY <1>1, <2>14 DEF Funding, Ledgers
  <2>17. SumFunctionOnSet(Given(mine2), Months) = other + share
    <3>1. ContributedOther(mine2, m) = other
      BY <2>11, <2>15, OtherSame
    <3>2. SumFunctionOnSet(Given(mine2), Months) = mine2[m].actual + ContributedOther(mine2, m)
      BY <2>16, GivenFacts
    <3> QED
      BY <3>1, <3>2, <2>10, <2>11, <2>12, <2>13, <2>15
  <2>18. ledger'[g] = mine2 /\ ledger[g] = mine /\ status'[g] = r.status[g] /\ status[g] = states[g]
    BY <1>1, <2>1, <2>7, <2>14
  <2>19. status'[g] = StatusAfterClose(plan[g], other + share, status[g])
    BY <2>6, <2>7, <2>11, <2>18 DEF FundedStatus
  <2>20. row.applied
    BY <2>10, RowOrNot
  <2>21. \E aa, bb, cc \in Nat :
         /\ SumFunctionOnSet(Given(ledger[g]), Months) = aa + bb
         /\ SumFunctionOnSet(Given(ledger'[g]), Months) = aa + cc
         /\ cc <= IF plan[g].target <= aa THEN 0 ELSE plan[g].target - aa
         /\ status'[g] = StatusAfterClose(plan[g], aa + cc, status[g])
    BY <2>12, <2>13, <2>17, <2>18, <2>19
  <2> QED
    BY <1>3, <2>5, <2>10, <2>15, <2>18, <2>20, <2>21 DEF ClosedFor
<1> QED
  BY <1>2, <1>3

\* Only a close touches the ledger, and only an edit or a close a status.
LEMMA LedgerSteps ==
    ASSUME [GoalsNext]_goalsVars
    PROVE  \/ \E m \in Months : RunClose(m)
           \/ ledger' = ledger /\ (status' = status \/ edits' = edits + 1)
BY DEF GoalsNext, goalsVars, TurnLock, CreateGoal, UpdateGoal, SetGoalStatus, CatchUp, Extend,
   SetCategoryBudget, Spend, Edited, Changed

LEMMA ContributedFacts ==
    ASSUME GoalAssumption, GoalsInv, NEW g \in GoalIds
    PROVE  /\ Contributed(g) = SumFunctionOnSet(Given(ledger[g]), Months)
           /\ Contributed(g)' = SumFunctionOnSet(Given(ledger'[g]), Months)
           /\ Contributed(g) \in Nat
<1>1. /\ Contributed(g) = SumFunctionOnSet(Given(ledger[g]), Months)
      /\ Contributed(g)' = SumFunctionOnSet(Given(ledger'[g]), Months)
  BY DEF Contributed, Given
<1>2. ledger[g] \in RowsOfGoal
  BY DEF GoalsInv, Ledgers
<1>3. IsFiniteSet(Months) /\ \A k \in Months : Given(ledger[g])[k] \in Nat
  <2>1. 1 \in Months
    BY DEF Months, GoalAssumption
  <2>2. PICK mine : mine = ledger[g]
    OBVIOUS
  <2>3. IsFiniteSet(Months) /\ \A k \in Months : Given(mine)[k] \in Nat
    BY <2>1, <2>2, <1>2, GivenFacts
  <2> QED
    BY <2>2, <2>3
<1>4. SumFunctionOnSet(Given(ledger[g]), Months) \in Nat
  BY <1>3, SumType
<1> QED
  BY <1>1, <1>4


LEMMA TargetIsNat == ASSUME NEW p \in Plan PROVE p.target \in Nat /\ p.monthly \in Nat
BY DEF Plan

\* A close gives a goal no more than it lacks.
LEMMA NotOverfunded ==
    ASSUME GoalAssumption, GoalsInv, [GoalsNext]_goalsVars, NEW g \in GoalIds,
           Contributed(g)' > Contributed(g)
    PROVE  Contributed(g)' <= plan'[g].target
<1>1. /\ Contributed(g) = SumFunctionOnSet(Given(ledger[g]), Months)
      /\ Contributed(g)' = SumFunctionOnSet(Given(ledger'[g]), Months)
      /\ Contributed(g) \in Nat
  BY ContributedFacts
<1>2. ledger'[g] # ledger[g]
  BY <1>1
<1>3. PICK m \in Months : RunClose(m)
  BY <1>2, LedgerSteps
<1>4. ClosedFor(g, m)
  BY <1>2, <1>3, ClosedGoal
<1>5. PICK other, old, share \in Nat :
         /\ SumFunctionOnSet(Given(ledger[g]), Months) = other + old
         /\ SumFunctionOnSet(Given(ledger'[g]), Months) = other + share
         /\ share <= IF plan[g].target <= other THEN 0 ELSE plan[g].target - other
  BY <1>4 DEF ClosedFor
<1>6. plan[g].target \in Nat
  BY <1>4, TargetIsNat DEF ClosedFor
<1>7. plan'[g].target = plan[g].target
  BY <1>3 DEF RunClose
<1>8. other + share > other + old
  BY <1>1, <1>5
<1>9. other + share <= plan[g].target
  BY <1>5, <1>6, <1>8
<1> QED
  BY <1>1, <1>5, <1>7, <1>9

\* A status follows the money of the goal.
LEMMA CompletionFollows ==
    ASSUME GoalAssumption, GoalsInv, [GoalsNext]_goalsVars, NEW g \in GoalIds
    PROVE  /\ (status[g] # "completed" /\ status'[g] = "completed" /\ edits' = edits) =>
                Contributed(g)' >= plan[g].target
           /\ (Exists(g) /\ Contributed(g) >= plan[g].target /\ edits' = edits
                /\ Contributed(g)' < plan[g].target) => status'[g] # "completed"
<1>1. /\ Contributed(g) = SumFunctionOnSet(Given(ledger[g]), Months)
      /\ Contributed(g)' = SumFunctionOnSet(Given(ledger'[g]), Months)
      /\ Contributed(g) \in Nat
  BY ContributedFacts
<1>2. CASE ledger'[g] = ledger[g] /\ (status'[g] = status[g] \/ edits' = edits + 1)
  <2>1. edits \in Nat
    BY DEF GoalsInv, GoalAssumption
  <2>2. Contributed(g)' = Contributed(g)
    BY <1>1, <1>2
  <2>3. Exists(g) => plan[g].target \in Nat
    BY PlanOf, TargetIsNat
  <2> QED
    BY <1>1, <1>2, <2>1, <2>2, <2>3
<1>3. ASSUME NEW m \in Months, RunClose(m), ClosedFor(g, m)
      PROVE  /\ (status[g] # "completed" /\ status'[g] = "completed" /\ edits' = edits) =>
                   Contributed(g)' >= plan[g].target
             /\ Contributed(g)' < plan[g].target => status'[g] # "completed"
  <2>1. PICK other, old, share \in Nat :
         /\ SumFunctionOnSet(Given(ledger'[g]), Months) = other + share
         /\ status'[g] = StatusAfterClose(plan[g], other + share, status[g])
    BY <1>3 DEF ClosedFor
  <2>2. plan[g].target \in Nat
    BY <1>3, TargetIsNat DEF ClosedFor
  <2>3. CASE other + share >= plan[g].target
    BY <2>1, <2>2, <2>3, <1>1
  <2>4. CASE other + share < plan[g].target
    <3>1. status'[g] # "completed"
      BY <2>1, <2>2, <2>4 DEF StatusAfterClose
    <3> QED
      BY <3>1
  <2> QED
    BY <2>1, <2>2, <2>3, <2>4
<1>4. CASE \E m \in Months : RunClose(m)
  <2>1. PICK m \in Months : RunClose(m)
    BY <1>4
  <2>2. CASE ClosedFor(g, m)
    BY <2>1, <2>2, <1>3
  <2>3. CASE ~ClosedFor(g, m)
    BY <2>1, <2>3, <1>2, ClosedGoal
  <2> QED
    BY <2>2, <2>3
<1> QED
  BY <1>2, <1>4, LedgerSteps

\* A row keeps the plan it was made with, and its mark.
LEMMA PlanKept ==
    ASSUME GoalAssumption, GoalsInv, [GoalsNext]_goalsVars, NEW g \in GoalIds, NEW m \in Months,
           HasRow(g, m)
    PROVE  ledger'[g][m].applied /\ ledger'[g][m].planned = ledger[g][m].planned
<1>1. ledger[g][m] \in Row \cup {NoRow} /\ ledger[g][m] # NoRow
  BY DEF GoalsInv, Ledgers, RowsOfGoal, HasRow
<1>2. ledger[g][m].applied
  BY <1>1, RowOrNot
<1>3. CASE ledger'[g][m] = ledger[g][m]
  BY <1>2, <1>3
<1>4. ASSUME NEW k \in Months, RunClose(k), ClosedFor(g, k)
      PROVE  ledger'[g][m].applied /\ ledger'[g][m].planned = ledger[g][m].planned
  <2>1. CASE k = m
    <3>1. PlannedFor(g, ledger[g], m) = ledger[g][m].planned
      BY <1>1 DEF PlannedFor, PlannedOf
    <3> QED
      BY <2>1, <3>1, <1>4 DEF ClosedFor
  <2>2. CASE k # m
    <3>1. ledger'[g][m] = ledger[g][m]
      BY <2>2, <1>4 DEF ClosedFor
    <3> QED
      BY <3>1, <1>3
  <2> QED
    BY <2>1, <2>2
<1>5. CASE \E k \in Months : RunClose(k)
  <2>1. PICK k \in Months : RunClose(k)
    BY <1>5
  <2>2. ledger'[g] = ledger[g] \/ ClosedFor(g, k)
    BY <2>1, ClosedGoal
  <2> QED
    BY <2>1, <2>2, <1>3, <1>4
<1> QED
  BY <1>3, <1>5, LedgerSteps

\* A locked month has nobody to fund, or is not closed.
LEMMA LockedKept ==
    ASSUME GoalAssumption, GoalsInv, [GoalsNext]_goalsVars, NEW g \in GoalIds, NEW m \in lockedMonths
    PROVE  ledger'[g][m] = ledger[g][m]
<1>1. m \in Months
  BY DEF GoalsInv
<1>2. ASSUME NEW k \in Months, RunClose(k) PROVE ledger'[g][m] = ledger[g][m]
  <2>1. CASE ledger'[g] = ledger[g]
    BY <2>1
  <2>2. CASE g \in Goers(k, ledger, status) /\ ClosedFor(g, k)
    <3>1. k \notin lockedMonths
      <4>1. Participates(g, k) /\ LedgerGuard(k)
        BY <1>2, <2>2 DEF Goers, Participates, RunClose
      <4> QED
        BY <4>1 DEF LedgerGuard
    <3>2. m # k
      BY <3>1
    <3> QED
      BY <2>2, <3>2, <1>1 DEF ClosedFor
  <2> QED
    BY <1>2, <2>1, <2>2, ClosedGoal
<1> QED
  BY <1>2, LedgerSteps


Firsts(o, k) == {o[i] : i \in 1..k}

\* The i-th of n takes val[o[i]] out of what the ones before it left, p[i - 1].
Drains(n, o, val, p) ==
    /\ \A i, j \in 1..n : i # j => o[i] # o[j]
    /\ \A i \in 1..n : val[o[i]] \in Nat /\ p[i] + val[o[i]] = p[i - 1]
    /\ \A i \in 0..n : p[i] \in Nat

\* What is taken out of a bucket turn by turn is what it held at first less what
\* it holds in the end.
LEMMA TurnsAddUp ==
    ASSUME NEW n \in Nat, NEW o, NEW val, NEW p, Drains(n, o, val, p)
    PROVE  IsFiniteSet(Firsts(o, n)) /\ SumFunctionOnSet(val, Firsts(o, n)) + p[n] = p[0]
<1> USE DEF Firsts, Drains
<1> DEFINE T(k) == {o[i] : i \in 1..k}
           Good(k) == IsFiniteSet(T(k)) /\ SumFunctionOnSet(val, T(k)) + p[k] = p[0]
           Bad == {k \in 0..n : ~Good(k)}
<1>1. Good(0)
  <2>1. T(0) = {}
    OBVIOUS
  <2>2. IsFiniteSet(T(0)) /\ SumFunctionOnSet(val, T(0)) = 0
    BY <2>1, SumEmpty, FS_EmptySet
  <2>3. p[0] \in Nat
    OBVIOUS
  <2> QED
    BY <2>2, <2>3
<1>2. ASSUME Bad # {} PROVE FALSE
  <2>1. PICK k \in Bad : \A j \in Bad : k <= j
    <3>1. Bad \subseteq Nat
      OBVIOUS
    <3> HIDE DEF Bad
    <3> QED
      BY <1>2, <3>1, LeastNumber
  <2>2. k \in 1..n /\ k - 1 \in 0..n /\ ~(k <= k - 1) /\ k \in 0..n
    <3>1. k \in 0..n /\ k # 0
      BY <1>1
    <3> QED
      BY <3>1
  <2>3. k - 1 \notin Bad
    BY <2>1, <2>2
  <2>4. Good(k - 1)
    BY <2>2, <2>3
  <2>5. T(k) = T(k - 1) \cup {o[k]}
    <3>1. \A i \in 1..k : i = k \/ i \in 1..(k - 1)
      BY <2>2
    <3>2. k \in 1..k /\ \A i \in 1..(k - 1) : i \in 1..k
      BY <2>2
    <3> QED
      BY <3>1, <3>2
  <2>6. o[k] \notin T(k - 1)
    <3>1. \A i \in 1..(k - 1) : i \in 1..n /\ i # k
      BY <2>2
    <3> QED
      BY <3>1, <2>2
  <2>7. \A x \in T(k - 1) \cup {o[k]} : val[x] \in Int
    <3>1. \A i \in 1..(k - 1) : i \in 1..n
      BY <2>2
    <3> QED
      BY <3>1, <2>2
  <2> DEFINE U == T(k - 1)
  <2>8. IsFiniteSet(U) /\ o[k] \notin U /\ \A x \in U \cup {o[k]} : val[x] \in Int
    BY <2>4, <2>6, <2>7
  <2>9. T(k) = U \cup {o[k]} /\ SumFunctionOnSet(val, U) + p[k - 1] = p[0]
    BY <2>4, <2>5
  <2> HIDE DEF U, T
  <2>10. IsFiniteSet(U \cup {o[k]}) /\ SumFunctionOnSet(val, U \cup {o[k]}) = SumFunctionOnSet(val, U) + val[o[k]]
    <3>1. PICK a : a = o[k]
      OBVIOUS
    <3>2. IsFiniteSet(U) /\ a \notin U /\ \A x \in U \cup {a} : val[x] \in Int
      BY <2>8, <3>1
    <3>3. SumFunctionOnSet(val, U \cup {a}) = SumFunctionOnSet(val, U) + val[a]
      BY <3>2, SumAdd
    <3>4. IsFiniteSet(U \cup {a})
      BY <3>2, FS_AddElement
    <3> QED
      BY <3>1, <3>3, <3>4
  <2>11. SumFunctionOnSet(val, U) \in Int
    BY <2>8, SumType
  <2>12. p[k] \in Nat /\ p[k - 1] \in Nat /\ p[0] \in Nat /\ val[o[k]] \in Nat /\ p[k] + val[o[k]] = p[k - 1]
    BY <2>2
  <2>13. SumFunctionOnSet(val, T(k)) + p[k] = p[0] /\ IsFiniteSet(T(k))
    BY <2>9, <2>10, <2>11, <2>12
  <2> QED
    BY <2>13, <2>1
<1>3. n \in 0..n
  OBVIOUS
<1>4. Good(n)
  <2> HIDE DEF Good
  <2> QED
    BY <1>2, <1>3
<1> QED
  BY <1>4

\* What a close hands out of a category is what was left in it at most.
LEMMA SpentOnce ==
    ASSUME GoalAssumption, GoalsInv, NEW m \in Months, RunClose(m), NEW c \in Cats
    PROVE  LET goals == Goers(m, ledger, status)
           IN  SumFunctionOnSet([g \in goals |-> ledger'[g][m].sources[c]], goals)
                 <= Minus(Budgeted(c, m), spent[m][c])
<1>1. PICK pools, r : /\ Funding(m, ledger, status, pools, r)
                      /\ ledger' = r.ledger /\ status' = r.status
  BY CloseFacts
<1>2. PICK books, states : books = ledger /\ states = status
  OBVIOUS
<1>3. books \in Ledgers /\ PlanType /\ BudgetType /\ spent \in [Months -> [Cats -> Nat]]
      /\ Funding(m, books, states, pools, r)
  BY <1>1, <1>2 DEF GoalsInv
<1> DEFINE goals == Goers(m, books, states)
           n == Cardinality(goals)
           o == ByPriority(goals)
           U == Underspend(m)
           D == DOMAIN U
           order == PoolOrder(U)
           val == [g \in goals |-> r.ledger[g][m].sources[c]]
           p == [i \in 0..n |-> IF c \in D THEN pools[i][c] ELSE 0]
<1>4. goals \in SUBSET GoalIds /\ Lists(o, goals) /\ n \in Nat
  BY <1>3, GoersFacts
<1>5. /\ D \in SUBSET Cats /\ U \in [D -> Nat]
      /\ Minus(Budgeted(c, m), spent[m][c]) = IF c \in D THEN U[c] ELSE 0
  BY <1>3, UnderspendFacts
<1>6. pools \in [0..n -> [D -> Nat]] /\ pools[0] = U
  BY <1>3 DEF Funding
<1>7. DOMAIN o = 1..n /\ (\A i \in 1..n : o[i] \in goals)
      /\ (\A i, j \in 1..n : i # j => o[i] # o[j]) /\ (\A g \in goals : \E i \in 1..n : o[i] = g)
  BY <1>4 DEF Lists
<1>8. ASSUME NEW i \in 1..n
      PROVE  val[o[i]] \in Nat /\ p[i] + val[o[i]] = p[i - 1]
  <2>1. PICK g : g = o[i]
    OBVIOUS
  <2>2. i - 1 \in 0..n /\ i \in 0..n
    BY <1>4
  <2>3. /\ Turn(m, books, states, pools, r, i)
        /\ plan[g] \in Plan /\ books[g] \in RowsOfGoal
        /\ pools[i - 1] \in [D -> Nat] /\ order \in Seq(D) /\ Lists(order, D)
    BY <1>3, <2>1, TurnFacts
  <2>4. PICK pool, mine : pool = pools[i - 1] /\ mine = books[g]
    OBVIOUS
  <2>5. /\ r.ledger[g][m] = FundedRow(g, mine, m, pool, order)
        /\ pools[i] = DrawnFor(g, mine, m, pool, order).pool
    BY <2>1, <2>3, <2>4 DEF Turn
  <2>6. g \in goals /\ val[g] = r.ledger[g][m].sources[c]
    BY <1>7, <2>1
  <2> HIDE DEF D, order, goals, n, o, val, U
  <2>7. PICK row, left : row = FundedRow(g, mine, m, pool, order) /\ left = DrawnFor(g, mine, m, pool, order).pool
    OBVIOUS
  <2>8. /\ row \in Row /\ left \in [D -> Nat]
        /\ \A e \in D : left[e] + row.sources[e] = pool[e]
        /\ \A e \in Cats \ D : row.sources[e] = 0
    <3>1. mine \in RowsOfGoal /\ pool \in [D -> Nat]
      BY <2>3, <2>4
    <3>2. D \in SUBSET Cats
      BY <1>5
    <3>3. order \in Seq(D) /\ Lists(order, D) /\ plan[g] \in Plan
      BY <2>3
    <3>4. PICK S, seq : S = D /\ seq = order
      OBVIOUS
    <3>5. S \in SUBSET Cats /\ seq \in Seq(S) /\ Lists(seq, S) /\ pool \in [S -> Nat]
      BY <3>1, <3>2, <3>3, <3>4
    <3>6. /\ FundedRow(g, mine, m, pool, seq) \in Row
          /\ DrawnFor(g, mine, m, pool, seq).pool \in [S -> Nat]
          /\ \A e \in S : DrawnFor(g, mine, m, pool, seq).pool[e]
                          + FundedRow(g, mine, m, pool, seq).sources[e] = pool[e]
          /\ \A e \in Cats \ S : FundedRow(g, mine, m, pool, seq).sources[e] = 0
      BY <3>1, <3>3, <3>5, FundedRowFacts
    <3> QED
      BY <2>7, <3>4, <3>6
  <2>9. row.sources[c] \in Nat
    BY <2>8 DEF Row
  <2>10. val[o[i]] = row.sources[c]
    BY <2>1, <2>5, <2>6, <2>7
  <2>11. p[i] = (IF c \in D THEN left[c] ELSE 0) /\ p[i - 1] = (IF c \in D THEN pool[c] ELSE 0)
    BY <2>2, <2>4, <2>5, <2>7
  <2> HIDE DEF p
  <2>12. CASE c \in D
    <3>1. left[c] \in Nat /\ left[c] + row.sources[c] = pool[c]
      BY <2>8, <2>12
    <3> QED
      BY <2>9, <2>10, <2>11, <2>12, <3>1
  <2>13. CASE c \notin D
    <3>1. row.sources[c] = 0
      BY <2>8, <2>13
    <3> QED
      BY <2>10, <2>11, <2>13, <3>1
  <2> QED
    BY <2>12, <2>13
<1>9. \A i \in 0..n : p[i] \in Nat
  BY <1>6
<1>10. p[0] = IF c \in D THEN U[c] ELSE 0
  BY <1>4, <1>6
<1>11. n \in 0..n
  BY <1>4
<1> HIDE DEF p, val, o, n, goals, D, U
<1> DEFINE T == Firsts(o, n)
<1>12. IsFiniteSet(T) /\ SumFunctionOnSet(val, T) + p[n] = p[0]
  <2>1. IsFiniteSet(Firsts(o, n)) /\ SumFunctionOnSet(val, Firsts(o, n)) + p[n] = p[0]
    <3>1. PICK N, O, V, P : N = n /\ O = o /\ V = val /\ P = p
      OBVIOUS
    <3>2. N \in Nat /\ \A i, j \in 1..N : i # j => O[i] # O[j]
      BY <3>1, <1>4, <1>7
    <3>3. Drains(N, O, V, P)
      BY <3>1, <3>2, <1>8, <1>9 DEF Drains
    <3>4. IsFiniteSet(Firsts(O, N)) /\ SumFunctionOnSet(V, Firsts(O, N)) + P[N] = P[0]
      BY <3>2, <3>3, TurnsAddUp
    <3> QED
      BY <3>1, <3>4
  <2> QED
    BY <2>1, <1>11
<1>13. T = goals
  BY <1>7 DEF Firsts
<1>14. \A x \in T : val[x] \in Nat
  BY <1>8 DEF Firsts
<1> HIDE DEF T
<1>15. SumFunctionOnSet(val, T) \in Nat
  BY <1>12, <1>14, SumType
<1>16. p[n] \in Nat /\ p[0] \in Nat
  BY <1>4, <1>9, <1>11
<1>17. SumFunctionOnSet(val, goals) <= Minus(Budgeted(c, m), spent[m][c])
  BY <1>5, <1>10, <1>12, <1>13, <1>15, <1>16
<1>18. val = [g \in goals |-> ledger'[g][m].sources[c]] /\ goals = Goers(m, ledger, status)
  BY <1>1, <1>2 DEF val, goals
<1> QED
  BY <1>17, <1>18

\* The note of a row accounts for what the row received.
LEMMA NotesAddUp ==
    ASSUME GoalAssumption, GoalsInv, NEW m \in Months, RunClose(m),
           NEW g \in Goers(m, ledger, status)
    PROVE  ledger'[g][m].actual = SumFunctionOnSet(ledger'[g][m].sources, Cats)
<1>1. PICK pools, r : /\ Funding(m, ledger, status, pools, r)
                      /\ ledger' = r.ledger /\ status' = r.status
  BY CloseFacts
<1>2. PICK books, states : books = ledger /\ states = status
  OBVIOUS
<1>3. books \in Ledgers /\ PlanType /\ BudgetType /\ spent \in [Months -> [Cats -> Nat]]
      /\ Funding(m, books, states, pools, r) /\ g \in Goers(m, books, states)
  BY <1>1, <1>2 DEF GoalsInv
<1>4. PICK i \in 1..Cardinality(Goers(m, books, states)) : g = ByPriority(Goers(m, books, states))[i]
  BY <1>3, TurnOf
<1> DEFINE D == DOMAIN Underspend(m)
           order == PoolOrder(Underspend(m))
<1>5. /\ Turn(m, books, states, pools, r, i)
      /\ plan[g] \in Plan /\ books[g] \in RowsOfGoal /\ D \in SUBSET Cats
      /\ pools[i - 1] \in [D -> Nat] /\ order \in Seq(D) /\ Lists(order, D)
  BY <1>3, <1>4, TurnFacts
<1>6. PICK pool, mine : pool = pools[i - 1] /\ mine = books[g]
  OBVIOUS
<1>7. r.ledger[g][m] = FundedRow(g, mine, m, pool, order)
  BY <1>4, <1>5, <1>6 DEF Turn
<1> HIDE DEF D, order
<1>8. PICK row : row = FundedRow(g, mine, m, pool, order)
  OBVIOUS
<1>9. row.actual = SumFunctionOnSet(row.sources, Cats)
  <2>1. mine \in RowsOfGoal /\ pool \in [D -> Nat]
    BY <1>5, <1>6
  <2> QED
    BY <1>5, <1>8, <2>1, FundedRowFacts
<1> QED
  BY <1>1, <1>7, <1>8, <1>9

LEMMA SpentOnceStep ==
    ASSUME GoalAssumption, GoalsInv, [GoalsNext]_goalsVars, NEW m \in Months,
           \E g \in GoalIds : ledger'[g][m] # ledger[g][m]
    PROVE  LET goals == {g \in GoalIds : Participates(g, m)}
               drawn(c) == SumFunctionOnSet([g \in goals |-> ledger'[g][m].sources[c]], goals)
           IN  /\ \A c \in Cats : drawn(c) <= Minus(Budgeted(c, m), spent[m][c])
               /\ \A g \in goals : ledger'[g][m].actual = SumFunctionOnSet(ledger'[g][m].sources, Cats)
<1>1. PICK k \in Months : RunClose(k)
  BY LedgerSteps
<1>2. k = m
  <2>1. PICK g \in GoalIds : ledger'[g][m] # ledger[g][m]
    OBVIOUS
  <2>2. ClosedFor(g, k)
    BY <1>1, <2>1, ClosedGoal
  <2> QED
    BY <2>1, <2>2 DEF ClosedFor
<1>3. {g \in GoalIds : Participates(g, m)} = Goers(m, ledger, status)
  BY DEF Goers, Participates
<1>4. \A c \in Cats :
         SumFunctionOnSet([g \in Goers(m, ledger, status) |-> ledger'[g][m].sources[c]],
                          Goers(m, ledger, status)) <= Minus(Budgeted(c, m), spent[m][c])
  BY <1>1, <1>2, SpentOnce
<1>5. \A g \in Goers(m, ledger, status) :
         ledger'[g][m].actual = SumFunctionOnSet(ledger'[g][m].sources, Cats)
  BY <1>1, <1>2, NotesAddUp
<1> QED
  BY <1>3, <1>4, <1>5

(* No unit of underspend is spent twice, no goal gets more than its target,   *)
(* what a month was planned to give stands, completion follows the money, and *)
(* a locked month keeps its books, in whatever order months are closed.        *)
THEOREM GoalMoneyAccounted == GoalsSpec => MoneyAccounted
<1>1. GoalsInv /\ [GoalsNext]_goalsVars =>
        \A g \in GoalIds : Contributed(g)' > Contributed(g) => Contributed(g)' <= plan'[g].target
  BY GoalAssumption, NotOverfunded
<1>2. GoalsInv /\ [GoalsNext]_goalsVars =>
        \A m \in Months :
         LET goals == {g \in GoalIds : Participates(g, m)}
             drawn(c) == SumFunctionOnSet([g \in goals |-> ledger'[g][m].sources[c]], goals)
         IN  (\E g \in GoalIds : ledger'[g][m] # ledger[g][m]) =>
                /\ \A c \in Cats : drawn(c) <= Minus(Budgeted(c, m), spent[m][c])
                /\ \A g \in goals : ledger'[g][m].actual =
                     SumFunctionOnSet(ledger'[g][m].sources, Cats)
  BY GoalAssumption, SpentOnceStep
<1>3. GoalsInv /\ [GoalsNext]_goalsVars =>
        \A g \in GoalIds, m \in Months :
         HasRow(g, m) => /\ ledger'[g][m].applied
                         /\ ledger'[g][m].planned = ledger[g][m].planned
  BY GoalAssumption, PlanKept
<1>4. GoalsInv /\ [GoalsNext]_goalsVars =>
        \A g \in GoalIds :
         /\ (status[g] # "completed" /\ status'[g] = "completed" /\ edits' = edits) =>
                Contributed(g)' >= plan[g].target
         /\ (Exists(g) /\ Contributed(g) >= plan[g].target /\ edits' = edits
                /\ Contributed(g)' < plan[g].target) => status'[g] # "completed"
  BY GoalAssumption, CompletionFollows
<1>5. GoalsInv /\ [GoalsNext]_goalsVars =>
        \A g \in GoalIds, m \in lockedMonths : ledger'[g][m] = ledger[g][m]
  BY GoalAssumption, LockedKept
<1>6. GoalsSpec => NeverOverfunded
  BY <1>1, GoalsInvHolds, PTL DEF GoalsSpec, NeverOverfunded
<1>7. GoalsSpec => UnderspendSpentOnce
  BY <1>2, GoalsInvHolds, PTL DEF GoalsSpec, UnderspendSpentOnce
<1>8. GoalsSpec => PlanFrozen
  BY <1>3, GoalsInvHolds, PTL DEF GoalsSpec, PlanFrozen
<1>9. GoalsSpec => CompletionFollowsMoney
  BY <1>4, GoalsInvHolds, PTL DEF GoalsSpec, CompletionFollowsMoney
<1>10. GoalsSpec => LockedMonthsKept
  BY <1>5, GoalsInvHolds, PTL DEF GoalsSpec, LockedMonthsKept
<1> QED
  BY <1>6, <1>7, <1>8, <1>9, <1>10 DEF MoneyAccounted
==============================================================================
