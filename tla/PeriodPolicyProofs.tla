------------------------- MODULE PeriodPolicyProofs -------------------------
(***************************************************************************)
(* The safety of PeriodPolicy for every set of months, rows and keys, and  *)
(* of CloseReadiness for every ledger, statement and account.              *)
(*                                                                         *)
(* None of the properties of PeriodPolicy is inductive alone.  That the    *)
(* acknowledgement a close picks is one of the current ones needs that     *)
(* there is at most one (OneCurrentPreack); that withdrawing never touches *)
(* a consumed one needs that consumed rows are the sources of cycles       *)
(* (FrozenAcknowledged).  So the parts are proved together, as PolicyInv.  *)
(***************************************************************************)
EXTENDS PeriodPolicy, CloseReadiness, Sums, FiniteSetTheorems, TLAPS

-----------------------------------------------------------------------------
(* Helpers *)

(* The payload that a close freezes for a subject is an integer. *)
LEMMA EffectiveInt ==
    ASSUME TypeOK, NEW m \in Months, NEW s \in Subjects
    PROVE  Effective(m, s) \in Int
<1>1. Live(m, s) \in Int
  BY DEF TypeOK, Live, Subjects
<1>2. ASSUME UnresolvedCycles(m, s) # {}
      PROVE  cycles[m][CHOOSE c \in UnresolvedCycles(m, s) : TRUE].frozen[s] \in Int
  <2>1. PICK c \in UnresolvedCycles(m, s) :
              c = CHOOSE d \in UnresolvedCycles(m, s) : TRUE
    BY <1>2
  <2>2. c \in DOMAIN cycles[m]
    BY DEF UnresolvedCycles, LatestCycles
  <2>3. cycles[m][c] \in Cycle
    BY <2>2 DEF TypeOK
  <2>4. cycles[m][c].frozen[s] \in Int
    BY <2>3 DEF Cycle
  <2> QED BY <2>1, <2>4
<1> QED BY <1>1, <1>2 DEF Effective

(* With at most one unused acknowledgement per exception, the newest of them *)
(* is one of them.                                                           *)
LEMMA NewestIsCurrent ==
    ASSUME TypeOK, OneCurrentPreack, NEW m, NEW s, NEW p,
           CurrentPreacks(m, s, p) # {}
    PROVE  Newest(CurrentPreacks(m, s, p)) \in CurrentPreacks(m, s, p)
<1>1. PICK i : i \in CurrentPreacks(m, s, p)
  OBVIOUS
<1>2. ASSUME NEW j \in CurrentPreacks(m, s, p)
      PROVE  j = i
  <2>1. /\ i \in DOMAIN preacks /\ j \in DOMAIN preacks
        /\ preacks[i].month = m /\ preacks[i].subject = s /\ preacks[i].payload = p
        /\ preacks[j].month = m /\ preacks[j].subject = s /\ preacks[j].payload = p
        /\ ~preacks[i].withdrawn /\ ~preacks[j].withdrawn
        /\ ~Consumed(i) /\ ~Consumed(j)
    BY <1>1 DEF CurrentPreacks, PreacksFor
  <2>2. preacks[i] \in Preack /\ preacks[j] \in Preack
    BY <2>1 DEF TypeOK
  <2>3. preacks[i] = preacks[j]
    BY <2>1, <2>2 DEF Preack
  <2> QED BY <2>1, <2>3 DEF OneCurrentPreack
<1>3. i \in Nat
  BY <1>1 DEF CurrentPreacks, PreacksFor, TypeOK
<1>4. \E k \in CurrentPreacks(m, s, p) : \A j \in CurrentPreacks(m, s, p) : j <= k
  BY <1>1, <1>2, <1>3
<1> QED BY <1>4 DEF Newest

(* What a close appends is a cycle whose sources are current acknowledgements *)
(* of exactly the exceptions it freezes.                                      *)
LEMMA NewCycleProperties ==
    ASSUME PolicyInv, NEW m \in Months,
           \A s \in Excepted(m) : Acknowledged(m, s)
    PROVE  /\ NewCycle(m) \in Cycle
           /\ \A s \in Subjects :
                IF NewCycle(m).frozen[s] = 0 THEN NewCycle(m).source[s] = 0
                ELSE NewCycle(m).source[s] \in CurrentPreacks(m, s, NewCycle(m).frozen[s])
           /\ (CloseState(m) = "clean_closed") <=> (\A s \in Subjects : NewCycle(m).frozen[s] = 0)
<1>1. ASSUME NEW s \in Subjects, Effective(m, s) # 0
      PROVE  Newest(CurrentPreacks(m, s, Effective(m, s))) \in
                 CurrentPreacks(m, s, Effective(m, s))
  BY <1>1, NewestIsCurrent DEF PolicyInv, Excepted, Acknowledged
<1>2. \A s \in Subjects : CurrentPreacks(m, s, Effective(m, s)) \subseteq Nat \ {0}
  BY DEF CurrentPreacks, PreacksFor, PolicyInv, TypeOK
<1>3. NewCycle(m).source \in [Subjects -> Nat]
  BY <1>1, <1>2 DEF NewCycle, FrozenPayloads, FrozenSources, Excepted
<1>4. NewCycle(m).frozen \in [Subjects -> Int]
  BY EffectiveInt DEF NewCycle, FrozenPayloads, FrozenSources, PolicyInv
<1>5. NewCycle(m) \in Cycle
  BY <1>3, <1>4 DEF NewCycle, FrozenPayloads, FrozenSources, Cycle, CloseState, ClosedStates, PolicyInv, TypeOK
<1>6. \A s \in Subjects :
         IF NewCycle(m).frozen[s] = 0 THEN NewCycle(m).source[s] = 0
         ELSE NewCycle(m).source[s] \in CurrentPreacks(m, s, NewCycle(m).frozen[s])
  BY <1>1 DEF NewCycle, FrozenPayloads, FrozenSources, Excepted
<1>7. (CloseState(m) = "clean_closed") <=> (\A s \in Subjects : NewCycle(m).frozen[s] = 0)
  BY DEF NewCycle, FrozenPayloads, FrozenSources, CloseState, Excepted
<1> QED BY <1>5, <1>6, <1>7

(* Writers keep the evidence well typed and touch rows of the months they    *)
(* name only.                                                                *)
LEMMA MutationProperties ==
    ASSUME TypeOK, NEW ms \in WriteSets, Mutation(ms)
    PROVE  /\ gap' \in [Months -> [Rows -> Int]]
           /\ drift' \in [Months -> Int]
           /\ \A m \in Months : gap'[m] # gap[m] => m \in ms
<1> USE DEF TypeOK
<1>1. \A m \in Months : drift'[m] \in Int
  BY PayloadAssumption DEF Mutation
<1>2. CASE \E m \in Months, r \in Rows, v \in Versions \cup {0} : ms = {m} /\ EditRow(m, r, v)
  BY <1>2, PayloadAssumption DEF EditRow
<1>3. CASE \E m \in Months, d \in {0} \cup Amounts : ms = {m} /\ AssertBalance(m, d)
  BY <1>3, PayloadAssumption DEF AssertBalance
<1>4. CASE \E m \in Months, a \in Amounts : ms = {m} /\ Post(m, a)
  BY <1>4, <1>1, PayloadAssumption DEF Post
<1>5. CASE \E m, n \in Months, r \in Rows, a \in Amounts : ms = {m, n} /\ Redate(m, n, r, a)
  <2>1. PICK m \in Months, n \in Months, r \in Rows, a \in Amounts :
               ms = {m, n} /\ Redate(m, n, r, a)
    BY <1>5
  <2>2. gap' = [gap EXCEPT ![m][r] = 0, ![n][r] = gap[m][r]]
    BY <2>1 DEF Redate
  <2> DEFINE cleared == [gap EXCEPT ![m][r] = 0]
  <2>3. /\ cleared \in [Months -> [Rows -> Int]]
        /\ \A d \in Months : d # m => cleared[d] = gap[d]
    OBVIOUS
  <2>4. gap' = [cleared EXCEPT ![n][r] = gap[m][r]] /\ gap[m][r] \in Int
    BY <2>2
  <2> HIDE DEF cleared
  <2>5. gap' \in [Months -> [Rows -> Int]] /\ \A d \in Months : gap'[d] # gap[d] => d \in ms
    BY <2>1, <2>3, <2>4
  <2>6. drift' \in [Months -> Int]
    BY <2>1, <1>1 DEF Redate
  <2> QED BY <2>5, <2>6
<1> QED BY <1>2, <1>3, <1>4, <1>5 DEF Mutation

(* The parts about acknowledgements read only the cycles and the reviews.    *)
LEMMA ReviewFrame ==
    ASSUME PolicyInv, UNCHANGED <<cycles, preacks>>
    PROVE  FrozenAcknowledged' /\ PreackUsedOnce' /\ OneCurrentPreack'
BY DEF PolicyInv, FrozenAcknowledged, PreackUsedOnce, OneCurrentPreack, Consumed

(* The part about snapshots holds again when a step leaves each month either *)
(* unlocked or with the cycles, rows and state it had.                       *)
LEMMA SnapshotFrame ==
    ASSUME SnapshotDescribesMonth, UNCHANGED cycles,
           \A m \in Months : \/ ~Locked(m)'
                             \/ status'[m] = status[m] /\ gap'[m] = gap[m]
    PROVE  SnapshotDescribesMonth'
BY DEF SnapshotDescribesMonth, Locked, LastCycle

-----------------------------------------------------------------------------
(* The invariant *)

LEMMA InitInv == Init => PolicyInv
<1> SUFFICES ASSUME Init PROVE PolicyInv
  OBVIOUS
<1> USE DEF Init
<1>1. TypeOK
  BY DEF TypeOK, ClosedStates
<1>2. FrozenAcknowledged /\ PreackUsedOnce /\ OneCurrentPreack
  BY DEF FrozenAcknowledged, PreackUsedOnce, OneCurrentPreack
<1>3. SnapshotDescribesMonth
  BY DEF SnapshotDescribesMonth, Locked, ClosedStates
<1> QED BY <1>1, <1>2, <1>3 DEF PolicyInv

LEMMA AcknowledgePrecloseInv ==
    ASSUME PolicyInv, NEW m \in Months, NEW s \in Subjects, AcknowledgePreclose(m, s)
    PROVE  PolicyInv'
<1> DEFINE p == Effective(m, s)
           row == [month |-> m, subject |-> s, payload |-> p, withdrawn |-> FALSE]
<1>1. p \in Int
  BY EffectiveInt DEF PolicyInv
<1>2. row \in Preack
  BY <1>1 DEF Preack
<1>3. /\ preacks' = Append(preacks, row)
      /\ UNCHANGED <<gap, drift, status, cycles, acked, resolutions, closeKeys, overrides>>
      /\ CurrentPreacks(m, s, p) = {}
  BY DEF AcknowledgePreclose, AddPreack, evidence
<1> HIDE DEF p, row
<1>4. TypeOK'
  BY <1>2, <1>3 DEF TypeOK, PolicyInv
<1>5. /\ DOMAIN preacks' = DOMAIN preacks \cup {Len(preacks) + 1}
      /\ preacks'[Len(preacks) + 1] = row
      /\ \A i \in DOMAIN preacks : preacks'[i] = preacks[i]
  BY <1>2, <1>3 DEF TypeOK, PolicyInv
<1>6. FrozenAcknowledged'
  BY <1>3, <1>5 DEF FrozenAcknowledged, PolicyInv
<1>7. PreackUsedOnce'
  BY <1>3 DEF PreackUsedOnce, PolicyInv
<1>8. OneCurrentPreack'
  <2> SUFFICES ASSUME NEW i \in DOMAIN preacks', NEW j \in DOMAIN preacks',
                      preacks'[i] = preacks'[j], ~preacks'[i].withdrawn,
                      ~Consumed(i)', ~Consumed(j)'
               PROVE  i = j
    BY DEF OneCurrentPreack
  <2>1. ~Consumed(i) /\ ~Consumed(j)
    BY <1>3 DEF Consumed
  <2>2. ASSUME NEW k \in DOMAIN preacks, preacks[k] = row, ~Consumed(k)
        PROVE  FALSE
    BY <2>2, <1>3 DEF CurrentPreacks, PreacksFor, row
  <2> QED BY <2>1, <2>2, <1>5 DEF OneCurrentPreack, PolicyInv
<1>9. SnapshotDescribesMonth'
  BY <1>3, SnapshotFrame DEF PolicyInv
<1> QED BY <1>4, <1>6, <1>7, <1>8, <1>9 DEF PolicyInv

LEMMA WithdrawPrecloseInv ==
    ASSUME PolicyInv, NEW w \in DOMAIN preacks, WithdrawPreclose(w)
    PROVE  PolicyInv'
<1>1. /\ preacks' = [preacks EXCEPT ![w].withdrawn = TRUE]
      /\ UNCHANGED <<gap, drift, status, cycles, acked, resolutions, closeKeys, overrides>>
      /\ ~Consumed(w)
  BY DEF WithdrawPreclose, CompensatePreack, CurrentPreacks, evidence
<1>2. preacks[w] \in Preack /\ preacks \in Seq(Preack)
  BY DEF PolicyInv, TypeOK
<1>3. [preacks[w] EXCEPT !.withdrawn = TRUE] \in Preack
  BY <1>2 DEF Preack
<1>4. TypeOK'
  BY <1>1, <1>2, <1>3 DEF TypeOK, PolicyInv
<1>5. /\ DOMAIN preacks' = DOMAIN preacks
      /\ \A i \in DOMAIN preacks : i # w => preacks'[i] = preacks[i]
      /\ preacks'[w].withdrawn
  BY <1>1, <1>2 DEF Preack
<1>6. FrozenAcknowledged'
  BY <1>1, <1>5 DEF FrozenAcknowledged, PolicyInv, Consumed
<1>7. PreackUsedOnce'
  BY <1>1 DEF PreackUsedOnce, PolicyInv
<1>8. OneCurrentPreack'
  BY <1>1, <1>5 DEF OneCurrentPreack, PolicyInv, Consumed
<1>9. SnapshotDescribesMonth'
  BY <1>1, SnapshotFrame DEF PolicyInv
<1> QED BY <1>4, <1>6, <1>7, <1>8, <1>9 DEF PolicyInv

LEMMA CloseInv ==
    ASSUME PolicyInv, NEW m \in Months, NEW k \in Keys, Close(m, k)
    PROVE  PolicyInv'
<1> DEFINE new == NewCycle(m)
           last == Len(cycles[m]) + 1
<1>1. /\ cycles' = [cycles EXCEPT ![m] = Append(cycles[m], new)]
      /\ status' = [status EXCEPT ![m] = CloseState(m)]
      /\ acked' = [acked EXCEPT ![m] = Excepted(m)]
      /\ closeKeys' = closeKeys \cup {k}
      /\ UNCHANGED <<gap, drift, preacks, resolutions, overrides>>
  BY DEF Close, MaySignOff, evidence
<1>2. /\ new \in Cycle
      /\ \A s \in Subjects :
           IF new.frozen[s] = 0 THEN new.source[s] = 0
           ELSE new.source[s] \in CurrentPreacks(m, s, new.frozen[s])
      /\ (CloseState(m) = "clean_closed") <=> (\A s \in Subjects : new.frozen[s] = 0)
  BY NewCycleProperties DEF Close, MaySignOff
<1>3. new.state = CloseState(m) /\ new.own = gap[m]
  BY DEF NewCycle, FrozenPayloads, FrozenSources
<1> HIDE DEF new
<1>4. cycles[m] \in Seq(Cycle) /\ cycles \in [Months -> Seq(Cycle)]
  BY DEF PolicyInv, TypeOK
<1>5. /\ cycles'[m] = Append(cycles[m], new)
      /\ \A n \in Months : n # m => cycles'[n] = cycles[n]
  BY <1>1, <1>4
<1>6. /\ DOMAIN cycles'[m] = DOMAIN cycles[m] \cup {last}
      /\ cycles'[m][last] = new
      /\ last \notin DOMAIN cycles[m]
      /\ Len(cycles'[m]) = last
      /\ \A c \in DOMAIN cycles[m] : cycles'[m][c] = cycles[m][c]
  BY <1>2, <1>4, <1>5
<1> HIDE DEF last
<1>7. TypeOK'
  <2>1. cycles' \in [Months -> Seq(Cycle)]
    BY <1>1, <1>2, <1>4
  <2>2. status' \in [Months -> ClosedStates \cup {"open", "reopened"}]
    BY <1>1 DEF PolicyInv, TypeOK, CloseState, ClosedStates
  <2>3. acked' \in [Months -> SUBSET Subjects]
    BY <1>1 DEF PolicyInv, TypeOK, Excepted
  <2> QED BY <1>1, <2>1, <2>2, <2>3 DEF PolicyInv, TypeOK
<1>8. \A s \in Subjects : new.source[s] # 0 =>
         /\ new.source[s] \in DOMAIN preacks
         /\ preacks[new.source[s]] \in Preack
         /\ preacks[new.source[s]].month = m
         /\ preacks[new.source[s]].subject = s
         /\ preacks[new.source[s]].payload = new.frozen[s]
         /\ preacks[new.source[s]].withdrawn = FALSE
         /\ ~Consumed(new.source[s])
  <2> SUFFICES ASSUME NEW s \in Subjects, new.source[s] # 0
               PROVE  /\ new.source[s] \in DOMAIN preacks
                      /\ preacks[new.source[s]] \in Preack
                      /\ preacks[new.source[s]].month = m
                      /\ preacks[new.source[s]].subject = s
                      /\ preacks[new.source[s]].payload = new.frozen[s]
                      /\ preacks[new.source[s]].withdrawn = FALSE
                      /\ ~Consumed(new.source[s])
    OBVIOUS
  <2>1. new.source[s] \in CurrentPreacks(m, s, new.frozen[s])
    BY <1>2
  <2>2. /\ new.source[s] \in DOMAIN preacks
        /\ preacks[new.source[s]].month = m
        /\ preacks[new.source[s]].subject = s
        /\ preacks[new.source[s]].payload = new.frozen[s]
        /\ ~preacks[new.source[s]].withdrawn
        /\ ~Consumed(new.source[s])
    BY <2>1 DEF CurrentPreacks, PreacksFor
  <2>3. preacks[new.source[s]] \in Preack
    BY <2>2 DEF PolicyInv, TypeOK
  <2>4. preacks[new.source[s]].withdrawn \in BOOLEAN
    BY <2>3 DEF Preack
  <2> QED BY <2>2, <2>3, <2>4
<1>9. FrozenAcknowledged'
  <2> SUFFICES ASSUME NEW n \in Months, NEW c \in DOMAIN cycles'[n], NEW s \in Subjects
               PROVE  IF cycles'[n][c].frozen[s] = 0 THEN cycles'[n][c].source[s] = 0
                      ELSE /\ cycles'[n][c].source[s] \in DOMAIN preacks
                           /\ preacks[cycles'[n][c].source[s]] =
                                [month |-> n, subject |-> s,
                                 payload |-> cycles'[n][c].frozen[s], withdrawn |-> FALSE]
    BY <1>1 DEF FrozenAcknowledged
  <2>1. CASE n = m /\ c = last
    <3>1. cycles'[n][c] = new
      BY <2>1, <1>6
    <3>2. CASE new.frozen[s] = 0
      BY <3>1, <3>2, <1>2
    <3>3. CASE new.frozen[s] # 0
      <4>1. new.source[s] # 0
        BY <3>3, <1>2 DEF CurrentPreacks, PreacksFor, PolicyInv, TypeOK
      <4> QED BY <4>1, <3>1, <3>3, <2>1, <1>8 DEF Preack
    <3> QED BY <3>2, <3>3
  <2>2. CASE ~(n = m /\ c = last)
    <3>1. c \in DOMAIN cycles[n] /\ cycles'[n][c] = cycles[n][c]
      BY <2>2, <1>5, <1>6
    <3> QED BY <3>1 DEF PolicyInv, FrozenAcknowledged
  <2> QED BY <2>1, <2>2
<1>10. PreackUsedOnce'
  <2> SUFFICES ASSUME NEW n \in Months, NEW o \in Months,
                      NEW c \in DOMAIN cycles'[n], NEW d \in DOMAIN cycles'[o],
                      NEW s \in Subjects, NEW t \in Subjects,
                      cycles'[n][c].source[s] # 0,
                      cycles'[n][c].source[s] = cycles'[o][d].source[t]
               PROVE  n = o /\ c = d /\ s = t
    BY DEF PreackUsedOnce
  <2>1. ASSUME NEW x \in Months, NEW e \in DOMAIN cycles'[x], ~(x = m /\ e = last)
        PROVE  /\ e \in DOMAIN cycles[x] /\ cycles'[x][e] = cycles[x][e]
               /\ \A u \in Subjects : Consumed(cycles'[x][e].source[u])
    BY <2>1, <1>5, <1>6 DEF Consumed
  <2>2. CASE n = m /\ c = last /\ o = m /\ d = last
    <3>1. new.source[s] # 0 /\ new.source[s] = new.source[t]
      BY <2>2, <1>6
    <3> QED BY <3>1, <2>2, <1>8
  <2>3. CASE (n = m /\ c = last) /\ ~(o = m /\ d = last)
    BY <2>1, <2>3, <1>6, <1>8
  <2>4. CASE ~(n = m /\ c = last) /\ (o = m /\ d = last)
    BY <2>1, <2>4, <1>6, <1>8
  <2>5. CASE ~(n = m /\ c = last) /\ ~(o = m /\ d = last)
    BY <2>1, <2>5 DEF PolicyInv, PreackUsedOnce
  <2> QED BY <2>2, <2>3, <2>4, <2>5
<1>11. OneCurrentPreack'
  <2>1. ASSUME NEW i, Consumed(i)
        PROVE  Consumed(i)'
    BY <2>1, <1>5, <1>6 DEF Consumed
  <2> QED BY <2>1, <1>1 DEF PolicyInv, OneCurrentPreack
<1>12. SnapshotDescribesMonth'
  <2> SUFFICES ASSUME NEW n \in Months, Locked(n)'
               PROVE  /\ cycles'[n] # <<>>
                      /\ LastCycle(n)'.state = status'[n]
                      /\ LastCycle(n)'.own = gap[n]
                      /\ (status'[n] = "clean_closed") <=>
                            (\A s \in Subjects : LastCycle(n)'.frozen[s] = 0)
    BY <1>1 DEF SnapshotDescribesMonth
  <2>1. CASE n = m
    <3>1. LastCycle(n)' = new /\ cycles'[n] # <<>>
      BY <2>1, <1>5, <1>6, <1>4, <1>2 DEF LastCycle
    <3>2. status'[n] = CloseState(m)
      BY <2>1, <1>1 DEF PolicyInv, TypeOK
    <3> QED BY <3>1, <3>2, <2>1, <1>2, <1>3
  <2>2. CASE n # m
    <3>1. LastCycle(n)' = LastCycle(n) /\ cycles'[n] = cycles[n] /\ status'[n] = status[n]
      BY <2>2, <1>1, <1>5 DEF LastCycle, PolicyInv, TypeOK
    <3> QED BY <3>1 DEF PolicyInv, SnapshotDescribesMonth, Locked
  <2> QED BY <2>1, <2>2
<1> QED BY <1>7, <1>9, <1>10, <1>11, <1>12 DEF PolicyInv

LEMMA ReopenInv ==
    ASSUME PolicyInv, NEW m \in Months, Reopen(m)
    PROVE  PolicyInv'
<1>1. /\ status' = [status EXCEPT ![m] = "reopened"]
      /\ UNCHANGED <<gap, drift, cycles, preacks, acked, resolutions, closeKeys, overrides>>
  BY DEF Reopen, ReopenCycle, evidence
<1>2. TypeOK'
  BY <1>1 DEF TypeOK, PolicyInv
<1>3. \A n \in Months : ~Locked(n)' \/ (status'[n] = status[n] /\ gap'[n] = gap[n])
  BY <1>1 DEF TypeOK, PolicyInv, Locked, ClosedStates
<1> QED BY <1>1, <1>2, <1>3, ReviewFrame, SnapshotFrame DEF PolicyInv

(* Reviews of frozen exceptions change acknowledgements and resolutions only. *)
LEMMA FrozenReviewInv ==
    ASSUME PolicyInv,
           \/ \E m \in Months, s \in Subjects :
                  AcknowledgeException(m, s) \/ WithdrawAcknowledgement(m, s)
           \/ \E m \in Months : \E c \in DOMAIN cycles[m] :
                  \E s \in Subjects : ResolveException(m, c, s)
           \/ \E i \in DOMAIN resolutions : ReverseResolution(i)
    PROVE  PolicyInv'
<1>1. UNCHANGED <<gap, drift, status, cycles, preacks, closeKeys, overrides>>
  BY DEF AcknowledgeException, AddAcknowledgement, WithdrawAcknowledgement, CompensateAcknowledgement, ResolveException,
         ReverseResolution, evidence
<1>2. acked' \in [Months -> SUBSET Subjects] /\ resolutions' \in Seq(Resolution)
  <2>1. CASE \E m \in Months, s \in Subjects :
                 AcknowledgeException(m, s) \/ WithdrawAcknowledgement(m, s)
    <3>1. PICK m \in Months, s \in Subjects :
              AcknowledgeException(m, s) \/ WithdrawAcknowledgement(m, s)
      BY <2>1
    <3>2. /\ resolutions' = resolutions
          /\ \/ acked' = [acked EXCEPT ![m] = @ \cup {s}]
             \/ acked' = [acked EXCEPT ![m] = @ \ {s}]
      BY <3>1 DEF AcknowledgeException, AddAcknowledgement, WithdrawAcknowledgement, CompensateAcknowledgement
    <3>3. acked \in [Months -> SUBSET Subjects] /\ resolutions \in Seq(Resolution)
      BY DEF PolicyInv, TypeOK
    <3>4. acked[m] \cup {s} \in SUBSET Subjects /\ acked[m] \ {s} \in SUBSET Subjects
      BY <3>3
    <3> QED BY <3>2, <3>3, <3>4
  <2>2. CASE \E m \in Months : \E c \in DOMAIN cycles[m] :
                 \E s \in Subjects : ResolveException(m, c, s)
    <3>0. PICK m \in Months : \E c \in DOMAIN cycles[m] :
                 \E s \in Subjects : ResolveException(m, c, s)
      BY <2>2
    <3>1. PICK c \in DOMAIN cycles[m], s \in Subjects : ResolveException(m, c, s)
      BY <3>0
    <3>2. [month |-> m, cycle |-> c, subject |-> s, reversed |-> FALSE] \in Resolution
      BY DEF Resolution, PolicyInv, TypeOK
    <3> QED BY <3>1, <3>2 DEF PolicyInv, TypeOK, ResolveException
  <2>3. CASE \E i \in DOMAIN resolutions : ReverseResolution(i)
    <3>1. PICK i \in DOMAIN resolutions : ReverseResolution(i)
      BY <2>3
    <3>2. resolutions[i] \in Resolution
      BY DEF PolicyInv, TypeOK
    <3>3. [resolutions[i] EXCEPT !.reversed = TRUE] \in Resolution
      BY <3>2 DEF Resolution
    <3> QED BY <3>1, <3>3 DEF PolicyInv, TypeOK, ReverseResolution
  <2> QED BY <2>1, <2>2, <2>3
<1>3. TypeOK'
  BY <1>1, <1>2 DEF PolicyInv, TypeOK
<1> QED BY <1>1, <1>3, ReviewFrame, SnapshotFrame DEF PolicyInv

LEMMA WriteInv ==
    ASSUME PolicyInv, NEW ms \in WriteSets, Write(ms)
    PROVE  PolicyInv'
<1>1. /\ Mutation(ms) /\ \A m \in ms : ~Locked(m)
      /\ UNCHANGED <<status, cycles, preacks, acked, resolutions, closeKeys, overrides>>
  BY DEF Write
<1>2. TypeOK'
  BY <1>1, MutationProperties DEF PolicyInv, TypeOK
<1>3. \A n \in Months : ~Locked(n)' \/ (status'[n] = status[n] /\ gap'[n] = gap[n])
  BY <1>1, MutationProperties DEF PolicyInv, Locked
<1> QED BY <1>1, <1>2, <1>3, ReviewFrame, SnapshotFrame DEF PolicyInv

LEMMA WriteWithOverrideInv ==
    ASSUME PolicyInv, NEW ms \in WriteSets, NEW k \in Keys, WriteWithOverride(k, ms)
    PROVE  PolicyInv'
<1>1. /\ Mutation(ms)
      /\ status' = [m \in Months |->
                       IF m \in OverriddenMonths(k, ms) THEN "reopened" ELSE status[m]]
      /\ overrides' = overrides \cup ({k} \X OverriddenMonths(k, ms))
      /\ \A m \in ms : status'[m] \notin ClosedStates
      /\ UNCHANGED <<cycles, preacks, acked, resolutions, closeKeys>>
  BY DEF WriteWithOverride, TriggersAllow
<1>2. OverriddenMonths(k, ms) \subseteq Months
  BY DEF OverriddenMonths, WriteSets
<1>3. TypeOK'
  BY <1>1, <1>2, MutationProperties DEF PolicyInv, TypeOK
<1>4. \A n \in Months : ~Locked(n)' \/ (status'[n] = status[n] /\ gap'[n] = gap[n])
  BY <1>1, MutationProperties DEF PolicyInv, Locked, ClosedStates
<1> QED BY <1>1, <1>3, <1>4, ReviewFrame, SnapshotFrame DEF PolicyInv

LEMMA StepInv ==
    ASSUME PolicyInv, [Next]_vars
    PROVE  PolicyInv'
<1>1. CASE Review
  BY <1>1, AcknowledgePrecloseInv, WithdrawPrecloseInv, FrozenReviewInv DEF Review
<1>2. CASE \E m \in Months, k \in Keys : Close(m, k)
  BY <1>2, CloseInv
<1>3. CASE \E m \in Months : Reopen(m)
  BY <1>3, ReopenInv
<1>4. CASE \E ms \in WriteSets : Write(ms)
  BY <1>4, WriteInv
<1>5. CASE \E ms \in WriteSets, k \in Keys : WriteWithOverride(k, ms)
  BY <1>5, WriteWithOverrideInv
<1>6. CASE UNCHANGED vars
  <2>1. UNCHANGED <<gap, drift, status, cycles, preacks, acked, resolutions, closeKeys, overrides>>
    BY <1>6 DEF vars
  <2>2. TypeOK'
    BY <2>1 DEF PolicyInv, TypeOK
  <2> QED BY <2>1, <2>2, ReviewFrame, SnapshotFrame DEF PolicyInv
<1> QED BY <1>1, <1>2, <1>3, <1>4, <1>5, <1>6 DEF Next

(* Only the guarded writers touch rows. *)
LEMMA StepLeavesRows ==
    ASSUME [Next]_vars,
           ~(\E ms \in WriteSets : Write(ms)),
           ~(\E ms \in WriteSets, k \in Keys : WriteWithOverride(k, ms))
    PROVE  gap' = gap
<1>1. CASE Review
  BY <1>1 DEF Review, AcknowledgePreclose, AddPreack, WithdrawPreclose, CompensatePreack,
     AcknowledgeException, WithdrawAcknowledgement, ResolveException,
     ReverseResolution, evidence
<1>2. CASE \E m \in Months, k \in Keys : Close(m, k)
  BY <1>2 DEF Close, MaySignOff, evidence
<1>3. CASE \E m \in Months : Reopen(m)
  BY <1>3 DEF Reopen, ReopenCycle, evidence
<1>4. CASE UNCHANGED vars
  BY <1>4 DEF vars
<1> QED BY <1>1, <1>2, <1>3, <1>4 DEF Next

(* Reviews leave every status as it is. *)
LEMMA StepLeavesStatus ==
    ASSUME [Next]_vars,
           ~(\E m \in Months, k \in Keys : Close(m, k)),
           ~(\E m \in Months : Reopen(m)),
           ~(\E ms \in WriteSets, k \in Keys : WriteWithOverride(k, ms))
    PROVE  status' = status
<1>1. CASE Review
  BY <1>1 DEF Review, AcknowledgePreclose, AddPreack, WithdrawPreclose, CompensatePreack,
     AcknowledgeException, WithdrawAcknowledgement, ResolveException,
     ReverseResolution
<1>2. CASE \E ms \in WriteSets : Write(ms)
  BY <1>2 DEF Write
<1>3. CASE UNCHANGED vars
  BY <1>3 DEF vars
<1> QED BY <1>1, <1>2, <1>3 DEF Next

THEOREM PolicyInvariant == Spec => []PolicyInv
<1>1. Init => PolicyInv
  BY InitInv
<1>2. PolicyInv /\ [Next]_vars => PolicyInv'
  BY StepInv
<1> QED BY <1>1, <1>2, PTL DEF Spec

-----------------------------------------------------------------------------
(* The results *)

(* Every variable keeps its type.                                            *)
THEOREM TypeCorrect == Spec => []TypeOK
<1>1. PolicyInv => TypeOK
  BY DEF PolicyInv
<1> QED BY <1>1, PolicyInvariant, PTL

(* However months are reviewed, closed, reopened, overridden and closed      *)
(* again, each frozen exception carries its own acknowledgement of exactly   *)
(* that exception, which no other exception uses.                            *)
THEOREM AcknowledgementsExact == Spec => [](FrozenAcknowledged /\ PreackUsedOnce)
<1>1. PolicyInv => FrozenAcknowledged /\ PreackUsedOnce
  BY DEF PolicyInv
<1> QED BY <1>1, PolicyInvariant, PTL

(* No exception ever has two unused acknowledgements.                        *)
THEOREM AcknowledgedAtMostOnce == Spec => []OneCurrentPreack
<1>1. PolicyInv => OneCurrentPreack
  BY DEF PolicyInv
<1> QED BY <1>1, PolicyInvariant, PTL

(* The current snapshot of a closed month still describes its rows.          *)
THEOREM SnapshotsDescribe == Spec => []SnapshotDescribesMonth
<1>1. PolicyInv => SnapshotDescribesMonth
  BY DEF PolicyInv
<1> QED BY <1>1, PolicyInvariant, PTL

(* The rows of a closed month change only together with a reopening override *)
(* that leaves its receipt; the key of an old receipt opens nothing.         *)
THEOREM LockedRowsChangeWithReceipt == Spec => LockedRowsNeedOverride
<1> DEFINE Receipted ==
        \A m \in Months : gap'[m] # gap[m] =>
           /\ status'[m] \notin ClosedStates
           /\ Locked(m) => \E k \in Keys : <<k, m>> \in overrides' \ overrides
<1>1. ASSUME PolicyInv, [Next]_vars
      PROVE  Receipted
  <2>1. CASE gap' = gap
    BY <2>1
  <2>2. CASE \E ms \in WriteSets : Write(ms)
    <3>1. PICK ms \in WriteSets : Write(ms)
      BY <2>2
    <3> QED BY <1>1, <3>1, MutationProperties DEF Write, Locked, PolicyInv
  <2>3. CASE \E ms \in WriteSets, k \in Keys : WriteWithOverride(k, ms)
    <3>1. PICK ms \in WriteSets, k \in Keys : WriteWithOverride(k, ms)
      BY <2>3
    <3>2. \A m \in Months : gap'[m] # gap[m] => m \in ms
      BY <1>1, <3>1, MutationProperties DEF WriteWithOverride, PolicyInv
    <3>3. \A m \in ms : status'[m] \notin ClosedStates
      BY <3>1 DEF WriteWithOverride, TriggersAllow
    <3>4. ASSUME NEW m \in Months, m \in ms, Locked(m)
          PROVE  <<k, m>> \in overrides' \ overrides
      <4>1. m \in OverriddenMonths(k, ms)
        BY <3>1, <3>3, <3>4 DEF WriteWithOverride, Locked
      <4> QED BY <3>1, <4>1 DEF WriteWithOverride, OverriddenMonths
    <3> QED BY <3>2, <3>3, <3>4
  <2> QED BY <1>1, <2>1, <2>2, <2>3, StepLeavesRows
<1> QED BY <1>1, PolicyInvariant, PTL DEF Spec, LockedRowsNeedOverride

(* The policy implements the month lock: with the tables forgotten, no step  *)
(* changes the rows of a month that is sealed when the step ends.            *)
THEOREM RefinesMonthLock == Spec => ImplementsMonthLock
<1> DEFINE Sealed == {m \in Months : Locked(m)}
<1>1. Init => Lock!Init
  BY DEF Init, Lock!Init, Locked, ClosedStates
<1>2. ASSUME PolicyInv, [Next]_vars
      PROVE  [Lock!Next]_Lock!vars
  <2>1. TypeOK /\ TypeOK'
    BY <1>2, StepInv DEF PolicyInv
  <2>2. CASE status' = status /\ gap' = gap
    BY <2>2 DEF Lock!vars, Locked
  <2>3. ASSUME NEW m \in Months, NEW k \in Keys, Close(m, k)
        PROVE  Lock!Seal(m)
    <3>1. status' = [status EXCEPT ![m] = CloseState(m)] /\ gap' = gap /\ ~Locked(m)
      BY <2>3 DEF Close, MaySignOff, evidence
    <3>2. CloseState(m) \in ClosedStates
      BY DEF CloseState, ClosedStates
    <3> QED BY <2>1, <3>1, <3>2 DEF Lock!Seal, Locked, TypeOK
  <2>4. ASSUME NEW m \in Months, Reopen(m)
        PROVE  Lock!Unseal({m})
    BY <2>1, <2>4 DEF Reopen, ReopenCycle, evidence, Lock!Unseal, Locked, TypeOK, ClosedStates
  <2>5. ASSUME NEW ms \in WriteSets, Write(ms)
        PROVE  Lock!Change({})
    <3>1. \A m \in Months : gap'[m] # gap[m] => ~Locked(m)
      BY <2>1, <2>5, MutationProperties DEF Write
    <3> QED BY <2>1, <2>5, <3>1 DEF Write, Lock!Change, Locked, TypeOK
  <2>6. ASSUME NEW ms \in WriteSets, NEW k \in Keys, WriteWithOverride(k, ms)
        PROVE  Lock!Change(OverriddenMonths(k, ms))
    <3>1. \A m \in Months : gap'[m] # gap[m] => ~Locked(m)'
      BY <2>1, <2>6, MutationProperties DEF WriteWithOverride, TriggersAllow, Locked
    <3>2. \A m \in Months : Locked(m)' <=> Locked(m) /\ m \notin OverriddenMonths(k, ms)
      BY <2>6 DEF WriteWithOverride, Locked, ClosedStates
    <3> QED BY <2>1, <3>1, <3>2 DEF Lock!Change, TypeOK
  <2>7. ASSUME NEW ms \in WriteSets, NEW k \in Keys
        PROVE  OverriddenMonths(k, ms) \in SUBSET Months
    BY DEF WriteSets, OverriddenMonths
  <2> QED BY <1>2, <2>2, <2>3, <2>4, <2>5, <2>6, <2>7, StepLeavesRows, StepLeavesStatus
          DEF Lock!Next
<1> QED BY <1>1, <1>2, PolicyInvariant, PTL DEF Spec, ImplementsMonthLock, Lock!Spec

(* Only a close touches the cycles, and it appends one. *)
LEMMA StepCycles ==
    ASSUME PolicyInv, [Next]_vars
    PROVE  \/ cycles' = cycles
           \/ \E m \in Months, k \in Keys : Close(m, k)
<1>1. CASE Review
  BY <1>1 DEF Review, AcknowledgePreclose, AddPreack, WithdrawPreclose, CompensatePreack,
     AcknowledgeException, WithdrawAcknowledgement, ResolveException,
     ReverseResolution
<1>2. CASE \E m \in Months : Reopen(m)
  BY <1>2 DEF Reopen, ReopenCycle
<1>3. CASE \E ms \in WriteSets : Write(ms)
  BY <1>3 DEF Write
<1>4. CASE \E ms \in WriteSets, k \in Keys : WriteWithOverride(k, ms)
  BY <1>4 DEF WriteWithOverride
<1>5. CASE UNCHANGED vars
  BY <1>5 DEF vars
<1> QED BY <1>1, <1>2, <1>3, <1>4, <1>5 DEF Next

LEMMA CloseAppends ==
    ASSUME PolicyInv, NEW m \in Months, NEW k \in Keys, Close(m, k)
    PROVE  /\ Len(cycles'[m]) = Len(cycles[m]) + 1
           /\ cycles'[m][Len(cycles'[m])] = NewCycle(m)
           /\ \A c \in DOMAIN cycles[m] : c \in DOMAIN cycles'[m] /\ cycles'[m][c] = cycles[m][c]
           /\ \A n \in Months \ {m} : cycles'[n] = cycles[n]
<1>1. cycles \in [Months -> Seq(Cycle)] /\ cycles[m] \in Seq(Cycle)
  BY DEF PolicyInv, TypeOK
<1>2. cycles' = [cycles EXCEPT ![m] = Append(@, NewCycle(m))]
  BY DEF Close, MaySignOff
<1>3. cycles'[m] = Append(cycles[m], NewCycle(m))
  BY <1>1, <1>2
<1>4. \A n \in Months \ {m} : cycles'[n] = cycles[n]
  BY <1>1, <1>2
<1> HIDE <1>2
<1> QED BY <1>1, <1>3, <1>4

(* What a close froze is never rewritten.                                    *)
THEOREM ClosedHistoryKept == Spec => HistoryAppendOnly
<1> DEFINE Kept == \A m \in Months : \A c \in DOMAIN cycles[m] :
                       c \in DOMAIN cycles'[m] /\ cycles'[m][c] = cycles[m][c]
<1>1. ASSUME PolicyInv, [Next]_vars
      PROVE  Kept
  <2>1. CASE cycles' = cycles
    BY <2>1
  <2>2. ASSUME NEW m \in Months, NEW k \in Keys, Close(m, k)
        PROVE  Kept
    BY <1>1, <2>2, CloseAppends
  <2> QED BY <1>1, <2>1, <2>2, StepCycles
<1> QED BY <1>1, PolicyInvariant, PTL DEF Spec, HistoryAppendOnly

(* A close loses neither a live exception nor an unresolved one of an        *)
(* earlier cycle, whatever was reopened in between.                          *)
THEOREM ClosesDropNothing == Spec => CloseDropsNothing
<1> DEFINE Dropless(m) ==
        Len(cycles'[m]) > Len(cycles[m]) =>
         \A s \in Subjects :
           LET now == cycles'[m][Len(cycles'[m])].frozen[s] IN
           /\ Live(m, s) # 0 => now = Live(m, s)
           /\ \A c \in DOMAIN cycles[m] :
                /\ cycles[m][c].frozen[s] # 0
                /\ ~Resolved(m, c, s)
                /\ \A d \in DOMAIN cycles[m] : d > c => cycles[m][d].frozen[s] = 0
                => now # 0
<1>1. ASSUME PolicyInv, [Next]_vars, NEW n \in Months
      PROVE  Dropless(n)
  <2>1. CASE cycles'[n] = cycles[n]
    <3>1. Len(cycles[n]) \in Nat
      BY <1>1 DEF PolicyInv, TypeOK
    <3> QED BY <2>1, <3>1
  <2>2. ASSUME NEW k \in Keys, Close(n, k)
        PROVE  Dropless(n)
    <3> SUFFICES ASSUME NEW s \in Subjects
                 PROVE  /\ Live(n, s) # 0 => Effective(n, s) = Live(n, s)
                        /\ \A c \in DOMAIN cycles[n] :
                              /\ cycles[n][c].frozen[s] # 0
                              /\ ~Resolved(n, c, s)
                              /\ \A d \in DOMAIN cycles[n] : d > c => cycles[n][d].frozen[s] = 0
                              => Effective(n, s) # 0
      <4>1. \A s \in Subjects : NewCycle(n).frozen[s] = Effective(n, s)
        BY DEF NewCycle, FrozenPayloads, FrozenSources
      <4>2. cycles'[n][Len(cycles'[n])] = NewCycle(n)
        BY <1>1, <2>2, CloseAppends
      <4> QED BY <4>1, <4>2
    <3>1. Live(n, s) # 0 => Effective(n, s) = Live(n, s)
      BY DEF Effective
    <3>2. ASSUME NEW c \in DOMAIN cycles[n], cycles[n][c].frozen[s] # 0, ~Resolved(n, c, s),
                 \A d \in DOMAIN cycles[n] : d > c => cycles[n][d].frozen[s] = 0
          PROVE  Effective(n, s) # 0
      <4>1. c \in UnresolvedCycles(n, s)
        BY <3>2 DEF UnresolvedCycles, LatestCycles
      <4>2. (CHOOSE d \in UnresolvedCycles(n, s) : TRUE) \in UnresolvedCycles(n, s)
        BY <4>1
      <4>3. cycles[n][CHOOSE d \in UnresolvedCycles(n, s) : TRUE].frozen[s] # 0
        BY <4>2 DEF UnresolvedCycles, LatestCycles
      <4> QED BY <4>1, <4>3 DEF Effective
    <3> QED BY <3>1, <3>2
  <2> QED BY <1>1, <2>1, <2>2, StepCycles, CloseAppends
<1>2. PolicyInv /\ [Next]_vars => \A m \in Months : Dropless(m)
  BY <1>1
<1> QED BY <1>2, PolicyInvariant, PTL DEF Spec, CloseDropsNothing

(* The history that reports replay is complete: no cycle is rewritten, no    *)
(* open exception is dropped, no closed row changes without its receipt.     *)
THEOREM HistoryIsKept == Spec => HistoryKept
<1> QED BY ClosedHistoryKept, ClosesDropNothing, LockedRowsChangeWithReceipt, PTL DEF HistoryKept

-----------------------------------------------------------------------------
(***************************************************************************)
(* What a close asks for and what it freezes.  A step leaves what belongs  *)
(* to a closed month alone (Kept), and the exceptions of a month depend on *)
(* nothing else, as long as a statement is read, reviewed and linked under *)
(* one month (PapersAgree) and only decided lines stand for a transaction  *)
(* (LinesBacked).                                                          *)
(***************************************************************************)
(* A statement is read, reviewed and linked under one month, and approved up  *)
(* to a day of it.                                                            *)
PapersAgree == \A p \in Papers :
    /\ papers[p].review = papers[p].stated
    /\ papers[p].stated # Nothing => papers[p].link \in {Nothing, papers[p].stated}
    /\ papers[p].approved =>
          papers[p].ends # Nothing /\ papers[p].stated = MonthOf(papers[p].ends)

(* Only an active line that is decided stands for a transaction, and for one  *)
(* that is there.                                                             *)
LinesBacked == \A l \in Registered :
    lines[l].entry # Nothing =>
        lines[l].entry \in Booked /\ lines[l].state \in Matched /\ lines[l].active

(* The line of a frozen exception is still one of the month: its statement    *)
(* says so or, where that says nothing, its link or the day of the line.      *)
LineTypes == {"unresolved_line", "automatic_match", "positive_flow"}

FrozenLine(l, m) ==
    /\ l \in Registered
    /\ \/ papers[PaperOf[l]].stated = m
       \/ /\ papers[PaperOf[l]].stated = Nothing
          /\ papers[PaperOf[l]].link = m \/ MonthOf(lines[l].day) = m

FrozenTied == \A m \in sealed :
    /\ frozen[m].accounts \subseteq accounts
    /\ \A x \in frozen[m].items : x.type \in LineTypes => FrozenLine(x.subject, m)

RowsInv == ReadyTypeOK /\ PapersAgree /\ LinesBacked

ReadyInv == RowsInv /\ FrozenTied /\ FrozenStands

(* What a step leaves alone of a month: its transactions, the lines and       *)
(* statements that belong to it, its requirements and its balances.           *)
EntriesKept(m) == \A e \in EntryIds : entries'[e] # entries[e] =>
    /\ entries[e] # Nothing => MonthOf(entries[e].day) # m
    /\ entries'[e] # Nothing => MonthOf(entries'[e].day) # m

LinesKept(m) == \A l \in Lines : lines'[l] # lines[l] =>
    /\ papers[PaperOf[l]].stated # m
    /\ lines[l] # Nothing =>
          /\ MonthOf(lines[l].day) # m
          /\ lines[l].entry # Nothing => MonthOf(entries[lines[l].entry].day) # m
    /\ lines'[l] # Nothing /\ MonthOf(lines'[l].day) # m
    /\ lines'[l].entry # Nothing => MonthOf(entries'[lines'[l].entry].day) # m

PapersKept(m) == \A p \in Papers : papers'[p] # papers[p] =>
    /\ papers[p].stated # m /\ papers[p].link # m
    /\ papers'[p].stated # m /\ papers'[p].link # m
    /\ papers'[p].stated # papers[p].stated =>
          \A l \in LinesOf(p) : MonthOf(lines[l].day) # m

BalancesKept(m) ==
    /\ \A a \in Accounts : matrix'[a][m] = matrix[a][m]
    /\ \A day \in Days : asserted'[day] # asserted[day] => MonthOf(day) # m
    /\ accounts \subseteq accounts'

Kept(m) ==
    /\ EntriesKept(m) /\ LinesKept(m) /\ PapersKept(m) /\ BalancesKept(m)
    /\ frozen'[m] = frozen[m]

StepKeeps == RowsInv' /\ \A m \in sealed \cap sealed' : Kept(m)

-----------------------------------------------------------------------------
LEMMA ReadyDays ==
    /\ \A day \in Days : MonthOf(day) \in Periods /\ Adjustment(day) \in EntryIds
    /\ Nothing \notin Periods /\ Nothing \notin EntryIds /\ Nothing \notin Days
    /\ Periods \subseteq Int
<1>1. Cardinality(Periods) \in Nat
  BY FS_CardinalityType, ReadyAssumption
<1>2. Periods \subseteq Int
  BY <1>1, ReadyAssumption
<1>3. \A day \in Days : day \in Int /\ MonthOf(day) \in Periods
  BY <1>1, ReadyAssumption, SMT DEF Days, MonthOf
<1>4. \A day \in Days : Adjustment(day) \in EntryIds /\ Adjustment(day) \in Int
  BY <1>3 DEF EntryIds, Adjustment
<1> QED
  BY <1>2, <1>3, <1>4, ReadyAssumption DEF EntryIds

(* A record that replaces an entry, in a month that is open before and after. *)
LEMMA EntriesStep ==
    ASSUME RowsInv, NEW e \in EntryIds, NEW new \in Entry,
           entries' = [entries EXCEPT ![e] = new],
           entries[e] # Nothing => MonthOf(entries[e].day) \notin sealed',
           MonthOf(new.day) \notin sealed',
           sealed' \subseteq sealed, DOMAIN frozen' = Periods,
           \A m \in sealed' : frozen'[m] = frozen[m],
           UNCHANGED <<accounts, matrix, lines, papers, asserted>>
    PROVE  StepKeeps
<1> USE ReadyDays DEF RowsInv
<1>1. Nothing \notin Entry
  BY NothingIsNoRow
<1>2. /\ entries' \in [EntryIds -> Entry \cup {Nothing}]
      /\ entries'[e] = new /\ \A f \in EntryIds \ {e} : entries'[f] = entries[f]
  BY DEF ReadyTypeOK
<1>3. ReadyTypeOK'
  BY <1>2 DEF ReadyTypeOK
<1>4. PapersAgree'
  BY DEF PapersAgree
<1>5. Booked \subseteq Booked' /\ Registered' = Registered
  BY <1>1, <1>2 DEF Booked, Registered
<1>6. LinesBacked'
  BY <1>5 DEF LinesBacked
<1>7. ASSUME NEW m \in sealed' PROVE Kept(m)
  <2>1. EntriesKept(m)
    BY <1>2 DEF EntriesKept
  <2>2. LinesKept(m) /\ PapersKept(m) /\ BalancesKept(m)
    BY DEF LinesKept, PapersKept, BalancesKept
  <2> QED
    BY <2>1, <2>2 DEF Kept
<1> QED
  BY <1>3, <1>4, <1>6, <1>7 DEF StepKeeps

LEMMA CreateTxnKeeps ==
    ASSUME RowsInv, NEW e \in EntryIds, NEW day \in Days, NEW cents \in Cents, NEW flow \in Flows,
           CreateTxn(e, day, cents, flow)
    PROVE  StepKeeps
<1>1. NewEntry(day, cents, flow) \in Entry /\ NewEntry(day, cents, flow).day = day
  BY ReadyAssumption DEF NewEntry, Entry
<1>2. MonthOf(day) \notin sealed
  BY DEF CreateTxn, Open
<1> QED
  BY <1>1, <1>2, EntriesStep DEF CreateTxn, RowsInv, ReadyTypeOK

LEMMA UpdateTxnKeeps ==
    ASSUME RowsInv, NEW e \in EntryIds, NEW day \in Days, NEW cents \in Cents, NEW flow \in Flows,
           UpdateTxn(e, day, cents, flow)
    PROVE  StepKeeps
<1>1. entries[e] \in Entry /\ entries \in [EntryIds -> Entry \cup {Nothing}]
  BY DEF UpdateTxn, RowsInv, ReadyTypeOK
<1> DEFINE new == [entries[e] EXCEPT !.day = day, !.cents = cents, !.flow = flow]
<1>2. new \in Entry /\ new.day = day
  BY <1>1, ReadyAssumption DEF Entry
<1>3. entries' = [entries EXCEPT ![e] = new]
  BY <1>1 DEF UpdateTxn
<1>4. MonthOf(entries[e].day) \notin sealed /\ MonthOf(day) \notin sealed
  BY DEF UpdateTxn, TransactionGuard, Open
<1> HIDE DEF new
<1> QED
  BY <1>2, <1>3, <1>4, EntriesStep DEF UpdateTxn, RowsInv, ReadyTypeOK

LEMMA CreateRelationshipKeeps ==
    ASSUME RowsInv, NEW e \in EntryIds, NEW t \in Ledger, CreateRelationship(e, t)
    PROVE  StepKeeps
<1>1. entries[e] \in Entry /\ entries \in [EntryIds -> Entry \cup {Nothing}]
  BY DEF CreateRelationship, RowsInv, ReadyTypeOK
<1> DEFINE new == [entries[e] EXCEPT !.offsets = t, !.paired = TRUE]
<1>2. new \in Entry /\ new.day = entries[e].day
  BY <1>1, ReadyAssumption DEF Entry
<1>3. entries' = [entries EXCEPT ![e] = new]
  BY <1>1 DEF CreateRelationship
<1>4. MonthOf(entries[e].day) \notin sealed
  BY DEF CreateRelationship, RelationshipGuard, Open
<1> HIDE DEF new
<1> QED
  BY <1>2, <1>3, <1>4, EntriesStep DEF CreateRelationship, RowsInv, ReadyTypeOK

LEMMA RevokeRelationshipKeeps ==
    ASSUME RowsInv, NEW e \in EntryIds, RevokeRelationship(e)
    PROVE  StepKeeps
<1>1. entries[e] \in Entry /\ entries \in [EntryIds -> Entry \cup {Nothing}]
  BY DEF RevokeRelationship, RowsInv, ReadyTypeOK
<1> DEFINE new == [entries[e] EXCEPT !.paired = FALSE]
<1>2. new \in Entry /\ new.day = entries[e].day
  BY <1>1, ReadyAssumption DEF Entry
<1>3. entries' = [entries EXCEPT ![e] = new]
  BY <1>1 DEF RevokeRelationship
<1>4. MonthOf(entries[e].day) \notin sealed
  BY DEF RevokeRelationship, RelationshipGuard, Open
<1> HIDE DEF new
<1> QED
  BY <1>2, <1>3, <1>4, EntriesStep DEF RevokeRelationship, RowsInv, ReadyTypeOK

LEMMA SetClaimKeeps ==
    ASSUME RowsInv, NEW e \in EntryIds, NEW claim \in {"accepted", "retired"}, SetClaim(e, claim)
    PROVE  StepKeeps
<1>1. entries[e] \in Entry /\ entries \in [EntryIds -> Entry \cup {Nothing}]
  BY DEF SetClaim, RowsInv, ReadyTypeOK
<1> DEFINE new == [entries[e] EXCEPT !.claim = claim]
<1>2. new \in Entry /\ new.day = entries[e].day
  BY <1>1, ReadyAssumption DEF Entry
<1>3. entries' = [entries EXCEPT ![e] = new]
  BY <1>1 DEF SetClaim
<1>4. MonthOf(entries[e].day) \notin sealed
  BY DEF SetClaim, ClaimGuard, Open
<1> HIDE DEF new
<1> QED
  BY <1>2, <1>3, <1>4, EntriesStep DEF SetClaim, RowsInv, ReadyTypeOK

LEMMA CreateAdjustmentKeeps ==
    ASSUME RowsInv, NEW day \in Days, NEW override \in BOOLEAN, CreateAdjustment(day, override)
    PROVE  StepKeeps
<1> DEFINE e == Adjustment(day)
<1>1. e \in EntryIds /\ MonthOf(day) \in Periods /\ entries \in [EntryIds -> Entry \cup {Nothing}]
  BY ReadyDays DEF RowsInv, ReadyTypeOK
<1>2. BookedAmount(day) \in Int
  BY ReadyAssumption DEF CreateAdjustment
<1>3. /\ sealed' \subseteq sealed /\ MonthOf(day) \notin sealed'
      /\ DOMAIN frozen' = Periods
      /\ \A m \in sealed' : frozen'[m] = frozen[m]
  BY <1>1 DEF CreateAdjustment, Reopened, RowsInv, ReadyTypeOK
<1>4. UNCHANGED <<accounts, matrix, lines, papers, asserted>>
  BY DEF CreateAdjustment
<1>5. CASE /\ entries[e] = Nothing
           /\ entries' = [entries EXCEPT ![e] = NewEntry(day, BookedAmount(day), "adjustment")]
  <2>1. NewEntry(day, BookedAmount(day), "adjustment") \in Entry
        /\ NewEntry(day, BookedAmount(day), "adjustment").day = day
    BY <1>2 DEF NewEntry, Entry, Flows
  <2> HIDE DEF e
  <2> QED
    BY <2>1, <1>1, <1>3, <1>4, <1>5, EntriesStep
<1>6. CASE /\ entries[e] # Nothing
           /\ MonthOf(entries[e].day) \notin sealed'
           /\ entries' = [entries EXCEPT ![e].cents = BookedAmount(day)]
  <2> HIDE DEF e
  <2> DEFINE new == [entries[e] EXCEPT !.cents = BookedAmount(day)]
  <2>1. entries[e] \in Entry
    BY <1>1, <1>6
  <2>2. new \in Entry /\ new.day = entries[e].day
    BY <1>2, <2>1 DEF Entry
  <2>3. entries' = [entries EXCEPT ![e] = new]
    BY <1>6, <2>1
  <2> HIDE DEF new
  <2> QED
    BY <2>2, <2>3, <1>1, <1>3, <1>4, <1>6, EntriesStep
<1> QED
  BY <1>5, <1>6 DEF CreateAdjustment

LEMMA DeleteTxnKeeps ==
    ASSUME RowsInv, NEW e \in EntryIds, DeleteTxn(e)
    PROVE  StepKeeps
<1> USE ReadyDays DEF RowsInv
<1>1. /\ entries \in [EntryIds -> Entry \cup {Nothing}] /\ lines \in [Lines -> Line \cup {Nothing}]
      /\ entries' = [entries EXCEPT ![e] = Nothing]
      /\ lines' = [l \in Lines |-> IF l \in Registered /\ lines[l].entry = e
                                   THEN [lines[l] EXCEPT !.entry = Nothing] ELSE lines[l]]
      /\ MonthOf(entries[e].day) \notin sealed
      /\ UNCHANGED <<accounts, matrix, papers, asserted, sealed, frozen>>
  BY DEF ReadyTypeOK, DeleteTxn, TransactionGuard, Open
<1>2. \A l \in Lines : l \in Registered <=> lines[l] \in Line
  BY <1>1, NothingIsNoRow DEF Registered
<1>3. ASSUME NEW l \in Lines, l \in Registered, lines[l].entry = e
      PROVE  /\ lines'[l] = [lines[l] EXCEPT !.entry = Nothing]
             /\ lines'[l] \in Line /\ lines'[l].entry = Nothing /\ lines'[l].day = lines[l].day
             /\ papers[PaperOf[l]].stated \notin sealed /\ MonthOf(lines[l].day) \notin sealed
  <2>1. LineGuard(l, lines[l].day)
    BY <1>3 DEF DeleteTxn
  <2>2. lines'[l] = [lines[l] EXCEPT !.entry = Nothing] /\ lines[l] \in Line
    BY <1>1, <1>2, <1>3
  <2> QED
    BY <2>1, <2>2 DEF LineGuard, LineMonths, Open, Line
<1>4. \A l \in Lines : ~(l \in Registered /\ lines[l].entry = e) => lines'[l] = lines[l]
  BY <1>1
<1>5. lines' \in [Lines -> Line \cup {Nothing}] /\ Registered' = Registered
  <2>1. \A l \in Lines : lines'[l] \in Line \cup {Nothing} /\ (lines'[l] = Nothing <=> lines[l] = Nothing)
    BY <1>1, <1>2, <1>3, <1>4, NothingIsNoRow
  <2> QED
    BY <1>1, <2>1 DEF Registered
<1>6. ReadyTypeOK' /\ PapersAgree'
  BY <1>1, <1>5 DEF ReadyTypeOK, PapersAgree
<1>7. LinesBacked'
  <2> SUFFICES ASSUME NEW l \in Registered, lines'[l].entry # Nothing
               PROVE  lines'[l].entry \in Booked' /\ lines'[l].state \in Matched /\ lines'[l].active
    BY <1>5 DEF LinesBacked
  <2>1. l \in Lines
    BY DEF Registered
  <2>2. lines'[l] = lines[l] /\ lines[l].entry # e
    BY <2>1, <1>3, <1>4
  <2>3. lines[l].entry \in Booked /\ lines[l].state \in Matched /\ lines[l].active
    BY <2>2 DEF LinesBacked
  <2>4. lines[l].entry \in Booked'
    BY <2>2, <2>3, <1>1 DEF Booked
  <2> QED
    BY <2>2, <2>3, <2>4
<1>8. ASSUME NEW m \in sealed PROVE Kept(m)
  <2>1. EntriesKept(m)
    BY <1>1 DEF EntriesKept
  <2>2. LinesKept(m)
    BY <1>1, <1>3, <1>4, <1>2, NothingIsNoRow DEF LinesKept
  <2>3. PapersKept(m) /\ BalancesKept(m)
    BY <1>1 DEF PapersKept, BalancesKept
  <2> QED
    BY <1>1, <2>1, <2>2, <2>3 DEF Kept
<1> QED
  BY <1>1, <1>6, <1>7, <1>8 DEF StepKeeps

-----------------------------------------------------------------------------
LEMMA SyncedStep ==
    ASSUME RowsInv, NEW k \in Periods \cup {Nothing}, NEW ls, NEW ps, Synced(k, ls, ps)
    PROVE  /\ matrix' \in [Accounts -> [Periods -> Requirements]]
           /\ \A a \in Accounts, m \in sealed : matrix'[a][m] = matrix[a][m]
<1> USE ReadyDays, ReadyAssumption DEF RowsInv
<1>1. matrix \in [Accounts -> [Periods -> Requirements]] /\ sealed \subseteq Periods /\ Main \in Accounts
  BY DEF ReadyTypeOK
<1>2. CASE k = Nothing
  BY <1>1, <1>2 DEF Synced
<1>3. CASE k # Nothing
  <2> DEFINE now == matrix[Main][k]
             then == IF now \notin {"expected", "reconciled"} THEN now
                     ELSE IF k # Nothing /\ Proven(k, ls, ps) THEN "reconciled" ELSE "expected"
  <2>1. /\ now # then => ExpectationGuard(k)
        /\ matrix' = [matrix EXCEPT ![Main][k] = then]
    BY <1>3 DEF Synced
  <2>2. then \in Requirements /\ now \in Requirements
    BY <1>1, <1>3 DEF Requirements
  <2> HIDE DEF then
  <2>3. matrix' \in [Accounts -> [Periods -> Requirements]]
    BY <1>1, <1>3, <2>1, <2>2
  <2>4. /\ matrix'[Main][k] = then
        /\ \A a \in Accounts, m \in Periods : a # Main \/ m # k => matrix'[a][m] = matrix[a][m]
    BY <1>1, <1>3, <2>1
  <2>5. k \in sealed => now = then
    BY <2>1 DEF ExpectationGuard, Open
  <2> QED
    BY <1>1, <2>3, <2>4, <2>5
<1> QED
  BY <1>2, <1>3

LEMMA LinesStep ==
    ASSUME RowsInv, NEW l \in Lines, NEW line \in Line, SetLine(l, line),
           papers[PaperOf[l]].stated \notin sealed, MonthOf(line.day) \notin sealed,
           lines[l] # Nothing =>
               /\ MonthOf(lines[l].day) \notin sealed
               /\ lines[l].entry # Nothing => MonthOf(entries[lines[l].entry].day) \notin sealed,
           line.entry # Nothing =>
               /\ line.entry \in Booked /\ line.state \in Matched /\ line.active
               /\ MonthOf(entries[line.entry].day) \notin sealed
    PROVE  StepKeeps
<1> USE ReadyDays, ReadyAssumption DEF RowsInv
<1>1. /\ lines \in [Lines -> Line \cup {Nothing}] /\ papers \in [Papers -> Paper]
      /\ lines' = [lines EXCEPT ![l] = line]
      /\ Synced(papers[PaperOf[l]].link, lines', papers)
      /\ UNCHANGED <<accounts, entries, papers, asserted, sealed, frozen>>
  BY DEF ReadyTypeOK, SetLine
<1>2. papers[PaperOf[l]].link \in Periods \cup {Nothing}
  BY <1>1 DEF Paper
<1>3. /\ matrix' \in [Accounts -> [Periods -> Requirements]]
      /\ \A a \in Accounts, m \in sealed : matrix'[a][m] = matrix[a][m]
  BY <1>1, <1>2, SyncedStep
<1>4. /\ lines' \in [Lines -> Line \cup {Nothing}]
      /\ lines'[l] = line /\ \A k \in Lines \ {l} : lines'[k] = lines[k]
  BY <1>1
<1>5. ReadyTypeOK' /\ PapersAgree'
  BY <1>1, <1>3, <1>4 DEF ReadyTypeOK, PapersAgree
<1>6. Booked' = Booked
  BY <1>1 DEF Booked
<1>7. LinesBacked'
  BY <1>4, <1>6, NothingIsNoRow DEF LinesBacked, Registered
<1>8. ASSUME NEW m \in sealed PROVE Kept(m)
  <2>1. LinesKept(m)
    BY <1>1, <1>4, NothingIsNoRow DEF LinesKept
  <2>2. EntriesKept(m) /\ PapersKept(m) /\ BalancesKept(m)
    BY <1>1, <1>3 DEF EntriesKept, PapersKept, BalancesKept
  <2> QED
    BY <1>1, <2>1, <2>2 DEF Kept
<1> QED
  BY <1>1, <1>5, <1>7, <1>8 DEF StepKeeps

LEMMA InsertLineKeeps ==
    ASSUME RowsInv, NEW l \in Lines, NEW day \in Days, NEW pending \in BOOLEAN,
           InsertLine(l, day, pending)
    PROVE  StepKeeps
<1> DEFINE line == [day |-> day, state |-> "unmatched", manual |-> FALSE,
                    pending |-> pending, active |-> TRUE, entry |-> Nothing]
<1>1. line \in Line /\ line.entry = Nothing /\ line.day = day
  BY DEF Line, States, Settled, Matched
<1>2. /\ SetLine(l, line) /\ lines[l] = Nothing
      /\ papers[PaperOf[l]].stated \notin sealed /\ MonthOf(day) \notin sealed
  BY DEF InsertLine, LineInsertGuard, LineMonths, Open
<1> HIDE DEF line
<1> QED
  BY <1>1, <1>2, LinesStep

LEMMA LineIsRow ==
    ASSUME RowsInv, NEW l \in Registered
    PROVE  l \in Lines /\ lines[l] # Nothing /\ lines[l] \in Line
BY DEF RowsInv, ReadyTypeOK, Registered

LEMMA MatchLineKeeps ==
    ASSUME RowsInv, NEW l \in Lines, NEW e \in EntryIds, NEW state \in Matched, NEW manual \in BOOLEAN,
           MatchLine(l, e, state, manual)
    PROVE  StepKeeps
<1> DEFINE line == [lines[l] EXCEPT !.state = state, !.manual = manual, !.entry = e]
<1>1. l \in Registered /\ lines[l].active /\ lines[l].state \notin Settled
  BY DEF MatchLine, ActiveLines
<1>2. lines[l] \in Line /\ lines[l].entry = Nothing
  BY <1>1, LineIsRow DEF RowsInv, LinesBacked, Settled
<1>3. /\ line \in Line /\ line.entry = e /\ line.day = lines[l].day
      /\ line.state = state /\ line.active = lines[l].active
  BY <1>2 DEF Line, States, Settled
<1>4. /\ SetLine(l, line) /\ e \in Booked
      /\ MonthOf(entries[e].day) \notin sealed
      /\ papers[PaperOf[l]].stated \notin sealed /\ MonthOf(lines[l].day) \notin sealed
  BY DEF MatchLine, TransactionGuard, LineGuard, LineMonths, Open, Booked
<1> HIDE DEF line
<1> QED
  BY <1>1, <1>2, <1>3, <1>4, LinesStep

LEMMA SetLineMatchKeeps ==
    ASSUME RowsInv, NEW l \in Lines, NEW state \in States \ Matched, SetLineMatch(l, state)
    PROVE  StepKeeps
<1> DEFINE line == [lines[l] EXCEPT !.state = state, !.manual = FALSE, !.entry = Nothing]
<1>1. l \in Registered
  BY DEF SetLineMatch, ActiveLines
<1>2. lines[l] \in Line
  BY <1>1, LineIsRow
<1>3. line \in Line /\ line.entry = Nothing /\ line.day = lines[l].day
  BY <1>2 DEF Line
<1>4. /\ SetLine(l, line)
      /\ lines[l].entry # Nothing => MonthOf(entries[lines[l].entry].day) \notin sealed
      /\ papers[PaperOf[l]].stated \notin sealed /\ MonthOf(lines[l].day) \notin sealed
  BY DEF SetLineMatch, SplitGuard, LineGuard, LineMonths, Open
<1> HIDE DEF line
<1> QED
  BY <1>3, <1>4, LinesStep

LEMMA CorrectRowKeeps ==
    ASSUME RowsInv, NEW l \in Lines, NEW day \in Days, NEW pending \in BOOLEAN, NEW active \in BOOLEAN,
           CorrectRow(l, day, pending, active)
    PROVE  StepKeeps
<1> DEFINE line == [lines[l] EXCEPT !.day = day, !.pending = pending, !.active = active,
                                    !.state = "unmatched"]
<1>1. l \in Registered /\ l \in LinesOf(PaperOf[l]) /\ lines[l].state \notin Settled
  BY DEF CorrectRow, Undecided, LinesOf
<1>2. lines[l] \in Line /\ lines[l].entry = Nothing
  BY <1>1, LineIsRow DEF RowsInv, LinesBacked, Settled
<1>3. line \in Line /\ line.entry = Nothing /\ line.day = day
  BY <1>2 DEF Line, States, Settled
<1>4. /\ SetLine(l, line) /\ MonthOf(day) \notin sealed
      /\ papers[PaperOf[l]].stated \notin sealed /\ MonthOf(lines[l].day) \notin sealed
  BY DEF CorrectRow, LineGuard, LineMonths, Open
<1> HIDE DEF line
<1> QED
  BY <1>2, <1>3, <1>4, LinesStep

-----------------------------------------------------------------------------
LEMMA PapersStep ==
    ASSUME RowsInv, NEW p \in Papers, NEW paper \in Paper, SetPaper(p, paper),
           NEW k \in Periods \cup {Nothing}, Synced(k, lines, papers'),
           asserted' \in [Days -> Assertion \cup {Nothing}],
           \A day \in Days : asserted'[day] # asserted[day] => MonthOf(day) \notin sealed,
           paper.review = paper.stated,
           paper.stated # Nothing => paper.link \in {Nothing, paper.stated},
           paper.approved => paper.ends # Nothing /\ paper.stated = MonthOf(paper.ends),
           papers[p].stated \notin sealed, papers[p].link \notin sealed,
           paper.stated \notin sealed, paper.link \notin sealed,
           paper.stated # papers[p].stated =>
               \A l \in LinesOf(p) : MonthOf(lines[l].day) \notin sealed
    PROVE  StepKeeps
<1> USE ReadyDays, ReadyAssumption DEF RowsInv
<1>1. /\ papers \in [Papers -> Paper] /\ papers' = [papers EXCEPT ![p] = paper]
      /\ UNCHANGED <<accounts, entries, lines, sealed, frozen>>
  BY DEF ReadyTypeOK, SetPaper
<1>2. /\ matrix' \in [Accounts -> [Periods -> Requirements]]
      /\ \A a \in Accounts, m \in sealed : matrix'[a][m] = matrix[a][m]
  BY SyncedStep
<1>3. /\ papers' \in [Papers -> Paper]
      /\ papers'[p] = paper /\ \A q \in Papers \ {p} : papers'[q] = papers[q]
  BY <1>1
<1>4. ReadyTypeOK'
  BY <1>1, <1>2, <1>3 DEF ReadyTypeOK
<1>5. PapersAgree'
  BY <1>3 DEF PapersAgree
<1>6. LinesBacked'
  BY <1>1 DEF LinesBacked, Registered, Booked
<1>7. ASSUME NEW m \in sealed PROVE Kept(m)
  <2>1. PapersKept(m)
    BY <1>3 DEF PapersKept
  <2>2. EntriesKept(m) /\ LinesKept(m) /\ BalancesKept(m)
    BY <1>1, <1>2 DEF EntriesKept, LinesKept, BalancesKept
  <2> QED
    BY <1>1, <2>1, <2>2 DEF Kept
<1> QED
  BY <1>1, <1>4, <1>5, <1>6, <1>7 DEF StepKeeps

LEMMA UpdateMetadataKeeps ==
    ASSUME RowsInv, NEW p \in Papers, NEW m \in Periods, UpdateMetadata(p, m)
    PROVE  StepKeeps
<1> USE ReadyDays DEF RowsInv
<1> DEFINE paper == [papers[p] EXCEPT !.review = m, !.stated = m, !.approved = FALSE,
                                      !.link = IF @ = m THEN m ELSE Nothing]
<1>1. papers[p] \in Paper /\ papers \in [Papers -> Paper] /\ sealed \subseteq Periods
  BY DEF ReadyTypeOK
<1>2. /\ paper \in Paper /\ paper.review = m /\ paper.stated = m /\ ~paper.approved
      /\ paper.link = IF papers[p].link = m THEN m ELSE Nothing
  BY <1>1 DEF Paper
<1>3. ReviewGuard(p, {m})
  BY DEF UpdateMetadata
<1>4. m \notin sealed /\ papers[p].review \notin sealed
      /\ \A l \in LinesOf(p) : MonthOf(lines[l].day) \notin sealed
  BY <1>3 DEF ReviewGuard, Open, LineMonths
<1>5. papers[p].link \notin sealed
  BY <1>1, <1>4 DEF UpdateMetadata, LinkGuard, Open
<1>6. papers[p].stated \notin sealed
  BY <1>4 DEF PapersAgree
<1>7. SetPaper(p, paper) /\ Synced(papers[p].link, lines, papers') /\ UNCHANGED asserted
  BY DEF UpdateMetadata
<1>8. papers[p].link \in Periods \cup {Nothing} /\ asserted' \in [Days -> Assertion \cup {Nothing}]
  BY <1>1, <1>7 DEF Paper, ReadyTypeOK
<1> HIDE DEF paper
<1>9. paper.link \notin sealed /\ paper.stated \notin sealed
      /\ (paper.stated # Nothing => paper.link \in {Nothing, paper.stated})
  BY <1>1, <1>2, <1>4
<1> QED
  BY <1>2, <1>4, <1>5, <1>6, <1>7, <1>8, <1>9, PapersStep

LEMMA ApproveReviewKeeps ==
    ASSUME RowsInv, NEW p \in Papers, NEW day \in Days, NEW cents \in Cents \cup {0},
           ApproveReview(p, day, cents)
    PROVE  StepKeeps
<1> USE ReadyDays DEF RowsInv
<1> DEFINE m == MonthOf(day)
           paper == [papers[p] EXCEPT !.approved = TRUE, !.ends = day, !.link = m]
           balance == [cents |-> cents, paper |-> p, month |-> m]
<1>1. /\ papers[p] \in Paper /\ papers \in [Papers -> Paper] /\ sealed \subseteq Periods
      /\ m \in Periods /\ asserted \in [Days -> Assertion \cup {Nothing}]
  BY DEF ReadyTypeOK
<1>2. /\ m = papers[p].review /\ papers[p].link \in {Nothing, m}
      /\ SetPaper(p, paper) /\ Synced(m, lines, papers')
      /\ asserted' = [asserted EXCEPT ![day] = balance]
      /\ m \notin sealed
  BY DEF ApproveReview, LinkGuard, Open
<1>3. papers[p].stated = m
  BY <1>2 DEF PapersAgree
<1>4. /\ paper \in Paper /\ paper.review = m /\ paper.stated = m /\ paper.ends = day
      /\ paper.link = m
  BY <1>1, <1>2, <1>3 DEF Paper
<1>5. balance \in Assertion
  <2>1. cents \in Int /\ m \in Periods
    BY <1>1, ReadyAssumption
  <2> HIDE DEF m
  <2> QED
    BY <2>1 DEF Assertion
<1> HIDE DEF balance
<1>6. /\ asserted' \in [Days -> Assertion \cup {Nothing}]
      /\ \A d \in Days : asserted'[d] # asserted[d] => MonthOf(d) \notin sealed
  BY <1>1, <1>2, <1>5
<1>7. paper.ends # Nothing /\ paper.stated = MonthOf(paper.ends)
  BY <1>4
<1>8. papers[p].link \notin sealed
  BY <1>1, <1>2
<1> HIDE DEF paper, m
<1> QED
  BY <1>1, <1>2, <1>3, <1>4, <1>6, <1>7, <1>8, PapersStep

LEMMA ReopenReviewKeeps ==
    ASSUME RowsInv, NEW p \in Papers, ReopenReview(p)
    PROVE  StepKeeps
<1> USE ReadyDays DEF RowsInv
<1> DEFINE paper == [papers[p] EXCEPT !.approved = FALSE]
<1>1. /\ papers[p] \in Paper /\ papers \in [Papers -> Paper] /\ sealed \subseteq Periods
      /\ asserted \in [Days -> Assertion \cup {Nothing}]
  BY DEF ReadyTypeOK
<1>2. /\ papers[p].review \notin sealed /\ papers[p].approved
      /\ SetPaper(p, paper) /\ Synced(papers[p].link, lines, papers') /\ UNCHANGED asserted
  BY DEF ReopenReview, ReviewGuard, Open
<1>3. /\ papers[p].stated = papers[p].review /\ papers[p].link \in {Nothing, papers[p].stated}
      /\ papers[p].stated # Nothing => papers[p].link \in {Nothing, papers[p].stated}
  BY <1>2 DEF PapersAgree, ReadyTypeOK, Paper
<1>4. /\ paper \in Paper /\ paper.review = papers[p].review /\ paper.stated = papers[p].stated
      /\ paper.link = papers[p].link /\ ~paper.approved
  BY <1>1 DEF Paper
<1>5. papers[p].link \notin sealed /\ papers[p].stated \notin sealed
  BY <1>1, <1>2, <1>3
<1>6. papers[p].link \in Periods \cup {Nothing} /\ asserted' \in [Days -> Assertion \cup {Nothing}]
  BY <1>1, <1>2 DEF Paper
<1>7. \A day \in Days : asserted'[day] # asserted[day] => MonthOf(day) \notin sealed
  BY <1>2
<1> HIDE DEF paper
<1> QED
  BY <1>2, <1>3, <1>4, <1>5, <1>6, <1>7, PapersStep

LEMMA AttachDocumentKeeps ==
    ASSUME RowsInv, NEW p \in Papers, NEW m \in Periods, AttachDocument(p, m)
    PROVE  StepKeeps
<1> USE ReadyDays DEF RowsInv
<1> DEFINE paper == [papers[p] EXCEPT !.link = m]
<1>1. /\ papers[p] \in Paper /\ papers \in [Papers -> Paper] /\ sealed \subseteq Periods
      /\ asserted \in [Days -> Assertion \cup {Nothing}]
  BY DEF ReadyTypeOK
<1>2. /\ papers[p].link = Nothing /\ papers[p].stated \in {Nothing, m} /\ m \notin sealed
      /\ SetPaper(p, paper) /\ Synced(m, lines, papers') /\ UNCHANGED asserted
  BY DEF AttachDocument, LinkGuard, Open
<1>3. /\ papers[p].stated = papers[p].review
      /\ papers[p].approved =>
            papers[p].ends # Nothing /\ papers[p].stated = MonthOf(papers[p].ends)
  BY DEF PapersAgree
<1>4. /\ paper \in Paper /\ paper.review = papers[p].review /\ paper.stated = papers[p].stated
      /\ paper.link = m /\ paper.approved = papers[p].approved /\ paper.ends = papers[p].ends
  BY <1>1 DEF Paper
<1>5. papers[p].link \notin sealed /\ papers[p].stated \notin sealed
  BY <1>1, <1>2
<1>6. asserted' \in [Days -> Assertion \cup {Nothing}]
      /\ \A day \in Days : asserted'[day] # asserted[day] => MonthOf(day) \notin sealed
  BY <1>1, <1>2
<1>7. paper.stated # Nothing => paper.link \in {Nothing, paper.stated}
  BY <1>2, <1>4
<1> HIDE DEF paper
<1> QED
  BY <1>2, <1>3, <1>4, <1>5, <1>6, <1>7, PapersStep

LEMMA DetachDocumentKeeps ==
    ASSUME RowsInv, NEW p \in Papers, DetachDocument(p)
    PROVE  StepKeeps
<1> USE ReadyDays DEF RowsInv
<1> DEFINE paper == [papers[p] EXCEPT !.link = Nothing]
<1>1. /\ papers[p] \in Paper /\ papers \in [Papers -> Paper] /\ sealed \subseteq Periods
      /\ asserted \in [Days -> Assertion \cup {Nothing}]
  BY DEF ReadyTypeOK
<1>2. /\ papers[p].link # Nothing /\ papers[p].link \notin sealed
      /\ SetPaper(p, paper) /\ Synced(papers[p].link, lines, papers') /\ UNCHANGED asserted
  BY DEF DetachDocument, LinkGuard, Open
<1>3. /\ papers[p].stated = papers[p].review
      /\ papers[p].stated # Nothing => papers[p].link \in {Nothing, papers[p].stated}
      /\ papers[p].approved =>
            papers[p].ends # Nothing /\ papers[p].stated = MonthOf(papers[p].ends)
  BY DEF PapersAgree
<1>4. /\ paper \in Paper /\ paper.review = papers[p].review /\ paper.stated = papers[p].stated
      /\ paper.link = Nothing /\ paper.approved = papers[p].approved /\ paper.ends = papers[p].ends
  BY <1>1 DEF Paper
<1>5. papers[p].stated \notin sealed /\ Nothing \notin sealed
  BY <1>1, <1>2, <1>3
<1>6. papers[p].link \in Periods \cup {Nothing} /\ asserted' \in [Days -> Assertion \cup {Nothing}]
      /\ \A day \in Days : asserted'[day] # asserted[day] => MonthOf(day) \notin sealed
  BY <1>1, <1>2 DEF Paper
<1> HIDE DEF paper
<1> QED
  BY <1>2, <1>3, <1>4, <1>5, <1>6, PapersStep

-----------------------------------------------------------------------------
(* Requirements, accounts and the lock itself.                                *)
LEMMA OthersKeep ==
    ASSUME RowsInv, UNCHANGED <<entries, lines, papers, asserted>>,
           accounts' \in SUBSET Accounts, accounts \subseteq accounts',
           matrix' \in [Accounts -> [Periods -> Requirements]], sealed' \subseteq Periods,
           DOMAIN frozen' = Periods,
           \A m \in sealed \cap sealed' :
               frozen'[m] = frozen[m] /\ \A a \in Accounts : matrix'[a][m] = matrix[a][m]
    PROVE  StepKeeps
<1>1. RowsInv'
  BY DEF RowsInv, ReadyTypeOK, PapersAgree, LinesBacked, Registered, Booked
<1>2. ASSUME NEW m \in sealed \cap sealed' PROVE Kept(m)
  BY DEF Kept, EntriesKept, LinesKept, PapersKept, BalancesKept
<1> QED
  BY <1>1, <1>2 DEF StepKeeps

LEMMA SetRequirementKeeps ==
    ASSUME RowsInv, NEW a \in Accounts, NEW m \in Periods, NEW r \in Requirements, SetRequirement(a, m, r)
    PROVE  StepKeeps
<1>1. /\ matrix \in [Accounts -> [Periods -> Requirements]] /\ m \notin sealed
      /\ matrix' = [matrix EXCEPT ![a][m] = r]
  BY DEF RowsInv, ReadyTypeOK, SetRequirement, ExpectationGuard, Open
<1>2. /\ matrix' \in [Accounts -> [Periods -> Requirements]]
      /\ \A b \in Accounts, k \in sealed : matrix'[b][k] = matrix[b][k]
  BY <1>1 DEF RowsInv, ReadyTypeOK
<1> QED
  BY <1>2, OthersKeep DEF SetRequirement, RowsInv, ReadyTypeOK

LEMMA AddAccountKeeps ==
    ASSUME RowsInv, NEW a \in Accounts, AddAccount(a)
    PROVE  StepKeeps
BY OthersKeep DEF AddAccount, RowsInv, ReadyTypeOK

LEMMA SealKeeps ==
    ASSUME RowsInv, NEW m \in Periods, Seal(m) \/ Unseal(m)
    PROVE  StepKeeps
BY OthersKeep DEF Seal, Unseal, Reopened, RowsInv, ReadyTypeOK

LEMMA EveryStepKeeps ==
    ASSUME RowsInv, [ReadyNext]_readyVars
    PROVE  StepKeeps
<1>1. CASE LedgerNext
  BY <1>1, CreateTxnKeeps, UpdateTxnKeeps, DeleteTxnKeeps, CreateRelationshipKeeps,
     RevokeRelationshipKeeps, SetClaimKeeps DEF LedgerNext
<1>2. CASE \E l \in Lines :
          \/ \E day \in Days, pending \in BOOLEAN :
                \/ InsertLine(l, day, pending)
                \/ \E active \in BOOLEAN : CorrectRow(l, day, pending, active)
          \/ \E e \in EntryIds, state \in Matched, manual \in BOOLEAN :
                MatchLine(l, e, state, manual)
          \/ \E state \in States \ Matched : SetLineMatch(l, state)
  BY <1>2, InsertLineKeeps, CorrectRowKeeps, MatchLineKeeps, SetLineMatchKeeps
<1>3. CASE \E p \in Papers :
          \/ \E m \in Periods : UpdateMetadata(p, m) \/ AttachDocument(p, m)
          \/ \E day \in Days, cents \in Cents \cup {0} : ApproveReview(p, day, cents)
          \/ ReopenReview(p)
          \/ DetachDocument(p)
  BY <1>3, UpdateMetadataKeeps, AttachDocumentKeeps, ApproveReviewKeeps, ReopenReviewKeeps,
     DetachDocumentKeeps
<1>4. CASE \/ \E a \in Accounts, m \in Periods, r \in Requirements : SetRequirement(a, m, r)
           \/ \E a \in Accounts : AddAccount(a)
  BY <1>4, SetRequirementKeeps, AddAccountKeeps
<1>5. CASE \E day \in Days : AdjustAssertion(day) \/ AdjustLockedBalance(day)
  BY <1>5, CreateAdjustmentKeeps DEF AdjustAssertion, AdjustLockedBalance
<1>6. CASE \E m \in Periods : Seal(m) \/ Unseal(m)
  BY <1>6, SealKeeps
<1>7. CASE UNCHANGED readyVars
  <2>1. UNCHANGED <<entries, lines, papers, asserted>> /\ UNCHANGED <<accounts, matrix, sealed, frozen>>
    BY <1>7 DEF readyVars
  <2> QED
    BY <2>1, OthersKeep DEF RowsInv, ReadyTypeOK
<1> QED
  BY <1>1, <1>2, <1>3, <1>4, <1>5, <1>6, <1>7 DEF ReadyNext, StatementNext

-----------------------------------------------------------------------------
(* The exceptions of a month that stays closed.                               *)

(* Where its statement states a month, a line belongs to that month.          *)
LEMMA StatedMonth ==
    ASSUME RowsInv, NEW l \in Lines, papers[PaperOf[l]].stated # Nothing
    PROVE  EffectiveMonth(l) = papers[PaperOf[l]].stated
<1>1. PaperOf[l] \in Papers
  BY ReadyAssumption
<1> QED
  BY <1>1 DEF EffectiveMonth, RowsInv, PapersAgree

(* The same after the step.                                                   *)
LEMMA StatedMonthNext ==
    ASSUME RowsInv', NEW l \in Lines, papers'[PaperOf[l]].stated # Nothing
    PROVE  EffectiveMonth(l)' = papers'[PaperOf[l]].stated
<1>1. PaperOf[l] \in Papers
  BY ReadyAssumption
<1> QED
  BY <1>1 DEF EffectiveMonth, RowsInv, PapersAgree

(* A line that states the month, and its statement, are as they were.         *)
LEMMA LineStays ==
    ASSUME RowsInv, RowsInv', NEW m \in Periods, Kept(m), NEW l \in Lines,
           papers[PaperOf[l]].stated = m \/ papers'[PaperOf[l]].stated = m
    PROVE  /\ lines'[l] = lines[l] /\ papers'[PaperOf[l]] = papers[PaperOf[l]]
           /\ EffectiveMonth(l) = m /\ EffectiveMonth(l)' = m
<1>1. PaperOf[l] \in Papers /\ m # Nothing
  BY ReadyAssumption, ReadyDays
<1>2. papers'[PaperOf[l]] = papers[PaperOf[l]]
  BY <1>1 DEF Kept, PapersKept
<1>3. lines'[l] = lines[l]
  BY <1>2 DEF Kept, LinesKept
<1> QED
  BY <1>1, <1>2, <1>3, StatedMonth, StatedMonthNext

(* A line of a frozen exception that the triggers can answer for states the   *)
(* month.                                                                     *)
LEMMA FrozenStates ==
    ASSUME RowsInv, NEW m \in Periods, Kept(m), NEW l \in Lines, FrozenLine(l, m),
           papers'[PaperOf[l]].stated # Nothing
    PROVE  papers[PaperOf[l]].stated = m
<1>1. PaperOf[l] \in Papers /\ m # Nothing /\ l \in LinesOf(PaperOf[l])
  BY ReadyAssumption, ReadyDays DEF LinesOf, FrozenLine
<1> QED
  BY <1>1 DEF FrozenLine, Kept, PapersKept

(* The tie of a frozen line to its month is kept.                             *)
LEMMA FrozenLineStays ==
    ASSUME RowsInv, RowsInv', NEW m \in Periods, Kept(m), NEW l \in Lines, FrozenLine(l, m)
    PROVE  FrozenLine(l, m)'
<1>1. PaperOf[l] \in Papers /\ m # Nothing /\ l \in LinesOf(PaperOf[l])
  BY ReadyAssumption, ReadyDays DEF LinesOf, FrozenLine
<1>2. l \in Registered'
  BY DEF Kept, LinesKept, FrozenLine, Registered
<1>3. CASE papers[PaperOf[l]].stated = m
  BY <1>2, <1>3, LineStays DEF FrozenLine
<1>4. CASE papers[PaperOf[l]].stated = Nothing /\ papers[PaperOf[l]].link = m
  BY <1>1, <1>2, <1>4 DEF FrozenLine, Kept, PapersKept
<1>5. CASE papers[PaperOf[l]].stated = Nothing /\ MonthOf(lines[l].day) = m
  <2>1. lines'[l] = lines[l]
    BY <1>5 DEF Kept, LinesKept, FrozenLine, Registered
  <2>2. papers'[PaperOf[l]].stated = papers[PaperOf[l]].stated
    BY <1>1, <1>5 DEF Kept, PapersKept
  <2> QED
    BY <1>2, <1>5, <2>1, <2>2 DEF FrozenLine
<1> QED
  BY <1>3, <1>4, <1>5 DEF FrozenLine

(* The transactions of the month, and what stands for them, are as they were. *)
LEMMA EntryStays ==
    ASSUME RowsInv, RowsInv', NEW m \in Periods, Kept(m), NEW e \in EntryIds,
           \/ entries[e] # Nothing /\ MonthOf(entries[e].day) = m
           \/ entries'[e] # Nothing /\ MonthOf(entries'[e].day) = m
    PROVE  /\ entries'[e] = entries[e] /\ Semantic(e)' = Semantic(e)
           /\ UnconfirmedExpense(e)' = UnconfirmedExpense(e)
           /\ CoveredByLine(e)' = CoveredByLine(e)
<1>1. entries'[e] = entries[e] /\ entries[e] # Nothing /\ MonthOf(entries[e].day) = m
      /\ e # Nothing
  BY ReadyDays DEF Kept, EntriesKept
<1>2. Semantic(e)' = Semantic(e) /\ UnconfirmedExpense(e)' = UnconfirmedExpense(e)
  BY <1>1 DEF Semantic, UnconfirmedExpense
<1>3. ASSUME NEW l \in Lines
      PROVE  /\ lines[l] # Nothing /\ lines[l].entry = e => lines'[l] = lines[l]
             /\ lines'[l] # Nothing /\ lines'[l].entry = e => lines'[l] = lines[l]
  BY <1>1 DEF Kept, LinesKept
<1>4. \A l \in Lines :
        (l \in ActiveLines /\ lines[l].entry = e) <=> (l \in ActiveLines' /\ lines'[l].entry = e)
  BY <1>3 DEF ActiveLines, Registered
<1>5. ActiveLines \subseteq Lines /\ ActiveLines' \subseteq Lines
  BY DEF ActiveLines, Registered
<1>6. (\E l \in ActiveLines' : lines'[l].entry = e /\ l \in Credit)
      <=> (\E l \in ActiveLines : lines[l].entry = e /\ l \in Credit)
  BY <1>4, <1>5
<1>7. CoveredByLine(e)' = CoveredByLine(e)
  BY <1>1, <1>6, Zenon DEF CoveredByLine
<1> QED
  BY <1>1, <1>2, <1>7

(* Which set of exceptions a type belongs to.                                 *)
LEMMA TypesDiffer ==
    ASSUME NEW m, NEW x
    PROVE  x \in Exceptions(m) <=>
      \/ x.type = "missing_statement" /\ x \in StatementExceptions(m)
      \/ x.type = "unresolved_line" /\ x \in UnresolvedLineExceptions(m)
      \/ x.type = "automatic_match" /\ x \in AutomaticAuthorityExceptions(m)
      \/ x.type = "positive_flow" /\ x \in PositiveFlowExceptions(m)
      \/ x.type = "transaction_flow" /\ x \in TransactionFlowExceptions(m)
      \/ x.type = "unconfirmed_category" /\ x \in CategoryExceptions(m)
      \/ x.type \in {"balance_delta", "balance_evidence"} /\ x \in AssertionExceptions(m)
      \/ x.type = "manual_adjustment" /\ x \in ManualAdjustmentExceptions(m)
BY DEF Exceptions, StatementExceptions, UnresolvedLineExceptions, AutomaticAuthorityExceptions,
     PositiveFlowExceptions, TransactionFlowExceptions, CategoryExceptions, AssertionExceptions,
     ManualAdjustmentExceptions, Exception

(* One exception that the triggers can answer for, of a month that a step     *)
(* leaves alone: its rows are as they were, so it was one before the step     *)
(* exactly if it is one after it.                                             *)
LEMMA LineExceptionStays ==
    ASSUME RowsInv, RowsInv', FrozenTied, NEW m \in sealed, m \in Periods, Kept(m),
           NEW x, x.type \in LineTypes, x \in Exceptions(m)' \/ x \in frozen[m].items,
           Answerable(x, m)'
    PROVE  Answerable(x, m) /\ (x \in Exceptions(m)' <=> x \in Exceptions(m))
<1> DEFINE l == x.subject
<1>1. x.type \in {"unresolved_line", "automatic_match", "positive_flow"}
  BY DEF LineTypes
<1>2. papers'[PaperOf[l]].stated # Nothing
  BY <1>1 DEF Answerable
<1>3. l \in Lines /\ (papers[PaperOf[l]].stated = m \/ papers'[PaperOf[l]].stated = m) /\ l \in Registered
  <2>1. CASE x \in Exceptions(m)'
    <3>1. l \in ActiveLines' /\ EffectiveMonth(l)' = m
      BY <1>1, <2>1, TypesDiffer DEF Exceptions, StatementExceptions, UnresolvedLineExceptions,
         AutomaticAuthorityExceptions, PositiveFlowExceptions, TransactionFlowExceptions,
         CategoryExceptions, AssertionExceptions, ManualAdjustmentExceptions, Exception
    <3>2. l \in Lines /\ lines'[l] # Nothing
      BY <3>1 DEF ActiveLines, Registered
    <3>3. papers'[PaperOf[l]].stated = m
      BY <1>2, <3>1, <3>2, StatedMonthNext
    <3>4. lines'[l] = lines[l]
      BY <3>2, <3>3, LineStays
    <3> QED
      BY <3>2, <3>3, <3>4 DEF Registered
  <2>2. CASE x \in frozen[m].items
    <3>1. FrozenLine(l, m)
      BY <2>2 DEF FrozenTied
    <3>2. l \in Lines /\ l \in Registered
      BY <3>1 DEF FrozenLine, Registered
    <3> QED
      BY <1>2, <3>1, <3>2, FrozenStates
  <2> QED
    BY <2>1, <2>2
<1>4. /\ lines'[l] = lines[l] /\ papers'[PaperOf[l]] = papers[PaperOf[l]]
      /\ EffectiveMonth(l) = m /\ EffectiveMonth(l)' = m
  BY <1>3, LineStays
<1>5. l \in ActiveLines' <=> l \in ActiveLines
  BY <1>3, <1>4 DEF ActiveLines, Registered
<1>6. CASE x.type \in {"unresolved_line", "automatic_match"}
  <2>1. Answerable(x, m)
    BY <1>2, <1>4, <1>6 DEF Answerable
  <2>2. (Unresolved(l)' <=> Unresolved(l))
        /\ (lines'[l].state \in Matched /\ ~lines'[l].manual <=> lines[l].state \in Matched /\ ~lines[l].manual)
    BY <1>4 DEF Unresolved
  <2>3. x \in UnresolvedLineExceptions(m)' <=> x \in UnresolvedLineExceptions(m)
    BY <1>4, <1>5, <2>2 DEF UnresolvedLineExceptions, Exception
  <2>4. x \in AutomaticAuthorityExceptions(m)' <=> x \in AutomaticAuthorityExceptions(m)
    BY <1>4, <1>5, <2>2 DEF AutomaticAuthorityExceptions, Exception
  <2>5. x \in Exceptions(m) <=> \/ x.type = "unresolved_line" /\ x \in UnresolvedLineExceptions(m)
                                \/ x.type = "automatic_match" /\ x \in AutomaticAuthorityExceptions(m)
    BY <1>6, TypesDiffer
  <2>6. x \in Exceptions(m)' <=> \/ x.type = "unresolved_line" /\ x \in UnresolvedLineExceptions(m)'
                                 \/ x.type = "automatic_match" /\ x \in AutomaticAuthorityExceptions(m)'
    BY <1>6 DEF Exceptions, StatementExceptions, UnresolvedLineExceptions,
         AutomaticAuthorityExceptions, PositiveFlowExceptions, TransactionFlowExceptions,
         CategoryExceptions, AssertionExceptions, ManualAdjustmentExceptions, Exception
  <2> QED
    BY <2>1, <2>3, <2>4, <2>5, <2>6
<1>7. CASE x.type = "positive_flow"
  <2>1. lines[l].entry = Nothing \/ MonthOf(entries'[lines[l].entry].day) = m
    BY <1>4, <1>7 DEF Answerable
  <2>2. lines[l].entry # Nothing => lines[l].entry \in Booked'
    BY <1>3, <1>4 DEF RowsInv, LinesBacked, Registered
  <2>3. lines[l].entry # Nothing =>
            /\ entries'[lines[l].entry] = entries[lines[l].entry]
            /\ Semantic(lines[l].entry)' = Semantic(lines[l].entry)
    <3> SUFFICES ASSUME NEW e \in EntryIds, e = lines[l].entry, e # Nothing
                 PROVE  entries'[e] = entries[e] /\ Semantic(e)' = Semantic(e)
      BY <2>2, <1>4 DEF Booked, Semantic
    <3> QED
      BY <2>1, <2>2, EntryStays DEF Booked
  <2>4. Answerable(x, m)
    BY <1>2, <1>4, <1>7, <2>1, <2>3 DEF Answerable
  <2>5. Unexplained(l)' <=> Unexplained(l)
    BY <1>4, <2>3 DEF Unexplained, Semantic
  <2>6. x \in PositiveFlowExceptions(m)' <=> x \in PositiveFlowExceptions(m)
    BY <1>4, <1>5, <2>5 DEF PositiveFlowExceptions, Exception
  <2>7. x \in Exceptions(m) <=> x \in PositiveFlowExceptions(m)
    BY <1>7, TypesDiffer
  <2>8. x \in Exceptions(m)' <=> x \in PositiveFlowExceptions(m)'
    BY <1>7 DEF Exceptions, StatementExceptions, UnresolvedLineExceptions,
         AutomaticAuthorityExceptions, PositiveFlowExceptions, TransactionFlowExceptions,
         CategoryExceptions, AssertionExceptions, ManualAdjustmentExceptions, Exception
  <2> QED
    BY <2>4, <2>6, <2>7, <2>8
<1> QED
  BY <1>1, <1>6, <1>7

LEMMA EntryExceptionStays ==
    ASSUME RowsInv, RowsInv', NEW m \in Periods, Kept(m),
           NEW x, x.type \in {"transaction_flow", "unconfirmed_category", "manual_adjustment"},
           x \in Exceptions(m)' \/ x \in Exceptions(m)
    PROVE  x \in Exceptions(m)' <=> x \in Exceptions(m)
<1> DEFINE e == x.subject
           Of(b) == x = Exception(x.type, e) /\ e \in EntryIds /\ b
<1> USE DEF Exceptions, StatementExceptions, UnresolvedLineExceptions,
         AutomaticAuthorityExceptions, PositiveFlowExceptions, TransactionFlowExceptions,
         CategoryExceptions, AssertionExceptions, ManualAdjustmentExceptions, Exception
<1>1. x \in Exceptions(m) => e \in Booked /\ MonthOf(entries[e].day) = m
  OBVIOUS
<1>2. x \in Exceptions(m)' => e \in Booked' /\ MonthOf(entries'[e].day) = m
  OBVIOUS
<1>3. /\ e \in EntryIds
      /\ \/ entries[e] # Nothing /\ MonthOf(entries[e].day) = m
         \/ entries'[e] # Nothing /\ MonthOf(entries'[e].day) = m
  BY <1>1, <1>2 DEF Booked
<1>4. /\ entries'[e] = entries[e] /\ Semantic(e)' = Semantic(e)
      /\ UnconfirmedExpense(e)' = UnconfirmedExpense(e)
      /\ CoveredByLine(e)' = CoveredByLine(e)
  <2> HIDE DEF e
  <2> QED
    BY <1>3, EntryStays
<1>5. e \in Booked' <=> e \in Booked
  BY <1>3, <1>4 DEF Booked
<1> QED
  BY <1>4, <1>5

LEMMA BalanceExceptionStays ==
    ASSUME RowsInv, RowsInv', NEW m \in Periods, Kept(m),
           NEW x, x.type = "balance_evidence",
           x \in Exceptions(m)' \/ x \in Exceptions(m)
    PROVE  x \in Exceptions(m)' <=> x \in Exceptions(m)
<1> DEFINE p == x.subject
<1> USE DEF Exceptions, StatementExceptions, UnresolvedLineExceptions,
         AutomaticAuthorityExceptions, PositiveFlowExceptions, TransactionFlowExceptions,
         CategoryExceptions, AssertionExceptions, ManualAdjustmentExceptions, Exception
<1>1. x \in Exceptions(m) => p \in Papers /\ papers[p].link = m
  OBVIOUS
<1>2. x \in Exceptions(m)' => p \in Papers /\ papers'[p].link = m
  OBVIOUS
<1>3. p \in Papers /\ papers'[p] = papers[p] /\ papers[p].link = m /\ m # Nothing
  BY <1>1, <1>2, ReadyDays DEF Kept, PapersKept
<1>4. Main \in Accounts /\ matrix'[Main][m] = matrix[Main][m]
  BY ReadyAssumption DEF Kept, BalancesKept
<1>5. papers[p].approved => papers[p].ends \in Days /\ MonthOf(papers[p].ends) = m
  <2>1. papers[p] \in Paper
    BY <1>3 DEF RowsInv, ReadyTypeOK
  <2>2. papers[p].ends \in Days \cup {Nothing}
    BY <2>1 DEF Paper
  <2> HIDE DEF p
  <2> QED
    BY <1>3, <2>2, ReadyDays DEF RowsInv, PapersAgree
<1>6. papers[p].approved => asserted'[papers[p].ends] = asserted[papers[p].ends]
  BY <1>5 DEF Kept, BalancesKept
<1>7. LacksBalance(p, m)' <=> LacksBalance(p, m)
  BY <1>3, <1>6 DEF LacksBalance
<1> QED
  BY <1>3, <1>4, <1>7

LEMMA StatementExceptionStays ==
    ASSUME RowsInv, RowsInv', NEW m \in Periods, Kept(m),
           NEW x, x.type = "missing_statement", x.subject \in accounts
    PROVE  x \in Exceptions(m)' <=> x \in Exceptions(m)
<1> DEFINE a == x.subject
<1> USE DEF Exceptions, StatementExceptions, UnresolvedLineExceptions,
         AutomaticAuthorityExceptions, PositiveFlowExceptions, TransactionFlowExceptions,
         CategoryExceptions, AssertionExceptions, ManualAdjustmentExceptions, Exception
<1>1. a \in Accounts /\ a \in accounts' /\ matrix'[a][m] = matrix[a][m]
  BY DEF Kept, BalancesKept, RowsInv, ReadyTypeOK
<1>2. PeriodMatrix(m)[a] = matrix[a][m] /\ PeriodMatrix(m)'[a] = matrix'[a][m]
  BY <1>1 DEF PeriodMatrix
<1>3. x \in Exceptions(m) <=> x = Exception("missing_statement", a) /\ matrix[a][m] \in OpenRequirements
  BY <1>1, <1>2
<1>4. x \in Exceptions(m)' <=> x = Exception("missing_statement", a) /\ matrix'[a][m] \in OpenRequirements
  BY <1>1, <1>2
<1> QED
  BY <1>1, <1>3, <1>4

LEMMA ExceptionTypes ==
    ASSUME NEW m, NEW x, x \in Exceptions(m)
    PROVE  x.type \in LineTypes \cup {"missing_statement", "transaction_flow", "unconfirmed_category",
                                     "manual_adjustment", "balance_delta", "balance_evidence"}
BY DEF Exceptions, StatementExceptions, UnresolvedLineExceptions,
       AutomaticAuthorityExceptions, PositiveFlowExceptions, TransactionFlowExceptions,
       CategoryExceptions, AssertionExceptions, ManualAdjustmentExceptions, Exception, LineTypes

LEMMA MonthStands ==
    ASSUME ReadyInv, RowsInv', NEW m \in sealed, m \in Periods, Kept(m),
           NEW x, x \in Exceptions(m)' \/ x \in frozen'[m].items, Answerable(x, m)'
    PROVE  x \in Exceptions(m)' <=> x \in frozen'[m].items
<1> USE DEF ReadyInv
<1>1. frozen'[m] = frozen[m]
  BY DEF Kept
<1>2. Answerable(x, m) => (x \in Exceptions(m) \/ x \in frozen[m].items =>
                              (x \in Exceptions(m) <=> x \in frozen[m].items))
  BY DEF FrozenStands
<1> SUFFICES Answerable(x, m) /\ (x \in Exceptions(m)' \/ x \in Exceptions(m) =>
                 (x \in Exceptions(m)' <=> x \in Exceptions(m)))
  BY <1>1, <1>2
<1>3. CASE x.type \in LineTypes
  BY <1>1, <1>3, LineExceptionStays
<1>4. CASE x.type = "missing_statement"
  <2>1. x.subject \in frozen[m].accounts
    BY <1>1, <1>4 DEF Answerable
  <2>2. x.subject \in accounts /\ Answerable(x, m)
    BY <1>4, <2>1 DEF FrozenTied, Answerable
  <2> QED
    BY <1>4, <2>2, StatementExceptionStays
<1>5. CASE x.type = "balance_delta"
  BY <1>5 DEF Answerable
<1>6. CASE x.type \notin LineTypes \cup {"missing_statement", "balance_delta"}
  <2>1. Answerable(x, m)
    BY <1>6 DEF Answerable, LineTypes
  <2>2. CASE x.type \in {"transaction_flow", "unconfirmed_category", "manual_adjustment"}
    BY <2>1, <2>2, EntryExceptionStays
  <2>3. CASE x.type = "balance_evidence"
    BY <2>1, <2>3, BalanceExceptionStays
  <2>4. CASE x.type \notin {"transaction_flow", "unconfirmed_category", "manual_adjustment",
                            "balance_evidence"}
    <3>1. x \notin Exceptions(m)
      BY <1>6, <2>4, ExceptionTypes
    <3>2. x \notin Exceptions(m)'
      BY <1>6, <2>4 DEF Exceptions, StatementExceptions, UnresolvedLineExceptions,
         AutomaticAuthorityExceptions, PositiveFlowExceptions, TransactionFlowExceptions,
         CategoryExceptions, AssertionExceptions, ManualAdjustmentExceptions, Exception, LineTypes
    <3> QED
      BY <2>1, <3>1, <3>2
  <2> QED
    BY <2>2, <2>3, <2>4
<1> QED
  BY <1>3, <1>4, <1>5, <1>6

-----------------------------------------------------------------------------
(* What a close freezes belongs to its month.                                 *)
LEMMA SealTies ==
    ASSUME RowsInv, NEW m \in Periods, Seal(m)
    PROVE  /\ (frozen'[m].accounts \subseteq accounts /\ accounts' = accounts)
           /\ frozen'[m].items = Exceptions(m)'
           /\ \A x \in frozen'[m].items : x.type \in LineTypes => FrozenLine(x.subject, m)'
<1>1. /\ frozen'[m] = BuildCloseSnapshot(m)
      /\ UNCHANGED <<accounts, matrix, entries, lines, papers, asserted>>
  BY DEF Seal, RowsInv, ReadyTypeOK
<1>2. frozen'[m].accounts = accounts /\ frozen'[m].items = Exceptions(m)
  BY <1>1 DEF BuildCloseSnapshot
<1>3. Exceptions(m)' = Exceptions(m)
  BY <1>1 DEF Exceptions, StatementExceptions, UnresolvedLineExceptions,
     AutomaticAuthorityExceptions, PositiveFlowExceptions, TransactionFlowExceptions,
     CategoryExceptions, AssertionExceptions, ManualAdjustmentExceptions, Exception,
     PeriodMatrix, ActiveLines, Registered, EffectiveMonth, Unresolved, Unexplained, Semantic,
     Booked, CoveredByLine, UnconfirmedExpense, FailingAssertions, Delta, LedgerBalance, LacksBalance
<1>4. ASSUME NEW x \in Exceptions(m), x.type \in LineTypes
      PROVE  FrozenLine(x.subject, m)'
  <2>1. x.subject \in ActiveLines /\ EffectiveMonth(x.subject) = m
    BY <1>4 DEF LineTypes, Exceptions, StatementExceptions, UnresolvedLineExceptions,
       AutomaticAuthorityExceptions, PositiveFlowExceptions, TransactionFlowExceptions,
       CategoryExceptions, AssertionExceptions, ManualAdjustmentExceptions, Exception
  <2>2. x.subject \in Registered /\ x.subject \in Lines /\ PaperOf[x.subject] \in Papers
    BY <2>1, ReadyAssumption DEF ActiveLines, Registered
  <2>3. FrozenLine(x.subject, m)
    BY <2>1, <2>2, StatedMonth DEF FrozenLine, EffectiveMonth, RowsInv, PapersAgree
  <2> QED
    BY <1>1, <2>3 DEF FrozenLine, Registered
<1> QED
  BY <1>1, <1>2, <1>3, <1>4

LEMMA ReadyInitial == ASSUME ReadyInit PROVE ReadyInv
<1> USE ReadyAssumption, ReadyDays DEF ReadyInit
<1>1. ReadyTypeOK
  BY DEF ReadyTypeOK, Requirements, Paper
<1>2. PapersAgree /\ LinesBacked
  BY DEF PapersAgree, LinesBacked, Registered
<1>3. FrozenTied /\ FrozenStands
  BY DEF FrozenTied, FrozenStands
<1> QED
  BY <1>1, <1>2, <1>3 DEF ReadyInv, RowsInv

(* No other step closes a month.                                              *)
LEMMA OnlySealCloses ==
    ASSUME [ReadyNext]_readyVars
    PROVE  (\E m \in Periods : Seal(m)) \/ sealed' \subseteq sealed
<1>1. CASE LedgerNext
  <2>1. \A e, day, cents, flow : CreateTxn(e, day, cents, flow) \/ UpdateTxn(e, day, cents, flow)
            => UNCHANGED sealed
    BY DEF CreateTxn, UpdateTxn
  <2>2. \A e : DeleteTxn(e) \/ RevokeRelationship(e) => UNCHANGED sealed
    BY DEF DeleteTxn, RevokeRelationship
  <2>3. \A e, t : CreateRelationship(e, t) \/ SetClaim(e, t) => UNCHANGED sealed
    BY DEF CreateRelationship, SetClaim
  <2> QED
    BY <1>1, <2>1, <2>2, <2>3 DEF LedgerNext
<1>2. CASE StatementNext
  <2>1. UNCHANGED sealed
    BY <1>2 DEF StatementNext, InsertLine, CorrectRow, MatchLine, SetLineMatch, SetLine,
       UpdateMetadata, AttachDocument, ApproveReview, ReopenReview, DetachDocument, SetPaper,
       SetRequirement, AddAccount
  <2> QED
    BY <2>1
<1>3. CASE \E day \in Days : AdjustAssertion(day) \/ AdjustLockedBalance(day)
  BY <1>3 DEF AdjustAssertion, AdjustLockedBalance, CreateAdjustment, Reopened
<1>4. CASE \E m \in Periods : Unseal(m)
  BY <1>4 DEF Unseal, Reopened
<1>5. CASE UNCHANGED readyVars
  BY <1>5 DEF readyVars
<1> QED
  BY <1>1, <1>2, <1>3, <1>4, <1>5 DEF ReadyNext

LEMMA ReadyInductive ==
    ASSUME ReadyInv, [ReadyNext]_readyVars
    PROVE  ReadyInv'
<1>1. StepKeeps
  BY EveryStepKeeps DEF ReadyInv
<1>2. RowsInv' /\ sealed \subseteq Periods /\ sealed' \subseteq Periods
  BY <1>1 DEF StepKeeps, ReadyInv, RowsInv, ReadyTypeOK
<1>3. ASSUME NEW m \in sealed', m \notin sealed PROVE Seal(m)
  BY <1>3, OnlySealCloses DEF Seal
<1>4. FrozenTied'
  <2> SUFFICES ASSUME NEW m \in sealed'
               PROVE  /\ frozen'[m].accounts \subseteq accounts'
                      /\ \A x \in frozen'[m].items : x.type \in LineTypes => FrozenLine(x.subject, m)'
    BY DEF FrozenTied
  <2>1. CASE m \in sealed
    <3>1. Kept(m) /\ m \in Periods
      BY <1>1, <1>2, <2>1 DEF StepKeeps
    <3>2. \A x \in frozen[m].items : x.type \in LineTypes => FrozenLine(x.subject, m) /\ x.subject \in Lines
      BY <2>1 DEF ReadyInv, FrozenTied, FrozenLine, Registered
    <3>3. frozen'[m] = frozen[m] /\ frozen[m].accounts \subseteq accounts /\ accounts \subseteq accounts'
      BY <2>1, <3>1 DEF ReadyInv, FrozenTied, Kept, BalancesKept
    <3> QED
      BY <1>2, <3>1, <3>2, <3>3, FrozenLineStays DEF ReadyInv
  <2>2. CASE m \notin sealed
    BY <1>2, <1>3, <2>2, SealTies DEF ReadyInv
  <2> QED
    BY <2>1, <2>2
<1>5. FrozenStands'
  <2> SUFFICES ASSUME NEW m \in sealed', NEW x, x \in Exceptions(m)' \/ x \in frozen'[m].items,
                      Answerable(x, m)'
               PROVE  x \in Exceptions(m)' <=> x \in frozen'[m].items
    BY DEF FrozenStands
  <2>1. CASE m \in sealed
    BY <1>1, <1>2, <2>1, MonthStands DEF StepKeeps
  <2>2. CASE m \notin sealed
    BY <1>2, <1>3, <2>2, SealTies DEF ReadyInv
  <2> QED
    BY <2>1, <2>2
<1> QED
  BY <1>2, <1>4, <1>5 DEF ReadyInv

-----------------------------------------------------------------------------
(* What is open is reported, by the tables' types alone.                      *)
LEMMA OpenIsReported == ASSUME ReadyTypeOK PROVE NothingFallsBetween
<1> USE ReadyDays, ReadyAssumption
<1>1. ASSUME NEW l \in ActiveLines PROVE EffectiveMonth(l) \in Periods
  <2>1. lines[l] \in Line /\ papers[PaperOf[l]] \in Paper
    BY DEF ActiveLines, Registered, ReadyTypeOK
  <2>2. MonthOf(lines[l].day) \in Periods
    BY <2>1 DEF Line
  <2> QED
    BY <2>1, <2>2 DEF EffectiveMonth, Paper
<1>2. ASSUME NEW e \in Booked, Semantic(e) # "complete"
      PROVE  \E m \in Periods :
                  \/ Exception("transaction_flow", e) \in Exceptions(m)
                  \/ \E l \in ActiveLines : /\ lines[l].entry = e
                                            /\ Exception("positive_flow", l) \in Exceptions(m)
  <2>1. e \in EntryIds /\ entries[e] \in Entry /\ e # Nothing
    BY DEF Booked, ReadyTypeOK
  <2>2. MonthOf(entries[e].day) \in Periods
    BY <2>1 DEF Entry
  <2>3. CASE ~CoveredByLine(e)
    <3>1. Exception("transaction_flow", e) \in TransactionFlowExceptions(MonthOf(entries[e].day))
      BY <1>2, <2>3 DEF TransactionFlowExceptions
    <3> QED
      BY <2>2, <3>1 DEF Exceptions
  <2>4. CASE CoveredByLine(e)
    <3>1. PICK l \in ActiveLines : lines[l].entry = e /\ l \in Credit
      BY <2>4 DEF CoveredByLine
    <3>2. Unexplained(l)
      BY <1>2, <2>1, <3>1 DEF Unexplained
    <3>3. Exception("positive_flow", l) \in PositiveFlowExceptions(EffectiveMonth(l))
      BY <3>2 DEF PositiveFlowExceptions
    <3> QED
      BY <1>1, <3>1, <3>3 DEF Exceptions
  <2> QED
    BY <2>3, <2>4
<1>3. ASSUME NEW l \in ActiveLines, Unresolved(l)
      PROVE  \E m \in Periods : Exception("unresolved_line", l) \in Exceptions(m)
  <2>1. Exception("unresolved_line", l) \in UnresolvedLineExceptions(EffectiveMonth(l))
    BY <1>3 DEF UnresolvedLineExceptions
  <2> QED
    BY <1>1, <2>1 DEF Exceptions
<1> QED
  BY <1>2, <1>3 DEF NothingFallsBetween

LEMMA PagesShowWhatClosesAsk == ASSUME ReadyTypeOK, PapersAgree PROVE SurfacesAgree
<1> USE ReadyAssumption
<1> SUFFICES ASSUME NEW m \in Periods, NEW x \in Exceptions(m),
                    NEW l, l = x.subject,
                    NEW stated, stated = (l \in Lines => papers[PaperOf[l]].stated # Nothing),
                    NEW linked, linked = (l \in Lines => papers[PaperOf[l]].link # Nothing)
             PROVE  /\ x.type \in {"missing_statement", "positive_flow", "transaction_flow",
                                   "unconfirmed_category"} /\ stated => ~ChecklistComplete(m)
                    /\ \/ x.type \in {"missing_statement", "unconfirmed_category", "balance_delta"}
                       \/ x.type = "positive_flow" /\ stated
                       \/ x.type = "unresolved_line" /\ linked /\ ~lines[l].pending
                       => l \in Inbox(m)
  BY DEF SurfacesAgree
<1> USE DEF Exception
<1>1. ASSUME x.type = "missing_statement"
      PROVE  l \in StatementExpectationItems(m) /\ CoverageBlockers(m) # {}
  <2>1. x \in StatementExceptions(m)
    BY <1>1, TypesDiffer
  <2> QED
    BY <2>1 DEF StatementExceptions, StatementExpectationItems, CoverageBlockers
<1>2. ASSUME x.type = "unconfirmed_category"
      PROVE  l \in ExpenseResolutionItems(m) /\ ExpenseBlockers(m) # {}
  <2>1. x \in CategoryExceptions(m)
    BY <1>2, TypesDiffer
  <2> QED
    BY <2>1 DEF CategoryExceptions, ExpenseResolutionItems, ExpenseBlockers
<1>3. ASSUME x.type = "balance_delta"
      PROVE  l \in AssertionItems(m)
  <2>1. x \in AssertionExceptions(m)
    BY <1>3, TypesDiffer
  <2> QED
    BY <1>3, <2>1 DEF AssertionExceptions, AssertionItems
<1>4. ASSUME x.type = "transaction_flow"
      PROVE  FlowBlockers(m) # {}
  <2>1. x \in TransactionFlowExceptions(m)
    BY <1>4, TypesDiffer
  <2>2. l \in Booked /\ MonthOf(entries[l].day) = m /\ Semantic(l) # "complete"
    BY <2>1 DEF TransactionFlowExceptions
  <2> QED
    BY <2>2 DEF FlowBlockers
<1>5. ASSUME x.type = "positive_flow", stated
      PROVE  l \in PositiveFlowItems(m) /\ FlowBlockers(m) # {}
  <2>1. x \in PositiveFlowExceptions(m)
    BY <1>5, TypesDiffer
  <2>2. l \in ActiveLines /\ EffectiveMonth(l) = m /\ Unexplained(l) /\ l \in Lines
    BY <2>1 DEF PositiveFlowExceptions, ActiveLines, Registered
  <2>3. DisplayedMonth(l) = m
    BY <1>5, <2>2 DEF EffectiveMonth, DisplayedMonth
  <2>4. l \in {k \in ActiveLines : DisplayedMonth(k) = m /\ Unexplained(k)}
    BY <2>2, <2>3
  <2>5. (IF lines[l].entry # Nothing THEN lines[l].entry ELSE l) \in
            {IF lines[k].entry # Nothing THEN lines[k].entry ELSE k :
                k \in {k \in ActiveLines : DisplayedMonth(k) = m /\ Unexplained(k)}}
    BY <2>4
  <2>6. FlowBlockers(m) # {}
    BY <2>5 DEF FlowBlockers
  <2> QED
    BY <2>4, <2>6 DEF PositiveFlowItems
<1>6. ASSUME x.type = "unresolved_line", linked, ~lines[l].pending
      PROVE  l \in StatementLineItems(m) \cup PositiveFlowItems(m)
  <2>1. x \in UnresolvedLineExceptions(m)
    BY <1>6, TypesDiffer
  <2>2. l \in ActiveLines /\ EffectiveMonth(l) = m /\ Unresolved(l) /\ l \in Registered /\ l \in Lines
    BY <2>1 DEF UnresolvedLineExceptions, ActiveLines, Registered
  <2>3. papers[PaperOf[l]].link = m /\ DisplayedMonth(l) = m
    BY <1>6, <2>2 DEF EffectiveMonth, DisplayedMonth
  <2>4. lines[l] \in Line
    BY <2>2 DEF Registered, ReadyTypeOK
  <2>5. lines[l].state \in {"unmatched", "needs_review"}
    BY <1>6, <2>2, <2>4 DEF Unresolved, Line, States
  <2> QED
    BY <2>2, <2>3, <2>5 DEF StatementLineItems, PositiveFlowItems, Unexplained, Matched
<1> QED
  BY <1>1, <1>2, <1>3, <1>4, <1>5, <1>6 DEF ChecklistComplete, Inbox

-----------------------------------------------------------------------------
(* Balances.                                                                  *)
LEMMA EntryIdsFinite == IsFiniteSet(EntryIds)
<1>1. IsFiniteSet(Days) /\ Cardinality(Periods) \in Nat
  BY ReadyAssumption, FS_CardinalityType, FS_Interval DEF Days
<1> DEFINE n == 2 * Cardinality(Periods)
<1>2. IsFiniteSet(-n .. 0)
  BY <1>1, FS_Interval
<1>3. {Adjustment(day) : day \in Days} \subseteq -n .. 0
  BY <1>1 DEF Days, Adjustment
<1>4. IsFiniteSet({Adjustment(day) : day \in Days})
  BY <1>2, <1>3, FS_Subset
<1> QED
  BY <1>4, ReadyAssumption, FS_Union DEF EntryIds

LEMMA AdjustedTies ==
    ASSUME ReadyTypeOK, NEW day \in Days, NEW override \in BOOLEAN, CreateAdjustment(day, override),
           entries[Adjustment(day)] # Nothing => entries[Adjustment(day)].day <= day
    PROVE  Ties(day)'
<1> DEFINE e == Adjustment(day)
           B == {f \in Booked : entries[f].day <= day}
           val == [f \in Booked |-> entries[f].cents]
           wal == [f \in Booked' |-> entries'[f].cents]
<1>1. /\ entries \in [EntryIds -> Entry \cup {Nothing}] /\ e \in EntryIds
      /\ asserted' = asserted /\ asserted[day] \in Assertion /\ asserted[day].cents \in Int
      /\ day \in Int /\ BookedAmount(day) \in Int
  <2>1. asserted[day] \in Assertion
    BY DEF CreateAdjustment, ReadyTypeOK
  <2> QED
    BY <2>1, ReadyDays, ReadyAssumption DEF CreateAdjustment, ReadyTypeOK, Assertion, Days
<1>2. \A f \in Booked : f \in EntryIds /\ entries[f] \in Entry /\ entries[f].cents \in Int
  BY <1>1 DEF Booked, Entry
<1>3. IsFiniteSet(B) /\ IsFiniteSet(B \ {e})
  BY EntryIdsFinite, FS_Subset, FS_RemoveElement DEF Booked
<1>4. \A f \in Booked : val[f] = entries[f].cents /\ val[f] \in Int
  BY <1>2
<1>5. LedgerBalance(day) = SumFunctionOnSet(val, B) /\ SumFunctionOnSet(val, B) \in Int
  BY <1>3, <1>4, SumType DEF LedgerBalance
<1>6. Delta(day) = SumFunctionOnSet(val, B) - asserted[day].cents
  BY <1>5 DEF Delta
<1> HIDE DEF e
<1>7. CASE /\ entries[e] = Nothing
           /\ entries' = [entries EXCEPT ![e] = NewEntry(day, BookedAmount(day), "adjustment")]
  <2>1. /\ entries'[e] = NewEntry(day, BookedAmount(day), "adjustment")
        /\ \A f \in EntryIds \ {e} : entries'[f] = entries[f]
        /\ DOMAIN entries' = EntryIds
    BY <1>1, <1>7
  <2>2. /\ entries'[e] # Nothing /\ entries'[e].day = day /\ entries'[e].cents = BookedAmount(day)
    <3>1. NewEntry(day, BookedAmount(day), "adjustment") \in Entry
      BY <1>1 DEF NewEntry, Entry, Flows
    <3>2. NewEntry(day, BookedAmount(day), "adjustment").day = day
          /\ NewEntry(day, BookedAmount(day), "adjustment").cents = BookedAmount(day)
      BY DEF NewEntry
    <3> QED
      BY <2>1, <3>1, <3>2, NothingIsNoRow
  <2>3. Booked' = Booked \cup {e} /\ e \notin Booked
    BY <1>1, <1>7, <2>1, <2>2 DEF Booked
  <2>4. {f \in Booked' : entries'[f].day <= day} = B \cup {e} /\ e \notin B
    BY <1>1, <1>2, <2>1, <2>2, <2>3
  <2>5. wal[e] = BookedAmount(day) /\ \A f \in B : wal[f] = val[f]
    BY <1>2, <2>1, <2>2, <2>3
  <2> HIDE DEF wal, val, B
  <2>6. SumFunctionOnSet(wal, B \cup {e}) = SumFunctionOnSet(wal, B) + BookedAmount(day)
    <3>1. \A f \in B \cup {e} : wal[f] \in Int
      BY <1>1, <1>4, <2>5 DEF B
    <3> QED
      BY <1>3, <2>4, <2>5, <3>1, SumAdd
  <2>7. SumFunctionOnSet(wal, B) = SumFunctionOnSet(val, B)
    BY <1>3, <2>5, SumSame
  <2>8. LedgerBalance(day)' = SumFunctionOnSet(wal, B \cup {e})
    BY <2>4 DEF LedgerBalance, wal
  <2>9. BookedAmount(day) = 0 - Delta(day)
    BY <1>7 DEF BookedAmount, OldAmount, e
  <2>10. LedgerBalance(day)' - asserted'[day].cents = 0
    BY <1>1, <1>5, <1>6, <2>6, <2>7, <2>8, <2>9
  <2> QED
    BY <2>10 DEF Ties, Delta
<1>8. CASE /\ entries[e] # Nothing
           /\ entries' = [entries EXCEPT ![e].cents = BookedAmount(day)]
  <2>1. /\ entries'[e] = [entries[e] EXCEPT !.cents = BookedAmount(day)] /\ entries[e] \in Entry
        /\ \A f \in EntryIds \ {e} : entries'[f] = entries[f]
        /\ DOMAIN entries' = EntryIds
    BY <1>1, <1>8
  <2>2. entries'[e] \in Entry /\ entries'[e].day = entries[e].day /\ entries'[e].cents = BookedAmount(day)
    BY <1>1, <2>1 DEF Entry
  <2>3. Booked' = Booked /\ e \in Booked
    BY <1>1, <1>8, <2>1, <2>2, NothingIsNoRow DEF Booked
  <2>4. {f \in Booked' : entries'[f].day <= day} = B /\ e \in B
    BY <1>2, <1>8, <2>1, <2>2, <2>3 DEF e
  <2>5. /\ wal[e] = BookedAmount(day) /\ val[e] = entries[e].cents
        /\ \A f \in B \ {e} : wal[f] = val[f]
    BY <1>2, <2>1, <2>2, <2>3
  <2>6. \A f \in B : val[f] \in Int
    BY <1>4
  <2> HIDE DEF wal, val, B
  <2>7. \A f \in B : wal[f] \in Int
    BY <1>1, <2>5, <2>6
  <2>8. SumFunctionOnSet(wal, B) = BookedAmount(day) + SumFunctionOnSet(wal, B \ {e})
    BY <1>3, <2>4, <2>5, <2>7, SumRemove
  <2>9. SumFunctionOnSet(val, B) = entries[e].cents + SumFunctionOnSet(val, B \ {e})
    BY <1>3, <2>4, <2>5, <2>6, SumRemove
  <2>10. SumFunctionOnSet(wal, B \ {e}) = SumFunctionOnSet(val, B \ {e})
    BY <1>3, <2>5, SumSame
  <2>11. SumFunctionOnSet(val, B \ {e}) \in Int /\ entries[e].cents \in Int
    <3>1. \A f \in B \ {e} : val[f] \in Int
      BY <2>6
    <3> QED
      BY <1>2, <1>3, <2>3, <3>1, SumType
  <2>12. LedgerBalance(day)' = SumFunctionOnSet(wal, B)
    BY <2>4 DEF LedgerBalance, wal
  <2>13. BookedAmount(day) = entries[e].cents - Delta(day)
    BY <1>8 DEF BookedAmount, OldAmount, e
  <2>14. LedgerBalance(day)' - asserted'[day].cents = 0
    BY <1>1, <1>5, <1>6, <2>8, <2>9, <2>10, <2>11, <2>12, <2>13
  <2> QED
    BY <2>14 DEF Ties, Delta
<1> QED
  BY <1>7, <1>8 DEF CreateAdjustment, e

-----------------------------------------------------------------------------
LEMMA ReadyInvariant == ReadySpec => []ReadyInv
<1>1. ReadyInit => ReadyInv
  BY ReadyInitial
<1>2. ReadyInv /\ [ReadyNext]_readyVars => ReadyInv'
  BY ReadyInductive
<1> QED
  BY <1>1, <1>2, PTL DEF ReadySpec

(* While a month stays closed, its live exceptions are the ones its close     *)
(* froze, as far as the triggers of 036_period_policy.sql can answer for them *)
(* (FrozenStands).                                                            *)
THEOREM ClosedExceptionsStand == ReadySpec => []FrozenStands
<1>1. ReadyInv => FrozenStands
  BY DEF ReadyInv
<1> QED
  BY <1>1, ReadyInvariant, PTL

(* What nobody has decided is an exception of some month, and the inbox and   *)
(* the checklist show what the close would ask for (RowsAreReported).         *)
THEOREM OpenRowsAreReported == ReadySpec => []RowsAreReported
<1>1. ReadyInv => RowsAreReported
  BY OpenIsReported, PagesShowWhatClosesAsk DEF ReadyInv, RowsInv, RowsAreReported
<1> QED
  BY <1>1, ReadyInvariant, PTL

(* An adjustment ties its balance, whatever else is booked up to that day, as *)
(* long as an earlier one is still posted by then (AdjustmentTies).           *)
THEOREM AdjustmentsTie == ReadySpec => AdjustmentTies
<1>1. ReadyInv => \A day \in Days, override \in BOOLEAN :
          LET old == entries[Adjustment(day)]
          IN  /\ CreateAdjustment(day, override)
              /\ old # Nothing => old.day <= day
              => Ties(day)'
  BY AdjustedTies DEF ReadyInv, RowsInv
<1> QED
  BY <1>1, ReadyInvariant, PTL DEF AdjustmentTies
=============================================================================
