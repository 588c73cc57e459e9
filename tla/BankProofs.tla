------------------------------ MODULE BankProofs ------------------------------
(***************************************************************************)
(* The bank's part.  The connection lifecycle keeps its promises for any   *)
(* number of callers, Link sessions, consents, pages, lapses and crashes.  *)
(* What was decided about the feed goes on to hold, for any accounts,      *)
(* provider transactions, receipts, edits and months; nothing is booked    *)
(* next to its equal unasked; and a decision rests on what the operator    *)
(* was shown.                                                              *)
(***************************************************************************)
EXTENDS BankConnection, BankFeed, FiniteSetTheorems, WellFoundedInduction, TLAPS

-----------------------------------------------------------------------------
(* BankConnection *)

-----------------------------------------------------------------------------
(* Type correctness *)

LEMMA InitTypeOK == Init => TypeOK
BY BankBoundAssumption DEF Init, TypeOK, Session, Connection, Call, Positions, Names, Finishing,
       Tending, Idle, NoSession, NoConnection, Sessions

(* What the actions write has the type of its row. *)
LEMMA RowTypes ==
    /\ NoConnection \in Connection
    /\ [NoConnection EXCEPT !.state = "active"] \in Connection
    /\ Idle \in Call /\ Names(Idle)
BY DEF NoConnection, Connection, Idle, Call, Positions, Names, Finishing, Tending

LEMMA MovedType ==
    ASSUME NEW row \in Connection, NEW n \in Nat,
           NEW state \in {"active", "needs_repair", "removing"}
    PROVE  /\ Moved(row, state) \in Connection
           /\ Advanced(row, n) \in Connection
<1>1. row.generation \in Nat /\ row.generation + 1 \in Nat
  BY DEF Connection
<1>2. Moved(row, state) \in Connection
  BY <1>1 DEF Moved, Connection
<1>3. Advanced(row, n) \in Connection
  BY <1>1 DEF Advanced, Connection
<1> QED BY <1>2, <1>3

LEMMA SessionStep ==
    ASSUME TypeOK, NEW s \in Sessions,
           \/ \E state \in {"exchanging", "complete", "uncertain"} :
                  sessions' = [sessions EXCEPT ![s].state = state]
           \/ sessions' = [sessions EXCEPT ![s].finished = TRUE]
           \/ sessions' = [sessions EXCEPT ![s].expired = TRUE]
    PROVE  sessions' \in [Sessions -> Session]
<1>1. sessions \in [Sessions -> Session]
  BY DEF TypeOK
<1>2. ASSUME NEW row \in Session, NEW state \in {"exchanging", "complete", "uncertain"}
      PROVE  /\ [row EXCEPT !.state = state] \in Session
             /\ [row EXCEPT !.finished = TRUE] \in Session
             /\ [row EXCEPT !.expired = TRUE] \in Session
  BY DEF Session
<1>3. CASE \E state \in {"exchanging", "complete", "uncertain"} :
               sessions' = [sessions EXCEPT ![s].state = state]
  <2>1. PICK state \in {"exchanging", "complete", "uncertain"} :
            sessions' = [sessions EXCEPT ![s].state = state]
    BY <1>3
  <2> DEFINE row == [sessions[s] EXCEPT !.state = state]
  <2>2. row \in Session /\ sessions' = [sessions EXCEPT ![s] = row]
    BY <1>1, <1>2, <2>1
  <2> HIDE DEF row
  <2> QED BY <1>1, <2>2
<1>4. CASE sessions' = [sessions EXCEPT ![s].finished = TRUE]
  BY <1>1, <1>2, <1>4
<1>5. CASE sessions' = [sessions EXCEPT ![s].expired = TRUE]
  BY <1>1, <1>2, <1>5
<1> QED BY <1>3, <1>4, <1>5

LEMMA ConnectionStep ==
    ASSUME TypeOK, NEW c \in Sessions,
           \/ \E state \in {"active", "needs_repair", "removing"} :
                  connections' = [connections EXCEPT ![c] = Moved(@, state)]
           \/ \E state \in {"removed", "remove_uncertain"} : SetState(c, state)
           \/ \E n \in Nat : connections' = [connections EXCEPT ![c] = Advanced(@, n)]
           \/ connections' = [connections EXCEPT ![c] = [NoConnection EXCEPT !.state = "active"]]
    PROVE  connections' \in [Sessions -> Connection]
<1>1. connections \in [Sessions -> Connection]
  BY DEF TypeOK
<1>2. CASE \E state \in {"active", "needs_repair", "removing"} :
               connections' = [connections EXCEPT ![c] = Moved(@, state)]
  BY <1>1, <1>2, MovedType
<1>3. CASE \E state \in {"removed", "remove_uncertain"} : SetState(c, state)
  <2>1. ASSUME NEW row \in Connection, NEW state \in {"removed", "remove_uncertain"}
        PROVE  [row EXCEPT !.state = state] \in Connection
    BY DEF Connection
  <2> QED BY <1>1, <1>3, <2>1 DEF SetState
<1>4. CASE \E n \in Nat : connections' = [connections EXCEPT ![c] = Advanced(@, n)]
  BY <1>1, <1>4, MovedType
<1>5. CASE connections' = [connections EXCEPT ![c] = [NoConnection EXCEPT !.state = "active"]]
  BY <1>1, <1>5, RowTypes
<1> QED BY <1>2, <1>3, <1>4, <1>5

(* A call that is at a position of the state that it names rows for. *)
LEMMA CallerStep ==
    ASSUME TypeOK, NEW t \in Callers, NEW call \in Call, Names(call),
           caller' = [caller EXCEPT ![t] = call]
    PROVE  caller' \in [Callers -> Call] /\ \A u \in Callers : Names(caller[u])'
BY DEF TypeOK, Names

LEMMA GoesType ==
    ASSUME TypeOK, NEW t \in Callers, NEW pc \in Positions,
           pc \in Finishing => caller[t].pc \in Finishing,
           pc \in Tending => caller[t].pc \in Tending,
           Goes(t, pc) \/ Returns(t)
    PROVE  caller' \in [Callers -> Call] /\ \A u \in Callers : Names(caller[u])'
<1>1. caller \in [Callers -> Call] /\ caller[t] \in Call /\ Names(caller[t])
  BY DEF TypeOK
<1>2. CASE Goes(t, pc)
  <2> DEFINE call == [caller[t] EXCEPT !.pc = pc]
  <2>1. call \in Call /\ Names(call)
    BY <1>1 DEF Call, Names
  <2>2. caller' = [caller EXCEPT ![t] = call]
    BY <1>2 DEF Goes
  <2> HIDE DEF call
  <2> QED BY <2>1, <2>2, CallerStep
<1>3. CASE Returns(t)
  BY <1>3, RowTypes, CallerStep DEF Returns
<1> QED BY <1>2, <1>3

LEMMA ReadsType ==
    ASSUME TypeOK, NEW t \in Callers, NEW c \in Sessions, NEW pc \in Tending, Reads(t, pc, c)
    PROVE  caller' \in [Callers -> Call] /\ \A u \in Callers : Names(caller[u])'
<1> DEFINE call == [Idle EXCEPT !.pc = pc, !.connection = c, !.seen = connections[c],
                                !.position = connections[c].cursor]
<1>1. connections[c] \in Connection
  BY DEF TypeOK
<1>2. connections[c].cursor \in Nat
  BY <1>1 DEF Connection
<1>3. pc \notin Finishing /\ pc \in Positions /\ c # 0
  BY DEF Finishing, Tending, Positions, Sessions
<1>4. call \in Call /\ Names(call)
  BY <1>1, <1>2, <1>3 DEF Idle, Call, Names
<1>5. caller' = [caller EXCEPT ![t] = call]
  BY DEF Reads
<1> HIDE DEF call
<1> QED BY <1>4, <1>5, CallerStep

LEMMA LinkTypeOK ==
    ASSUME TypeOK, NEW t \in Callers, Linking(t)
    PROVE  TypeOK'
<1> USE DEF database, provider
<1>0. /\ caller[t] \in Call /\ Names(caller[t]) /\ latest.id \in Nat
      /\ sessions \in [Sessions -> Session] /\ connections \in [Sessions -> Connection]
  BY DEF TypeOK
<1>1. CASE \E c \in Sessions \cup {0} : BeginLink(t, c)
  <2>1. PICK c \in Sessions \cup {0} : BeginLink(t, c)
    BY <1>1
  <2> DEFINE seen == IF c = 0 THEN NoConnection ELSE connections[c]
             call == [Idle EXCEPT !.pc = "linking", !.connection = c, !.consent = latest.id,
                                  !.seen = seen]
  <2>2. seen \in Connection
    BY <1>0, RowTypes
  <2>3. call \in Call /\ Names(call)
    BY <1>0, <2>2 DEF Idle, Call, Positions, Names, Finishing, Tending
  <2>4. /\ caller' = [caller EXCEPT ![t] = call]
        /\ UNCHANGED <<database, tokens, provider, used>>
    BY <2>1 DEF BeginLink
  <2> HIDE DEF call
  <2> QED BY <2>3, <2>4, CallerStep DEF TypeOK
<1>2. CASE CommitLink(t)
  <2> DEFINE row == [state |-> "pending", consent |-> caller[t].consent,
                     repairs |-> caller[t].connection, expired |-> FALSE, finished |-> FALSE]
  <2>1. row \in Session
    BY <1>0 DEF Call, Session
  <2>2. /\ \E s \in Sessions : sessions' = [sessions EXCEPT ![s] = row]
        /\ Returns(t)
        /\ UNCHANGED <<latest, connections, windows, tokens, provider, used>>
    BY <1>2 DEF CommitLink
  <2> HIDE DEF row
  <2>3. sessions' \in [Sessions -> Session]
    BY <1>0, <2>1, <2>2
  <2> QED BY <2>2, <2>3, GoesType DEF TypeOK, Positions, Finishing, Tending
<1>3. CASE \E s \in Sessions : BeginFinish(t, s)
  <2>1. PICK s \in Sessions : BeginFinish(t, s)
    BY <1>3
  <2> DEFINE c == sessions[s].repairs
             seen == IF c = 0 THEN NoConnection ELSE connections[c]
             call == [Idle EXCEPT !.pc = "verifying", !.session = s, !.connection = c,
                                  !.seen = seen, !.consent = sessions[s].consent]
  <2>2. c \in Sessions \cup {0} /\ sessions[s].consent \in Nat /\ s # 0
    BY <1>0 DEF Session, Sessions
  <2>3. seen \in Connection
    BY <1>0, <2>2, RowTypes
  <2>4. call \in Call /\ Names(call)
    BY <2>2, <2>3 DEF Idle, Call, Positions, Names, Finishing, Tending
  <2>5. /\ caller' = [caller EXCEPT ![t] = call]
        /\ UNCHANGED <<database, tokens, provider, used>>
    BY <2>1 DEF BeginFinish
  <2> HIDE DEF call
  <2> QED BY <2>4, <2>5, CallerStep DEF TypeOK
<1>4. ASSUME caller[t].pc \in Finishing
      PROVE  caller[t].session \in Sessions
  BY <1>0, <1>4 DEF Call, Names
<1>5. CASE ClaimSession(t)
  <2>1. caller[t].pc \in Finishing
    BY <1>5 DEF ClaimSession, At, Finishing
  <2>2. sessions' \in [Sessions -> Session]
    BY <1>4, <1>5, <2>1, SessionStep DEF ClaimSession
  <2> QED BY <1>5, <2>1, <2>2, GoesType DEF ClaimSession, Positions, Finishing, Tending, TypeOK
<1>6. CASE CompleteRepair(t)
  <2>1. caller[t].pc \in Finishing /\ caller[t].connection \in Sessions
    BY <1>0, <1>6 DEF CompleteRepair, At, Finishing, Call
  <2>2. sessions' \in [Sessions -> Session] /\ connections' \in [Sessions -> Connection]
    BY <1>4, <1>6, <2>1, SessionStep, ConnectionStep DEF CompleteRepair
  <2> QED BY <1>6, <2>2, GoesType DEF CompleteRepair, Positions, Finishing, Tending, TypeOK
<1>7. CASE Exchange(t)
  <2>1. caller[t].pc \in Finishing
    BY <1>7 DEF Exchange, At, Finishing
  <2> QED BY <1>4, <1>7, <2>1, GoesType DEF Exchange, Positions, Finishing, Tending, TypeOK
<1>8. CASE StoreToken(t)
  <2>1. caller[t].pc \in Finishing
    BY <1>8 DEF StoreToken, At, Finishing
  <2> QED BY <1>4, <1>8, <2>1, GoesType DEF StoreToken, Positions, Finishing, Tending, TypeOK
<1>9. CASE CompleteLink(t)
  <2>1. caller[t].pc \in Finishing
    BY <1>9 DEF CompleteLink, At, Finishing
  <2>2. sessions' \in [Sessions -> Session] /\ connections' \in [Sessions -> Connection]
    BY <1>4, <1>9, <2>1, SessionStep, ConnectionStep DEF CompleteLink
  <2> QED BY <1>9, <2>2, GoesType DEF CompleteLink, Positions, Finishing, Tending, TypeOK
<1>10. CASE GiveUp(t)
  <2>1. caller[t].session \in Sessions
    BY <1>4, <1>10 DEF GiveUp, Finishing
  <2>2. \/ sessions' = [sessions EXCEPT ![caller[t].session].state = "uncertain"]
        \/ sessions' = sessions
    BY <1>0, <1>10, <2>1 DEF GiveUp, Session
  <2>3. sessions' \in [Sessions -> Session]
    BY <1>0, <2>1, <2>2, SessionStep
  <2> QED BY <1>10, <2>3, GoesType DEF GiveUp, Positions, Finishing, Tending, TypeOK
<1> QED BY <1>1, <1>2, <1>3, <1>5, <1>6, <1>7, <1>8, <1>9, <1>10 DEF Linking

LEMMA SyncTypeOK ==
    ASSUME TypeOK, NEW t \in Callers, Syncing(t)
    PROVE  TypeOK'
<1> USE DEF database, provider
<1>0. /\ caller[t] \in Call /\ Names(caller[t])
      /\ connections \in [Sessions -> Connection] /\ windows \in [Sessions -> Seq(Window)]
  BY DEF TypeOK
<1>1. CASE \E c \in Synced : BeginSync(t, c)
  BY <1>1, SyncedAssumption, ReadsType DEF BeginSync, Sessions, Tending, TypeOK
<1>2. CASE SyncPage(t)
  <2>1. CASE \E pc \in {"refused", "fetched"} : Goes(t, pc)
    BY <1>2, <2>1, GoesType DEF SyncPage, At, Positions, Finishing, Tending, TypeOK
  <2>2. CASE \E pc \in {"syncing", "fetched"} :
                 caller' = [caller EXCEPT ![t] = [@ EXCEPT !.position = caller[t].position + 1,
                                                           !.pc = pc]]
    <3>1. PICK pc \in {"syncing", "fetched"} :
              caller' = [caller EXCEPT ![t] = [@ EXCEPT !.position = caller[t].position + 1,
                                                        !.pc = pc]]
      BY <2>2
    <3> DEFINE call == [caller[t] EXCEPT !.position = caller[t].position + 1, !.pc = pc]
    <3>2. caller[t].pc \in Tending
      BY <1>2 DEF SyncPage, At, Tending
    <3>3. caller[t].position + 1 \in Nat
      BY <1>0 DEF Call
    <3>4. call \in Call /\ Names(call)
      BY <1>0, <3>2, <3>3 DEF Call, Names, Positions, Finishing, Tending
    <3>5. caller' = [caller EXCEPT ![t] = call]
      BY <3>1
    <3> HIDE DEF call
    <3> QED BY <1>2, <3>4, <3>5, CallerStep DEF SyncPage, TypeOK
  <2> QED BY <1>2, <2>1, <2>2 DEF SyncPage
<1>3. CASE CommitWindow(t)
  <2> DEFINE c == caller[t].connection
             new == caller[t].position
             window == [generation |-> caller[t].seen.generation + 1,
                        from |-> caller[t].seen.cursor, to |-> new]
  <2>1. c \in Sessions
    BY <1>0, <1>3 DEF CommitWindow, At, Call, Names, Tending
  <2>2. new \in Nat /\ caller[t].seen \in Connection
    BY <1>0 DEF Call
  <2>3. window \in Window
    BY <2>2 DEF Window, Connection
  <2>4. /\ windows' = [windows EXCEPT ![c] = Append(windows[c], window)]
        /\ connections' = [connections EXCEPT ![c] = Advanced(@, new)]
    BY <1>3 DEF CommitWindow, AddWindow
  <2>5. windows' \in [Sessions -> Seq(Window)]
    <3> HIDE DEF window
    <3> QED BY <1>0, <2>1, <2>3, <2>4
  <2>6. connections' \in [Sessions -> Connection]
    BY <2>1, <2>2, <2>4, ConnectionStep
  <2> QED BY <1>3, <2>5, <2>6, GoesType DEF CommitWindow, Positions, Finishing, Tending, TypeOK
<1>4. CASE Refused(t)
  <2>1. caller[t].connection \in Sessions
    BY <1>0, <1>4 DEF Refused, At, Call, Names, Tending
  <2>2. connections' \in [Sessions -> Connection]
    BY <1>0, <1>4, <2>1, ConnectionStep DEF Refused, NeedRepair
  <2> QED BY <1>4, <2>2, GoesType DEF Refused, Positions, Finishing, Tending, TypeOK
<1> QED BY <1>1, <1>2, <1>3, <1>4 DEF Syncing

LEMMA DisconnectTypeOK ==
    ASSUME TypeOK, NEW t \in Callers, Disconnecting(t)
    PROVE  TypeOK'
<1> USE DEF database, provider
<1>0. /\ caller[t] \in Call /\ Names(caller[t])
      /\ connections \in [Sessions -> Connection]
  BY DEF TypeOK
<1>1. CASE \E c \in Sessions : BeginDisconnect(t, c)
  BY <1>1, ReadsType DEF BeginDisconnect, Tending, TypeOK
<1>2. ASSUME caller[t].pc \in Tending
      PROVE  caller[t].connection \in Sessions
  BY <1>0, <1>2 DEF Call, Names
<1>3. CASE MarkRemoving(t)
  <2> DEFINE call == [caller[t] EXCEPT !.pc = "removing",
                                       !.seen = Moved(caller[t].seen, "removing")]
  <2>1. caller[t].pc \in Tending
    BY <1>3 DEF MarkRemoving, At, Tending
  <2>2. Moved(caller[t].seen, "removing") \in Connection
    <3>1. caller[t].seen \in Connection
      BY <1>0 DEF Call
    <3> QED BY <3>1, MovedType
  <2>3. call \in Call /\ Names(call)
    BY <1>0, <2>1, <2>2 DEF Call, Names, Positions, Finishing, Tending
  <2>4. caller' = [caller EXCEPT ![t] = call]
    BY <1>3 DEF MarkRemoving
  <2> HIDE DEF call
  <2>5. connections' \in [Sessions -> Connection]
    BY <1>2, <1>3, <2>1, ConnectionStep DEF MarkRemoving
  <2> QED BY <1>3, <2>3, <2>4, <2>5, CallerStep DEF MarkRemoving, TypeOK
<1>4. CASE Revoke(t)
  BY <1>4, GoesType DEF Revoke, At, Positions, Finishing, Tending, TypeOK
<1>5. CASE FinishRemoval(t)
  <2>1. connections' \in [Sessions -> Connection]
    BY <1>2, <1>5, ConnectionStep DEF FinishRemoval, At, Tending
  <2> QED BY <1>5, <2>1, GoesType DEF FinishRemoval, At, Positions, Finishing, Tending, TypeOK
<1>6. CASE RemovalUncertain(t)
  <2>1. connections' \in [Sessions -> Connection]
    BY <1>2, <1>6, ConnectionStep DEF RemovalUncertain, At, Tending
  <2> QED BY <1>6, <2>1, GoesType DEF RemovalUncertain, Positions, Finishing, Tending, TypeOK
<1>7. CASE ForgetToken(t)
  BY <1>7, GoesType DEF ForgetToken, Positions, Finishing, Tending, TypeOK
<1> QED BY <1>1, <1>3, <1>4, <1>5, <1>6, <1>7 DEF Disconnecting

LEMMA EnvironmentTypeOK ==
    ASSUME TypeOK, Environment
    PROVE  TypeOK'
<1> USE DEF database, provider
<1>0. used \in [lapses : Nat, crashes : Nat] /\ used.lapses + 1 \in Nat /\ used.crashes + 1 \in Nat
  BY DEF TypeOK
<1>1. CASE \E granted \in BOOLEAN : consent(granted)
  BY <1>1 DEF consent, TypeOK
<1>2. CASE \E s \in Sessions : MemberFinishes(s) \/ SessionExpires(s)
  <2>1. sessions' \in [Sessions -> Session]
    BY <1>2, SessionStep DEF MemberFinishes, SessionExpires
  <2> QED BY <1>2, <2>1 DEF MemberFinishes, SessionExpires, TypeOK
<1>3. CASE \E c \in Sessions : LoginLapses(c)
  <2>1. used' \in [lapses : Nat, crashes : Nat]
    BY <1>0, <1>3 DEF LoginLapses
  <2> QED BY <1>3, <2>1 DEF LoginLapses, TypeOK
<1>4. CASE Crash
  <2>1. used' \in [lapses : Nat, crashes : Nat]
    BY <1>0, <1>4 DEF Crash
  <2> QED BY <1>4, <2>1, RowTypes DEF Crash, TypeOK
<1> QED BY <1>1, <1>2, <1>3, <1>4 DEF Environment

LEMMA StepTypeOK == TypeOK /\ [Next]_vars => TypeOK'
<1> SUFFICES ASSUME TypeOK, [Next]_vars PROVE TypeOK'
  OBVIOUS
<1> USE DEF database, provider
<1>1. CASE \E t \in Callers : Linking(t) \/ Syncing(t) \/ Disconnecting(t)
  BY <1>1, LinkTypeOK, SyncTypeOK, DisconnectTypeOK
<1>2. CASE \E t \in Callers : Fails(t)
  BY <1>2, GoesType DEF Fails, Positions, Finishing, Tending, TypeOK
<1>3. CASE Environment
  BY <1>3, EnvironmentTypeOK
<1>4. CASE UNCHANGED vars
  BY <1>4 DEF vars, TypeOK
<1> QED BY <1>1, <1>2, <1>3, <1>4 DEF Next

(* Every variable of the connection lifecycle keeps its type, and every call *)
(* names the rows that it works on.                                          *)
THEOREM ConnectionTypeCorrect == Spec => []TypeOK
BY InitTypeOK, StepTypeOK, PTL DEF Spec

-----------------------------------------------------------------------------
(* Exchange and revocation *)

Exchanging(t) == caller[t].pc \in {"claimed", "exchanged", "stored"}
Revoking(t) == caller[t].pc \in {"removing", "revoked", "unrevoked"}

(* What a call may rely on about the rows that it works on, although it holds *)
(* no lock between its steps.                                                 *)
CallHolds(t) ==
    LET k == caller[t] IN
    /\ k.pc \in {"linking", "verifying", "claimed"} /\ k.connection # 0
           => k.seen.state = "needs_repair"
    /\ k.pc = "disconnecting" => k.seen.state \in {"active", "needs_repair"}
    /\ Exchanging(t) => sessions[k.session].state = "exchanging"
    /\ k.pc = "claimed" => exchanged[k.session] = 0
    /\ k.pc = "stored" => k.session \in tokens
    /\ Revoking(t) => connections[k.connection].state = "removing"
    /\ k.pc = "revoked" => k.connection \notin items
    /\ k.pc = "forgetting" => connections[k.connection].state = "removed"

(* No two calls exchange for one session, or revoke one connection. *)
Apart ==
    \A t, u \in Callers : t # u =>
        /\ Exchanging(t) /\ Exchanging(u) => caller[t].session # caller[u].session
        /\ Revoking(t) /\ Revoking(u) => caller[t].connection # caller[u].connection

(* A session that is not complete has no connection, and one that was not     *)
(* claimed has sent nothing.                                                  *)
RowHolds(s) ==
    /\ sessions[s].state \in {"none", "pending"} => exchanged[s] = 0
    /\ sessions[s].state # "complete" => connections[s] = NoConnection /\ windows[s] = <<>>

ConnectionInv ==
    /\ TypeOK
    /\ \A t \in Callers : CallHolds(t)
    /\ Apart
    /\ \A s \in Sessions : RowHolds(s)
    /\ ExchangedOnce
    /\ TokenKept
    /\ RemovedIsRevoked

LEMMA InitInv == Init => ConnectionInv
<1> SUFFICES ASSUME Init PROVE ConnectionInv
  OBVIOUS
<1>1. TypeOK
  BY InitTypeOK
<1> QED BY <1>1 DEF Init, ConnectionInv, CallHolds, Exchanging, Revoking, Apart, RowHolds, ExchangedOnce,
                    TokenKept, RemovedIsRevoked, Idle, NoSession, NoConnection

(* Steps of one call that change no row. *)
LEMMA CallOnly ==
    ASSUME ConnectionInv, TypeOK', NEW t \in Callers,
           UNCHANGED <<sessions, connections, windows, tokens, items, exchanged>>,
           \A u \in Callers : u # t => caller'[u] = caller[u],
           CallHolds(t)', Exchanging(t)' => Exchanging(t), Revoking(t)' => Revoking(t),
           Exchanging(t)' => caller'[t].session = caller[t].session,
           Revoking(t)' => caller'[t].connection = caller[t].connection
    PROVE  ConnectionInv'
<1> USE DEF ConnectionInv
<1>1. Apart'
  BY DEF Apart, Exchanging, Revoking
<1>2. ASSUME NEW u \in Callers PROVE CallHolds(u)'
  BY DEF CallHolds, Exchanging, Revoking
<1>3. \A r \in Sessions : RowHolds(r)'
  BY DEF RowHolds
<1>4. ExchangedOnce' /\ TokenKept' /\ RemovedIsRevoked'
  BY DEF ExchangedOnce, TokenKept, RemovedIsRevoked
<1> QED BY <1>1, <1>2, <1>3, <1>4

LEMMA ExchangeInv ==
    ASSUME ConnectionInv, NEW t \in Callers, Exchange(t)
    PROVE  ConnectionInv'
<1> USE DEF ConnectionInv, database, provider, Exchange, At, Goes
<1>0. TypeOK'
  BY StepTypeOK DEF Next, Linking
<1> DEFINE s == caller[t].session
<1>1. s \in Sessions /\ exchanged[s] = 0 /\ sessions[s].state = "exchanging"
  BY DEF TypeOK, Call, Names, Finishing, CallHolds, Exchanging
<1>2. /\ caller'[t].pc = "exchanged" /\ caller'[t].session = s
      /\ caller'[t].connection = caller[t].connection
      /\ \A u \in Callers : u # t => caller'[u] = caller[u]
  BY DEF TypeOK
<1>3. Apart'
  BY <1>2 DEF Apart, Exchanging, Revoking
<1>4. exchanged'[s] = 1 /\ \A r \in Sessions : r # s => exchanged'[r] = exchanged[r]
  BY <1>1 DEF TypeOK
<1>5. ASSUME NEW u \in Callers PROVE CallHolds(u)'
  BY <1>1, <1>2, <1>3, <1>4 DEF Apart, CallHolds, Exchanging, Revoking, RowHolds, NoConnection, TypeOK, Call
<1>6. \A r \in Sessions : RowHolds(r)'
  BY <1>1, <1>4 DEF RowHolds
<1>7. ExchangedOnce' /\ TokenKept' /\ RemovedIsRevoked'
  BY <1>1, <1>4 DEF ExchangedOnce, TokenKept, RemovedIsRevoked, RowHolds, NoConnection
<1> QED BY <1>0, <1>3, <1>5, <1>6, <1>7

LEMMA ReadsCall ==
    ASSUME TypeOK, NEW t \in Callers, NEW c \in Sessions, NEW pc, Reads(t, pc, c)
    PROVE  /\ caller'[t].pc = pc
           /\ caller'[t].connection = c
           /\ caller'[t].seen = connections[c]
           /\ \A u \in Callers : u # t => caller'[u] = caller[u]
<1> DEFINE call == [Idle EXCEPT !.pc = pc, !.connection = c, !.seen = connections[c],
                                !.position = connections[c].cursor]
<1>1. caller' = [caller EXCEPT ![t] = call]
  BY DEF Reads
<1>2. call.pc = pc /\ call.connection = c /\ call.seen = connections[c]
  BY DEF Idle
<1> HIDE DEF call
<1> QED BY <1>1, <1>2 DEF TypeOK

LEMMA BeginInv ==
    ASSUME ConnectionInv, NEW t \in Callers,
           \/ \E c \in Sessions \cup {0} : BeginLink(t, c)
           \/ \E s \in Sessions : BeginFinish(t, s)
           \/ \E c \in Synced : BeginSync(t, c)
           \/ \E c \in Sessions : BeginDisconnect(t, c)
    PROVE  ConnectionInv'
<1> USE DEF ConnectionInv, database, provider
<1>0. TypeOK'
  BY StepTypeOK DEF Next, Linking, Syncing, Disconnecting
<1>1. \A u \in Callers : u # t => caller'[u] = caller[u]
  BY DEF BeginLink, BeginFinish, BeginSync, BeginDisconnect, Reads, TypeOK
<1>2. UNCHANGED <<sessions, connections, windows, tokens, items, exchanged>>
  BY DEF BeginLink, BeginFinish, BeginSync, BeginDisconnect
<1>3. CASE \E c \in Sessions \cup {0} : BeginLink(t, c)
  <2>1. PICK c \in Sessions \cup {0} : BeginLink(t, c)
    BY <1>3
  <2>2. /\ caller'[t].pc = "linking" /\ caller'[t].connection = c
        /\ c # 0 => caller'[t].seen.state = "needs_repair"
    BY <2>1 DEF BeginLink, TypeOK, Idle
  <2>3. CallHolds(t)' /\ ~Exchanging(t)' /\ ~Revoking(t)'
    BY <2>2 DEF CallHolds, Exchanging, Revoking
  <2> QED BY <1>0, <1>1, <1>2, <2>3, CallOnly
<1>4. CASE \E s \in Sessions : BeginFinish(t, s)
  <2>1. PICK s \in Sessions : BeginFinish(t, s)
    BY <1>4
  <2>2. /\ caller'[t].pc = "verifying"
        /\ caller'[t].connection # 0 => caller'[t].seen.state = "needs_repair"
    BY <2>1 DEF BeginFinish, TypeOK, Idle
  <2>3. CallHolds(t)' /\ ~Exchanging(t)' /\ ~Revoking(t)'
    BY <2>2 DEF CallHolds, Exchanging, Revoking
  <2> QED BY <1>0, <1>1, <1>2, <2>3, CallOnly
<1>5. CASE \E c \in Synced : BeginSync(t, c)
  <2>1. caller'[t].pc = "syncing"
    BY <1>5, ReadsCall, SyncedAssumption DEF BeginSync, Sessions
  <2>2. CallHolds(t)' /\ ~Exchanging(t)' /\ ~Revoking(t)'
    BY <2>1 DEF CallHolds, Exchanging, Revoking
  <2> QED BY <1>0, <1>1, <1>2, <2>2, CallOnly
<1>6. CASE \E c \in Sessions : BeginDisconnect(t, c)
  <2>1. /\ caller'[t].pc = "disconnecting"
        /\ caller'[t].seen.state \in {"active", "needs_repair"}
    BY <1>6, ReadsCall DEF BeginDisconnect
  <2>2. CallHolds(t)' /\ ~Exchanging(t)' /\ ~Revoking(t)'
    BY <2>1 DEF CallHolds, Exchanging, Revoking
  <2> QED BY <1>0, <1>1, <1>2, <2>2, CallOnly
<1> QED BY <1>3, <1>4, <1>5, <1>6

LEMMA ReturnsIdle ==
    ASSUME TypeOK, NEW t \in Callers, Returns(t)
    PROVE  /\ CallHolds(t)' /\ ~Exchanging(t)' /\ ~Revoking(t)'
           /\ \A u \in Callers : u # t => caller'[u] = caller[u]
<1>1. caller'[t] = Idle /\ \A u \in Callers : u # t => caller'[u] = caller[u]
  BY DEF Returns, TypeOK
<1> QED BY <1>1 DEF CallHolds, Exchanging, Revoking, Idle

LEMMA CommitLinkInv ==
    ASSUME ConnectionInv, NEW t \in Callers, CommitLink(t)
    PROVE  ConnectionInv'
<1> USE DEF ConnectionInv, database, provider
<1>0. TypeOK'
  BY StepTypeOK DEF Next, Linking
<1>1. /\ CallHolds(t)' /\ ~Exchanging(t)' /\ ~Revoking(t)'
      /\ \A u \in Callers : u # t => caller'[u] = caller[u]
  BY ReturnsIdle DEF CommitLink
<1>2. PICK s \in Sessions :
          /\ sessions[s].state = "none" /\ sessions'[s].state = "pending"
          /\ \A r \in Sessions : r # s => sessions'[r] = sessions[r]
  BY DEF CommitLink, NextSession, TypeOK
<1>3. UNCHANGED <<connections, windows, tokens, items, exchanged>>
  BY DEF CommitLink
<1>4. Apart'
  BY <1>1 DEF Apart, Exchanging, Revoking
<1>5. ASSUME NEW u \in Callers, u # t PROVE CallHolds(u)'
  <2>1. Exchanging(u) => caller[u].session \in Sessions /\ caller[u].session # s
    BY <1>2 DEF TypeOK, Call, Names, Finishing, CallHolds, Exchanging
  <2> QED BY <1>1, <1>2, <1>3, <1>5, <2>1 DEF CallHolds, Exchanging, Revoking
<1>6. \A r \in Sessions : RowHolds(r)'
  BY <1>2, <1>3 DEF RowHolds
<1>7. ExchangedOnce' /\ TokenKept' /\ RemovedIsRevoked'
  BY <1>3 DEF ExchangedOnce, TokenKept, RemovedIsRevoked
<1> QED BY <1>0, <1>1, <1>4, <1>5, <1>6, <1>7

LEMMA ClaimInv ==
    ASSUME ConnectionInv, NEW t \in Callers, ClaimSession(t)
    PROVE  ConnectionInv'
<1> USE DEF ConnectionInv, database, provider, ClaimSession, At, Goes
<1>0. TypeOK'
  BY StepTypeOK DEF Next, Linking
<1> DEFINE s == caller[t].session
<1>1. s \in Sessions /\ exchanged[s] = 0
  BY DEF TypeOK, Call, Names, Finishing, RowHolds
<1>2. /\ sessions[s].state = "pending" /\ sessions'[s].state = "exchanging"
      /\ \A r \in Sessions : r # s => sessions'[r] = sessions[r]
  BY <1>1 DEF TypeOK, Session
<1>3. /\ caller'[t].pc = "claimed" /\ caller'[t].session = s
      /\ caller'[t].connection = caller[t].connection /\ caller'[t].seen = caller[t].seen
      /\ \A u \in Callers : u # t => caller'[u] = caller[u]
  BY DEF TypeOK, Call
<1>4. UNCHANGED <<connections, windows, tokens, items, exchanged>>
  OBVIOUS
<1>5. ASSUME NEW u \in Callers, Exchanging(u)
      PROVE  caller[u].session \in Sessions /\ caller[u].session # s /\ u # t
  BY <1>2, <1>5 DEF TypeOK, Call, Names, Finishing, CallHolds, Exchanging
<1>6. Apart'
  BY <1>3, <1>5 DEF Apart, Exchanging, Revoking
<1>7. ASSUME NEW u \in Callers, u # t PROVE CallHolds(u)'
  BY <1>2, <1>3, <1>4, <1>5, <1>7 DEF CallHolds, Exchanging, Revoking
<1>8. CallHolds(t)'
  BY <1>1, <1>2, <1>3, <1>4 DEF CallHolds, Exchanging, Revoking
<1>9. \A r \in Sessions : RowHolds(r)'
  BY <1>2, <1>4 DEF RowHolds
<1>10. ExchangedOnce' /\ TokenKept' /\ RemovedIsRevoked'
  BY <1>4 DEF ExchangedOnce, TokenKept, RemovedIsRevoked
<1> QED BY <1>0, <1>6, <1>7, <1>8, <1>9, <1>10

(* A step that changes the row of one connection, whose access is not being   *)
(* revoked, does not disturb the other calls.                                 *)
LEMMA OthersHold ==
    ASSUME ConnectionInv, NEW u \in Callers, NEW c \in Sessions, caller'[u] = caller[u],
           connections[c].state \notin {"removing", "removed"},
           \A d \in Sessions : d # c => connections'[d] = connections[d],
           Exchanging(u) => sessions'[caller[u].session].state = sessions[caller[u].session].state,
           UNCHANGED <<tokens, items, exchanged>>
    PROVE  CallHolds(u)'
<1> USE DEF ConnectionInv
<1>1. ASSUME caller[u].pc \in {"removing", "revoked", "unrevoked", "forgetting"}
      PROVE  connections'[caller[u].connection] = connections[caller[u].connection]
  <2>1. caller[u].connection \in Sessions
    BY <1>1 DEF TypeOK, Call, Names, Tending
  <2>2. connections[caller[u].connection].state \in {"removing", "removed"}
    BY <1>1 DEF CallHolds, Revoking
  <2> QED BY <2>1, <2>2
<1> QED BY <1>1 DEF CallHolds, Exchanging, Revoking

LEMMA CompleteRepairInv ==
    ASSUME ConnectionInv, NEW t \in Callers, CompleteRepair(t)
    PROVE  ConnectionInv'
<1> USE DEF ConnectionInv, database, provider
<1>0. TypeOK'
  BY StepTypeOK DEF Next, Linking
<1> DEFINE s == caller[t].session
           c == caller[t].connection
<1>1. s \in Sessions /\ c \in Sessions /\ Exchanging(t)
  BY DEF CompleteRepair, At, TypeOK, Call, Names, Finishing, Exchanging
<1>2. connections[c].state = "needs_repair" /\ sessions[s].state = "exchanging"
  BY <1>1 DEF CompleteRepair, At, Unchanged, CallHolds
<1>3. /\ connections'[c].state = "active"
      /\ \A d \in Sessions : d # c => connections'[d] = connections[d]
  BY <1>1 DEF CompleteRepair, Moved, TypeOK, Connection
<1>4. /\ sessions'[s].state = "complete"
      /\ \A r \in Sessions : r # s => sessions'[r] = sessions[r]
  BY <1>1 DEF CompleteRepair, TypeOK, Session
<1>5. /\ CallHolds(t)' /\ ~Exchanging(t)' /\ ~Revoking(t)'
      /\ \A u \in Callers : u # t => caller'[u] = caller[u]
  BY ReturnsIdle DEF CompleteRepair
<1>6. UNCHANGED <<windows, tokens, items, exchanged>>
  BY DEF CompleteRepair
<1>7. Apart'
  BY <1>5 DEF Apart, Exchanging, Revoking
<1>8. ASSUME NEW u \in Callers, u # t PROVE CallHolds(u)'
  <2>1. Exchanging(u) => caller[u].session \in Sessions /\ caller[u].session # s
    BY <1>1, <1>8 DEF Apart, TypeOK, Call, Names, Finishing, Exchanging
  <2>2. connections[c].state \notin {"removing", "removed"}
    BY <1>2
  <2> QED BY <1>1, <1>3, <1>4, <1>5, <1>6, <1>8, <2>1, <2>2, OthersHold
<1>9. \A r \in Sessions : RowHolds(r)'
  BY <1>1, <1>2, <1>3, <1>4, <1>6 DEF RowHolds, NoConnection
<1>10. ExchangedOnce' /\ TokenKept' /\ RemovedIsRevoked'
  BY <1>1, <1>2, <1>3, <1>6 DEF ExchangedOnce, TokenKept, RemovedIsRevoked
<1> QED BY <1>0, <1>5, <1>7, <1>8, <1>9, <1>10

LEMMA StoreTokenInv ==
    ASSUME ConnectionInv, NEW t \in Callers, StoreToken(t)
    PROVE  ConnectionInv'
<1> USE DEF ConnectionInv, database, provider, StoreToken, At, Goes
<1>0. TypeOK'
  BY StepTypeOK DEF Next, Linking
<1> DEFINE s == caller[t].session
<1>1. s \in Sessions /\ sessions[s].state = "exchanging"
  BY DEF TypeOK, Call, Names, Finishing, CallHolds, Exchanging
<1>2. /\ caller'[t].pc = "stored" /\ caller'[t].session = s
      /\ caller'[t].connection = caller[t].connection
      /\ \A u \in Callers : u # t => caller'[u] = caller[u]
  BY DEF TypeOK, Call
<1>3. Apart'
  BY <1>2 DEF Apart, Exchanging, Revoking
<1>4. ASSUME NEW u \in Callers PROVE CallHolds(u)'
  BY <1>1, <1>2 DEF CallHolds, Exchanging, Revoking
<1>5. \A r \in Sessions : RowHolds(r)'
  BY DEF RowHolds
<1>6. ExchangedOnce' /\ TokenKept' /\ RemovedIsRevoked'
  BY DEF ExchangedOnce, TokenKept, RemovedIsRevoked
<1> QED BY <1>0, <1>3, <1>4, <1>5, <1>6

LEMMA CompleteLinkInv ==
    ASSUME ConnectionInv, NEW t \in Callers, CompleteLink(t)
    PROVE  ConnectionInv'
<1> USE DEF ConnectionInv, database, provider
<1>0. TypeOK'
  BY StepTypeOK DEF Next, Linking
<1> DEFINE s == caller[t].session
<1>1. s \in Sessions /\ Exchanging(t) /\ s \in tokens
  BY DEF CompleteLink, At, TypeOK, Call, Names, Finishing, Exchanging, CallHolds
<1>2. connections[s].state = "none" /\ sessions[s].state = "exchanging"
  BY <1>1 DEF CallHolds, RowHolds, NoConnection
<1>3. /\ connections'[s].state = "active"
      /\ \A d \in Sessions : d # s => connections'[d] = connections[d]
  BY <1>1 DEF CompleteLink, TypeOK, NoConnection
<1>4. /\ sessions'[s].state = "complete"
      /\ \A r \in Sessions : r # s => sessions'[r] = sessions[r]
  BY <1>1 DEF CompleteLink, TypeOK, Session
<1>5. /\ CallHolds(t)' /\ ~Exchanging(t)' /\ ~Revoking(t)'
      /\ \A u \in Callers : u # t => caller'[u] = caller[u]
  BY ReturnsIdle DEF CompleteLink
<1>6. UNCHANGED <<windows, tokens, items, exchanged>>
  BY DEF CompleteLink
<1>7. Apart'
  BY <1>5 DEF Apart, Exchanging, Revoking
<1>8. ASSUME NEW u \in Callers, u # t PROVE CallHolds(u)'
  <2>1. Exchanging(u) => caller[u].session \in Sessions /\ caller[u].session # s
    BY <1>1, <1>8 DEF Apart, TypeOK, Call, Names, Finishing, Exchanging
  <2>2. connections[s].state \notin {"removing", "removed"}
    BY <1>2
  <2> QED BY <1>1, <1>3, <1>4, <1>5, <1>6, <1>8, <2>1, <2>2, OthersHold
<1>9. \A r \in Sessions : RowHolds(r)'
  BY <1>1, <1>3, <1>4, <1>6 DEF RowHolds
<1>10. ExchangedOnce' /\ TokenKept' /\ RemovedIsRevoked'
  BY <1>1, <1>3, <1>6 DEF ExchangedOnce, TokenKept, RemovedIsRevoked
<1> QED BY <1>0, <1>5, <1>7, <1>8, <1>9, <1>10

LEMMA GiveUpInv ==
    ASSUME ConnectionInv, NEW t \in Callers, GiveUp(t)
    PROVE  ConnectionInv'
<1> USE DEF ConnectionInv, database, provider
<1>0. TypeOK'
  BY StepTypeOK DEF Next, Linking
<1> DEFINE s == caller[t].session
<1>1. s \in Sessions /\ Exchanging(t)
  BY DEF GiveUp, TypeOK, Call, Names, Finishing, Exchanging
<1>2. sessions[s].state = "exchanging"
  BY <1>1 DEF CallHolds
<1>3. /\ sessions'[s].state = "uncertain"
      /\ \A r \in Sessions : r # s => sessions'[r] = sessions[r]
  BY <1>1, <1>2 DEF GiveUp, TypeOK, Session
<1>4. /\ CallHolds(t)' /\ ~Exchanging(t)' /\ ~Revoking(t)'
      /\ \A u \in Callers : u # t => caller'[u] = caller[u]
  BY ReturnsIdle DEF GiveUp
<1>5. UNCHANGED <<connections, windows, tokens, items, exchanged>>
  BY DEF GiveUp
<1>6. Apart'
  BY <1>4 DEF Apart, Exchanging, Revoking
<1>7. ASSUME NEW u \in Callers, u # t PROVE CallHolds(u)'
  <2>1. Exchanging(u) => caller[u].session \in Sessions /\ caller[u].session # s
    BY <1>1, <1>7 DEF Apart, TypeOK, Call, Names, Finishing, Exchanging
  <2> QED BY <1>3, <1>4, <1>5, <1>7, <2>1 DEF CallHolds, Exchanging, Revoking
<1>8. \A r \in Sessions : RowHolds(r)'
  BY <1>1, <1>2, <1>3, <1>5 DEF RowHolds
<1>9. ExchangedOnce' /\ TokenKept' /\ RemovedIsRevoked'
  BY <1>5 DEF ExchangedOnce, TokenKept, RemovedIsRevoked
<1> QED BY <1>0, <1>4, <1>6, <1>7, <1>8, <1>9

LEMMA SyncPageInv ==
    ASSUME ConnectionInv, NEW t \in Callers, SyncPage(t)
    PROVE  ConnectionInv'
<1> USE DEF ConnectionInv, database, provider
<1>0. TypeOK'
  BY StepTypeOK DEF Next, Syncing
<1>1. /\ caller'[t].pc \in {"syncing", "fetched", "refused"}
      /\ \A u \in Callers : u # t => caller'[u] = caller[u]
  <2>1. CASE \E pc \in {"refused", "fetched"} : Goes(t, pc)
    BY <2>1 DEF Goes, TypeOK, Call
  <2>2. CASE \E pc \in {"syncing", "fetched"} :
                 caller' = [caller EXCEPT ![t] = [@ EXCEPT !.position = caller[t].position + 1,
                                                           !.pc = pc]]
    <3>1. PICK pc \in {"syncing", "fetched"} :
              caller' = [caller EXCEPT ![t] = [@ EXCEPT !.position = caller[t].position + 1,
                                                        !.pc = pc]]
      BY <2>2
    <3> DEFINE call == [caller[t] EXCEPT !.position = caller[t].position + 1, !.pc = pc]
    <3>2. call.pc = pc
      BY DEF TypeOK, Call
    <3>3. caller' = [caller EXCEPT ![t] = call]
      BY <3>1
    <3> HIDE DEF call
    <3> QED BY <3>2, <3>3 DEF TypeOK
  <2> QED BY <2>1, <2>2 DEF SyncPage
<1>2. CallHolds(t)' /\ ~Exchanging(t)' /\ ~Revoking(t)'
  BY <1>1 DEF CallHolds, Exchanging, Revoking
<1>3. UNCHANGED <<sessions, connections, windows, tokens, items, exchanged>>
  BY DEF SyncPage
<1> QED BY <1>0, <1>1, <1>2, <1>3, CallOnly

(* A call ends with a new version of a row, which stays linked and whose access *)
(* is not being revoked.                                                        *)
LEMMA RowMoves ==
    ASSUME ConnectionInv, TypeOK', NEW t \in Callers, NEW c \in Sessions, Returns(t),
           connections[c].state = "active", connections'[c].state \in {"active", "needs_repair"},
           \A d \in Sessions : d # c => connections'[d] = connections[d] /\ windows'[d] = windows[d],
           UNCHANGED <<sessions, tokens, items, exchanged>>
    PROVE  ConnectionInv'
<1> USE DEF ConnectionInv
<1>1. /\ CallHolds(t)' /\ ~Exchanging(t)' /\ ~Revoking(t)'
      /\ \A u \in Callers : u # t => caller'[u] = caller[u]
  BY ReturnsIdle
<1>2. Apart'
  BY <1>1 DEF Apart, Exchanging, Revoking
<1>3. ASSUME NEW u \in Callers, u # t PROVE CallHolds(u)'
  BY <1>1, <1>3, OthersHold
<1>4. \A r \in Sessions : RowHolds(r)'
  BY DEF RowHolds, NoConnection
<1>5. ExchangedOnce' /\ TokenKept' /\ RemovedIsRevoked'
  BY DEF ExchangedOnce, TokenKept, RemovedIsRevoked
<1> QED BY <1>1, <1>2, <1>3, <1>4, <1>5

LEMMA CommitWindowInv ==
    ASSUME ConnectionInv, NEW t \in Callers, CommitWindow(t)
    PROVE  ConnectionInv'
<1> USE DEF ConnectionInv, database, provider
<1>0. TypeOK'
  BY StepTypeOK DEF Next, Syncing
<1> DEFINE c == caller[t].connection
<1>1. c \in Sessions /\ connections[c].state = "active" /\ Returns(t)
  BY DEF CommitWindow, At, TypeOK, Call, Names, Tending
<1>2. /\ connections'[c].state = "active"
      /\ \A d \in Sessions : d # c => connections'[d] = connections[d] /\ windows'[d] = windows[d]
  BY <1>1 DEF CommitWindow, AddWindow, Advanced, TypeOK, Connection
<1>3. UNCHANGED <<sessions, tokens, items, exchanged>>
  BY DEF CommitWindow
<1> QED BY <1>0, <1>1, <1>2, <1>3, RowMoves

LEMMA RefusedInv ==
    ASSUME ConnectionInv, NEW t \in Callers, Refused(t)
    PROVE  ConnectionInv'
<1> USE DEF ConnectionInv, database, provider
<1>0. TypeOK'
  BY StepTypeOK DEF Next, Syncing
<1> DEFINE c == caller[t].connection
<1>1. c \in Sessions /\ Returns(t)
  BY DEF Refused, At, TypeOK, Call, Names, Tending
<1>2. UNCHANGED <<sessions, windows, tokens, items, exchanged>>
  BY DEF Refused
<1>3. CASE connections[c].state = "active" /\ NeedRepair(t)
  <2>1. /\ connections'[c].state = "needs_repair"
        /\ \A d \in Sessions : d # c => connections'[d] = connections[d]
    BY <1>1, <1>3 DEF NeedRepair, Moved, TypeOK, Connection
  <2> QED BY <1>0, <1>1, <1>2, <1>3, <2>1, RowMoves
<1>4. CASE UNCHANGED connections
  BY <1>0, <1>1, <1>2, <1>4, ReturnsIdle, CallOnly
<1> QED BY <1>3, <1>4 DEF Refused

LEMMA MarkRemovingInv ==
    ASSUME ConnectionInv, NEW t \in Callers, MarkRemoving(t)
    PROVE  ConnectionInv'
<1> USE DEF ConnectionInv, database, provider
<1>0. TypeOK'
  BY StepTypeOK DEF Next, Disconnecting
<1> DEFINE c == caller[t].connection
<1>1. c \in Sessions /\ connections[c].state \in {"active", "needs_repair"}
  BY DEF MarkRemoving, At, Unchanged, CallHolds, TypeOK, Call, Names, Tending
<1>2. /\ connections'[c].state = "removing"
      /\ \A d \in Sessions : d # c => connections'[d] = connections[d]
  BY <1>1 DEF MarkRemoving, Moved, TypeOK, Connection
<1>3. /\ caller'[t].pc = "removing" /\ caller'[t].connection = c
      /\ \A u \in Callers : u # t => caller'[u] = caller[u]
  BY DEF MarkRemoving, TypeOK, Call
<1>4. UNCHANGED <<sessions, windows, tokens, items, exchanged>>
  BY DEF MarkRemoving
<1>5. ASSUME NEW u \in Callers, Revoking(u)
      PROVE  caller[u].connection # c
  BY <1>1, <1>5 DEF CallHolds
<1>6. Apart'
  BY <1>3, <1>5 DEF Apart, Exchanging, Revoking
<1>7. ASSUME NEW u \in Callers, u # t PROVE CallHolds(u)'
  BY <1>1, <1>2, <1>3, <1>4, <1>7, OthersHold
<1>8. CallHolds(t)'
  BY <1>2, <1>3 DEF CallHolds, Exchanging, Revoking
<1>9. \A r \in Sessions : RowHolds(r)'
  BY <1>1, <1>2, <1>4 DEF RowHolds, NoConnection
<1>10. ExchangedOnce' /\ TokenKept' /\ RemovedIsRevoked'
  BY <1>1, <1>2, <1>4 DEF ExchangedOnce, TokenKept, RemovedIsRevoked
<1> QED BY <1>0, <1>6, <1>7, <1>8, <1>9, <1>10

LEMMA RevokeInv ==
    ASSUME ConnectionInv, NEW t \in Callers, Revoke(t)
    PROVE  ConnectionInv'
<1> USE DEF ConnectionInv, database, provider
<1>0. TypeOK'
  BY StepTypeOK DEF Next, Disconnecting
<1> DEFINE c == caller[t].connection
<1>1. Revoking(t) /\ connections[c].state = "removing"
  BY DEF Revoke, At, Revoking, CallHolds
<1>2. /\ caller'[t].pc \in {"revoked", "unrevoked"} /\ caller'[t].connection = c
      /\ \A u \in Callers : u # t => caller'[u] = caller[u]
  BY DEF Revoke, Goes, TypeOK, Call
<1>3. /\ items' \subseteq items /\ (caller'[t].pc = "revoked" => c \notin items')
      /\ UNCHANGED <<sessions, connections, windows, tokens, exchanged>>
  BY DEF Revoke, Goes, TypeOK, Call
<1>4. Apart'
  BY <1>1, <1>2 DEF Apart, Exchanging, Revoking
<1>5. ASSUME NEW u \in Callers, u # t PROVE CallHolds(u)'
  BY <1>2, <1>3, <1>5 DEF CallHolds, Exchanging, Revoking
<1>6. CallHolds(t)'
  BY <1>1, <1>2, <1>3 DEF CallHolds, Exchanging, Revoking
<1>7. \A r \in Sessions : RowHolds(r)'
  BY <1>3 DEF RowHolds
<1>8. ExchangedOnce' /\ TokenKept' /\ RemovedIsRevoked'
  BY <1>3 DEF ExchangedOnce, TokenKept, RemovedIsRevoked
<1> QED BY <1>0, <1>4, <1>5, <1>6, <1>7, <1>8
(* A call that revokes changes the row of its connection, which no other call  *)
(* revokes and no unfinished session creates.                                  *)
LEMMA OutcomeInv ==
    ASSUME ConnectionInv, TypeOK', NEW t \in Callers, NEW c \in Sessions,
           Revoking(t), c = caller[t].connection,
           connections'[c].state \in {"removed", "remove_uncertain"},
           connections'[c].state = "removed" => c \notin items,
           \A d \in Sessions : d # c => connections'[d] = connections[d],
           \A u \in Callers : u # t => caller'[u] = caller[u],
           CallHolds(t)', ~Exchanging(t)', ~Revoking(t)',
           UNCHANGED <<sessions, windows, tokens, items, exchanged>>
    PROVE  ConnectionInv'
<1> USE DEF ConnectionInv
<1>1. connections[c].state = "removing"
  BY DEF CallHolds
<1>2. Apart'
  BY DEF Apart, Exchanging, Revoking
<1>3. ASSUME NEW u \in Callers, u # t PROVE CallHolds(u)'
  <2>1. ASSUME caller[u].pc \in {"removing", "revoked", "unrevoked", "forgetting"}
        PROVE  connections'[caller[u].connection] = connections[caller[u].connection]
    <3>1. caller[u].connection \in Sessions
      BY <2>1 DEF TypeOK, Call, Names, Tending
    <3>2. caller[u].connection # c
      BY <1>1, <1>3, <2>1 DEF Apart, CallHolds, Revoking
    <3> QED BY <3>1, <3>2
  <2> QED BY <1>3, <2>1 DEF CallHolds, Exchanging, Revoking
<1>4. \A r \in Sessions : RowHolds(r)'
  BY <1>1 DEF RowHolds, NoConnection
<1>5. ExchangedOnce' /\ TokenKept' /\ RemovedIsRevoked'
  BY <1>1 DEF ExchangedOnce, TokenKept, RemovedIsRevoked
<1> QED BY <1>2, <1>3, <1>4, <1>5

LEMMA FinishRemovalInv ==
    ASSUME ConnectionInv, NEW t \in Callers, FinishRemoval(t)
    PROVE  ConnectionInv'
<1> USE DEF ConnectionInv, database, provider
<1>0. TypeOK'
  BY StepTypeOK DEF Next, Disconnecting
<1> DEFINE c == caller[t].connection
<1>1. c \in Sessions /\ Revoking(t) /\ c \notin items
  BY DEF FinishRemoval, At, Revoking, CallHolds, TypeOK, Call, Names, Tending
<1>2. /\ connections'[c].state = "removed"
      /\ \A d \in Sessions : d # c => connections'[d] = connections[d]
  BY <1>1 DEF FinishRemoval, SetState, TypeOK, Connection
<1>3. /\ caller'[t].pc = "forgetting" /\ caller'[t].connection = c
      /\ \A u \in Callers : u # t => caller'[u] = caller[u]
  BY DEF FinishRemoval, Goes, TypeOK, Call
<1>4. CallHolds(t)' /\ ~Exchanging(t)' /\ ~Revoking(t)'
  BY <1>2, <1>3 DEF CallHolds, Exchanging, Revoking
<1>5. UNCHANGED <<sessions, windows, tokens, items, exchanged>>
  BY DEF FinishRemoval
<1> QED BY <1>0, <1>1, <1>2, <1>3, <1>4, <1>5, OutcomeInv

LEMMA RemovalUncertainInv ==
    ASSUME ConnectionInv, NEW t \in Callers, RemovalUncertain(t)
    PROVE  ConnectionInv'
<1> USE DEF ConnectionInv, database, provider
<1>0. TypeOK'
  BY StepTypeOK DEF Next, Disconnecting
<1> DEFINE c == caller[t].connection
<1>1. c \in Sessions /\ Revoking(t)
  BY DEF RemovalUncertain, At, Revoking, TypeOK, Call, Names, Tending
<1>2. /\ connections'[c].state = "remove_uncertain"
      /\ \A d \in Sessions : d # c => connections'[d] = connections[d]
  BY <1>1 DEF RemovalUncertain, SetState, TypeOK, Connection
<1>3. /\ CallHolds(t)' /\ ~Exchanging(t)' /\ ~Revoking(t)'
      /\ \A u \in Callers : u # t => caller'[u] = caller[u]
  BY ReturnsIdle DEF RemovalUncertain
<1>4. UNCHANGED <<sessions, windows, tokens, items, exchanged>>
  BY DEF RemovalUncertain
<1> QED BY <1>0, <1>1, <1>2, <1>3, <1>4, OutcomeInv

LEMMA ForgetTokenInv ==
    ASSUME ConnectionInv, NEW t \in Callers, ForgetToken(t)
    PROVE  ConnectionInv'
<1> USE DEF ConnectionInv, database, provider
<1>0. TypeOK'
  BY StepTypeOK DEF Next, Disconnecting
<1> DEFINE c == caller[t].connection
<1>1. connections[c].state = "removed"
  BY DEF ForgetToken, At, CallHolds
<1>2. /\ CallHolds(t)' /\ ~Exchanging(t)' /\ ~Revoking(t)'
      /\ \A u \in Callers : u # t => caller'[u] = caller[u]
  BY ReturnsIdle DEF ForgetToken
<1>3. /\ UNCHANGED <<sessions, connections, windows, items, exchanged>>
      /\ tokens' = tokens \ {c}
  BY DEF ForgetToken
<1>4. Apart'
  BY <1>2 DEF Apart, Exchanging, Revoking
<1>5. ASSUME NEW u \in Callers, u # t PROVE CallHolds(u)'
  <2>1. ASSUME Exchanging(u) PROVE caller[u].session # c
    <3>1. caller[u].session \in Sessions
      BY <2>1 DEF TypeOK, Call, Names, Finishing, Exchanging
    <3>2. connections[caller[u].session].state = "none"
      BY <2>1, <3>1 DEF CallHolds, RowHolds, NoConnection
    <3> QED BY <1>1, <3>2
  <2> QED BY <1>2, <1>3, <1>5, <2>1 DEF CallHolds, Exchanging, Revoking
<1>6. \A r \in Sessions : RowHolds(r)'
  BY <1>3 DEF RowHolds
<1>7. ExchangedOnce' /\ TokenKept' /\ RemovedIsRevoked'
  BY <1>1, <1>3 DEF ExchangedOnce, TokenKept, RemovedIsRevoked
<1> QED BY <1>0, <1>2, <1>4, <1>5, <1>6, <1>7

LEMMA FailsInv ==
    ASSUME ConnectionInv, NEW t \in Callers, Fails(t)
    PROVE  ConnectionInv'
<1> USE DEF ConnectionInv, database, provider
<1>0. TypeOK'
  BY StepTypeOK DEF Next
<1>1. UNCHANGED <<sessions, connections, windows, tokens, items, exchanged>> /\ Returns(t)
  BY DEF Fails
<1> QED BY <1>0, <1>1, ReturnsIdle, CallOnly

(* The member, the provider and the end of the process move no session past a  *)
(* claim, and touch no connection.                                             *)
LEMMA EnvironmentInv ==
    ASSUME ConnectionInv, Environment
    PROVE  ConnectionInv'
<1> USE DEF ConnectionInv, database, provider
<1>0. TypeOK'
  BY StepTypeOK DEF Next
<1>1. UNCHANGED <<connections, windows, tokens, items, exchanged>>
  BY DEF Environment, consent, MemberFinishes, SessionExpires, LoginLapses, Crash
<1>2. \A s \in Sessions : sessions'[s].state = sessions[s].state
  <2>1. CASE UNCHANGED sessions
    BY <2>1
  <2>2. CASE \E s \in Sessions : MemberFinishes(s) \/ SessionExpires(s)
    <3>1. PICK s \in Sessions : MemberFinishes(s) \/ SessionExpires(s)
      BY <2>2
    <3>2. /\ [sessions[s] EXCEPT !.finished = TRUE].state = sessions[s].state
          /\ [sessions[s] EXCEPT !.expired = TRUE].state = sessions[s].state
      BY DEF TypeOK, Session
    <3>3. \E row : row.state = sessions[s].state /\ sessions' = [sessions EXCEPT ![s] = row]
      BY <3>1, <3>2 DEF MemberFinishes, SessionExpires
    <3> QED BY <3>3 DEF TypeOK
  <2> QED BY <2>1, <2>2 DEF Environment, consent, LoginLapses, Crash
<1>3. \/ UNCHANGED caller
      \/ \A t \in Callers : caller'[t] = Idle
  BY DEF Environment, consent, MemberFinishes, SessionExpires, LoginLapses, Crash
<1>4. Apart'
  BY <1>3 DEF Apart, Exchanging, Revoking, Idle
<1>5. ASSUME NEW u \in Callers PROVE CallHolds(u)'
  <2>1. CASE caller'[u] = Idle
    BY <2>1 DEF CallHolds, Exchanging, Revoking, Idle
  <2>2. CASE caller'[u] = caller[u]
    <3>1. Exchanging(u) => caller[u].session \in Sessions
      BY DEF TypeOK, Call, Names, Finishing, Exchanging
    <3> QED BY <1>1, <1>2, <2>2, <3>1 DEF CallHolds, Exchanging, Revoking
  <2> QED BY <1>3, <2>1, <2>2
<1>6. \A r \in Sessions : RowHolds(r)'
  BY <1>1, <1>2 DEF RowHolds
<1>7. ExchangedOnce' /\ TokenKept' /\ RemovedIsRevoked'
  BY <1>1 DEF ExchangedOnce, TokenKept, RemovedIsRevoked
<1> QED BY <1>0, <1>4, <1>5, <1>6, <1>7

LEMMA StepInv == ConnectionInv /\ [Next]_vars => ConnectionInv'
<1> SUFFICES ASSUME ConnectionInv, [Next]_vars PROVE ConnectionInv'
  OBVIOUS
<1>1. CASE \E t \in Callers : Linking(t)
  BY <1>1, BeginInv, CommitLinkInv, ClaimInv, CompleteRepairInv, ExchangeInv, StoreTokenInv,
     CompleteLinkInv, GiveUpInv DEF Linking
<1>2. CASE \E t \in Callers : Syncing(t)
  BY <1>2, BeginInv, SyncPageInv, CommitWindowInv, RefusedInv DEF Syncing
<1>3. CASE \E t \in Callers : Disconnecting(t)
  BY <1>3, BeginInv, MarkRemovingInv, RevokeInv, FinishRemovalInv, RemovalUncertainInv,
     ForgetTokenInv DEF Disconnecting
<1>4. CASE \E t \in Callers : Fails(t)
  BY <1>4, FailsInv
<1>5. CASE Environment
  BY <1>5, EnvironmentInv
<1>6. CASE UNCHANGED vars
  <2>1. TypeOK'
    BY StepTypeOK DEF ConnectionInv
  <2> QED BY <1>6, <2>1 DEF vars, database, provider, ConnectionInv, CallHolds, Exchanging, Revoking,
              Apart, RowHolds, ExchangedOnce, TokenKept, RemovedIsRevoked
<1> QED BY <1>1, <1>2, <1>3, <1>4, <1>5, <1>6 DEF Next

LEMMA InvariantHolds == Spec => []ConnectionInv
BY InitInv, StepInv, PTL DEF Spec

(* However many calls finish a session at the same time, and wherever they      *)
(* fail or crash, its public token is exchanged at most once.                   *)
THEOREM ExchangedAtMostOnce == Spec => []ExchangedOnce
<1>1. ConnectionInv => ExchangedOnce
  BY DEF ConnectionInv
<1> QED BY <1>1, InvariantHolds, PTL

(* A connection that is not removed always has its token in the private store,  *)
(* so that it can still be revoked.                                             *)
THEOREM TokensKept == Spec => []TokenKept
<1>1. ConnectionInv => TokenKept
  BY DEF ConnectionInv
<1> QED BY <1>1, InvariantHolds, PTL

(* A connection that is shown as removed has no access at the provider.         *)
THEOREM RemovalsRevoke == Spec => []RemovedIsRevoked
<1>1. ConnectionInv => RemovedIsRevoked
  BY DEF ConnectionInv
<1> QED BY <1>1, InvariantHolds, PTL
-----------------------------------------------------------------------------
(* Steps *)

(* A row whose access is being revoked changes only with the outcome.          *)
LEMMA RevocationStep ==
    ASSUME ConnectionInv, [Next]_vars, NEW c \in Sessions
    PROVE  /\ connections[c].state = "removing" =>
                  connections'[c].state \in {"removing", "remove_uncertain", "removed"}
           /\ connections[c].state \in {"remove_uncertain", "removed"} =>
                  connections'[c] = connections[c]
<1> USE DEF ConnectionInv, database, provider
<1>1. CASE connections'[c] = connections[c]
  BY <1>1
<1>2. CASE \E t \in Callers : Linking(t)
  <2>1. PICK t \in Callers : Linking(t)
    BY <1>2
  <2>2. CASE CompleteRepair(t)
    <3>1. caller[t].connection \in Sessions /\ connections[caller[t].connection].state = "needs_repair"
      BY <2>2 DEF CompleteRepair, At, Unchanged, CallHolds, TypeOK, Call
    <3> QED BY <2>2, <3>1 DEF CompleteRepair, TypeOK
  <2>3. CASE CompleteLink(t)
    <3>1. caller[t].session \in Sessions
      BY <2>3 DEF CompleteLink, At, TypeOK, Call, Names, Finishing
    <3>2. connections[caller[t].session].state = "none"
      BY <2>3, <3>1 DEF CompleteLink, At, CallHolds, Exchanging, RowHolds, NoConnection
    <3> QED BY <2>3, <3>1, <3>2 DEF CompleteLink, TypeOK
  <2> QED BY <1>1, <2>1, <2>2, <2>3 DEF Linking, BeginLink, CommitLink, BeginFinish, ClaimSession,
             Exchange, StoreToken, GiveUp
<1>3. CASE \E t \in Callers : Syncing(t)
  <2>1. PICK t \in Callers : Syncing(t)
    BY <1>3
  <2>2. CASE CommitWindow(t)
    BY <2>2 DEF CommitWindow, AddWindow, TypeOK
  <2>3. CASE Refused(t)
    BY <2>3 DEF Refused, NeedRepair, TypeOK
  <2> QED BY <1>1, <2>1, <2>2, <2>3 DEF Syncing, BeginSync, SyncPage
<1>4. CASE \E t \in Callers : Disconnecting(t)
  <2>1. PICK t \in Callers : Disconnecting(t)
    BY <1>4
  <2>2. CASE MarkRemoving(t)
    <3>1. connections[caller[t].connection].state \in {"active", "needs_repair"}
      BY <2>2 DEF MarkRemoving, At, Unchanged, CallHolds
    <3> QED BY <2>2, <3>1 DEF MarkRemoving, TypeOK
  <2>3. CASE FinishRemoval(t) \/ RemovalUncertain(t)
    <3>1. connections[caller[t].connection].state = "removing"
      BY <2>3 DEF FinishRemoval, RemovalUncertain, At, CallHolds, Revoking
    <3>2. \E state \in {"removed", "remove_uncertain"} :
              connections' = [connections EXCEPT ![caller[t].connection].state = state]
      BY <2>3 DEF FinishRemoval, RemovalUncertain, SetState
    <3> QED BY <3>1, <3>2 DEF TypeOK, Connection
  <2> QED BY <1>1, <2>1, <2>2, <2>3 DEF Disconnecting, BeginDisconnect, Revoke, ForgetToken
<1>5. CASE (\E t \in Callers : Fails(t)) \/ Environment \/ UNCHANGED vars
  BY <1>1, <1>5 DEF Fails, Environment, consent, MemberFinishes, SessionExpires, LoginLapses, Crash, vars
<1> QED BY <1>2, <1>3, <1>4, <1>5 DEF Next

(* Nothing that was read before a revocation began brings the connection back,  *)
(* and the outcome of a revocation is never changed.                            *)
THEOREM RevocationsFinal == Spec => RevocationFinal
<1>1. ConnectionInv /\ [Next]_vars =>
          [\A c \in Sessions :
               /\ connections[c].state = "removing" =>
                      connections'[c].state \in {"removing", "remove_uncertain", "removed"}
               /\ connections[c].state \in {"remove_uncertain", "removed"} =>
                      connections'[c] = connections[c]]_vars
  BY RevocationStep
<1> QED BY <1>1, InvariantHolds, PTL DEF Spec, RevocationFinal
(* A session keeps its consent and the connection that it repairs.              *)
LEMMA SessionKeeps ==
    ASSUME ConnectionInv, [Next]_vars, NEW s \in Sessions, sessions[s].state # "none"
    PROVE  /\ sessions'[s].state # "none"
           /\ sessions'[s].consent = sessions[s].consent
           /\ sessions'[s].repairs = sessions[s].repairs
           /\ sessions[s].state = "pending" /\ sessions[s].finished =>
                  \/ sessions'[s].state = "pending" /\ sessions'[s].finished
                  \/ \E t \in Callers : caller[t].session = s /\ ClaimSession(t)
<1> USE DEF database, provider, ConnectionInv
<1>1. CASE UNCHANGED sessions
  BY <1>1
<1>2. ASSUME NEW r \in Sessions
      PROVE  /\ \A state \in {"exchanging", "complete", "uncertain"} :
                    LET row == [sessions[r] EXCEPT !.state = state] IN
                    /\ row.state = state
                    /\ row.consent = sessions[r].consent /\ row.repairs = sessions[r].repairs
             /\ LET row == [sessions[r] EXCEPT !.finished = TRUE] IN
                /\ row.state = sessions[r].state /\ row.finished
                /\ row.consent = sessions[r].consent /\ row.repairs = sessions[r].repairs
             /\ LET row == [sessions[r] EXCEPT !.expired = TRUE] IN
                /\ row.state = sessions[r].state /\ row.finished = sessions[r].finished
                /\ row.consent = sessions[r].consent /\ row.repairs = sessions[r].repairs
  BY DEF TypeOK, Session
<1>3. CASE \E t \in Callers : CommitLink(t)
  BY <1>3 DEF CommitLink, NextSession, TypeOK
<1>4. CASE \E t \in Callers : ClaimSession(t)
  <2>1. PICK t \in Callers : ClaimSession(t)
    BY <1>4
  <2>2. caller[t].session \in Sessions
    BY <2>1 DEF ClaimSession, At, TypeOK, Call, Names, Finishing
  <2>3. sessions' = [sessions EXCEPT ![caller[t].session].state = "exchanging"]
    BY <2>1 DEF ClaimSession
  <2> QED BY <1>2, <2>1, <2>2, <2>3 DEF TypeOK
<1>5. CASE \E t \in Callers : CompleteRepair(t) \/ CompleteLink(t)
  <2>1. PICK t \in Callers : CompleteRepair(t) \/ CompleteLink(t)
    BY <1>5
  <2>2. caller[t].session \in Sessions /\ sessions[caller[t].session].state = "exchanging"
    BY <2>1 DEF CompleteRepair, CompleteLink, At, TypeOK, Call, Names, Finishing, CallHolds, Exchanging
  <2>3. sessions' = [sessions EXCEPT ![caller[t].session].state = "complete"]
    BY <2>1 DEF CompleteRepair, CompleteLink
  <2> QED BY <1>2, <2>2, <2>3 DEF TypeOK
<1>6. CASE \E t \in Callers : GiveUp(t)
  <2>1. PICK t \in Callers : GiveUp(t)
    BY <1>6
  <2>2. caller[t].session \in Sessions
    BY <2>1 DEF GiveUp, TypeOK, Call, Names, Finishing
  <2>3. \/ /\ sessions[caller[t].session].state = "exchanging"
           /\ sessions' = [sessions EXCEPT ![caller[t].session].state = "uncertain"]
        \/ sessions' = sessions
    BY <2>1, <2>2 DEF GiveUp, TypeOK, Session
  <2> QED BY <1>2, <2>2, <2>3 DEF TypeOK
<1>7. CASE \E r \in Sessions : MemberFinishes(r)
  BY <1>2, <1>7 DEF MemberFinishes, TypeOK
<1>8. CASE \E r \in Sessions : SessionExpires(r)
  BY <1>2, <1>8 DEF SessionExpires, TypeOK
<1>9. CASE \E t \in Callers : Syncing(t) \/ Disconnecting(t) \/ Fails(t)
  BY <1>1, <1>9 DEF Syncing, BeginSync, SyncPage, CommitWindow, Refused, Disconnecting, BeginDisconnect,
         MarkRemoving, Revoke, FinishRemoval, RemovalUncertain, ForgetToken, Fails
<1>10. CASE \E t \in Callers : Linking(t)
  BY <1>1, <1>3, <1>4, <1>5, <1>6, <1>10 DEF Linking, BeginLink, BeginFinish, Exchange, StoreToken
<1>11. CASE Environment
  BY <1>1, <1>7, <1>8, <1>11 DEF Environment, consent, LoginLapses, Crash
<1> QED BY <1>1, <1>9, <1>10, <1>11 DEF Next, vars

(* A step moves one call, or none, or a crash ends all of them.                 *)
LEMMA OthersStay ==
    ASSUME TypeOK, NEW u \in Callers, Linking(u) \/ Syncing(u) \/ Disconnecting(u) \/ Fails(u),
           NEW t \in Callers, t # u
    PROVE  caller'[t] = caller[t]
<1>1. \E call : caller' = [caller EXCEPT ![u] = call]
  <2>1. CASE Linking(u)
    BY <2>1 DEF Linking, BeginLink, CommitLink, BeginFinish, ClaimSession, CompleteRepair, Exchange,
           StoreToken, CompleteLink, GiveUp, Goes, Returns
  <2>2. CASE Syncing(u)
    BY <2>2 DEF Syncing, BeginSync, SyncPage, CommitWindow, Refused, Reads, Goes, Returns
  <2>3. CASE Disconnecting(u)
    BY <2>3 DEF Disconnecting, BeginDisconnect, MarkRemoving, Revoke, FinishRemoval, RemovalUncertain,
           ForgetToken, Reads, Goes, Returns
  <2>4. CASE Fails(u)
    BY <2>4 DEF Fails, Returns
  <2> QED BY <2>1, <2>2, <2>3, <2>4
<1> QED BY <1>1 DEF TypeOK

(* A call that finishes a session carries the consent and the connection that   *)
(* the session was started with.                                                *)
Carried(t) ==
    caller[t].pc \in Finishing =>
        LET row == sessions[caller[t].session] IN
        /\ row.state # "none"
        /\ row.consent = caller[t].consent
        /\ row.repairs = caller[t].connection

CarriedInv == \A t \in Callers : Carried(t)

LEMMA CarriedStep ==
    ASSUME ConnectionInv, CarriedInv, [Next]_vars, NEW t \in Callers
    PROVE  Carried(t)'
<1> USE DEF database, provider
<1>0. TypeOK
  BY DEF ConnectionInv
<1>1. CASE /\ caller[t].pc \in Finishing
           /\ caller'[t].session = caller[t].session /\ caller'[t].consent = caller[t].consent
           /\ caller'[t].connection = caller[t].connection
  <2>1. caller[t].session \in Sessions
    BY <1>0, <1>1 DEF TypeOK, Call, Names
  <2> QED BY <1>1, <2>1, SessionKeeps DEF CarriedInv, Carried
<1>2. CASE caller'[t].pc \notin Finishing
  BY <1>2 DEF Carried
<1>3. CASE \E s \in Sessions : BeginFinish(t, s)
  <2>1. PICK s \in Sessions : BeginFinish(t, s)
    BY <1>3
  <2>2. /\ caller'[t].session = s /\ caller'[t].consent = sessions[s].consent
        /\ caller'[t].connection = sessions[s].repairs
    BY <1>0, <2>1 DEF BeginFinish, TypeOK, Idle
  <2>3. UNCHANGED sessions /\ sessions[s].state = "pending"
    BY <2>1 DEF BeginFinish
  <2> QED BY <2>2, <2>3 DEF Carried
<1>4. CASE caller'[t] = caller[t]
  BY <1>1, <1>2, <1>4
<1>5. CASE \E pc \in Positions : Goes(t, pc) /\ (pc \in Finishing => caller[t].pc \in Finishing)
  BY <1>0, <1>1, <1>2, <1>5 DEF Goes, TypeOK, Call
<1>6. CASE caller'[t] = Idle
  BY <1>2, <1>6 DEF Idle, Finishing
<1>7. CASE Linking(t)
  <2>1. CASE \E c \in Sessions \cup {0} : BeginLink(t, c)
    <3>1. caller'[t].pc = "linking"
      BY <1>0, <2>1 DEF BeginLink, TypeOK, Idle
    <3> QED BY <1>2, <3>1 DEF Finishing
  <2>2. CASE ClaimSession(t) \/ Exchange(t) \/ StoreToken(t)
    BY <1>5, <2>2 DEF ClaimSession, Exchange, StoreToken, At, Positions, Finishing
  <2>3. CASE CommitLink(t) \/ CompleteRepair(t) \/ CompleteLink(t) \/ GiveUp(t)
    BY <1>0, <1>6, <2>3 DEF CommitLink, CompleteRepair, CompleteLink, GiveUp, Returns, TypeOK
  <2> QED BY <1>3, <1>7, <2>1, <2>2, <2>3 DEF Linking
<1>8. CASE Syncing(t)
  <2>1. CASE \E c \in Synced : BeginSync(t, c)
    BY <1>0, <1>2, <2>1, ReadsCall, SyncedAssumption DEF BeginSync, Sessions, Finishing
  <2>2. CASE SyncPage(t)
    <3>1. CASE \E pc \in {"refused", "fetched"} : Goes(t, pc)
      BY <1>5, <3>1 DEF Positions, Finishing, Tending
    <3>2. CASE \E pc \in {"syncing", "fetched"} :
                   caller' = [caller EXCEPT ![t] = [@ EXCEPT !.position = caller[t].position + 1,
                                                             !.pc = pc]]
      <4>1. PICK pc \in {"syncing", "fetched"} :
                caller' = [caller EXCEPT ![t] = [@ EXCEPT !.position = caller[t].position + 1,
                                                          !.pc = pc]]
        BY <3>2
      <4> DEFINE call == [caller[t] EXCEPT !.position = caller[t].position + 1, !.pc = pc]
      <4>2. call.pc = pc
        BY <1>0 DEF TypeOK, Call
      <4>3. caller' = [caller EXCEPT ![t] = call]
        BY <4>1
      <4> HIDE DEF call
      <4> QED BY <1>0, <1>2, <4>2, <4>3 DEF TypeOK, Finishing
    <3> QED BY <2>2, <3>1, <3>2 DEF SyncPage
  <2>3. CASE CommitWindow(t) \/ Refused(t)
    BY <1>0, <1>6, <2>3 DEF CommitWindow, Refused, Returns, TypeOK
  <2> QED BY <1>8, <2>1, <2>2, <2>3 DEF Syncing
<1>9. CASE Disconnecting(t)
  <2>1. CASE \E c \in Sessions : BeginDisconnect(t, c)
    BY <1>0, <1>2, <2>1, ReadsCall DEF BeginDisconnect, Finishing
  <2>2. CASE MarkRemoving(t)
    <3>1. caller'[t].pc = "removing"
      BY <1>0, <2>2 DEF MarkRemoving, TypeOK, Call
    <3> QED BY <1>2, <3>1 DEF Finishing
  <2>3. CASE Revoke(t) \/ FinishRemoval(t)
    BY <1>5, <2>3 DEF Revoke, FinishRemoval, Positions, Finishing, Tending
  <2>4. CASE RemovalUncertain(t) \/ ForgetToken(t)
    BY <1>0, <1>6, <2>4 DEF RemovalUncertain, ForgetToken, Returns, TypeOK
  <2> QED BY <1>9, <2>1, <2>2, <2>3, <2>4 DEF Disconnecting
<1>10. CASE Fails(t)
  BY <1>0, <1>6, <1>10 DEF Fails, Returns, TypeOK
<1>11. CASE \E u \in Callers : u # t /\ (Linking(u) \/ Syncing(u) \/ Disconnecting(u) \/ Fails(u))
  BY <1>0, <1>4, <1>11, OthersStay
<1>12. CASE Environment
  BY <1>4, <1>6, <1>12 DEF Environment, consent, MemberFinishes, SessionExpires, LoginLapses, Crash
<1>13. CASE UNCHANGED vars
  BY <1>4, <1>13 DEF vars
<1> QED BY <1>7, <1>8, <1>9, <1>10, <1>11, <1>12, <1>13 DEF Next

LEMMA CarriedHolds == Spec => []CarriedInv
<1>1. Init => CarriedInv
  BY DEF Init, CarriedInv, Carried, Idle, Finishing
<1>2. ConnectionInv /\ CarriedInv /\ [Next]_vars => CarriedInv'
  BY CarriedStep DEF CarriedInv
<1> QED BY <1>1, <1>2, InvariantHolds, PTL DEF Spec

LEMMA CompletionStep ==
    ASSUME ConnectionInv, CarriedInv, [Next]_vars, NEW s \in Sessions,
           sessions'[s].state = "complete", sessions[s].state # "complete"
    PROVE  Granted /\ latest.id = sessions[s].consent
<1> USE DEF ConnectionInv, database, provider
<1>1. PICK t \in Callers : CompleteRepair(t) \/ CompleteLink(t)
  <2>1. CASE \E t \in Callers : Linking(t)
    <3>1. PICK t \in Callers : Linking(t)
      BY <2>1
    <3>2. CASE CommitLink(t)
      BY <3>2 DEF CommitLink, TypeOK
    <3>3. CASE ClaimSession(t) \/ GiveUp(t)
      <4> DEFINE r == caller[t].session
      <4>1. r \in Sessions
        BY <3>3 DEF ClaimSession, GiveUp, At, TypeOK, Call, Names, Finishing
      <4>2. \A state : [sessions[r] EXCEPT !.state = state].state = state
        BY <4>1 DEF TypeOK, Session
      <4>3. CASE ClaimSession(t)
        <5>1. \E row : row.state = "exchanging" /\ sessions' = [sessions EXCEPT ![r] = row]
          BY <4>2, <4>3 DEF ClaimSession
        <5> QED BY <5>1 DEF TypeOK
      <4>4. CASE GiveUp(t)
        <5>1. sessions[r].state = "exchanging"
          BY <4>1, <4>4 DEF GiveUp, CallHolds, Exchanging
        <5>2. \E row : row.state = "uncertain" /\ sessions' = [sessions EXCEPT ![r] = row]
          BY <4>2, <4>4, <5>1 DEF GiveUp
        <5> QED BY <5>2 DEF TypeOK
      <4> QED BY <3>3, <4>3, <4>4
    <3> QED BY <3>1, <3>2, <3>3 DEF Linking, BeginLink, BeginFinish, Exchange, StoreToken
  <2>2. CASE UNCHANGED sessions
    BY <2>2
  <2>3. CASE \E r \in Sessions : MemberFinishes(r) \/ SessionExpires(r)
    <3>1. PICK r \in Sessions : MemberFinishes(r) \/ SessionExpires(r)
      BY <2>3
    <3>2. /\ [sessions[r] EXCEPT !.finished = TRUE].state = sessions[r].state
          /\ [sessions[r] EXCEPT !.expired = TRUE].state = sessions[r].state
      BY DEF TypeOK, Session
    <3>3. \E row : row.state = sessions[r].state /\ sessions' = [sessions EXCEPT ![r] = row]
      BY <3>1, <3>2 DEF MemberFinishes, SessionExpires
    <3> QED BY <3>3 DEF TypeOK
  <2>4. CASE \E t \in Callers : Syncing(t) \/ Disconnecting(t) \/ Fails(t)
    BY <2>2, <2>4 DEF Syncing, BeginSync, SyncPage, CommitWindow, Refused, Disconnecting, BeginDisconnect,
           MarkRemoving, Revoke, FinishRemoval, RemovalUncertain, ForgetToken, Fails
  <2> QED BY <2>1, <2>2, <2>3, <2>4 DEF Next, Environment, consent, LoginLapses, Crash, vars
<1>2. caller[t].session \in Sessions /\ caller[t].pc \in Finishing
  BY <1>1 DEF CompleteRepair, CompleteLink, At, TypeOK, Call, Names, Finishing
<1>3. caller[t].session = s
  BY <1>1, <1>2 DEF CompleteRepair, CompleteLink, TypeOK
<1> QED BY <1>1, <1>2, <1>3 DEF CompleteRepair, CompleteLink, ConsentHolds, GrantedBy, CarriedInv, Carried

(* A connection is created or repaired only while the consent stands that its   *)
(* Link session was started with.                                               *)
THEOREM ActivationsConsented == Spec => ActivatedUnderConsent
<1>1. ConnectionInv /\ CarriedInv /\ [Next]_vars =>
          [\A s \in Sessions :
               /\ sessions'[s].state = "complete"
               /\ sessions[s].state # "complete"
               => Granted /\ latest.id = sessions[s].consent]_vars
  BY CompletionStep
<1> QED BY <1>1, InvariantHolds, CarriedHolds, PTL DEF Spec, ActivatedUnderConsent

-----------------------------------------------------------------------------
(* Windows *)

(* The windows of one row follow each other up to the row's cursor.             *)
Chain(w, row) ==
    /\ \A i \in 1..Len(w) :
          /\ w[i].from = (IF i = 1 THEN 0 ELSE w[i - 1].to)
          /\ w[i].generation <= row.generation
          /\ i > 1 => w[i].generation > w[i - 1].generation
    /\ row.cursor = (IF w = <<>> THEN 0 ELSE w[Len(w)].to)

LEMMA ChainLater ==
    ASSUME NEW w \in Seq(Window), NEW row \in Connection, NEW new \in Connection, Chain(w, row),
           new.cursor = row.cursor, new.generation >= row.generation
    PROVE  Chain(w, new)
<1>1. \A i \in 1..Len(w) : w[i].generation \in Nat
  <2>1. \A i \in 1..Len(w) : w[i] \in Window
    OBVIOUS
  <2> QED BY <2>1 DEF Window
<1>2. row.generation \in Nat /\ new.generation \in Nat
  BY DEF Connection
<1>3. ASSUME NEW i \in 1..Len(w)
      PROVE  w[i].generation <= new.generation
  <2>1. w[i].generation <= row.generation
    BY DEF Chain
  <2> QED BY <1>1, <1>2, <2>1
<1> QED BY <1>3 DEF Chain

LEMMA ChainGrows ==
    ASSUME NEW w \in Seq(Window), NEW row \in Connection, NEW new \in Nat, Chain(w, row)
    PROVE  Chain(Append(w, [generation |-> row.generation + 1, from |-> row.cursor, to |-> new]),
                 Advanced(row, new))
<1> DEFINE window == [generation |-> row.generation + 1, from |-> row.cursor, to |-> new]
           longer == Append(w, window)
<1>1. row.generation \in Nat /\ row.cursor \in Nat
  BY DEF Connection
<1>2. Advanced(row, new).generation = row.generation + 1 /\ Advanced(row, new).cursor = new
  BY DEF Advanced, Connection
<1>3. /\ Len(longer) = Len(w) + 1 /\ longer # <<>>
      /\ longer[Len(w) + 1] = window
      /\ \A i \in 1..Len(w) : longer[i] = w[i] /\ w[i].generation \in Nat
  <2>1. window \in Window
    BY <1>1 DEF Window
  <2> HIDE DEF window
  <2>2. longer \in Seq(Window) /\ Len(longer) = Len(w) + 1 /\ longer[Len(w) + 1] = window
    BY <2>1
  <2>3. \A i \in 1..Len(w) : longer[i] = w[i] /\ w[i] \in Window
    BY <2>1
  <2>4. longer # <<>>
    BY <2>2
  <2> QED BY <2>2, <2>3, <2>4 DEF Window
<1>4. ASSUME NEW i \in 1..Len(longer)
      PROVE  /\ longer[i].from = (IF i = 1 THEN 0 ELSE longer[i - 1].to)
             /\ longer[i].generation <= row.generation + 1
             /\ i > 1 => longer[i].generation > longer[i - 1].generation
  <2>1. CASE i \in 1..Len(w)
    <3>1. /\ w[i].from = (IF i = 1 THEN 0 ELSE w[i - 1].to)
          /\ w[i].generation <= row.generation
          /\ i > 1 => w[i].generation > w[i - 1].generation
      BY <2>1 DEF Chain
    <3>2. longer[i] = w[i] /\ (i # 1 => longer[i - 1] = w[i - 1])
      BY <1>3, <2>1
    <3>3. w[i].generation \in Nat
      BY <1>3, <2>1
    <3> HIDE DEF longer
    <3> QED BY <1>1, <3>1, <3>2, <3>3
  <2>2. CASE i = Len(w) + 1
    <3>1. longer[i].from = row.cursor /\ longer[i].generation = row.generation + 1
      BY <1>3, <2>2
    <3>2. CASE w = <<>>
      BY <1>1, <2>2, <3>1, <3>2 DEF Chain
    <3>3. CASE w # <<>>
      <4>1. Len(w) \in 1..Len(w) /\ i - 1 = Len(w) /\ i # 1
        BY <2>2, <3>3
      <4>2. w[Len(w)].generation <= row.generation /\ row.cursor = w[Len(w)].to
        BY <3>3, <4>1 DEF Chain
      <4>3. longer[i - 1] = w[Len(w)] /\ w[Len(w)].generation \in Nat
        BY <1>3, <4>1
      <4> HIDE DEF longer
      <4> QED BY <1>1, <3>1, <4>1, <4>2, <4>3
    <3> QED BY <3>2, <3>3
  <2>3. i \in 1..Len(w) \/ i = Len(w) + 1
    BY <1>3
  <2> QED BY <2>1, <2>2, <2>3
<1>5. longer[Len(longer)].to = new
  BY <1>3
<1> HIDE DEF longer
<1>6. Chain(longer, Advanced(row, new))
  BY <1>2, <1>3, <1>4, <1>5 DEF Chain
<1> QED BY <1>6 DEF longer

LEMMA ChainStep ==
    ASSUME ConnectionInv, ConnectionInv', [Next]_vars, NEW c \in Sessions,
           Chain(windows[c], connections[c])
    PROVE  Chain(windows[c], connections[c])'
<1> USE DEF ConnectionInv, database, provider
<1>1. /\ windows[c] \in Seq(Window) /\ connections[c] \in Connection /\ connections'[c] \in Connection
      /\ connections[c].generation \in Nat
  BY DEF TypeOK, Connection
<1>2. CASE /\ windows'[c] = windows[c] /\ connections'[c].cursor = connections[c].cursor
           /\ connections'[c].generation >= connections[c].generation
  BY <1>1, <1>2, ChainLater
<1>3. CASE UNCHANGED <<windows, connections>>
  BY <1>3
<1>4. \A state :
          /\ Moved(connections[c], state).cursor = connections[c].cursor
          /\ Moved(connections[c], state).generation = connections[c].generation + 1
          /\ [connections[c] EXCEPT !.state = state].cursor = connections[c].cursor
          /\ [connections[c] EXCEPT !.state = state].generation = connections[c].generation
  BY <1>1 DEF Moved, Connection
<1>5. CASE /\ UNCHANGED windows
           /\ \E d \in Sessions : \E state :
                 \/ connections' = [connections EXCEPT ![d] = Moved(@, state)]
                 \/ SetState(d, state)
  <2>1. PICK d \in Sessions : \E state : \/ connections' = [connections EXCEPT ![d] = Moved(@, state)]
                                        \/ SetState(d, state)
    BY <1>5
  <2>2. PICK state : \/ connections' = [connections EXCEPT ![d] = Moved(@, state)]
                     \/ SetState(d, state)
    BY <2>1
  <2>3. CASE d # c
    BY <1>1, <1>2, <1>5, <2>2, <2>3 DEF SetState, TypeOK
  <2>4. CASE d = c
    <3>1. connections'[c] \in {Moved(connections[c], state), [connections[c] EXCEPT !.state = state]}
      BY <2>2, <2>4 DEF SetState, TypeOK
    <3>2. /\ connections'[c].cursor = connections[c].cursor
          /\ connections'[c].generation \in {connections[c].generation, connections[c].generation + 1}
      BY <1>4, <3>1
    <3> QED BY <1>1, <1>2, <1>5, <3>2
  <2> QED BY <2>3, <2>4
<1>6. CASE \E t \in Callers : CommitWindow(t)
  <2>1. PICK t \in Callers : CommitWindow(t)
    BY <1>6
  <2> DEFINE d == caller[t].connection
             row == connections[d]
             new == caller[t].position
             window == [generation |-> row.generation + 1, from |-> row.cursor, to |-> new]
  <2>2. d \in Sessions /\ new \in Nat
    BY <2>1 DEF CommitWindow, At, TypeOK, Call, Names, Tending
  <2>3. /\ windows' = [windows EXCEPT ![d] = Append(windows[d], window)]
        /\ connections' = [connections EXCEPT ![d] = Advanced(connections[d], new)]
    BY <2>1 DEF CommitWindow, AddWindow
  <2>4. CASE d = c
    <3>1. /\ windows'[c] = Append(windows[c], window)
          /\ connections'[c] = Advanced(connections[c], new)
      BY <2>2, <2>3, <2>4 DEF TypeOK
    <3> QED BY <1>1, <2>2, <2>4, <3>1, ChainGrows
  <2>5. CASE d # c
    BY <1>1, <1>2, <2>3, <2>5 DEF TypeOK
  <2> QED BY <2>4, <2>5
<1>7. CASE \E t \in Callers : CompleteLink(t)
  <2>1. PICK t \in Callers : CompleteLink(t)
    BY <1>7
  <2>2. /\ connections' = [connections EXCEPT ![caller[t].session] =
                              [NoConnection EXCEPT !.state = "active"]]
        /\ UNCHANGED windows
    BY <2>1 DEF CompleteLink
  <2>3. CASE caller[t].session = c
    <3>1. windows'[c] = <<>>
      BY <2>1, <2>2, <2>3 DEF CompleteLink, At, CallHolds, Exchanging, RowHolds
    <3>2. connections'[c].cursor = 0
      BY <2>2, <2>3 DEF TypeOK, NoConnection
    <3> QED BY <3>1, <3>2 DEF Chain
  <2>4. CASE caller[t].session # c
    BY <1>1, <1>2, <2>2, <2>4 DEF TypeOK
  <2> QED BY <2>3, <2>4
<1>8. CASE \E t \in Callers : Linking(t)
  <2>1. PICK t \in Callers : Linking(t)
    BY <1>8
  <2>2. CASE CompleteRepair(t)
    <3>1. caller[t].connection \in Sessions
      BY <2>2 DEF CompleteRepair, TypeOK, Call
    <3> QED BY <1>5, <2>2, <3>1 DEF CompleteRepair
  <2> QED BY <1>3, <1>7, <2>1, <2>2 DEF Linking, BeginLink, CommitLink, BeginFinish, ClaimSession,
             Exchange, StoreToken, GiveUp
<1>9. CASE \E t \in Callers : Syncing(t)
  <2>1. PICK t \in Callers : Syncing(t)
    BY <1>9
  <2>2. CASE Refused(t)
    <3>1. caller[t].connection \in Sessions
      BY <2>2 DEF Refused, At, TypeOK, Call, Names, Tending
    <3> QED BY <1>3, <1>5, <2>2, <3>1 DEF Refused, NeedRepair
  <2> QED BY <1>3, <1>6, <2>1, <2>2 DEF Syncing, BeginSync, SyncPage
<1>10. CASE \E t \in Callers : Disconnecting(t)
  <2>1. PICK t \in Callers : Disconnecting(t)
    BY <1>10
  <2>2. CASE MarkRemoving(t) \/ FinishRemoval(t) \/ RemovalUncertain(t)
    <3>1. caller[t].connection \in Sessions
      BY <2>2 DEF MarkRemoving, FinishRemoval, RemovalUncertain, At, TypeOK, Call, Names, Tending
    <3> QED BY <1>5, <2>2, <3>1 DEF MarkRemoving, FinishRemoval, RemovalUncertain
  <2> QED BY <1>3, <2>1, <2>2 DEF Disconnecting, BeginDisconnect, Revoke, ForgetToken
<1>11. CASE (\E t \in Callers : Fails(t)) \/ Environment \/ UNCHANGED vars
  BY <1>3, <1>11 DEF Fails, Environment, consent, MemberFinishes, SessionExpires, LoginLapses, Crash, vars
<1> QED BY <1>8, <1>9, <1>10, <1>11 DEF Next

(* However syncs, repairs and disconnects interleave, the windows of a          *)
(* connection neither skip nor repeat a record of the provider.                 *)
THEOREM WindowsFollow == Spec => []WindowsChain
<1> DEFINE Chains == \A c \in Sessions : Chain(windows[c], connections[c])
<1>1. Init => Chains
  BY DEF Init, Chain, NoConnection
<1>2. ConnectionInv /\ Chains /\ [Next]_vars => Chains'
  BY StepInv, ChainStep
<1>3. Chains => WindowsChain
  BY DEF Chain, WindowsChain
<1> HIDE DEF Chains
<1> QED BY <1>1, <1>2, <1>3, InvariantHolds, PTL DEF Spec

-----------------------------------------------------------------------------
(* Refusals *)

\* The member has renewed the login of c in a session that no call has claimed yet.
Renewed(c) == \E s \in Sessions : /\ sessions[s].repairs = c
                                  /\ sessions[s].state = "pending"
                                  /\ sessions[s].finished

(* A refusal on its way to the row is still true, or the row has moved on.      *)
RefusalHolds(t) ==
    LET c == caller[t].connection
        seen == caller[t].seen IN
    /\ caller[t].pc = "syncing" => seen.state = "active"
    /\ caller[t].pc = "refused" =>
          /\ connections[c].state # "none"
          /\ seen.generation <= connections[c].generation
          /\ connections[c].state = "active" /\ connections[c].generation = seen.generation
                 => c \in lapsed \/ Renewed(c)

RefusalInv == \A t \in Callers : RefusalHolds(t)

(* A renewed login of an active connection stays renewed: a repair is claimed   *)
(* only for a row that needs it.                                                *)
LEMMA RenewalStep ==
    ASSUME ConnectionInv, CarriedInv, [Next]_vars, NEW c \in Sessions,
           connections[c].state = "active", c \in lapsed \/ Renewed(c)
    PROVE  c \in lapsed' \/ Renewed(c)'
<1> USE DEF ConnectionInv, database, provider
<1>1. CASE Renewed(c)
  <2>1. PICK s \in Sessions : /\ sessions[s].repairs = c
                             /\ sessions[s].state = "pending"
                             /\ sessions[s].finished
    BY <1>1 DEF Renewed
  <2>2. ASSUME NEW t \in Callers, caller[t].session = s, ClaimSession(t)
        PROVE  FALSE
    <3>1. caller[t].connection = c /\ c # 0
      BY <2>1, <2>2 DEF ClaimSession, At, CarriedInv, Carried, Finishing, Sessions
    <3> QED BY <2>2, <3>1 DEF ClaimSession, At, Unchanged, CallHolds
  <2> QED BY <2>1, <2>2, SessionKeeps DEF Renewed
<1>2. CASE lapsed \subseteq lapsed' /\ c \in lapsed
  BY <1>2
<1>3. CASE \E s \in Sessions : MemberFinishes(s)
  <2>1. PICK s \in Sessions : MemberFinishes(s)
    BY <1>3
  <2>2. CASE sessions[s].repairs = c
    <3>1. /\ [sessions[s] EXCEPT !.finished = TRUE].state = "pending"
          /\ [sessions[s] EXCEPT !.finished = TRUE].repairs = c
          /\ [sessions[s] EXCEPT !.finished = TRUE].finished
      BY <2>1, <2>2 DEF MemberFinishes, TypeOK, Session
    <3> QED BY <2>1, <3>1 DEF MemberFinishes, Renewed, TypeOK
  <2>3. CASE sessions[s].repairs # c
    BY <1>1, <2>1, <2>3 DEF MemberFinishes
  <2> QED BY <2>2, <2>3
<1>4. CASE \E t \in Callers : Linking(t) \/ Syncing(t) \/ Disconnecting(t) \/ Fails(t)
  <2>1. PICK t \in Callers : Linking(t) \/ Syncing(t) \/ Disconnecting(t) \/ Fails(t)
    BY <1>4
  <2>2. CASE Linking(t)
    BY <1>1, <1>2, <2>2 DEF Linking, BeginLink, CommitLink, BeginFinish, ClaimSession, CompleteRepair,
           Exchange, StoreToken, CompleteLink, GiveUp
  <2>3. CASE Syncing(t)
    BY <1>1, <1>2, <2>3 DEF Syncing, BeginSync, SyncPage, CommitWindow, Refused
  <2>4. CASE Disconnecting(t)
    BY <1>1, <1>2, <2>4 DEF Disconnecting, BeginDisconnect, MarkRemoving, Revoke, FinishRemoval,
           RemovalUncertain, ForgetToken
  <2>5. CASE Fails(t)
    BY <1>1, <1>2, <2>5 DEF Fails
  <2> QED BY <2>1, <2>2, <2>3, <2>4, <2>5
<1>5. CASE (\E granted \in BOOLEAN : consent(granted)) \/ (\E s \in Sessions : SessionExpires(s))
           \/ (\E d \in Sessions : LoginLapses(d)) \/ Crash \/ UNCHANGED vars
  BY <1>1, <1>2, <1>5 DEF consent, SessionExpires, LoginLapses, Crash, vars
<1> QED BY <1>3, <1>4, <1>5 DEF Next, Environment

(* A row's generation never goes back, and grows when the row becomes active.   *)
LEMMA GenerationStep ==
    ASSUME ConnectionInv, ConnectionInv', [Next]_vars, NEW c \in Sessions,
           connections[c].state # "none"
    PROVE  /\ connections'[c].state # "none"
           /\ connections'[c].generation >= connections[c].generation
           /\ connections'[c].state = "active" /\ connections'[c].generation = connections[c].generation
                  => connections[c].state = "active"
<1> USE DEF ConnectionInv, database, provider
<1>1. connections[c] \in Connection /\ connections[c].generation \in Nat
  BY DEF TypeOK, Connection
<1>2. CASE connections'[c] = connections[c]
  BY <1>1, <1>2
<1>3. CASE /\ connections'[c].generation = connections[c].generation + 1
           /\ connections'[c].state # "none"
  BY <1>1, <1>3
<1>4. CASE /\ connections'[c].generation = connections[c].generation
           /\ connections'[c].state \in {"removed", "remove_uncertain"}
  BY <1>1, <1>4
<1>5. \A state, n :
          /\ Moved(connections[c], state).state = state
          /\ Moved(connections[c], state).generation = connections[c].generation + 1
          /\ Advanced(connections[c], n).generation = connections[c].generation + 1
          /\ Advanced(connections[c], n).state = connections[c].state
          /\ [connections[c] EXCEPT !.state = state].state = state
          /\ [connections[c] EXCEPT !.state = state].generation = connections[c].generation
  BY <1>1 DEF Moved, Advanced, Connection
<1>6. CASE \E d \in Sessions : connections' \in
               {[connections EXCEPT ![d] = Moved(connections[d], state)] :
                   state \in {"active", "needs_repair", "removing"}}
  BY <1>1, <1>2, <1>3, <1>5, <1>6 DEF TypeOK
<1>7. CASE \E d \in Sessions, state \in {"removed", "remove_uncertain"} : SetState(d, state)
  BY <1>1, <1>2, <1>4, <1>5, <1>7 DEF SetState, TypeOK
<1>8. CASE \E d \in Sessions, n \in Nat : connections' = [connections EXCEPT ![d] = Advanced(connections[d], n)]
  BY <1>1, <1>2, <1>3, <1>5, <1>8 DEF TypeOK
<1>9. CASE \E t \in Callers : Linking(t)
  <2>1. PICK t \in Callers : Linking(t)
    BY <1>9
  <2>2. CASE CompleteRepair(t)
    <3>1. caller[t].connection \in Sessions
      BY <2>2 DEF CompleteRepair, TypeOK, Call
    <3> QED BY <1>6, <2>2, <3>1 DEF CompleteRepair
  <2>3. CASE CompleteLink(t)
    <3>1. caller[t].session \in Sessions
      BY <2>3 DEF CompleteLink, At, TypeOK, Call, Names, Finishing
    <3>2. connections[caller[t].session].state = "none"
      BY <2>3, <3>1 DEF CompleteLink, At, CallHolds, Exchanging, RowHolds, NoConnection
    <3> QED BY <1>2, <2>3, <3>1, <3>2 DEF CompleteLink, TypeOK
  <2> QED BY <1>2, <2>1, <2>2, <2>3 DEF Linking, BeginLink, CommitLink, BeginFinish, ClaimSession,
             Exchange, StoreToken, GiveUp
<1>10. CASE \E t \in Callers : Syncing(t)
  <2>1. PICK t \in Callers : Syncing(t)
    BY <1>10
  <2>2. CASE CommitWindow(t)
    <3>1. caller[t].connection \in Sessions /\ caller[t].position \in Nat
      BY <2>2 DEF CommitWindow, At, TypeOK, Call, Names, Tending
    <3> QED BY <1>8, <2>2, <3>1 DEF CommitWindow, AddWindow
  <2>3. CASE Refused(t)
    <3>1. caller[t].connection \in Sessions
      BY <2>3 DEF Refused, At, TypeOK, Call, Names, Tending
    <3> QED BY <1>2, <1>6, <2>3, <3>1 DEF Refused, NeedRepair
  <2> QED BY <1>2, <2>1, <2>2, <2>3 DEF Syncing, BeginSync, SyncPage
<1>11. CASE \E t \in Callers : Disconnecting(t)
  <2>1. PICK t \in Callers : Disconnecting(t)
    BY <1>11
  <2>2. CASE MarkRemoving(t) \/ FinishRemoval(t) \/ RemovalUncertain(t)
    <3>1. caller[t].connection \in Sessions
      BY <2>2 DEF MarkRemoving, FinishRemoval, RemovalUncertain, At, TypeOK, Call, Names, Tending
    <3> QED BY <1>6, <1>7, <2>2, <3>1 DEF MarkRemoving, FinishRemoval, RemovalUncertain
  <2> QED BY <1>2, <2>1, <2>2 DEF Disconnecting, BeginDisconnect, Revoke, ForgetToken
<1>12. CASE (\E t \in Callers : Fails(t)) \/ Environment \/ UNCHANGED vars
  BY <1>2, <1>12 DEF Fails, Environment, consent, MemberFinishes, SessionExpires, LoginLapses, Crash, vars
<1> QED BY <1>9, <1>10, <1>11, <1>12 DEF Next

LEMMA RefusalStep ==
    ASSUME ConnectionInv, ConnectionInv', CarriedInv, RefusalInv, [Next]_vars, NEW t \in Callers
    PROVE  RefusalHolds(t)'
<1> USE DEF database, provider
<1>0. TypeOK
  BY DEF ConnectionInv
<1>1. CASE caller'[t].pc \notin {"syncing", "refused"}
  BY <1>1 DEF RefusalHolds
<1>2. CASE caller'[t] = caller[t]
  <2> DEFINE c == caller[t].connection
             seen == caller[t].seen
  <2>1. CASE caller[t].pc = "refused"
    <3>1. /\ c \in Sessions /\ seen.generation \in Nat
          /\ connections[c].generation \in Nat /\ connections'[c].generation \in Nat
      BY <1>0, <2>1 DEF TypeOK, Call, Names, Tending, Connection, ConnectionInv
    <3>2. /\ connections[c].state # "none" /\ seen.generation <= connections[c].generation
          /\ connections[c].state = "active" /\ connections[c].generation = seen.generation
                 => c \in lapsed \/ Renewed(c)
      BY <2>1 DEF RefusalInv, RefusalHolds
    <3>3. /\ connections'[c].state # "none" /\ connections'[c].generation >= connections[c].generation
          /\ connections'[c].state = "active" /\ connections'[c].generation = connections[c].generation
                 => connections[c].state = "active"
      BY <3>1, <3>2, GenerationStep
    <3>4. seen.generation <= connections'[c].generation
      BY <3>1, <3>2, <3>3
    <3>5. PICK d \in Sessions : d = c
      BY <3>1
    <3>6. ASSUME connections'[d].state = "active", connections'[d].generation = seen.generation
          PROVE  d \in lapsed' \/ Renewed(d)'
      <4>1. connections[d].generation = seen.generation /\ connections[d].state = "active"
        BY <3>1, <3>2, <3>3, <3>5, <3>6
      <4>2. d \in lapsed \/ Renewed(d)
        BY <3>2, <3>5, <4>1
      <4> QED BY <4>1, <4>2, RenewalStep
    <3> QED BY <1>2, <2>1, <3>3, <3>4, <3>5, <3>6 DEF RefusalHolds, Renewed
  <2> QED BY <1>2, <2>1 DEF RefusalInv, RefusalHolds
<1>3. CASE \E c \in Synced : BeginSync(t, c)
  <2>1. /\ caller'[t].pc = "syncing" /\ caller'[t].seen.state = "active"
    BY <1>0, <1>3, ReadsCall, SyncedAssumption DEF BeginSync, Sessions
  <2> QED BY <2>1 DEF RefusalHolds
<1>4. CASE SyncPage(t)
  <2> DEFINE c == caller[t].connection
  <2>1. /\ caller[t].seen.state = "active" /\ connections[c] = caller[t].seen
        /\ UNCHANGED <<connections, lapsed, sessions>>
    BY <1>4 DEF SyncPage, At, Unchanged, RefusalInv, RefusalHolds
  <2>2. CASE c \in lapsed /\ Goes(t, "refused")
    <3>1. /\ caller'[t].pc = "refused" /\ caller'[t].connection = c
          /\ caller'[t].seen = caller[t].seen
      BY <1>0, <2>2 DEF Goes, TypeOK, Call
    <3>2. connections[c].generation \in Nat
      BY <1>0, <2>1 DEF TypeOK, Call, Connection
    <3> QED BY <2>1, <2>2, <3>1, <3>2 DEF RefusalHolds
  <2>3. CASE Goes(t, "fetched")
    BY <1>0, <1>1, <2>3 DEF Goes, TypeOK, Call
  <2>4. CASE \E pc \in {"syncing", "fetched"} :
                 caller' = [caller EXCEPT ![t] = [@ EXCEPT !.position = caller[t].position + 1,
                                                           !.pc = pc]]
    <3>1. PICK pc \in {"syncing", "fetched"} :
              caller' = [caller EXCEPT ![t] = [@ EXCEPT !.position = caller[t].position + 1,
                                                        !.pc = pc]]
      BY <2>4
    <3> DEFINE call == [caller[t] EXCEPT !.position = caller[t].position + 1, !.pc = pc]
    <3>2. call.pc = pc /\ call.seen = caller[t].seen
      BY <1>0 DEF TypeOK, Call
    <3>3. caller' = [caller EXCEPT ![t] = call]
      BY <3>1
    <3> HIDE DEF call
    <3>4. caller'[t] = call
      BY <1>0, <3>3 DEF TypeOK
    <3> QED BY <2>1, <3>2, <3>4 DEF RefusalHolds
  <2> QED BY <1>4, <2>2, <2>3, <2>4 DEF SyncPage
<1>5. CASE caller'[t] = Idle
  BY <1>1, <1>5 DEF Idle
<1>6. CASE \E pc \in Positions \ {"syncing", "refused"} : Goes(t, pc)
  BY <1>0, <1>1, <1>6 DEF Goes, TypeOK, Call
<1>7. CASE Linking(t)
  <2>1. CASE \E c \in Sessions \cup {0} : BeginLink(t, c)
    <3>1. caller'[t].pc = "linking"
      BY <1>0, <2>1 DEF BeginLink, TypeOK, Idle
    <3> QED BY <1>1, <3>1
  <2>2. CASE \E s \in Sessions : BeginFinish(t, s)
    <3>1. caller'[t].pc = "verifying"
      BY <1>0, <2>2 DEF BeginFinish, TypeOK, Idle
    <3> QED BY <1>1, <3>1
  <2>3. CASE ClaimSession(t) \/ Exchange(t) \/ StoreToken(t)
    BY <1>6, <2>3 DEF ClaimSession, Exchange, StoreToken, Positions, Finishing
  <2>4. CASE CommitLink(t) \/ CompleteRepair(t) \/ CompleteLink(t) \/ GiveUp(t)
    BY <1>0, <1>5, <2>4 DEF CommitLink, CompleteRepair, CompleteLink, GiveUp, Returns, TypeOK
  <2> QED BY <1>7, <2>1, <2>2, <2>3, <2>4 DEF Linking
<1>8. CASE Syncing(t)
  <2>1. CASE CommitWindow(t) \/ Refused(t)
    BY <1>0, <1>5, <2>1 DEF CommitWindow, Refused, Returns, TypeOK
  <2> QED BY <1>3, <1>4, <1>8, <2>1 DEF Syncing
<1>9. CASE Disconnecting(t)
  <2>1. CASE \E c \in Sessions : BeginDisconnect(t, c)
    BY <1>0, <1>1, <2>1, ReadsCall DEF BeginDisconnect
  <2>2. CASE MarkRemoving(t)
    <3>1. caller'[t].pc = "removing"
      BY <1>0, <2>2 DEF MarkRemoving, TypeOK, Call
    <3> QED BY <1>1, <3>1
  <2>3. CASE Revoke(t) \/ FinishRemoval(t)
    BY <1>6, <2>3 DEF Revoke, FinishRemoval, Positions, Tending
  <2>4. CASE RemovalUncertain(t) \/ ForgetToken(t)
    BY <1>0, <1>5, <2>4 DEF RemovalUncertain, ForgetToken, Returns, TypeOK
  <2> QED BY <1>9, <2>1, <2>2, <2>3, <2>4 DEF Disconnecting
<1>10. CASE Fails(t)
  BY <1>0, <1>5, <1>10 DEF Fails, Returns, TypeOK
<1>11. CASE \E u \in Callers : u # t /\ (Linking(u) \/ Syncing(u) \/ Disconnecting(u) \/ Fails(u))
  BY <1>0, <1>2, <1>11, OthersStay
<1>12. CASE Environment
  BY <1>2, <1>5, <1>12 DEF Environment, consent, MemberFinishes, SessionExpires, LoginLapses, Crash
<1>13. CASE UNCHANGED vars
  BY <1>2, <1>13 DEF vars
<1> QED BY <1>7, <1>8, <1>9, <1>10, <1>11, <1>12, <1>13 DEF Next

LEMMA RefusalsHold == Spec => []RefusalInv
<1>1. Init => RefusalInv
  <2>1. Idle.pc = "idle"
    BY DEF Idle
  <2> QED BY <2>1 DEF Init, RefusalInv, RefusalHolds
<1>2. ConnectionInv /\ CarriedInv /\ RefusalInv /\ [Next]_vars => RefusalInv'
  BY StepInv, RefusalStep DEF RefusalInv
<1> QED BY <1>1, <1>2, InvariantHolds, CarriedHolds, PTL DEF Spec

LEMMA RepairStep ==
    ASSUME ConnectionInv, RefusalInv, [Next]_vars, NEW c \in Sessions,
           connections[c].state = "active", connections'[c].state = "needs_repair"
    PROVE  c \in lapsed \/ Renewed(c)
<1> USE DEF ConnectionInv, database, provider
<1>1. PICK t \in Callers : Refused(t)
  <2>1. CASE connections'[c] = connections[c]
    BY <2>1
  <2>2. \A state, n :
            /\ Moved(connections[c], state).state = state
            /\ Advanced(connections[c], n).state = connections[c].state
            /\ [connections[c] EXCEPT !.state = state].state = state
    BY DEF TypeOK, Moved, Advanced, Connection
  <2>3. CASE \E t \in Callers : Linking(t)
    <3>1. PICK t \in Callers : Linking(t)
      BY <2>3
    <3>2. CASE CompleteRepair(t)
      BY <2>2, <3>2 DEF CompleteRepair, TypeOK
    <3>3. CASE CompleteLink(t)
      BY <2>1, <3>3 DEF CompleteLink, TypeOK, NoConnection
    <3> QED BY <2>1, <3>1, <3>2, <3>3 DEF Linking, BeginLink, CommitLink, BeginFinish, ClaimSession,
               Exchange, StoreToken, GiveUp
  <2>4. CASE \E t \in Callers : Syncing(t)
    <3>1. PICK t \in Callers : Syncing(t)
      BY <2>4
    <3>2. CASE CommitWindow(t)
      BY <2>2, <3>2 DEF CommitWindow, AddWindow, TypeOK
    <3> QED BY <2>1, <3>1, <3>2 DEF Syncing, BeginSync, SyncPage
  <2>5. CASE \E t \in Callers : Disconnecting(t)
    <3>1. PICK t \in Callers : Disconnecting(t)
      BY <2>5
    <3>2. CASE MarkRemoving(t)
      BY <2>2, <3>2 DEF MarkRemoving, TypeOK
    <3>3. CASE FinishRemoval(t) \/ RemovalUncertain(t)
      <4>1. \E d, state : state # "needs_repair" /\ connections' = [connections EXCEPT ![d].state = state]
        BY <3>3 DEF FinishRemoval, RemovalUncertain, SetState
      <4> QED BY <2>2, <4>1 DEF TypeOK
    <3> QED BY <2>1, <3>1, <3>2, <3>3 DEF Disconnecting, BeginDisconnect, Revoke, ForgetToken
  <2>6. CASE (\E t \in Callers : Fails(t)) \/ Environment \/ UNCHANGED vars
    BY <2>1, <2>6 DEF Fails, Environment, consent, MemberFinishes, SessionExpires, LoginLapses, Crash, vars
  <2> QED BY <2>3, <2>4, <2>5, <2>6 DEF Next
<1>2. /\ caller[t].connection = c
      /\ connections[c].generation = caller[t].seen.generation
  BY <1>1 DEF Refused, NeedRepair, TypeOK
<1> QED BY <1>1, <1>2 DEF Refused, At, RefusalInv, RefusalHolds

(* A refusal that reaches the connection after the login was renewed and taken  *)
(* over does not ask for a second repair.                                       *)
THEOREM RepairsLast == Spec => RepairNotUndone
<1>1. ConnectionInv /\ RefusalInv /\ [Next]_vars =>
          [\A c \in Sessions :
               /\ connections[c].state = "active"
               /\ connections'[c].state = "needs_repair"
               => \/ c \in lapsed
                  \/ \E s \in Sessions : /\ sessions[s].repairs = c
                                         /\ sessions[s].state = "pending"
                                         /\ sessions[s].finished]_vars
  BY RepairStep DEF Renewed
<1> QED BY <1>1, InvariantHolds, RefusalsHold, PTL DEF Spec, RepairNotUndone

-----------------------------------------------------------------------------
(* The results together *)

(* Whatever calls interleave, crash and lose their answers, the tables, the   *)
(* private store and the provider fit each other.                             *)
THEOREM ConnectionsHold == Spec => []ConnectionHolds
<1>1. TypeOK /\ ExchangedOnce /\ TokenKept /\ RemovedIsRevoked /\ WindowsChain => ConnectionHolds
  BY DEF ConnectionHolds
<1> QED BY <1>1, ConnectionTypeCorrect, ExchangedAtMostOnce, TokensKept, RemovalsRevoke,
           WindowsFollow, PTL

(* No late answer undoes a revocation, a withdrawal of consent or a repair.   *)
THEOREM LateAnswersAreHarmless == Spec => LateAnswersHarmless
<1> QED BY RevocationsFinal, ActivationsConsented, RepairsLast, PTL DEF LateAnswersHarmless

-----------------------------------------------------------------------------
(* BankFeed *)

Origins == Subjects \cup Receipts \cup {x.line : x \in Arriving}

Observation == [subject : Subjects, pending : BOOLEAN, amount : Int, day : Int,
                kind : {"added", "modified", "removed"}]
Entry == [account : Accounts, amount : Int, day : Int,
          source : {"bank_feed", "statement", "receipt"}, origin : Origins,
          declared : BOOLEAN, edited : BOOLEAN]
Association == [subject : Subjects, observation : Nat, binding : Nat,
                transaction : Nat, revoked : BOOLEAN]

FeedRows ==
    /\ observations \in Seq(Observation)
    /\ bindings \in Seq(Bindings)
    /\ ledger \in Seq(Entry)
    /\ associations \in Seq(Association)
    /\ current \in [Subjects -> Nat]
    /\ receipts \in [Receipts -> {"absent", "pending", "booked", "attached"}]
    /\ closed \subseteq FeedMonths
    /\ closedAt \in [FeedMonths -> Nat]

(* Rows are named that exist, and a month is closed on what was observed.    *)
NamesExist ==
    /\ \A s \in Subjects : current[s] # 0 =>
          current[s] \in DOMAIN observations /\ observations[current[s]].subject = s
    /\ \A i \in DOMAIN associations :
          /\ associations[i].transaction \in DOMAIN ledger
          /\ associations[i].binding \in DOMAIN bindings
          /\ associations[i].observation \in DOMAIN observations
          /\ observations[associations[i].observation].subject = associations[i].subject
          /\ associations[i].subject \in Subjects /\ current[associations[i].subject] # 0
    /\ \A mo \in FeedMonths : closedAt[mo] <= Len(observations)

BooksOf(t, s) == ledger[t].source = "bank_feed" /\ ledger[t].origin = s

BookedOnce == \A s \in Subjects :
    /\ \A t, u \in DOMAIN ledger : BooksOf(t, s) /\ BooksOf(u, s) => t = u
    /\ \A i, j \in AssociationOf(s) : i = j

(* A subject of an included account that nobody has decided about.           *)
Waits(s) ==
    /\ current[s] # 0 /\ Included(FeedOf[s]) /\ Posted(observations[current[s]])
    /\ AssociationOf(s) = {} /\ <<s, current[s]>> \notin exclusions

(* The feed of a closed month: what waits in it came later.                  *)
ReviewedFeed == \A mo \in closed :
    /\ \A s \in Subjects :
          Waits(s) /\ MonthOfSubject(s) = mo => current[s] > closedAt[mo]
    /\ \A i \in Standing : LET a == associations[i] IN
          \A o \in {a.observation, current[a.subject]} :
             a.observation # current[a.subject] /\ MonthOf[observations[o].day] = mo
                => current[a.subject] > closedAt[mo]

FeedInv ==
    /\ FeedRows
    /\ NamesExist
    /\ BookedOnce
    /\ AcceptedEvidenceStands
    /\ OnePrimary
    /\ ReviewedFeed
    /\ NoSilentTwin

-----------------------------------------------------------------------------
(* Sequences and revisions *)

LEMMA Appended ==
    ASSUME NEW S, NEW q \in Seq(S), NEW e \in S
    PROVE  /\ Append(q, e) \in Seq(S)
           /\ Len(q) \in Nat /\ DOMAIN q = 1..Len(q)
           /\ Len(Append(q, e)) = Len(q) + 1
           /\ DOMAIN Append(q, e) = 1..(Len(q) + 1)
           /\ \A i \in 1..Len(q) : Append(q, e)[i] = q[i]
           /\ Append(q, e)[Len(q) + 1] = e
  OBVIOUS

LEMMA Replaced ==
    ASSUME NEW S, NEW q \in Seq(S), NEW t \in DOMAIN q, NEW e \in S
    PROVE  /\ [q EXCEPT ![t] = e] \in Seq(S)
           /\ Len([q EXCEPT ![t] = e]) = Len(q)
           /\ DOMAIN [q EXCEPT ![t] = e] = DOMAIN q
           /\ [q EXCEPT ![t] = e][t] = e
           /\ \A i \in DOMAIN q : i # t => [q EXCEPT ![t] = e][i] = q[i]
  OBVIOUS

RevisionsOf(q, f) == {i \in DOMAIN q : q[i].feed = f}

(* k is the latest of the revisions of the feed f in q, or there is none.    *)
IsLatest(q, f, k) ==
    \/ RevisionsOf(q, f) = {} /\ k = 0
    \/ k \in RevisionsOf(q, f) /\ \A j \in RevisionsOf(q, f) : j <= k

LatestOf(q, f) == IF RevisionsOf(q, f) = {} THEN 0
                  ELSE CHOOSE i \in RevisionsOf(q, f) : \A j \in RevisionsOf(q, f) : j <= i

LEMMA LatestIsThere ==
    ASSUME NEW q \in Seq(Bindings), NEW f
    PROVE  IsLatest(q, f, LatestOf(q, f))
<1> DEFINE R == RevisionsOf(q, f)
           D == {k \in Nat : \E i \in R : k = Len(q) - i}
<1>1. R \subseteq 1..Len(q) /\ Len(q) \in Nat
  BY DEF RevisionsOf
<1>2. CASE R = {}
  BY <1>2 DEF IsLatest, LatestOf
<1>3. CASE R # {}
  <2>1. D \subseteq Nat /\ D # {}
    <3>1. PICK i \in R : TRUE
      BY <1>3
    <3>2. Len(q) - i \in D
      BY <1>1, <3>1
    <3> QED BY <3>2
  <2>2. PICK k \in D : \A n \in D : ~ (<<n, k>> \in OpToRel(<, Nat))
    BY <2>1, WFMin, NatLessThanWellFounded
  <2>3. \A n \in D : ~(n < k)
    BY <2>1, <2>2 DEF OpToRel
  <2>4. PICK i \in R : k = Len(q) - i
    OBVIOUS
  <2>5. \A j \in R : j <= i
    <3> SUFFICES ASSUME NEW j \in R PROVE j <= i
      OBVIOUS
    <3>1. Len(q) - j \in D
      BY <1>1
    <3> QED BY <1>1, <2>3, <2>4, <3>1
  <2> QED BY <1>3, <2>5 DEF IsLatest, LatestOf
<1> QED BY <1>2, <1>3

LEMMA LatestIsOne ==
    ASSUME NEW q \in Seq(Bindings), NEW f, NEW k, IsLatest(q, f, k)
    PROVE  LatestOf(q, f) = k
<1>1. IsLatest(q, f, LatestOf(q, f))
  BY LatestIsThere
<1>2. RevisionsOf(q, f) \subseteq Nat
  BY DEF RevisionsOf
<1> QED BY <1>1, <1>2 DEF IsLatest

LEMMA BindingIsLatest == \A f : BindingOf(f) = LatestOf(bindings, f)
  BY DEF BindingOf, LatestOf, RevisionsOf

(* The feed's present binding is a revision of it.                           *)
LEMMA BindingIsOfFeed ==
    ASSUME FeedRows, NEW f
    PROVE  /\ BindingOf(f) \in Nat
           /\ BindingOf(f) # 0 => /\ BindingOf(f) \in DOMAIN bindings
                                  /\ bindings[BindingOf(f)] \in Bindings
                                  /\ bindings[BindingOf(f)].feed = f
<1>1. IsLatest(bindings, f, BindingOf(f))
  BY LatestIsThere, BindingIsLatest DEF FeedRows
<1> QED BY <1>1 DEF IsLatest, RevisionsOf, FeedRows

(* A new revision becomes its feed's present one, and no other's.            *)
LEMMA BindingAfter ==
    ASSUME FeedRows, NEW b \in Bindings, bindings' = Append(bindings, b), NEW f
    PROVE  BindingOf(f)' = IF f = b.feed THEN Len(bindings) + 1 ELSE BindingOf(f)
<1>1. IsLatest(bindings, f, BindingOf(f))
  BY LatestIsThere, BindingIsLatest DEF FeedRows
<1>2. /\ bindings' \in Seq(Bindings) /\ Len(bindings) \in Nat
      /\ DOMAIN bindings = 1..Len(bindings)
      /\ DOMAIN bindings' = 1..(Len(bindings) + 1)
      /\ \A i \in 1..Len(bindings) : bindings'[i] = bindings[i]
      /\ bindings'[Len(bindings) + 1] = b
  BY Appended DEF FeedRows
<1>0. BindingOf(f)' = LatestOf(bindings', f)
  BY DEF BindingOf, LatestOf, RevisionsOf
<1>3. CASE f = b.feed
  <2>1. IsLatest(bindings', f, Len(bindings) + 1)
    BY <1>2, <1>3 DEF IsLatest, RevisionsOf
  <2>2. LatestOf(bindings', f) = Len(bindings) + 1
    BY <1>2, <2>1, LatestIsOne
  <2> QED BY <1>0, <1>3, <2>2
<1>4. CASE f # b.feed
  <2>1. RevisionsOf(bindings', f) = RevisionsOf(bindings, f)
    BY <1>2, <1>4 DEF RevisionsOf
  <2>2. IsLatest(bindings', f, BindingOf(f))
    BY <1>1, <2>1 DEF IsLatest
  <2>3. LatestOf(bindings', f) = BindingOf(f)
    BY <1>2, <2>2, LatestIsOne
  <2> QED BY <1>0, <1>4, <2>3
<1> QED BY <1>3, <1>4

-----------------------------------------------------------------------------
(* What a step does to the tables *)

ReceiptStates == [Receipts -> {"absent", "pending", "booked", "attached"}]

(* y, booked after its equal x, is not declared a separate one.              *)
Silent(x, y) ==
    /\ y.source # "statement" /\ ~x.edited /\ ~y.edited /\ ~y.declared
    /\ x.amount = y.amount /\ Near(x.day, y.day)
    /\ \/ y.source = "bank_feed" /\ x.account = y.account
       \/ y.source = "receipt" /\ x.source \in {"bank_feed", "statement"}

(* e is booked as nothing before it was, or says that it is another.         *)
LedgerGrows(e) ==
    /\ ledger' = Append(ledger, e)
    /\ e.source = "bank_feed" =>
          \A t \in DOMAIN ledger : ledger[t].source # "bank_feed" \/ ledger[t].origin # e.origin
    /\ \A i \in DOMAIN ledger : ~Silent(ledger[i], e)

Booked(e) ==
    /\ LedgerGrows(e) /\ receipts' \in ReceiptStates
    /\ UNCHANGED <<observations, current, bindings, associations, exclusions, closed, closedAt>>

(* A transaction that no evidence rests on gets the row e.                   *)
Rewritten(t, e) ==
    /\ ledger' = [ledger EXCEPT ![t] = e]
    /\ e.edited /\ e.source = ledger[t].source /\ e.origin = ledger[t].origin
    /\ Editable(t)
    /\ closed' \subseteq closed
    /\ UNCHANGED <<observations, current, bindings, associations, exclusions, receipts, closedAt>>

(* The operator associates s with t, which agrees with the evidence.         *)
Decided(s, t) ==
    /\ current[s] # 0 /\ AssociationOf(s) = {} /\ Included(FeedOf[s])
    /\ MonthOfSubject(s) \notin closed
    /\ \/ ledger' = ledger /\ t \in DOMAIN ledger
       \/ t = Len(ledger) + 1 /\ \E e \in Entry : LedgerGrows(e)
    /\ Associate(s, t)
    /\ ledger'[t].account = bindings[BindingOf(FeedOf[s])].account
    /\ ledger'[t].amount = observations[current[s]].amount
    /\ Near(ledger'[t].day, observations[current[s]].day)
    /\ UNCHANGED <<observations, current, bindings, exclusions, receipts, closed, closedAt>>

Evident(s, o) ==
    /\ o.subject = s
    /\ observations' = Append(observations, o)
    /\ current' = [current EXCEPT ![s] = Len(observations) + 1]
    /\ UNCHANGED <<bindings, ledger, associations, exclusions, receipts, closed, closedAt>>

Still ==
    /\ receipts' \in ReceiptStates
    /\ UNCHANGED <<observations, current, bindings, ledger, associations, exclusions, closed, closedAt>>

LEMMA ObservationsAreRows ==
    ASSUME FeedInv, NEW s \in Subjects, current[s] # 0
    PROVE  /\ current[s] \in DOMAIN observations
           /\ observations[current[s]] \in Observation
           /\ observations[current[s]].subject = s
  BY DEF FeedInv, FeedRows, NamesExist

LEMMA ObserveIsEvident ==
    ASSUME FeedInv, NEW s \in Subjects, NEW e \in Evidence, Observe(s, e)
    PROVE  \E o \in Observation : Evident(s, o)
<1> DEFINE o == [subject |-> s, pending |-> e.pending, amount |-> e.amount,
                 day |-> e.day, kind |-> IF current[s] = 0 THEN "added" ELSE "modified"]
<1>1. e.pending \in BOOLEAN /\ e.amount \in Int /\ e.day \in Int
  BY FeedAssumption
<1>2. o \in Observation
  BY <1>1 DEF Observation
<1>3. Len(Append(observations, o)) = Len(observations) + 1
  BY <1>2, Appended DEF FeedInv, FeedRows
<1>4. Evident(s, o)
  BY <1>3 DEF Observe, Evident
<1> QED BY <1>2, <1>4

LEMMA RemoveIsEvident ==
    ASSUME FeedInv, NEW s \in Subjects, Remove(s)
    PROVE  \E o \in Observation : Evident(s, o)
<1> DEFINE o == [observations[current[s]] EXCEPT !.kind = "removed"]
<1>1. current[s] # 0
  BY DEF Remove
<1>2. o \in Observation /\ o.subject = s
  BY <1>1, ObservationsAreRows DEF Observation
<1>3. Len(Append(observations, o)) = Len(observations) + 1
  BY <1>2, Appended DEF FeedInv, FeedRows
<1>4. Evident(s, o)
  BY <1>2, <1>3 DEF Remove, Evident
<1> QED BY <1>2, <1>4

LEMMA MatchIsDecided ==
    ASSUME FeedInv, NEW s \in Subjects, NEW t \in DOMAIN ledger, Match(s, t)
    PROVE  Decided(s, t)
<1>1. PICK c \in Plan(s).candidates : c[1] = t
  BY DEF Match
<1>2. Included(FeedOf[s])
  BY DEF Match, Decidable
<1>3. BindingOf(FeedOf[s]) # 0
  BY <1>2 DEF Included
<1> DEFINE b == bindings[BindingOf(FeedOf[s])]
           o == observations[current[s]]
<1>4. c \in {Shown(u) : u \in Candidates(b.account, o.amount, o.day)}
  BY <1>1, <1>3 DEF Plan
<1>5. PICK u \in Candidates(b.account, o.amount, o.day) : c = Shown(u)
  BY <1>4
<1>6. u = t
  BY <1>1, <1>5 DEF Shown
<1>7. ledger[t].account = b.account /\ ledger[t].amount = o.amount /\ Near(ledger[t].day, o.day)
  BY <1>5, <1>6 DEF Candidates
<1> QED BY <1>2, <1>7 DEF Match, Decidable, Decided

LEMMA BookNewIsDecided ==
    ASSUME FeedInv, NEW s \in Subjects, NEW k \in BOOLEAN, BookNew(s, k)
    PROVE  \E t \in Nat : Decided(s, t)
<1> DEFINE b == bindings[BindingOf(FeedOf[s])]
           o == observations[current[s]]
           e == Booking(b.account, o.amount, o.day, "bank_feed", s, k)
<1>1. Included(FeedOf[s]) /\ BindingOf(FeedOf[s]) # 0 /\ current[s] # 0
  BY DEF BookNew, Decidable, Included
<1>2. b \in Bindings /\ b.account \in Accounts
  BY <1>1, BindingIsOfFeed, FeedAssumption DEF FeedInv
<1>3. o \in Observation
  BY <1>1, ObservationsAreRows
<1>4. e \in Entry
  BY <1>2, <1>3 DEF Entry, Booking, Origins, Observation
<1>5. /\ ledger \in Seq(Entry)
      /\ ledger' = Append(ledger, e)
  BY DEF BookNew, FeedInv, FeedRows
<1>6. Len(ledger') = Len(ledger) + 1 /\ Len(ledger) \in Nat /\ ledger'[Len(ledger) + 1] = e
  BY <1>4, <1>5, Appended
<1>7. ASSUME NEW i \in DOMAIN ledger, Silent(ledger[i], e)
      PROVE  FALSE
  <2>1. i \in Candidates(b.account, o.amount, o.day)
    BY <1>7 DEF Silent, Candidates, Booking
  <2>2. Shown(i) \in Plan(s).candidates
    BY <1>1, <2>1 DEF Plan
  <2>3. k
    BY <2>2 DEF BookNew
  <2> QED BY <1>7, <2>3 DEF Silent, Booking
<1>8. \A t \in DOMAIN ledger : ledger[t].source # "bank_feed" \/ ledger[t].origin # e.origin
  BY DEF BookNew, NotBooked, Booking
<1>9. LedgerGrows(e)
  BY <1>5, <1>7, <1>8 DEF LedgerGrows
<1>10. Near(o.day, o.day)
  BY <1>3 DEF Near, Observation
<1>11. Decided(s, Len(ledger) + 1)
  <2>1. Associate(s, Len(ledger) + 1)
    BY <1>6 DEF BookNew
  <2>2. /\ ledger'[Len(ledger) + 1].account = b.account
        /\ ledger'[Len(ledger) + 1].amount = o.amount
        /\ Near(ledger'[Len(ledger) + 1].day, o.day)
    BY <1>6, <1>10 DEF Booking
  <2> QED BY <1>1, <1>4, <1>9, <2>1, <2>2 DEF BookNew, Decidable, Decided
<1> QED BY <1>6, <1>11

(* A receipt is booked where nothing that the bank or a statement knows is   *)
(* its equal, or is declared another.                                        *)
LEMMA ReceiptIsBooked ==
    ASSUME FeedInv, NEW r \in Receipts, NEW a \in Accounts, NEW k \in BOOLEAN,
           ReceiptCandidates(Paper[r].amount, Paper[r].day) # {} => k,
           ledger' = Append(ledger, Booking(a, Paper[r].amount, Paper[r].day, "receipt", r, k)),
           receipts' = [receipts EXCEPT ![r] = "booked"],
           UNCHANGED <<observations, current, bindings, associations, exclusions, closed, closedAt>>
    PROVE  \E e \in Entry : Booked(e)
<1> DEFINE e == Booking(a, Paper[r].amount, Paper[r].day, "receipt", r, k)
<1>1. Paper[r].amount \in Int /\ Paper[r].day \in Int
  BY FeedAssumption
<1>2. e \in Entry
  BY <1>1 DEF Entry, Booking, Origins
<1>3. ASSUME NEW i \in DOMAIN ledger, Silent(ledger[i], e)
      PROVE  FALSE
  <2>1. i \in ReceiptCandidates(Paper[r].amount, Paper[r].day)
    BY <1>3 DEF Silent, ReceiptCandidates, Booking
  <2> QED BY <1>3, <2>1 DEF Silent, Booking
<1>4. receipts' \in ReceiptStates
  BY DEF FeedInv, FeedRows, ReceiptStates
<1> QED BY <1>2, <1>3, <1>4 DEF Booked, LedgerGrows, Booking

LEMMA LineIsBooked ==
    ASSUME FeedInv, NEW x \in Arriving, BookStatementLine(x)
    PROVE  \E e \in Entry : Booked(e)
<1> DEFINE e == Booking(x.account, x.amount, x.day, "statement", x.line, FALSE)
<1>1. x.account \in Accounts /\ x.amount \in Int /\ x.day \in Int
  BY FeedAssumption
<1>2. e \in Entry
  BY <1>1 DEF Entry, Booking, Origins
<1>3. e.source = "statement"
  BY DEF Booking
<1>4. receipts' \in ReceiptStates
  BY DEF BookStatementLine, FeedInv, FeedRows, ReceiptStates
<1> QED BY <1>2, <1>3, <1>4 DEF BookStatementLine, Booked, LedgerGrows, Silent

LEMMA EditIsRewriting ==
    ASSUME FeedInv, NEW t \in DOMAIN ledger, NEW x \in Edits, NEW k \in BOOLEAN,
           EditLedger(t, x[1], x[2], k)
    PROVE  \E e \in Entry : Rewritten(t, e)
<1> DEFINE e == [ledger[t] EXCEPT !.amount = x[1], !.day = x[2], !.edited = TRUE]
<1>1. ledger[t] \in Entry /\ x[1] \in Int /\ x[2] \in Int
  BY FeedAssumption DEF FeedInv, FeedRows
<1>2. e \in Entry /\ e.edited /\ e.source = ledger[t].source /\ e.origin = ledger[t].origin
  BY <1>1 DEF Entry
<1>3. ledger' = [ledger EXCEPT ![t] = e]
  BY DEF EditLedger, FeedInv, FeedRows
<1>4. closed' \subseteq closed
  BY DEF EditLedger, Unlocks
<1> QED BY <1>2, <1>3, <1>4 DEF EditLedger, Rewritten

LEMMA ClearIsRewriting ==
    ASSUME FeedInv, NEW t \in DOMAIN ledger, NEW a \in Accounts, ClearInto(t, a)
    PROVE  \E e \in Entry : Rewritten(t, e)
<1> DEFINE e == [ledger[t] EXCEPT !.account = a, !.edited = TRUE]
<1>1. ledger[t] \in Entry
  BY DEF FeedInv, FeedRows
<1>2. e \in Entry /\ e.edited /\ e.source = ledger[t].source /\ e.origin = ledger[t].origin
  BY <1>1 DEF Entry
<1>3. ledger' = [ledger EXCEPT ![t] = e]
  BY DEF ClearInto, FeedInv, FeedRows
<1> QED BY <1>2, <1>3 DEF ClearInto, Rewritten

(* Every step is of one of these kinds.                                      *)
LEMMA FeedMoves ==
    ASSUME FeedInv, FeedNext
    PROVE  \/ Still
           \/ \E s \in Subjects : Exclude(s)
           \/ \E s \in Subjects, o \in Observation : Evident(s, o)
           \/ \E b \in Bindings : Bind(b)
           \/ \E s \in Subjects, t \in Nat : Decided(s, t)
           \/ \E s \in Subjects : RevokeAssociation(s)
           \/ \E e \in Entry : Booked(e)
           \/ \E t \in DOMAIN ledger, e \in Entry : Rewritten(t, e)
           \/ \E mo \in Closable : Seal(mo) \/ Unseal(mo)
<1>1. receipts \in ReceiptStates
  BY DEF FeedInv, FeedRows, ReceiptStates
<1>2. ASSUME NEW s \in Subjects, LoadPlan(s) PROVE Still
  BY <1>1, <1>2 DEF LoadPlan, Still
<1>3. ASSUME NEW s \in Subjects, NEW t \in DOMAIN ledger, Match(s, t)
      PROVE  t \in Nat /\ Decided(s, t)
  BY <1>3, MatchIsDecided DEF FeedInv, FeedRows
<1>4. ASSUME NEW r \in Receipts, ProcessReceipt(r)
      PROVE  Still \/ \E e \in Entry : Booked(e)
  <2>1. CASE ReceiptCandidates(Paper[r].amount, Paper[r].day) # {}
    BY <1>1, <1>4, <2>1 DEF ProcessReceipt, Still, ReceiptStates
  <2>2. CASE ReceiptCandidates(Paper[r].amount, Paper[r].day) = {}
    <3>1. DefaultAccount \in Accounts
      BY FeedAssumption
    <3> QED BY <1>4, <2>2, <3>1, ReceiptIsBooked DEF ProcessReceipt
  <2> QED BY <2>1, <2>2
<1>5. ASSUME NEW r \in Receipts, NEW a \in Accounts, NEW k \in BOOLEAN, ApproveReceipt(r, a, k)
      PROVE  \E e \in Entry : Booked(e)
  BY <1>5, ReceiptIsBooked DEF ApproveReceipt
<1>6. ASSUME NEW r \in Receipts, DoubtReceipt(r) \/ \E t \in DOMAIN ledger : AttachReceipt(r, t)
      PROVE  Still
  BY <1>1, <1>6 DEF DoubtReceipt, AttachReceipt, Still, ReceiptStates
<1> QED BY <1>2, <1>3, <1>4, <1>5, <1>6, ObserveIsEvident, RemoveIsEvident, BookNewIsDecided,
           LineIsBooked, EditIsRewriting, ClearIsRewriting DEF FeedNext

-----------------------------------------------------------------------------
(* Rows stay rows, and what they name exists *)

(* The transactions there were are there, as they were.                      *)
LedgerKept ==
    /\ ledger' \in Seq(Entry)
    /\ DOMAIN ledger \subseteq DOMAIN ledger'
    /\ \A i \in DOMAIN ledger : ledger'[i] = ledger[i]

LEMMA GrowthKeeps ==
    ASSUME FeedRows, NEW e \in Entry, ledger' = Append(ledger, e)
    PROVE  /\ LedgerKept
           /\ Len(ledger) \in Nat /\ DOMAIN ledger = 1..Len(ledger)
           /\ DOMAIN ledger' = 1..(Len(ledger) + 1)
           /\ ledger'[Len(ledger) + 1] = e
<1>1. ledger \in Seq(Entry)
  BY DEF FeedRows
<1> QED BY <1>1, Appended DEF LedgerKept

Decision(s, t) == [subject |-> s, observation |-> current[s],
    binding |-> BindingOf(FeedOf[s]), transaction |-> t, revoked |-> FALSE]

LEMMA DecisionIsThere ==
    ASSUME FeedInv, NEW s \in Subjects, NEW t \in Nat, Decided(s, t)
    PROVE  /\ LedgerKept /\ t \in DOMAIN ledger'
           /\ Decision(s, t) \in Association
           /\ BindingOf(FeedOf[s]) \in DOMAIN bindings
           /\ associations' \in Seq(Association)
           /\ Len(associations) \in Nat /\ DOMAIN associations = 1..Len(associations)
           /\ DOMAIN associations' = 1..(Len(associations) + 1)
           /\ \A i \in DOMAIN associations : associations'[i] = associations[i]
           /\ associations'[Len(associations) + 1] = Decision(s, t)
<1>1. LedgerKept /\ t \in DOMAIN ledger'
  <2>1. CASE ledger' = ledger /\ t \in DOMAIN ledger
    BY <2>1 DEF LedgerKept, FeedInv, FeedRows
  <2>2. CASE t = Len(ledger) + 1 /\ \E e \in Entry : LedgerGrows(e)
    <3>1. PICK e \in Entry : ledger' = Append(ledger, e)
      BY <2>2 DEF LedgerGrows
    <3>2. LedgerKept /\ DOMAIN ledger' = 1..(Len(ledger) + 1) /\ Len(ledger) \in Nat
      BY <3>1, GrowthKeeps DEF FeedInv
    <3> QED BY <2>2, <3>2
  <2> QED BY <2>1, <2>2 DEF Decided
<1>2. BindingOf(FeedOf[s]) \in DOMAIN bindings /\ BindingOf(FeedOf[s]) \in Nat
  BY BindingIsOfFeed DEF Decided, Included, FeedInv
<1>3. Decision(s, t) \in Association
  BY <1>2 DEF Decision, Association, FeedInv, FeedRows
<1>4. associations \in Seq(Association) /\ associations' = Append(associations, Decision(s, t))
  BY DEF Decided, Associate, Decision, FeedInv, FeedRows
<1> QED BY <1>1, <1>2, <1>3, <1>4, Appended

LEMMA EvidenceIsThere ==
    ASSUME FeedInv, NEW s \in Subjects, NEW o \in Observation, Evident(s, o)
    PROVE  /\ observations' \in Seq(Observation)
           /\ Len(observations) \in Nat /\ DOMAIN observations = 1..Len(observations)
           /\ Len(observations') = Len(observations) + 1
           /\ DOMAIN observations' = 1..(Len(observations) + 1)
           /\ \A i \in DOMAIN observations : observations'[i] = observations[i]
           /\ observations'[Len(observations) + 1] = o
           /\ current' \in [Subjects -> Nat]
           /\ current'[s] = Len(observations) + 1
           /\ \A x \in Subjects : x # s => current'[x] = current[x]
<1>1. /\ observations \in Seq(Observation) /\ current \in [Subjects -> Nat]
      /\ observations' = Append(observations, o)
      /\ current' = [current EXCEPT ![s] = Len(observations) + 1]
  BY DEF Evident, FeedInv, FeedRows
<1> QED BY <1>1, Appended

Revoked(i) == [associations[i] EXCEPT !.revoked = TRUE]

LEMMA RevocationIsThere ==
    ASSUME FeedInv, NEW s \in Subjects, RevokeAssociation(s)
    PROVE  \E i \in AssociationOf(s) :
              /\ Revocable(i) /\ i \in DOMAIN associations
              /\ associations' \in Seq(Association)
              /\ DOMAIN associations' = DOMAIN associations
              /\ associations'[i] = Revoked(i)
              /\ \A j \in DOMAIN associations : j # i => associations'[j] = associations[j]
<1>1. PICK i \in AssociationOf(s) :
         Revocable(i) /\ associations' = [associations EXCEPT ![i].revoked = TRUE]
  BY DEF RevokeAssociation
<1>2. i \in DOMAIN associations /\ associations[i] \in Association /\ associations \in Seq(Association)
  BY DEF AssociationOf, Standing, FeedInv, FeedRows
<1>3. Revoked(i) \in Association
  BY <1>2 DEF Revoked, Association
<1>4. associations' = [associations EXCEPT ![i] = Revoked(i)]
  BY <1>1, <1>2 DEF Revoked
<1>5. /\ associations' \in Seq(Association)
      /\ DOMAIN associations' = DOMAIN associations
      /\ associations'[i] = Revoked(i)
      /\ \A j \in DOMAIN associations : j # i => associations'[j] = associations[j]
  BY <1>2, <1>3, <1>4, Replaced
<1> QED BY <1>1, <1>2, <1>5

LEMMA RewritingIsThere ==
    ASSUME FeedInv, NEW t \in DOMAIN ledger, NEW e \in Entry, Rewritten(t, e)
    PROVE  /\ ledger' \in Seq(Entry) /\ DOMAIN ledger' = DOMAIN ledger
           /\ ledger'[t] = e
           /\ \A i \in DOMAIN ledger : i # t => ledger'[i] = ledger[i]
<1>1. ledger \in Seq(Entry) /\ ledger' = [ledger EXCEPT ![t] = e]
  BY DEF Rewritten, FeedInv, FeedRows
<1> QED BY <1>1, Replaced

LEMMA RowsStay ==
    ASSUME FeedInv, FeedNext
    PROVE  FeedRows' /\ NamesExist'
<1>1. CASE Still \/ \E s \in Subjects : Exclude(s)
  BY <1>1 DEF Still, Exclude, FeedInv, FeedRows, NamesExist, ReceiptStates
<1>2. ASSUME NEW s \in Subjects, NEW o \in Observation, Evident(s, o)
      PROVE  FeedRows' /\ NamesExist'
  <2>1. FeedRows'
    BY <1>2, EvidenceIsThere DEF Evident, FeedInv, FeedRows
  <2>2. NamesExist'
    BY <1>2, EvidenceIsThere DEF Evident, FeedInv, FeedRows, NamesExist
  <2> QED BY <2>1, <2>2
<1>3. ASSUME NEW b \in Bindings, Bind(b)
      PROVE  FeedRows' /\ NamesExist'
  <2>1. bindings' \in Seq(Bindings) /\ DOMAIN bindings \subseteq DOMAIN bindings'
    BY <1>3, Appended DEF Bind, FeedInv, FeedRows
  <2> QED BY <1>3, <2>1 DEF Bind, FeedInv, FeedRows, NamesExist
<1>4. ASSUME NEW s \in Subjects, NEW t \in Nat, Decided(s, t)
      PROVE  FeedRows' /\ NamesExist'
  <2>1. /\ LedgerKept /\ t \in DOMAIN ledger'
        /\ Decision(s, t) \in Association
        /\ BindingOf(FeedOf[s]) \in DOMAIN bindings
        /\ associations' \in Seq(Association)
        /\ Len(associations) \in Nat /\ DOMAIN associations = 1..Len(associations)
        /\ DOMAIN associations' = 1..(Len(associations) + 1)
        /\ \A i \in DOMAIN associations : associations'[i] = associations[i]
        /\ associations'[Len(associations) + 1] = Decision(s, t)
    BY <1>4, DecisionIsThere
  <2>2. UNCHANGED <<observations, current, bindings, receipts, closed, closedAt>>
    BY <1>4 DEF Decided
  <2>3. FeedRows'
    BY <2>1, <2>2 DEF FeedInv, FeedRows, LedgerKept
  <2>4. current[s] \in DOMAIN observations /\ observations[current[s]].subject = s
    BY <1>4, ObservationsAreRows DEF Decided
  <2>5. NamesExist'
    <3>1. ASSUME NEW i \in DOMAIN associations'
          PROVE  /\ associations'[i].transaction \in DOMAIN ledger'
                 /\ associations'[i].binding \in DOMAIN bindings
                 /\ associations'[i].observation \in DOMAIN observations
                 /\ observations[associations'[i].observation].subject = associations'[i].subject
                 /\ associations'[i].subject \in Subjects /\ current[associations'[i].subject] # 0
      <4>1. CASE i = Len(associations) + 1
        BY <1>4, <2>1, <2>4, <4>1 DEF Decision, Decided
      <4>2. CASE i \in DOMAIN associations
        BY <2>1, <4>2 DEF FeedInv, NamesExist, LedgerKept
      <4> QED BY <2>1, <3>1, <4>1, <4>2
    <3> QED BY <2>2, <3>1 DEF FeedInv, NamesExist
  <2> QED BY <2>3, <2>5
<1>5. ASSUME NEW s \in Subjects, RevokeAssociation(s)
      PROVE  FeedRows' /\ NamesExist'
  <2>1. PICK i \in AssociationOf(s) :
              /\ i \in DOMAIN associations
              /\ associations' \in Seq(Association)
              /\ DOMAIN associations' = DOMAIN associations
              /\ associations'[i] = Revoked(i)
              /\ \A j \in DOMAIN associations : j # i => associations'[j] = associations[j]
    BY <1>5, RevocationIsThere
  <2>2. UNCHANGED <<observations, current, bindings, ledger, receipts, closed, closedAt>>
    BY <1>5 DEF RevokeAssociation
  <2>3. associations[i] \in Association
    BY <2>1 DEF FeedInv, FeedRows
  <2>4. \A j \in DOMAIN associations :
           /\ associations'[j].transaction = associations[j].transaction
           /\ associations'[j].binding = associations[j].binding
           /\ associations'[j].observation = associations[j].observation
           /\ associations'[j].subject = associations[j].subject
    BY <2>1, <2>3 DEF Revoked, Association
  <2>5. FeedRows'
    BY <2>1, <2>2 DEF FeedInv, FeedRows
  <2> QED BY <2>1, <2>2, <2>4, <2>5 DEF FeedInv, NamesExist
<1>6. ASSUME NEW e \in Entry, Booked(e)
      PROVE  FeedRows' /\ NamesExist'
  <2>1. LedgerKept
    BY <1>6, GrowthKeeps DEF Booked, LedgerGrows, FeedInv
  <2> QED BY <1>6, <2>1 DEF Booked, LedgerKept, FeedInv, FeedRows, NamesExist, ReceiptStates
<1>7. ASSUME NEW t \in DOMAIN ledger, NEW e \in Entry, Rewritten(t, e)
      PROVE  FeedRows' /\ NamesExist'
  <2>1. ledger' \in Seq(Entry) /\ DOMAIN ledger' = DOMAIN ledger
    BY <1>7, RewritingIsThere
  <2> QED BY <1>7, <2>1 DEF Rewritten, FeedInv, FeedRows, NamesExist
<1>8. ASSUME NEW mo \in Closable, Seal(mo) \/ Unseal(mo)
      PROVE  FeedRows' /\ NamesExist'
  <2>1. mo \in FeedMonths /\ Len(observations) \in Nat
    BY FeedAssumption DEF FeedInv, FeedRows
  <2>2. /\ closed' \subseteq FeedMonths /\ closedAt' \in [FeedMonths -> Nat]
        /\ \A x \in FeedMonths : closedAt'[x] <= Len(observations)
    <3>1. closed \subseteq FeedMonths /\ closedAt \in [FeedMonths -> Nat]
      BY DEF FeedInv, FeedRows
    <3>2. \A x \in FeedMonths : closedAt[x] <= Len(observations)
      BY DEF FeedInv, NamesExist
    <3>3. CASE Seal(mo)
      <4>1. closed' = closed \cup {mo} /\ closedAt' = [closedAt EXCEPT ![mo] = Len(observations)]
        BY <3>3 DEF Seal
      <4> QED BY <2>1, <3>1, <3>2, <4>1
    <3>4. CASE Unseal(mo)
      <4>1. closed' = closed \ {mo} /\ closedAt' = closedAt
        BY <3>4 DEF Unseal
      <4> QED BY <3>1, <3>2, <4>1
    <3> QED BY <1>8, <3>3, <3>4
  <2> QED BY <1>8, <2>2 DEF Seal, Unseal, FeedInv, FeedRows, NamesExist
<1> QED BY <1>1, <1>2, <1>3, <1>4, <1>5, <1>6, <1>7, <1>8, FeedMoves

-----------------------------------------------------------------------------
(* Nothing is booked twice or beside its equal *)

(* The associations that stand after a decision, and after a revocation.     *)
LEMMA DecisionStands ==
    ASSUME FeedInv, NEW s \in Subjects, NEW t \in Nat, Decided(s, t)
    PROVE  /\ Standing' = Standing \cup {Len(associations) + 1}
           /\ Len(associations) + 1 \notin Standing
           /\ AssociationOf(s)' = {Len(associations) + 1}
           /\ \A x \in Subjects : x # s => AssociationOf(x)' = AssociationOf(x)
<1>1. /\ Len(associations) \in Nat /\ DOMAIN associations = 1..Len(associations)
      /\ DOMAIN associations' = 1..(Len(associations) + 1)
      /\ \A i \in DOMAIN associations : associations'[i] = associations[i]
      /\ associations'[Len(associations) + 1] = Decision(s, t)
  BY DecisionIsThere
<1>2. AssociationOf(s) = {}
  BY DEF Decided
<1>3. Standing' = Standing \cup {Len(associations) + 1}
  BY <1>1 DEF Standing, Decision
<1> QED BY <1>1, <1>2, <1>3 DEF Standing, AssociationOf, Decision

LEMMA RevocationStands ==
    ASSUME FeedInv, NEW s \in Subjects, RevokeAssociation(s)
    PROVE  \E i \in AssociationOf(s) :
              /\ Revocable(i) /\ associations[i].subject = s
              /\ Standing' = Standing \ {i}
              /\ \A j \in Standing' : associations'[j] = associations[j]
              /\ \A x \in Subjects : AssociationOf(x)' = AssociationOf(x) \ {i}
<1>1. PICK i \in AssociationOf(s) :
              /\ Revocable(i) /\ i \in DOMAIN associations
              /\ DOMAIN associations' = DOMAIN associations
              /\ associations'[i] = Revoked(i)
              /\ \A j \in DOMAIN associations : j # i => associations'[j] = associations[j]
  BY RevocationIsThere
<1>2. associations'[i].revoked
  <2>1. associations[i] \in Association
    BY <1>1 DEF FeedInv, FeedRows
  <2> QED BY <1>1, <2>1 DEF Revoked, Association
<1>3. Standing' = Standing \ {i} /\ \A j \in Standing' : associations'[j] = associations[j]
  BY <1>1, <1>2 DEF Standing
<1>4. \A x \in Subjects : AssociationOf(x)' = AssociationOf(x) \ {i}
  BY <1>3 DEF AssociationOf
<1>5. associations[i].subject = s
  BY DEF AssociationOf
<1> QED BY <1>1, <1>3, <1>4, <1>5

(* The ledger as a step leaves it.                                           *)
LedgerGoes ==
    \/ ledger' = ledger
    \/ \E e \in Entry : LedgerGrows(e)
    \/ \E t \in DOMAIN ledger, e \in Entry : Rewritten(t, e)

LEMMA LedgerMoves ==
    ASSUME FeedInv, FeedNext
    PROVE  LedgerGoes
  BY FeedMoves DEF LedgerGoes, Still, Exclude, Evident, Bind, Decided, RevokeAssociation,
     Booked, Seal, Unseal

BooksDiffer == \A s \in Subjects :
    \A t, u \in DOMAIN ledger : BooksOf(t, s) /\ BooksOf(u, s) => t = u

LEMMA BooksStayDifferent ==
    ASSUME FeedInv, FeedNext
    PROVE  BooksDiffer'
<1>0. BooksDiffer
  BY DEF FeedInv, BookedOnce, BooksDiffer
<1>1. CASE ledger' = ledger
  BY <1>0, <1>1 DEF BooksDiffer, BooksOf
<1>2. ASSUME NEW e \in Entry, LedgerGrows(e) PROVE BooksDiffer'
  <2>1. /\ LedgerKept
        /\ Len(ledger) \in Nat /\ DOMAIN ledger = 1..Len(ledger)
        /\ DOMAIN ledger' = 1..(Len(ledger) + 1)
        /\ ledger'[Len(ledger) + 1] = e
    BY <1>2, GrowthKeeps DEF LedgerGrows, FeedInv
  <2>2. ASSUME NEW s \in Subjects, NEW t \in DOMAIN ledger, BooksOf(t, s)
        PROVE  ~(e.source = "bank_feed" /\ e.origin = s)
    BY <1>2, <2>2 DEF LedgerGrows, BooksOf
  <2>3. \A s \in Subjects, t \in DOMAIN ledger : BooksOf(t, s)' <=> BooksOf(t, s)
    BY <2>1 DEF LedgerKept, BooksOf
  <2>4. \A s \in Subjects : (e.source = "bank_feed" /\ e.origin = s)
                              <=> (ledger'[Len(ledger) + 1].source = "bank_feed"
                                   /\ ledger'[Len(ledger) + 1].origin = s)
    BY <2>1
  <2> QED BY <1>0, <2>1, <2>2, <2>3, <2>4 DEF BooksDiffer, BooksOf
<1>3. ASSUME NEW t \in DOMAIN ledger, NEW e \in Entry, Rewritten(t, e) PROVE BooksDiffer'
  <2>1. /\ DOMAIN ledger' = DOMAIN ledger /\ ledger'[t] = e
        /\ \A i \in DOMAIN ledger : i # t => ledger'[i] = ledger[i]
    BY <1>3, RewritingIsThere
  <2>2. e.source = ledger[t].source /\ e.origin = ledger[t].origin
    BY <1>3 DEF Rewritten
  <2> QED BY <1>0, <2>1, <2>2 DEF BooksDiffer, BooksOf
<1> QED BY <1>1, <1>2, <1>3, LedgerMoves DEF LedgerGoes

OneStands == \A s \in Subjects : \A i, j \in AssociationOf(s) : i = j

LEMMA OneGoesOnStanding ==
    ASSUME FeedInv, FeedNext
    PROVE  OneStands'
<1>0. OneStands
  BY DEF FeedInv, BookedOnce, OneStands
<1>1. CASE UNCHANGED associations
  BY <1>0, <1>1 DEF OneStands, AssociationOf, Standing
<1>2. ASSUME NEW s \in Subjects, NEW t \in Nat, Decided(s, t) PROVE OneStands'
  BY <1>0, <1>2, DecisionStands DEF OneStands
<1>3. ASSUME NEW s \in Subjects, RevokeAssociation(s) PROVE OneStands'
  BY <1>0, <1>3, RevocationStands DEF OneStands
<1> QED BY <1>1, <1>2, <1>3, FeedMoves DEF Still, Exclude, Evident, Bind, Booked, Rewritten,
           Seal, Unseal

LEMMA NoTwinIsSilent ==
    NoSilentTwin <=> \A i, j \in DOMAIN ledger : i < j => ~Silent(ledger[i], ledger[j])
  BY DEF NoSilentTwin, Silent

LEMMA NoTwinBecomesSilent ==
    ASSUME FeedInv, FeedNext
    PROVE  NoSilentTwin'
<1> DEFINE T == \A i, j \in DOMAIN ledger : i < j => ~Silent(ledger[i], ledger[j])
<1>0. T
  BY NoTwinIsSilent DEF FeedInv
<1>1. ASSUME ledger' = ledger PROVE T'
  BY <1>0, <1>1
<1>2. ASSUME NEW e \in Entry, LedgerGrows(e) PROVE T'
  <2>1. /\ LedgerKept
        /\ Len(ledger) \in Nat /\ DOMAIN ledger = 1..Len(ledger)
        /\ DOMAIN ledger' = 1..(Len(ledger) + 1)
        /\ ledger'[Len(ledger) + 1] = e
    BY <1>2, GrowthKeeps DEF LedgerGrows, FeedInv
  <2>2. \A i \in DOMAIN ledger : ~Silent(ledger[i], e) /\ ledger'[i] = ledger[i]
    BY <1>2, <2>1 DEF LedgerGrows, LedgerKept
  <2> QED BY <1>0, <2>1, <2>2
<1>3. ASSUME NEW t \in DOMAIN ledger, NEW e \in Entry, Rewritten(t, e) PROVE T'
  <2>1. /\ DOMAIN ledger' = DOMAIN ledger /\ ledger'[t] = e
        /\ \A i \in DOMAIN ledger : i # t => ledger'[i] = ledger[i]
    BY <1>3, RewritingIsThere
  <2>2. \A y : ~Silent(e, y) /\ ~Silent(y, e)
    BY <1>3 DEF Rewritten, Silent
  <2> QED BY <1>0, <2>1, <2>2
<1>4. T' => NoSilentTwin'
  BY DEF NoSilentTwin, Silent
<1> QED BY <1>1, <1>2, <1>3, <1>4, LedgerMoves DEF LedgerGoes

-----------------------------------------------------------------------------
(* Accepted evidence goes on to agree with the ledger *)

(* The association i agrees with its transaction, evidence and binding.      *)
Stands(i) ==
    LET a == associations[i]
        t == ledger[a.transaction]
        o == observations[a.observation]
    IN  /\ t.amount = o.amount /\ Near(t.day, o.day)
        /\ t.account = bindings[a.binding].account
        /\ BindingOf(FeedOf[a.subject]) = a.binding /\ Included(FeedOf[a.subject])

LEMMA AllStand == AcceptedEvidenceStands <=> \A i \in Standing : Stands(i)
  BY DEF AcceptedEvidenceStands, Stands

(* What a revision of another feed's binding leaves.                         *)
LEMMA OtherFeedsStay ==
    ASSUME FeedInv, NEW b \in Bindings, Bind(b), NEW f, f # b.feed
    PROVE  BindingOf(f)' = BindingOf(f) /\ (Included(f)' <=> Included(f))
<1>1. BindingOf(f)' = BindingOf(f)
  BY BindingAfter DEF Bind, FeedInv
<1>2. BindingOf(f) # 0 => BindingOf(f) \in 1..Len(bindings)
  BY BindingIsOfFeed DEF FeedInv, FeedRows
<1>3. \A k \in 1..Len(bindings) : bindings'[k] = bindings[k]
  BY Appended DEF Bind, FeedInv, FeedRows
<1> QED BY <1>1, <1>2, <1>3 DEF Included

LEMMA EvidenceGoesOnStanding ==
    ASSUME FeedInv, FeedNext
    PROVE  AcceptedEvidenceStands'
<1>0. \A i \in Standing :
         /\ Stands(i) /\ i \in DOMAIN associations
         /\ associations[i].transaction \in DOMAIN ledger
         /\ associations[i].binding \in DOMAIN bindings
         /\ associations[i].observation \in DOMAIN observations
  BY AllStand DEF FeedInv, NamesExist, Standing
<1>00. (\A i \in Standing : Stands(i))' => AcceptedEvidenceStands'
  BY DEF AcceptedEvidenceStands, Stands
<1>1. CASE UNCHANGED <<observations, bindings, ledger, associations>>
  BY <1>0, <1>00, <1>1 DEF Stands, Standing, BindingOf, Included
<1>2. ASSUME NEW s \in Subjects, NEW o \in Observation, Evident(s, o)
      PROVE  AcceptedEvidenceStands'
  <2>1. \A i \in DOMAIN observations : observations'[i] = observations[i]
    BY <1>2, EvidenceIsThere
  <2>2. UNCHANGED <<bindings, ledger, associations>>
    BY <1>2 DEF Evident
  <2> QED BY <1>0, <1>00, <2>1, <2>2 DEF Stands, Standing, BindingOf, Included
<1>3. ASSUME NEW b \in Bindings, Bind(b)
      PROVE  AcceptedEvidenceStands'
  <2>1. UNCHANGED <<observations, ledger, associations>>
    BY <1>3 DEF Bind
  <2>2. \A k \in DOMAIN bindings : bindings'[k] = bindings[k]
    BY <1>3, Appended DEF Bind, FeedInv, FeedRows
  <2>3. ASSUME NEW i \in Standing
        PROVE  /\ BindingOf(FeedOf[associations[i].subject])'
                    = BindingOf(FeedOf[associations[i].subject])
               /\ Included(FeedOf[associations[i].subject])'
                    <=> Included(FeedOf[associations[i].subject])
    <3>1. bindings[associations[i].binding].feed # b.feed
      BY <1>3 DEF Bind, EvidenceFree
    <3>2. BindingOf(FeedOf[associations[i].subject]) = associations[i].binding
          /\ Included(FeedOf[associations[i].subject])
      BY <1>0 DEF Stands
    <3>3. bindings[associations[i].binding].feed = FeedOf[associations[i].subject]
      BY <3>2, BindingIsOfFeed DEF Included, FeedInv
    <3>4. PICK f : f = FeedOf[associations[i].subject] /\ f # b.feed
      BY <3>1, <3>3
    <3>5. BindingOf(f)' = BindingOf(f) /\ (Included(f)' <=> Included(f))
      BY <1>3, <3>4, OtherFeedsStay
    <3> QED BY <2>1, <3>4, <3>5
  <2>4. \A i \in Standing : Stands(i)'
    BY <1>0, <2>1, <2>2, <2>3 DEF Stands
  <2>5. Standing' = Standing
    BY <2>1 DEF Standing
  <2> QED BY <1>00, <2>4, <2>5
<1>4. ASSUME NEW s \in Subjects, NEW t \in Nat, Decided(s, t)
      PROVE  AcceptedEvidenceStands'
  <2>1. /\ LedgerKept /\ t \in DOMAIN ledger'
        /\ \A i \in DOMAIN associations : associations'[i] = associations[i]
        /\ associations'[Len(associations) + 1] = Decision(s, t)
    BY <1>4, DecisionIsThere
  <2>2. Standing' = Standing \cup {Len(associations) + 1}
    BY <1>4, DecisionStands
  <2>3. UNCHANGED <<observations, current, bindings>>
    BY <1>4 DEF Decided
  <2>4. \A f : BindingOf(f)' = BindingOf(f) /\ (Included(f)' <=> Included(f))
    BY <2>3 DEF BindingOf, Included
  <2>5. \A i \in Standing : Stands(i)'
    BY <1>0, <2>1, <2>3, <2>4 DEF Stands, LedgerKept
  <2>6. /\ ledger'[t].account = bindings[BindingOf(FeedOf[s])].account
        /\ ledger'[t].amount = observations[current[s]].amount
        /\ Near(ledger'[t].day, observations[current[s]].day)
        /\ Included(FeedOf[s])
    BY <1>4 DEF Decided
  <2>7. PICK k : k = Len(associations) + 1
    OBVIOUS
  <2>8. Stands(k)'
    BY <2>1, <2>3, <2>4, <2>6, <2>7 DEF Stands, Decision
  <2>9. Standing' = Standing \cup {k}
    BY <2>2, <2>7
  <2> QED BY <1>00, <2>5, <2>8, <2>9
<1>5. ASSUME NEW s \in Subjects, RevokeAssociation(s)
      PROVE  AcceptedEvidenceStands'
  <2>1. PICK i \in AssociationOf(s) :
           /\ Standing' = Standing \ {i}
           /\ \A j \in Standing' : associations'[j] = associations[j]
    BY <1>5, RevocationStands
  <2>2. UNCHANGED <<observations, bindings, ledger>>
    BY <1>5 DEF RevokeAssociation
  <2> QED BY <1>0, <1>00, <2>1, <2>2 DEF Stands, BindingOf, Included
<1>6. ASSUME NEW e \in Entry, Booked(e)
      PROVE  AcceptedEvidenceStands'
  <2>1. LedgerKept
    BY <1>6, GrowthKeeps DEF Booked, LedgerGrows, FeedInv
  <2>2. UNCHANGED <<observations, bindings, associations>>
    BY <1>6 DEF Booked
  <2> QED BY <1>0, <1>00, <2>1, <2>2 DEF LedgerKept, Stands, Standing, BindingOf, Included
<1>7. ASSUME NEW t \in DOMAIN ledger, NEW e \in Entry, Rewritten(t, e)
      PROVE  AcceptedEvidenceStands'
  <2>1. \A i \in DOMAIN ledger : i # t => ledger'[i] = ledger[i]
    BY <1>7, RewritingIsThere
  <2>2. UNCHANGED <<observations, bindings, associations>>
    BY <1>7 DEF Rewritten
  <2>3. \A i \in Standing : associations[i].transaction # t
    BY <1>7 DEF Rewritten, Editable
  <2> QED BY <1>0, <1>00, <2>1, <2>2, <2>3 DEF Stands, Standing, BindingOf, Included
<1> QED BY <1>1, <1>2, <1>3, <1>4, <1>5, <1>6, <1>7, FeedMoves DEF Still, Exclude, Seal, Unseal

LEMMA OneStaysPrimary ==
    ASSUME FeedInv, FeedNext
    PROVE  OnePrimary'
<1>1. CASE UNCHANGED bindings
  BY <1>1 DEF FeedInv, OnePrimary, Included, BindingOf
<1>2. ASSUME NEW b \in Bindings, Bind(b)
      PROVE  OnePrimary'
  <2>1. /\ Len(bindings) \in Nat /\ DOMAIN bindings = 1..Len(bindings)
        /\ \A k \in 1..Len(bindings) : bindings'[k] = bindings[k]
        /\ bindings'[Len(bindings) + 1] = b
    BY <1>2, Appended DEF Bind, FeedInv, FeedRows
  <2>2. b.included \in BOOLEAN
    BY FeedAssumption
  <2>3. BindingOf(b.feed)' = Len(bindings) + 1
    BY <1>2, BindingAfter DEF Bind, FeedInv
  <2>4. Included(b.feed)' <=> b.included
    BY <2>1, <2>2, <2>3 DEF Included
  <2>5. ASSUME NEW f \in Feeds, f # b.feed
        PROVE  /\ Included(f)' <=> Included(f)
               /\ Included(f) => bindings'[BindingOf(f)'] = bindings[BindingOf(f)]
    <3>1. BindingOf(f)' = BindingOf(f) /\ (Included(f)' <=> Included(f))
      BY <1>2, <2>5, OtherFeedsStay
    <3>2. Included(f) => BindingOf(f) \in DOMAIN bindings
      BY BindingIsOfFeed DEF Included, FeedInv
    <3> QED BY <2>1, <3>1, <3>2
  <2>6. ASSUME NEW f \in Feeds, f # b.feed, Included(f)', b.included, b.role = "primary",
               bindings'[BindingOf(f)'].role = "primary"
        PROVE  bindings'[BindingOf(f)'].account # b.account
    BY <1>2, <2>5, <2>6 DEF Bind, PrimaryFree
  <2>7. ASSUME NEW f \in Feeds, NEW g \in Feeds, f # b.feed, g # b.feed,
               Included(f)', bindings'[BindingOf(f)'].role = "primary",
               Included(g)', bindings'[BindingOf(g)'].role = "primary",
               bindings'[BindingOf(f)'].account = bindings'[BindingOf(g)'].account
        PROVE  f = g
    BY <2>5, <2>7 DEF FeedInv, OnePrimary
  <2>8. b.feed \in Feeds
    BY FeedAssumption
  <2> QED BY <2>1, <2>3, <2>4, <2>6, <2>7, <2>8 DEF OnePrimary
<1> QED BY <1>1, <1>2, FeedMoves DEF Still, Exclude, Evident, Decided, RevokeAssociation,
           Booked, Rewritten, Seal, Unseal

-----------------------------------------------------------------------------
(* A closed month was reviewed *)

(* What the association i asks to be reviewed in the month mo came later.    *)
Changed(i, mo) == LET a == associations[i] IN
    \A o \in {a.observation, current[a.subject]} :
        a.observation # current[a.subject] /\ MonthOf[observations[o].day] = mo
            => current[a.subject] > closedAt[mo]

LEMMA ReviewedByParts ==
    ReviewedFeed <=> \A mo \in closed :
        /\ \A s \in Subjects : Waits(s) /\ MonthOfSubject(s) = mo => current[s] > closedAt[mo]
        /\ \A i \in Standing : Changed(i, mo)
  BY DEF ReviewedFeed, Changed

LEMMA ReviewIsOfBlockers ==
    ASSUME FeedInv
    PROVE  ClosedIsReviewed
<1> SUFFICES ASSUME NEW x \in Blockers, x[2] \in closed
             PROVE  current[x[1]] > closedAt[x[2]]
  BY DEF ClosedIsReviewed
<1>1. CASE \E s \in Subjects : Waits(s) /\ x = <<s, MonthOfSubject(s)>>
  BY <1>1, ReviewedByParts DEF FeedInv
<1>2. CASE \E i \in Standing : \E o \in {associations[i].observation, current[associations[i].subject]} :
             /\ associations[i].observation # current[associations[i].subject]
             /\ x = <<associations[i].subject, MonthOf[observations[o].day]>>
  BY <1>2, ReviewedByParts DEF FeedInv, Changed
<1> QED BY <1>1, <1>2 DEF Blockers, Waits

(* Without a blocker in mo, nothing in mo waits and no evidence changed.     *)
LEMMA NoBlockerNoReview ==
    ASSUME NEW mo, \A x \in Blockers : x[2] # mo
    PROVE  /\ \A s \in Subjects : ~(Waits(s) /\ MonthOfSubject(s) = mo)
           /\ \A i \in Standing : Changed(i, mo)
<1>1. ASSUME NEW s \in Subjects, Waits(s), MonthOfSubject(s) = mo
      PROVE  FALSE
  <2>1. <<s, MonthOfSubject(s)>> \in Blockers
    BY <1>1 DEF Blockers, Waits
  <2> QED BY <1>1, <2>1
<1>2. ASSUME NEW i \in Standing,
             NEW o \in {associations[i].observation, current[associations[i].subject]},
             associations[i].observation # current[associations[i].subject],
             MonthOf[observations[o].day] = mo
      PROVE  FALSE
  <2>1. <<associations[i].subject, MonthOf[observations[o].day]>> \in Blockers
    BY <1>2 DEF Blockers
  <2> QED BY <1>2, <2>1
<1> QED BY <1>1, <1>2 DEF Changed

LEMMA ClosedStaysReviewed ==
    ASSUME FeedInv, FeedNext
    PROVE  ReviewedFeed'
<1>0. \A mo \in closed :
        /\ \A s \in Subjects : Waits(s) /\ MonthOfSubject(s) = mo => current[s] > closedAt[mo]
        /\ \A i \in Standing : Changed(i, mo)
  BY ReviewedByParts DEF FeedInv
<1>00. (\A mo \in closed :
        /\ \A s \in Subjects : Waits(s) /\ MonthOfSubject(s) = mo => current[s] > closedAt[mo]
        /\ \A i \in Standing : Changed(i, mo))' => ReviewedFeed'
  BY DEF ReviewedFeed, Changed
<1>1. CASE /\ UNCHANGED <<observations, current, bindings, associations, closedAt>>
           /\ closed' \subseteq closed /\ exclusions \subseteq exclusions'
  <2>1. \A s \in Subjects : /\ Waits(s)' => Waits(s)
                            /\ MonthOfSubject(s)' = MonthOfSubject(s)
    BY <1>1 DEF Waits, MonthOfSubject, Included, BindingOf, AssociationOf, Standing
  <2>2. Standing' = Standing /\ \A i, mo : Changed(i, mo)' <=> Changed(i, mo)
    BY <1>1 DEF Standing, Changed
  <2> QED BY <1>0, <1>00, <1>1, <2>1, <2>2
<1>2. ASSUME NEW s \in Subjects, NEW o \in Observation, Evident(s, o)
      PROVE  ReviewedFeed'
  <2>1. /\ Len(observations) \in Nat
        /\ \A i \in DOMAIN observations : observations'[i] = observations[i]
        /\ current'[s] = Len(observations) + 1
        /\ \A x \in Subjects : x # s => current'[x] = current[x]
    BY <1>2, EvidenceIsThere
  <2>2. UNCHANGED <<bindings, associations, exclusions, closed, closedAt>>
    BY <1>2 DEF Evident
  <2>3. \A mo \in closed : closedAt[mo] \in Nat /\ current'[s] > closedAt[mo]
    BY <2>1 DEF FeedInv, FeedRows, NamesExist
  <2>4. ASSUME NEW x \in Subjects, x # s, Waits(x)'
        PROVE  Waits(x) /\ MonthOfSubject(x)' = MonthOfSubject(x)
    <3>1. current[x] # 0
      BY <2>1, <2>4 DEF Waits
    <3>2. observations'[current[x]] = observations[current[x]]
      BY <2>1, <2>4, <3>1, ObservationsAreRows
    <3> QED BY <2>1, <2>2, <2>4, <3>2 DEF Waits, MonthOfSubject, Included, BindingOf,
               AssociationOf, Standing
  <2>5. ASSUME NEW mo \in closed, NEW i \in Standing PROVE Changed(i, mo)'
    <3>1. /\ associations[i].subject \in Subjects
          /\ associations[i].observation \in DOMAIN observations
          /\ associations'[i] = associations[i]
      BY <2>2 DEF Standing, FeedInv, NamesExist
    <3>2. CASE associations[i].subject = s
      BY <2>2, <2>3, <3>1, <3>2 DEF Changed
    <3>3. CASE associations[i].subject # s
      <4>1. current'[associations[i].subject] = current[associations[i].subject]
        BY <2>1, <3>1, <3>3
      <4>2. ASSUME current[associations[i].subject] # 0
            PROVE  observations'[current[associations[i].subject]]
                     = observations[current[associations[i].subject]]
        BY <2>1, <3>1, <4>2, ObservationsAreRows
      <4>3. current[associations[i].subject] # 0
        BY DEF FeedInv, NamesExist, Standing
      <4>4. Changed(i, mo)
        BY <1>0
      <4> QED BY <2>1, <2>2, <3>1, <4>1, <4>2, <4>3, <4>4 DEF Changed
    <3> QED BY <3>2, <3>3
  <2>6. Standing' = Standing
    BY <2>2 DEF Standing
  <2> QED BY <1>0, <1>00, <2>1, <2>2, <2>3, <2>4, <2>5, <2>6
<1>3. ASSUME NEW b \in Bindings, Bind(b)
      PROVE  ReviewedFeed'
  <2>1. UNCHANGED <<observations, current, associations, exclusions, closed, closedAt>>
    BY <1>3 DEF Bind
  <2>2. ASSUME NEW s \in Subjects, NEW mo \in closed, Waits(s)', MonthOfSubject(s)' = mo
        PROVE  current[s] > closedAt[mo]
    <3>1. current[s] # 0 /\ MonthOfSubject(s) = mo
      BY <2>1, <2>2 DEF Waits, MonthOfSubject
    <3>2. CASE Included(FeedOf[s])
      <4>1. Waits(s)
        BY <2>1, <2>2, <3>2 DEF Waits, AssociationOf, Standing
      <4> QED BY <1>0, <3>1, <4>1
    <3>3. CASE ~Included(FeedOf[s])
      <4>1. Included(FeedOf[s])'
        BY <2>2 DEF Waits
      <4>2. PICK f : f = FeedOf[s]
        OBVIOUS
      <4>3. f = b.feed
        <5>1. ASSUME f # b.feed PROVE FALSE
          <6>1. Included(f)' <=> Included(f)
            BY <1>3, <5>1, OtherFeedsStay
          <6> QED BY <3>3, <4>1, <4>2, <6>1
        <5> QED BY <5>1
      <4>4. b.included
        <5>1. BindingOf(f)' = Len(bindings) + 1
          BY <1>3, <4>3, BindingAfter DEF Bind, FeedInv
        <5>2. bindings'[Len(bindings) + 1] = b
          BY <1>3, Appended DEF Bind, FeedInv, FeedRows
        <5> QED BY <4>1, <4>2, <5>1, <5>2 DEF Included
      <4>5. Activable(f)
        BY <1>3, <3>3, <4>2, <4>3, <4>4 DEF Bind
      <4>6. /\ current[s] \in DOMAIN observations
            /\ FeedOf[observations[current[s]].subject] = f
        BY <3>1, <4>2, ObservationsAreRows
      <4>7. MonthOf[observations[current[s]].day] \notin closed
        BY <4>5, <4>6 DEF Activable
      <4> QED BY <3>1, <4>7 DEF MonthOfSubject
    <3> QED BY <3>2, <3>3
  <2>3. Standing' = Standing /\ \A i, mo : Changed(i, mo)' <=> Changed(i, mo)
    BY <2>1 DEF Standing, Changed
  <2> QED BY <1>0, <1>00, <2>1, <2>2, <2>3
<1>4. ASSUME NEW s \in Subjects, NEW t \in Nat, Decided(s, t)
      PROVE  ReviewedFeed'
  <2>1. /\ \A i \in DOMAIN associations : associations'[i] = associations[i]
        /\ associations'[Len(associations) + 1] = Decision(s, t)
    BY <1>4, DecisionIsThere
  <2>2. /\ Standing' = Standing \cup {Len(associations) + 1}
        /\ AssociationOf(s)' # {}
        /\ \A x \in Subjects : x # s => AssociationOf(x)' = AssociationOf(x)
    BY <1>4, DecisionStands
  <2>3. UNCHANGED <<observations, current, bindings, exclusions, closed, closedAt>>
    BY <1>4 DEF Decided
  <2>4. \A x \in Subjects : (Waits(x)' => Waits(x)) /\ MonthOfSubject(x)' = MonthOfSubject(x)
    BY <2>2, <2>3 DEF Waits, MonthOfSubject, Included, BindingOf
  <2>5. PICK k : k = Len(associations) + 1
    OBVIOUS
  <2>6. \A mo : Changed(k, mo)'
    BY <2>1, <2>3, <2>5 DEF Changed, Decision
  <2>7. \A i \in Standing : \A mo : Changed(i, mo)' <=> Changed(i, mo)
    BY <2>1, <2>3 DEF Changed, Standing
  <2> QED BY <1>0, <1>00, <2>2, <2>3, <2>4, <2>5, <2>6, <2>7
<1>5. ASSUME NEW s \in Subjects, RevokeAssociation(s)
      PROVE  ReviewedFeed'
  <2>1. PICK i \in AssociationOf(s) :
           /\ Revocable(i) /\ associations[i].subject = s
           /\ Standing' = Standing \ {i}
           /\ \A j \in Standing' : associations'[j] = associations[j]
           /\ \A x \in Subjects : AssociationOf(x)' = AssociationOf(x) \ {i}
    BY <1>5, RevocationStands
  <2>2. UNCHANGED <<observations, current, bindings, exclusions, closed, closedAt>>
    BY <1>5 DEF RevokeAssociation
  <2>3. MonthOfSubject(s) \notin closed
    BY <2>1 DEF Revocable
  <2>4. ASSUME NEW x \in Subjects, x # s
        PROVE  Waits(x)' => Waits(x)
    <3>1. i \notin AssociationOf(x)
      BY <2>1, <2>4 DEF AssociationOf
    <3> QED BY <2>1, <2>2, <3>1 DEF Waits, Included, BindingOf
  <2>5. \A x \in Subjects : MonthOfSubject(x)' = MonthOfSubject(x)
    BY <2>2 DEF MonthOfSubject
  <2>6. \A j \in Standing' : \A mo : Changed(j, mo)' <=> Changed(j, mo)
    BY <2>1, <2>2 DEF Changed
  <2> QED BY <1>0, <1>00, <2>1, <2>2, <2>3, <2>4, <2>5, <2>6
<1>6. ASSUME NEW mo \in Closable, Seal(mo)
      PROVE  ReviewedFeed'
  <2>1. /\ closed' = closed \cup {mo}
        /\ \A x \in Blockers : x[2] # mo
        /\ UNCHANGED <<observations, current, bindings, associations, exclusions>>
    BY <1>6 DEF Seal
  <2>2. \A n \in closed : closedAt'[n] = closedAt[n]
    BY <1>6 DEF Seal, FeedInv, FeedRows
  <2>3. /\ \A s \in Subjects : ~(Waits(s) /\ MonthOfSubject(s) = mo)
        /\ \A i \in Standing : \A o \in {associations[i].observation, current[associations[i].subject]} :
              ~(/\ associations[i].observation # current[associations[i].subject]
                /\ MonthOf[observations[o].day] = mo)
    <3>1. ASSUME NEW s \in Subjects, Waits(s), MonthOfSubject(s) = mo
          PROVE  FALSE
      <4>1. <<s, MonthOfSubject(s)>> \in Blockers
        BY <3>1 DEF Blockers, Waits
      <4> QED BY <2>1, <3>1, <4>1
    <3>2. ASSUME NEW i \in Standing,
                 NEW o \in {associations[i].observation, current[associations[i].subject]},
                 associations[i].observation # current[associations[i].subject],
                 MonthOf[observations[o].day] = mo
          PROVE  FALSE
      <4>1. <<associations[i].subject, MonthOf[observations[o].day]>> \in Blockers
        BY <3>2 DEF Blockers
      <4> QED BY <2>1, <3>2, <4>1
    <3> QED BY <3>1, <3>2
  <2>4. \A s \in Subjects : (Waits(s)' <=> Waits(s)) /\ MonthOfSubject(s)' = MonthOfSubject(s)
    BY <2>1 DEF Waits, MonthOfSubject, Included, BindingOf, AssociationOf, Standing
  <2>5. Standing' = Standing
    BY <2>1 DEF Standing
  <2>6. \A i \in Standing, n \in closed : Changed(i, n)'
    BY <1>0, <2>1, <2>2 DEF Changed
  <2>7. \A i \in Standing : Changed(i, mo)'
    BY <2>1, <2>3 DEF Changed
  <2> QED BY <1>0, <1>00, <2>1, <2>2, <2>3, <2>4, <2>5, <2>6, <2>7
<1> QED BY <1>1, <1>2, <1>3, <1>4, <1>5, <1>6, FeedMoves DEF Still, Exclude, Booked, Rewritten, Unseal

-----------------------------------------------------------------------------
(* The theorems *)

LEMMA FeedInitHolds == FeedInit => FeedInv
<1> SUFFICES ASSUME FeedInit PROVE FeedInv
  OBVIOUS
<1>1. FeedRows /\ NamesExist
  BY DEF FeedInit, FeedRows, NamesExist
<1>2. BookedOnce /\ AcceptedEvidenceStands /\ ReviewedFeed /\ NoSilentTwin
  BY DEF FeedInit, BookedOnce, BooksOf, AcceptedEvidenceStands, ReviewedFeed, NoSilentTwin,
         AssociationOf, Standing
<1>3. \A f : ~Included(f)
  BY DEF FeedInit, Included, BindingOf
<1> QED BY <1>1, <1>2, <1>3 DEF FeedInv, OnePrimary

LEMMA FeedStepHolds == FeedInv /\ [FeedNext]_feedVars => FeedInv'
<1>1. CASE FeedInv /\ FeedNext
  <2>1. BookedOnce'
    BY <1>1, BooksStayDifferent, OneGoesOnStanding DEF BooksDiffer, OneStands, BookedOnce
  <2> QED BY <1>1, <2>1, RowsStay, EvidenceGoesOnStanding, OneStaysPrimary, ClosedStaysReviewed,
             NoTwinBecomesSilent DEF FeedInv
<1>2. CASE FeedInv /\ UNCHANGED feedVars
  <2>0. UNCHANGED <<observations, current, bindings, ledger, associations, exclusions, closed, closedAt, receipts>>
    BY <1>2 DEF feedVars
  <2>1. FeedRows' /\ NamesExist' /\ BookedOnce'
    BY <1>2, <2>0 DEF FeedInv, FeedRows, NamesExist, BookedOnce, BooksOf, AssociationOf, Standing
  <2>2. AcceptedEvidenceStands'
    <3>1. Standing' = Standing /\ \A f : BindingOf(f)' = BindingOf(f) /\ (Included(f)' <=> Included(f))
      BY <2>0 DEF Standing, BindingOf, Included
    <3> QED BY <1>2, <2>0, <3>1 DEF FeedInv, AcceptedEvidenceStands
  <2>4. OnePrimary'
    <3>1. \A f : BindingOf(f)' = BindingOf(f)
      BY <2>0 DEF BindingOf
    <3>2. \A f : Included(f)' <=> Included(f)
      BY <2>0, <3>1 DEF Included
    <3> QED BY <1>2, <2>0, <3>1, <3>2 DEF FeedInv, OnePrimary
  <2>5. NoSilentTwin'
    BY <1>2, <2>0 DEF FeedInv, NoSilentTwin
  <2>3. ReviewedFeed'
    BY <1>2, <2>0 DEF FeedInv, ReviewedFeed, Waits, MonthOfSubject, Standing, AssociationOf,
                      Included, BindingOf
  <2> QED BY <2>1, <2>2, <2>3, <2>4, <2>5 DEF FeedInv
<1> QED BY <1>1, <1>2

LEMMA FeedInvariant == FeedSpec => []FeedInv
  BY FeedInitHolds, FeedStepHolds, PTL DEF FeedSpec

(* Some numbers of which any two are the same are at most one.               *)
LEMMA AtMostOne ==
    ASSUME NEW n \in Nat, NEW S \in SUBSET (1..n), \A x, y \in S : x = y
    PROVE  Cardinality(S) <= 1
<1>1. CASE S = {}
  BY <1>1, FS_EmptySet
<1>2. CASE S # {}
  <2>1. PICK x \in S : TRUE
    BY <1>2
  <2>2. S = {x}
    BY <2>1
  <2> QED BY <2>2, FS_Singleton
<1> QED BY <1>1, <1>2

LEMMA FeedInvHolds == FeedInv => FeedHolds
<1> SUFFICES ASSUME FeedInv PROVE FeedHolds
  OBVIOUS
<1>1. FeedTypeOK
  <2>1. \A o \in DOMAIN observations : observations[o] \in Observation
    BY DEF FeedInv, FeedRows
  <2>2. \A i \in DOMAIN bindings : bindings[i] \in Bindings
    BY DEF FeedInv, FeedRows
  <2>3. \A t \in DOMAIN ledger : ledger[t] \in Entry
    BY DEF FeedInv, FeedRows
  <2>4. \A o \in DOMAIN observations : /\ observations[o].subject \in Subjects
                                       /\ observations[o].kind \in {"added", "modified", "removed"}
    BY <2>1 DEF Observation
  <2>5. \A t \in DOMAIN ledger : /\ ledger[t].account \in Accounts
                                 /\ ledger[t].source \in {"bank_feed", "statement", "receipt"}
    BY <2>3 DEF Entry
  <2>6. NamesExist /\ receipts \in [Receipts -> {"absent", "pending", "booked", "attached"}]
                   /\ closed \subseteq FeedMonths
    BY DEF FeedInv, FeedRows
  <2> QED BY <2>2, <2>4, <2>5, <2>6 DEF FeedTypeOK, NamesExist
<1>2. SubjectBookedOnce
  <2> SUFFICES ASSUME NEW s \in Subjects
               PROVE  /\ Cardinality({t \in DOMAIN ledger : ledger[t].source = "bank_feed"
                                                              /\ ledger[t].origin = s}) <= 1
                      /\ Cardinality(AssociationOf(s)) <= 1
    BY DEF SubjectBookedOnce
  <2>1. /\ Len(ledger) \in Nat /\ DOMAIN ledger = 1..Len(ledger)
        /\ Len(associations) \in Nat /\ DOMAIN associations = 1..Len(associations)
    BY DEF FeedInv, FeedRows
  <2>2. Cardinality({t \in DOMAIN ledger : BooksOf(t, s)}) <= 1
    BY <2>1, AtMostOne DEF FeedInv, BookedOnce
  <2>3. Cardinality(AssociationOf(s)) <= 1
    <3>1. AssociationOf(s) \subseteq 1..Len(associations)
      BY <2>1 DEF AssociationOf, Standing
    <3> QED BY <2>1, <3>1, AtMostOne DEF FeedInv, BookedOnce
  <2> QED BY <2>2, <2>3 DEF BooksOf
<1> QED BY <1>1, <1>2, ReviewIsOfBlockers DEF FeedInv, FeedHolds

(* Whatever arrives, is decided, revoked, edited, rebound, closed or         *)
(* reopened: a provider transaction is booked once, accepted evidence agrees *)
(* with the ledger and the present binding, one feed of an account is        *)
(* primary, and what waits in a closed month came after it was closed.       *)
THEOREM FeedStaysTrue == FeedSpec => []FeedHolds
  BY FeedInvariant, FeedInvHolds, PTL

(* In whatever order feed, receipts and statements come, nothing is booked   *)
(* beside its equal unless somebody declared it another.                     *)
THEOREM TwinsAreDeclared == FeedSpec => []NoSilentTwin
<1>1. FeedInv => NoSilentTwin
  BY DEF FeedInv
<1> QED BY <1>1, FeedInvariant, PTL

(* The decision a rests on what the page of its subject shows.               *)
RestsOnPage(a) ==
    LET o == observations[a.observation]
    IN  /\ a.observation = pages[a.subject].observation
        /\ \A t \in Candidates(bindings[a.binding].account, o.amount, o.day) :
               Shown(t) \in pages[a.subject].candidates

LEMMA DecisionRestsOnPage ==
    ASSUME FeedInv, NEW s \in Subjects, NEW t, UpToDate(s), Decidable(s)
    PROVE  RestsOnPage(Decision(s, t))
<1> DEFINE b == BindingOf(FeedOf[s])
           o == observations[current[s]]
<1>1. b # 0 /\ pages[s] = Plan(s)
  BY DEF UpToDate, Decidable, Included
<1>2. /\ Plan(s).observation = current[s]
      /\ Plan(s).candidates = {Shown(u) : u \in Candidates(bindings[b].account, o.amount, o.day)}
  BY <1>1 DEF Plan
<1>3. \A u \in Candidates(bindings[b].account, o.amount, o.day) : Shown(u) \in pages[s].candidates
  BY <1>1, <1>2
<1> HIDE DEF b, o
<1>4. /\ Decision(s, t).subject = s /\ Decision(s, t).observation = current[s]
      /\ Decision(s, t).binding = b
  BY DEF Decision, b
<1> QED BY <1>1, <1>2, <1>3, <1>4 DEF RestsOnPage, o

LEMMA NewDecisionsRestOnPages ==
    ASSUME FeedInv, [FeedNext]_feedVars
    PROVE  \A i \in DOMAIN associations' \ DOMAIN associations : RestsOnPage(associations'[i])
<1>1. ASSUME NEW s \in Subjects, NEW t \in Nat, Decided(s, t), UpToDate(s), Decidable(s)
      PROVE  \A i \in DOMAIN associations' \ DOMAIN associations : RestsOnPage(associations'[i])
  <2>1. \A i \in DOMAIN associations' \ DOMAIN associations : associations'[i] = Decision(s, t)
    <3>1. /\ DOMAIN associations' = 1..(Len(associations) + 1) /\ Len(associations) \in Nat
          /\ DOMAIN associations = 1..Len(associations)
          /\ associations'[Len(associations) + 1] = Decision(s, t)
      BY <1>1, DecisionIsThere
    <3> QED BY <3>1
  <2> QED BY <1>1, <2>1, DecisionRestsOnPage
<1>2. ASSUME NEW s \in Subjects, NEW t \in DOMAIN ledger, Match(s, t)
      PROVE  Decided(s, t) /\ UpToDate(s) /\ Decidable(s) /\ t \in Nat
  <2>1. t \in Nat
    BY DEF FeedInv, FeedRows
  <2>2. Decided(s, t)
    BY <1>2, MatchIsDecided
  <2> QED BY <1>2, <2>1, <2>2 DEF Match
<1>3. ASSUME NEW s \in Subjects, NEW k \in BOOLEAN, BookNew(s, k)
      PROVE  UpToDate(s) /\ Decidable(s) /\ \E t \in Nat : Decided(s, t)
  <2>1. \E t \in Nat : Decided(s, t)
    BY <1>3, BookNewIsDecided
  <2> QED BY <1>3, <2>1 DEF BookNew
<1>4. ASSUME NEW s \in Subjects, RevokeAssociation(s)
      PROVE  DOMAIN associations' = DOMAIN associations
  BY <1>4, RevocationIsThere DEF RevokeAssociation
<1>5. CASE UNCHANGED associations
  BY <1>5
<1> QED BY <1>1, <1>2, <1>3, <1>4, <1>5
     DEF FeedNext, feedVars, LoadPlan, Exclude, Remove, Observe, Bind, ProcessReceipt, DoubtReceipt,
         ApproveReceipt, AttachReceipt, BookStatementLine, EditLedger, ClearInto, Seal, Unseal

(* Whatever page the operator acts on and whatever has happened since it was *)
(* loaded, a booking or match rests on the evidence and on every equal       *)
(* transaction that the page showed.                                         *)
THEOREM DecisionsRestOnPages == FeedSpec => DecidedAsShown
<1>1. FeedInv /\ [FeedNext]_feedVars =>
         \A i \in DOMAIN associations' \ DOMAIN associations :
            LET a == associations'[i]
                o == observations[a.observation]
            IN  /\ a.observation = pages[a.subject].observation
                /\ \A t \in Candidates(bindings[a.binding].account, o.amount, o.day) :
                       Shown(t) \in pages[a.subject].candidates
  BY NewDecisionsRestOnPages DEF RestsOnPage
<1> QED BY <1>1, FeedInvariant, PTL DEF FeedSpec, DecidedAsShown
=============================================================================
