----------------------------- MODULE BankConnection -----------------------------
(***************************************************************************)
(* A household member's bank connections (app/banking/service.py): consent,*)
(* hosted Link sessions, the one-shot token exchange, account discovery,   *)
(* cursor windows and revocation.                                          *)
(*                                                                         *)
(* The routes run in a thread pool, and every call to the provider is made *)
(* without a lock, on a snapshot that was read before.  An action is one   *)
(* write transaction, one private file operation, or one request together  *)
(* with the policy check that PlaidClient.post makes right before it.      *)
(*                                                                         *)
(* The module has one active member, with banking enabled.  A connection   *)
(* is named by the Link session that created it, and so are its item and   *)
(* its access token.  A cursor is the number of the pages that moved it.    *)
(* Accounts and their bindings are left out.                               *)
(***************************************************************************)
EXTENDS Integers, Sequences

CONSTANTS
    Callers,        \* requests that are served at the same time
    MaxSessions,    \* bound on Link sessions
    Synced,         \* bound: the connections whose feed is read
    MaxConsents,    \* bound on consent rows
    MaxWindows,     \* bound on the windows of a connection
    MaxRecords,     \* bound on the pages that a connection reads
    MaxLapses,      \* bound on logins that lapse at the provider
    MaxCrashes      \* bound on crashes

ASSUME BankBoundAssumption ==
    /\ MaxSessions \in Nat
    /\ MaxConsents \in Nat
    /\ MaxWindows \in Nat
    /\ MaxRecords \in Nat
    /\ MaxLapses \in Nat
    /\ MaxCrashes \in Nat

ASSUME SyncedAssumption == Synced \subseteq 1..MaxSessions

VARIABLES
    latest,       \* the latest row of bank_latest
    sessions,     \* sessions[s]: the row of bank_link_sessions
    connections,  \* connections[c]: the row of bank_connections
    windows,      \* windows[c]: the rows of bank_windows
    tokens,       \* access tokens in the private store
    items,        \* items that are alive at the provider
    exchanged,    \* exchanged[s]: exchanges of s's public token that were sent
    lapsed,       \* items whose login the provider no longer accepts
    caller,       \* caller[t]: the call that t serves and how far it is
    used          \* lapses and crashes so far

database == <<latest, sessions, connections, windows>>
provider == <<items, exchanged, lapsed>>
vars == <<database, tokens, provider, caller, used>>

Sessions == 1..MaxSessions
Session == [state : {"none", "pending", "exchanging", "uncertain", "complete"},
            consent : Nat, repairs : Sessions \cup {0}, expired : BOOLEAN, finished : BOOLEAN]
Connection == [state : {"none", "active", "needs_repair", "removing", "remove_uncertain", "removed"},
               generation : Nat, cursor : Nat]
Window == [generation : Nat, from : Nat, to : Nat]
Finishing == {"verifying", "claimed", "exchanged", "stored"}
Tending == {"syncing", "fetched", "refused",
            "disconnecting", "removing", "revoked", "unrevoked", "forgetting"}
Positions == {"idle", "linking"} \cup Finishing \cup Tending
Call == [pc : Positions, session : Sessions \cup {0}, connection : Sessions \cup {0},
         seen : Connection, consent : Nat, position : Nat]

\* The call names the rows that it works on.
Names(call) ==
    /\ call.pc \in Finishing => call.session # 0
    /\ call.pc \in Tending => call.connection # 0

TypeOK ==
    /\ latest \in [id : Nat, granted : BOOLEAN]
    /\ sessions \in [Sessions -> Session]
    /\ connections \in [Sessions -> Connection]
    /\ windows \in [Sessions -> Seq(Window)]
    /\ tokens \subseteq Sessions
    /\ items \subseteq Sessions
    /\ exchanged \in [Sessions -> Nat]
    /\ lapsed \subseteq Sessions
    /\ caller \in [Callers -> Call]
    /\ \A t \in Callers : Names(caller[t])
    /\ used \in [lapses : Nat, crashes : Nat]

NoSession == [state |-> "none", consent |-> 0, repairs |-> 0, expired |-> FALSE, finished |-> FALSE]
NoConnection == [state |-> "none", generation |-> 0, cursor |-> 0]
Idle == [pc |-> "idle", session |-> 0, connection |-> 0, seen |-> NoConnection,
         consent |-> 0, position |-> 0]

Init ==
    /\ latest = [id |-> 0, granted |-> FALSE]
    /\ sessions = [s \in Sessions |-> NoSession]
    /\ connections = [c \in Sessions |-> NoConnection]
    /\ windows = [c \in Sessions |-> <<>>]
    /\ tokens = {}
    /\ items = {}
    /\ exchanged = [s \in Sessions |-> 0]
    /\ lapsed = {}
    /\ caller = [t \in Callers |-> Idle]
    /\ used = [lapses |-> 0, crashes |-> 0]

-----------------------------------------------------------------------------
(* Checks *)

\* _check_consent: the member's latest row grants, and is the given one.
Granted == latest.granted
GrantedBy(id) == Granted /\ latest.id = id

\* Defect: any consent of the member will do.
GrantedAnyhow(t) == Granted

\* _policy: the consent that the call started with still stands.
ConsentHolds(t) == GrantedBy(caller[t].consent)

\* _check_connection: the row is the one that the call read.
Unchanged(t) == connections[caller[t].connection] = caller[t].seen

Unresolved(s) ==
    \/ sessions[s].state \in {"exchanging", "uncertain"}
    \/ sessions[s].state = "pending" /\ ~sessions[s].expired

At(t, pc) == caller[t].pc = pc
Goes(t, pc) == caller' = [caller EXCEPT ![t].pc = pc]
Returns(t) == caller' = [caller EXCEPT ![t] = Idle]

\* A call that reads the row of connection c.
Reads(t, pc, c) ==
    caller' = [caller EXCEPT ![t] = [Idle EXCEPT !.pc = pc, !.connection = c,
                                        !.seen = connections[c],
                                        !.position = connections[c].cursor]]

-----------------------------------------------------------------------------
(* Consent *)

consent(granted) ==
    /\ latest.id < MaxConsents
    /\ latest' = [id |-> latest.id + 1, granted |-> granted]
    /\ UNCHANGED <<sessions, connections, windows, tokens, provider, caller, used>>

-----------------------------------------------------------------------------
(* start_link *)

BeginLink(t, c) ==
    /\ At(t, "idle")
    /\ Granted
    /\ \A s \in Sessions : ~Unresolved(s)
    /\ c # 0 => connections[c].state = "needs_repair"
    /\ caller' = [caller EXCEPT ![t] =
                     [Idle EXCEPT !.pc = "linking", !.connection = c, !.consent = latest.id,
                                  !.seen = IF c = 0 THEN NoConnection ELSE connections[c]]]
    /\ UNCHANGED <<database, tokens, provider, used>>

NextSession(s) ==
    /\ sessions[s].state = "none"
    /\ \A r \in Sessions : r < s => sessions[r].state # "none"

CommitLink(t) ==
    /\ At(t, "linking")
    /\ ConsentHolds(t)
    /\ \A s \in Sessions : ~Unresolved(s)
    /\ caller[t].connection # 0 => Unchanged(t)
    /\ \E s \in Sessions :
          /\ NextSession(s)
          /\ sessions' = [sessions EXCEPT ![s] =
                             [state |-> "pending", consent |-> caller[t].consent,
                              repairs |-> caller[t].connection,
                              expired |-> FALSE, finished |-> FALSE]]
    /\ Returns(t)
    /\ UNCHANGED <<latest, connections, windows, tokens, provider, used>>

-----------------------------------------------------------------------------
(* finish_link *)

BeginFinish(t, s) ==
    /\ At(t, "idle")
    /\ sessions[s].state = "pending"
    /\ ~sessions[s].expired
    /\ GrantedBy(sessions[s].consent)
    /\ LET c == sessions[s].repairs IN
       /\ c # 0 => connections[c].state = "needs_repair"
       /\ caller' = [caller EXCEPT ![t] =
                        [Idle EXCEPT !.pc = "verifying", !.session = s, !.connection = c,
                                     !.seen = IF c = 0 THEN NoConnection ELSE connections[c],
                                     !.consent = sessions[s].consent]]
    /\ UNCHANGED <<database, tokens, provider, used>>

\* The provider reports the member's completion, and the session is claimed, once.
ClaimSession(t) ==
    /\ At(t, "verifying")
    /\ sessions[caller[t].session].finished
    /\ ConsentHolds(t)
    /\ caller[t].connection # 0 => Unchanged(t)
    /\ sessions[caller[t].session].state = "pending"
    /\ sessions' = [sessions EXCEPT ![caller[t].session].state = "exchanging"]
    /\ Goes(t, "claimed")
    /\ UNCHANGED <<latest, connections, windows, tokens, provider, used>>

\* A row in its next generation.
Moved(row, state) == [row EXCEPT !.state = state, !.generation = row.generation + 1]

CompleteRepair(t) ==
    /\ At(t, "claimed")
    /\ caller[t].connection # 0
    /\ ConsentHolds(t)
    /\ Unchanged(t)
    /\ connections' = [connections EXCEPT ![caller[t].connection] = Moved(@, "active")]
    /\ sessions' = [sessions EXCEPT ![caller[t].session].state = "complete"]
    /\ Returns(t)
    /\ UNCHANGED <<latest, windows, tokens, provider, used>>

\* The provider may have created the item even when its answer is lost.
Exchange(t) ==
    /\ At(t, "claimed")
    /\ caller[t].connection = 0
    /\ ConsentHolds(t)
    /\ exchanged' = [exchanged EXCEPT ![caller[t].session] = @ + 1]
    /\ items' = items \cup {caller[t].session}
    /\ Goes(t, "exchanged")
    /\ UNCHANGED <<database, tokens, lapsed, used>>

StoreToken(t) ==
    /\ At(t, "exchanged")
    /\ tokens' = tokens \cup {caller[t].session}
    /\ Goes(t, "stored")
    /\ UNCHANGED <<database, provider, used>>

CompleteLink(t) ==
    /\ At(t, "stored")
    /\ ConsentHolds(t)
    /\ connections' = [connections EXCEPT ![caller[t].session] =
                          [NoConnection EXCEPT !.state = "active"]]
    /\ sessions' = [sessions EXCEPT ![caller[t].session].state = "complete"]
    /\ Returns(t)
    /\ UNCHANGED <<latest, windows, tokens, provider, used>>

\* Whatever fails after the claim leaves the session uncertain.
GiveUp(t) ==
    /\ caller[t].pc \in {"claimed", "exchanged", "stored"}
    /\ sessions' = [sessions EXCEPT ![caller[t].session].state =
                       IF @ = "exchanging" THEN "uncertain" ELSE @]
    /\ Returns(t)
    /\ UNCHANGED <<latest, connections, windows, tokens, provider, used>>

-----------------------------------------------------------------------------
(* sync *)

BeginSync(t, c) ==
    /\ At(t, "idle")
    /\ Granted
    /\ connections[c].state = "active"
    /\ Len(windows[c]) < MaxWindows
    /\ Reads(t, "syncing", c)
    /\ UNCHANGED <<database, tokens, provider, used>>

\* One page, with the last check of the consent when it is the last; a login that
\* lapsed refuses it.
SyncPage(t) ==
    /\ At(t, "syncing")
    /\ Granted
    /\ Unchanged(t)
    /\ LET c == caller[t].connection
           p == caller[t].position IN
       /\ c \in items
       /\ \/ c \in lapsed /\ Goes(t, "refused")
          \/ c \notin lapsed /\ Goes(t, "fetched")
          \/ /\ c \notin lapsed
             /\ p < MaxRecords
             /\ \E pc \in {"syncing", "fetched"} :
                   caller' = [caller EXCEPT ![t] = [@ EXCEPT !.position = p + 1, !.pc = pc]]
    /\ UNCHANGED <<database, tokens, provider, used>>

Advanced(row, new) == [row EXCEPT !.cursor = new, !.generation = row.generation + 1]

AddWindow(t) ==
    LET c == caller[t].connection
        new == caller[t].position IN
    /\ windows' = [windows EXCEPT ![c] =
                      Append(@, [generation |-> caller[t].seen.generation + 1,
                                 from |-> caller[t].seen.cursor, to |-> new])]
    /\ connections' = [connections EXCEPT ![c] = Advanced(@, new)]

\* Defect: the window is committed whatever became of the row.
CommitAnyWindow(t) ==
    /\ At(t, "fetched")
    /\ connections[caller[t].connection].state = "active"
    /\ AddWindow(t)
    /\ Returns(t)
    /\ UNCHANGED <<latest, sessions, tokens, provider, used>>

CommitWindow(t) ==
    /\ At(t, "fetched")
    /\ connections[caller[t].connection].state = "active"
    /\ connections[caller[t].connection].generation = caller[t].seen.generation
    /\ connections[caller[t].connection].cursor = caller[t].seen.cursor
    /\ AddWindow(t)
    /\ Returns(t)
    /\ UNCHANGED <<latest, sessions, tokens, provider, used>>

NeedRepair(t) ==
    connections' = [connections EXCEPT ![caller[t].connection] = Moved(@, "needs_repair")]

\* ITEM_LOGIN_REQUIRED asks for a repair of the generation that it refused.
Refused(t) ==
    /\ At(t, "refused")
    /\ IF /\ connections[caller[t].connection].state = "active"
          /\ connections[caller[t].connection].generation = caller[t].seen.generation
       THEN NeedRepair(t) ELSE UNCHANGED connections
    /\ Returns(t)
    /\ UNCHANGED <<latest, sessions, windows, tokens, provider, used>>

-----------------------------------------------------------------------------
(* disconnect *)

BeginDisconnect(t, c) ==
    /\ At(t, "idle")
    /\ Granted
    /\ connections[c].state \in {"active", "needs_repair"}
    /\ Reads(t, "disconnecting", c)
    /\ UNCHANGED <<database, tokens, provider, used>>

MarkRemoving(t) ==
    /\ At(t, "disconnecting")
    /\ Unchanged(t)
    /\ connections' = [connections EXCEPT ![caller[t].connection] = Moved(@, "removing")]
    /\ caller' = [caller EXCEPT ![t] = [@ EXCEPT !.pc = "removing",
                                                 !.seen = Moved(caller[t].seen, "removing")]]
    /\ UNCHANGED <<latest, sessions, windows, tokens, provider, used>>

\* The request is refused by the policy, or sent; its answer may be lost.
Revoke(t) ==
    /\ At(t, "removing")
    /\ \/ /\ Granted
          /\ Unchanged(t)
          /\ items' = items \ {caller[t].connection}
          /\ \E pc \in {"revoked", "unrevoked"} : Goes(t, pc)
       \/ /\ Goes(t, "unrevoked")
          /\ UNCHANGED items
    /\ UNCHANGED <<database, tokens, exchanged, lapsed, used>>

SetState(c, state) == connections' = [connections EXCEPT ![c].state = state]

FinishRemoval(t) ==
    /\ At(t, "revoked")
    /\ SetState(caller[t].connection, "removed")
    /\ Goes(t, "forgetting")
    /\ UNCHANGED <<latest, sessions, windows, tokens, provider, used>>

RemovalUncertain(t) ==
    /\ At(t, "unrevoked")
    /\ SetState(caller[t].connection, "remove_uncertain")
    /\ Returns(t)
    /\ UNCHANGED <<latest, sessions, windows, tokens, provider, used>>

ForgetToken(t) ==
    /\ At(t, "forgetting")
    /\ tokens' = tokens \ {caller[t].connection}
    /\ Returns(t)
    /\ UNCHANGED <<database, provider, used>>

-----------------------------------------------------------------------------
(* Errors, the member, the provider and crashes *)

\* A refused check or a provider's error ends a call that has nothing to undo.
Fails(t) ==
    /\ caller[t].pc \in {"linking", "verifying", "disconnecting", "syncing", "fetched", "forgetting"}
    /\ Returns(t)
    /\ UNCHANGED <<database, tokens, provider, used>>

\* The member completes the hosted Link; for a repair this renews the login.
MemberFinishes(s) ==
    /\ sessions[s].state = "pending"
    /\ ~sessions[s].finished
    /\ sessions' = [sessions EXCEPT ![s].finished = TRUE]
    /\ lapsed' = lapsed \ {sessions[s].repairs}
    /\ UNCHANGED <<latest, connections, windows, tokens, items, exchanged,
                   caller, used>>

SessionExpires(s) ==
    /\ sessions[s].state = "pending"
    /\ ~sessions[s].expired
    /\ sessions' = [sessions EXCEPT ![s].expired = TRUE]
    /\ UNCHANGED <<latest, connections, windows, tokens, provider, caller, used>>

LoginLapses(c) ==
    /\ c \in items \ lapsed
    /\ used.lapses < MaxLapses
    /\ used' = [used EXCEPT !.lapses = @ + 1]
    /\ lapsed' = lapsed \cup {c}
    /\ UNCHANGED <<database, tokens, items, exchanged, caller>>

Crash ==
    /\ used.crashes < MaxCrashes
    /\ \E t \in Callers : ~At(t, "idle")
    /\ used' = [used EXCEPT !.crashes = @ + 1]
    /\ caller' = [t \in Callers |-> Idle]
    /\ UNCHANGED <<database, tokens, provider>>

Linking(t) ==
    \/ \E c \in Sessions \cup {0} : BeginLink(t, c)
    \/ CommitLink(t)
    \/ \E s \in Sessions : BeginFinish(t, s)
    \/ ClaimSession(t)
    \/ CompleteRepair(t)
    \/ Exchange(t)
    \/ StoreToken(t)
    \/ CompleteLink(t)
    \/ GiveUp(t)

Syncing(t) ==
    \/ \E c \in Synced : BeginSync(t, c)
    \/ SyncPage(t)
    \/ CommitWindow(t)
    \/ Refused(t)

Disconnecting(t) ==
    \/ \E c \in Sessions : BeginDisconnect(t, c)
    \/ MarkRemoving(t)
    \/ Revoke(t)
    \/ FinishRemoval(t)
    \/ RemovalUncertain(t)
    \/ ForgetToken(t)

Environment ==
    \/ \E granted \in BOOLEAN : consent(granted)
    \/ \E s \in Sessions : MemberFinishes(s) \/ SessionExpires(s)
    \/ \E c \in Sessions : LoginLapses(c)
    \/ Crash

Next ==
    \/ \E t \in Callers : Linking(t) \/ Syncing(t) \/ Disconnecting(t) \/ Fails(t)
    \/ Environment

Spec == Init /\ [][Next]_vars

-----------------------------------------------------------------------------
(* Safety *)

(* "Once claimed, never repeat public-token exchange, including process      *)
(* crashes": whichever calls finish a session, its token is sent once.       *)
ExchangedOnce == \A s \in Sessions : exchanged[s] <= 1

(* Concurrent syncs, repairs and late pages neither skip nor repeat a record *)
(* of the provider: the windows of a connection follow each other without a  *)
(* gap, under growing generations, up to its cursor.                         *)
WindowsChain ==
    \A c \in Sessions :
        LET w == windows[c] IN
        /\ \A i \in 1..Len(w) :
              /\ w[i].from = (IF i = 1 THEN 0 ELSE w[i - 1].to)
              /\ w[i].generation <= connections[c].generation
              /\ i > 1 => w[i].generation > w[i - 1].generation
        /\ connections[c].cursor = (IF w = <<>> THEN 0 ELSE w[Len(w)].to)

(* A connection that is not removed can be read, repaired and revoked: its   *)
(* access token is in the private store.                                     *)
TokenKept ==
    \A c \in Sessions : connections[c].state \notin {"none", "removed"} => c \in tokens

(* The household is told that a connection is removed only when the provider *)
(* has revoked the access.                                                   *)
RemovedIsRevoked == \A c \in Sessions : connections[c].state = "removed" => c \notin items

(* No late answer, repair or second disconnect brings back a connection that *)
(* is being revoked, or changes the outcome of the revocation.               *)
RevocationFinal ==
    [][\A c \in Sessions :
           /\ connections[c].state = "removing" =>
                  connections'[c].state \in {"removing", "remove_uncertain", "removed"}
           /\ connections[c].state \in {"remove_uncertain", "removed"} =>
                  connections'[c] = connections[c]]_vars

(* A connection becomes active only under the consent that its Link session  *)
(* was started with, with no withdrawal in between, not even one that was    *)
(* taken back.                                                               *)
ActivatedUnderConsent ==
    [][\A s \in Sessions :
           /\ sessions'[s].state = "complete"
           /\ sessions[s].state # "complete"
           => Granted /\ latest.id = sessions[s].consent]_vars

(* A refusal that the provider gave before a repair does not ask for another *)
(* repair: the login is lapsed, or its renewal is not yet taken over.        *)
RepairNotUndone ==
    [][\A c \in Sessions :
           /\ connections[c].state = "active"
           /\ connections'[c].state = "needs_repair"
           => \/ c \in lapsed
              \/ \E s \in Sessions : /\ sessions[s].repairs = c
                                     /\ sessions[s].state = "pending"
                                     /\ sessions[s].finished]_vars

(* What every state of the tables and of the private store keeps together,    *)
(* whatever calls interleave, crash or lose their answer: a token is sent     *)
(* once, the access of a connection can be revoked until it is, and the       *)
(* records of the provider were taken over without a gap.                     *)
ConnectionHolds ==
    /\ TypeOK
    /\ ExchangedOnce
    /\ TokenKept
    /\ RemovedIsRevoked
    /\ WindowsChain

(* No answer that comes late undoes what happened while the call was under    *)
(* way: a revocation, a withdrawal of consent or a repair.                    *)
LateAnswersHarmless == RevocationFinal /\ ActivatedUnderConsent /\ RepairNotUndone
=============================================================================
