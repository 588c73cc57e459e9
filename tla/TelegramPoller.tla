---------------------------- MODULE TelegramPoller ----------------------------
(***************************************************************************)
(* The Telegram channel (app/channels/telegram.py): one task polls for     *)
(* updates, handles a batch one by one and acknowledges an update by the   *)
(* offset of its next poll.  The offset and the failure counts live in     *)
(* memory, so a restart begins at what the server was last told.  Every    *)
(* request first asks whether third-party transport is allowed, and        *)
(* consent may be withdrawn between any two requests.                      *)
(***************************************************************************)
EXTENDS ChannelCapture, FiniteSets, Sequences

CONSTANTS
    Sent,          \* how many updates the chats send
    Authorized,    \* updates of the configured chat
    WithFile,      \* updates that carry a photo or a document
    WithPath,      \* updates for whose file the server names a path
    StrictLocal,   \* the setting that forbids every third-party transport
    MaxDecisions   \* bound on the decisions about consent

Updates == 1..Sent
DeadLetter == 3
Message(u) == <<"telegram", u>>

ASSUME PollerAssumption ==
    /\ Sent \in Nat
    /\ \A u \in Updates : Message(u) \in Occurrences
    /\ Authorized \subseteq Updates
    /\ WithFile \subseteq Updates
    /\ WithPath \subseteq WithFile
    /\ StrictLocal \in BOOLEAN
    /\ MaxDecisions \in Nat

VARIABLES
    arrived,       \* updates the server has received
    confirmed,     \* the server has forgotten the updates below it
    decisions,     \* the operator's decisions about the transport: consented or not
    poller,        \* the polling task: where it is, its batch, offset and counts
    dead,          \* updates given up after three failures
    told           \* told[u]: the answers the chat got to update u

pollerVars == <<arrived, confirmed, decisions, poller, dead, told>>

Positions == {"poll", "next", "file", "download", "capture", "wait", "send"}
Replies == {"help", "staged", "duplicate", "classified", "processing"}

\* offset 0 stands for None; next..last is what is left of the batch.
PollerState == [pc : Positions, offset : 0..(Sent + 1), next : 1..(Sent + 1), last : 0..Sent,
                failures : [Updates -> 0..DeadLetter], reply : Replies]

PollerTypeOK ==
    /\ arrived \in 0..Sent
    /\ confirmed \in 1..(Sent + 1)
    /\ decisions \in Seq(BOOLEAN) /\ Len(decisions) <= MaxDecisions
    /\ poller \in PollerState
    /\ dead \subseteq Updates
    /\ told \in [Updates -> SUBSET Replies]

Fresh == [pc |-> "poll", offset |-> 0, next |-> 1, last |-> 0,
          failures |-> [u \in Updates |-> 0], reply |-> "help"]

PollerInit ==
    /\ arrived = 0
    /\ confirmed = 1
    /\ decisions = <<>>
    /\ poller = Fresh
    /\ dead = {}
    /\ told = [u \in Updates |-> {}]

-----------------------------------------------------------------------------
(* The chat and the operator *)

Send ==
    /\ arrived < Sent
    /\ arrived' = arrived + 1
    /\ UNCHANGED <<confirmed, decisions, poller, dead, told>>

RecordDecision(decision) ==
    /\ Len(decisions) < MaxDecisions
    /\ decisions' = Append(decisions, decision)
    /\ UNCHANGED <<arrived, confirmed, poller, dead, told>>

\* Only the last decision counts.
CurrentConsent == decisions # <<>> /\ decisions[Len(decisions)]

Allowed == ~StrictLocal /\ CurrentConsent

-----------------------------------------------------------------------------
(* The polling task *)

Waits(pc) == poller.pc = pc
Goes(pc) == poller' = [poller EXCEPT !.pc = pc]
Current == poller.next
Larger(m, n) == IF m > n THEN m ELSE n

\* Below the offset the server forgets; without one it repeats what is left.
GetUpdates ==
    /\ Waits("poll") /\ Allowed
    /\ confirmed' = Larger(confirmed, poller.offset)
    /\ IF confirmed' <= arrived
       THEN poller' = [poller EXCEPT !.pc = "next", !.next = confirmed', !.last = arrived]
       ELSE poller' = poller
    /\ UNCHANGED <<arrived, decisions, dead, told>>

\* Defect: the whole batch is acknowledged with its first update.
BatchOffset(u) == poller.last + 1

NextOffset(u) == Larger(poller.offset, u + 1)

\* Of the configured chat.
Mine(u) == u \in Authorized

\* A document, or the largest photo.
HasFile(u) == u \in WithFile

\* The update is done: its failures are forgotten and the next one begins.
Acknowledged ==
    poller' = [poller EXCEPT !.offset = NextOffset(Current), !.failures[Current] = 0,
                             !.next = Current + 1,
                             !.pc = IF Current < poller.last THEN "next" ELSE "poll"]

\* A refusal by the policy leaves the batch and acknowledges nothing.
Blocked ==
    /\ ~Allowed
    /\ Goes("poll")
    /\ UNCHANGED <<arrived, confirmed, decisions, dead, told>>

LastStrike(u) == poller.failures[u] + 1 >= DeadLetter

\* Defect: the failures are counted per batch.
FailedForgetful ==
    /\ Goes("poll")
    /\ UNCHANGED <<arrived, confirmed, decisions, dead, told>>

\* An exception ends the batch.  The third one of an update acknowledges it.
Failed ==
    /\ IF LastStrike(Current)
       THEN /\ poller' = [poller EXCEPT !.offset = NextOffset(Current),
                                        !.failures[Current] = 0, !.pc = "poll"]
            /\ dead' = dead \cup {Current}
       ELSE /\ poller' = [poller EXCEPT !.failures[Current] = @ + 1, !.pc = "poll"]
            /\ dead' = dead
    /\ UNCHANGED <<arrived, confirmed, decisions, told>>

\* A request is refused, fails, or is answered.
Request(answered) ==
    \/ Blocked
    \/ Allowed /\ Failed
    \/ Allowed /\ answered /\ UNCHANGED <<arrived, confirmed, decisions, dead>>

Handle ==
    /\ Waits("next")
    /\ \/ Blocked
       \/ /\ Allowed
          /\ \/ ~Mine(Current) /\ Acknowledged
             \/ Mine(Current) /\ HasFile(Current) /\ Goes("file")
             \/ /\ Mine(Current) /\ ~HasFile(Current)
                /\ poller' = [poller EXCEPT !.pc = "send", !.reply = "help"]
          /\ UNCHANGED <<arrived, confirmed, decisions, dead, told>>

GetFile ==
    /\ Waits("file")
    /\ Request(/\ IF Current \in WithPath THEN Goes("download")
                  ELSE poller' = [poller EXCEPT !.pc = "send", !.reply = "staged"]
               /\ UNCHANGED told)

Download ==
    /\ Waits("download")
    /\ Request(Goes("capture") /\ UNCHANGED told)

CaptureUpdate ==
    /\ Waits("capture")
    /\ \/ /\ Captured(Message(Current))
          /\ poller' = IF Duplicate(Message(Current))
                       THEN [poller EXCEPT !.pc = "send", !.reply = "duplicate"]
                       ELSE [poller EXCEPT !.pc = "wait"]
          /\ UNCHANGED <<arrived, confirmed, decisions, dead, told>>
       \/ Failed /\ UNCHANGED captureTables

\* What the job of a new document has come to when the wait ends: done, left for
\* review, or still under way.
Verdicts == {"classified", "staged", "processing"}

WaitForReply ==
    /\ Waits("wait")
    /\ \E reply \in Verdicts :
           poller' = [poller EXCEPT !.pc = "send", !.reply = reply]
    /\ UNCHANGED <<arrived, confirmed, decisions, dead, told>>

SendMessage ==
    /\ Waits("send")
    /\ Request(Acknowledged /\ told' = [told EXCEPT ![Current] = @ \cup {poller.reply}])

PollerStops ==
    /\ poller' = Fresh
    /\ UNCHANGED <<arrived, confirmed, decisions, dead, told>>

PollerStep == GetUpdates \/ Handle \/ GetFile \/ Download \/ WaitForReply \/ SendMessage

-----------------------------------------------------------------------------
(* Properties *)

\* The server is told to forget an update only when it was captured, needed no
\* capture, or failed three times: neither a batch that breaks off, nor a refusal
\* of the policy, nor a crash loses a receipt.
ForgottenIsSettled ==
    \A u \in Authorized \cap WithPath :
        u < Larger(confirmed, poller.offset) => submissions[Message(u)] > 0 \/ u \in dead

\* However often an update is delivered and handled, the chat hears one verdict of
\* the processing; every other answer says that the upload is known.
OneVerdict ==
    \A u \in Updates \cap WithPath :
        Cardinality(told[u] \cap Verdicts) <= 1

\* With consent given for good, every update is acknowledged in the end: a poison
\* update holds the ones behind it up three times at most.
UpdatesSettle ==
    (<>[]Allowed) => \A u \in Updates : arrived >= u ~> u < Larger(confirmed, poller.offset)
==============================================================================
