------------------------------- MODULE Channels -------------------------------
(***************************************************************************)
(* The capture channels of one service (app/web/app.py lifespan): the      *)
(* inbox, the Telegram poller or both, as far as the settings configure    *)
(* them, over the same documents and the same process.                     *)
(***************************************************************************)
EXTENDS Inbox, TelegramPoller

CONSTANT Configurations   \* the sets of channels the settings may enable

VARIABLE configured       \* the channels of this installation

vars == <<configured, captureTables, processVars, inboxVars, pollerVars>>

TypeOK ==
    /\ configured \in Configurations
    /\ CaptureTypeOK
    /\ InboxTypeOK
    /\ PollerTypeOK

Init ==
    /\ configured \in Configurations
    /\ CaptureInit
    /\ InboxInit
    /\ PollerInit

-----------------------------------------------------------------------------

Senders ==
    /\ \/ "inbox" \in configured /\ Sending /\ UNCHANGED pollerVars
       \/ "telegram" \in configured /\ Send /\ UNCHANGED inboxVars
    /\ UNCHANGED <<configured, captureTables, processVars>>

Operator ==
    \/ /\ \E c \in documents : RemoveDocument(c)
       /\ UNCHANGED <<configured, inboxVars, pollerVars>>
    \/ /\ "telegram" \in configured
       /\ \E decision \in BOOLEAN : RecordDecision(decision)
       /\ UNCHANGED <<configured, captureTables, processVars, inboxVars>>

InboxWorks ==
    /\ up /\ "inbox" \in configured
    /\ \/ InboxStep /\ UNCHANGED captureTables
       \/ InboxCapture
    /\ UNCHANGED <<configured, processVars, pollerVars>>

PollerWorks ==
    /\ up /\ "telegram" \in configured
    /\ \/ PollerStep /\ UNCHANGED captureTables
       \/ CaptureUpdate
    /\ UNCHANGED <<configured, processVars, inboxVars>>

\* A crash, or a shutdown that cancels what is under way after its grace period.
Stop ==
    /\ up /\ restarts < MaxRestarts
    /\ up' = FALSE
    /\ restarts' = restarts + 1
    /\ InboxStops
    /\ PollerStops
    /\ UNCHANGED <<configured, captureTables, removals>>

Start ==
    /\ ~up
    /\ up' = TRUE
    /\ InboxStarts
    /\ UNCHANGED <<configured, captureTables, restarts, removals, pollerVars>>

Next == Senders \/ Operator \/ InboxWorks \/ PollerWorks \/ Stop \/ Start

Spec == Init /\ [][Next]_vars

\* The service is started again, and the polling task and the network go on.
FairSpec == Spec /\ WF_vars(Start) /\ WF_vars(PollerWorks)

-----------------------------------------------------------------------------

\* Whatever a channel repeats, after a crash, a redelivery or for a second task,
\* one thing it saw has one submission.
OneSubmission == \A o \in Occurrences : submissions[o] <= 1

\* Every repetition is recognised: one submission and one verdict for what was
\* seen once, and no file is given up for the failures of another.
SeenOnce == TypeOK /\ OneSubmission /\ OneVerdict /\ QuarantineEarned

\* No receipt is lost between a channel and the captures: what is put away, left
\* lying or acknowledged to the server was captured or has failed itself.
NothingLost == ProcessedIsCaptured /\ NothingForgotten /\ ForgottenIsSettled
==============================================================================
