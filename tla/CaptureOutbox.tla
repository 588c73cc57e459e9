----------------------------- MODULE CaptureOutbox -----------------------------
(***************************************************************************)
(* The device's outbox (app/web/static/capture-outbox.js,                  *)
(* capture-store.js, sw.js): originals wait in IndexedDB until the server  *)
(* acknowledges them.  A page and the service worker drain the same        *)
(* records; a claim leases a record for a minute, and answers are applied  *)
(* only to a record that is still being sent.                              *)
(*                                                                         *)
(* An action is one IndexedDB transaction or one synchronous stretch       *)
(* between awaits.  Clocks are the booleans due and leased.  What the      *)
(* server makes of a stored original is not part of this module: "saved"   *)
(* stands for it and the states that follow it.                            *)
(***************************************************************************)
EXTENDS Integers, FiniteSets

CONSTANTS
    MaxCaptures,      \* bound on the originals that are captured
    MaxAutoAttempts,  \* MAX_AUTO_ATTEMPTS
    BatchSize,        \* uploads of one drain; 20 in the code
    Devices,          \* whether the browser has background sync, and how many
                      \* originals its user captures at most
    MaxReloads,       \* bound on reloads and crashes of the page
    MaxRemovals,      \* bound on removals by the user
    MaxRetries,       \* bound on manual retries
    MaxOutages        \* bound on losses of the connection and deaths of the worker

ASSUME OutboxAssumption ==
    /\ {MaxCaptures, MaxAutoAttempts, BatchSize} \subseteq Nat \ {0}
    /\ {MaxReloads, MaxRemovals, MaxRetries, MaxOutages} \subseteq Nat
    /\ Devices \subseteq [sync : BOOLEAN, captures : 1..MaxCaptures]

Captures == 1..MaxCaptures    \* in the order of their createdAt

VARIABLES
    device,     \* the device, one of Devices
    records,    \* the object store: a record for every capture
    added,      \* captures so far
    page,       \* the page's drain
    soon,       \* a call of drain is queued in the page
    timer,      \* the retry the page's timer waits for, 0 without a timer
    worker,     \* the service worker's drain
    sync,       \* a background sync is registered
    online,
    stored,     \* captures the server has committed
    late,       \* captures with a request that may still reach the server
    used        \* how much of each bound is used up

outboxVars == <<device, records, added, page, soon, timer, worker, sync, online, stored, late, used>>

Record == [state : {"absent", "pending", "sending", "retry", "saved", "failed"},
           file : BOOLEAN, attempts : 0..MaxAutoAttempts, auto : BOOLEAN,
           due : BOOLEAN, leased : BOOLEAN]
Answers == {"none", "ack", "transient", "refused", "lost"}
Sender == [pc : {"closed", "idle", "claim", "sending", "answered", "schedule", "finish"},
           id : 0..MaxCaptures, attempts : 0..MaxAutoAttempts, answer : Answers,
           sent : 0..BatchSize]

OutboxTypeOK ==
    /\ device \in Devices
    /\ records \in [Captures -> Record]
    /\ added \in 0..MaxCaptures
    /\ page \in Sender /\ worker \in Sender
    /\ soon \in BOOLEAN /\ sync \in BOOLEAN /\ online \in BOOLEAN
    /\ timer \in 0..MaxCaptures
    /\ stored \subseteq Captures /\ late \subseteq Captures
    /\ used \in [reloads : 0..MaxReloads, removals : 0..MaxRemovals,
                 retries : 0..MaxRetries, outages : 0..MaxOutages]

Absent == [state |-> "absent", file |-> FALSE, attempts |-> 0, auto |-> FALSE,
           due |-> FALSE, leased |-> FALSE]
Created == [Absent EXCEPT !.state = "pending", !.file = TRUE, !.auto = TRUE]
SenderAt(pc) == [pc |-> pc, id |-> 0, attempts |-> 0, answer |-> "none", sent |-> 0]

OutboxInit ==
    /\ device \in Devices
    /\ records = [r \in Captures |-> Absent]
    /\ added = 0
    /\ page = SenderAt("closed")
    /\ soon = FALSE
    /\ timer = 0
    /\ worker = SenderAt("idle")
    /\ sync = FALSE
    /\ online = TRUE
    /\ stored = {}
    /\ late = {}
    /\ used = [reloads |-> 0, removals |-> 0, retries |-> 0, outages |-> 0]

-----------------------------------------------------------------------------
(* The store *)

Expired(r) == records[r].state = "sending" /\ ~records[r].leased

RetryWaits(r) == records[r].state = "retry" /\ records[r].auto

\* recoverExpiredLeases
Recovered ==
    [r \in Captures |->
        IF Expired(r) THEN [records[r] EXCEPT !.state = "pending"] ELSE records[r]]

Due(r, future) ==
    \/ Expired(r)
    \/ records[r].state = "pending"
    \/ RetryWaits(r) /\ (future \/ records[r].due)

DueCaptures(future) == {r \in Captures : Due(r, future)}

Oldest(R) == CHOOSE r \in R : \A q \in R : r <= q

OneMore(n) == IF n < MaxAutoAttempts THEN n + 1 ELSE n

\* claimDueCapture: the record, leased to the sender s that goes on with it.
Claimed(r) ==
    [records EXCEPT ![r].state = "sending", ![r].leased = TRUE,
                    ![r].attempts = OneMore(@)]
Claims(s, r) ==
    [s EXCEPT !.pc = "sending", !.id = r, !.attempts = OneMore(records[r].attempts),
              !.sent = @ + 1]

-----------------------------------------------------------------------------
(* Answers *)

\* retryPatch works on the attempts of the claim, not of the record as it is now.
Retried(rec, attempts) ==
    [rec EXCEPT !.state = "retry", !.leased = FALSE, !.due = FALSE,
                !.auto = attempts < MaxAutoAttempts]

Acknowledged(rec) ==
    [rec EXCEPT !.state = "saved", !.file = FALSE, !.leased = FALSE, !.auto = FALSE,
                !.due = FALSE]

Refused(rec) ==
    [rec EXCEPT !.state = "failed", !.leased = FALSE, !.auto = FALSE, !.due = FALSE]

\* Defect: a refused capture is cleared from the device.
RefusalClears(rec, s) ==
    CASE s.answer = "ack"     -> Acknowledged(rec)
      [] s.answer = "refused" -> [Refused(rec) EXCEPT !.file = FALSE]
      [] OTHER                -> Retried(rec, s.attempts)

Answered(rec, s) ==
    CASE s.answer = "ack"     -> Acknowledged(rec)
      [] s.answer = "refused" -> Refused(rec)
      [] OTHER                -> Retried(rec, s.attempts)

\* Defect: the answer is applied to the record whatever it is by now.
MutateUnfenced(s) == records' = [records EXCEPT ![s.id] = Answered(@, s)]

\* mutateState: an answer that comes after another one changes nothing.
MutateState(s) ==
    IF records[s.id].state = "sending"
    THEN records' = [records EXCEPT ![s.id] = Answered(@, s)]
    ELSE UNCHANGED records

Gone(s) == records[s.id].state = "absent"

\* A request reaches the server and is answered, is refused, or goes missing on
\* either way; the page also gives up on one that is still under way.
Exchange(s) ==
    \E answer \in Answers \ {"none"} :
        /\ answer = "lost" \/ online
        /\ s' = [s EXCEPT !.pc = "answered", !.answer = answer]
        /\ CASE answer = "ack"  -> stored' = stored \cup {s.id} /\ UNCHANGED late
             [] answer = "lost" -> late' = late \cup {s.id} /\ UNCHANGED stored
             [] OTHER           -> UNCHANGED <<stored, late>>

-----------------------------------------------------------------------------
(* The page *)

Open == page.pc # "closed"

\* registerBackgroundSync
Registered == sync \/ device.sync

\* A call of drain returns at once while another drain runs, and offline.
CallDrain ==
    IF page.pc = "idle" /\ online
    THEN page' = SenderAt("claim") /\ records' = Recovered
    ELSE UNCHANGED <<page, records>>

RunQueuedDrain ==
    /\ soon
    /\ soon' = FALSE
    /\ CallDrain
    /\ UNCHANGED <<device, added, timer, worker, sync, online, stored, late, used>>

TimerFires ==
    /\ timer # 0
    /\ RetryWaits(timer) => records[timer].due
    /\ timer' = 0
    /\ CallDrain
    /\ UNCHANGED <<device, added, soon, worker, sync, online, stored, late, used>>

PageClaims ==
    /\ page.pc = "claim"
    /\ IF page.sent < BatchSize /\ DueCaptures(FALSE) # {}
       THEN /\ records' = Claimed(Oldest(DueCaptures(FALSE)))
            /\ page' = Claims(page, Oldest(DueCaptures(FALSE)))
       ELSE /\ page' = [page EXCEPT !.pc = "schedule"]
            /\ UNCHANGED records
    /\ UNCHANGED <<device, added, soon, timer, worker, sync, online, stored, late, used>>

PageSends ==
    /\ page.pc = "sending"
    /\ Exchange(page)
    /\ UNCHANGED <<device, records, added, soon, timer, worker, sync, online, used>>

\* An update of a removed record throws, and the drain ends where it is.
PageAnswered ==
    /\ page.pc = "answered"
    /\ \/ /\ Gone(page)
          /\ page' = SenderAt("idle")
          /\ UNCHANGED <<records, sync>>
       \/ /\ ~Gone(page)
          /\ MutateState(page)
          /\ page' = [SenderAt("claim") EXCEPT !.sent = page.sent]
          /\ sync' = IF page.answer \in {"transient", "lost"} THEN Registered ELSE sync
    /\ UNCHANGED <<device, added, soon, timer, worker, online, stored, late, used>>

Waiting == {r \in Captures : RetryWaits(r)}

\* Defect: the drain relies on the timer that is set already.
KeepTimer ==
    /\ page.pc = "schedule"
    /\ page' = [page EXCEPT !.pc = "finish"]
    /\ UNCHANGED <<device, records, added, soon, timer, worker, sync, online, stored, late, used>>

\* scheduleRetry: the timer waits for the retry that is due first.
PageSchedules ==
    /\ page.pc = "schedule"
    /\ \/ Waiting = {} /\ timer' = 0
       \/ \E r \in Waiting :
             /\ (\E q \in Waiting : records[q].due) => records[r].due
             /\ timer' = r
    /\ page' = [page EXCEPT !.pc = "finish"]
    /\ UNCHANGED <<device, records, added, soon, worker, sync, online, stored, late, used>>

PageFinishes ==
    /\ page.pc = "finish"
    /\ soon' = (soon \/ DueCaptures(FALSE) # {})
    /\ page' = SenderAt("idle")
    /\ UNCHANGED <<device, records, added, timer, worker, sync, online, stored, late, used>>

\* init: leases that have run out are recovered, and the outbox is drained.
Load ==
    /\ ~Open
    /\ page' = SenderAt("idle")
    /\ records' = Recovered
    /\ soon' = TRUE
    /\ sync' = Registered
    /\ UNCHANGED <<device, added, timer, worker, online, stored, late, used>>

UnderWay(s) == IF s.pc = "sending" THEN {s.id} ELSE {}

Close ==
    /\ Open
    /\ used.reloads < MaxReloads
    /\ used' = [used EXCEPT !.reloads = @ + 1]
    /\ page' = SenderAt("closed")
    /\ soon' = FALSE
    /\ timer' = 0
    /\ late' = late \cup UnderWay(page)
    /\ UNCHANGED <<device, records, added, worker, sync, online, stored>>

-----------------------------------------------------------------------------
(* The user *)

Put ==
    /\ added < device.captures
    /\ added' = added + 1
    /\ records' = [records EXCEPT ![added + 1] = Created]
    /\ sync' = Registered

enqueueFiles ==
    /\ Open
    /\ Put
    /\ soon' = TRUE
    /\ UNCHANGED <<device, page, timer, worker, online, stored, late, used>>

\* The share target is served by the worker while no page is open.
acceptSharedFiles ==
    /\ ~Open
    /\ Put
    /\ UNCHANGED <<device, page, soon, timer, worker, online, stored, late, used>>

manualRetry(r) ==
    /\ Open
    /\ records[r].state \in {"pending", "retry", "failed"}
    /\ records[r].file
    /\ used.retries < MaxRetries
    /\ used' = [used EXCEPT !.retries = @ + 1]
    /\ records' = [records EXCEPT ![r].state = "pending", ![r].auto = TRUE,
                                  ![r].due = FALSE, ![r].leased = FALSE]
    /\ soon' = TRUE
    /\ sync' = Registered
    /\ UNCHANGED <<device, added, page, timer, worker, online, stored, late>>

\* The button belongs to the list as it was last drawn, in this tab or another:
\* the record may have been claimed since.
removeCapture(r) ==
    /\ Open
    /\ records[r].file
    /\ used.removals < MaxRemovals
    /\ used' = [used EXCEPT !.removals = @ + 1]
    /\ records' = [records EXCEPT ![r] = Absent]
    /\ UNCHANGED <<device, added, page, soon, timer, worker, sync, online, stored, late>>

-----------------------------------------------------------------------------
(* The service worker *)

SyncFires ==
    /\ sync
    /\ online
    /\ worker.pc = "idle"
    /\ sync' = FALSE
    /\ records' = Recovered
    /\ worker' = SenderAt("claim")
    /\ UNCHANGED <<device, added, page, soon, timer, online, stored, late, used>>

\* The worker does not wait for a retry's time.
WorkerClaims ==
    /\ worker.pc = "claim"
    /\ IF worker.sent < BatchSize /\ DueCaptures(TRUE) # {}
       THEN /\ records' = Claimed(Oldest(DueCaptures(TRUE)))
            /\ worker' = Claims(worker, Oldest(DueCaptures(TRUE)))
            /\ UNCHANGED sync
       ELSE /\ worker' = SenderAt("idle")
            /\ sync' = (sync \/ (worker.sent = BatchSize /\ DueCaptures(FALSE) # {}))
            /\ UNCHANGED records
    /\ UNCHANGED <<device, added, page, soon, timer, online, stored, late, used>>

WorkerSends ==
    /\ worker.pc = "sending"
    /\ Exchange(worker)
    /\ UNCHANGED <<device, records, added, page, soon, timer, sync, online, used>>

\* The event fails, and the browser tries it again or gives up.
EventFails ==
    /\ worker' = SenderAt("idle")
    /\ sync' \in {sync, TRUE}

WorkerAnswered ==
    /\ worker.pc = "answered"
    /\ \/ /\ Gone(worker)
          /\ UNCHANGED records
          /\ EventFails
       \/ /\ ~Gone(worker)
          /\ MutateState(worker)
          /\ IF worker.answer \in {"ack", "refused"}
             THEN worker' = [SenderAt("claim") EXCEPT !.sent = worker.sent] /\ UNCHANGED sync
             ELSE EventFails
    /\ UNCHANGED <<device, added, page, soon, timer, online, stored, late, used>>

WorkerDies ==
    /\ worker.pc # "idle"
    /\ used.outages < MaxOutages
    /\ used' = [used EXCEPT !.outages = @ + 1]
    /\ EventFails
    /\ late' = late \cup UnderWay(worker)
    /\ UNCHANGED <<device, records, added, page, soon, timer, online, stored>>

-----------------------------------------------------------------------------
(* Time, the network and the server *)

RetryFallsDue(r) ==
    /\ RetryWaits(r)
    /\ ~records[r].due
    /\ records' = [records EXCEPT ![r].due = TRUE]
    /\ UNCHANGED <<device, added, page, soon, timer, worker, sync, online, stored, late, used>>

LeaseLapses(r) ==
    /\ records[r].leased
    /\ records' = [records EXCEPT ![r].leased = FALSE]
    /\ UNCHANGED <<device, added, page, soon, timer, worker, sync, online, stored, late, used>>

\* A request whose sender gave up is committed after all.
LateRequestArrives(r) ==
    /\ r \in late
    /\ late' = late \ {r}
    /\ stored' = stored \cup {r}
    /\ UNCHANGED <<device, records, added, page, soon, timer, worker, sync, online, used>>

GoOffline ==
    /\ online
    /\ used.outages < MaxOutages
    /\ used' = [used EXCEPT !.outages = @ + 1]
    /\ online' = FALSE
    /\ UNCHANGED <<device, records, added, page, soon, timer, worker, sync, stored, late>>

GoOnline ==
    /\ ~online
    /\ online' = TRUE
    /\ soon' = (soon \/ Open)
    /\ UNCHANGED <<device, records, added, page, timer, worker, sync, stored, late, used>>

PageStep ==
    \/ RunQueuedDrain
    \/ PageClaims
    \/ PageSends
    \/ PageAnswered
    \/ PageSchedules
    \/ PageFinishes

WorkerStep == WorkerClaims \/ WorkerSends \/ WorkerAnswered

OutboxNext ==
    \/ PageStep
    \/ TimerFires
    \/ Load
    \/ Close
    \/ enqueueFiles
    \/ acceptSharedFiles
    \/ \E r \in Captures : manualRetry(r) \/ removeCapture(r)
    \/ SyncFires
    \/ WorkerStep
    \/ WorkerDies
    \/ \E r \in Captures : RetryFallsDue(r) \/ LeaseLapses(r)
    \/ \E r \in Captures : LateRequestArrives(r)
    \/ GoOffline
    \/ GoOnline

OutboxSpec == OutboxInit /\ [][OutboxNext]_outboxVars

(* Promises and timers run, time passes, the user opens the page again and    *)
(* the connection returns.  Nothing is assumed of the browser's sync events,  *)
(* which it may drop, nor of an upload's outcome.                             *)
Fairness ==
    /\ WF_outboxVars(PageStep)
    /\ WF_outboxVars(TimerFires)
    /\ WF_outboxVars(WorkerStep)
    /\ WF_outboxVars(Load)
    /\ WF_outboxVars(GoOnline)
    /\ \A r \in Captures : WF_outboxVars(RetryFallsDue(r)) /\ WF_outboxVars(LeaseLapses(r))

FairOutboxSpec == OutboxSpec /\ Fairness

-----------------------------------------------------------------------------
(* Safety *)

(* The device gives up its copy of an original only when the server has       *)
(* committed it, or when the user removes it.                                 *)
OriginalKept ==
    \A r \in Captures :
        records[r].state # "absent" /\ ~records[r].file => r \in stored

(* "Device originals remain Pending until committed server acknowledgement    *)
(* permits Saved": what is shown as saved is on the server.                   *)
SavedIsStored == \A r \in Captures : records[r].state = "saved" => r \in stored

(* An original is always somewhere: on the device, or committed on the        *)
(* server, which is what "saved" tells the user.                              *)
OriginalsHeld == OutboxTypeOK /\ OriginalKept /\ SavedIsStored

(* The answers of a sender whose lease ran out, or of a second sender, do not *)
(* take an acknowledgement back or revive a removed record.                   *)
AcknowledgementStays ==
    [][\A r \in Captures :
           /\ records[r].state = "saved" => records'[r] = records[r]
           /\ records[r].state = "absent" /\ r <= added => records'[r] = records[r]]_outboxVars

(* Liveness *)

\* The outbox is still to act on the record by itself.
Automatic(r) == records[r].state \in {"pending", "sending"} \/ RetryWaits(r)

\* The page sends alone and was not reloaded, and no record was removed.
Undisturbed == ~device.sync /\ used.reloads = 0 /\ used.removals = 0

(* "The original remains on this device; retrying automatically": a record    *)
(* that is not waiting for the user is sent, or handed to the user, in the    *)
(* end.  A reload, a removal or a stopped worker may leave a record waiting   *)
(* for the next upload, and two senders may take each other's lease for ever, *)
(* see the README.                                                            *)
RecordsSettle ==
    \A r \in Captures : Automatic(r) /\ Undisturbed ~> ~Automatic(r) \/ ~Undisturbed
=============================================================================
