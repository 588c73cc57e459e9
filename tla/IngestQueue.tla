----------------------------- MODULE IngestQueue -----------------------------
(***************************************************************************)
(* Receipts from upload to ledger: the durable job queue                   *)
(* (app/db/repo_jobs.py), the one worker that drains it                    *)
(* (app/workers/runner.py), the ingest handler (app/ingest/pipeline.py,    *)
(* app/ingest/promote.py) and the operator's review of what it could not   *)
(* book (app/web/routes/review.py, app/reconcile/feed.py).                 *)
(*                                                                         *)
(* A document stands for its bytes: captures deduplicate by hash, so there *)
(* is at most one document row per element of Docs.  Each action is one    *)
(* write transaction, except the handler's reads and model call, which     *)
(* hold no lock and are steps of their own.  The worker's position is      *)
(* volatile; everything else is in the database.                           *)
(***************************************************************************)
EXTENDS Integers, Sequences

CONSTANTS
    Docs,         \* contents that are uploaded as receipts
    MaxAttempts,  \* jobs.max_attempts
    MaxJobs,      \* bound on the jobs that are enqueued
    MaxFaults     \* bound on crashes and failed writes of a job's outcome

ASSUME AttemptsAssumption == MaxAttempts \in Nat \ {0}
ASSUME QueueBoundAssumption == MaxJobs \in Nat /\ MaxFaults \in Nat

VARIABLES
    docStatus,    \* source_documents.status; "absent" when there is no row
    failed,       \* documents with an extraction_failure note
    jobs,         \* rows of jobs, the index is the id
    worker,       \* where the worker loop is, and with which job
    extractions,  \* rows of ingest_extractions, the index is the id
    receipts,     \* receipts[d]: transactions booked for document d's receipt
    bank,         \* documents whose purchase also has a feed or statement transaction
    faults        \* crashes and failed outcome writes so far

database == <<docStatus, failed, jobs, extractions, receipts, bank>>
vars == <<docStatus, failed, jobs, worker, extractions, receipts, bank, faults>>

JobStates == {"pending", "running", "done", "dead"}
Job == [doc : Docs, linked : BOOLEAN, status : JobStates, attempts : Nat, ready : BOOLEAN]
Extraction == [doc : Docs, review : {"pending", "auto", "approved", "rejected", "deleted"},
               txn : {"none", "receipt", "separate", "bank"}]
Outcomes == {"good", "doubtful", "unsupported"}

TypeOK ==
    /\ docStatus \in [Docs -> {"absent", "staged", "needs_review", "processed", "archived"}]
    /\ failed \subseteq Docs
    /\ jobs \in Seq(Job)
    /\ worker \in [pc : {"down", "idle", "claimed", "reading", "extracted", "handled", "raised"},
                   job : Nat, outcome : Outcomes]
    /\ worker.pc \notin {"down", "idle"} => worker.job \in DOMAIN jobs
    /\ extractions \in Seq(Extraction)
    /\ receipts \in [Docs -> Nat]
    /\ bank \subseteq Docs
    /\ faults \in 0..MaxFaults

Down == [pc |-> "down", job |-> 0, outcome |-> "good"]
Idle == [pc |-> "idle", job |-> 0, outcome |-> "good"]

Init ==
    /\ docStatus = [d \in Docs |-> "absent"]
    /\ failed = {}
    /\ jobs = <<>>
    /\ worker = Down
    /\ extractions = <<>>
    /\ receipts = [d \in Docs |-> 0]
    /\ bank = {}
    /\ faults = 0

-----------------------------------------------------------------------------
(* The queue *)

NewJob(d) == [doc |-> d, linked |-> TRUE, status |-> "pending", attempts |-> 0, ready |-> TRUE]

Enqueue(d) ==
    /\ Len(jobs) < MaxJobs
    /\ jobs' = Append(jobs, NewJob(d))

Claimable(j) == jobs[j].status = "pending" /\ jobs[j].ready

Claimed(job) == [job EXCEPT !.status = "running", !.attempts = job.attempts + 1]

claim_next ==
    \E j \in DOMAIN jobs :
        /\ Claimable(j)
        /\ \A i \in DOMAIN jobs : Claimable(i) => j <= i
        /\ jobs' = [jobs EXCEPT ![j] = Claimed(@)]
        /\ worker' = [pc |-> "claimed", job |-> j, outcome |-> "good"]

Claim ==
    /\ worker.pc = "idle"
    /\ claim_next
    /\ UNCHANGED <<docStatus, failed, extractions, receipts, bank, faults>>

\* The 30 seconds of backoff are over.
BackoffElapses(j) ==
    /\ jobs[j].status = "pending"
    /\ ~jobs[j].ready
    /\ jobs' = [jobs EXCEPT ![j].ready = TRUE]
    /\ UNCHANGED <<docStatus, failed, worker, extractions, receipts, bank, faults>>

\* Defect: a restart leaves the interrupted job as it is.
NoRecovery == UNCHANGED jobs

recover_orphans ==
    jobs' = [j \in DOMAIN jobs |->
                IF jobs[j].status = "running" THEN [jobs[j] EXCEPT !.status = "pending"]
                ELSE jobs[j]]

Boot ==
    /\ worker.pc = "down"
    /\ recover_orphans
    /\ worker' = Idle
    /\ UNCHANGED <<docStatus, failed, extractions, receipts, bank, faults>>

Crash ==
    /\ worker.pc # "down"
    /\ faults < MaxFaults
    /\ worker' = Down
    /\ faults' = faults + 1
    /\ UNCHANGED database

mark_done ==
    /\ jobs' = [jobs EXCEPT ![worker.job].status = "done"]
    /\ UNCHANGED <<docStatus, failed>>

Exhausted(job) == job.attempts >= MaxAttempts

\* Another try after the backoff, or none.
Failed(job) ==
    [job EXCEPT !.status = IF Exhausted(job) THEN "dead" ELSE "pending", !.ready = FALSE]

\* Only a staged document is parked, with the failure note that offers a retry.
record_extraction_failure(d) ==
    IF docStatus[d] = "staged"
    THEN /\ docStatus' = [docStatus EXCEPT ![d] = "needs_review"]
         /\ failed' = failed \cup {d}
    ELSE UNCHANGED <<docStatus, failed>>

mark_failed ==
    /\ jobs' = [jobs EXCEPT ![worker.job] = Failed(@)]
    /\ IF Exhausted(jobs[worker.job]) /\ jobs[worker.job].linked
       THEN record_extraction_failure(jobs[worker.job].doc)
       ELSE UNCHANGED <<docStatus, failed>>

FinishDone ==
    /\ worker.pc = "handled"
    /\ mark_done
    /\ worker' = Idle
    /\ UNCHANGED <<extractions, receipts, bank, faults>>

FinishFailed ==
    /\ worker.pc = "raised"
    /\ mark_failed
    /\ worker' = Idle
    /\ UNCHANGED <<extractions, receipts, bank, faults>>

\* The write of the outcome fails: of success, the error is recorded instead; of
\* an error, the exception leaves the loop and no worker runs until a restart.
FinishRaises ==
    /\ faults < MaxFaults
    /\ \/ worker.pc = "handled" /\ worker' = [worker EXCEPT !.pc = "raised"]
       \/ worker.pc = "raised" /\ worker' = Down
    /\ faults' = faults + 1
    /\ UNCHANGED database

-----------------------------------------------------------------------------
(* The ingest handler *)

Doc == jobs[worker.job].doc

\* A job whose document was deleted finds no row, or the row that took the id.
ReadDocument ==
    /\ worker.pc = "claimed"
    /\ \/ docStatus[Doc] # "absent" /\ worker' = [worker EXCEPT !.pc = "reading"]
       \/ docStatus[Doc] = "absent" /\ worker' = [worker EXCEPT !.pc = "handled"]
       \/ ~jobs[worker.job].linked /\ worker' = [worker EXCEPT !.pc = "handled"]
    /\ UNCHANGED <<database, faults>>

\* Triage and extraction: model calls outside the write lock.
Extract ==
    /\ worker.pc = "reading"
    /\ \E o \in Outcomes : worker' = [worker EXCEPT !.pc = "extracted", !.outcome = o]
    /\ UNCHANGED <<database, faults>>

\* An unreadable blob, a model timeout, a locked month: the transaction is rolled back.
HandlerRaises ==
    /\ worker.pc \in {"claimed", "reading", "extracted"}
    /\ worker' = [worker EXCEPT !.pc = "raised"]
    /\ UNCHANGED <<database, faults>>

Park ==
    /\ worker.outcome = "unsupported"
    /\ docStatus' = [docStatus EXCEPT ![Doc] = IF @ = "absent" THEN @ ELSE "needs_review"]
    /\ UNCHANGED <<extractions, receipts>>

AddExtraction(d, review, txn) ==
    extractions' = Append(extractions, [doc |-> d, review |-> review, txn |-> txn])

SendToReview ==
    /\ worker.outcome = "doubtful" \/ (worker.outcome = "good" /\ Doc \in bank)
    /\ docStatus[Doc] # "absent"
    /\ AddExtraction(Doc, "pending", "none")
    /\ docStatus' = [docStatus EXCEPT ![Doc] = "needs_review"]
    /\ UNCHANGED receipts

\* Defect: the receipt is booked without looking for its transaction.
PromoteAgain ==
    /\ worker.outcome = "good"
    /\ docStatus[Doc] # "absent"
    /\ Doc \notin bank
    /\ AddExtraction(Doc, "auto", "receipt")
    /\ receipts' = [receipts EXCEPT ![Doc] = @ + 1]
    /\ docStatus' = [docStatus EXCEPT ![Doc] = "processed"]

\* Books the receipt, or reports a duplicate of the one that is booked already.
promote_receipt ==
    /\ worker.outcome = "good"
    /\ docStatus[Doc] # "absent"
    /\ Doc \notin bank
    /\ \/ /\ receipts[Doc] = 0
          /\ AddExtraction(Doc, "auto", "receipt")
          /\ receipts' = [receipts EXCEPT ![Doc] = 1]
       \/ /\ receipts[Doc] > 0
          /\ AddExtraction(Doc, "auto", "none")
          /\ UNCHANGED receipts
    /\ docStatus' = [docStatus EXCEPT ![Doc] = "processed"]

Commit ==
    /\ worker.pc = "extracted"
    /\ Park \/ SendToReview \/ promote_receipt
    /\ worker' = [worker EXCEPT !.pc = "handled"]
    /\ UNCHANGED <<failed, jobs, bank, faults>>

\* The extraction of a document that was deleted meanwhile violates its foreign key.
CommitFindsNoDocument ==
    /\ worker.pc = "extracted"
    /\ worker.outcome # "unsupported"
    /\ docStatus[Doc] = "absent"
    /\ worker' = [worker EXCEPT !.pc = "raised"]
    /\ UNCHANGED <<database, faults>>

-----------------------------------------------------------------------------
(* Uploads and operators *)

Capture(d) ==
    /\ docStatus[d] = "absent"
    /\ docStatus' = [docStatus EXCEPT ![d] = "staged"]
    /\ Enqueue(d)
    /\ UNCHANGED <<failed, worker, extractions, receipts, bank, faults>>

\* Defect: a retry restages the document and queues nothing.
RetryWithoutJob(d) ==
    /\ d \in failed
    /\ docStatus' = [docStatus EXCEPT ![d] = "staged"]
    /\ failed' = failed \ {d}
    /\ UNCHANGED <<jobs, worker, extractions, receipts, bank, faults>>

document_retry(d) ==
    /\ d \in failed
    /\ docStatus' = [docStatus EXCEPT ![d] = "staged"]
    /\ failed' = failed \ {d}
    /\ Enqueue(d)
    /\ UNCHANGED <<worker, extractions, receipts, bank, faults>>

\* The command line reprocesses any document and keeps its failure note.
reprocess(d) ==
    /\ docStatus[d] # "absent"
    /\ docStatus' = [docStatus EXCEPT ![d] = "staged"]
    /\ Enqueue(d)
    /\ UNCHANGED <<failed, worker, extractions, receipts, bank, faults>>

Pending(e) == extractions[e].review = "pending"

Decide(e, review, txn, status) ==
    /\ extractions' = [extractions EXCEPT ![e] = [@ EXCEPT !.review = review, !.txn = txn]]
    /\ docStatus' = [docStatus EXCEPT ![extractions[e].doc] = status]

\* An approval books the receipt unless it is booked.  Equal bank transactions
\* refuse it, unless the operator states that it is a separate purchase.
approve(e, separate) ==
    /\ Pending(e)
    /\ extractions[e].doc \in bank => separate
    /\ \/ /\ receipts[extractions[e].doc] = 0
          /\ Decide(e, "approved", IF separate THEN "separate" ELSE "receipt", "processed")
          /\ receipts' = [receipts EXCEPT ![extractions[e].doc] = 1]
       \/ /\ receipts[extractions[e].doc] > 0
          /\ Decide(e, "approved", "none", "processed")
          /\ UNCHANGED receipts
    /\ UNCHANGED <<failed, jobs, worker, bank, faults>>

attach_receipt(e) ==
    /\ Pending(e)
    /\ extractions[e].doc \in bank
    /\ Decide(e, "approved", "bank", "processed")
    /\ UNCHANGED <<failed, jobs, worker, receipts, bank, faults>>

\* Defect: a stale page rejects what was decided already.
RejectDecided(e) ==
    /\ extractions[e].review # "deleted"
    /\ Decide(e, "rejected", "none", "archived")
    /\ UNCHANGED <<failed, jobs, worker, receipts, bank, faults>>

reject(e) ==
    /\ Pending(e)
    /\ Decide(e, "rejected", "none", "archived")
    /\ UNCHANGED <<failed, jobs, worker, receipts, bank, faults>>

Evidence(d, kinds) ==
    \E e \in DOMAIN extractions : extractions[e].doc = d /\ extractions[e].txn \in kinds

Attached(d) == Evidence(d, {"bank"})

\* Immutable decisions keep the document and the transaction they name.
delete_document(d) ==
    /\ docStatus[d] # "absent"
    /\ ~Evidence(d, {"bank", "separate"})
    /\ docStatus' = [docStatus EXCEPT ![d] = "absent"]
    /\ failed' = failed \ {d}
    /\ receipts' = [receipts EXCEPT ![d] = 0]
    /\ jobs' = [j \in DOMAIN jobs |->
                   IF jobs[j].doc = d THEN [jobs[j] EXCEPT !.linked = FALSE] ELSE jobs[j]]
    /\ extractions' = [e \in DOMAIN extractions |->
                          IF extractions[e].doc = d
                          THEN [doc |-> d, review |-> "deleted", txn |-> "none"]
                          ELSE extractions[e]]
    /\ UNCHANGED <<worker, bank, faults>>

\* The feed or a statement books a transaction that looks like d's purchase.
BankBooks(d) ==
    /\ d \notin bank
    /\ bank' = bank \cup {d}
    /\ UNCHANGED <<docStatus, failed, jobs, worker, extractions, receipts, faults>>

\* A reconciliation that is undone takes its transaction out again.
BankReverses(d) ==
    /\ d \in bank
    /\ ~Attached(d)
    /\ bank' = bank \ {d}
    /\ UNCHANGED <<docStatus, failed, jobs, worker, extractions, receipts, faults>>

-----------------------------------------------------------------------------
WorkerStep ==
    \/ Claim
    \/ ReadDocument
    \/ Extract
    \/ HandlerRaises
    \/ Commit
    \/ CommitFindsNoDocument
    \/ FinishDone
    \/ FinishFailed

Fault == Crash \/ FinishRaises

Operator ==
    \/ \E d \in Docs : Capture(d)
    \/ \E d \in Docs : document_retry(d)
    \/ \E d \in Docs : reprocess(d)
    \/ \E d \in Docs : delete_document(d)
    \/ \E d \in Docs : BankBooks(d) \/ BankReverses(d)
    \/ \E e \in DOMAIN extractions, separate \in BOOLEAN : approve(e, separate)
    \/ \E e \in DOMAIN extractions : attach_receipt(e)
    \/ \E e \in DOMAIN extractions : reject(e)

Next ==
    \/ WorkerStep
    \/ Fault
    \/ Boot
    \/ \E j \in DOMAIN jobs : BackoffElapses(j)
    \/ Operator

Spec == Init /\ [][Next]_vars

(* The loop polls, a supervisor restarts the process, time passes, and every *)
(* model call ends in an answer or a timeout.  Nothing is assumed of people. *)
Fairness ==
    /\ WF_vars(WorkerStep)
    /\ WF_vars(Boot)
    /\ WF_vars(\E j \in DOMAIN jobs : BackoffElapses(j))

FairSpec == Spec /\ Fairness

-----------------------------------------------------------------------------
(* Safety *)

(* A staged document, which the upload page polls, has a job that will still *)
(* run: it never waits on work that has already stopped, whatever crashes,   *)
(* retries, reprocessing or deletion happened in between.                    *)
NoStuckUpload ==
    \A d \in Docs : docStatus[d] = "staged" =>
        \E j \in DOMAIN jobs :
            /\ jobs[j].doc = d
            /\ jobs[j].linked
            /\ jobs[j].status \in {"pending", "running"}

(* Only the job that the live worker holds is running: a restart leaves no   *)
(* job that nobody will ever claim again.                                    *)
WorkerOwnsRunning ==
    \A j \in DOMAIN jobs : jobs[j].status = "running" =>
        worker.pc = "down" \/ (worker.pc # "idle" /\ worker.job = j)

(* However often a receipt is run again after a crash, a retry or a review,  *)
(* it books one transaction.                                                 *)
BookedOnce == \A d \in Docs : receipts[d] <= 1

(* A document that is filed as processed stands behind a transaction: its    *)
(* own, or a bank transaction it was attached to.                            *)
ProcessedIsBooked ==
    \A d \in Docs : docStatus[d] = "processed" => receipts[d] > 0 \/ Attached(d)

(* Whatever crashes, retries, reprocessing or deletion happened, the page     *)
(* that polls an upload and the worker that claims jobs agree: an upload that *)
(* waits has a job, and a job that runs has a worker.                         *)
QueueHolds == TypeOK /\ NoStuckUpload /\ WorkerOwnsRunning

(* The books and the files agree: one booking of a document at most, and one  *)
(* behind every document that is filed as processed.                          *)
BooksHold == BookedOnce /\ ProcessedIsBooked

(* What the operator decided stays decided, unless the document is deleted.  *)
DecisionsFinal ==
    [][\A e \in DOMAIN extractions : extractions[e].review \in {"approved", "rejected"} =>
           extractions'[e] = extractions[e] \/ extractions'[e].review = "deleted"]_vars

(* Liveness *)

\* The job a capture's status is read from: the document's latest.
JobStatus(d) ==
    LET own == {j \in DOMAIN jobs : jobs[j].doc = d /\ jobs[j].linked} IN
    IF own = {} THEN "none" ELSE jobs[CHOOSE j \in own : \A i \in own : i <= j].status

\* What submission_status tells the device of a receipt.
ServerState(d) ==
    CASE docStatus[d] = "absent" \/ JobStatus(d) = "dead"    -> "failed"
      [] docStatus[d] = "needs_review"                       -> "needs_review"
      [] docStatus[d] = "processed" /\ receipts[d] > 0       -> "logged"
      [] JobStatus(d) = "running"                            -> "processing"
      [] docStatus[d] = "processed"                          -> "failed"
      [] OTHER                                               -> "queued"

(* A device that polls the status of its capture is not told for ever that   *)
(* it is queued or being processed, whatever faults and reruns there are;     *)
(* unless the operator rejected it: an archived document stays queued.        *)
UploadsSettle ==
    \A d \in Docs :
        ServerState(d) \in {"queued", "processing"} ~>
            ServerState(d) \notin {"queued", "processing"} \/ docStatus[d] = "archived"

(* Every job ends, done or dead.                                             *)
JobsSettle ==
    \A j \in 1..MaxJobs :
        (j \in DOMAIN jobs) ~> (j \in DOMAIN jobs /\ jobs[j].status \in {"done", "dead"})

(* After any fault the queue and the uploads come to rest by themselves.      *)
WorkSettles == UploadsSettle /\ JobsSettle
=============================================================================
