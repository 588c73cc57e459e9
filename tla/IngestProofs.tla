---------------------------- MODULE IngestProofs ----------------------------
(* How documents and exported tables come in: the ingest queue keeps its     *)
(* promises for any number of documents, jobs, attempts and faults, and the  *)
(* structured imports theirs for any files, rows, forms and attempts.        *)
EXTENDS IngestQueue, StructuredImport, TLAPS

(* The inductive invariant of the queue.  The job in the worker's hands is   *)
(* marked as running, and once the handler has returned nothing waits for    *)
(* that job any more: this is what makes it safe to mark it done.            *)
Serves(j, d) ==
    jobs[j].doc = d /\ jobs[j].linked /\ jobs[j].status \in {"pending", "running"}

HeldJobRuns == worker.pc \notin {"down", "idle"} => jobs[worker.job].status = "running"

HandledNotAwaited ==
    worker.pc = "handled" =>
        \A d \in Docs : docStatus[d] = "staged" =>
            \E j \in DOMAIN jobs \ {worker.job} : Serves(j, d)

QueueInv ==
    /\ TypeOK
    /\ HeldJobRuns
    /\ HandledNotAwaited
    /\ WorkerOwnsRunning
    /\ NoStuckUpload

(* The inductive invariant of the books: what is still to be reviewed stands *)
(* for no transaction, so a decision takes none away.                        *)
PendingIsOpen ==
    \A e \in DOMAIN extractions : extractions[e].review = "pending" => extractions[e].txn = "none"

BooksInv ==
    /\ TypeOK
    /\ BookedOnce
    /\ ProcessedIsBooked
    /\ PendingIsOpen

-----------------------------------------------------------------------------
(* Sequences of rows *)

LEMMA RowUpdated ==
    ASSUME NEW S, NEW rows \in Seq(S), NEW i \in DOMAIN rows, NEW r \in S
    PROVE  /\ [rows EXCEPT ![i] = r] \in Seq(S)
           /\ DOMAIN [rows EXCEPT ![i] = r] = DOMAIN rows
  OBVIOUS

LEMMA RowAdded ==
    ASSUME NEW S, NEW rows \in Seq(S), NEW r \in S
    PROVE  /\ Append(rows, r) \in Seq(S)
           /\ DOMAIN Append(rows, r) = DOMAIN rows \cup {Len(rows) + 1}
           /\ Len(rows) + 1 \notin DOMAIN rows
           /\ Append(rows, r)[Len(rows) + 1] = r
           /\ \A i \in DOMAIN rows : Append(rows, r)[i] = rows[i]
  OBVIOUS

LEMMA RowsMapped ==
    ASSUME NEW S, NEW rows \in Seq(S), NEW mapped \in [DOMAIN rows -> S]
    PROVE  mapped \in Seq(S) /\ DOMAIN mapped = DOMAIN rows
<1>1. DOMAIN rows = 1..Len(rows) /\ Len(rows) \in Nat
  OBVIOUS
<1>2. mapped \in [1..Len(rows) -> S]
  BY <1>1
<1> QED BY <1>1, <1>2

(* The records that the actions write are rows of their tables. *)

LEMMA JobRows ==
    ASSUME NEW job \in Job
    PROVE  /\ [job EXCEPT !.status = "pending"] \in Job
           /\ [job EXCEPT !.status = "done"] \in Job
           /\ [job EXCEPT !.ready = TRUE] \in Job
           /\ [job EXCEPT !.linked = FALSE] \in Job
           /\ Claimed(job) \in Job
           /\ Failed(job) \in Job
           /\ job.attempts \in Nat /\ job.doc \in Docs
<1> USE DEF Job, JobStates
<1>1. /\ [job EXCEPT !.status = "pending"] \in Job
      /\ [job EXCEPT !.status = "done"] \in Job
      /\ [job EXCEPT !.ready = TRUE] \in Job
      /\ [job EXCEPT !.linked = FALSE] \in Job
  OBVIOUS
<1>2. Claimed(job) \in Job
  <2> DEFINE running == [job EXCEPT !.status = "running"]
  <2>1. running \in Job /\ job.attempts + 1 \in Nat
    OBVIOUS
  <2>2. Claimed(job) = [running EXCEPT !.attempts = job.attempts + 1]
    BY DEF Claimed
  <2> HIDE DEF running
  <2> QED BY <2>1, <2>2
<1>3. Failed(job) \in Job
  <2>1. CASE Exhausted(job)
    BY <2>1 DEF Failed
  <2>2. CASE ~Exhausted(job)
    BY <2>2 DEF Failed
  <2> QED BY <2>1, <2>2
<1> QED BY <1>1, <1>2, <1>3

LEMMA NewJobRow == ASSUME NEW d \in Docs PROVE NewJob(d) \in Job
  BY DEF NewJob, Job, JobStates

-----------------------------------------------------------------------------
(* Type correctness *)

LEMMA InitTypeOK == Init => TypeOK
  BY QueueBoundAssumption DEF Init, TypeOK, Down, Outcomes

LEMMA EnqueueType ==
    ASSUME TypeOK, NEW d \in Docs, Enqueue(d)
    PROVE  jobs' \in Seq(Job) /\ DOMAIN jobs \subseteq DOMAIN jobs'
<1>1. jobs \in Seq(Job) /\ jobs' = Append(jobs, NewJob(d))
  BY DEF Enqueue, TypeOK
<1> QED BY <1>1, NewJobRow, RowAdded

LEMMA ExtractionAdded ==
    ASSUME TypeOK, NEW d \in Docs, NEW review \in {"pending", "auto"},
           NEW txn \in {"none", "receipt"}, AddExtraction(d, review, txn)
    PROVE  extractions' \in Seq(Extraction)
<1>1. [doc |-> d, review |-> review, txn |-> txn] \in Extraction
  BY DEF Extraction
<1>2. extractions \in Seq(Extraction)
  BY DEF TypeOK
<1> QED BY <1>1, <1>2, RowAdded DEF AddExtraction

LEMMA ExtractionDecided ==
    ASSUME TypeOK, NEW e \in DOMAIN extractions, NEW review \in {"approved", "rejected"},
           NEW txn \in {"none", "receipt", "separate", "bank"},
           NEW status \in {"processed", "archived"}, Decide(e, review, txn, status)
    PROVE  /\ extractions' \in Seq(Extraction)
           /\ extractions[e].doc \in Docs
           /\ docStatus' \in [Docs -> {"absent", "staged", "needs_review", "processed", "archived"}]
<1>1. extractions \in Seq(Extraction) /\ extractions[e] \in Extraction
  BY DEF TypeOK
<1>2. [extractions[e] EXCEPT !.review = review, !.txn = txn] \in Extraction
  BY <1>1 DEF Extraction
<1>3. extractions' = [extractions EXCEPT ![e] =
                         [extractions[e] EXCEPT !.review = review, !.txn = txn]]
  BY DEF Decide
<1>4. extractions' \in Seq(Extraction)
  BY <1>1, <1>2, <1>3, RowUpdated
<1>5. extractions[e].doc \in Docs
  BY <1>1 DEF Extraction
<1> QED BY <1>4, <1>5 DEF Decide, TypeOK

LEMMA WorkerStepTypeOK ==
    ASSUME TypeOK, WorkerStep
    PROVE  TypeOK'
<1> USE DEF TypeOK, Outcomes
<1>1. CASE Claim
  <2>1. PICK j \in DOMAIN jobs :
            /\ jobs' = [jobs EXCEPT ![j] = Claimed(jobs[j])]
            /\ worker' = [pc |-> "claimed", job |-> j, outcome |-> "good"]
    BY <1>1 DEF Claim, claim_next
  <2>2. jobs[j] \in Job
    OBVIOUS
  <2>3. Claimed(jobs[j]) \in Job
    BY <2>2, JobRows
  <2>4. jobs' \in Seq(Job) /\ DOMAIN jobs' = DOMAIN jobs
    BY <2>1, <2>3, RowUpdated
  <2> QED BY <1>1, <2>1, <2>4 DEF Claim
<1>2. CASE ReadDocument
  BY <1>2 DEF ReadDocument, database
<1>3. CASE Extract
  BY <1>3 DEF Extract, database
<1>4. CASE HandlerRaises
  BY <1>4 DEF HandlerRaises, database
<1>5. CASE Commit
  <2>1. Doc \in Docs
    <3>1. jobs[worker.job] \in Job
      BY <1>5 DEF Commit
    <3> QED BY <3>1, JobRows DEF Doc
  <2>2. CASE Park
    BY <1>5, <2>1, <2>2 DEF Commit, Park
  <2>3. CASE SendToReview
    <3>1. extractions' \in Seq(Extraction)
      BY <2>1, <2>3, ExtractionAdded DEF SendToReview
    <3> QED BY <1>5, <2>1, <2>3, <3>1 DEF Commit, SendToReview
  <2>4. CASE promote_receipt
    <3>1. extractions' \in Seq(Extraction)
      BY <2>1, <2>4, ExtractionAdded DEF promote_receipt
    <3>2. receipts' \in [Docs -> Nat]
      <4>1. receipts \in [Docs -> Nat]
        OBVIOUS
      <4>2. receipts' = receipts \/ receipts' = [receipts EXCEPT ![Doc] = 1]
        BY <2>4, Zenon DEF promote_receipt
      <4> QED BY ONLY <2>1, <4>1, <4>2
    <3> QED BY <1>5, <2>1, <2>4, <3>1, <3>2 DEF Commit, promote_receipt
  <2> QED BY <1>5, <2>2, <2>3, <2>4 DEF Commit
<1>6. CASE CommitFindsNoDocument
  BY <1>6 DEF CommitFindsNoDocument, database
<1>7. CASE FinishDone
  <2>1. worker.job \in DOMAIN jobs /\ jobs[worker.job] \in Job
    BY <1>7 DEF FinishDone
  <2>2. [jobs[worker.job] EXCEPT !.status = "done"] \in Job
    BY <2>1, JobRows
  <2>3. jobs' \in Seq(Job) /\ DOMAIN jobs' = DOMAIN jobs
    BY <1>7, <2>1, <2>2, RowUpdated DEF FinishDone, mark_done
  <2> QED BY <1>7, <2>3 DEF FinishDone, mark_done, Idle
<1>8. CASE FinishFailed
  <2>1. worker.job \in DOMAIN jobs /\ jobs[worker.job] \in Job
    BY <1>8 DEF FinishFailed
  <2>2. Failed(jobs[worker.job]) \in Job /\ jobs[worker.job].doc \in Docs
    BY <2>1, JobRows
  <2>3. jobs' \in Seq(Job) /\ DOMAIN jobs' = DOMAIN jobs
    BY <1>8, <2>1, <2>2, RowUpdated DEF FinishFailed, mark_failed
  <2>4. /\ docStatus' \in [Docs -> {"absent", "staged", "needs_review", "processed", "archived"}]
        /\ failed' \subseteq Docs
    <3> DEFINE d == jobs[worker.job].doc
    <3>1. UNCHANGED <<docStatus, failed>> \/ record_extraction_failure(d)
      BY <1>8 DEF FinishFailed, mark_failed
    <3>2. d \in Docs
      BY <2>2
    <3> HIDE DEF d
    <3>3. CASE record_extraction_failure(d) /\ docStatus[d] = "staged"
      BY <3>2, <3>3 DEF record_extraction_failure
    <3>4. CASE record_extraction_failure(d) /\ docStatus[d] # "staged"
      BY <3>4 DEF record_extraction_failure
    <3> QED BY <3>1, <3>3, <3>4
  <2> QED BY <1>8, <2>3, <2>4 DEF FinishFailed, Idle
<1> QED BY <1>1, <1>2, <1>3, <1>4, <1>5, <1>6, <1>7, <1>8 DEF WorkerStep

LEMMA OperatorTypeOK ==
    ASSUME TypeOK, Operator
    PROVE  TypeOK'
<1> USE DEF TypeOK
<1>1. ASSUME NEW d \in Docs, Capture(d) \/ document_retry(d) \/ reprocess(d)
      PROVE  TypeOK'
  <2>1. jobs' \in Seq(Job) /\ DOMAIN jobs \subseteq DOMAIN jobs'
    BY <1>1, EnqueueType DEF Capture, document_retry, reprocess
  <2> QED BY <1>1, <2>1 DEF Capture, document_retry, reprocess
<1>2. ASSUME NEW d \in Docs, delete_document(d)
      PROVE  TypeOK'
  <2>0. ASSUME NEW j \in DOMAIN jobs
        PROVE  jobs[j] \in Job /\ [jobs[j] EXCEPT !.linked = FALSE] \in Job
    <3>1. jobs[j] \in Job
      OBVIOUS
    <3> QED BY <3>1, JobRows
  <2>1. jobs' \in [DOMAIN jobs -> Job]
    BY <1>2, <2>0 DEF delete_document
  <2>2. jobs' \in Seq(Job) /\ DOMAIN jobs' = DOMAIN jobs
    BY <2>1, RowsMapped
  <2>3. [doc |-> d, review |-> "deleted", txn |-> "none"] \in Extraction
    BY DEF Extraction
  <2>4. extractions' \in [DOMAIN extractions -> Extraction]
    BY <1>2, <2>3 DEF delete_document
  <2>5. extractions' \in Seq(Extraction)
    BY <2>4, RowsMapped
  <2> QED BY <1>2, <2>2, <2>5 DEF delete_document
<1>3. ASSUME NEW d \in Docs, BankBooks(d) \/ BankReverses(d)
      PROVE  TypeOK'
  BY <1>3 DEF BankBooks, BankReverses
<1>4. ASSUME NEW e \in DOMAIN extractions, NEW separate \in BOOLEAN, approve(e, separate)
      PROVE  TypeOK'
  <2>1. /\ extractions' \in Seq(Extraction)
        /\ extractions[e].doc \in Docs
        /\ docStatus' \in [Docs -> {"absent", "staged", "needs_review", "processed", "archived"}]
    BY <1>4, ExtractionDecided DEF approve
  <2>2. \/ receipts' = receipts
        \/ receipts' = [receipts EXCEPT ![extractions[e].doc] = 1]
    BY <1>4 DEF approve
  <2>3. receipts' \in [Docs -> Nat]
    <3> receipts \in [Docs -> Nat]
      OBVIOUS
    <3> HIDE DEF TypeOK
    <3> QED BY <2>2
  <2>4. UNCHANGED <<failed, jobs, worker, bank, faults>>
    BY <1>4 DEF approve
  <2> QED BY <2>1, <2>3, <2>4
<1>5. ASSUME NEW e \in DOMAIN extractions, attach_receipt(e) \/ reject(e)
      PROVE  TypeOK'
  <2>1. /\ extractions' \in Seq(Extraction)
        /\ docStatus' \in [Docs -> {"absent", "staged", "needs_review", "processed", "archived"}]
    BY <1>5, ExtractionDecided DEF attach_receipt, reject
  <2> QED BY <1>5, <2>1 DEF attach_receipt, reject
<1> QED BY <1>1, <1>2, <1>3, <1>4, <1>5 DEF Operator

LEMMA StepTypeOK ==
    ASSUME TypeOK, [Next]_vars
    PROVE  TypeOK'
<1> USE DEF TypeOK, Outcomes
<1>1. CASE Fault
  BY <1>1, QueueBoundAssumption DEF Fault, Crash, FinishRaises, Down, database
<1>2. CASE Boot
  <2>0. ASSUME NEW j \in DOMAIN jobs
        PROVE  jobs[j] \in Job /\ [jobs[j] EXCEPT !.status = "pending"] \in Job
    <3>1. jobs[j] \in Job
      OBVIOUS
    <3> QED BY <3>1, JobRows
  <2>1. jobs' \in [DOMAIN jobs -> Job]
    BY <1>2, <2>0 DEF Boot, recover_orphans
  <2>2. jobs' \in Seq(Job) /\ DOMAIN jobs' = DOMAIN jobs
    BY <2>1, RowsMapped
  <2> QED BY <1>2, <2>2 DEF Boot, Idle
<1>3. ASSUME NEW j \in DOMAIN jobs, BackoffElapses(j)
      PROVE  TypeOK'
  <2>1. jobs[j] \in Job /\ jobs' = [jobs EXCEPT ![j] = [jobs[j] EXCEPT !.ready = TRUE]]
    BY <1>3 DEF BackoffElapses
  <2>2. jobs' \in Seq(Job) /\ DOMAIN jobs' = DOMAIN jobs
    BY <2>1, JobRows, RowUpdated
  <2> QED BY <1>3, <2>2 DEF BackoffElapses
<1>4. CASE UNCHANGED vars
  BY <1>4 DEF vars
<1> QED BY <1>1, <1>2, <1>3, <1>4, WorkerStepTypeOK, OperatorTypeOK DEF Next

(* Every variable keeps its type.                                            *)
THEOREM QueueTypeCorrect == Spec => []TypeOK
<1>1. TypeOK /\ [Next]_vars => TypeOK'
  BY StepTypeOK
<1> QED BY InitTypeOK, <1>1, PTL DEF Spec

-----------------------------------------------------------------------------
(* The books *)

LEMMA ExtractionFields ==
    ASSUME TypeOK, NEW e \in DOMAIN extractions
    PROVE  /\ extractions[e] \in Extraction
           /\ extractions[e].doc \in Docs
<1>1. extractions[e] \in Extraction
  BY DEF TypeOK
<1> QED BY <1>1 DEF Extraction

(* A new extraction takes no evidence away and is open when it is pending.   *)
LEMMA AddedBooks ==
    ASSUME TypeOK, PendingIsOpen, NEW d \in Docs, NEW review \in {"pending", "auto"},
           NEW txn \in {"none", "receipt"}, AddExtraction(d, review, txn),
           review = "pending" => txn = "none"
    PROVE  /\ PendingIsOpen'
           /\ \A x \in Docs : Attached(x) => Attached(x)'
<1> DEFINE row == [doc |-> d, review |-> review, txn |-> txn]
<1>1. extractions \in Seq(Extraction) /\ row \in Extraction
  BY DEF TypeOK, Extraction
<1>2. row.review = "pending" => row.txn = "none"
  OBVIOUS
<1>3. extractions' = Append(extractions, row)
  BY DEF AddExtraction
<1> HIDE DEF row
<1>4. /\ DOMAIN extractions' = DOMAIN extractions \cup {Len(extractions) + 1}
      /\ extractions'[Len(extractions) + 1] = row
      /\ \A i \in DOMAIN extractions : extractions'[i] = extractions[i]
  BY <1>1, <1>3, RowAdded
<1>5. PendingIsOpen'
  BY <1>2, <1>4 DEF PendingIsOpen
<1>6. ASSUME NEW x \in Docs, Attached(x)
      PROVE  Attached(x)'
  BY <1>4, <1>6 DEF Attached, Evidence
<1> QED BY <1>5, <1>6

(* A decision turns an open extraction into a closed one; no other evidence  *)
(* changes.                                                                  *)
LEMMA DecidedBooks ==
    ASSUME TypeOK, PendingIsOpen, NEW e \in DOMAIN extractions, Pending(e),
           NEW review \in {"approved", "rejected"},
           NEW txn \in {"none", "receipt", "separate", "bank"},
           NEW status, Decide(e, review, txn, status)
    PROVE  /\ PendingIsOpen'
           /\ \A x \in Docs : Attached(x) => Attached(x)'
           /\ \A x \in Docs : txn = "bank" /\ x = extractions[e].doc => Attached(x)'
<1> DEFINE row == [extractions[e] EXCEPT !.review = review, !.txn = txn]
<1>1. /\ row.review = review
      /\ row.txn = txn
      /\ row.doc = extractions[e].doc
  BY ExtractionFields DEF Extraction
<1>2. extractions' = [extractions EXCEPT ![e] = row]
  BY DEF Decide
<1> HIDE DEF row
<1>3. extractions[e].txn = "none"
  BY DEF PendingIsOpen, Pending
<1>4. /\ DOMAIN extractions' = DOMAIN extractions
      /\ extractions'[e] = row
      /\ \A i \in DOMAIN extractions : i # e => extractions'[i] = extractions[i]
  BY <1>2 DEF TypeOK
<1>5. PendingIsOpen'
  BY <1>1, <1>4 DEF PendingIsOpen
<1>6. ASSUME NEW x \in Docs, Attached(x)
      PROVE  Attached(x)'
  BY <1>3, <1>4, <1>6 DEF Attached, Evidence
<1>7. ASSUME NEW x \in Docs, txn = "bank", x = extractions[e].doc
      PROVE  Attached(x)'
  BY <1>1, <1>4, <1>7 DEF Attached, Evidence
<1> QED BY <1>5, <1>6, <1>7

LEMMA CommitBooks ==
    ASSUME BooksInv, Commit
    PROVE  BooksInv'
<1> USE DEF BooksInv
<1>1. TypeOK'
  BY StepTypeOK DEF Next, WorkerStep
<1>2. Doc \in Docs
  <2>1. jobs[worker.job] \in Job
    BY DEF Commit, TypeOK
  <2> QED BY <2>1, JobRows DEF Doc
<1>3. CASE Park
  <2>1. UNCHANGED <<extractions, receipts, bank>>
    BY <1>3 DEF Park, Commit
  <2>2. \A d \in Docs : docStatus'[d] = "processed" => docStatus[d] = "processed"
    BY <1>2, <1>3 DEF Park, TypeOK
  <2> QED BY <1>1, <2>1, <2>2
          DEF BookedOnce, ProcessedIsBooked, PendingIsOpen, Attached, Evidence
<1>4. CASE SendToReview
  <2>1. PendingIsOpen' /\ \A x \in Docs : Attached(x) => Attached(x)'
    BY <1>2, <1>4, AddedBooks DEF SendToReview
  <2>2. receipts' = receipts
    BY <1>4 DEF SendToReview
  <2>3. \A d \in Docs : docStatus'[d] = "processed" => docStatus[d] = "processed"
    BY <1>2, <1>4 DEF SendToReview, TypeOK
  <2> QED BY <1>1, <2>1, <2>2, <2>3 DEF BookedOnce, ProcessedIsBooked
<1>5. CASE promote_receipt
  <2>1. PendingIsOpen' /\ \A x \in Docs : Attached(x) => Attached(x)'
    BY <1>2, <1>5, AddedBooks DEF promote_receipt
  <2>2. /\ receipts'[Doc] = 1
        /\ \A d \in Docs \ {Doc} : receipts'[d] = receipts[d]
    BY <1>2, <1>5 DEF promote_receipt, TypeOK, BookedOnce
  <2>3. \A d \in Docs \ {Doc} : docStatus'[d] = docStatus[d]
    BY <1>2, <1>5 DEF promote_receipt, TypeOK
  <2>4. BookedOnce'
    BY <1>2, <2>2 DEF BookedOnce
  <2>5. ProcessedIsBooked'
    BY <1>2, <2>1, <2>2, <2>3 DEF ProcessedIsBooked
  <2> QED BY <1>1, <2>1, <2>4, <2>5
<1> QED BY <1>3, <1>4, <1>5 DEF Commit

LEMMA ReviewBooks ==
    ASSUME BooksInv, NEW e \in DOMAIN extractions,
           \/ \E separate \in BOOLEAN : approve(e, separate)
           \/ attach_receipt(e)
           \/ reject(e)
    PROVE  BooksInv'
<1> USE DEF BooksInv
<1>1. TypeOK'
  BY StepTypeOK DEF Next, Operator
<1>2. PICK d \in Docs : d = extractions[e].doc
  BY ExtractionFields
<1>3. ASSUME NEW separate \in BOOLEAN, approve(e, separate)
      PROVE  BooksInv'
  <2>1. PendingIsOpen' /\ \A x \in Docs : Attached(x) => Attached(x)'
    BY <1>3, DecidedBooks DEF approve
  <2>2. /\ receipts'[d] = 1
        /\ \A x \in Docs \ {d} : receipts'[x] = receipts[x]
    BY <1>2, <1>3 DEF approve, TypeOK, BookedOnce
  <2>3. \A x \in Docs \ {d} : docStatus'[x] = docStatus[x]
    BY <1>2, <1>3 DEF approve, Decide, TypeOK
  <2>4. BookedOnce'
    BY <1>2, <2>2 DEF BookedOnce
  <2>5. ProcessedIsBooked'
    BY <1>2, <2>1, <2>2, <2>3 DEF ProcessedIsBooked
  <2> QED BY <1>1, <2>1, <2>4, <2>5
<1>4. CASE attach_receipt(e)
  <2>1. /\ PendingIsOpen'
        /\ \A x \in Docs : Attached(x) => Attached(x)'
        /\ Attached(d)'
    BY <1>2, <1>4, DecidedBooks DEF attach_receipt
  <2>2. receipts' = receipts /\ \A x \in Docs \ {d} : docStatus'[x] = docStatus[x]
    BY <1>2, <1>4 DEF attach_receipt, Decide, TypeOK
  <2>3. BookedOnce'
    BY <2>2 DEF BookedOnce
  <2>4. ProcessedIsBooked'
    BY <1>2, <2>1, <2>2 DEF ProcessedIsBooked
  <2> QED BY <1>1, <2>1, <2>3, <2>4
<1>5. CASE reject(e)
  <2>1. PendingIsOpen' /\ \A x \in Docs : Attached(x) => Attached(x)'
    BY <1>5, DecidedBooks DEF reject
  <2>2. /\ receipts' = receipts
        /\ docStatus'[d] = "archived"
        /\ \A x \in Docs \ {d} : docStatus'[x] = docStatus[x]
    BY <1>2, <1>5 DEF reject, Decide, TypeOK
  <2>3. BookedOnce'
    BY <2>2 DEF BookedOnce
  <2>4. ProcessedIsBooked'
    BY <1>2, <2>1, <2>2 DEF ProcessedIsBooked
  <2> QED BY <1>1, <2>1, <2>3, <2>4
<1> QED BY <1>3, <1>4, <1>5

LEMMA DeleteBooks ==
    ASSUME BooksInv, NEW d \in Docs, delete_document(d)
    PROVE  BooksInv'
<1> USE DEF BooksInv
<1>1. TypeOK'
  BY StepTypeOK DEF Next, Operator
<1>2. /\ docStatus'[d] = "absent" /\ receipts'[d] = 0
      /\ \A x \in Docs \ {d} : docStatus'[x] = docStatus[x] /\ receipts'[x] = receipts[x]
  BY DEF delete_document, TypeOK
<1>3. /\ DOMAIN extractions' = DOMAIN extractions
      /\ \A e \in DOMAIN extractions :
            extractions[e].doc # d => extractions'[e] = extractions[e]
      /\ \A e \in DOMAIN extractions :
            extractions[e].doc = d => extractions'[e].review = "deleted"
  BY DEF delete_document
<1>4. PendingIsOpen'
  BY <1>3 DEF PendingIsOpen
<1>5. \A x \in Docs \ {d} : Attached(x) => Attached(x)'
  BY <1>3 DEF Attached, Evidence
<1> QED BY <1>1, <1>2, <1>4, <1>5 DEF BookedOnce, ProcessedIsBooked

LEMMA BooksStep ==
    ASSUME BooksInv, [Next]_vars
    PROVE  BooksInv'
<1>1. TypeOK'
  BY StepTypeOK DEF BooksInv
<1>2. ASSUME UNCHANGED <<extractions, receipts>>,
             \A d \in Docs : docStatus'[d] = "processed" => docStatus[d] = "processed"
      PROVE  BooksInv'
  BY <1>1, <1>2
  DEF BooksInv, BookedOnce, ProcessedIsBooked, PendingIsOpen, Attached, Evidence
<1>3. CASE WorkerStep
  <2>1. CASE Claim \/ ReadDocument \/ Extract \/ HandlerRaises \/ CommitFindsNoDocument
    BY <1>2, <2>1
    DEF Claim, ReadDocument, Extract, HandlerRaises, CommitFindsNoDocument, database
  <2>2. CASE FinishDone \/ FinishFailed
    BY <1>2, <2>2
    DEF FinishDone, FinishFailed, mark_done, mark_failed, record_extraction_failure,
        BooksInv, TypeOK
  <2> QED BY <1>3, <2>1, <2>2, CommitBooks DEF WorkerStep
<1>4. CASE Operator
  <2>1. ASSUME NEW d \in Docs, Capture(d) \/ document_retry(d) \/ reprocess(d)
        PROVE  BooksInv'
    BY <1>2, <2>1 DEF Capture, document_retry, reprocess, BooksInv, TypeOK
  <2>2. ASSUME NEW d \in Docs, BankBooks(d) \/ BankReverses(d)
        PROVE  BooksInv'
    BY <1>2, <2>2 DEF BankBooks, BankReverses
  <2> QED BY <1>4, <2>1, <2>2, ReviewBooks, DeleteBooks DEF Operator
<1>5. CASE Fault \/ Boot \/ (\E j \in DOMAIN jobs : BackoffElapses(j)) \/ UNCHANGED vars
  BY <1>2, <1>5 DEF Fault, Crash, FinishRaises, Boot, BackoffElapses, vars, database
<1> QED BY <1>3, <1>4, <1>5 DEF Next

LEMMA InitBooks == Init => BooksInv
  BY InitTypeOK
  DEF Init, BooksInv, BookedOnce, ProcessedIsBooked, PendingIsOpen, TypeOK

(* However often a receipt is run again, it books one transaction, and what  *)
(* is filed as processed stands behind a booking.                            *)
THEOREM BooksCorrect == Spec => [](BookedOnce /\ ProcessedIsBooked)
<1>1. BooksInv /\ [Next]_vars => BooksInv'
  BY BooksStep
<1>2. BooksInv => BookedOnce /\ ProcessedIsBooked
  BY DEF BooksInv
<1> QED BY InitBooks, <1>1, <1>2, PTL DEF Spec

(* One booking of a document at most, and one behind every processed one.    *)
THEOREM BooksAreHeld == Spec => []BooksHold
<1>1. BookedOnce /\ ProcessedIsBooked => BooksHold
  BY DEF BooksHold
<1> QED BY <1>1, BooksCorrect, PTL

-----------------------------------------------------------------------------
(* The queue *)

LEMMA JobFields ==
    ASSUME TypeOK
    PROVE  /\ DOMAIN jobs = 1..Len(jobs) /\ Len(jobs) \in Nat
           /\ \A j \in DOMAIN jobs : jobs[j] \in Job
           /\ worker.pc \notin {"down", "idle"} => worker.job \in DOMAIN jobs
  BY DEF TypeOK

(* A step that changes no job and stages no document keeps the queue, as     *)
(* long as the worker holds on to its job or forgets it in a crash.          *)
LEMMA JobsUntouched ==
    ASSUME QueueInv, TypeOK', UNCHANGED jobs,
           \A d \in Docs : docStatus'[d] = "staged" => docStatus[d] = "staged",
           \/ worker'.pc = "down"
           \/ /\ worker.pc \notin {"down", "idle"}
              /\ worker'.pc \notin {"down", "idle"}
              /\ worker'.job = worker.job,
           HandledNotAwaited'
    PROVE  QueueInv'
<1> USE DEF QueueInv
<1>1. HeldJobRuns'
  BY DEF HeldJobRuns
<1>2. WorkerOwnsRunning'
  BY DEF WorkerOwnsRunning
<1>3. NoStuckUpload'
  BY DEF NoStuckUpload
<1> QED BY <1>1, <1>2, <1>3

LEMMA ClaimQueue == ASSUME QueueInv, Claim PROVE QueueInv'
<1> USE DEF QueueInv
<1>1. TypeOK'
  BY StepTypeOK DEF Next, WorkerStep
<1>2. PICK j \in DOMAIN jobs :
          /\ Claimable(j)
          /\ jobs' = [jobs EXCEPT ![j] = Claimed(jobs[j])]
          /\ worker' = [pc |-> "claimed", job |-> j, outcome |-> "good"]
  BY DEF Claim, claim_next
<1>3. jobs[j] \in Job
  BY JobFields
<1>4. /\ Claimed(jobs[j]).doc = jobs[j].doc
      /\ Claimed(jobs[j]).linked = jobs[j].linked
      /\ Claimed(jobs[j]).status = "running"
  BY <1>3 DEF Claimed, Job
<1>5. /\ DOMAIN jobs' = DOMAIN jobs
      /\ jobs'[j] = Claimed(jobs[j])
      /\ \A i \in DOMAIN jobs : i # j => jobs'[i] = jobs[i]
  BY <1>2 DEF TypeOK
<1>6. HeldJobRuns' /\ HandledNotAwaited'
  BY <1>2, <1>4, <1>5 DEF HeldJobRuns, HandledNotAwaited
<1>7. \A i \in DOMAIN jobs : jobs[i].status # "running"
  BY DEF WorkerOwnsRunning, Claim
<1>8. WorkerOwnsRunning'
  BY <1>2, <1>5, <1>7 DEF WorkerOwnsRunning
<1>9. NoStuckUpload'
  BY <1>4, <1>5 DEF NoStuckUpload, Claim
<1> QED BY <1>1, <1>6, <1>8, <1>9

(* The handler leaves the jobs alone.  When it has returned, its document is *)
(* no longer staged, or its job was cut off from it by a deletion.           *)
LEMMA HandlerQueue ==
    ASSUME QueueInv,
           ReadDocument \/ Extract \/ HandlerRaises \/ Commit \/ CommitFindsNoDocument
    PROVE  QueueInv'
<1> USE DEF QueueInv
<1>1. TypeOK'
  BY StepTypeOK DEF Next, WorkerStep
<1>2. /\ UNCHANGED jobs
      /\ worker.pc \notin {"down", "idle"}
      /\ worker'.pc \notin {"down", "idle"}
      /\ worker'.job = worker.job
  BY DEF ReadDocument, Extract, HandlerRaises, Commit, CommitFindsNoDocument, database, TypeOK
<1>3. Doc \in Docs
  BY <1>2, JobFields, JobRows DEF Doc
<1>4. \A d \in Docs : docStatus'[d] = "staged" => docStatus[d] = "staged"
  BY <1>3 DEF ReadDocument, Extract, HandlerRaises, Commit, CommitFindsNoDocument, database,
              Park, SendToReview, promote_receipt, TypeOK
<1>5. ASSUME worker'.pc = "handled"
      PROVE  docStatus'[Doc] # "staged" \/ ~jobs[worker.job].linked
  <2>1. CASE ReadDocument
    BY <1>5, <2>1 DEF ReadDocument, database, TypeOK
  <2>2. CASE Commit
    BY <1>3, <2>2 DEF Commit, Park, SendToReview, promote_receipt, TypeOK
  <2>3. CASE Extract \/ HandlerRaises \/ CommitFindsNoDocument
    BY <1>5, <2>3 DEF Extract, HandlerRaises, CommitFindsNoDocument, TypeOK
  <2> QED BY <2>1, <2>2, <2>3
<1>6. HandledNotAwaited'
  BY <1>2, <1>4, <1>5 DEF HandledNotAwaited, NoStuckUpload, Serves, Doc
<1> QED BY <1>1, <1>2, <1>4, <1>6, JobsUntouched

LEMMA FinishQueue == ASSUME QueueInv, FinishDone \/ FinishFailed PROVE QueueInv'
<1> DEFINE w == worker.job
<1> USE DEF QueueInv
<1>1. TypeOK'
  BY StepTypeOK DEF Next, WorkerStep
<1>2. w \in DOMAIN jobs /\ jobs[w] \in Job
  BY JobFields DEF FinishDone, FinishFailed
<1>3. worker' = Idle
  BY DEF FinishDone, FinishFailed
<1>4. PICK row :
          /\ jobs' = [jobs EXCEPT ![w] = row]
          /\ row.status # "running"
          /\ row.doc = jobs[w].doc
          /\ row.linked = jobs[w].linked
  <2>1. CASE FinishDone
    <3> DEFINE done == [jobs[w] EXCEPT !.status = "done"]
    <3>1. jobs' = [jobs EXCEPT ![w] = done]
      BY <2>1 DEF FinishDone, mark_done
    <3>2. done.status = "done" /\ done.doc = jobs[w].doc /\ done.linked = jobs[w].linked
      BY <1>2 DEF Job
    <3> HIDE DEF done
    <3> QED BY <3>1, <3>2
  <2>2. CASE FinishFailed
    <3>1. jobs' = [jobs EXCEPT ![w] = Failed(jobs[w])]
      BY <2>2 DEF FinishFailed, mark_failed
    <3>2. /\ Failed(jobs[w]).status \in {"pending", "dead"}
          /\ Failed(jobs[w]).doc = jobs[w].doc
          /\ Failed(jobs[w]).linked = jobs[w].linked
      BY <1>2 DEF Job, Failed
    <3> QED BY <3>1, <3>2
  <2> QED BY <2>1, <2>2
<1>5. /\ DOMAIN jobs' = DOMAIN jobs
      /\ jobs'[w] = row
      /\ \A i \in DOMAIN jobs : i # w => jobs'[i] = jobs[i]
  BY <1>2, <1>4 DEF TypeOK
<1>6. HeldJobRuns' /\ HandledNotAwaited'
  BY <1>3 DEF Idle, HeldJobRuns, HandledNotAwaited
<1>7. WorkerOwnsRunning'
  <2>1. \A i \in DOMAIN jobs : i # w => jobs[i].status # "running"
    BY DEF WorkerOwnsRunning, FinishDone, FinishFailed
  <2> QED BY <1>4, <1>5, <2>1 DEF WorkerOwnsRunning
<1>8. NoStuckUpload'
  <2> SUFFICES ASSUME NEW d \in Docs, docStatus'[d] = "staged"
               PROVE  \E j \in DOMAIN jobs : Serves(j, d)'
    BY <1>5 DEF NoStuckUpload, Serves
  <2>1. docStatus[d] = "staged"
    BY DEF FinishDone, FinishFailed, mark_done, mark_failed, record_extraction_failure, TypeOK
  <2>2. CASE FinishDone
    <3>1. PICK j \in DOMAIN jobs \ {w} : Serves(j, d)
      BY <2>1, <2>2 DEF FinishDone, HandledNotAwaited
    <3> QED BY <1>5, <3>1 DEF Serves
  <2>3. CASE FinishFailed
    <3>1. PICK j \in DOMAIN jobs : Serves(j, d)
      BY <2>1 DEF NoStuckUpload, Serves
    <3>2. CASE j # w
      BY <1>5, <3>1, <3>2 DEF Serves
    <3>3. CASE j = w /\ ~Exhausted(jobs[w])
      <4>1. row = Failed(jobs[w])
        BY <1>2, <1>4, <1>5, <2>3 DEF FinishFailed, mark_failed, TypeOK
      <4>2. row.status = "pending"
        BY <1>2, <3>3, <4>1 DEF Failed, Job
      <4> QED BY <1>4, <1>5, <3>1, <3>3, <4>2 DEF Serves
    <3>4. CASE j = w /\ Exhausted(jobs[w])
      <4>1. record_extraction_failure(d)
        BY <2>3, <3>1, <3>4 DEF FinishFailed, mark_failed, Serves
      <4>2. docStatus'[d] = "needs_review"
        BY <2>1, <4>1 DEF record_extraction_failure, TypeOK
      <4> QED BY <4>2
    <3> QED BY <3>2, <3>3, <3>4
  <2> QED BY <2>2, <2>3
<1> QED BY <1>1, <1>6, <1>7, <1>8

(* A deletion cuts the jobs off from the document and leaves the others'.    *)
LEMMA DeleteQueue ==
    ASSUME QueueInv, NEW d \in Docs, delete_document(d)
    PROVE  QueueInv'
<1> USE DEF QueueInv
<1>1. TypeOK'
  BY StepTypeOK DEF Next, Operator
<1>2. /\ worker' = worker
      /\ docStatus'[d] = "absent"
      /\ \A x \in Docs \ {d} : docStatus'[x] = docStatus[x]
  BY DEF delete_document, TypeOK
<1>3. /\ DOMAIN jobs' = DOMAIN jobs
      /\ \A j \in DOMAIN jobs : jobs[j].doc # d => jobs'[j] = jobs[j]
      /\ \A j \in DOMAIN jobs : jobs'[j].status = jobs[j].status
  <2>1. ASSUME NEW j \in DOMAIN jobs
        PROVE  [jobs[j] EXCEPT !.linked = FALSE].status = jobs[j].status
    BY JobFields DEF Job
  <2> QED BY <2>1 DEF delete_document
<1>4. \A j \in DOMAIN jobs, x \in Docs \ {d} : Serves(j, x) => Serves(j, x)'
  BY <1>3 DEF Serves
<1>5. HeldJobRuns'
  BY <1>2, <1>3, JobFields DEF HeldJobRuns
<1>6. WorkerOwnsRunning'
  BY <1>2, <1>3 DEF WorkerOwnsRunning
<1>7. NoStuckUpload'
  BY <1>2, <1>3 DEF NoStuckUpload
<1>8. HandledNotAwaited'
  BY <1>2, <1>3, <1>4 DEF HandledNotAwaited
<1> QED BY <1>1, <1>5, <1>6, <1>7, <1>8

(* A capture, a retry and a reprocessing stage one document and queue a job. *)
LEMMA StageQueue ==
    ASSUME QueueInv, NEW d \in Docs, Capture(d) \/ document_retry(d) \/ reprocess(d)
    PROVE  QueueInv'
<1> USE DEF QueueInv
<1>1. TypeOK'
  BY StepTypeOK DEF Next, Operator
<1>2. /\ worker' = worker
      /\ \A x \in Docs \ {d} : docStatus'[x] = docStatus[x]
      /\ jobs' = Append(jobs, NewJob(d))
  BY DEF Capture, document_retry, reprocess, Enqueue, TypeOK
<1>3. jobs \in Seq(Job)
  BY DEF TypeOK
<1>4. PICK n :
      /\ DOMAIN jobs' = DOMAIN jobs \cup {n}
      /\ n \notin DOMAIN jobs
      /\ jobs'[n] = NewJob(d)
      /\ \A j \in DOMAIN jobs : jobs'[j] = jobs[j]
  BY <1>2, <1>3, NewJobRow, RowAdded
<1>5. Serves(n, d)'
  BY <1>4 DEF Serves, NewJob
<1>6. \A j \in DOMAIN jobs, x \in Docs : Serves(j, x) => Serves(j, x)'
  BY <1>4 DEF Serves
<1>7. HeldJobRuns'
  BY <1>2, <1>4, JobFields DEF HeldJobRuns
<1>8. WorkerOwnsRunning'
  BY <1>2, <1>4 DEF WorkerOwnsRunning, NewJob
<1>9. NoStuckUpload'
  <2>1. NoStuckUpload' <=> \A x \in Docs : docStatus'[x] = "staged" =>
                              \E j \in DOMAIN jobs' : Serves(j, x)'
    BY DEF NoStuckUpload, Serves
  <2>2. \A x \in Docs : docStatus[x] = "staged" => \E j \in DOMAIN jobs : Serves(j, x)
    BY DEF NoStuckUpload, Serves
  <2> QED BY <1>2, <1>4, <1>5, <1>6, <2>1, <2>2
<1>10. HandledNotAwaited'
  <2> SUFFICES ASSUME worker.pc = "handled", NEW x \in Docs, docStatus'[x] = "staged"
               PROVE  \E j \in DOMAIN jobs' \ {worker.job} : Serves(j, x)'
    BY <1>2 DEF HandledNotAwaited
  <2>1. CASE x = d
    <3>1. worker.job \in DOMAIN jobs
      BY JobFields
    <3> QED BY <1>4, <1>5, <2>1, <3>1
  <2>2. CASE x # d
    <3>1. PICK j \in DOMAIN jobs \ {worker.job} : Serves(j, x)
      BY <1>2, <2>2 DEF HandledNotAwaited
    <3> QED BY <1>4, <1>6, <3>1
  <2> QED BY <2>1, <2>2
<1> QED BY <1>1, <1>7, <1>8, <1>9, <1>10

LEMMA BootQueue == ASSUME QueueInv, Boot PROVE QueueInv'
<1> USE DEF QueueInv
<1>1. TypeOK'
  BY StepTypeOK DEF Next
<1>2. /\ DOMAIN jobs' = DOMAIN jobs
      /\ \A j \in DOMAIN jobs : /\ jobs'[j].doc = jobs[j].doc
                                /\ jobs'[j].linked = jobs[j].linked
                                /\ jobs'[j].status # "running"
                                /\ jobs[j].status # "running" => jobs'[j] = jobs[j]
                                /\ jobs[j].status = "running" => jobs'[j].status = "pending"
  <2>1. ASSUME NEW j \in DOMAIN jobs
        PROVE  /\ [jobs[j] EXCEPT !.status = "pending"].doc = jobs[j].doc
               /\ [jobs[j] EXCEPT !.status = "pending"].linked = jobs[j].linked
               /\ [jobs[j] EXCEPT !.status = "pending"].status = "pending"
    BY JobFields DEF Job
  <2> QED BY <2>1 DEF Boot, recover_orphans
<1>3. worker'.pc = "idle" /\ docStatus' = docStatus
  BY DEF Boot, Idle
<1>4. HeldJobRuns' /\ HandledNotAwaited'
  BY <1>3 DEF HeldJobRuns, HandledNotAwaited
<1>5. WorkerOwnsRunning'
  BY <1>2 DEF WorkerOwnsRunning
<1>6. NoStuckUpload'
  BY <1>2, <1>3 DEF NoStuckUpload
<1> QED BY <1>1, <1>4, <1>5, <1>6

LEMMA BackoffQueue ==
    ASSUME QueueInv, NEW j \in DOMAIN jobs, BackoffElapses(j)
    PROVE  QueueInv'
<1> USE DEF QueueInv
<1>1. TypeOK'
  BY StepTypeOK DEF Next
<1>2. /\ DOMAIN jobs' = DOMAIN jobs
      /\ jobs'[j].doc = jobs[j].doc
      /\ jobs'[j].linked = jobs[j].linked
      /\ jobs'[j].status = jobs[j].status
      /\ \A i \in DOMAIN jobs : i # j => jobs'[i] = jobs[i]
      /\ worker' = worker /\ docStatus' = docStatus
  BY JobFields DEF BackoffElapses, Job
<1>3. HeldJobRuns'
  BY <1>2, JobFields DEF HeldJobRuns
<1>4. WorkerOwnsRunning'
  BY <1>2 DEF WorkerOwnsRunning
<1>5. NoStuckUpload'
  BY <1>2 DEF NoStuckUpload
<1>6. HandledNotAwaited'
  BY <1>2 DEF HandledNotAwaited, Serves
<1> QED BY <1>1, <1>3, <1>4, <1>5, <1>6

LEMMA QueueStep == ASSUME QueueInv, [Next]_vars PROVE QueueInv'
<1>1. TypeOK'
  BY StepTypeOK DEF QueueInv
<1>2. CASE Operator
  <2>1. ASSUME UNCHANGED <<jobs, worker>>,
               \A d \in Docs : docStatus'[d] = "staged" => docStatus[d] = "staged"
        PROVE  QueueInv'
    BY <1>1, <2>1 DEF QueueInv, HeldJobRuns, HandledNotAwaited, WorkerOwnsRunning,
                      NoStuckUpload, Serves
  <2>2. ASSUME NEW e \in DOMAIN extractions,
               \/ \E separate \in BOOLEAN : approve(e, separate)
               \/ attach_receipt(e)
               \/ reject(e)
        PROVE  QueueInv'
    BY <2>1, <2>2, ExtractionFields
    DEF approve, attach_receipt, reject, Decide, QueueInv, TypeOK
  <2>3. ASSUME NEW d \in Docs, BankBooks(d) \/ BankReverses(d)
        PROVE  QueueInv'
    BY <2>1, <2>3 DEF BankBooks, BankReverses
  <2> QED BY <1>2, <2>2, <2>3, StageQueue, DeleteQueue DEF Operator
<1>3. CASE Fault
  <2>1. HandledNotAwaited'
    BY <1>3 DEF Fault, Crash, FinishRaises, Down, database, HandledNotAwaited, Serves, QueueInv, TypeOK
  <2> QED BY <1>1, <1>3, <2>1, JobsUntouched
          DEF Fault, Crash, FinishRaises, Down, database, QueueInv, TypeOK
<1>4. CASE UNCHANGED vars
  BY <1>1, <1>4 DEF vars, QueueInv, HeldJobRuns, HandledNotAwaited, WorkerOwnsRunning,
                    NoStuckUpload, Serves
<1> QED BY <1>2, <1>3, <1>4, ClaimQueue, HandlerQueue, FinishQueue, BootQueue, BackoffQueue
        DEF Next, WorkerStep

LEMMA InitQueue == Init => QueueInv
  BY InitTypeOK
  DEF Init, Down, QueueInv, HeldJobRuns, HandledNotAwaited, WorkerOwnsRunning, NoStuckUpload, TypeOK

(* No upload waits for work that has stopped, and a restart leaves no job    *)
(* that nobody will claim.                                                   *)
THEOREM QueueCorrect == Spec => [](NoStuckUpload /\ WorkerOwnsRunning)
<1>1. QueueInv /\ [Next]_vars => QueueInv'
  BY QueueStep
<1>2. QueueInv => NoStuckUpload /\ WorkerOwnsRunning
  BY DEF QueueInv
<1> QED BY InitQueue, <1>1, <1>2, PTL DEF Spec

(* The upload page and the worker agree about every job, after any fault.    *)
THEOREM QueueIsHeld == Spec => []QueueHolds
<1>1. TypeOK /\ NoStuckUpload /\ WorkerOwnsRunning => QueueHolds
  BY DEF QueueHolds
<1> QED BY <1>1, QueueTypeCorrect, QueueCorrect, PTL

-----------------------------------------------------------------------------
(* Decisions *)

LEMMA DecisionStep ==
    ASSUME TypeOK, [Next]_vars, NEW e \in DOMAIN extractions,
           extractions[e].review \in {"approved", "rejected"}
    PROVE  extractions'[e] = extractions[e] \/ extractions'[e].review = "deleted"
<1>1. ASSUME NEW d, NEW review, NEW txn, AddExtraction(d, review, txn)
      PROVE  extractions'[e] = extractions[e]
  BY <1>1 DEF AddExtraction, TypeOK
<1>2. ASSUME NEW f \in DOMAIN extractions, NEW review, NEW txn, NEW status,
             Pending(f), Decide(f, review, txn, status)
      PROVE  extractions'[e] = extractions[e]
  BY <1>2 DEF Decide, Pending
<1>3. CASE WorkerStep
  BY <1>1, <1>3
  DEF WorkerStep, Claim, ReadDocument, Extract, HandlerRaises, Commit, Park, SendToReview,
      promote_receipt, CommitFindsNoDocument, FinishDone, FinishFailed, database
<1>4. CASE Operator
  <2>1. ASSUME NEW d \in Docs, delete_document(d)
        PROVE  extractions'[e] = extractions[e] \/ extractions'[e].review = "deleted"
    BY <2>1 DEF delete_document
  <2>2. ASSUME NEW d \in Docs,
               Capture(d) \/ document_retry(d) \/ reprocess(d) \/ BankBooks(d) \/ BankReverses(d)
        PROVE  extractions'[e] = extractions[e]
    BY <2>2 DEF Capture, document_retry, reprocess, BankBooks, BankReverses
  <2>3. ASSUME NEW f \in DOMAIN extractions,
               \/ \E separate \in BOOLEAN : approve(f, separate)
               \/ attach_receipt(f)
               \/ reject(f)
        PROVE  extractions'[e] = extractions[e]
    BY <1>2, <2>3 DEF approve, attach_receipt, reject
  <2> QED BY <1>4, <2>1, <2>2, <2>3 DEF Operator
<1>5. CASE Fault \/ Boot \/ (\E j \in DOMAIN jobs : BackoffElapses(j)) \/ UNCHANGED vars
  BY <1>5 DEF Fault, Crash, FinishRaises, Boot, BackoffElapses, vars, database
<1> QED BY <1>3, <1>4, <1>5 DEF Next

(* What the operator decided stays decided, unless the document is deleted.  *)
THEOREM DecisionsStay == Spec => DecisionsFinal
<1>1. TypeOK /\ [Next]_vars =>
          [\A e \in DOMAIN extractions : extractions[e].review \in {"approved", "rejected"} =>
              extractions'[e] = extractions[e] \/ extractions'[e].review = "deleted"]_vars
  BY DecisionStep
<1> QED BY QueueTypeCorrect, <1>1, PTL DEF Spec, DecisionsFinal


-----------------------------------------------------------------------------
(* Structured imports: a file, its account and its provider are imported      *)
(* once, a movement has one active row, and approvals and closed months cover *)
(* the rows they saw.                                                         *)

FileOf(n) == imports[n].attempt.file
AccountOf(n) == imports[n].attempt.account
Imported(n) == n \in DOMAIN imports /\ imports[n].status = "confirmed"

Attempt == [file : Files, account : Accounts, form : {x.form : x \in Forms}, conflict : BOOLEAN]
Import == [attempt : Attempt, status : {"preview", "blocked", "confirmed", "duplicate"}]

(* A line is a row of a confirmed import.                                     *)
LinesAreRows ==
    /\ lines = [i \in DOMAIN lines |-> [key |-> lines[i].key, state |-> lines[i].state]]
    /\ \A i \in DOMAIN lines :
          /\ Imported(i.import) /\ i.row \in Rows[FileOf(i.import)]
          /\ i = [import |-> i.import, row |-> i.row]
          /\ lines[i].state \in {"open", "booked", "excluded"}

TablesOK ==
    /\ imports \in Seq(Import)
    /\ \A r \in replaced : r.pending \in DOMAIN lines /\ r.posted \in DOMAIN lines
    /\ bindings \in [{Provider[f] : f \in Files} \ {Nothing} -> Accounts \cup {Nothing}]
    /\ reviews \in [Files -> {Nothing, "pending", "approved"}]
    /\ signed = [f \in Files |-> signed[f]]
    /\ documents \in [Files -> {Nothing, "needs_review", "processed"}]

(* A statement is under review exactly when an import of its file was         *)
(* confirmed; this is what a second confirmation finds.                       *)
ReviewsAreImports == \A f \in Files :
    reviews[f] # Nothing <=> \E n \in DOMAIN imports : Imported(n) /\ FileOf(n) = f

(* A provider is bound to the account that its imports went into.             *)
BindingsHold == \A n \in DOMAIN imports :
    Imported(n) /\ Provider[FileOf(n)] # Nothing => bindings[Provider[FileOf(n)]] = AccountOf(n)

ImportInv ==
    /\ TablesOK /\ LinesAreRows
    /\ ReviewsAreImports /\ BindingsHold
    /\ StagedOnce /\ DuplicateIsHeld
    /\ RowsHold

-----------------------------------------------------------------------------
(* What the invariant says of the property                                    *)

LEMMA ImportInvSuffices == ImportInv => ImportedOnce /\ RowsHold
<1> SUFFICES ASSUME ImportInv PROVE ImportedOnce
  BY DEF ImportInv
<1> USE DEF ImportInv
<1>1. ImportsTypeOK
  <2>1. \A n \in DOMAIN imports : imports[n] \in Import
    BY DEF TablesOK
  <2>2. \A i \in DOMAIN lines : i.row \in Rows[File(i)] /\ lines[i].state \in {"open", "booked", "excluded"}
    BY DEF LinesAreRows, FileOf, File
  <2>3. \A p \in DOMAIN bindings : bindings[p] \in Accounts \cup {Nothing}
    BY DEF TablesOK
  <2>4. \A r \in replaced : {r.pending, r.posted} \subseteq DOMAIN lines
    BY DEF TablesOK
  <2>5. \A n \in DOMAIN imports : /\ imports[n].attempt.file \in Files
                                  /\ imports[n].attempt.account \in Accounts
                                  /\ imports[n].status \in {"preview", "blocked", "confirmed", "duplicate"}
    BY <2>1 DEF Import, Attempt
  <2> QED
    BY <2>2, <2>3, <2>4, <2>5 DEF ImportsTypeOK, TablesOK
<1>2. ProviderOneAccount
  BY DEF ProviderOneAccount, BindingsHold, Imported, FileOf, AccountOf
<1> QED
  BY <1>1, <1>2 DEF ImportedOnce

LEMMA ImportStarts == ImportsInit => ImportInv
<1> SUFFICES ASSUME ImportsInit PROVE ImportInv
  OBVIOUS
<1>1. DOMAIN imports = {} /\ DOMAIN lines = {} /\ replaced = {}
  BY DEF ImportsInit
<1>2. TablesOK
  BY <1>1 DEF ImportsInit, TablesOK
<1>3. LinesAreRows
  BY <1>1 DEF ImportsInit, LinesAreRows
<1>4. ReviewsAreImports /\ BindingsHold /\ StagedOnce /\ DuplicateIsHeld
  BY <1>1 DEF ImportsInit, ReviewsAreImports, BindingsHold, StagedOnce, DuplicateIsHeld
<1>5. RowsHold
  BY <1>1 DEF ImportsInit, RowsHold, NewRowsAreNew, ActiveRowsDiffer, ApprovedAsSeen, Live, Nothing
<1> QED
  BY <1>2, <1>3, <1>4, <1>5 DEF ImportInv

-----------------------------------------------------------------------------
(* Steps that leave the imports alone                                         *)

(* While the imports stay, so do the identities of the lines.                 *)
LEMMA NamesStay ==
    ASSUME UNCHANGED imports
    PROVE  /\ \A i \in DOMAIN lines : File(i)' = File(i) /\ Account(i)' = Account(i)
           /\ \A n \in DOMAIN imports : FileOf(n)' = FileOf(n) /\ AccountOf(n)' = AccountOf(n)
           /\ \A n \in DOMAIN imports : Imported(n)' <=> Imported(n)
  BY DEF File, Account, FileOf, AccountOf, Imported

LEMMA ImportsStay ==
    ASSUME ImportInv, UNCHANGED <<imports, bindings>>, DOMAIN lines' = DOMAIN lines,
           reviews' \in [Files -> {Nothing, "pending", "approved"}],
           \A f \in Files : reviews'[f] # Nothing <=> reviews[f] # Nothing
    PROVE  ReviewsAreImports' /\ BindingsHold' /\ StagedOnce' /\ DuplicateIsHeld'
<1> USE NamesStay DEF ImportInv
<1>1. ReviewsAreImports'
  BY DEF ReviewsAreImports
<1>2. BindingsHold'
  BY DEF BindingsHold
<1>3. StagedOnce'
  BY DEF StagedOnce
<1>4. DuplicateIsHeld'
  BY DEF DuplicateIsHeld
<1> QED
  BY <1>1, <1>2, <1>3, <1>4

(* A row gets another key or state, and its statement is no longer approved.  *)
LEMMA RowChanges ==
    ASSUME ImportInv, NEW i \in DOMAIN lines, NEW k, NEW s \in {"open", "excluded"},
           ChangeRow(i, [key |-> k, state |-> s]),
           s = "open" => \A j \in DOMAIN lines \ {i} :
               Account(j) = Account(i) /\ lines[j].state # "excluded" => lines[j].key # k
    PROVE  ImportInv'
<1> USE NamesStay DEF ImportInv
<1>1. /\ UNCHANGED <<imports, replaced, bindings, signed, locked>>
      /\ lines' = [lines EXCEPT ![i] = [key |-> k, state |-> s]]
      /\ reviews' = Reopened({File(i)}) /\ documents' = Requeued({File(i)})
  BY DEF ChangeRow
<1>2. /\ DOMAIN lines' = DOMAIN lines /\ lines'[i] = [key |-> k, state |-> s]
      /\ \A j \in DOMAIN lines \ {i} : lines'[j] = lines[j]
  BY <1>1 DEF LinesAreRows
<1>3. TablesOK'
  BY <1>1, <1>2 DEF TablesOK, Reopened, Requeued
<1>4. LinesAreRows'
  <2>1. lines' = [j \in DOMAIN lines' |-> [key |-> lines'[j].key, state |-> lines'[j].state]]
    BY <1>1, <1>2 DEF LinesAreRows
  <2> QED
    BY <1>1, <1>2, <2>1 DEF LinesAreRows, Imported, FileOf
<1>5. \A f \in Files : /\ reviews'[f] # Nothing <=> reviews[f] # Nothing
                       /\ reviews'[f] = "approved" => reviews[f] = "approved" /\ f # File(i)
  BY <1>1 DEF Reopened, TablesOK, Nothing
<1>6. ReviewsAreImports' /\ BindingsHold' /\ StagedOnce' /\ DuplicateIsHeld'
  BY <1>1, <1>2, <1>3, <1>5, ImportsStay DEF TablesOK
<1>7. NewRowsAreNew'
  BY <1>1, <1>2 DEF RowsHold, NewRowsAreNew, Live
<1>8. ActiveRowsDiffer'
  BY <1>1, <1>2 DEF RowsHold, ActiveRowsDiffer
<1>9. ApprovedAsSeen'
  <2> SUFFICES ASSUME NEW f \in Files, reviews'[f] = "approved"
               PROVE  signed'[f] = Active(f, lines)'
    BY DEF ApprovedAsSeen
  <2>1. f # File(i) /\ signed[f] = Active(f, lines)
    BY <1>5 DEF RowsHold, ApprovedAsSeen
  <2>2. LinesOf(f)' = LinesOf(f) /\ \A j \in LinesOf(f) : lines'[j] = lines[j]
    BY <1>1, <1>2, <2>1 DEF LinesOf
  <2>3. Active(f, lines)' = Active(f, lines)
    BY <2>2 DEF Active
  <2> QED
    BY <1>1, <2>1, <2>3
<1> QED
  BY <1>3, <1>4, <1>6, <1>7, <1>8, <1>9 DEF RowsHold

LEMMA RowsAreCorrected ==
    ASSUME ImportInv, NEW i \in DOMAIN lines,
           exclude_row(i) \/ restore_row(i) \/ \E text \in Texts : correct_row(i, text)
    PROVE  ImportInv'
<1>1. CASE exclude_row(i)
  BY <1>1, RowChanges DEF exclude_row
<1>2. CASE restore_row(i)
  BY <1>2, RowChanges DEF restore_row, Restorable, ActiveKey
<1>3. CASE \E text \in Texts : correct_row(i, text)
  <2> PICK text \in Texts : correct_row(i, text)
    BY <1>3
  <2> DEFINE key == <<i.row.day, text>>
  <2>1. /\ ~ActiveKey(Account(i), key)
        /\ ChangeRow(i, [key |-> key, state |-> "open"])
    BY DEF correct_row
  <2> HIDE DEF key
  <2> QED
    BY <2>1, RowChanges DEF ActiveKey
<1> QED
  BY <1>1, <1>2, <1>3

(* What reconciliation books is what was approved.                            *)
LEMMA RowsAreSettled ==
    ASSUME ImportInv, NEW f \in Files, NEW from, NEW to \in {"open", "booked"},
           from \in {"open", "booked"}, Settle(f, from, to)
    PROVE  ImportInv'
<1> USE NamesStay DEF ImportInv
<1>1. /\ UNCHANGED <<imports, replaced, bindings, reviews, signed, documents, locked>>
      /\ lines' = [i \in DOMAIN lines |-> IF File(i) = f /\ lines[i].state = from
                                          THEN [lines[i] EXCEPT !.state = to] ELSE lines[i]]
  BY DEF Settle
<1>2. /\ DOMAIN lines' = DOMAIN lines
      /\ \A i \in DOMAIN lines :
            /\ lines'[i] = [key |-> lines'[i].key, state |-> lines'[i].state]
            /\ lines'[i].key = lines[i].key
            /\ \/ lines'[i].state = lines[i].state
               \/ lines'[i].state = to /\ lines[i].state = from
  BY <1>1 DEF LinesAreRows
<1>3. TablesOK'
  BY <1>1, <1>2 DEF TablesOK
<1>4. LinesAreRows'
  <2>1. lines' = [j \in DOMAIN lines' |-> [key |-> lines'[j].key, state |-> lines'[j].state]]
    BY <1>1, <1>2
  <2> QED
    BY <1>1, <1>2, <2>1 DEF LinesAreRows, Imported, FileOf
<1>5. ReviewsAreImports' /\ BindingsHold' /\ StagedOnce' /\ DuplicateIsHeld'
  BY <1>1, <1>2, ImportsStay DEF TablesOK
<1>6. NewRowsAreNew'
  BY <1>1, <1>2 DEF RowsHold, NewRowsAreNew, Live
<1>7. ActiveRowsDiffer'
  BY <1>1, <1>2 DEF RowsHold, ActiveRowsDiffer
<1>8. ApprovedAsSeen'
  <2>1. \A g \in Files : Active(g, lines)' = Active(g, lines)
    <3> TAKE g \in Files
    <3>1. LinesOf(g)' = LinesOf(g)
      BY <1>1, <1>2 DEF LinesOf
    <3>2. \A j \in DOMAIN lines : /\ lines'[j].state # "excluded" <=> lines[j].state # "excluded"
                                  /\ lines'[j].key = lines[j].key
      BY <1>2
    <3> QED
      BY <3>1, <3>2 DEF Active, LinesOf
  <2> QED
    BY <1>1, <2>1 DEF RowsHold, ApprovedAsSeen
<1> QED
  BY <1>3, <1>4, <1>5, <1>6, <1>7, <1>8 DEF RowsHold

LEMMA StatementIsApproved ==
    ASSUME ImportInv, NEW f \in Files, approve_review(f)
    PROVE  ImportInv'
<1> USE NamesStay DEF ImportInv
<1>1. /\ UNCHANGED <<imports, lines, replaced, bindings, locked>>
      /\ reviews[f] = "pending"
      /\ reviews' = [reviews EXCEPT ![f] = "approved"]
      /\ signed' = [signed EXCEPT ![f] = Active(f, lines)]
      /\ documents' = [documents EXCEPT ![f] = "processed"]
  BY DEF approve_review
<1>2. TablesOK' /\ LinesAreRows'
  BY <1>1 DEF TablesOK, LinesAreRows, Imported, FileOf
<1>3. \A g \in Files : reviews'[g] # Nothing <=> reviews[g] # Nothing
  BY <1>1 DEF TablesOK, Nothing
<1>4. ReviewsAreImports' /\ BindingsHold' /\ StagedOnce' /\ DuplicateIsHeld'
  BY <1>1, <1>2, <1>3, ImportsStay DEF TablesOK
<1>5. NewRowsAreNew' /\ ActiveRowsDiffer'
  BY <1>1 DEF RowsHold, NewRowsAreNew, ActiveRowsDiffer, Live
<1>6. ApprovedAsSeen'
  <2>1. \A g \in Files : Active(g, lines)' = Active(g, lines)
    BY <1>1 DEF Active, LinesOf
  <2> QED
    BY <1>1, <2>1 DEF RowsHold, ApprovedAsSeen, TablesOK
<1> QED
  BY <1>2, <1>4, <1>5, <1>6 DEF RowsHold

-----------------------------------------------------------------------------
(* Steps of an attempt that stage nothing                                     *)

(* An attempt is added, or one that is not confirmed gets another status; the *)
(* rest of the tables stays, but for the status of documents.                 *)
LEMMA AttemptMoves ==
    ASSUME ImportInv, UNCHANGED <<lines, replaced, bindings, reviews, signed>>,
           documents' \in [Files -> {Nothing, "needs_review", "processed"}],
           imports' \in Seq(Import), DOMAIN imports \subseteq DOMAIN imports',
           \A n \in DOMAIN imports : imports'[n].attempt = imports[n].attempt,
           \A n \in DOMAIN imports' : imports'[n].status = "confirmed" <=> Imported(n),
           \A n \in DOMAIN imports' : imports'[n].status = "duplicate" =>
               \/ n \in DOMAIN imports /\ imports[n].status = "duplicate"
               \/ \A row \in Rows[imports'[n].attempt.file] : \E i \in DOMAIN lines :
                     Account(i) = imports'[n].attempt.account /\ Weak(i.row) = Weak(row)
    PROVE  ImportInv'
<1> USE DEF ImportInv
<1>1. \A n \in DOMAIN imports' : Imported(n)' <=> Imported(n)
  BY DEF Imported
<1>2. \A n \in DOMAIN imports : /\ n \in DOMAIN imports'
                                /\ FileOf(n)' = FileOf(n) /\ AccountOf(n)' = AccountOf(n)
  BY DEF FileOf, AccountOf
<1>3. \A i \in DOMAIN lines : /\ i.import \in DOMAIN imports
                              /\ File(i)' = File(i) /\ Account(i)' = Account(i)
  BY DEF File, Account, LinesAreRows, Imported
<1>4. TablesOK'
  BY DEF TablesOK
<1>5. LinesAreRows'
  BY <1>1, <1>2, <1>3 DEF LinesAreRows
<1>6. ReviewsAreImports'
  <2>1. \A f \in Files : (\E n \in DOMAIN imports' : Imported(n)' /\ FileOf(n)' = f)
                          <=> \E n \in DOMAIN imports : Imported(n) /\ FileOf(n) = f
    BY <1>1, <1>2 DEF Imported
  <2> QED
    BY <2>1 DEF ReviewsAreImports
<1>7. BindingsHold'
  BY <1>1, <1>2 DEF BindingsHold, Imported
<1>8. StagedOnce'
  BY <1>1, <1>2 DEF StagedOnce, Imported
<1>9. DuplicateIsHeld'
  <2> SUFFICES ASSUME NEW n \in DOMAIN imports', imports'[n].status = "duplicate",
                      NEW row \in Rows[imports'[n].attempt.file]
               PROVE  \E i \in DOMAIN lines :
                         Account(i) = imports'[n].attempt.account /\ Weak(i.row) = Weak(row)
    BY <1>3 DEF DuplicateIsHeld, Weak
  <2>1. CASE n \in DOMAIN imports /\ imports[n].status = "duplicate"
    BY <2>1 DEF DuplicateIsHeld
  <2> QED
    BY <2>1
<1>10. RowsHold'
  <2>1. NewRowsAreNew' /\ ActiveRowsDiffer'
    BY <1>3 DEF RowsHold, NewRowsAreNew, ActiveRowsDiffer, Live
  <2>2. \A f \in Files : Active(f, lines)' = Active(f, lines)
    <3> TAKE f \in Files
    <3>1. LinesOf(f)' = LinesOf(f)
      BY <1>3 DEF LinesOf
    <3> QED
      BY <3>1 DEF Active
  <2>3. ApprovedAsSeen'
    BY <2>2 DEF RowsHold, ApprovedAsSeen
  <2> QED
    BY <2>1, <2>3 DEF RowsHold
<1> QED
  BY <1>4, <1>5, <1>6, <1>7, <1>8, <1>9, <1>10

LEMMA PreviewSteps ==
    ASSUME ImportInv, NEW form \in Forms, preview_import(form)
    PROVE  ImportInv'
<1> DEFINE attempt == [file |-> form.file, account |-> form.account, form |-> form.form,
                       conflict |-> Conflict(form.file, form.account)]
<1>1. create_preview(attempt) /\ documents' = [documents EXCEPT ![form.file] = "needs_review"]
      /\ UNCHANGED <<lines, replaced, bindings, reviews, signed, locked>>
  BY DEF preview_import
<1>2. imports \in Seq(Import) /\ documents \in [Files -> {Nothing, "needs_review", "processed"}]
  BY DEF ImportInv, TablesOK
<1>3. documents' \in [Files -> {Nothing, "needs_review", "processed"}]
  BY <1>1, <1>2
<1>4. CASE imports' = imports
  BY <1>1, <1>2, <1>3, <1>4, AttemptMoves DEF Imported
<1>5. CASE imports' = Append(imports, [attempt |-> attempt, status |-> "preview"])
  <2>1. attempt \in Attempt
    BY ImportAssumption DEF Attempt, Conflict
  <2> HIDE DEF attempt
  <2>2. [attempt |-> attempt, status |-> "preview"] \in Import
    BY <2>1 DEF Import
  <2>3. /\ imports' \in Seq(Import) /\ DOMAIN imports' = DOMAIN imports \cup {Len(imports) + 1}
        /\ Len(imports) + 1 \notin DOMAIN imports
        /\ \A n \in DOMAIN imports : imports'[n] = imports[n]
        /\ imports'[Len(imports) + 1].status = "preview"
    BY <1>2, <1>5, <2>2
  <2> QED
    BY <1>1, <1>3, <2>3, AttemptMoves DEF Imported
<1> QED
  BY <1>1, <1>4, <1>5 DEF create_preview

LEMMA RefusedSteps ==
    ASSUME ImportInv, NEW n \in DOMAIN imports, confirm_duplicate(n) \/ confirm_blocked(n)
    PROVE  ImportInv'
<1>1. imports \in Seq(Import) /\ documents \in [Files -> {Nothing, "needs_review", "processed"}]
  BY DEF ImportInv, TablesOK
<1>2. PICK status \in {"duplicate", "blocked"} :
         /\ Confirmable(n) /\ Evaluated(n, status)
         /\ UNCHANGED <<lines, replaced, bindings, reviews, signed, locked>>
         /\ status = "duplicate" => IsDuplicate(n)
  BY DEF confirm_duplicate, confirm_blocked
<1>3. documents' \in [Files -> {Nothing, "needs_review", "processed"}]
  BY <1>1 DEF confirm_duplicate, confirm_blocked
<1>4. /\ imports' \in Seq(Import) /\ DOMAIN imports' = DOMAIN imports
      /\ \A m \in DOMAIN imports \ {n} : imports'[m] = imports[m]
      /\ imports'[n].attempt = imports[n].attempt /\ imports'[n].status = status
      /\ imports[n].status = "preview"
  <2>1. imports[n] \in Import
    BY <1>1
  <2>2. imports' = [imports EXCEPT ![n].status = status]
    BY <1>2 DEF Evaluated
  <2>3. [imports[n] EXCEPT !.status = status] \in Import
    BY <2>1, <1>2 DEF Import
  <2> QED
    BY <1>1, <1>2, <2>1, <2>2, <2>3 DEF Import, Confirmable
<1>5. status = "duplicate" =>
         \A row \in Rows[FileOf(n)] : \E i \in DOMAIN lines :
             Account(i) = AccountOf(n) /\ Weak(i.row) = Weak(row)
  <2> HAVE status = "duplicate"
  <2>1. PICK m \in Exact(n) : TRUE
    BY <1>2 DEF IsDuplicate
  <2>2. /\ imports[m].attempt.account = AccountOf(n)
        /\ {Weak(i.row) : i \in {j \in Live : j.import = m}} = {Weak(row) : row \in Rows[FileOf(n)]}
    BY <2>1 DEF Exact, FileOf, AccountOf
  <2> TAKE row \in Rows[FileOf(n)]
  <2>3. PICK i \in {j \in Live : j.import = m} : Weak(i.row) = Weak(row)
    BY <2>2
  <2> QED
    BY <2>2, <2>3 DEF Live, Account
<1> QED
  BY <1>2, <1>3, <1>4, <1>5, AttemptMoves DEF Imported, FileOf, AccountOf
-----------------------------------------------------------------------------
(* The confirmation that stages                                               *)

NewRows(n) == {[import |-> n, row |-> row] : row \in Rows[FileOf(n)]}
Replaceable(n) == UNION {SameFitid(FileOf(n), row) :
    row \in {r \in Rows[FileOf(n)] : Overlap(n, r) = "supersede_pending"}}
Staged(n) ==
    [i \in DOMAIN lines \cup NewRows(n) |->
        IF i \in NewRows(n) THEN [key |-> Key(i.row), state |-> "open"]
        ELSE IF i \in Replaceable(n) THEN [lines[i] EXCEPT !.state = "excluded"] ELSE lines[i]]
Priors(n) == {File(i) : i \in Replaceable(n)}

(* What the confirmation finds and writes.                                    *)
LEMMA StagedStep ==
    ASSUME NEW n, confirm_staged(n)
    PROVE  /\ imports[n].status = "preview" /\ Month[FileOf(n)] \notin locked
           /\ ~Conflict(FileOf(n), AccountOf(n)) /\ reviews[FileOf(n)] = Nothing
           /\ \A row \in Rows[FileOf(n)] : Overlap(n, row) # "ambiguous"
           /\ \A g \in Priors(n) : Correctable(g)
           /\ \A i \in DOMAIN lines : Account(i) = AccountOf(n) =>
                 \A j \in NewRows(n) :
                     Staged(n)[i].state # "excluded" => Staged(n)[i].key # Staged(n)[j].key
           /\ imports' = [imports EXCEPT ![n].status = "confirmed"]
           /\ lines' = Staged(n)
           /\ replaced' = replaced \cup {r \in [pending : Replaceable(n), posted : NewRows(n)] :
                                            r.pending.row.fitid = r.posted.row.fitid}
           /\ bindings' = IF Provider[FileOf(n)] = Nothing THEN bindings
                          ELSE [bindings EXCEPT ![Provider[FileOf(n)]] = AccountOf(n)]
           /\ reviews' = [Reopened(Priors(n)) EXCEPT ![FileOf(n)] = NewReview(FileOf(n))]
           /\ documents' = [Requeued(Priors(n)) EXCEPT ![FileOf(n)] = FiledAs(FileOf(n))]
           /\ signed' = IF FileOf(n) \in Complete
                        THEN [signed EXCEPT ![FileOf(n)] = {<<i, Key(i.row)>> : i \in NewRows(n)}]
                        ELSE signed
           /\ UNCHANGED locked
<1>1. /\ imports[n].status = "preview" /\ Month[FileOf(n)] \notin locked /\ ~Blocked(n) /\ ~IsDuplicate(n)
  BY DEF confirm_staged, Confirmable, FileOf
<1>2. /\ ~Conflict(FileOf(n), AccountOf(n)) /\ reviews[FileOf(n)] = Nothing
      /\ \A row \in Rows[FileOf(n)] : Overlap(n, row) # "ambiguous"
  BY <1>1 DEF Blocked, Conflicts, AlreadyReviewed, FileOf, AccountOf
<1>3. /\ \A g \in Priors(n) : Correctable(g)
      /\ \A i \in DOMAIN lines : Account(i) = AccountOf(n) =>
            \A j \in NewRows(n) :
                Staged(n)[i].state # "excluded" => Staged(n)[i].key # Staged(n)[j].key
  BY DEF confirm_staged, Priors, Staged, NewRows, Replaceable, FileOf, AccountOf
<1>4. /\ imports' = [imports EXCEPT ![n].status = "confirmed"]
      /\ lines' = Staged(n)
      /\ replaced' = replaced \cup {r \in [pending : Replaceable(n), posted : NewRows(n)] :
                                       r.pending.row.fitid = r.posted.row.fitid}
  BY DEF confirm_staged, Evaluated, Staged, NewRows, Replaceable, FileOf
<1>5. /\ bindings' = IF Provider[FileOf(n)] = Nothing THEN bindings
                     ELSE [bindings EXCEPT ![Provider[FileOf(n)]] = AccountOf(n)]
      /\ UNCHANGED locked
  BY DEF confirm_staged, FileOf, AccountOf
<1>6. /\ reviews' = [Reopened(Priors(n)) EXCEPT ![FileOf(n)] = NewReview(FileOf(n))]
      /\ documents' = [Requeued(Priors(n)) EXCEPT ![FileOf(n)] = FiledAs(FileOf(n))]
  BY DEF confirm_staged, Priors, Replaceable, FileOf
<1>7. signed' = IF FileOf(n) \in Complete
                THEN [signed EXCEPT ![FileOf(n)] = {<<i, Key(i.row)>> : i \in NewRows(n)}]
                ELSE signed
  BY DEF confirm_staged, NewRows, FileOf
<1> QED
  BY <1>1, <1>2, <1>3, <1>4, <1>5, <1>6, <1>7

(* What overlaps and is not ambiguous replaces a pending row; what is new     *)
(* meets nothing of its day in the account.                                   *)
LEMMA NotAmbiguous ==
    ASSUME NEW n, NEW row, Overlap(n, row) # "ambiguous"
    PROVE  \/ /\ Overlap(n, row) = "supersede_pending"
              /\ SameFitid(FileOf(n), row) # {}
           \/ \A i \in Live : Account(i) = AccountOf(n) => i.row.day # row.day
  BY DEF Overlap, FileOf, AccountOf, Coincides

LEMMA RowsAreStaged ==
    ASSUME ImportInv, NEW n \in DOMAIN imports, confirm_staged(n)
    PROVE  ImportInv'
<1> USE DEF ImportInv
<1> DEFINE f == FileOf(n)  a == AccountOf(n)  new == NewRows(n)  old == Replaceable(n)
<1>a. imports \in Seq(Import) /\ \A m \in DOMAIN imports : imports[m] \in Import
  BY DEF TablesOK
<1>1. \A m \in DOMAIN imports : FileOf(m) \in Files /\ AccountOf(m) \in Accounts
  BY <1>a DEF Import, Attempt, FileOf, AccountOf
<1>b. imports' = [imports EXCEPT ![n].status = "confirmed"] /\ imports[n].status = "preview"
  BY StagedStep
<1>c. imports' \in Seq(Import)
  <2>1. [imports[n] EXCEPT !.status = "confirmed"] \in Import
    BY <1>a DEF Import
  <2> QED
    BY <1>a, <1>b, <2>1
<1>2. /\ DOMAIN imports' = DOMAIN imports
      /\ \A m \in DOMAIN imports : imports'[m].attempt = imports[m].attempt
      /\ \A m \in DOMAIN imports : m # n => imports'[m] = imports[m]
      /\ imports'[n].status = "confirmed" /\ imports[n].status = "preview"
  BY <1>a, <1>b DEF Import
<1>3. /\ \A m \in DOMAIN imports : /\ FileOf(m)' = FileOf(m) /\ AccountOf(m)' = AccountOf(m)
                                   /\ Imported(m)' <=> Imported(m) \/ m = n
      /\ ~Imported(n)
  BY <1>2 DEF FileOf, AccountOf, Imported
<1>4. old \subseteq DOMAIN lines
  BY DEF Replaceable, SameFitid, Live
<1>5. /\ \A i \in DOMAIN lines : /\ i.import \in DOMAIN imports /\ i.import # n
                                 /\ File(i)' = File(i) /\ Account(i)' = Account(i)
                                  /\ File(i) # f
      /\ \A i \in new : /\ i.import = n /\ i.row \in Rows[f] /\ i = [import |-> n, row |-> i.row]
                        /\ File(i)' = f /\ Account(i)' = a
      /\ new \cap DOMAIN lines = {}
  <2>1. \A i \in DOMAIN lines : /\ Imported(i.import) /\ i.import \in DOMAIN imports /\ i.import # n
                                /\ File(i) = FileOf(i.import)
    BY <1>2 DEF LinesAreRows, Imported, File, FileOf
  <2>2. \A i \in DOMAIN lines : File(i) # f
    BY <1>1, <2>1, StagedStep DEF ReviewsAreImports
  <2>3. \A i \in DOMAIN lines : File(i)' = File(i) /\ Account(i)' = Account(i)
    BY <1>2, <2>1 DEF File, Account
  <2>4. \A i \in new : i.import = n /\ i.row \in Rows[f] /\ i = [import |-> n, row |-> i.row]
    BY DEF NewRows
  <2>5. \A i \in new : File(i)' = f /\ Account(i)' = a
    BY <1>2, <2>4 DEF File, Account, FileOf, AccountOf
  <2> QED
    BY <2>1, <2>2, <2>3, <2>4, <2>5
<1>6. /\ DOMAIN lines' = DOMAIN lines \cup new
      /\ \A i \in new : lines'[i] = [key |-> Key(i.row), state |-> "open"]
      /\ \A i \in DOMAIN lines :
            /\ lines'[i] = [key |-> lines[i].key, state |-> lines'[i].state]
            /\ i \in old => lines'[i].state = "excluded"
            /\ i \notin old => lines'[i] = lines[i]
      /\ lines' = [i \in DOMAIN lines \cup new |-> lines'[i]]
      /\ lines' = Staged(n)
  <2>1. lines' = Staged(n)
    BY StagedStep
  <2>2. \A i \in DOMAIN lines : lines[i] = [key |-> lines[i].key, state |-> lines[i].state]
    BY DEF LinesAreRows
  <2> QED
    BY <1>4, <1>5, <2>1, <2>2 DEF Staged
<1>7. /\ reviews' \in [Files -> {Nothing, "pending", "approved"}]
      /\ documents' \in [Files -> {Nothing, "needs_review", "processed"}]
      /\ reviews'[f] = NewReview(f) /\ reviews'[f] # Nothing
      /\ \A g \in Files \ {f} :
            /\ reviews'[g] # Nothing <=> reviews[g] # Nothing
            /\ reviews'[g] = "approved" => reviews[g] = "approved" /\ g \notin Priors(n)
  <2>1. /\ Reopened(Priors(n)) \in [Files -> {Nothing, "pending", "approved"}]
        /\ Requeued(Priors(n)) \in [Files -> {Nothing, "needs_review", "processed"}]
        /\ \A g \in Files :
              /\ Reopened(Priors(n))[g] # Nothing <=> reviews[g] # Nothing
              /\ Reopened(Priors(n))[g] = "approved" => reviews[g] = "approved" /\ g \notin Priors(n)
    BY DEF TablesOK, Reopened, Requeued, Nothing
  <2>2. NewReview(f) \in {"pending", "approved"} /\ FiledAs(f) \in {"needs_review", "processed"}
    BY DEF NewReview, FiledAs
  <2>3. /\ reviews' = [Reopened(Priors(n)) EXCEPT ![f] = NewReview(f)]
        /\ documents' = [Requeued(Priors(n)) EXCEPT ![f] = FiledAs(f)]
    BY StagedStep
  <2>4. NewReview(f) # Nothing
    BY <2>2 DEF Nothing
  <2> QED
    BY <1>1, <2>1, <2>2, <2>3, <2>4
<1>d. /\ signed' = [g \in Files |-> signed'[g]]
      /\ \A g \in Files \ {f} : signed'[g] = signed[g]
      /\ f \in Complete => signed'[f] = {<<i, Key(i.row)>> : i \in new}
  <2> DEFINE seen == {<<i, Key(i.row)>> : i \in new}
  <2>1. /\ f \in Complete => signed' = [signed EXCEPT ![f] = seen]
        /\ f \notin Complete => signed' = signed
    BY StagedStep
  <2>2. signed = [g \in Files |-> signed[g]] /\ f \in Files
    BY <1>1 DEF TablesOK
  <2> HIDE DEF f, seen
  <2>3. DOMAIN signed = Files
    BY <2>2
  <2>4. signed' = [signed EXCEPT ![f] = seen] => signed' = [g \in Files |-> IF g = f THEN seen ELSE signed[g]]
    BY <2>3
  <2>5. signed' = [g \in Files |-> signed'[g]] /\ \A g \in Files \ {f} : signed'[g] = signed[g]
    <3>1. CASE signed' = signed
      BY <2>2, <3>1
    <3>2. CASE signed' = [signed EXCEPT ![f] = seen]
      BY <2>2, <2>4, <3>2
    <3> QED
      BY <2>1, <3>1, <3>2
  <2>6. f \in Complete => signed'[f] = seen
    BY <2>1, <2>2
  <2> QED
    BY <2>5, <2>6 DEF seen
<1>8. TablesOK'
  <2>1. \A r \in replaced' : r.pending \in DOMAIN lines' /\ r.posted \in DOMAIN lines'
    <3>1. replaced' = replaced \cup {r \in [pending : old, posted : new] : r.pending.row.fitid = r.posted.row.fitid}
      BY StagedStep
    <3>2. \A r \in [pending : old, posted : new] : r.pending \in old /\ r.posted \in new
      OBVIOUS
    <3>3. \A r \in replaced : r.pending \in DOMAIN lines /\ r.posted \in DOMAIN lines
      BY DEF TablesOK
    <3> HIDE DEF old, new
    <3> QED
      BY <1>4, <1>6, <3>1, <3>2, <3>3
  <2>2. bindings' \in [{Provider[g] : g \in Files} \ {Nothing} -> Accounts \cup {Nothing}]
    <3> DEFINE providers == {Provider[g] : g \in Files} \ {Nothing}
    <3>1. bindings \in [providers -> Accounts \cup {Nothing}] /\ a \in Accounts
      BY <1>1 DEF TablesOK
    <3>2. \/ bindings' = bindings
          \/ bindings' = [bindings EXCEPT ![Provider[f]] = a]
      BY StagedStep
    <3> HIDE DEF providers, a, f
    <3>3. bindings' \in [providers -> Accounts \cup {Nothing}]
      BY <3>1, <3>2
    <3> QED
      BY <3>3 DEF providers
  <2>3. signed' = [g \in Files |-> signed'[g]]
    BY <1>d
  <2> QED
    BY <1>c, <1>7, <2>1, <2>2, <2>3 DEF TablesOK
<1>9. LinesAreRows'
  <2>1. \A i \in DOMAIN lines' : lines'[i] = [key |-> lines'[i].key, state |-> lines'[i].state]
    BY <1>6
  <2>2. \A i \in DOMAIN lines' : lines'[i].state \in {"open", "booked", "excluded"}
    BY <1>6 DEF LinesAreRows
  <2>3. \A i \in DOMAIN lines' : Imported(i.import)' /\ i.row \in Rows[FileOf(i.import)']
                                 /\ i = [import |-> i.import, row |-> i.row]
    BY <1>3, <1>5, <1>6 DEF LinesAreRows
  <2> QED
    BY <1>6, <2>1, <2>2, <2>3 DEF LinesAreRows
<1>10. ReviewsAreImports'
  <2> SUFFICES ASSUME NEW g \in Files
               PROVE  reviews'[g] # Nothing <=> \E m \in DOMAIN imports' : Imported(m)' /\ FileOf(m)' = g
    BY DEF ReviewsAreImports
  <2>1. CASE g = f
    BY <1>2, <1>3, <1>7, <2>1
  <2>2. CASE g # f
    <3>1. reviews'[g] # Nothing <=> \E m \in DOMAIN imports : Imported(m) /\ FileOf(m) = g
      BY <1>7, <2>2 DEF ReviewsAreImports
    <3>2. \A m \in DOMAIN imports : Imported(m)' /\ FileOf(m)' = g <=> Imported(m) /\ FileOf(m) = g
      BY <1>3, <2>2
    <3> QED
      BY <1>2, <3>1, <3>2
  <2> QED
    BY <2>1, <2>2
<1>11. BindingsHold'
  <2> SUFFICES ASSUME NEW m \in DOMAIN imports, Imported(m) \/ m = n, Provider[FileOf(m)] # Nothing
               PROVE  bindings'[Provider[FileOf(m)]] = AccountOf(m)
    <3>1. \A m \in DOMAIN imports' : /\ FileOf(m)' = FileOf(m) /\ AccountOf(m)' = AccountOf(m)
                                     /\ Imported(m)' => Imported(m) \/ m = n
      BY <1>2, <1>3
    <3> QED
      BY <1>2, <3>1 DEF BindingsHold
  <2>1. FileOf(m) \in Files /\ AccountOf(m) \in Accounts
    BY <1>1
  <2>2. CASE Provider[f] = Nothing
    BY <2>2, StagedStep DEF BindingsHold
  <2>3. CASE Provider[f] # Nothing
    <3>1. /\ bindings' = [bindings EXCEPT ![Provider[f]] = a]
          /\ bindings[Provider[f]] \in {Nothing, a}
      BY <2>3, StagedStep DEF Conflict
    <3>2. Provider[FileOf(m)] \in DOMAIN bindings
      BY <2>1 DEF TablesOK
    <3> QED
      BY <1>1, <2>1, <3>1, <3>2, ImportAssumption DEF BindingsHold
  <2> QED
    BY <2>2, <2>3
<1>12. StagedOnce'
  <2> SUFFICES ASSUME NEW m \in DOMAIN imports, NEW k \in DOMAIN imports,
                      Imported(m) \/ m = n, Imported(k) \/ k = n, FileOf(m) = FileOf(k)
               PROVE  m = k
    BY <1>2, <1>3 DEF StagedOnce, Imported, FileOf
  <2>1. \A x \in DOMAIN imports : Imported(x) => FileOf(x) # f
    BY <1>1, StagedStep DEF ReviewsAreImports
  <2> QED
    BY <2>1 DEF StagedOnce, Imported, FileOf
<1>13. DuplicateIsHeld'
  <2> SUFFICES ASSUME NEW m \in DOMAIN imports', imports'[m].status = "duplicate",
                      NEW row \in Rows[imports'[m].attempt.file]
               PROVE  \E i \in DOMAIN lines' :
                         Account(i)' = imports'[m].attempt.account /\ Weak(i.row) = Weak(row)
    BY DEF DuplicateIsHeld, Weak
  <2>1. m # n /\ imports'[m] = imports[m]
    BY <1>2
  <2> QED
    BY <1>2, <1>5, <1>6, <2>1 DEF DuplicateIsHeld
<1>14. NewRowsAreNew'
  <2> DEFINE live == {i \in DOMAIN lines' : \A r \in replaced' : r.pending # i}
  <2> SUFFICES ASSUME NEW i \in live, NEW j \in live, Account(i)' = Account(j)',
                      i.import # j.import, i.row.day = j.row.day
               PROVE  \E r \in replaced' : r.posted \in {i, j}
    BY DEF NewRowsAreNew, Live
  <2>1. replaced \subseteq replaced'
    BY StagedStep
  <2>2. ASSUME NEW x \in live, NEW y \in live, x \in new, y \in DOMAIN lines, Account(y) = a,
               x.row.day = y.row.day
        PROVE  \E r \in replaced' : r.posted = x
    <3>1. y \in Live
      BY <2>1, <2>2 DEF Live
    <3>2. x.row \in Rows[f] /\ Overlap(n, x.row) # "ambiguous"
      BY <1>5, <2>2, StagedStep
    <3>3. Overlap(n, x.row) = "supersede_pending" /\ SameFitid(f, x.row) # {}
      BY <2>2, <3>1, <3>2, NotAmbiguous
    <3>4. PICK z \in SameFitid(f, x.row) : TRUE
      BY <3>3
    <3>5. z \in old /\ z.row.fitid = x.row.fitid
      BY <3>2, <3>3, <3>4 DEF Replaceable, SameFitid
    <3>6. [pending |-> z, posted |-> x] \in {r \in [pending : old, posted : new] :
                                               r.pending.row.fitid = r.posted.row.fitid}
      BY <2>2, <3>5
    <3>7. [pending |-> z, posted |-> x] \in replaced'
      BY <3>6, StagedStep
    <3> QED
      BY <3>7
  <2>3. CASE i \in DOMAIN lines /\ j \in DOMAIN lines
    <3>1. i \in Live /\ j \in Live
      BY <2>1, <2>3 DEF Live
    <3> QED
      BY <1>5, <2>1, <2>3, <3>1 DEF RowsHold, NewRowsAreNew
  <2>4. CASE i \in new /\ j \in DOMAIN lines
    BY <1>5, <2>2, <2>4
  <2>5. CASE j \in new /\ i \in DOMAIN lines
    BY <1>5, <2>2, <2>5
  <2>6. CASE i \in new /\ j \in new
    BY <1>5, <2>6
  <2> QED
    BY <1>6, <2>3, <2>4, <2>5, <2>6
<1>15. ActiveRowsDiffer'
  <2> SUFFICES ASSUME NEW i \in DOMAIN lines', NEW j \in DOMAIN lines',
                      Account(i)' = Account(j)', lines'[i].key = lines'[j].key,
                      lines'[i].state # "excluded", lines'[j].state # "excluded"
               PROVE  i = j
    BY DEF ActiveRowsDiffer
  <2>1. \A x \in DOMAIN lines : \A y \in new :
            Account(x) = a /\ lines'[x].state # "excluded" => lines'[x].key # lines'[y].key
    BY <1>6, StagedStep
  <2>2. CASE i \in DOMAIN lines /\ j \in DOMAIN lines
    BY <1>5, <1>6, <2>2 DEF RowsHold, ActiveRowsDiffer
  <2>3. CASE i \in new /\ j \in DOMAIN lines
    BY <1>5, <2>1, <2>3
  <2>4. CASE j \in new /\ i \in DOMAIN lines
    BY <1>5, <2>1, <2>4
  <2>5. CASE i \in new /\ j \in new
    <3>1. i.row \in Rows[f] /\ j.row \in Rows[f] /\ Key(i.row) = Key(j.row)
      BY <1>5, <1>6, <2>5
    <3>2. i.row = j.row
      BY <1>1, <3>1, ImportAssumption DEF Key
    <3> QED
      BY <1>5, <2>5, <3>2
  <2> QED
    BY <1>6, <2>2, <2>3, <2>4, <2>5
<1>16. ApprovedAsSeen'
  <2> SUFFICES ASSUME NEW g \in Files, reviews'[g] = "approved"
               PROVE  signed'[g] = Active(g, lines)'
    BY DEF ApprovedAsSeen
  <2> DEFINE seen == {i \in DOMAIN lines' : File(i)' = g}
  <2>1. Active(g, lines)' = {<<i, lines'[i].key>> : i \in {j \in seen : lines'[j].state # "excluded"}}
    BY DEF Active, LinesOf
  <2>2. CASE g = f
    <3>1. f \in Complete
      BY <1>7, <2>2 DEF NewReview
    <3>2. signed'[f] = {<<i, Key(i.row)>> : i \in new}
      BY <1>d, <3>1
    <3>3. seen = new
      BY <1>5, <1>6, <2>2
    <3>4. \A i \in new : lines'[i].state # "excluded" /\ lines'[i].key = Key(i.row)
      BY <1>6
    <3> QED
      BY <2>1, <2>2, <3>2, <3>3, <3>4
  <2>3. CASE g # f
    <3>1. reviews[g] = "approved" /\ g \notin Priors(n)
      BY <1>7, <2>3
    <3>2. signed'[g] = signed[g]
      BY <1>d, <2>3
    <3>3. seen = LinesOf(g)
      BY <1>5, <1>6, <2>3 DEF LinesOf
    <3>4. \A i \in LinesOf(g) : lines'[i] = lines[i]
      BY <1>6, <3>1 DEF LinesOf, Priors
    <3>5. Active(g, lines)' = Active(g, lines)
      BY <2>1, <3>3, <3>4 DEF Active
    <3> QED
      BY <3>1, <3>2, <3>5 DEF RowsHold, ApprovedAsSeen
  <2> QED
    BY <2>2, <2>3
<1> QED
  BY <1>8, <1>9, <1>10, <1>11, <1>12, <1>13, <1>14, <1>15, <1>16 DEF RowsHold

-----------------------------------------------------------------------------
(* Every step                                                                 *)

LEMMA NothingIsImported ==
    ASSUME ImportInv, UNCHANGED <<imports, lines, replaced, bindings, reviews, signed, documents>>
    PROVE  ImportInv'
<1>1. /\ imports \in Seq(Import)
      /\ documents \in [Files -> {Nothing, "needs_review", "processed"}]
  BY DEF ImportInv, TablesOK
<1> QED
  BY <1>1, AttemptMoves DEF Imported

LEMMA ImportStep == ImportInv /\ [ImportsNext]_importsVars => ImportInv'
<1> SUFFICES ASSUME ImportInv, [ImportsNext]_importsVars PROVE ImportInv'
  OBVIOUS
<1>1. CASE \E form \in Forms : preview_import(form)
  BY <1>1, PreviewSteps
<1>2. CASE \E n \in DOMAIN imports : confirm_duplicate(n) \/ confirm_blocked(n) \/ confirm_staged(n)
  BY <1>2, RefusedSteps, RowsAreStaged
<1>3. CASE \E i \in DOMAIN lines : \/ exclude_row(i) \/ restore_row(i)
                                   \/ \E text \in Texts : correct_row(i, text)
  BY <1>3, RowsAreCorrected
<1>4. CASE \E f \in Files : approve_review(f) \/ Settle(f, "open", "booked") \/ Settle(f, "booked", "open")
  BY <1>4, StatementIsApproved, RowsAreSettled
<1>5. CASE \E m \in Closable : mark_closed(m)
  BY <1>5, NothingIsImported DEF mark_closed
<1>6. CASE UNCHANGED importsVars
  BY <1>6, NothingIsImported DEF importsVars
<1> QED
  BY <1>1, <1>2, <1>3, <1>4, <1>5, <1>6 DEF ImportsNext

(* A file, its account and its provider are imported once, and the rows of a  *)
(* duplicate are on record (confirm_import).                                  *)
THEOREM FilesAreImportedOnce == ImportsSpec => []ImportedOnce
<1>1. ImportsSpec => []ImportInv
  BY ImportStarts, ImportStep, PTL DEF ImportsSpec
<1> QED
  BY <1>1, ImportInvSuffices, PTL

(* A movement has one active row, and an approval covers the rows it saw,     *)
(* whatever is corrected, replaced and undone (_identity_rows,                *)
(* _set_row_disposition).                                                     *)
THEOREM MovementsHaveOneRow == ImportsSpec => []RowsHold
<1>1. ImportsSpec => []ImportInv
  BY ImportStarts, ImportStep, PTL DEF ImportsSpec
<1> QED
  BY <1>1, ImportInvSuffices, PTL
-----------------------------------------------------------------------------
(* Closed months                                                              *)

(* A step that leaves the rows of a statement leaves what is active of them.  *)
LEMMA ActiveStays ==
    ASSUME ImportInv, NEW f \in Files,
           DOMAIN imports \subseteq DOMAIN imports',
           \A n \in DOMAIN imports : imports'[n].attempt = imports[n].attempt,
           DOMAIN lines \subseteq DOMAIN lines',
           \A i \in DOMAIN lines' \ DOMAIN lines : File(i)' # f,
           \A i \in LinesOf(f) : /\ lines'[i].key = lines[i].key
                                 /\ lines'[i].state = "excluded" <=> lines[i].state = "excluded"
    PROVE  Active(f, lines)' = Active(f, lines)
<1>1. \A i \in DOMAIN lines : i.import \in DOMAIN imports /\ File(i)' = File(i)
  BY DEF ImportInv, LinesAreRows, Imported, File
<1>2. LinesOf(f)' = LinesOf(f)
  BY <1>1 DEF LinesOf
<1> QED
  BY <1>2 DEF Active

LEMMA ClosedRowsStay ==
    ASSUME ImportInv, [ImportsNext]_importsVars, NEW f \in Files, Month[f] \in locked
    PROVE  Active(f, lines)' = Active(f, lines)
<1>1. ASSUME UNCHANGED lines, DOMAIN imports \subseteq DOMAIN imports',
             \A n \in DOMAIN imports : imports'[n].attempt = imports[n].attempt
      PROVE  Active(f, lines)' = Active(f, lines)
  BY <1>1, ActiveStays
<1>2. imports \in Seq(Import)
  BY DEF ImportInv, TablesOK
<1>3. ASSUME NEW form \in Forms, preview_import(form)
      PROVE  Active(f, lines)' = Active(f, lines)
  <2>1. PICK i : imports' = imports \/ imports' = Append(imports, i)
    BY <1>3 DEF preview_import, create_preview
  <2>2. /\ DOMAIN imports \subseteq DOMAIN imports'
        /\ \A n \in DOMAIN imports : imports'[n] = imports[n]
    BY <1>2, <2>1
  <2> QED
    BY <1>1, <1>3, <2>2 DEF preview_import
<1>4. ASSUME NEW n \in DOMAIN imports, NEW status, imports' = [imports EXCEPT ![n].status = status]
      PROVE  /\ DOMAIN imports' = DOMAIN imports
             /\ \A m \in DOMAIN imports : imports'[m].attempt = imports[m].attempt
  <2>1. \A m \in DOMAIN imports : imports[m] \in Import
    BY <1>2
  <2> QED
    BY <1>4, <2>1 DEF Import
<1>5. ASSUME NEW n \in DOMAIN imports, confirm_duplicate(n) \/ confirm_blocked(n)
      PROVE  Active(f, lines)' = Active(f, lines)
  BY <1>1, <1>4, <1>5 DEF confirm_duplicate, confirm_blocked, Evaluated
<1>6. ASSUME NEW n \in DOMAIN imports, confirm_staged(n)
      PROVE  Active(f, lines)' = Active(f, lines)
  <2>1. /\ imports' = [imports EXCEPT ![n].status = "confirmed"]
        /\ lines' = Staged(n) /\ Month[FileOf(n)] \notin locked
        /\ \A g \in Priors(n) : Month[g] \notin locked
    BY <1>6, StagedStep DEF Correctable, Writable
  <2>2. /\ DOMAIN imports' = DOMAIN imports
        /\ \A m \in DOMAIN imports : imports'[m].attempt = imports[m].attempt
    BY <1>4, <2>1
  <2>3. \A i \in NewRows(n) : File(i)' = FileOf(n)
    BY <2>2 DEF NewRows, File, FileOf
  <2>4. \A i \in LinesOf(f) : i \notin NewRows(n) /\ i \notin Replaceable(n)
    <3>1. \A i \in NewRows(n) : File(i) = FileOf(n)
      BY DEF NewRows, File, FileOf
    <3> QED
      BY <2>1, <3>1 DEF LinesOf, Priors
  <2>5. /\ DOMAIN lines' = DOMAIN lines \cup NewRows(n)
        /\ \A i \in LinesOf(f) : lines'[i] = lines[i]
    BY <2>1, <2>4 DEF Staged, LinesOf
  <2>6. FileOf(n) # f
    BY <2>1
  <2> QED
    BY <2>2, <2>3, <2>5, <2>6, ActiveStays
<1>7. ASSUME NEW i \in DOMAIN lines, NEW line, ChangeRow(i, line)
      PROVE  Active(f, lines)' = Active(f, lines)
  <2>1. imports' = imports /\ lines' = [lines EXCEPT ![i] = line] /\ File(i) # f
    BY <1>7 DEF ChangeRow, Correctable, Writable
  <2>2. DOMAIN lines' = DOMAIN lines /\ \A j \in LinesOf(f) : lines'[j] = lines[j]
    BY <2>1 DEF LinesOf
  <2> QED
    BY <2>1, <2>2, ActiveStays
<1>8. ASSUME NEW i \in DOMAIN lines, exclude_row(i) \/ restore_row(i) \/ \E text \in Texts : correct_row(i, text)
      PROVE  Active(f, lines)' = Active(f, lines)
  BY <1>7, <1>8 DEF exclude_row, restore_row, correct_row
<1>9. ASSUME NEW g \in Files, NEW from \in {"open", "booked"}, NEW to \in {"open", "booked"},
             Settle(g, from, to)
      PROVE  Active(f, lines)' = Active(f, lines)
  <2>1. /\ imports' = imports /\ g # f
        /\ lines' = [i \in DOMAIN lines |-> IF File(i) = g /\ lines[i].state = from
                                            THEN [lines[i] EXCEPT !.state = to] ELSE lines[i]]
    BY <1>9 DEF Settle, Writable
  <2>2. DOMAIN lines' = DOMAIN lines /\ \A j \in LinesOf(f) : lines'[j] = lines[j]
    BY <2>1 DEF LinesOf
  <2> QED
    BY <2>1, <2>2, ActiveStays
<1>10. ASSUME UNCHANGED <<imports, lines>>
       PROVE  Active(f, lines)' = Active(f, lines)
  BY <1>1, <1>10
<1> QED
  BY <1>3, <1>5, <1>6, <1>8, <1>9, <1>10 DEF ImportsNext, importsVars, approve_review, mark_closed

(* No row of a statement of a closed month changes or appears, and none is    *)
(* replaced from an open month (_guard_review_month, can_supersede).          *)
THEOREM ClosedStatementsStand == ImportsSpec => ClosedStands
<1>1. ImportsSpec => []ImportInv
  BY ImportStarts, ImportStep, PTL DEF ImportsSpec
<1>2. ImportInv /\ [ImportsNext]_importsVars =>
         [\A f \in Files : Month[f] \in locked => Active(f, lines)' = Active(f, lines)]_importsVars
  BY ClosedRowsStay
<1> QED
  BY <1>1, <1>2, PTL DEF ImportsSpec, ClosedStands
=============================================================================
