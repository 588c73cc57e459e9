---------------------------- MODULE CaptureProofs ----------------------------
(***************************************************************************)
(* What capture() answers stays true, for any number of contents, ids,     *)
(* callers, jobs and faults, wherever the file operations of one call fall *)
(* between the steps of another.  An original is on the device until the   *)
(* server has it, for any number of captures, attempts, reloads, removals  *)
(* and lost requests, and no late or second answer takes an                *)
(* acknowledgement back.                                                   *)
(***************************************************************************)
EXTENDS Capture, CaptureOutbox, WellFoundedInduction, TLAPS

-----------------------------------------------------------------------------
(* Capture *)

(* A transaction is a critical section: whoever is inside holds the lock,    *)
(* and nobody else does.                                                     *)
OneWriter ==
    /\ \A t \in Callers : caller[t].pc \in {"inside", "stored"} => t \in lock
    /\ \A s, t \in lock : s = t

(* What a caller checked inside its transaction still holds when it commits. *)
CheckedHolds == \A t \in Callers : At(t, "stored") => ~Conflict(t)

(* A submission that names a document names one that is there.               *)
LinkedIsThere == \A id \in linked : origin[id] \in documents

CaptureInv ==
    /\ TypeOK
    /\ OneWriter
    /\ CheckedHolds
    /\ LinkedIsThere
    /\ AckIsCommitted
    /\ OneImporter

-----------------------------------------------------------------------------
(* The parts of the state that most steps leave alone                        *)

(* Tables and acknowledgements stay, and nobody enters a transaction.        *)
LEMMA TablesStay ==
    ASSUME CaptureInv, UNCHANGED tables, UNCHANGED acked
    PROVE  LinkedIsThere' /\ AckIsCommitted' /\ OneImporter'
  BY DEF CaptureInv, LinkedIsThere, AckIsCommitted, OneImporter, tables

(* A caller moves outside its transaction, or leaves it.                     *)
LEMMA Steps ==
    ASSUME CaptureInv, NEW t \in Callers, NEW r \in Request,
           caller' = [caller EXCEPT ![t] = r],
           r.pc \notin {"inside", "stored"},
           \/ lock' = lock \ {t}
           \/ lock' = lock /\ caller[t].pc \notin {"inside", "stored"}
    PROVE  /\ caller' \in [Callers -> Request]
           /\ OneWriter'
           /\ UNCHANGED <<origin, linked, documents, jobs>> => CheckedHolds'
<1>1. caller' \in [Callers -> Request] /\ caller'[t] = r
      /\ \A s \in Callers \ {t} : caller'[s] = caller[s]
  BY DEF CaptureInv, TypeOK
<1>2. OneWriter'
  BY <1>1 DEF CaptureInv, OneWriter, TypeOK
<1>3. ASSUME UNCHANGED <<origin, linked, documents, jobs>>
      PROVE  CheckedHolds'
  BY <1>1, <1>3 DEF CaptureInv, CheckedHolds, At, Conflict, Id, Content
<1> QED BY <1>1, <1>2, <1>3

-----------------------------------------------------------------------------
(* The initial state *)

LEMMA QuietRequest == Quiet \in Request
  BY InhabitedAssumption DEF Quiet, Request, Positions

LEMMA CaptureStarts == Init => CaptureInv
<1> SUFFICES ASSUME Init PROVE CaptureInv
  OBVIOUS
<1>1. TypeOK
  BY QuietRequest, CaptureBoundAssumption DEF Init, TypeOK
<1>2. \A t \in Callers : caller[t].pc = "idle"
  BY DEF Init, Quiet
<1> QED
  BY <1>1, <1>2
  DEF Init, CaptureInv, OneWriter, CheckedHolds, LinkedIsThere, AckIsCommitted, OneImporter, At
-----------------------------------------------------------------------------
(* The steps of one call                                                     *)

(* With the lock free, or in another's hands, nobody has checked anything.   *)
LEMMA NobodyStored ==
    ASSUME CaptureInv, NEW t \in Callers,
           lock = {} \/ t \in lock
    PROVE  \A s \in Callers \ {t} : caller[s].pc \notin {"inside", "stored"}
  BY DEF CaptureInv, OneWriter

LEMMA SubmitStep ==
    ASSUME CaptureInv, NEW t \in Callers, NEW id \in CaptureIds, NEW c \in Contents,
           NEW import \in BOOLEAN, Submit(t, id, c, import)
    PROVE  CaptureInv'
<1> DEFINE r == [pc |-> "waiting", id |-> id, content |-> c, import |-> import,
                 created |-> FALSE, retried |-> FALSE]
<1>1. r \in Request
  BY DEF Request, Positions
<1>2. /\ caller' = [caller EXCEPT ![t] = r] /\ caller[t].pc = "idle"
      /\ UNCHANGED <<blobs, documents, jobs, imports, origin, linked, lock, acked, faults>>
  BY DEF Submit, At, tables
<1>3. caller' \in [Callers -> Request] /\ OneWriter' /\ CheckedHolds'
  BY <1>1, <1>2, Steps
<1>4. TypeOK'
  BY <1>2, <1>3 DEF CaptureInv, TypeOK
<1>5. LinkedIsThere' /\ AckIsCommitted' /\ OneImporter'
  BY <1>2, TablesStay DEF tables
<1> QED BY <1>3, <1>4, <1>5 DEF CaptureInv

LEMMA BeginStep ==
    ASSUME CaptureInv, NEW t \in Callers, Begin(t)
    PROVE  CaptureInv'
<1>1. /\ caller' \in [Callers -> Request]
      /\ caller'[t].pc = "inside" /\ \A s \in Callers \ {t} : caller'[s] = caller[s]
  BY DEF Begin, Goes, CaptureInv, TypeOK, Request, Positions
<1>2. OneWriter'
  BY <1>1, NobodyStored DEF Begin, OneWriter
<1>3. CheckedHolds'
  BY <1>1, NobodyStored DEF Begin, CheckedHolds, At
<1>4. TypeOK'
  BY <1>1 DEF Begin, CaptureInv, TypeOK, tables
<1>5. LinkedIsThere' /\ AckIsCommitted' /\ OneImporter'
  BY TablesStay DEF Begin
<1> QED BY <1>2, <1>3, <1>4, <1>5 DEF CaptureInv

LEMMA StoreStep ==
    ASSUME CaptureInv, NEW t \in Callers, Store(t)
    PROVE  CaptureInv'
<1>1. /\ caller' \in [Callers -> Request]
      /\ caller'[t].pc = "stored" /\ caller[t].pc = "inside"
      /\ caller'[t].id = caller[t].id /\ caller'[t].content = caller[t].content
      /\ caller'[t].import = caller[t].import
      /\ \A s \in Callers \ {t} : caller'[s] = caller[s]
  BY DEF Store, EnsureBlob, At, Content, CaptureInv, TypeOK, Request, Positions
<1>2. blobs' \subseteq Contents
  BY DEF Store, EnsureBlob, Content, CaptureInv, TypeOK, Request
<1>3. OneWriter'
  BY <1>1 DEF Store, CaptureInv, OneWriter
<1>4. CheckedHolds'
  <2>1. ~Conflict(t)'
    BY <1>1 DEF Store, Conflict, Id, Content, tables
  <2>2. ASSUME NEW s \in Callers \ {t}, At(s, "stored")'
        PROVE  ~Conflict(s)'
    BY <1>1, <2>2 DEF Store, CaptureInv, CheckedHolds, At, Conflict, Id, Content, tables
  <2> QED BY <2>1, <2>2 DEF CheckedHolds
<1>5. TypeOK'
  BY <1>1, <1>2 DEF Store, CaptureInv, TypeOK, tables
<1>6. LinkedIsThere' /\ AckIsCommitted' /\ OneImporter'
  BY TablesStay DEF Store
<1> QED BY <1>3, <1>4, <1>5, <1>6 DEF CaptureInv

(* A commit: the submission is the one that was there, or a new one.         *)
LEMMA CommitStep ==
    ASSUME CaptureInv, NEW t \in Callers, Commit(t)
    PROVE  CaptureInv'
<1> DEFINE c == Content(t)
           id == Id(t)
<1>1. /\ caller' \in [Callers -> Request]
      /\ caller'[t].pc \in {"committed", "idle"}
      /\ \A s \in Callers \ {t} : caller'[s] = caller[s]
  BY DEF Commit, Goes, CaptureInv, TypeOK, Request, Positions
<1>2. c \in Contents /\ id \in CaptureIds /\ c # NoContent
  BY NoContentAssumption DEF CaptureInv, TypeOK, Request, Id, Content
<1>3. t \in lock /\ caller[t].pc = "stored" /\ ~Conflict(t)
  BY DEF Commit, CaptureInv, OneWriter, CheckedHolds, At
<1>4. origin[id] \in {NoContent, c} /\ (origin[id] # NoContent => id \in linked)
  BY <1>3 DEF Conflict
<1>5. OneWriter' /\ CheckedHolds'
  <2>1. \A s \in Callers : caller'[s].pc \notin {"inside", "stored"}
    BY <1>1, <1>3, NobodyStored
  <2> QED BY <2>1 DEF Commit, CaptureInv, OneWriter, CheckedHolds, At
<1>6. /\ documents' = documents \cup {c} /\ imports' = imports
      /\ origin' = [origin EXCEPT ![id] = c]
      /\ linked' = linked \cup {id}
      /\ \/ jobs' = jobs
         \/ c \notin documents /\ \E n \in {0, 1} : jobs' = [jobs EXCEPT ![c] = n]
  <2>1. CASE Replay(t)
    <3>1. origin[id] = c /\ id \in linked /\ UNCHANGED tables
      BY <1>4, <2>1 DEF Replay
    <3>2. c \in documents /\ [origin EXCEPT ![id] = c] = origin
      BY <1>2, <3>1 DEF CaptureInv, LinkedIsThere, TypeOK
    <3> QED BY <3>1, <3>2 DEF tables
  <2>2. CASE Dedup(t)
    BY <2>2 DEF Dedup, InsertSubmission
  <2>3. CASE InsertDocument(t)
    BY <2>3 DEF InsertDocument, InsertSubmission
  <2> QED BY <2>1, <2>2, <2>3 DEF Commit
<1>7. TypeOK'
  <2>1. documents' \subseteq Contents /\ linked' \subseteq CaptureIds /\ imports' \subseteq Contents
        /\ origin' \in [CaptureIds -> Contents \cup {NoContent}]
    BY <1>2, <1>6 DEF CaptureInv, TypeOK
  <2>2. jobs' \in [Contents -> 0..MaxJobs]
    BY <1>2, <1>6, CaptureBoundAssumption DEF CaptureInv, TypeOK
  <2>3. acked' \subseteq CaptureIds \X Contents
    BY <1>2 DEF Commit, CaptureInv, TypeOK
  <2> QED BY <1>1, <2>1, <2>2, <2>3 DEF Commit, CaptureInv, TypeOK
<1>8. LinkedIsThere'
  BY <1>2, <1>6 DEF CaptureInv, LinkedIsThere, TypeOK
<1>9. AckIsCommitted'
  <2> SUFFICES ASSUME NEW ack \in acked'
               PROVE  origin'[ack[1]] = ack[2] /\ (ack[1] \in linked' => ack[2] \in documents')
    BY DEF AckIsCommitted
  <2>1. CASE ack = <<id, c>>
    BY <1>2, <1>6, <2>1 DEF CaptureInv, TypeOK
  <2>2. CASE ack # <<id, c>>
    <3>1. ack \in acked /\ ack[1] \in CaptureIds /\ ack[2] \in Contents
      BY <2>2 DEF Commit, CaptureInv, TypeOK
    <3>2. origin[ack[1]] = ack[2] /\ (ack[1] \in linked => ack[2] \in documents)
      BY <3>1 DEF CaptureInv, AckIsCommitted
    <3>3. ack[1] = id => origin[id] = c
      BY <1>4, <3>1, <3>2, NoContentAssumption
    <3>4. origin'[ack[1]] = origin[ack[1]]
      BY <1>2, <1>6, <3>1, <3>3 DEF CaptureInv, TypeOK
    <3> QED BY <1>4, <1>6, <3>2, <3>3, <3>4
  <2> QED BY <2>1, <2>2
<1>10. OneImporter'
  BY <1>2, <1>6 DEF CaptureInv, OneImporter, TypeOK
<1> QED BY <1>5, <1>7, <1>8, <1>9, <1>10 DEF CaptureInv

(* The steps that leave a call, or clean up after it.                        *)
LEMMA LeavingStep ==
    ASSUME CaptureInv, NEW t \in Callers,
           Refuse(t) \/ RollBack(t) \/ CheckReference(t) \/ Unlink(t)
    PROVE  CaptureInv'
<1>1. /\ UNCHANGED <<tables, acked>>
      /\ blobs' \subseteq Contents /\ faults' \in 0..MaxFaults
  BY CaptureBoundAssumption
  DEF Refuse, RollBack, CheckReference, Unlink, CaptureInv, TypeOK, Content, Request
<1>2. PICK r \in Request :
          /\ caller' = [caller EXCEPT ![t] = r] /\ r.pc \notin {"inside", "stored"}
          /\ \/ lock' = lock \ {t}
             \/ lock' = lock /\ caller[t].pc \notin {"inside", "stored"}
  <2>1. ASSUME NEW pc \in Positions \ {"inside", "stored"}, NEW retried \in BOOLEAN,
               caller' = [caller EXCEPT ![t].pc = pc, ![t].retried = retried]
        PROVE  /\ [caller[t] EXCEPT !.pc = pc, !.retried = retried] \in Request
               /\ [caller[t] EXCEPT !.pc = pc, !.retried = retried].pc = pc
               /\ caller' = [caller EXCEPT ![t] = [caller[t] EXCEPT !.pc = pc, !.retried = retried]]
    BY <2>1 DEF CaptureInv, TypeOK, Request
  <2>2. ASSUME NEW pc \in Positions, Goes(t, pc)
        PROVE  caller' = [caller EXCEPT ![t].pc = pc, ![t].retried = caller[t].retried]
    BY <2>2 DEF Goes, CaptureInv, TypeOK, Request
  <2>3. caller[t].retried \in BOOLEAN
    BY DEF CaptureInv, TypeOK, Request
  <2>4. \E pc \in Positions \ {"inside", "stored"}, retried \in BOOLEAN :
            caller' = [caller EXCEPT ![t].pc = pc, ![t].retried = retried]
    BY <2>2, <2>3 DEF Refuse, RollBack, Leave, CheckReference, Unlink, Positions
  <2> QED BY <2>1, <2>4 DEF Refuse, RollBack, CheckReference, Unlink, At
<1>3. caller' \in [Callers -> Request] /\ OneWriter' /\ CheckedHolds'
  BY <1>1, <1>2, Steps DEF tables
<1>4. TypeOK'
  BY <1>1, <1>2, <1>3 DEF CaptureInv, TypeOK, tables
<1>5. LinkedIsThere' /\ AckIsCommitted' /\ OneImporter'
  BY <1>1, TablesStay
<1> QED BY <1>3, <1>4, <1>5 DEF CaptureInv

-----------------------------------------------------------------------------
(* Structured imports, operators and crashes *)

LEMMA PreviewStep ==
    ASSUME CaptureInv, NEW t \in Callers, Preview(t)
    PROVE  CaptureInv'
<1>1. /\ caller' = [caller EXCEPT ![t] = [caller[t] EXCEPT !.pc = "idle"]]
      /\ [caller[t] EXCEPT !.pc = "idle"] \in Request
      /\ [caller[t] EXCEPT !.pc = "idle"].pc = "idle"
      /\ caller[t].pc = "committed"
  BY DEF Preview, Goes, At, CaptureInv, TypeOK, Request, Positions
<1>2. /\ \/ imports' = imports
         \/ /\ imports' = imports \cup {Content(t)}
            /\ Content(t) \in documents /\ jobs[Content(t)] = 0
      /\ faults' \in 0..MaxFaults
      /\ UNCHANGED <<blobs, documents, jobs, origin, linked, lock, acked>>
  BY CaptureBoundAssumption DEF Preview, CaptureInv, TypeOK
<1>3. caller' \in [Callers -> Request] /\ OneWriter' /\ CheckedHolds'
  BY <1>1, <1>2, Steps
<1>4. Content(t) \in Contents
  BY DEF Content, CaptureInv, TypeOK, Request
<1>5. TypeOK'
  BY <1>2, <1>3, <1>4 DEF CaptureInv, TypeOK
<1>6. LinkedIsThere' /\ AckIsCommitted' /\ OneImporter'
  BY <1>2 DEF CaptureInv, LinkedIsThere, AckIsCommitted, OneImporter
<1> QED BY <1>3, <1>5, <1>6 DEF CaptureInv

(* With the lock free, no caller relies on what it checked.                  *)
LEMMA NobodyInside ==
    ASSUME CaptureInv, lock = {}
    PROVE  \A t \in Callers : caller[t].pc \notin {"inside", "stored"}
  BY DEF CaptureInv, OneWriter

LEMMA AdministrationStep ==
    ASSUME CaptureInv, NEW c \in Contents, reprocess(c) \/ delete_document(c)
    PROVE  CaptureInv'
<1>1. /\ lock = {} /\ c \in documents \ imports
      /\ UNCHANGED <<blobs, imports, origin, lock, caller, acked, faults>>
  BY DEF reprocess, delete_document
<1>2. OneWriter' /\ CheckedHolds'
  BY <1>1, NobodyInside DEF CaptureInv, OneWriter, CheckedHolds, At
<1>3. CASE reprocess(c)
  <2>1. jobs' \in [Contents -> 0..MaxJobs] /\ \A d \in Contents \ {c} : jobs'[d] = jobs[d]
    BY <1>3, CaptureBoundAssumption DEF reprocess, CaptureInv, TypeOK
  <2>2. TypeOK' /\ LinkedIsThere' /\ AckIsCommitted' /\ OneImporter'
    BY <1>1, <1>3, <2>1
    DEF reprocess, CaptureInv, TypeOK, LinkedIsThere, AckIsCommitted, OneImporter
  <2> QED BY <1>2, <2>2 DEF CaptureInv
<1>4. CASE delete_document(c)
  <2>1. jobs' \in [Contents -> 0..MaxJobs] /\ \A d \in Contents \ {c} : jobs'[d] = jobs[d]
    BY <1>4, CaptureBoundAssumption DEF delete_document, CaptureInv, TypeOK
  <2>2. TypeOK' /\ OneImporter'
    BY <1>1, <1>4, <2>1 DEF delete_document, CaptureInv, TypeOK, OneImporter
  <2>3. LinkedIsThere' /\ AckIsCommitted'
    BY <1>1, <1>4 DEF delete_document, CaptureInv, LinkedIsThere, AckIsCommitted
  <2> QED BY <1>2, <2>2, <2>3 DEF CaptureInv
<1> QED BY <1>3, <1>4

LEMMA CrashStep == CaptureInv /\ Crash => CaptureInv'
<1> SUFFICES ASSUME CaptureInv, Crash PROVE CaptureInv'
  OBVIOUS
<1>1. caller' \in [Callers -> Request] /\ \A t \in Callers : caller'[t].pc = "idle"
  BY QuietRequest DEF Crash, Quiet
<1>2. TypeOK'
  BY <1>1, CaptureBoundAssumption DEF Crash, CaptureInv, TypeOK, tables
<1>3. OneWriter' /\ CheckedHolds'
  BY <1>1 DEF Crash, OneWriter, CheckedHolds, At
<1>4. LinkedIsThere' /\ AckIsCommitted' /\ OneImporter'
  BY TablesStay DEF Crash
<1> QED BY <1>2, <1>3, <1>4 DEF CaptureInv

LEMMA CaptureStutters == CaptureInv /\ UNCHANGED vars => CaptureInv'
  BY DEF vars, CaptureInv, TypeOK, OneWriter, CheckedHolds, At, Conflict, Id, Content,
         LinkedIsThere, AckIsCommitted, OneImporter

LEMMA CaptureSteps == CaptureInv /\ [Next]_vars => CaptureInv'
<1> SUFFICES ASSUME CaptureInv, [Next]_vars PROVE CaptureInv'
  OBVIOUS
<1>1. ASSUME NEW t \in Callers, CaptureStep(t) PROVE CaptureInv'
  BY <1>1, SubmitStep, BeginStep, StoreStep, CommitStep, LeavingStep, PreviewStep
  DEF CaptureStep
<1>2. CASE Administration
  BY <1>2, AdministrationStep DEF Administration
<1>3. CASE Crash
  BY <1>3, CrashStep
<1>4. CASE UNCHANGED vars
  BY <1>4, CaptureStutters
<1> QED BY <1>1, <1>2, <1>3, <1>4 DEF Next

LEMMA CaptureInvariant == Spec => []CaptureInv
<1>1. Init => CaptureInv
  BY CaptureStarts
<1>2. CaptureInv /\ [Next]_vars => CaptureInv'
  BY CaptureSteps
<1> QED BY <1>1, <1>2, PTL DEF Spec

-----------------------------------------------------------------------------
(* The theorems *)

(* What a device or a page was told about its bytes stays true: an id that   *)
(* was acknowledged stands for the same bytes, their document is there       *)
(* unless it was deleted, and no document has two ways of being processed.   *)
THEOREM AnswersStayTrue == Spec => []AnswersHold
<1>1. CaptureInv => AnswersHold
  BY DEF CaptureInv, AnswersHold
<1> QED BY <1>1, CaptureInvariant, PTL

(* Who may bring a document, its jobs or a submission about: a commit, for   *)
(* the content and the id it carries; everybody else adds nothing.           *)
LEMMA OnlyCommitsAdd ==
    ASSUME CaptureInv, [Next]_vars
    PROVE  \/ \E t \in Callers : Commit(t)
           \/ \E c \in Contents : reprocess(c)
           \/ \E c \in Contents : delete_document(c)
           \/ UNCHANGED <<documents, jobs, origin, linked, acked>>
<1>1. ASSUME NEW t \in Callers, CaptureStep(t), ~Commit(t)
      PROVE  UNCHANGED <<documents, jobs, origin, linked, acked>>
  BY <1>1
  DEF CaptureStep, Submit, Begin, Refuse, Store, RollBack, CheckReference, Unlink, Preview, tables
<1>2. Crash => UNCHANGED <<documents, jobs, origin, linked, acked>>
  BY DEF Crash, tables
<1>3. UNCHANGED vars => UNCHANGED <<documents, jobs, origin, linked, acked>>
  BY DEF vars
<1> QED BY <1>1, <1>2, <1>3 DEF Next, Administration

(* What a commit does to the tables, for an id and a content that fit.       *)
LEMMA CommitAdds ==
    ASSUME CaptureInv, NEW t \in Callers, Commit(t)
    PROVE  /\ origin[Id(t)] \in {NoContent, Content(t)}
           /\ origin[Id(t)] # NoContent => Id(t) \in linked
           /\ origin' = [origin EXCEPT ![Id(t)] = Content(t)]
           /\ linked' = linked \cup {Id(t)}
           /\ \/ jobs' = jobs
              \/ Content(t) \notin documents /\ \E n \in {0, 1} : jobs' = [jobs EXCEPT ![Content(t)] = n]
<1>1. caller[t].pc = "stored" /\ ~Conflict(t)
  BY DEF Commit, CaptureInv, CheckedHolds, At
<1>2. /\ origin[Id(t)] \in {NoContent, Content(t)}
      /\ origin[Id(t)] # NoContent => Id(t) \in linked
  BY <1>1 DEF Conflict
<1>3. Id(t) \in CaptureIds
  BY DEF Id, CaptureInv, TypeOK, Request
<1>4. CASE Replay(t)
  <2>1. origin[Id(t)] = Content(t) /\ Id(t) \in linked /\ UNCHANGED tables
    BY <1>2, <1>4 DEF Replay
  <2> QED BY <1>2, <1>3, <2>1 DEF CaptureInv, TypeOK, tables
<1>5. CASE Dedup(t)
  BY <1>2, <1>5 DEF Dedup, InsertSubmission
<1>6. CASE InsertDocument(t)
  BY <1>2, <1>6 DEF InsertDocument, InsertSubmission
<1> QED BY <1>4, <1>5, <1>6 DEF Commit

(* A repetition brings nothing back that was removed, and queues no second   *)
(* run of bytes that are there.                                              *)
THEOREM RepetitionsAddNothing == Spec => RepeatsAddNothing
<1> DEFINE Keeps == \A id \in CaptureIds :
                       origin[id] # NoContent =>
                           /\ origin'[id] = origin[id]
                           /\ id \notin linked => id \notin linked'
           Queues == \A c \in documents \cap documents' :
                       jobs'[c] > jobs[c] => UNCHANGED <<origin, linked, acked>>
<1>1. ASSUME CaptureInv, [Next]_vars PROVE Keeps /\ Queues
  <2>1. ASSUME NEW t \in Callers, Commit(t) PROVE Keeps /\ Queues
    <3> DEFINE k == Id(t)
    <3>1. /\ origin[k] \in {NoContent, Content(t)}
          /\ origin[k] # NoContent => k \in linked
          /\ origin' = [origin EXCEPT ![k] = Content(t)]
          /\ linked' = linked \cup {k}
          /\ \/ jobs' = jobs
             \/ Content(t) \notin documents /\ \E n \in {0, 1} : jobs' = [jobs EXCEPT ![Content(t)] = n]
      BY <1>1, <2>1, CommitAdds
    <3>2. origin \in [CaptureIds -> Contents \cup {NoContent}] /\ jobs \in [Contents -> 0..MaxJobs]
          /\ documents \subseteq Contents
      BY <1>1 DEF CaptureInv, TypeOK
    <3>3. Keeps
      BY <3>1, <3>2
    <3>4. \A c \in documents : jobs'[c] = jobs[c]
      BY <3>1, <3>2
    <3>5. \A c \in documents : jobs[c] \in Int
      BY <3>2
    <3> HIDE DEF Keeps
    <3> QED BY <3>3, <3>4, <3>5
  <2>2. ASSUME NEW d \in Contents, reprocess(d) PROVE Keeps /\ Queues
    BY <2>2 DEF reprocess
  <2>3. ASSUME NEW d \in Contents, delete_document(d) PROVE Keeps /\ Queues
    BY <1>1, <2>3 DEF delete_document, CaptureInv, TypeOK
  <2>4. CASE UNCHANGED <<documents, jobs, origin, linked, acked>>
    BY <2>4
  <2> QED BY <1>1, <2>1, <2>2, <2>3, <2>4, OnlyCommitsAdd
<1>2. CaptureInv /\ [Next]_vars => [Keeps]_vars /\ [Queues]_vars
  BY <1>1
<1> QED BY <1>2, CaptureInvariant, PTL DEF Spec, RepeatsAddNothing, RemovedStaysRemoved, DedupQueuesNothing

-----------------------------------------------------------------------------
(* CaptureOutbox *)

(* What a sender holds in its hands: a capture, and an acknowledgement only  *)
(* of what the server has committed.                                         *)
Holds(s) ==
    /\ s.pc \in {"sending", "answered"} => s.id \in Captures
    /\ s.pc = "answered" /\ s.answer = "ack" => s.id \in stored

(* A record of rest: it has no original and no sender holds a lease of it.   *)
AtRest(rec) == rec.state \in {"saved", "absent"} => ~rec.file /\ ~rec.leased

RestIsQuiet == \A r \in Captures : AtRest(records[r])

(* Captures are numbered as they come.                                       *)
NotYetAdded == \A r \in Captures : r > added => records[r].state = "absent"

(* A record that gave up its original, or says so.                           *)
Kept(rec) == rec.state = "absent" \/ (rec.file /\ rec.state # "saved")

Secured == \A r \in Captures : Kept(records[r]) \/ r \in stored

OutboxInv ==
    /\ OutboxTypeOK
    /\ Holds(page) /\ Holds(worker)
    /\ RestIsQuiet
    /\ NotYetAdded
    /\ Secured

-----------------------------------------------------------------------------
(* The operators of the store *)

(* Zero and every capture are numbers within the bounds.                     *)
LEMMA NumbersFit ==
    /\ MaxCaptures \in Nat /\ MaxAutoAttempts \in Nat /\ BatchSize \in Nat
    /\ 0 \in 0..MaxCaptures /\ 0 \in 0..MaxAutoAttempts /\ 0 \in 0..BatchSize
    /\ Captures \subseteq 0..MaxCaptures
  BY OutboxAssumption DEF Captures

(* The oldest of some captures is one of them.                               *)
LEMMA OldestIsThere ==
    ASSUME NEW R \in SUBSET Captures, R # {}
    PROVE  Oldest(R) \in R
<1>1. R \subseteq Nat
  BY OutboxAssumption DEF Captures
<1>2. \E r \in R : \A q \in R : ~ (<<q, r>> \in OpToRel(<, Nat))
  BY <1>1, WFMin, NatLessThanWellFounded
<1>3. PICK r \in R : \A q \in R : ~ (<<q, r>> \in OpToRel(<, Nat))
  BY <1>2
<1>4. \A q \in R : ~(q < r)
  BY <1>1, <1>3 DEF OpToRel
<1>5. \A q \in R : r <= q
  BY <1>1, <1>4
<1> QED BY <1>5 DEF Oldest

LEMMA OneMoreIsAttempt ==
    ASSUME NEW n \in 0..MaxAutoAttempts
    PROVE  OneMore(n) \in 0..MaxAutoAttempts
  BY OutboxAssumption DEF OneMore

(* What a step does to the records: a capture keeps its original, or the     *)
(* server has it; rest is quiet; and what is at rest for good stays so.      *)
RecordsGo ==
    /\ records' \in [Captures -> Record]
    /\ \A r \in Captures : AtRest(records'[r])
    /\ \A r \in Captures : r > added => records'[r] = records[r]
    /\ \A r \in Captures : Kept(records'[r]) \/ r \in stored
    /\ \A r \in Captures :
          records[r].state \in {"saved", "absent"} => records'[r] = records[r]

LEMMA RecordsStay == OutboxInv /\ UNCHANGED records => RecordsGo
  BY DEF OutboxInv, OutboxTypeOK, RestIsQuiet, Secured, RecordsGo

(* One record goes over into another that keeps its original.                *)
LEMMA OneRecordGoes ==
    ASSUME OutboxInv, NEW r \in Captures, NEW rec \in Record,
           records' = [records EXCEPT ![r] = rec],
           records[r].state \notin {"saved", "absent"},
           AtRest(rec), Kept(rec) \/ r \in stored
    PROVE  RecordsGo
  BY DEF OutboxInv, OutboxTypeOK, RestIsQuiet, NotYetAdded, Secured, RecordsGo

LEMMA RecoveryKeeps == OutboxInv /\ records' = Recovered => RecordsGo
<1> SUFFICES ASSUME OutboxInv, records' = Recovered PROVE RecordsGo
  OBVIOUS
<1>1. ASSUME NEW r \in Captures
      PROVE  /\ records'[r] \in Record
             /\ records[r].state # "sending" => records'[r] = records[r]
             /\ records[r].state = "sending" => records'[r].state \in {"sending", "pending"}
             /\ records'[r].file = records[r].file
  BY DEF Recovered, Expired, OutboxInv, OutboxTypeOK, Record
<1>2. records' \in [Captures -> Record]
  BY <1>1 DEF Recovered
<1>3. \A r \in Captures : AtRest(records'[r]) /\ (Kept(records'[r]) \/ r \in stored)
  BY <1>1 DEF OutboxInv, RestIsQuiet, Secured, AtRest, Kept
<1>4. \A r \in Captures : r > added => records'[r] = records[r]
  BY <1>1 DEF OutboxInv, NotYetAdded
<1> QED BY <1>1, <1>2, <1>3, <1>4 DEF RecordsGo

LEMMA ClaimKeeps ==
    ASSUME OutboxInv, NEW future \in BOOLEAN, NEW s \in Sender, s.sent < BatchSize,
           NEW r, r = Oldest(DueCaptures(future)), DueCaptures(future) # {},
           records' = Claimed(r)
    PROVE  RecordsGo /\ Claims(s, r) \in Sender /\ r \in Captures
                     /\ Claims(s, r).pc = "sending" /\ Claims(s, r).id = r
<1>1. r \in Captures /\ Due(r, future)
  BY OldestIsThere DEF DueCaptures
<1>2. records[r] \in Record /\ OneMore(records[r].attempts) \in 0..MaxAutoAttempts
  BY <1>1, OneMoreIsAttempt DEF OutboxInv, OutboxTypeOK, Record
<1> DEFINE rec == [records[r] EXCEPT !.state = "sending", !.leased = TRUE,
                                     !.attempts = OneMore(@)]
<1>3. rec \in Record /\ rec.state = "sending" /\ rec.file = records[r].file
  BY <1>2 DEF Record
<1>4. records' = [records EXCEPT ![r] = rec]
  BY <1>1 DEF Claimed, OutboxInv, OutboxTypeOK, Record
<1>5. records[r].state \notin {"saved", "absent"}
  BY <1>1 DEF Due, Expired, RetryWaits
<1>6. AtRest(rec) /\ (Kept(rec) \/ r \in stored)
  BY <1>1, <1>3, <1>5 DEF AtRest, Kept, OutboxInv, Secured
<1>7. RecordsGo
  <2> HIDE DEF rec
  <2> QED BY <1>1, <1>3, <1>4, <1>5, <1>6, OneRecordGoes
<1>8. r \in 0..MaxCaptures /\ s.sent + 1 \in 0..BatchSize
  BY <1>1, OutboxAssumption DEF Captures, Sender
<1>9. Claims(s, r) \in Sender /\ Claims(s, r).pc = "sending" /\ Claims(s, r).id = r
  BY <1>2, <1>8 DEF Claims, Sender
<1> QED BY <1>1, <1>7, <1>9

(* What an answer makes of a record.                                         *)
LEMMA AnswerMakes ==
    ASSUME NEW rec \in Record, NEW s \in Sender
    PROVE  /\ Answered(rec, s) \in Record
           /\ Answered(rec, s).state \in {"saved", "failed", "retry"}
           /\ Answered(rec, s).state = "saved" =>
                 ~Answered(rec, s).file /\ ~Answered(rec, s).leased
           /\ s.answer # "ack" =>
                 Answered(rec, s).state # "saved" /\ Answered(rec, s).file = rec.file
<1>1. CASE s.answer = "ack"
  <2>1. Answered(rec, s) = Acknowledged(rec)
    BY <1>1 DEF Answered
  <2>2. /\ Acknowledged(rec) \in Record
        /\ Acknowledged(rec).state = "saved"
        /\ Acknowledged(rec).file = FALSE /\ Acknowledged(rec).leased = FALSE
    BY DEF Acknowledged, Record
  <2> QED BY <1>1, <2>1, <2>2
<1>2. CASE s.answer = "refused"
  <2>1. Answered(rec, s) = Refused(rec)
    BY <1>2 DEF Answered
  <2>2. Refused(rec) \in Record /\ Refused(rec).state = "failed" /\ Refused(rec).file = rec.file
    BY DEF Refused, Record
  <2> QED BY <1>2, <2>1, <2>2
<1>3. CASE s.answer \notin {"ack", "refused"}
  <2>1. Answered(rec, s) = Retried(rec, s.attempts)
    BY <1>3 DEF Answered
  <2>2. (s.attempts < MaxAutoAttempts) \in BOOLEAN
    OBVIOUS
  <2>3. /\ Retried(rec, s.attempts) \in Record
        /\ Retried(rec, s.attempts).state = "retry"
        /\ Retried(rec, s.attempts).file = rec.file
    BY <2>2 DEF Retried, Record
  <2> QED BY <1>3, <2>1, <2>3
<1> QED BY <1>1, <1>2, <1>3

(* An answer goes to a record that is being sent, and clears it only when    *)
(* the server has it.                                                        *)
LEMMA AnswerKeeps ==
    ASSUME OutboxInv, NEW s \in Sender, s.pc = "answered", Holds(s), MutateState(s)
    PROVE  RecordsGo
<1>1. s.id \in Captures
  BY DEF Holds
<1> DEFINE old == records[s.id]
           rec == Answered(old, s)
<1>2. CASE old.state = "sending"
  <2>1. old \in Record
    BY <1>1 DEF OutboxInv, OutboxTypeOK
  <2>2. rec \in Record /\ (rec.state = "saved" => ~rec.file /\ ~rec.leased)
        /\ rec.state \in {"saved", "failed", "retry"}
        /\ (s.answer # "ack" => rec.state # "saved" /\ rec.file = old.file)
    BY <2>1, AnswerMakes
  <2>3. AtRest(rec) /\ (Kept(rec) \/ s.id \in stored)
    BY <1>1, <1>2, <2>2 DEF AtRest, Kept, OutboxInv, Secured, Holds
  <2>4. records' = [records EXCEPT ![s.id] = rec]
    BY <1>1, <1>2 DEF MutateState, OutboxInv, OutboxTypeOK
  <2> HIDE DEF rec
  <2> QED BY <1>1, <1>2, <2>2, <2>3, <2>4, OneRecordGoes
<1>3. CASE old.state # "sending"
  BY <1>3, RecordsStay DEF MutateState
<1> QED BY <1>2, <1>3

-----------------------------------------------------------------------------
(* The steps *)

(* A record at rest stays as it is.                                          *)
RestStays ==
    \A r \in Captures :
        /\ records[r].state = "saved" => records'[r] = records[r]
        /\ records[r].state = "absent" /\ r <= added => records'[r] = records[r]

(* The invariant follows from what a step does to the records and senders.   *)
LEMMA Advance ==
    ASSUME OutboxInv, OutboxTypeOK', RecordsGo, Holds(page)', Holds(worker)',
           added' = added, stored \subseteq stored'
    PROVE  OutboxInv' /\ RestStays
<1>1. RestIsQuiet' /\ RestStays
  BY DEF RecordsGo, RestIsQuiet, RestStays, AtRest
<1>2. NotYetAdded'
  BY DEF RecordsGo, OutboxInv, NotYetAdded
<1>3. Secured'
  BY DEF RecordsGo, Secured, Kept
<1> QED BY <1>1, <1>2, <1>3 DEF OutboxInv

(* A sender that does not move holds what it held.                           *)
LEMMA SendersHold ==
    ASSUME OutboxInv, stored \subseteq stored'
    PROVE  /\ page' = page => page' \in Sender /\ Holds(page)'
           /\ worker' = worker => worker' \in Sender /\ Holds(worker)'
  BY DEF OutboxInv, OutboxTypeOK, Holds

(* A sender with empty hands.                                                *)
LEMMA EmptyHands ==
    ASSUME NEW pc \in {"closed", "idle", "claim", "schedule", "finish"}
    PROVE  /\ SenderAt(pc) \in Sender /\ Holds(SenderAt(pc)) /\ SenderAt(pc).pc = pc
           /\ \A n \in 0..BatchSize :
                 [SenderAt(pc) EXCEPT !.sent = n] \in Sender /\ [SenderAt(pc) EXCEPT !.sent = n].pc = pc
<1> QED BY NumbersFit DEF SenderAt, Sender, Answers, Holds

LEMMA OutboxStarts == OutboxInit => OutboxInv
<1> SUFFICES ASSUME OutboxInit PROVE OutboxInv
  OBVIOUS
<1>1. 0 \in 0..MaxAutoAttempts /\ 0 \in 0..MaxCaptures
  BY NumbersFit
<1>2. Absent \in Record /\ Absent.state = "absent" /\ ~Absent.file /\ ~Absent.leased
  BY <1>1 DEF Absent, Record
<1>3. page \in Sender /\ worker \in Sender /\ Holds(page) /\ Holds(worker)
  BY EmptyHands DEF OutboxInit
<1>4. used \in [reloads : 0..MaxReloads, removals : 0..MaxRemovals,
                retries : 0..MaxRetries, outages : 0..MaxOutages]
  BY OutboxAssumption DEF OutboxInit
<1>5. OutboxTypeOK
  BY <1>1, <1>2, <1>3, <1>4 DEF OutboxInit, OutboxTypeOK
<1>6. RestIsQuiet /\ NotYetAdded /\ Secured
  BY <1>2 DEF OutboxInit, RestIsQuiet, NotYetAdded, Secured, AtRest, Kept
<1> QED BY <1>3, <1>5, <1>6 DEF OutboxInv

(* A drain that begins recovers the leases that ran out, or nothing happens. *)
LEMMA DrainCalled ==
    ASSUME OutboxInv, CallDrain, UNCHANGED stored
    PROVE  RecordsGo /\ page' \in Sender /\ Holds(page)'
<1>1. CASE page.pc = "idle" /\ online
  <2>1. page' = SenderAt("claim") /\ RecordsGo
    BY <1>1, RecoveryKeeps DEF CallDrain
  <2> QED BY <2>1, EmptyHands DEF Holds
<1>2. CASE ~(page.pc = "idle" /\ online)
  BY <1>2, RecordsStay, SendersHold DEF CallDrain
<1> QED BY <1>1, <1>2

LEMMA DrainSteps ==
    ASSUME OutboxInv, RunQueuedDrain \/ TimerFires
    PROVE  OutboxInv' /\ RestStays
<1>1. /\ CallDrain
      /\ UNCHANGED <<device, added, worker, sync, online, stored, late, used>>
      /\ soon' \in {soon, FALSE} /\ timer' \in {timer, 0}
  BY DEF RunQueuedDrain, TimerFires
<1>2. RecordsGo /\ page' \in Sender /\ Holds(page)'
  BY <1>1, DrainCalled
<1>3. OutboxTypeOK' /\ Holds(worker)'
  BY <1>1, <1>2, SendersHold, NumbersFit DEF OutboxInv, OutboxTypeOK, RecordsGo
<1> QED BY <1>1, <1>2, <1>3, Advance

LEMMA PageClaimsStep ==
    ASSUME OutboxInv, PageClaims
    PROVE  OutboxInv' /\ RestStays
<1>1. UNCHANGED <<device, added, soon, timer, worker, sync, online, stored, late, used>>
  BY DEF PageClaims
<1>2. RecordsGo /\ page' \in Sender /\ Holds(page)'
  <2>1. CASE page.sent < BatchSize /\ DueCaptures(FALSE) # {}
    <3> DEFINE r == Oldest(DueCaptures(FALSE))
    <3>1. records' = Claimed(r) /\ page' = Claims(page, r)
      BY <2>1 DEF PageClaims
    <3>2. page \in Sender
      BY DEF OutboxInv, OutboxTypeOK
    <3>3. RecordsGo /\ Claims(page, r) \in Sender /\ r \in Captures
          /\ Claims(page, r).pc = "sending" /\ Claims(page, r).id = r
      BY <2>1, <3>1, <3>2, ClaimKeeps
    <3> QED BY <3>1, <3>3 DEF Holds
  <2>2. CASE ~(page.sent < BatchSize /\ DueCaptures(FALSE) # {})
    <3>1. page' = [page EXCEPT !.pc = "schedule"] /\ UNCHANGED records
      BY <2>2 DEF PageClaims
    <3> QED BY <3>1, RecordsStay DEF OutboxInv, OutboxTypeOK, Sender, Holds
  <2> QED BY <2>1, <2>2
<1>3. OutboxTypeOK' /\ Holds(worker)'
  BY <1>1, <1>2, SendersHold DEF OutboxInv, OutboxTypeOK, RecordsGo
<1> QED BY <1>1, <1>2, <1>3, Advance

(* An exchange gives its sender an answer, and the server at most what the   *)
(* sender sent.                                                              *)
LEMMA PageSendsStep ==
    ASSUME OutboxInv, PageSends
    PROVE  OutboxInv' /\ RestStays
<1>1. UNCHANGED <<device, records, added, soon, timer, worker, sync, online, used>>
  BY DEF PageSends
<1>2. page \in Sender /\ page.id \in Captures
  BY DEF PageSends, OutboxInv, OutboxTypeOK, Holds
<1>3. PICK answer \in Answers \ {"none"} :
          /\ page' = [page EXCEPT !.pc = "answered", !.answer = answer]
          /\ CASE answer = "ack"  -> stored' = stored \cup {page.id} /\ UNCHANGED late
               [] answer = "lost" -> late' = late \cup {page.id} /\ UNCHANGED stored
               [] OTHER           -> UNCHANGED <<stored, late>>
  BY DEF PageSends, Exchange
<1>4. /\ stored \subseteq stored' /\ stored' \subseteq Captures /\ late' \subseteq Captures
      /\ answer = "ack" => page.id \in stored'
  BY <1>2, <1>3 DEF OutboxInv, OutboxTypeOK, Answers
<1>5. page' \in Sender /\ Holds(page)'
  BY <1>2, <1>3, <1>4 DEF Sender, Holds
<1>6. OutboxTypeOK' /\ Holds(worker)' /\ RecordsGo
  BY <1>1, <1>4, <1>5, SendersHold, RecordsStay DEF OutboxInv, OutboxTypeOK
<1> QED BY <1>1, <1>4, <1>5, <1>6, Advance

LEMMA PageAnsweredStep ==
    ASSUME OutboxInv, PageAnswered
    PROVE  OutboxInv' /\ RestStays
<1>1. /\ UNCHANGED <<device, added, soon, timer, worker, online, stored, late, used>>
      /\ page \in Sender /\ page.pc = "answered" /\ Holds(page)
  BY DEF PageAnswered, OutboxInv, OutboxTypeOK
<1>2. sync' \in BOOLEAN
  BY OutboxAssumption DEF PageAnswered, Registered, OutboxInv, OutboxTypeOK
<1>3. RecordsGo
  BY <1>1, AnswerKeeps, RecordsStay DEF PageAnswered
<1>4. \E n \in 0..BatchSize : page' = SenderAt("idle") \/ page' = [SenderAt("claim") EXCEPT !.sent = n]
  BY <1>1, OutboxAssumption DEF PageAnswered, Sender
<1>5. page' \in Sender /\ Holds(page)'
  BY <1>4, EmptyHands DEF Holds
<1>6. OutboxTypeOK' /\ Holds(worker)'
  BY <1>1, <1>2, <1>3, <1>5, SendersHold DEF OutboxInv, OutboxTypeOK, RecordsGo
<1> QED BY <1>1, <1>3, <1>5, <1>6, Advance

LEMMA PageEndsStep ==
    ASSUME OutboxInv, PageSchedules \/ PageFinishes
    PROVE  OutboxInv' /\ RestStays
<1>1. UNCHANGED <<device, records, added, worker, sync, online, stored, late, used>>
  BY DEF PageSchedules, PageFinishes
<1>2. soon' \in BOOLEAN
  BY Zenon DEF PageSchedules, PageFinishes, OutboxInv, OutboxTypeOK
<1>5. timer' \in 0..MaxCaptures
  BY NumbersFit DEF PageSchedules, PageFinishes, Waiting, OutboxInv, OutboxTypeOK
<1>3. page' \in Sender /\ Holds(page)'
  <2>1. CASE PageSchedules
    BY <2>1 DEF PageSchedules, OutboxInv, OutboxTypeOK, Sender, Holds
  <2>2. CASE PageFinishes
    BY <2>2, EmptyHands DEF PageFinishes, Holds
  <2> QED BY <2>1, <2>2
<1>4. OutboxTypeOK' /\ Holds(worker)' /\ RecordsGo
  BY <1>1, <1>2, <1>3, <1>5, SendersHold, RecordsStay DEF OutboxInv, OutboxTypeOK
<1> QED BY <1>1, <1>3, <1>4, Advance

(* A page that is loaded recovers leases; one that is closed leaves its      *)
(* request behind.                                                           *)
LEMMA LoadStep ==
    ASSUME OutboxInv, Load
    PROVE  OutboxInv' /\ RestStays
<1>1. /\ UNCHANGED <<device, added, timer, worker, online, stored, late, used>>
      /\ soon' = TRUE
  BY DEF Load
<1>2. RecordsGo
  BY RecoveryKeeps DEF Load
<1>3. page' \in Sender /\ Holds(page)'
  BY EmptyHands DEF Load, Holds
<1>4. sync' \in BOOLEAN
  BY OutboxAssumption DEF Load, Registered, OutboxInv, OutboxTypeOK
<1>5. OutboxTypeOK' /\ Holds(worker)'
  BY <1>1, <1>2, <1>3, <1>4, SendersHold DEF OutboxInv, OutboxTypeOK, RecordsGo
<1> QED BY <1>1, <1>2, <1>3, <1>5, Advance

(* Counting up to a bound.                                                   *)
LEMMA UsedFits ==
    ASSUME OutboxInv,
           \/ used.reloads < MaxReloads /\ used' = [used EXCEPT !.reloads = @ + 1]
           \/ used.removals < MaxRemovals /\ used' = [used EXCEPT !.removals = @ + 1]
           \/ used.retries < MaxRetries /\ used' = [used EXCEPT !.retries = @ + 1]
           \/ used.outages < MaxOutages /\ used' = [used EXCEPT !.outages = @ + 1]
    PROVE  used' \in [reloads : 0..MaxReloads, removals : 0..MaxRemovals,
                      retries : 0..MaxRetries, outages : 0..MaxOutages]
<1>1. {MaxReloads, MaxRemovals, MaxRetries, MaxOutages} \subseteq Nat
  BY OutboxAssumption
<1> QED BY <1>1 DEF OutboxInv, OutboxTypeOK

LEMMA StopsStep ==
    ASSUME OutboxInv, Close \/ WorkerDies \/ GoOffline \/ GoOnline
    PROVE  OutboxInv' /\ RestStays
<1>1. UNCHANGED <<device, records, added, stored>>
  BY DEF Close, WorkerDies, GoOffline, GoOnline
<1>2. used' \in [reloads : 0..MaxReloads, removals : 0..MaxRemovals,
                 retries : 0..MaxRetries, outages : 0..MaxOutages]
  <2>1. CASE GoOnline
    BY <2>1 DEF GoOnline, OutboxInv, OutboxTypeOK
  <2> QED BY <2>1, UsedFits DEF Close, WorkerDies, GoOffline
<1>3. late' \subseteq Captures
  BY DEF Close, WorkerDies, GoOffline, GoOnline, UnderWay, OutboxInv, OutboxTypeOK, Holds
<1>4. page' \in Sender /\ Holds(page)' /\ worker' \in Sender /\ Holds(worker)'
  <2>1. page' \in {page, SenderAt("closed")} /\ worker' \in {worker, SenderAt("idle")}
    BY DEF Close, WorkerDies, GoOffline, GoOnline, EventFails
  <2>2. SenderAt("closed") \in Sender /\ SenderAt("closed").pc = "closed"
        /\ SenderAt("idle") \in Sender /\ SenderAt("idle").pc = "idle"
    BY EmptyHands
  <2>3. page' \in Sender /\ Holds(page)'
    BY <1>1, <2>1, <2>2 DEF Holds, OutboxInv, OutboxTypeOK
  <2>4. worker' \in Sender /\ Holds(worker)'
    BY <1>1, <2>1, <2>2 DEF Holds, OutboxInv, OutboxTypeOK
  <2> QED BY <2>3, <2>4
<1>5. soon' \in BOOLEAN /\ sync' \in BOOLEAN /\ online' \in BOOLEAN
  BY Zenon DEF Close, WorkerDies, GoOffline, GoOnline, EventFails, OutboxInv, OutboxTypeOK
<1>6. timer' \in 0..MaxCaptures
  BY NumbersFit DEF Close, WorkerDies, GoOffline, GoOnline, OutboxInv, OutboxTypeOK
<1>7. OutboxTypeOK' /\ RecordsGo
  BY <1>1, <1>2, <1>3, <1>4, <1>5, <1>6, RecordsStay DEF OutboxInv, OutboxTypeOK
<1> QED BY <1>1, <1>4, <1>7, Advance

(* A new capture takes the next number, which no record has used.            *)
LEMMA PutStep ==
    ASSUME OutboxInv, enqueueFiles \/ acceptSharedFiles
    PROVE  OutboxInv' /\ RestStays
<1>1. /\ Put
      /\ UNCHANGED <<device, page, timer, worker, online, stored, late, used>>
      /\ soon' \in {soon, TRUE}
  BY DEF enqueueFiles, acceptSharedFiles
<1>2. added + 1 \in Captures /\ added' \in 0..MaxCaptures /\ added' = added + 1
      /\ added \in Nat
  <2>1. device.captures \in 1..MaxCaptures /\ MaxCaptures \in Nat
    BY OutboxAssumption, NumbersFit DEF OutboxInv, OutboxTypeOK
  <2> QED BY <1>1, <2>1 DEF Put, Captures, OutboxInv, OutboxTypeOK
<1>3. Created \in Record /\ AtRest(Created) /\ Kept(Created)
  BY NumbersFit DEF Created, Absent, Record, AtRest, Kept
<1>4. /\ records' \in [Captures -> Record]
      /\ records'[added + 1] = Created
      /\ \A r \in Captures \ {added + 1} : records'[r] = records[r]
  BY <1>1, <1>2, <1>3 DEF Put, OutboxInv, OutboxTypeOK
<1>5. RestIsQuiet' /\ Secured'
  BY <1>1, <1>3, <1>4 DEF OutboxInv, RestIsQuiet, Secured
<1>6. NotYetAdded'
  BY <1>2, <1>4 DEF OutboxInv, NotYetAdded, Captures
<1>7. RestStays
  <2>1. records[added + 1].state = "absent"
    BY <1>2 DEF OutboxInv, NotYetAdded
  <2> QED BY <1>2, <1>4, <2>1 DEF RestStays, Captures
<1>8. sync' \in BOOLEAN
  BY <1>1, OutboxAssumption DEF Put, Registered, OutboxInv, OutboxTypeOK
<1>9. OutboxTypeOK' /\ Holds(page)' /\ Holds(worker)'
  BY <1>1, <1>2, <1>4, <1>8, SendersHold DEF OutboxInv, OutboxTypeOK
<1> QED BY <1>5, <1>6, <1>7, <1>9 DEF OutboxInv

(* The user acts on a record that still has its original.                    *)
LEMMA UserStep ==
    ASSUME OutboxInv, NEW r \in Captures, manualRetry(r) \/ removeCapture(r)
    PROVE  OutboxInv' /\ RestStays
<1>1. UNCHANGED <<device, added, page, timer, worker, online, stored, late>>
  BY DEF manualRetry, removeCapture
<1>2. records[r].file /\ records[r] \in Record
  BY DEF manualRetry, removeCapture, OutboxInv, OutboxTypeOK
<1>3. records[r].state \notin {"saved", "absent"}
  BY <1>2 DEF OutboxInv, RestIsQuiet, AtRest
<1>4. RecordsGo
  <2>1. CASE manualRetry(r)
    <3> DEFINE rec == [records[r] EXCEPT !.state = "pending", !.auto = TRUE,
                                         !.due = FALSE, !.leased = FALSE]
    <3>1. rec \in Record /\ rec.state = "pending" /\ rec.file = records[r].file
      BY <1>2 DEF Record
    <3>2. records' = [records EXCEPT ![r] = rec]
      BY <2>1 DEF manualRetry, OutboxInv, OutboxTypeOK
    <3>3. AtRest(rec) /\ Kept(rec)
      BY <1>2, <3>1 DEF AtRest, Kept
    <3> HIDE DEF rec
    <3> QED BY <1>3, <3>1, <3>2, <3>3, OneRecordGoes
  <2>2. CASE removeCapture(r)
    <3>1. Absent \in Record /\ AtRest(Absent) /\ Kept(Absent)
      BY NumbersFit DEF Absent, Record, AtRest, Kept
    <3> QED BY <1>3, <2>2, <3>1, OneRecordGoes DEF removeCapture
  <2> QED BY <2>1, <2>2
<1>5. used' \in [reloads : 0..MaxReloads, removals : 0..MaxRemovals,
                 retries : 0..MaxRetries, outages : 0..MaxOutages]
  BY UsedFits DEF manualRetry, removeCapture
<1>6. soon' \in BOOLEAN
  BY DEF manualRetry, removeCapture, OutboxInv, OutboxTypeOK
<1>7. sync' \in BOOLEAN
  BY OutboxAssumption DEF manualRetry, removeCapture, Registered, OutboxInv, OutboxTypeOK
<1>8. OutboxTypeOK' /\ Holds(page)' /\ Holds(worker)'
  BY <1>1, <1>4, <1>5, <1>6, <1>7, SendersHold DEF OutboxInv, OutboxTypeOK, RecordsGo
<1> QED BY <1>1, <1>4, <1>8, Advance

-----------------------------------------------------------------------------
(* The worker and time *)

LEMMA SyncFiresStep ==
    ASSUME OutboxInv, SyncFires
    PROVE  OutboxInv' /\ RestStays
<1>1. /\ UNCHANGED <<device, added, page, soon, timer, online, stored, late, used>>
      /\ sync' = FALSE
  BY DEF SyncFires
<1>2. RecordsGo
  BY RecoveryKeeps DEF SyncFires
<1>3. worker' \in Sender /\ Holds(worker)'
  BY EmptyHands DEF SyncFires, Holds
<1>4. OutboxTypeOK' /\ Holds(page)'
  BY <1>1, <1>2, <1>3, SendersHold DEF OutboxInv, OutboxTypeOK, RecordsGo
<1> QED BY <1>1, <1>2, <1>3, <1>4, Advance

LEMMA WorkerClaimsStep ==
    ASSUME OutboxInv, WorkerClaims
    PROVE  OutboxInv' /\ RestStays
<1>1. UNCHANGED <<device, added, page, soon, timer, online, stored, late, used>>
  BY DEF WorkerClaims
<1>2. RecordsGo /\ worker' \in Sender /\ Holds(worker)'
  <2>1. CASE worker.sent < BatchSize /\ DueCaptures(TRUE) # {}
    <3> DEFINE r == Oldest(DueCaptures(TRUE))
    <3>1. records' = Claimed(r) /\ worker' = Claims(worker, r)
      BY <2>1 DEF WorkerClaims
    <3>2. worker \in Sender
      BY DEF OutboxInv, OutboxTypeOK
    <3>3. RecordsGo /\ Claims(worker, r) \in Sender /\ r \in Captures
          /\ Claims(worker, r).pc = "sending" /\ Claims(worker, r).id = r
      BY <2>1, <3>1, <3>2, ClaimKeeps
    <3> QED BY <3>1, <3>3 DEF Holds
  <2>2. CASE ~(worker.sent < BatchSize /\ DueCaptures(TRUE) # {})
    <3>1. worker' = SenderAt("idle") /\ UNCHANGED records
      BY <2>2 DEF WorkerClaims
    <3> QED BY <3>1, RecordsStay, EmptyHands DEF Holds
  <2> QED BY <2>1, <2>2
<1>3. sync' \in BOOLEAN
  <2>1. sync \in BOOLEAN
    BY DEF OutboxInv, OutboxTypeOK
  <2> QED BY <2>1, Zenon DEF WorkerClaims
<1>4. OutboxTypeOK' /\ Holds(page)'
  BY <1>1, <1>2, <1>3, SendersHold DEF OutboxInv, OutboxTypeOK, RecordsGo
<1> QED BY <1>1, <1>2, <1>4, Advance

LEMMA WorkerSendsStep ==
    ASSUME OutboxInv, WorkerSends
    PROVE  OutboxInv' /\ RestStays
<1>1. UNCHANGED <<device, records, added, page, soon, timer, sync, online, used>>
  BY DEF WorkerSends
<1>2. worker \in Sender /\ worker.id \in Captures
  BY DEF WorkerSends, OutboxInv, OutboxTypeOK, Holds
<1>3. PICK answer \in Answers \ {"none"} :
          /\ worker' = [worker EXCEPT !.pc = "answered", !.answer = answer]
          /\ CASE answer = "ack"  -> stored' = stored \cup {worker.id} /\ UNCHANGED late
               [] answer = "lost" -> late' = late \cup {worker.id} /\ UNCHANGED stored
               [] OTHER           -> UNCHANGED <<stored, late>>
  BY DEF WorkerSends, Exchange
<1>4. /\ stored \subseteq stored' /\ stored' \subseteq Captures /\ late' \subseteq Captures
      /\ answer = "ack" => worker.id \in stored'
  BY <1>2, <1>3 DEF OutboxInv, OutboxTypeOK, Answers
<1>5. worker' \in Sender /\ Holds(worker)'
  BY <1>2, <1>3, <1>4 DEF Sender, Holds
<1>6. OutboxTypeOK' /\ Holds(page)' /\ RecordsGo
  BY <1>1, <1>4, <1>5, SendersHold, RecordsStay DEF OutboxInv, OutboxTypeOK
<1> QED BY <1>1, <1>4, <1>5, <1>6, Advance

LEMMA WorkerAnsweredStep ==
    ASSUME OutboxInv, WorkerAnswered
    PROVE  OutboxInv' /\ RestStays
<1>1. /\ UNCHANGED <<device, added, page, soon, timer, online, stored, late, used>>
      /\ worker \in Sender /\ worker.pc = "answered" /\ Holds(worker)
  BY DEF WorkerAnswered, OutboxInv, OutboxTypeOK
<1>2. sync' \in BOOLEAN
  BY DEF WorkerAnswered, EventFails, OutboxInv, OutboxTypeOK
<1>3. RecordsGo
  BY <1>1, AnswerKeeps, RecordsStay DEF WorkerAnswered
<1>4. \E n \in 0..BatchSize : worker' = SenderAt("idle") \/ worker' = [SenderAt("claim") EXCEPT !.sent = n]
  BY <1>1, NumbersFit DEF WorkerAnswered, EventFails, Sender
<1>5. worker' \in Sender /\ Holds(worker)'
  BY <1>4, EmptyHands DEF Holds
<1>6. OutboxTypeOK' /\ Holds(page)'
  BY <1>1, <1>2, <1>3, <1>5, SendersHold DEF OutboxInv, OutboxTypeOK, RecordsGo
<1> QED BY <1>1, <1>3, <1>5, <1>6, Advance

LEMMA TimeStep ==
    ASSUME OutboxInv, NEW r \in Captures, RetryFallsDue(r) \/ LeaseLapses(r)
    PROVE  OutboxInv' /\ RestStays
<1>1. UNCHANGED <<device, added, page, soon, timer, worker, sync, online, stored, late, used>>
  BY DEF RetryFallsDue, LeaseLapses
<1>2. PICK rec \in Record :
          /\ records' = [records EXCEPT ![r] = rec]
          /\ rec.state = records[r].state /\ rec.file = records[r].file
  <2>1. [records[r] EXCEPT !.due = TRUE] \in Record /\ [records[r] EXCEPT !.leased = FALSE] \in Record
        /\ [records[r] EXCEPT !.due = TRUE].state = records[r].state
        /\ [records[r] EXCEPT !.due = TRUE].file = records[r].file
        /\ [records[r] EXCEPT !.leased = FALSE].state = records[r].state
        /\ [records[r] EXCEPT !.leased = FALSE].file = records[r].file
    BY DEF OutboxInv, OutboxTypeOK, Record
  <2>2. \/ records' = [records EXCEPT ![r] = [records[r] EXCEPT !.due = TRUE]]
        \/ records' = [records EXCEPT ![r] = [records[r] EXCEPT !.leased = FALSE]]
    BY DEF RetryFallsDue, LeaseLapses, OutboxInv, OutboxTypeOK
  <2> QED BY <2>1, <2>2
<1>3. records[r].state \notin {"saved", "absent"}
  BY DEF RetryFallsDue, RetryWaits, LeaseLapses, OutboxInv, RestIsQuiet, AtRest
<1>4. RecordsGo
  BY <1>2, <1>3, OneRecordGoes DEF AtRest, Kept, OutboxInv, Secured
<1>5. OutboxTypeOK' /\ Holds(page)' /\ Holds(worker)'
  BY <1>1, <1>4, SendersHold DEF OutboxInv, OutboxTypeOK, RecordsGo
<1> QED BY <1>1, <1>4, <1>5, Advance

LEMMA LateStep ==
    ASSUME OutboxInv, NEW r \in Captures, LateRequestArrives(r)
    PROVE  OutboxInv' /\ RestStays
<1>1. /\ UNCHANGED <<device, records, added, page, soon, timer, worker, sync, online, used>>
      /\ stored' = stored \cup {r} /\ late' = late \ {r}
  BY DEF LateRequestArrives
<1>2. OutboxTypeOK' /\ Holds(page)' /\ Holds(worker)' /\ RecordsGo
  BY <1>1, SendersHold, RecordsStay DEF OutboxInv, OutboxTypeOK
<1> QED BY <1>1, <1>2, Advance

LEMMA OutboxSteps == OutboxInv /\ [OutboxNext]_outboxVars => OutboxInv' /\ [RestStays]_outboxVars
<1> SUFFICES ASSUME OutboxInv, [OutboxNext]_outboxVars PROVE OutboxInv' /\ [RestStays]_outboxVars
  OBVIOUS
<1>1. CASE PageStep \/ TimerFires
  BY <1>1, DrainSteps, PageClaimsStep, PageSendsStep, PageAnsweredStep, PageEndsStep
  DEF PageStep
<1>2. CASE WorkerStep \/ SyncFires
  BY <1>2, WorkerClaimsStep, WorkerSendsStep, WorkerAnsweredStep, SyncFiresStep
  DEF WorkerStep
<1>3. CASE Load \/ Close \/ WorkerDies \/ GoOffline \/ GoOnline
  BY <1>3, LoadStep, StopsStep
<1>4. CASE enqueueFiles \/ acceptSharedFiles
  BY <1>4, PutStep
<1>5. ASSUME NEW r \in Captures,
             \/ manualRetry(r) \/ removeCapture(r)
             \/ RetryFallsDue(r) \/ LeaseLapses(r) \/ LateRequestArrives(r)
      PROVE  OutboxInv' /\ [RestStays]_outboxVars
  BY <1>5, UserStep, TimeStep, LateStep
<1>6. CASE UNCHANGED outboxVars
  <2>1. UNCHANGED records /\ UNCHANGED added /\ UNCHANGED stored
        /\ UNCHANGED page /\ UNCHANGED worker
    BY <1>6 DEF outboxVars
  <2>2. OutboxTypeOK'
    BY <1>6 DEF outboxVars, OutboxInv, OutboxTypeOK
  <2> QED BY <1>6, <2>1, <2>2, RecordsStay, SendersHold, Advance
<1> QED BY <1>1, <1>2, <1>3, <1>4, <1>5, <1>6 DEF OutboxNext

LEMMA OutboxInvariant == OutboxSpec => []OutboxInv
<1>1. OutboxInit => OutboxInv
  BY OutboxStarts
<1>2. OutboxInv /\ [OutboxNext]_outboxVars => OutboxInv'
  BY OutboxSteps
<1> QED BY <1>1, <1>2, PTL DEF OutboxSpec

-----------------------------------------------------------------------------
(* The theorems *)

(* An original is always somewhere: the device lets its copy go only when    *)
(* the server has committed it or the user removes it, and what is shown as  *)
(* saved is on the server.                                                   *)
THEOREM OriginalsAreHeld == OutboxSpec => []OriginalsHeld
<1>1. OutboxInv => OriginalsHeld
  BY DEF OutboxInv, Secured, Kept, OriginalsHeld, OriginalKept, SavedIsStored
<1> QED BY <1>1, OutboxInvariant, PTL

(* No answer of a sender whose lease ran out, and none of a second sender,   *)
(* takes an acknowledgement back or revives a removed record.                *)
THEOREM AcknowledgementsStay == OutboxSpec => AcknowledgementStays
<1>1. OutboxInv /\ [OutboxNext]_outboxVars => [RestStays]_outboxVars
  BY OutboxSteps
<1> QED BY <1>1, OutboxInvariant, PTL DEF OutboxSpec, AcknowledgementStays, RestStays
=============================================================================
