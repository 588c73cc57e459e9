-------------------------------- MODULE Capture --------------------------------
(***************************************************************************)
(* Accepting an original (app/ingest/storage.py): concurrent callers of    *)
(* capture() - web handlers, the inbox pool, Telegram, structured imports  *)
(* - share the blob directory and the database.  A write transaction is a  *)
(* critical section (lock), but the blob it stores and the cleanup of a    *)
(* failed capture are file operations outside the transaction's rollback,  *)
(* and the cleanup runs outside the lock.                                  *)
(*                                                                         *)
(* A content is a sequence of bytes and stands for its hash: documents are *)
(* unique by hash, so a document is named by its content.                  *)
(***************************************************************************)
EXTENDS Integers

CONSTANTS
    Contents,     \* byte sequences that are submitted
    NoContent,    \* marks a capture id without a submission
    CaptureIds,   \* client_capture_id values
    Callers,      \* threads and processes that call capture()
    MaxJobs,      \* bound on the ingest jobs of a document
    MaxFaults     \* bound on crashes and failed transactions

ASSUME NoContentAssumption == NoContent \notin Contents
ASSUME InhabitedAssumption == Contents # {} /\ CaptureIds # {}
ASSUME CaptureBoundAssumption ==
    /\ MaxJobs \in Nat \ {0}
    /\ MaxFaults \in Nat

VARIABLES
    blobs,        \* contents whose verified original is on disk
    documents,    \* contents with a row in source_documents
    jobs,         \* jobs[c]: ingest jobs of c's document
    imports,      \* contents whose document a structured import owns
    origin,       \* origin[id]: the content of the submission, or NoContent
    linked,       \* capture ids whose submission names a document
    lock,         \* callers inside a write transaction
    caller,       \* caller[t]: the request t serves and how far it is
    acked,        \* pairs of a capture id and a content, acknowledged to a device
    faults        \* crashes and failed transactions so far

tables == <<documents, jobs, imports, origin, linked>>
vars == <<blobs, documents, jobs, imports, origin, linked, lock, caller, acked, faults>>

Positions == {"idle", "waiting", "inside", "stored", "committed", "cleanup", "unlink"}
Request == [pc : Positions, id : CaptureIds, content : Contents,
            import : BOOLEAN, created : BOOLEAN, retried : BOOLEAN]

TypeOK ==
    /\ blobs \subseteq Contents
    /\ documents \subseteq Contents
    /\ jobs \in [Contents -> 0..MaxJobs]
    /\ imports \subseteq Contents
    /\ origin \in [CaptureIds -> Contents \cup {NoContent}]
    /\ linked \subseteq CaptureIds
    /\ lock \subseteq Callers
    /\ caller \in [Callers -> Request]
    /\ acked \subseteq CaptureIds \X Contents
    /\ faults \in 0..MaxFaults

Quiet == [pc |-> "idle", id |-> CHOOSE i \in CaptureIds : TRUE,
          content |-> CHOOSE c \in Contents : TRUE,
          import |-> FALSE, created |-> FALSE, retried |-> FALSE]

Init ==
    /\ blobs = {}
    /\ documents = {}
    /\ jobs = [c \in Contents |-> 0]
    /\ imports = {}
    /\ origin = [id \in CaptureIds |-> NoContent]
    /\ linked = {}
    /\ lock = {}
    /\ caller = [t \in Callers |-> Quiet]
    /\ acked = {}
    /\ faults = 0

-----------------------------------------------------------------------------
(* One call of capture() *)

Id(t) == caller[t].id
Content(t) == caller[t].content

At(t, pc) == caller[t].pc = pc
Goes(t, pc) == caller' = [caller EXCEPT ![t].pc = pc]

\* A structured import has no capture id of the client's: capture draws a new one.
Fresh(id) ==
    /\ origin[id] = NoContent
    /\ \A t \in Callers : ~At(t, "idle") => Id(t) # id

Submit(t, id, c, import) ==
    /\ At(t, "idle")
    /\ import => Fresh(id)
    /\ caller' = [caller EXCEPT ![t] = [pc |-> "waiting", id |-> id, content |-> c,
                                        import |-> import, created |-> FALSE,
                                        retried |-> FALSE]]
    /\ UNCHANGED <<blobs, tables, lock, acked, faults>>

Begin(t) ==
    /\ At(t, "waiting")
    /\ lock = {}
    /\ lock' = {t}
    /\ Goes(t, "inside")
    /\ UNCHANGED <<blobs, tables, acked, faults>>

\* Defect: the id alone decides that this is a replay.
IdAloneConflict(t) ==
    \/ origin[Id(t)] # NoContent /\ Id(t) \notin linked
    \/ caller[t].import /\ Content(t) \in documents /\ jobs[Content(t)] > 0

\* The id names other bytes or a removed capture, or a structured import meets
\* bytes with generic work.  A document of another kind always has such work.
Conflict(t) ==
    \/ origin[Id(t)] \notin {NoContent, Content(t)}
    \/ origin[Id(t)] # NoContent /\ Id(t) \notin linked
    \/ caller[t].import /\ Content(t) \in documents /\ jobs[Content(t)] > 0

\* An exception leaves the transaction; a blob this call created may have to go.
Leave(t) == Goes(t, IF caller[t].created THEN "cleanup" ELSE "idle")

Refuse(t) ==
    /\ At(t, "inside")
    /\ Conflict(t)
    /\ lock' = lock \ {t}
    /\ Leave(t)
    /\ UNCHANGED <<blobs, tables, acked, faults>>

\* Writes the original unless a verified one is there.  Only the blob of a new
\* document counts as created: an existing document's is repaired.
EnsureBlob(t) ==
    /\ blobs' = blobs \cup {Content(t)}
    /\ caller' = [caller EXCEPT ![t].pc = "stored",
                     ![t].created = @ \/ (Content(t) \notin documents /\ Content(t) \notin blobs)]

Store(t) ==
    /\ At(t, "inside")
    /\ ~Conflict(t)
    /\ EnsureBlob(t)
    /\ UNCHANGED <<tables, lock, acked, faults>>

Replay(t) ==
    /\ origin[Id(t)] # NoContent
    /\ UNCHANGED tables

InsertSubmission(t) ==
    /\ origin[Id(t)] = NoContent
    /\ origin' = [origin EXCEPT ![Id(t)] = Content(t)]
    /\ linked' = linked \cup {Id(t)}

\* Defect: every new submission queues its document.
DedupAndQueue(t) ==
    /\ Content(t) \in documents
    /\ InsertSubmission(t)
    /\ jobs' = [jobs EXCEPT ![Content(t)] = IF @ < MaxJobs THEN @ + 1 ELSE @]
    /\ UNCHANGED <<documents, imports>>

Dedup(t) ==
    /\ Content(t) \in documents
    /\ InsertSubmission(t)
    /\ UNCHANGED <<documents, jobs, imports>>

InsertDocument(t) ==
    /\ Content(t) \notin documents
    /\ InsertSubmission(t)
    /\ documents' = documents \cup {Content(t)}
    /\ jobs' = [jobs EXCEPT ![Content(t)] = IF caller[t].import THEN 0 ELSE 1]
    /\ UNCHANGED imports

\* The transaction commits and capture() returns, which a device hears as Saved.
Commit(t) ==
    /\ At(t, "stored")
    /\ Replay(t) \/ Dedup(t) \/ InsertDocument(t)
    /\ lock' = lock \ {t}
    /\ acked' = IF caller[t].import THEN acked ELSE acked \cup {<<Id(t), Content(t)>>}
    /\ Goes(t, IF caller[t].import THEN "committed" ELSE "idle")
    /\ UNCHANGED <<blobs, faults>>

\* An integrity error is tried once more; another exception leaves.
RollBack(t) ==
    /\ caller[t].pc \in {"inside", "stored"}
    /\ faults < MaxFaults
    /\ faults' = faults + 1
    /\ lock' = lock \ {t}
    /\ \/ Leave(t)
       \/ /\ ~caller[t].retried
          /\ caller' = [caller EXCEPT ![t].pc = "waiting", ![t].retried = TRUE]
    /\ UNCHANGED <<blobs, tables, acked>>

\* A reader's view, with no lock: is there a document with this blob?
CheckReference(t) ==
    /\ At(t, "cleanup")
    /\ IF Content(t) \in blobs /\ Content(t) \notin documents
       THEN Goes(t, "unlink")
       ELSE Goes(t, "idle")
    /\ UNCHANGED <<blobs, tables, lock, acked, faults>>

Unlink(t) ==
    /\ At(t, "unlink")
    /\ blobs' = blobs \ {Content(t)}
    /\ Goes(t, "idle")
    /\ UNCHANGED <<tables, lock, acked, faults>>

-----------------------------------------------------------------------------
(* Structured imports, operators and faults *)

\* The preview of a structured import, a transaction after its capture's; a
\* trigger refuses a document with generic work.  It may fail for other reasons.
Preview(t) ==
    /\ At(t, "committed")
    /\ lock = {}
    /\ \/ /\ Content(t) \in documents
          /\ jobs[Content(t)] = 0
          /\ imports' = imports \cup {Content(t)}
          /\ UNCHANGED faults
       \/ /\ jobs[Content(t)] > 0 \/ Content(t) \notin documents
          /\ UNCHANGED <<imports, faults>>
       \/ /\ faults < MaxFaults
          /\ faults' = faults + 1
          /\ UNCHANGED imports
    /\ Goes(t, "idle")
    /\ UNCHANGED <<blobs, documents, jobs, origin, linked, lock, acked>>

\* A trigger refuses generic work on a structured import's document.
reprocess(c) ==
    /\ lock = {}
    /\ c \in documents
    /\ c \notin imports
    /\ jobs[c] < MaxJobs
    /\ jobs' = [jobs EXCEPT ![c] = @ + 1]
    /\ UNCHANGED <<blobs, documents, imports, origin, linked, lock, caller, acked, faults>>

\* The submissions stay and lose their document; the blob stays on disk.
delete_document(c) ==
    /\ lock = {}
    /\ c \in documents
    /\ c \notin imports
    /\ documents' = documents \ {c}
    /\ jobs' = [jobs EXCEPT ![c] = 0]
    /\ linked' = {id \in linked : origin[id] # c}
    /\ UNCHANGED <<blobs, imports, origin, lock, caller, acked, faults>>

Crash ==
    /\ faults < MaxFaults
    /\ faults' = faults + 1
    /\ lock' = {}
    /\ caller' = [t \in Callers |-> Quiet]
    /\ UNCHANGED <<blobs, tables, acked>>

CaptureStep(t) ==
    \/ \E id \in CaptureIds, c \in Contents, import \in BOOLEAN : Submit(t, id, c, import)
    \/ Begin(t)
    \/ Refuse(t)
    \/ Store(t)
    \/ Commit(t)
    \/ RollBack(t)
    \/ CheckReference(t)
    \/ Unlink(t)
    \/ Preview(t)

Administration == \E c \in Contents : reprocess(c) \/ delete_document(c)

Next == (\E t \in Callers : CaptureStep(t)) \/ Administration \/ Crash

Spec == Init /\ [][Next]_vars

-----------------------------------------------------------------------------
(* Safety *)

(* A capture id that was acknowledged for some bytes never stands for other   *)
(* bytes, and its submission still names their document unless an operator    *)
(* deleted it: no crash, retry or concurrent capture takes that back.         *)
AckIsCommitted ==
    \A ack \in acked :
        /\ origin[ack[1]] = ack[2]
        /\ ack[1] \in linked => ack[2] \in documents

(* "Keep the submission row when a document is deleted so an old device retry *)
(* cannot silently resurrect evidence that the user intentionally removed."   *)
RemovedStaysRemoved ==
    [][\A id \in CaptureIds :
           origin[id] # NoContent =>
               /\ origin'[id] = origin[id]
               /\ id \notin linked => id \notin linked']_vars

(* Submitting bytes that are there already queues no second run of them.      *)
DedupQueuesNothing ==
    [][\A c \in documents \cap documents' :
           jobs'[c] > jobs[c] => UNCHANGED <<origin, linked, acked>>]_vars

(* "Generic extraction and deterministic structured parsing must never own    *)
(* the same immutable original."                                              *)
OneImporter == \A c \in imports : c \in documents /\ jobs[c] = 0

(* What a device or a page was told about its bytes stays true: which bytes   *)
(* the id stands for, that their document is there, and who processes them.   *)
AnswersHold == TypeOK /\ AckIsCommitted /\ OneImporter

(* A repetition adds nothing: it neither brings evidence back that was        *)
(* removed nor has bytes that are there processed again.                      *)
RepeatsAddNothing == RemovedStaysRemoved /\ DedupQueuesNothing

-----------------------------------------------------------------------------
(* What the repository says of captures *)

(* "Saved: the server has acknowledged its durable copy."                     *)
AckedIsStored ==
    \A id \in linked : <<id, origin[id]>> \in acked => origin[id] \in blobs
===============================================================================
