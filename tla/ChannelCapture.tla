---------------------------- MODULE ChannelCapture ----------------------------
(***************************************************************************)
(* What the capture channels share: the service's process, which crashes   *)
(* and starts again, and capture() (app/ingest/storage.py), seen from a    *)
(* channel as one transaction.  Its inner steps and races are those of     *)
(* module Capture.                                                         *)
(*                                                                         *)
(* An occurrence is one thing a channel saw: a file in the inbox or an     *)
(* update of the bot.  A channel derives the client_capture_id of a        *)
(* capture from it (stable_origin_id), so the model identifies the two.    *)
(***************************************************************************)
EXTENDS Naturals

CONSTANTS
    Occurrences,   \* what the channels may see
    ContentOf,     \* ContentOf[o]: the bytes of occurrence o
    MaxRestarts,   \* bound on crashes
    MaxRemovals    \* bound on the documents an operator deletes

ASSUME ChannelAssumption ==
    /\ DOMAIN ContentOf = Occurrences
    /\ MaxRestarts \in Nat
    /\ MaxRemovals \in Nat

VARIABLES
    documents,     \* contents with a source document
    submissions,   \* submissions[o]: rows of capture_submissions about o
    unlinked,      \* occurrences whose submission lost its document
    up,            \* the service runs
    restarts,      \* crashes so far
    removals       \* deleted documents so far

captureTables == <<documents, submissions, unlinked>>
processVars == <<up, restarts, removals>>

CaptureTypeOK ==
    /\ documents \subseteq {ContentOf[o] : o \in Occurrences}
    /\ submissions \in [Occurrences -> 0..2]
    /\ unlinked \subseteq {o \in Occurrences : submissions[o] > 0}
    /\ up \in BOOLEAN
    /\ restarts \in 0..MaxRestarts
    /\ removals \in 0..MaxRemovals

CaptureInit ==
    /\ documents = {}
    /\ submissions = [o \in Occurrences |-> 0]
    /\ unlinked = {}
    /\ up = TRUE
    /\ restarts = 0
    /\ removals = 0

-----------------------------------------------------------------------------
(* One call of capture() *)

\* Defect: the id is drawn anew, so no submission is ever found again.
FreshOrigin(o) == FALSE

\* The occurrence already has a submission under its stable id.
Replayed(o) == submissions[o] > 0

\* A submission whose document was deleted refuses its own repetition.
Refused(o) == Replayed(o) /\ o \in unlinked

\* The answer "duplicate": a repetition, or bytes another occurrence brought.
Duplicate(o) == Replayed(o) \/ ContentOf[o] \in documents

Captured(o) ==
    /\ ~Refused(o)
    /\ documents' = documents \cup {ContentOf[o]}
    /\ submissions' = IF Replayed(o) \/ submissions[o] = 2 THEN submissions
                      ELSE [submissions EXCEPT ![o] = @ + 1]
    /\ UNCHANGED unlinked

\* An operator deletes a document; its submissions stay without it.
RemoveDocument(c) ==
    /\ c \in documents
    /\ removals < MaxRemovals
    /\ documents' = documents \ {c}
    /\ unlinked' = unlinked \cup {o \in Occurrences : submissions[o] > 0 /\ ContentOf[o] = c}
    /\ removals' = removals + 1
    /\ UNCHANGED <<submissions, up, restarts>>
==============================================================================
