-------------------------------- MODULE Inbox --------------------------------
(***************************************************************************)
(* The watched drop directory (app/channels/inbox.py).  A sender creates   *)
(* files under names; the watcher submits a task per event to a pool of    *)
(* threads, and one scan of the directory runs at every start.  A task     *)
(* knows its file by path alone, looks it up again at every step, and      *)
(* shares the path with the other tasks: captured files are moved to       *)
(* processed/, and after three failures of a path to failed/.              *)
(*                                                                         *)
(* A file is an inode.  It is written in place (size 1 up to WholeSize) or *)
(* renamed into the directory whole.                                       *)
(***************************************************************************)
EXTENDS ChannelCapture

CONSTANTS
    Files,         \* what the sender drops, one inode each
    Name,          \* Name[f]: the file name it is dropped under
    Pool,          \* threads of the watcher's executor
    Scan,          \* the thread of the start-up scan
    MaxTasks,      \* bound on the tasks queued for a path
    MaxErrors      \* bound on captures that fail

WholeSize == 3
Quarantine == 3
NoFile == "none"
Seen(f, whole) == <<"inbox", f, whole>>

ASSUME InboxAssumption ==
    /\ DOMAIN Name = Files /\ Files # {}
    /\ \A f \in Files, whole \in BOOLEAN : Seen(f, whole) \in Occurrences
    /\ NoFile \notin Files
    /\ Scan \notin Pool
    /\ MaxTasks \in Nat \ {0}
    /\ MaxErrors \in Nat

VARIABLES
    place,         \* place[f]: where f is
    size,          \* size[f]: what is written of f
    tasks,         \* tasks[n]: queued tasks of path n
    toScan,        \* names the start-up scan has still to visit
    thread,        \* thread[t]: the path t works on and how far it is
    failures,      \* failures[n]: _FAILURE_COUNTS of path n
    raised,        \* raised[f]: tasks that failed on f since the last start, or
                   \* before it was put into failed/
    errors         \* captures that failed so far

inboxVars == <<place, size, tasks, toScan, thread, failures, raised, errors>>

Threads == Pool \cup {Scan}
Paths == {Name[f] : f \in Files}

ThreadState == [pc : {"idle", "look", "sample", "read", "capture", "move"},
                path : Paths, file : Files \cup {NoFile}, sample : 0..WholeSize]

InboxTypeOK ==
    /\ place \in [Files -> {"sender", "inbox", "processed", "failed"}]
    /\ size \in [Files -> 0..WholeSize]
    /\ tasks \in [Paths -> 0..MaxTasks]
    /\ toScan \subseteq Paths
    /\ thread \in [Threads -> ThreadState]
    /\ failures \in [Paths -> 0..Quarantine]
    /\ raised \in [Files -> 0..Quarantine]
    /\ errors \in 0..MaxErrors

Idle == [pc |-> "idle", path |-> CHOOSE n \in Paths : TRUE, file |-> NoFile, sample |-> 0]

InboxInit ==
    /\ place = [f \in Files |-> "sender"]
    /\ size = [f \in Files |-> 0]
    /\ tasks = [n \in Paths |-> 0]
    /\ toScan = {}
    /\ thread = [t \in Threads |-> Idle]
    /\ failures = [n \in Paths |-> 0]
    /\ raised = [f \in Files |-> 0]
    /\ errors = 0

-----------------------------------------------------------------------------
(* The sender and the watcher's events *)

Occupants(n) == {f \in Files : Name[f] = n /\ place[f] = "inbox"}
Present(n) == Occupants(n) # {}
Occupant(n) == CHOOSE f \in Occupants(n) : TRUE

\* on_created, on_modified, on_closed and on_moved each submit a task.
Event(n) ==
    tasks' = IF up /\ tasks[n] < MaxTasks THEN [tasks EXCEPT ![n] = @ + 1] ELSE tasks

\* A sender uses a name again only when its last file is gone.
Drop(f, written) ==
    /\ place[f] = "sender"
    /\ ~Present(Name[f])
    /\ place' = [place EXCEPT ![f] = "inbox"]
    /\ size' = [size EXCEPT ![f] = written]
    /\ Event(Name[f])
    /\ UNCHANGED <<toScan, thread, failures, raised, errors>>

\* Writing goes on through the open file, wherever it has been moved to.
Write(f) ==
    /\ size[f] \in 1..(WholeSize - 1)
    /\ size' = [size EXCEPT ![f] = @ + 1]
    /\ IF place[f] = "inbox" THEN Event(Name[f]) ELSE tasks' = tasks
    /\ UNCHANGED <<place, toScan, thread, failures, raised, errors>>

-----------------------------------------------------------------------------
(* One task *)

At(t, pc) == thread[t].pc = pc
Path(t) == thread[t].path
Works(t, state) == thread' = [thread EXCEPT ![t] = state]

Take(t, n) ==
    /\ t \in Pool /\ At(t, "idle")
    /\ tasks[n] > 0
    /\ tasks' = [tasks EXCEPT ![n] = @ - 1]
    /\ Works(t, [Idle EXCEPT !.pc = "look", !.path = n])
    /\ UNCHANGED <<place, size, toScan, failures, raised, errors>>

ScanNext(n) ==
    /\ n \in toScan /\ At(Scan, "idle")
    /\ toScan' = toScan \ {n}
    /\ IF Present(n) THEN Works(Scan, [Idle EXCEPT !.pc = "look", !.path = n])
                     ELSE thread' = thread
    /\ UNCHANGED <<place, size, tasks, failures, raised, errors>>

\* Any answer that is not an exception forgets the failures of the path.
ClearFailure(n) == failures' = [failures EXCEPT ![n] = 0]

\* The path is gone or the file still grows: the task ends without an exception.
Ignore(t) ==
    /\ Works(t, Idle)
    /\ ClearFailure(Path(t))
    /\ UNCHANGED <<place, size, tasks, toScan, raised, errors>>

LastFailure(n) == failures[n] + 1 >= Quarantine

\* An exception counts against the path.  The third one moves away what is there
\* now, and the count stays.
RecordFailure(t) ==
    LET n == Path(t) IN
    /\ failures' = [failures EXCEPT ![n] = IF @ < Quarantine THEN @ + 1 ELSE @]
    /\ raised' = [f \in Files |-> IF f \in Occupants(n) /\ raised[f] < Quarantine
                                  THEN raised[f] + 1 ELSE raised[f]]
    /\ place' = [f \in Files |-> IF LastFailure(n) /\ f \in Occupants(n)
                                 THEN "failed" ELSE place[f]]
    /\ Works(t, Idle)
    /\ UNCHANGED <<size, tasks, toScan>>

Look(t) ==
    /\ At(t, "look")
    /\ IF Present(Path(t))
       THEN /\ Works(t, [thread[t] EXCEPT !.pc = "sample", !.sample = size[Occupant(Path(t))]])
            /\ UNCHANGED <<place, size, tasks, toScan, failures, raised, errors>>
       ELSE Ignore(t)

\* Two looks find the same size.
SizeIsStable(t) == size[Occupant(Path(t))] = thread[t].sample

\* The assumption behind the check: no sender pauses for the whole interval.
Pausing(t) ==
    /\ size[Occupant(Path(t))] = thread[t].sample
    /\ thread[t].sample < WholeSize

Sample(t) ==
    /\ At(t, "sample")
    /\ \/ /\ Present(Path(t)) /\ ~Pausing(t) /\ SizeIsStable(t)
          /\ Works(t, [thread[t] EXCEPT !.pc = "read"])
          /\ UNCHANGED <<place, size, tasks, toScan, failures, raised, errors>>
       \/ Present(Path(t)) /\ ~Pausing(t) /\ ~SizeIsStable(t) /\ Ignore(t)
       \/ ~Present(Path(t)) /\ Ignore(t)

\* The bytes and the identity of the file come from one look at the path.  A file
\* that goes between the check and the read raises.
Read(t) ==
    /\ At(t, "read")
    /\ \/ /\ Present(Path(t))
          /\ Works(t, [thread[t] EXCEPT !.pc = "capture", !.file = Occupant(Path(t)),
                                       !.sample = size[Occupant(Path(t))]])
          /\ UNCHANGED <<place, size, tasks, toScan, failures, raised, errors>>
       \/ ~Present(Path(t)) /\ Ignore(t)
       \/ ~Present(Path(t)) /\ RecordFailure(t) /\ UNCHANGED errors

Occurrence(t) == Seen(thread[t].file, thread[t].sample = WholeSize)

CaptureFile(t) ==
    /\ At(t, "capture")
    /\ \/ /\ Captured(Occurrence(t))
          /\ Works(t, [thread[t] EXCEPT !.pc = "move"])
          /\ UNCHANGED <<place, size, tasks, toScan, failures, raised, errors>>
       \/ /\ Refused(Occurrence(t)) /\ RecordFailure(t)
          /\ UNCHANGED <<captureTables, errors>>
       \/ /\ errors < MaxErrors /\ errors' = errors + 1
          /\ RecordFailure(t)
          /\ UNCHANGED captureTables

\* What lies under the path now, whether or not it is the file that was read.
Moved(t) == Occupants(Path(t))

MoveToProcessed(t) ==
    /\ At(t, "move")
    /\ \/ /\ Moved(t) # {}
          /\ place' = [f \in Files |-> IF f \in Moved(t) THEN "processed" ELSE place[f]]
          /\ ClearFailure(Path(t))
          /\ Works(t, Idle)
          /\ UNCHANGED <<size, tasks, toScan, raised, errors>>
       \/ Moved(t) = {} /\ RecordFailure(t) /\ UNCHANGED errors

-----------------------------------------------------------------------------
(* The process *)

\* Counters, tasks and threads live in memory.
InboxStops ==
    /\ thread' = [t \in Threads |-> Idle]
    /\ tasks' = [n \in Paths |-> 0]
    /\ toScan' = {}
    /\ failures' = [n \in Paths |-> 0]
    /\ raised' = [f \in Files |-> IF place[f] = "failed" THEN raised[f] ELSE 0]
    /\ UNCHANGED <<place, size, errors>>

\* safe_scan_existing lists the directory once the watcher runs.
Existing == {n \in Paths : Present(n)}

InboxStarts ==
    /\ toScan' = Existing
    /\ UNCHANGED <<place, size, tasks, thread, failures, raised, errors>>

Sending ==
    \/ \E f \in Files, written \in {1, WholeSize} : Drop(f, written)
    \/ \E f \in Files : Write(f)

InboxStep ==
    \/ \E n \in Paths : ScanNext(n) \/ \E t \in Pool : Take(t, n)
    \/ \E t \in Threads : Look(t) \/ Sample(t) \/ Read(t) \/ MoveToProcessed(t)

InboxCapture == \E t \in Threads : CaptureFile(t)

-----------------------------------------------------------------------------
(* Properties *)

\* A file in processed/ was captured whole, however many tasks of its path ran.
ProcessedIsCaptured ==
    \A f \in Files : place[f] = "processed" => submissions[Seen(f, TRUE)] > 0

\* A file in failed/ failed three times itself: the count of its path is its own.
QuarantineEarned == \A f \in Files : place[f] = "failed" => raised[f] = Quarantine

\* The inbox never comes to rest over a whole file nobody tried: with no task, no
\* scan and no busy thread left, what lies there has failed since the start.
NothingForgotten ==
    up /\ toScan = {} /\ (\A n \in Paths : tasks[n] = 0) /\ (\A t \in Threads : At(t, "idle"))
        => \A f \in Files : place[f] = "inbox" /\ size[f] = WholeSize => raised[f] > 0
==============================================================================
